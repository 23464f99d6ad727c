CONSTANTS
  cpu = cpu
  gpu = gpu
  flip = flip
  Workers <- MCThree
  Accelerated <- MCGpu
  Malicious <- MCFlip
  Private <- MCGpu
  Clip = 1
  Noise <- MCNoise
  Gradients <- MCGradients
  Rounds = 2
  MaxBatches = 1
SPECIFICATION Spec
INVARIANT UpdateIsModelDelta
CHECK_DEADLOCK FALSE
