---------------------------- MODULE MCLocalTraining ----------------------------
(* Instances of LocalTraining. *)
EXTENDS LocalTraining

CONSTANTS cpu, gpu, flip

MCThree == {cpu, gpu, flip}
MCGpu == {gpu}
MCFlip == {flip}
MCNoise == {0, 1}
MCGradients == {1}

=============================================================================
