-------------------------------- MODULE Storage --------------------------------
(***************************************************************************)
(* The two implementations of StateStore side by side: FileStore, whose    *)
(* state this module extends, and PostgresStore as P.  They share nothing; *)
(* the coordinator is configured with one of them.                         *)
(***************************************************************************)
EXTENDS FileStore

CONSTANTS Digest, MaxTransitions, MaxFaults  \* of PostgresStore

VARIABLES at, mem, last, before, job, row, chain, objects, verified, answer, answered, faults

P == INSTANCE PostgresStore WITH pc <- at, reply <- answer, acked <- answered

ASSUME DatabaseAssumption == P!PostgresAssumption

databaseVars ==
  <<at, mem, last, before, job, row, chain, objects, verified, answer, answered, faults>>

----------------------------------------------------------------------------

\* PostgresStateStore publishes no reference to a model that cannot be read, its
\* audit chain verifies at any time and has the events of every stored transition
\* exactly once, and a transition answered with success stays in the state row,
\* through rollbacks of later calls, crashes and restarts.
DatabaseIsConsistent ==
  /\ P!TypeOK /\ P!PublishedModelExists /\ P!ChainVerifies
  /\ P!StoredIsAudited /\ P!AnsweredIsStored

\* PostgresStateStore keeps the contract of StateStore.
DatabaseKeepsContract == P!KeepsContract

=============================================================================
