------------------------------- MODULE StateStore -------------------------------
(***************************************************************************)
(* What the durable coordinator relies on: the StateStore interface of     *)
(* pkg/coordinator/state_store.go.  Commit replaces the snapshot, and its  *)
(* success is final; a failed Commit, or the death of the process in one,  *)
(* leaves it open whether a later Load returns the old or the new          *)
(* snapshot; Load returns a whole snapshot, or nothing when there never    *)
(* was one.                                                                *)
(***************************************************************************)
CONSTANTS Value, Nothing

VARIABLES
  possible,  \* what Load may still return
  request,   \* the snapshot a Commit in progress writes, or Nothing
  reply      \* the last answer

store == <<possible, request, reply>>

Answer(kind, value) == [kind |-> kind, value |-> value]
NoAnswer == Answer("none", Nothing)

Init == possible = {Nothing} /\ request = Nothing /\ reply = NoAnswer

Load ==
  /\ request = Nothing /\ UNCHANGED <<possible, request>>
  /\ \/ \E v \in possible : reply' = Answer("loaded", v)
     \/ reply' = Answer("error", Nothing)

Commit ==
  /\ request = Nothing /\ UNCHANGED possible
  /\ request' \in Value /\ reply' = NoAnswer

\* The new snapshot is in place; its Commit has not returned.
Land ==
  /\ request # Nothing /\ UNCHANGED <<request, reply>>
  /\ possible' \in {possible \cup {request}, {request}}

Succeed ==
  /\ request \in possible
  /\ possible' = {request} /\ request' = Nothing /\ reply' = Answer("ok", Nothing)

Fail ==
  /\ request # Nothing /\ UNCHANGED possible
  /\ request' = Nothing /\ reply' = Answer("error", Nothing)

\* The process dies, and perhaps the machine: the doubt may be settled.
Die ==
  /\ request' = Nothing /\ reply' = NoAnswer
  /\ possible' # {} /\ possible' \subseteq possible

Next == Load \/ Commit \/ Land \/ Succeed \/ Fail \/ Die

Spec == Init /\ [][Next]_store

=============================================================================
