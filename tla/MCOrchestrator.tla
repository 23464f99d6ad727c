----------------------------- MODULE MCOrchestrator -----------------------------
(* Instances of Orchestrator. *)
EXTENDS Orchestrator

MCWorkers == <<"w1", "w2">>

\* The preparation flags in turn, and the topologies.
MCOptions ==
  {{"network", "dashboard", "npm", "auto_install"} \cup S :
     S \in {{}, {"check_only", "force_certs"}}}
  \cup {{"network", "keep_alive", "skip_native_build"}, {"dashboard"},
        {"dashboard", "npm"}}

\* Nothing is there, everything is, one item is missing, or all but the packages of
\* the dashboard are half-made.
MCLeftovers ==
  LET But(y, v, w) == [x \in Items |-> IF x = y THEN v ELSE w]
  IN {But("frontend", v, w) : <<v, w>> \in {<<"absent", "absent">>, <<"whole", "whole">>, <<"absent", "partial">>}}
     \cup {But(y, "absent", "whole") : y \in Items \ {"frontend"}}

=============================================================================
