------------------------------ MODULE MCStorage ------------------------------
(***************************************************************************)
(* What is left behind by programs that may die anywhere: the two          *)
(* implementations of StateStore in Storage, and the generator of review   *)
(* bundles, ReviewBundle.  They share no state; a behaviour is one of one  *)
(* of them.                                                                *)
(***************************************************************************)
EXTENDS Storage, ReviewBundle

VARIABLE part   \* which of them

MCDirectories == {"kept", "missing"}

\* Transitions 2, 3 and 4 complete rounds; 3 repeats what 2 computes.
MCDigest == [t \in {2, 3, 4} |-> IF t = 4 THEN 2 ELSE 1]

\* Two evidence files and two commits; one of the files is not in the first commit.
MCPaths == {"a", "b"}
MCCommits == {"c1", "c2"}
MCCommitted == [c \in MCCommits |-> [p \in MCPaths |->
                  IF c = "c1" THEN (IF p = "a" THEN 1 ELSE 0) ELSE 2]]

MCVersions == 1 .. 2

\* The order of the archive's members: evidence before the marker and after the checksums.
MCRank == [f \in MCPaths \cup Generated |->
             CASE f = "a" -> 1 [] f = "marker" -> 2 [] f = "baseline" -> 3
               [] f = "template" -> 4 [] f = "sums" -> 5 [] f = "b" -> 6]

MCInit ==
  /\ Init /\ P!Init /\ BundleInit
  /\ part \in {"files", "database", "bundle"}
  /\ part # "files" => dir = "kept"
  /\ part # "bundle" => head = "c1"

MCNext ==
  \/ part = "files" /\ Next /\ UNCHANGED <<part, databaseVars, bundleVars>>
  \/ part = "database" /\ P!Next /\ UNCHANGED <<part, vars, bundleVars>>
  \/ part = "bundle" /\ BundleNext /\ UNCHANGED <<part, vars, databaseVars>>

MCSpec == MCInit /\ [][MCNext]_<<part, vars, databaseVars, bundleVars>>

=============================================================================
