------------------------------- MODULE FileStore -------------------------------
(***************************************************************************)
(* FileStateStore (pkg/coordinator/state_store.go): one snapshot per file, *)
(* replaced by writing a temporary file and renaming it.                   *)
(*                                                                         *)
(* The process sees the file system through the page cache; after a power  *)
(* loss only what was synced is certain.  A file not synced may come back  *)
(* torn, a directory not synced with any of the files renamed since its    *)
(* last sync, and a directory that was just created not at all, because    *)
(* only the state's own directory is synced and never its parent.          *)
(*                                                                         *)
(* Snapshots are numbered by the calls of Commit; 0 is no state file.      *)
(***************************************************************************)
EXTENDS Integers, FiniteSets

CONSTANTS
  MaxCommits,   \* bound: calls of Commit
  MaxDeaths,    \* bound: crashes and power losses
  Directories   \* the state's directory at first: "kept" on disk or "missing"

ASSUME FileStoreAssumption ==
  /\ MaxCommits \in Nat /\ MaxDeaths \in Nat
  /\ Directories \subseteq {"kept", "missing"}

VARIABLES
  pc,      \* where the caller of the store is
  snap,    \* the snapshot of the last Commit
  temp,    \* the temporary file: its contents
  entry,   \* the snapshot file
  kept,    \* the files the entry may stand for on disk
  dir,     \* the directory: "missing", "created" and not certain to outlive the
           \* machine, "made" and certain, or "kept" since before the first start
  deaths,  \* crashes and power losses so far
  reply,   \* the last answer of the store
  acked    \* history: the last Commit that succeeded

vars == <<pc, snap, temp, entry, kept, dir, deaths, reply, acked>>

Torn == -1
NoFile == [data |-> 0, synced |-> TRUE]
File == [data : -1 .. MaxCommits, synced : BOOLEAN]

Answer(kind, value) == [kind |-> kind, value |-> value]

Init ==
  /\ pc = "down" /\ snap = 0 /\ temp = NoFile
  /\ entry = NoFile /\ kept = {NoFile} /\ dir \in Directories
  /\ deaths = 0 /\ reply = Answer("none", 0) /\ acked = 0

----------------------------------------------------------------------------

\* The coordinator starts.  It does not serve a state that cannot be read or
\* decoded.
Load ==
  /\ pc = "down"
  /\ \/ entry.data # Torn /\ pc' = "idle" /\ reply' = Answer("loaded", entry.data)
     \/ pc' = "down" /\ reply' = Answer("error", 0)
  /\ UNCHANGED <<snap, temp, entry, kept, dir, deaths, acked>>

Commit ==
  /\ pc = "idle" /\ snap < MaxCommits
  /\ snap' = snap + 1 /\ pc' = "create" /\ reply' = Answer("none", 0)
  /\ UNCHANGED <<temp, entry, kept, dir, deaths, acked>>

MkdirAll == dir' = IF dir = "missing" THEN "created" ELSE dir

\* CreateTemp in the state's directory, which is created first if need be.
Create ==
  /\ pc = "create" /\ pc' = "write"
  /\ temp' = [data |-> Torn, synced |-> FALSE] /\ MkdirAll
  /\ UNCHANGED <<snap, entry, kept, deaths, reply, acked>>

\* The snapshot does not validate, the context is done, the path is no regular
\* file, or the temporary file cannot be created.
Refuse ==
  /\ pc = "create" /\ pc' = "idle" /\ reply' = Answer("error", 0)
  /\ (MkdirAll \/ UNCHANGED dir)
  /\ UNCHANGED <<snap, temp, entry, kept, deaths, acked>>

Write ==
  /\ pc = "write" /\ pc' = "sync"
  /\ temp' = [temp EXCEPT !.data = snap]
  /\ UNCHANGED <<snap, entry, kept, dir, deaths, reply, acked>>

\* Mutant: temp.Sync() is left out.
Sync_Skipped ==
  /\ pc = "sync" /\ pc' = "rename" /\ UNCHANGED temp
  /\ UNCHANGED <<snap, entry, kept, dir, deaths, reply, acked>>

Sync ==
  /\ pc = "sync" /\ pc' = "rename"
  /\ temp' = [temp EXCEPT !.synced = TRUE]
  /\ UNCHANGED <<snap, entry, kept, dir, deaths, reply, acked>>

\* A step before the rename, or the rename, fails; the temporary file goes.
Abort ==
  /\ pc \in {"write", "sync", "rename"} /\ pc' = "idle" /\ reply' = Answer("error", 0)
  /\ temp' = NoFile
  /\ UNCHANGED <<snap, entry, kept, dir, deaths, acked>>

Rename ==
  /\ pc = "rename" /\ pc' = "syncdir"
  /\ entry' = temp /\ kept' = kept \cup {temp} /\ temp' = NoFile
  /\ UNCHANGED <<snap, dir, deaths, reply, acked>>

\* Mutant: the directory is not synced.
SyncDirectory_Skipped ==
  /\ pc = "syncdir" /\ pc' = "idle" /\ reply' = Answer("ok", 0)
  /\ acked' = snap /\ UNCHANGED kept
  /\ UNCHANGED <<snap, temp, entry, dir, deaths>>

\* syncStateDirectory() makes the renames so far certain.
SyncDirectory ==
  /\ pc = "syncdir" /\ pc' = "idle" /\ reply' = Answer("ok", 0)
  /\ acked' = snap /\ kept' = {entry}
  /\ UNCHANGED <<snap, temp, entry, dir, deaths>>

\* The rename is done and stays; Commit reports an error.
SyncDirectoryFails ==
  /\ pc = "syncdir" /\ pc' = "idle" /\ reply' = Answer("error", 0)
  /\ UNCHANGED <<snap, temp, entry, kept, dir, deaths, acked>>

----------------------------------------------------------------------------
(* Deaths *)

Dies ==
  /\ deaths < MaxDeaths /\ deaths' = deaths + 1
  /\ pc' = "down" /\ reply' = Answer("none", 0) /\ temp' = NoFile
  /\ UNCHANGED <<snap, acked>>

\* The process dies, the page cache stays.
Crash == Dies /\ UNCHANGED <<entry, kept, dir>>

\* What an unsynced file may have become.
Survivors(f) == {f.data, IF f.synced THEN f.data ELSE Torn}

PowerLoss ==
  /\ Dies
  /\ \/ /\ dir' = IF dir = "created" THEN "made" ELSE dir
        /\ \E f \in kept : \E d \in Survivors(f) :
             entry' = [data |-> d, synced |-> TRUE]
     \/ dir = "created" /\ dir' = "missing" /\ entry' = NoFile
  /\ kept' = {entry'}

Next ==
  \/ Load \/ Commit \/ Create \/ Refuse \/ Write \/ Sync \/ Abort \/ Rename
  \/ SyncDirectory \/ SyncDirectoryFails \/ Crash \/ PowerLoss

Spec == Init /\ [][Next]_vars

----------------------------------------------------------------------------
(* Properties *)

\* There is a temporary file only between its creation and the rename.
TypeOK ==
  /\ pc \in {"down", "idle", "create", "write", "sync", "rename", "syncdir"}
  /\ snap \in 0 .. MaxCommits /\ acked \in 0 .. snap
  /\ pc \notin {"write", "sync", "rename"} => temp = NoFile
  /\ temp \in File /\ entry \in File /\ kept \subseteq File
  /\ dir \in {"missing", "created", "made", "kept"}
  /\ deaths \in 0 .. MaxDeaths
  /\ reply \in [kind : {"none", "ok", "error", "loaded"}, value : 0 .. MaxCommits]

\* "Write and fsync the temporary file; atomically rename it" (docs/architecture/
\* durable-state-v0.6.md): whenever the machine stops, the state file is absent
\* or a whole snapshot that Load can decode.
LoadsWhole == \A f \in kept \cup {entry} : f.data # Torn /\ f.synced

\* In a directory that was there before the first start, no snapshot older than the
\* last one that Commit reported as written can come back, whenever the process
\* dies or the machine stops, and whatever became of failed commits in between.
AckedSurvives == dir = "kept" => \A f \in kept \cup {entry} : f.data >= acked

\* In a directory that was there before the first start, the store keeps the
\* contract of StateStore: no order of failures, crashes and power losses makes
\* Load return anything but a snapshot that may be expected.
Abstract == INSTANCE StateStore WITH
  Value <- 1 .. MaxCommits, Nothing <- 0,
  possible <- {f.data : f \in kept \cup {entry}},
  request <- IF pc \in {"down", "idle"} THEN 0 ELSE snap

KeepsContract == Abstract!Init /\ [][dir = "kept" => Abstract!Next]_(Abstract!store)

=============================================================================
