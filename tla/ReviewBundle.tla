----------------------------- MODULE ReviewBundle -----------------------------
(***************************************************************************)
(* The generator of the security-review hand-off                           *)
(* (scripts/prepare_security_review_bundle.py): a directory with copies of *)
(* the evidence files, and an archive of that directory.  It is run again  *)
(* and again in a checkout that people keep working in, with outputs that  *)
(* may be left from an earlier run, from a run that died, or may be        *)
(* somebody's own.                                                         *)
(*                                                                         *)
(* A directory, and a readable archive, is a function from file names to   *)
(* contents.  An evidence file's content is its version; the other files   *)
(* hold what the program derives them from.  The program can end anywhere: *)
(* with a ReviewBundleError (Fail), by an exception nobody catches, which  *)
(* unwinds the with-statement the archive is written in (Unwind), or with  *)
(* nothing run after it (Die).                                             *)
(***************************************************************************)
EXTENDS Integers, FiniteSets, Functions

CONSTANTS
  Paths,      \* EVIDENCE_PATHS
  Manifest,   \* release/v1.0-evidence.json, one of them
  Rank,       \* Rank[f]: the place of a bundle's file in their sorted order
  Commits,    \* the commits of the repository
  Committed,  \* Committed[c][p]: the version of evidence file p in commit c, 0 if it has none
  Versions,   \* the versions an evidence file can be edited to
  MaxRuns,    \* bound: runs of the generator
  MaxEdits    \* bound: changes of the checkout by its user

\* The other files of a bundle, and a file of somebody's own.
Generated == {"marker", "baseline", "template", "sums"}

\* No evidence file has the name of one of these.
ASSUME ReviewBundleAssumption ==
  /\ Paths \cap (Generated \cup {"notes"}) = {}
  /\ Manifest \in Paths
  /\ Rank \in [Paths \cup Generated -> Nat]
  /\ Committed \in [Commits -> [Paths -> {0} \cup Versions]]
  /\ MaxRuns \in Nat
  /\ MaxEdits \in Nat

Absent == [state |-> "absent"]   \* nothing at the path
CutShort == [state |-> "torn"]   \* an archive that cannot be read to its end
Tree(files) == [state |-> "tree", files |-> files]

\* Somebody's own directory or archive: no marker.
Foreign == Tree([f \in {"notes"} |-> 0])

VARIABLES
  head,      \* git HEAD
  tree,      \* the evidence files of the working tree, 0 if missing
  folder,    \* what is at --output-dir
  archive,   \* what is at --archive
  step,      \* where the program is, "idle" when it does not run
  args,      \* the arguments of the run: commit, force, layout
  commit,    \* reviewed_commit
  copied,    \* the evidence files copied so far
  packed,    \* the files written to the archive so far
  result,    \* what became of the last run
  found,     \* ghost: the outputs as the run found them
  touched,   \* ghost: the checkout changed during the run
  runs, edits

bundleVars == <<head, tree, folder, archive, step, args, commit, copied, packed, result, found, touched, runs, edits>>
checkout == <<head, tree, touched, edits>>
outputs == <<folder, archive>>

\* No commit, for an unset --commit and before one is resolved.
NoCommit == "none"

Layouts == {"apart", "over the root", "archive inside"}
Arguments == [commit : Commits \cup {NoCommit}, force : BOOLEAN, layout : Layouts]
NoArguments == [commit |-> NoCommit, force |-> FALSE, layout |-> "apart"]

Nothing == <<Absent, Absent>>

BundleInit ==
  /\ head \in Commits
  /\ tree = Committed[head]
  /\ folder = Absent /\ archive = Absent
  /\ step = "idle"
  /\ args = NoArguments
  /\ commit = NoCommit
  /\ copied = {} /\ packed = {}
  /\ result = "none"
  /\ found = Nothing
  /\ touched = FALSE
  /\ runs = 0 /\ edits = 0

-----------------------------------------------------------------------------
(* The people around it *)

Changed == edits < MaxEdits /\ edits' = edits + 1 /\ touched' = TRUE

\* Somebody edits, adds or removes an evidence file.
Edit(p) ==
  /\ Changed
  /\ \E v \in ({0} \cup Versions) \ {tree[p]} : tree' = [tree EXCEPT ![p] = v]
  /\ UNCHANGED <<head, folder, archive, step, args, commit, copied, packed, result, found, runs>>

\* Somebody checks out a commit, local changes discarded; a file that neither
\* commit has stays.
Checkout ==
  /\ Changed
  /\ \E c \in Commits :
       /\ head' = c
       /\ tree' = [p \in Paths |-> IF Committed[head][p] = 0 /\ Committed[c][p] = 0
                                  THEN tree[p] ELSE Committed[c][p]]
  /\ UNCHANGED <<folder, archive, step, args, commit, copied, packed, result, found, runs>>

\* A file appears among others, or is overwritten.
With(files, name, content) ==
  [f \in DOMAIN files \cup {name} |-> IF f = name THEN content ELSE files[f]]

Put(name, content) == folder' = Tree(With(folder.files, name, content))

\* Between runs, somebody puts something of their own where the outputs go, adds
\* a file to the directory that is there, or clears an output away.
UserWrites ==
  /\ step = "idle" /\ runs < MaxRuns
  /\ \/ \E d \in {Absent, Foreign} : folder' = d /\ UNCHANGED archive
     \/ folder # Absent /\ Put("notes", 0) /\ UNCHANGED archive
     \/ \E a \in {Absent, Foreign} : archive' = a /\ UNCHANGED folder
  /\ UNCHANGED <<head, tree, step, args, commit, copied, packed, result, found, touched, runs, edits>>

-----------------------------------------------------------------------------
(* The program *)

\* main and build_review_bundle begin.
Begin ==
  /\ step = "idle" /\ runs < MaxRuns
  /\ runs' = runs + 1
  /\ args' \in Arguments
  /\ step' = "clean"
  /\ commit' = NoCommit /\ copied' = {} /\ packed' = {}
  /\ result' = "none" /\ found' = <<folder, archive>> /\ touched' = FALSE
  /\ UNCHANGED <<head, tree, folder, archive, edits>>

\* The program ends, and its variables with it.
End(why) ==
  /\ step' = "idle" /\ result' = why
  /\ args' = NoArguments /\ commit' = NoCommit /\ copied' = {} /\ packed' = {} /\ found' = Nothing
  /\ UNCHANGED <<checkout, runs>>

\* It ends with what is on disk as it is; on a ReviewBundleError main reports it and
\* returns 1.
Fail(why) == End(why) /\ UNCHANGED outputs

\* The program goes on; its own variables but these are as they were.
Proceed(next) == step' = next /\ UNCHANGED <<args, packed, result, found, runs>>

\* _assert_tracked_checkout_clean; a path HEAD does not have is untracked and
\* is not looked at.
Clean == \A p \in Paths : Committed[head][p] # 0 => tree[p] = Committed[head][p]

CheckClean ==
  /\ step = "clean"
  /\ \/ Clean /\ Proceed("commit") /\ UNCHANGED <<checkout, outputs, commit, copied>>
     \/ ~Clean /\ Fail("refused")

\* _resolve_commit.
ResolveCommit ==
  /\ step = "commit"
  /\ \/ /\ args.commit \in {NoCommit, head}
        /\ commit' = head
        /\ Proceed("prepare")
        /\ UNCHANGED <<checkout, outputs, copied>>
     \/ args.commit \notin {NoCommit, head} /\ Fail("refused")

\* _run_git raises.
GitFails == step \in {"clean", "commit"} /\ Fail("refused")

Marked(out) == out.state = "tree" /\ "marker" \in DOMAIN out.files

\* The archive may be written: nothing there, or under --force a bundle of an
\* earlier run.  _archive_has_bundle_marker reads the archive to its end: one that
\* has none is no bundle to it.
ArchiveReplaceable == archive = Absent \/ (args.force /\ Marked(archive))

DirReplaceable == folder = Absent \/ (args.force /\ Marked(folder))

\* Mutant: the old directory is judged and removed before the archive is.
Prepare_DirFirst ==
  /\ step = "prepare"
  /\ \/ /\ args.layout = "apart" /\ DirReplaceable
        /\ folder' = Absent
        /\ UNCHANGED archive
        /\ \/ ArchiveReplaceable /\ Proceed("remove") /\ UNCHANGED <<checkout, commit, copied>>
           \/ ~ArchiveReplaceable /\ End("refused")
     \/ ~(args.layout = "apart" /\ DirReplaceable) /\ Fail("refused")

\* _prepare_output_directory, its checks.
Prepare ==
  /\ step = "prepare"
  /\ \/ /\ args.layout = "apart" /\ ArchiveReplaceable /\ DirReplaceable
        /\ Proceed("remove")
        /\ UNCHANGED <<checkout, outputs, commit, copied>>
     \/ ~(args.layout = "apart" /\ ArchiveReplaceable /\ DirReplaceable) /\ Fail("refused")

\* _archive_has_bundle_marker catches what tarfile raises for a tar that ends early
\* and the archive is refused; a gzip stream that ends early is an EOFError, which
\* nobody catches.
ProbeRaises ==
  /\ step = "prepare"
  /\ args.layout = "apart" /\ args.force /\ archive = CutShort
  /\ Fail("crashed")

\* shutil.rmtree of the earlier bundle and whatever was put into it.
Remove ==
  /\ step = "remove"
  /\ folder' = Absent
  /\ Proceed("mkdir")
  /\ UNCHANGED <<checkout, archive, commit, copied>>

MakeDir ==
  /\ step = "mkdir"
  /\ folder' = Tree(<<>>)
  /\ Proceed("marker")
  /\ UNCHANGED <<checkout, archive, commit, copied>>

WriteMarker ==
  /\ step = "marker"
  /\ Put("marker", 0)
  /\ Proceed("copy")
  /\ UNCHANGED <<checkout, archive, commit, copied>>

\* One turn of _copy_required_files.
CopyFile ==
  /\ step = "copy" /\ copied # Paths
  /\ LET p == CHOOSE p \in Paths \ copied : TRUE
     IN \/ /\ tree[p] # 0
           /\ Put(p, tree[p])
           /\ copied' = copied \cup {p}
           /\ Proceed("copy")
           /\ UNCHANGED <<checkout, archive, commit>>
        \/ tree[p] = 0 /\ Fail("missing")

\* _write_baseline.  _load_supported_profile reads the profile from the working
\* tree's manifest, not from the copy.
WriteBaseline ==
  /\ step = "copy" /\ copied = Paths
  /\ tree[Manifest] # 0
  /\ Put("baseline", [commit |-> commit, paths |-> copied, profile |-> tree[Manifest]])
  /\ Proceed("template")
  /\ UNCHANGED <<checkout, archive, commit, copied>>

\* _load_supported_profile raises: the manifest is gone, is no JSON object, or has
\* no supported_profile.
ManifestFails == step = "copy" /\ copied = Paths /\ Fail("manifest")

WriteTemplate ==
  /\ step = "template"
  /\ Put("template", commit)
  /\ Proceed("sums")
  /\ UNCHANGED <<checkout, archive, commit, copied>>

\* _write_checksums: the digest of every file but SHA256SUMS.
WriteChecksums ==
  /\ step = "sums"
  /\ Put("sums", [f \in DOMAIN folder.files \ {"sums"} |-> folder.files[f]])
  /\ Proceed("open")
  /\ UNCHANGED <<checkout, archive, commit, copied>>

\* _write_deterministic_archive opens the archive in place.
OpenArchive ==
  /\ step = "open"
  /\ archive' = CutShort
  /\ Proceed("archive")
  /\ UNCHANGED <<checkout, folder, commit, copied>>

\* The next file, in sorted order, becomes a member of the archive.
PackFile ==
  /\ step = "archive"
  /\ LET rest == DOMAIN folder.files \ packed
     IN \E f \in rest : (\A g \in rest : Rank[f] <= Rank[g]) /\ packed' = packed \cup {f}
  /\ UNCHANGED <<checkout, outputs, step, args, commit, copied, result, found, runs>>

\* The end of the with-statement: tar and gzip streams are ended.
CloseArchive ==
  /\ step = "archive" /\ packed = DOMAIN folder.files
  /\ archive' = folder
  /\ End("built")
  /\ UNCHANGED folder

\* An exception, an interrupt among them, leaves the with-statement: the tar stream
\* is not ended, but the gzip stream is, so between two members the archive reads as
\* one with the members so far.
Unwind ==
  /\ step = "archive"
  /\ archive' \in {CutShort} \cup (IF packed = {} THEN {} ELSE {Tree(Restrict(folder.files, packed))})
  /\ End("died")
  /\ UNCHANGED folder

\* The program is killed, or raises where nothing has to be unwound.  A removal
\* that is cut short leaves any part of the directory, and an archive is whole when
\* all but its closing was done.
Die ==
  /\ step # "idle"
  /\ folder' \in {folder} \cup (IF step = "remove" /\ folder # Absent
                          THEN {Tree(Restrict(folder.files, S)) : S \in SUBSET DOMAIN folder.files} ELSE {})
  /\ archive' \in {archive} \cup (IF step = "archive" /\ packed = DOMAIN folder.files THEN {folder} ELSE {})
  /\ End("died")

BundleNext ==
  \/ \E p \in Paths : Edit(p)
  \/ Checkout \/ UserWrites
  \/ Begin \/ GitFails \/ CheckClean \/ ResolveCommit \/ Prepare \/ ProbeRaises \/ Remove \/ MakeDir \/ WriteMarker
  \/ CopyFile \/ ManifestFails \/ WriteBaseline \/ WriteTemplate \/ WriteChecksums
  \/ OpenArchive \/ PackFile \/ CloseArchive \/ Unwind \/ Die

BundleSpec == BundleInit /\ [][BundleNext]_bundleVars

-----------------------------------------------------------------------------

Outputs(out) ==
  \/ out \in {Absent, CutShort}
  \/ /\ out.state = "tree"
     /\ DOMAIN out.files \subseteq Paths \cup Generated \cup {"notes"}

\* The checksums are written only when every evidence file was copied.
BundleTyped ==
  /\ head \in Commits
  /\ tree \in [Paths -> {0} \cup Versions]
  /\ Outputs(folder) /\ folder # CutShort
  /\ Outputs(archive)
  /\ step \in {"idle", "clean", "commit", "prepare", "remove", "mkdir", "marker",
             "copy", "template", "sums", "open", "archive"}
  /\ args \in Arguments
  /\ commit \in Commits \cup {NoCommit}
  /\ copied \subseteq Paths
  /\ packed \subseteq Paths \cup Generated
  /\ result \in {"none", "refused", "missing", "manifest", "crashed", "built", "died"}
  /\ Outputs(found[1]) /\ Outputs(found[2])
  /\ touched \in BOOLEAN
  /\ runs \in 0..MaxRuns /\ edits \in 0..MaxEdits
  /\ step \in {"sums", "open", "archive"} => copied = Paths

\* The bundle of a commit with these evidence files and this profile, every file of it.
BundleOf(c, evidence, profile) ==
  LET marked == With(evidence, "marker", 0)
      described == With(marked, "baseline", [commit |-> c, paths |-> Paths, profile |-> profile])
      body == With(described, "template", c)
  IN With(body, "sums", body)

\* What "sha256sum -c SHA256SUMS" asks of the files: each one listed is there, with
\* the content it had.
Verifies(files) ==
  /\ "sums" \in DOMAIN files
  /\ \A f \in DOMAIN files["sums"] : f \in DOMAIN files /\ files[f] = files["sums"][f]

\* An archive the generator leaves and that can be read holds files of one bundle,
\* never of two runs, and is all of that bundle when its checksums verify: every
\* evidence file, the commit in baseline and template.  A whole bundle is determined
\* by the commit, the evidence and the profile alone, so runs from the same tree give
\* identical archives, whatever earlier runs, interrupts and edits left behind.
VerifiedIsWhole ==
  archive.state = "tree" /\ archive # Foreign =>
    \E c \in Commits, evidence \in [Paths -> Versions], profile \in Versions :
      LET bundle == BundleOf(c, evidence, profile)
      IN /\ DOMAIN archive.files \subseteq DOMAIN bundle
         /\ archive.files = Restrict(bundle, DOMAIN archive.files)
         /\ Verifies(archive.files) => archive.files = bundle

\* An output that is there may be replaced only under --force and with the marker.
Spared(was) == was # Absent /\ ~(args.force /\ Marked(was))

\* A run never changes an output that it found without the marker, or any output
\* without --force: not somebody's own, not an archive that cannot be read, not the
\* directory of a run that died before the marker.
UnmarkedIsKept ==
  [][step # "idle" => /\ Spared(found[1]) => folder' = found[1]
                      /\ Spared(found[2]) => archive' = found[2]]_bundleVars

\* A run that refuses, or that an unreadable archive ends, leaves both outputs as it
\* found them; one that ends before it opens the archive leaves the last archive.
RefusalIsHarmless ==
  [][(step # "idle" /\ step' = "idle") =>
       /\ result' \in {"refused", "crashed"} => <<folder', archive'>> = found
       /\ step # "archive" => archive' = found[2]]_bundleVars

\* The tracked evidence in a finished archive is the commit's.
PacksCommit(c, files) == \A p \in Paths : Committed[c][p] # 0 => files[p] = Committed[c][p]

\* What a run reports as built verifies.  As long as nobody touches the checkout
\* during the run, the archive holds the tracked files of the commit it names, that
\* commit is HEAD, and the profile it states is that of the manifest in it.
PacksItsCommit ==
  [][(step # "idle" /\ result' = "built") =>
       /\ archive'.state = "tree" /\ Verifies(archive'.files)
       /\ ~touched =>
            /\ archive'.files["baseline"].commit = head
            /\ archive'.files["baseline"].profile = archive'.files[Manifest]
            /\ PacksCommit(head, archive'.files)]_bundleVars

\* The generator of review bundles leaves archives that are whole bundles when they
\* verify, and parts of one bundle otherwise; it reports only whole ones as built; it
\* never changes an output without the marker; and it leaves both outputs as they were
\* when it refuses.
BundleIsSafe ==
  [](BundleTyped /\ VerifiedIsWhole) /\ UnmarkedIsKept /\ RefusalIsHarmless /\ PacksItsCommit

=============================================================================
