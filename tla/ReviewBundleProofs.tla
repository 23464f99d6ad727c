--------------------------- MODULE ReviewBundleProofs ---------------------------
(***************************************************************************)
(* The generator of review bundles is safe for any evidence files, commits *)
(* and versions, and any number of runs and of changes between and during  *)
(* them.                                                                   *)
(*                                                                         *)
(* Safety needs to know, for every step of a run, what the directory holds *)
(* (ContentInv), that the outputs are still those the checks looked at     *)
(* (OutputsInv), and that a checkout nobody touched is the commit's        *)
(* (CommitInv).                                                            *)
(***************************************************************************)
EXTENDS ReviewBundle, TLAPS

\* Most leaves are first-order; the others cite SMT.
USE Zenon

----------------------------------------------------------------------------

\* What the directory holds after each step of the program, for the evidence copied
\* so far and the profile read.
MarkedFiles(evidence) == With(evidence, "marker", 0)
DescribedFiles(c, evidence, profile) ==
  With(MarkedFiles(evidence), "baseline", [commit |-> c, paths |-> Paths, profile |-> profile])
BodyFiles(c, evidence, profile) == With(DescribedFiles(c, evidence, profile), "template", c)

Holding(evidence, profile) ==
  /\ step = "copy" => folder = Tree(MarkedFiles(evidence))
  /\ step = "template" => folder = Tree(DescribedFiles(commit, evidence, profile))
  /\ step = "sums" => folder = Tree(BodyFiles(commit, evidence, profile))
  /\ step \in {"open", "archive"} => folder = Tree(BundleOf(commit, evidence, profile))
  /\ step # "copy" => profile \in Versions

\* The evidence copied, and the profile once it is read, are the working tree's.
Current(evidence, profile) ==
  /\ \A p \in copied : evidence[p] = tree[p]
  /\ step # "copy" => profile = tree[Manifest]

\* The steps of a run before it changes anything, until the marker is written, and
\* from then on.
Checking == {"clean", "commit", "prepare"}
Clearing == {"remove", "mkdir", "marker"}
Filling == {"copy", "template", "sums", "open", "archive"}

\* A run has no result yet; the outputs are those it found until it has found that
\* it may replace them, and the archive is until it is opened.
OutputsInv ==
  /\ step # "idle" => result = "none"
  /\ step \in Checking => found = <<folder, archive>>
  /\ step \in Clearing \cup Filling => ~Spared(found[1]) /\ ~Spared(found[2])
  /\ step \in (Clearing \cup Filling) \ {"archive"} => found[2] = archive
  /\ step \notin {"idle", "archive"} => packed = {}
  /\ step = "archive" => archive = CutShort /\ packed \subseteq DOMAIN folder.files
  /\ step = "marker" => folder = Tree(<<>>)

\* The directory holds the evidence copied, in the working tree's versions unless
\* somebody touched it.
ContentInv ==
  /\ step \in Checking \cup Clearing => copied = {}
  /\ step \in Filling \ {"copy"} => copied = Paths
  /\ step \in Filling =>
       \E evidence \in [copied -> Versions] : \E profile :
         Holding(evidence, profile) /\ (~touched => Current(evidence, profile))

\* The commit under review is a commit, and HEAD with a clean checkout unless
\* somebody touched it.
CommitInv ==
  /\ step \in {"prepare"} \cup Clearing \cup Filling => commit \in Commits
  /\ ~touched /\ step \in {"prepare"} \cup Clearing \cup Filling => commit = head
  /\ ~touched /\ step \notin {"idle", "clean"} => Clean

BundleInv == BundleTyped /\ VerifiedIsWhole /\ OutputsInv /\ ContentInv /\ CommitInv

----------------------------------------------------------------------------

\* The states an output can be in are different, and only a bundle has the marker.
LEMMA OutputStates ==
  /\ Absent # CutShort /\ Absent.state # "tree" /\ CutShort.state # "tree"
  /\ \A files : /\ Tree(files) # Absent /\ Tree(files) # CutShort
                /\ Tree(files).state = "tree" /\ Tree(files).files = files
                /\ Marked(Tree(files)) <=> "marker" \in DOMAIN files
  /\ ~Marked(Absent) /\ ~Marked(CutShort) /\ ~Marked(Foreign)
  /\ Foreign # Absent /\ Foreign # CutShort /\ Foreign # Tree(<<>>)
<1>1. /\ Absent.state = "absent" /\ CutShort.state = "torn"
      /\ \A files : Tree(files).state = "tree" /\ Tree(files).files = files
  BY SMT DEF Absent, CutShort, Tree
<1>2. DOMAIN Foreign.files = {"notes"}
  BY SMT DEF Foreign, Tree
<1>3. DOMAIN <<>> = {}
  BY SMT
<1>4. "notes" # "marker" /\ "absent" # "torn" /\ "absent" # "tree" /\ "torn" # "tree"
  BY SMT
<1>5. "notes" \notin DOMAIN <<>>
  BY <1>3
<1>6. Foreign.state = "tree"
  BY <1>1 DEF Foreign
<1>7. Foreign # Tree(<<>>)
  BY <1>1, <1>2, <1>5
<1>8. QED BY <1>1, <1>2, <1>4, <1>6, <1>7 DEF Marked

\* Nothing but the types and the archive matter when no run is under way.
LEMMA IdleInv == BundleTyped' /\ VerifiedIsWhole' /\ step' = "idle" => BundleInv'
BY SMT DEF BundleInv, OutputsInv, ContentInv, CommitInv, Checking, Clearing, Filling

\* Files are added in any order.
LEMMA WithCommutes ==
  ASSUME NEW files, NEW a, NEW b, NEW x, NEW y, a # b
  PROVE  With(With(files, a, x), b, y) = With(With(files, b, y), a, x)
<1> DEFINE both(f) == IF f = b THEN y ELSE IF f = a THEN x ELSE files[f]
<1>1. With(With(files, a, x), b, y) = [f \in DOMAIN files \cup {a} \cup {b} |-> both(f)]
  BY SMT DEF With
<1>2. With(With(files, b, y), a, x) = [f \in DOMAIN files \cup {b} \cup {a} |-> both(f)]
  BY SMT DEF With
<1>3. DOMAIN files \cup {b} \cup {a} = DOMAIN files \cup {a} \cup {b}
  OBVIOUS
<1>4. QED BY <1>1, <1>2, <1>3

\* A file of the same kind.
LEMMA WithTyped ==
  ASSUME NEW S, NEW T, NEW files \in [S -> T], NEW name, NEW content \in T
  PROVE  With(files, name, content) \in [S \cup {name} -> T]
<1>1. DOMAIN files = S
  OBVIOUS
<1>2. With(files, name, content) = [f \in S \cup {name} |-> IF f = name THEN content ELSE files[f]]
  BY <1>1 DEF With
<1>3. \A f \in S \cup {name} : (IF f = name THEN content ELSE files[f]) \in T
  BY SMT
<1>4. QED BY <1>2, <1>3

\* The checksums come last.
LEMMA BundleBody ==
  ASSUME NEW evidence, NEW c, NEW profile
  PROVE  BundleOf(c, evidence, profile) =
           With(BodyFiles(c, evidence, profile), "sums", BodyFiles(c, evidence, profile))
BY DEF BundleOf, BodyFiles, DescribedFiles, MarkedFiles

\* The names in a directory on the way to a bundle.
LEMMA FillingNames ==
  ASSUME NEW evidence, NEW c, NEW profile
  PROVE  /\ DOMAIN MarkedFiles(evidence) = DOMAIN evidence \cup {"marker"}
         /\ DOMAIN DescribedFiles(c, evidence, profile) = DOMAIN evidence \cup {"marker"} \cup {"baseline"}
         /\ DOMAIN BodyFiles(c, evidence, profile) =
              DOMAIN evidence \cup {"marker"} \cup {"baseline"} \cup {"template"}
<1>1. DOMAIN MarkedFiles(evidence) = DOMAIN evidence \cup {"marker"}
  BY SMT DEF MarkedFiles, With
<1>2. DOMAIN DescribedFiles(c, evidence, profile) = DOMAIN evidence \cup {"marker"} \cup {"baseline"}
  BY <1>1, SMT DEF DescribedFiles, With
<1>3. DOMAIN BodyFiles(c, evidence, profile) =
        DOMAIN evidence \cup {"marker"} \cup {"baseline"} \cup {"template"}
  BY <1>2, SMT DEF BodyFiles, With
<1>4. QED BY <1>1, <1>2, <1>3

\* Such a directory is marked and has no other names.
LEMMA FillingOutputs ==
  ASSUME NEW S \in SUBSET Paths, NEW evidence \in [S -> Versions], NEW c, NEW profile,
         NEW files \in {MarkedFiles(evidence), DescribedFiles(c, evidence, profile),
                        BodyFiles(c, evidence, profile), BundleOf(c, evidence, profile)}
  PROVE  Outputs(Tree(files)) /\ Marked(Tree(files))
<1>1. DOMAIN BundleOf(c, evidence, profile) = S \cup {"marker"} \cup {"baseline"} \cup {"template"} \cup {"sums"}
  <2>1. \A body : DOMAIN With(body, "sums", body) = DOMAIN body \cup {"sums"}
    BY SMT DEF With
  <2>2. DOMAIN BundleOf(c, evidence, profile) = DOMAIN BodyFiles(c, evidence, profile) \cup {"sums"}
    BY <2>1, BundleBody
  <2>3. DOMAIN BodyFiles(c, evidence, profile) =
          DOMAIN evidence \cup {"marker"} \cup {"baseline"} \cup {"template"}
    BY FillingNames
  <2>4. DOMAIN evidence = S
    OBVIOUS
  <2>5. QED BY <2>2, <2>3, <2>4
<1>2. DOMAIN files \in {DOMAIN MarkedFiles(evidence), DOMAIN DescribedFiles(c, evidence, profile),
                        DOMAIN BodyFiles(c, evidence, profile), DOMAIN BundleOf(c, evidence, profile)}
  OBVIOUS
<1>3. DOMAIN files \in {S \cup {"marker"}, S \cup {"marker"} \cup {"baseline"},
                        S \cup {"marker"} \cup {"baseline"} \cup {"template"},
                        S \cup {"marker"} \cup {"baseline"} \cup {"template"} \cup {"sums"}}
  <2>1. /\ DOMAIN MarkedFiles(evidence) = S \cup {"marker"}
        /\ DOMAIN DescribedFiles(c, evidence, profile) = S \cup {"marker"} \cup {"baseline"}
        /\ DOMAIN BodyFiles(c, evidence, profile) = S \cup {"marker"} \cup {"baseline"} \cup {"template"}
    <3>1. DOMAIN evidence = S
      OBVIOUS
    <3>2. /\ DOMAIN MarkedFiles(evidence) = DOMAIN evidence \cup {"marker"}
          /\ DOMAIN DescribedFiles(c, evidence, profile) = DOMAIN evidence \cup {"marker"} \cup {"baseline"}
          /\ DOMAIN BodyFiles(c, evidence, profile) =
               DOMAIN evidence \cup {"marker"} \cup {"baseline"} \cup {"template"}
      BY FillingNames
    <3>3. QED BY <3>1, <3>2
  <2>2. QED BY <1>1, <1>2, <2>1, SMT
<1>4. DOMAIN files \subseteq Paths \cup Generated \cup {"notes"} /\ "marker" \in DOMAIN files
  BY <1>3, SMT DEF Generated
<1>5. QED BY <1>4, OutputStates DEF Outputs

\* Adding a file leaves the others.
LEMMA WithContents ==
  \A files, name, content :
    /\ DOMAIN With(files, name, content) = DOMAIN files \cup {name}
    /\ With(files, name, content)[name] = content
    /\ \A f \in DOMAIN files : f # name => With(files, name, content)[f] = files[f]
BY SMT DEF With

\* The bundle's baseline names the commit and the profile, and the evidence is in it.
Contains(bundle, c, evidence, profile) ==
  /\ bundle["baseline"] = [commit |-> c, paths |-> Paths, profile |-> profile]
  /\ \A p \in Paths : bundle[p] = evidence[p]

\* A bundle names its commit and profile, and holds the evidence as it was copied.
LEMMA BundleContents ==
  ASSUME NEW evidence \in [Paths -> Versions], NEW c, NEW profile
  PROVE  Contains(BundleOf(c, evidence, profile), c, evidence, profile)
<1> DEFINE marked == MarkedFiles(evidence)
           baseline == [commit |-> c, paths |-> Paths, profile |-> profile]
           described == DescribedFiles(c, evidence, profile)
           body == BodyFiles(c, evidence, profile)
<1>1. /\ DOMAIN evidence = Paths
      /\ DOMAIN marked = Paths \cup {"marker"}
      /\ DOMAIN described = Paths \cup {"marker"} \cup {"baseline"}
      /\ DOMAIN body = Paths \cup {"marker"} \cup {"baseline"} \cup {"template"}
  <2>1. DOMAIN evidence = Paths
    OBVIOUS
  <2>2. /\ DOMAIN marked = DOMAIN evidence \cup {"marker"}
        /\ DOMAIN described = DOMAIN evidence \cup {"marker"} \cup {"baseline"}
        /\ DOMAIN body = DOMAIN evidence \cup {"marker"} \cup {"baseline"} \cup {"template"}
    BY FillingNames
  <2> HIDE DEF marked, described, body
  <2>3. QED BY <2>1, <2>2
<1>2. /\ marked = With(evidence, "marker", 0)
      /\ described = With(marked, "baseline", baseline)
      /\ body = With(described, "template", c)
      /\ BundleOf(c, evidence, profile) = With(body, "sums", body)
  BY BundleBody DEF MarkedFiles, DescribedFiles, BodyFiles
<1> HIDE DEF marked, described, body, baseline
<1>3. BundleOf(c, evidence, profile)["baseline"] = baseline
  <2>1. described["baseline"] = baseline
    BY <1>2, WithContents, SMT
  <2>2. body["baseline"] = described["baseline"]
    BY <1>1, <1>2, WithContents, SMT
  <2>3. BundleOf(c, evidence, profile)["baseline"] = body["baseline"]
    BY <1>1, <1>2, WithContents, SMT
  <2>4. QED BY <2>1, <2>2, <2>3
<1>4. ASSUME NEW p \in Paths PROVE BundleOf(c, evidence, profile)[p] = evidence[p]
  <2>1. p # "marker" /\ p # "baseline" /\ p # "template" /\ p # "sums"
    BY ReviewBundleAssumption, SMT DEF Generated
  <2>2. marked[p] = evidence[p]
    BY <1>1, <1>2, WithContents, <2>1, SMT
  <2>3. described[p] = marked[p]
    BY <1>1, <1>2, WithContents, <2>1, SMT
  <2>4. body[p] = described[p]
    BY <1>1, <1>2, WithContents, <2>1, SMT
  <2>5. BundleOf(c, evidence, profile)[p] = body[p]
    BY <1>1, <1>2, WithContents, <2>1, SMT
  <2>6. QED BY <2>2, <2>3, <2>4, <2>5
<1>5. QED BY <1>3, <1>4 DEF baseline, Contains

\* The checksums are of every other file, and the names are those of a bundle.
Summed(bundle) ==
  /\ DOMAIN bundle \subseteq Paths \cup Generated
  /\ DOMAIN bundle = DOMAIN bundle["sums"] \cup {"sums"}
  /\ \A f \in DOMAIN bundle["sums"] : bundle["sums"][f] = bundle[f]
  /\ Restrict(bundle, DOMAIN bundle) = bundle

\* A bundle has the checksums of all its files.
LEMMA BundleSums ==
  ASSUME NEW evidence \in [Paths -> Versions], NEW c, NEW profile
  PROVE  Summed(BundleOf(c, evidence, profile))
<1> DEFINE body == BodyFiles(c, evidence, profile)
           bundle == BundleOf(c, evidence, profile)
<1>1. bundle = With(body, "sums", body)
  BY BundleBody
<1>2. DOMAIN body = Paths \cup {"marker"} \cup {"baseline"} \cup {"template"}
  <2>1. DOMAIN evidence = Paths
    OBVIOUS
  <2>2. DOMAIN body = DOMAIN evidence \cup {"marker"} \cup {"baseline"} \cup {"template"}
    BY FillingNames
  <2> HIDE DEF body
  <2>3. QED BY <2>1, <2>2
<1>3. "sums" \notin DOMAIN body
  <2>1. "sums" \notin Paths
    BY ReviewBundleAssumption, SMT DEF Generated
  <2>2. QED BY <1>2, <2>1, SMT
<1> HIDE DEF body, bundle
<1>4. /\ DOMAIN bundle = DOMAIN body \cup {"sums"} /\ bundle["sums"] = body
      /\ \A f \in DOMAIN body : f # "sums" => bundle[f] = body[f]
  <2>1. /\ DOMAIN With(body, "sums", body) = DOMAIN body \cup {"sums"}
        /\ With(body, "sums", body)["sums"] = body
        /\ \A f \in DOMAIN body : f # "sums" => With(body, "sums", body)[f] = body[f]
    BY SMT DEF With
  <2>2. QED BY <1>1, <2>1
<1>5. DOMAIN bundle \subseteq Paths \cup Generated
  BY <1>2, <1>4, SMT DEF Generated
<1>6. Restrict(bundle, DOMAIN bundle) = bundle
  <2>1. bundle = [f \in DOMAIN bundle |-> bundle[f]]
    BY <1>1, SMT DEF With
  <2>2. QED BY <2>1 DEF Restrict
<1>7. Summed(bundle)
  <2>1. \A f \in DOMAIN body : f # "sums"
    BY <1>3
  <2>2. QED BY <1>4, <1>5, <1>6, <2>1 DEF Summed
<1>8. QED BY <1>7 DEF bundle

\* Some files of a bundle are all of them when they verify, and all of them verify.
LEMMA PartOfBundle ==
  ASSUME NEW bundle, Summed(bundle), NEW S \in SUBSET DOMAIN bundle
  PROVE  /\ DOMAIN Restrict(bundle, S) = S
         /\ Verifies(Restrict(bundle, S)) => Restrict(bundle, S) = bundle
         /\ Verifies(bundle)
<1>1. /\ DOMAIN bundle = DOMAIN bundle["sums"] \cup {"sums"}
      /\ \A f \in DOMAIN bundle["sums"] : bundle["sums"][f] = bundle[f]
      /\ Restrict(bundle, DOMAIN bundle) = bundle
  BY DEF Summed
<1>2. DOMAIN Restrict(bundle, S) = S /\ \A f \in S : Restrict(bundle, S)[f] = bundle[f]
  BY DEF Restrict
<1>3. ASSUME Verifies(Restrict(bundle, S)) PROVE Restrict(bundle, S) = bundle
  <2>1. "sums" \in S /\ Restrict(bundle, S)["sums"] = bundle["sums"]
    BY <1>2, <1>3 DEF Verifies
  <2>2. \A f \in DOMAIN bundle["sums"] : f \in S
    BY <1>2, <1>3, <2>1 DEF Verifies
  <2>3. S = DOMAIN bundle
    BY <1>1, <2>1, <2>2
  <2>4. QED BY <1>1, <2>3
<1>4. Verifies(bundle)
  BY <1>1 DEF Verifies
<1>5. QED BY <1>2, <1>3, <1>4

\* So an archive of some files of a bundle, or of all, is as it should be.
LEMMA PartIsAllowed ==
  ASSUME NEW evidence \in [Paths -> Versions], NEW c \in Commits, NEW profile \in Versions,
         NEW S \in SUBSET DOMAIN BundleOf(c, evidence, profile),
         archive' = Tree(Restrict(BundleOf(c, evidence, profile), S))
  PROVE  Outputs(archive') /\ VerifiedIsWhole'
<1> PICK bundle : bundle = BundleOf(c, evidence, profile)
  OBVIOUS
<1>1. archive'.files = Restrict(bundle, S) /\ archive'.state = "tree"
  BY OutputStates
<1>2. Summed(bundle) /\ S \in SUBSET DOMAIN bundle
  BY BundleSums
<1>3. DOMAIN archive'.files = S /\ (Verifies(archive'.files) => archive'.files = bundle)
  <2>1. /\ DOMAIN Restrict(bundle, S) = S
        /\ Verifies(Restrict(bundle, S)) => Restrict(bundle, S) = bundle
    BY <1>2, PartOfBundle
  <2>2. QED BY <1>1, <2>1
<1>4. S \subseteq Paths \cup Generated
  BY <1>2 DEF Summed
<1>5. Outputs(archive')
  BY <1>1, <1>3, <1>4 DEF Outputs
<1>6. /\ DOMAIN archive'.files \subseteq DOMAIN bundle
      /\ archive'.files = Restrict(bundle, DOMAIN archive'.files)
  BY <1>1, <1>2, <1>3
<1>7. VerifiedIsWhole'
  BY <1>3, <1>6 DEF VerifiedIsWhole
<1>8. QED BY <1>5, <1>7

----------------------------------------------------------------------------

\* No run, and nothing at the outputs.
LEMMA BundleInitInv == BundleInit => BundleInv
<1> SUFFICES ASSUME BundleInit PROVE BundleInv
  OBVIOUS
<1>1. Outputs(Absent) /\ Absent # CutShort /\ Absent.state # "tree"
  BY OutputStates DEF Outputs
<1>2. tree \in [Paths -> {0} \cup Versions]
  BY ReviewBundleAssumption DEF BundleInit
<1>3. args \in Arguments
  BY SMT DEF BundleInit, NoArguments, Arguments, Layouts
<1>4. found[1] = Absent /\ found[2] = Absent
  BY SMT DEF BundleInit, Nothing
<1>5. 0 \in 0 .. MaxRuns /\ 0 \in 0 .. MaxEdits
  BY ReviewBundleAssumption, SMT
<1>6. BundleTyped
  BY <1>1, <1>2, <1>3, <1>4, <1>5 DEF BundleInit, BundleTyped
<1>7. VerifiedIsWhole
  BY <1>1 DEF BundleInit, VerifiedIsWhole
<1>8. QED
  BY <1>6, <1>7, SMT DEF BundleInit, BundleInv, OutputsInv, ContentInv, CommitInv, Checking, Clearing, Filling

\* A run that ends has to leave outputs that are as they should be.
LEMMA EndInv ==
  ASSUME BundleInv, NEW why \in {"refused", "missing", "manifest", "crashed", "built", "died"}, End(why),
         Outputs(folder'), folder' # CutShort, Outputs(archive'), VerifiedIsWhole'
  PROVE  BundleInv'
<1>1. /\ step' = "idle" /\ result' = why /\ args' = NoArguments /\ commit' = NoCommit
      /\ copied' = {} /\ packed' = {} /\ found' = Nothing
      /\ UNCHANGED <<head, tree, touched, edits, runs>>
  BY DEF End, checkout
<1>2. NoArguments \in Arguments
  BY SMT DEF NoArguments, Arguments, Layouts
<1>3. Outputs(Nothing[1]) /\ Outputs(Nothing[2])
  BY SMT DEF Nothing, Outputs
<1>4. BundleTyped'
  BY <1>1, <1>2, <1>3 DEF BundleInv, BundleTyped
<1>5. QED BY <1>1, <1>4, IdleInv

\* A run that fails leaves what is on disk.
LEMMA FailInv ==
  ASSUME BundleInv, NEW why \in {"refused", "missing", "manifest", "crashed"}, Fail(why)
  PROVE  BundleInv'
<1>1. End(why) /\ folder' = folder /\ archive' = archive
  BY DEF Fail, outputs
<1>2. Outputs(folder') /\ folder' # CutShort /\ Outputs(archive')
  BY <1>1 DEF BundleInv, BundleTyped
<1>3. VerifiedIsWhole'
  BY <1>1 DEF BundleInv, VerifiedIsWhole
<1>4. QED BY <1>1, <1>2, <1>3, EndInv

\* The people around a run touch the checkout and nothing else.
LEMMA TouchInv ==
  ASSUME BundleInv, Changed, head' \in Commits, tree' \in [Paths -> {0} \cup Versions],
         UNCHANGED <<folder, archive, step, args, commit, copied, packed, result, found, runs>>
  PROVE  BundleInv'
<1>1. touched' = TRUE /\ edits' \in 0 .. MaxEdits
  BY ReviewBundleAssumption, SMT DEF Changed, BundleInv, BundleTyped
<1>2. BundleTyped'
  BY <1>1 DEF BundleInv, BundleTyped
<1>3. VerifiedIsWhole'
  BY DEF BundleInv, VerifiedIsWhole
<1>4. OutputsInv'
  BY DEF BundleInv, OutputsInv, Spared
<1>5. ContentInv'
  BY <1>1 DEF BundleInv, ContentInv, Holding
<1>6. CommitInv'
  BY <1>1 DEF BundleInv, CommitInv
<1>7. QED BY <1>2, <1>3, <1>4, <1>5, <1>6 DEF BundleInv

\* A change of the checkout makes it touched, which is all that is asked then.
LEMMA PeopleInv ==
  ASSUME BundleInv, (\E p \in Paths : Edit(p)) \/ Checkout
  PROVE  BundleInv'
<1>1. head \in Commits /\ tree \in [Paths -> {0} \cup Versions]
  BY DEF BundleInv, BundleTyped
<1>2. ASSUME NEW p \in Paths, Edit(p) PROVE BundleInv'
  <2>1. tree' \in [Paths -> {0} \cup Versions]
    BY <1>1, <1>2, SMT DEF Edit
  <2>2. Changed /\ UNCHANGED <<head, folder, archive, step, args, commit, copied, packed, result, found, runs>>
    BY <1>2 DEF Edit
  <2>3. QED BY <1>1, <2>1, <2>2, TouchInv
<1>3. CASE Checkout
  <2>1. head' \in Commits
    BY <1>3 DEF Checkout
  <2>2. tree' \in [Paths -> {0} \cup Versions]
    <3>1. PICK c \in Commits : tree' = [p \in Paths |-> IF Committed[head][p] = 0 /\ Committed[c][p] = 0
                                                      THEN tree[p] ELSE Committed[c][p]]
      BY <1>3 DEF Checkout
    <3>2. Committed[c] \in [Paths -> {0} \cup Versions]
      BY ReviewBundleAssumption
    <3>3. QED BY <1>1, <3>1, <3>2, SMT
  <2>3. Changed /\ UNCHANGED <<folder, archive, step, args, commit, copied, packed, result, found, runs>>
    BY <1>3 DEF Checkout
  <2>4. QED BY <2>1, <2>2, <2>3, TouchInv
<1>4. QED BY <1>2, <1>3

\* What people put at the outputs between runs is no bundle.
LEMMA UserWritesInv ==
  ASSUME BundleInv, UserWrites
  PROVE  BundleInv'
<1>1. \A out \in {Absent, Foreign} : Outputs(out) /\ out # CutShort
  <2>1. Outputs(Foreign)
    BY SMT DEF Outputs, Foreign, Tree
  <2>2. QED BY <2>1, OutputStates DEF Outputs
<1>2. /\ \/ folder' = folder \/ folder' \in {Absent, Foreign}
         \/ folder # Absent /\ folder' = Tree(With(folder.files, "notes", 0))
      /\ archive' = archive \/ archive' \in {Absent, Foreign}
      /\ step' = "idle"
      /\ UNCHANGED <<head, tree, step, args, commit, copied, packed, result, found, touched, runs, edits>>
  BY DEF UserWrites, Put
<1>3. Outputs(folder') /\ folder' # CutShort
  <2>1. CASE folder # Absent /\ folder' = Tree(With(folder.files, "notes", 0))
    <3>1. DOMAIN folder.files \subseteq Paths \cup Generated \cup {"notes"}
      BY <2>1 DEF BundleInv, BundleTyped, Outputs
    <3>2. DOMAIN With(folder.files, "notes", 0) = DOMAIN folder.files \cup {"notes"}
      BY WithContents
    <3>3. DOMAIN With(folder.files, "notes", 0) \subseteq Paths \cup Generated \cup {"notes"}
      BY <3>1, <3>2
    <3>4. QED BY <2>1, <3>3, OutputStates DEF Outputs
  <2>2. QED BY <1>1, <1>2, <2>1 DEF BundleInv, BundleTyped
<1>4. Outputs(archive')
  BY <1>1, <1>2 DEF BundleInv, BundleTyped
<1>5. BundleTyped'
  BY <1>2, <1>3, <1>4 DEF BundleInv, BundleTyped
<1>6. VerifiedIsWhole'
  <2>1. archive' = Absent => archive'.state # "tree"
    BY OutputStates
  <2>2. QED BY <1>2, <2>1 DEF BundleInv, VerifiedIsWhole
<1>7. QED BY <1>2, <1>5, <1>6, IdleInv

\* A run begins with the outputs it finds.
LEMMA BeginInv ==
  ASSUME BundleInv, Begin
  PROVE  BundleInv'
<1>1. /\ step' = "clean" /\ commit' = NoCommit /\ copied' = {} /\ packed' = {} /\ result' = "none"
      /\ found' = <<folder, archive>> /\ touched' = FALSE /\ args' \in Arguments
      /\ UNCHANGED <<head, tree, folder, archive, edits>>
  BY DEF Begin
<1>2. runs' \in 0 .. MaxRuns
  BY ReviewBundleAssumption, SMT DEF Begin, BundleInv, BundleTyped
<1>3. found'[1] = folder /\ found'[2] = archive
  BY <1>1, SMT
<1>4. BundleTyped'
  BY <1>1, <1>2, <1>3 DEF BundleInv, BundleTyped
<1>5. VerifiedIsWhole'
  BY <1>1 DEF BundleInv, VerifiedIsWhole
<1>6. OutputsInv' /\ ContentInv' /\ CommitInv'
  BY <1>1, SMT DEF OutputsInv, ContentInv, CommitInv, Checking, Clearing, Filling
<1>7. QED BY <1>4, <1>5, <1>6 DEF BundleInv

\* The checks before anything is written.
LEMMA CheckingInv ==
  ASSUME BundleInv, CheckClean \/ ResolveCommit \/ GitFails \/ Prepare \/ ProbeRaises
  PROVE  BundleInv'
<1>1. CASE \E why \in {"refused", "crashed"} : Fail(why)
  BY <1>1, FailInv
<1>2. CASE step = "clean" /\ Clean /\ Proceed("commit") /\ UNCHANGED <<checkout, outputs, commit, copied>>
  <2>1. /\ step' = "commit"
        /\ UNCHANGED <<head, tree, touched, edits, folder, archive, commit, copied, packed, args, result, found, runs>>
    BY <1>2 DEF Proceed, checkout, outputs
  <2>2. BundleTyped'
    BY <2>1 DEF BundleInv, BundleTyped
  <2>3. VerifiedIsWhole'
    BY <2>1 DEF BundleInv, VerifiedIsWhole
  <2>4. OutputsInv'
    BY <1>2, <2>1, SMT DEF BundleInv, OutputsInv, Checking, Clearing, Filling
  <2>5. ContentInv'
    BY <1>2, <2>1, SMT DEF BundleInv, ContentInv, Checking, Clearing, Filling
  <2>6. Clean'
    BY <1>2, <2>1 DEF Clean
  <2>7. CommitInv'
    BY <2>1, <2>6, SMT DEF CommitInv, Clearing, Filling
  <2>8. QED BY <2>2, <2>3, <2>4, <2>5, <2>7 DEF BundleInv
<1>3. CASE step = "commit" /\ commit' = head /\ Proceed("prepare") /\ UNCHANGED <<checkout, outputs, copied>>
  <2>1. /\ step' = "prepare"
        /\ UNCHANGED <<head, tree, touched, edits, folder, archive, copied, packed, args, result, found, runs>>
    BY <1>3 DEF Proceed, checkout, outputs
  <2>2. head \in Commits
    BY DEF BundleInv, BundleTyped
  <2>3. BundleTyped'
    BY <1>3, <2>1, <2>2 DEF BundleInv, BundleTyped
  <2>4. VerifiedIsWhole'
    BY <2>1 DEF BundleInv, VerifiedIsWhole
  <2>5. OutputsInv'
    BY <1>3, <2>1, SMT DEF BundleInv, OutputsInv, Checking, Clearing, Filling
  <2>6. ContentInv'
    BY <1>3, <2>1, SMT DEF BundleInv, ContentInv, Checking, Clearing, Filling
  <2>7. ~touched' => Clean'
    BY <1>3, <2>1 DEF BundleInv, CommitInv, Clean
  <2>8. CommitInv'
    BY <1>3, <2>1, <2>2, <2>7 DEF CommitInv
  <2>9. QED BY <2>3, <2>4, <2>5, <2>6, <2>8 DEF BundleInv
<1>4. CASE /\ step = "prepare" /\ ArchiveReplaceable /\ DirReplaceable
           /\ Proceed("remove") /\ UNCHANGED <<checkout, outputs, commit, copied>>
  <2>1. /\ step' = "remove"
        /\ UNCHANGED <<head, tree, touched, edits, folder, archive, commit, copied, packed, args, result, found, runs>>
    BY <1>4 DEF Proceed, checkout, outputs
  <2>2. BundleTyped'
    BY <2>1 DEF BundleInv, BundleTyped
  <2>3. VerifiedIsWhole'
    BY <2>1 DEF BundleInv, VerifiedIsWhole
  <2>4. found[1] = folder /\ found[2] = archive
    BY <1>4, SMT DEF BundleInv, OutputsInv, Checking
  <2>5. ~Spared(found[1])' /\ ~Spared(found[2])' /\ found'[2] = archive'
    BY <1>4, <2>1, <2>4 DEF ArchiveReplaceable, DirReplaceable, Spared
  <2>6. result' = "none" /\ packed' = {}
    BY <1>4, <2>1, SMT DEF BundleInv, OutputsInv
  <2>7. OutputsInv'
    BY <2>1, <2>5, <2>6, SMT DEF OutputsInv, Checking
  <2>8. ContentInv'
    BY <1>4, <2>1, SMT DEF BundleInv, ContentInv, Checking, Clearing, Filling
  <2>9. Clean' <=> Clean
    BY <2>1 DEF Clean
  <2>10. CommitInv'
    BY <1>4, <2>1, <2>9, SMT DEF BundleInv, CommitInv, Clearing, Filling
  <2>11. QED BY <2>2, <2>3, <2>7, <2>8, <2>10 DEF BundleInv
<1>5. QED BY <1>1, <1>2, <1>3, <1>4 DEF CheckClean, ResolveCommit, GitFails, Prepare, ProbeRaises

\* What the run found does not change, nor whether it may replace it.
LEMMA SparedStays ==
  ASSUME UNCHANGED <<args, found>>
  PROVE  (Spared(found[1])' <=> Spared(found[1])) /\ (Spared(found[2])' <=> Spared(found[2]))
BY DEF Spared

\* The directory is cleared and made anew.
LEMMA ClearingInv ==
  ASSUME BundleInv, Remove \/ MakeDir
  PROVE  BundleInv'
<1>1. /\ \/ step = "remove" /\ step' = "mkdir" /\ folder' = Absent
         \/ step = "mkdir" /\ step' = "marker" /\ folder' = Tree(<<>>)
      /\ UNCHANGED <<head, tree, touched, edits, archive, commit, copied, packed, args, result, found, runs>>
  BY DEF Remove, MakeDir, Proceed, checkout
<1>2. Outputs(folder') /\ folder' # CutShort
  <2>1. Outputs(Absent) /\ Absent # CutShort
    BY OutputStates DEF Outputs
  <2>2. Outputs(Tree(<<>>)) /\ Tree(<<>>) # CutShort
    <3>1. DOMAIN <<>> = {}
      BY SMT
    <3>2. QED BY <3>1, OutputStates DEF Outputs
  <2>3. QED BY <1>1, <2>1, <2>2
<1>3. BundleTyped'
  BY <1>1, <1>2 DEF BundleInv, BundleTyped
<1>4. VerifiedIsWhole'
  BY <1>1 DEF BundleInv, VerifiedIsWhole
<1>5. (Spared(found[1])' <=> Spared(found[1])) /\ (Spared(found[2])' <=> Spared(found[2]))
  BY <1>1, SparedStays
<1>6. OutputsInv'
  BY <1>1, <1>5, SMT DEF BundleInv, OutputsInv, Checking, Clearing, Filling
<1>7. ContentInv'
  BY <1>1, SMT DEF BundleInv, ContentInv, Checking, Clearing, Filling
<1>8. Clean' <=> Clean
  BY <1>1 DEF Clean
<1>9. CommitInv'
  BY <1>1, <1>8, SMT DEF BundleInv, CommitInv, Clearing, Filling
<1>10. QED BY <1>3, <1>4, <1>6, <1>7, <1>9 DEF BundleInv

\* Files are added to the directory; all that has to be shown is what it holds.
LEMMA FillInv ==
  ASSUME BundleInv, step \in {"marker", "copy", "template", "sums"}, step' \in Filling \ {"archive"},
         UNCHANGED <<head, tree, touched, edits, archive, commit, packed, args, result, found, runs>>,
         copied' \subseteq Paths, ContentInv'
  PROVE  BundleInv'
<1>0. PICK evidence \in [copied' -> Versions] : \E profile : Holding(evidence, profile)'
  BY DEF ContentInv
<1>a. PICK profile : Holding(evidence, profile)'
  BY <1>0
<1>1. folder' \in {Tree(MarkedFiles(evidence)), Tree(DescribedFiles(commit, evidence, profile)),
                  Tree(BodyFiles(commit, evidence, profile)), Tree(BundleOf(commit, evidence, profile))}
  BY <1>a DEF Holding, Filling
<1>2. Outputs(folder') /\ folder' # CutShort
  <2>1. \A files \in {MarkedFiles(evidence), DescribedFiles(commit, evidence, profile),
                      BodyFiles(commit, evidence, profile), BundleOf(commit, evidence, profile)} :
          Outputs(Tree(files))
    BY FillingOutputs
  <2>2. PICK files : folder' = Tree(files) /\ Outputs(Tree(files))
    BY <1>1, <2>1
  <2>3. QED BY <2>2, OutputStates
<1>3. step' \in {"copy", "template", "sums", "open"} /\ (step' # "copy" => copied' = Paths)
  BY SMT DEF Filling, ContentInv
<1>4. BundleTyped'
  BY <1>2, <1>3 DEF BundleInv, BundleTyped
<1>5. VerifiedIsWhole'
  BY DEF BundleInv, VerifiedIsWhole
<1>6. (Spared(found[1])' <=> Spared(found[1])) /\ (Spared(found[2])' <=> Spared(found[2]))
  BY SparedStays
<1>7. OutputsInv'
  BY <1>3, <1>6, SMT DEF BundleInv, OutputsInv, Checking, Clearing, Filling
<1>8. Clean' <=> Clean
  BY DEF Clean
<1>9. CommitInv'
  BY <1>3, <1>8, SMT DEF BundleInv, CommitInv, Clearing, Filling
<1>10. QED BY <1>4, <1>5, <1>7, <1>9 DEF BundleInv

\* From the marker on, the directory holds the evidence copied so far: none.
LEMMA WriteMarkerInv ==
  ASSUME BundleInv, WriteMarker
  PROVE  BundleInv'
<1>1. /\ step = "marker" /\ step' = "copy" /\ Put("marker", 0)
      /\ UNCHANGED <<head, tree, touched, edits, archive, commit, copied, packed, args, result, found, runs>>
  BY DEF WriteMarker, Proceed, checkout
<1>2. folder = Tree(<<>>) /\ copied' = {}
  BY <1>1, SMT DEF BundleInv, OutputsInv, ContentInv, Clearing
<1> DEFINE none == [p \in {} |-> 0]
<1>3. none \in [{} -> Versions]
  BY SMT
<1>4. With(<<>>, "marker", 0) = MarkedFiles(none)
  BY SMT DEF With, MarkedFiles
<1>5. folder' = Tree(MarkedFiles(none))
  BY <1>1, <1>2, <1>4, OutputStates DEF Put
<1> HIDE DEF none
<1>6. ContentInv'
  <2>1. Holding(none, 0)' /\ Current(none, 0)'
    BY <1>1, <1>2, <1>5 DEF Holding, Current
  <2>2. step' \in Filling /\ step' \notin Filling \ {"copy"} /\ step' \notin Checking \cup Clearing
    BY <1>1, SMT DEF Filling, Checking, Clearing
  <2>3. QED BY <1>2, <1>3, <2>1, <2>2 DEF ContentInv
<1>7. QED BY <1>1, <1>2, <1>6, FillInv DEF Filling

\* One more evidence file, in the version the working tree has at that moment.
LEMMA CopyFileInv ==
  ASSUME BundleInv, CopyFile
  PROVE  BundleInv'
<1> DEFINE p == CHOOSE p \in Paths \ copied : TRUE
<1>1. p \in Paths /\ p \notin copied /\ step = "copy" /\ copied \subseteq Paths
  <2>1. step = "copy" /\ copied \subseteq Paths /\ copied # Paths
    BY DEF CopyFile, BundleInv, BundleTyped
  <2>2. \E q : q \in Paths \ copied
    BY <2>1
  <2>3. QED BY <2>1, <2>2
<1>2. CASE Fail("missing")
  BY <1>2, FailInv
<1>3. CASE /\ tree[p] # 0 /\ Put(p, tree[p]) /\ copied' = copied \cup {p}
           /\ Proceed("copy") /\ UNCHANGED <<checkout, archive, commit>>
  <2> PICK file : file = p
    OBVIOUS
  <2> PICK version : version = tree[p]
    OBVIOUS
  <2>1. /\ step' = "copy" /\ copied' = copied \cup {file} /\ folder' = Tree(With(folder.files, file, version))
        /\ UNCHANGED <<head, tree, touched, edits, archive, commit, packed, args, result, found, runs>>
    BY <1>3 DEF Put, Proceed, checkout
  <2>2. version \in Versions /\ file \in Paths /\ version = tree[file] /\ file \notin copied
    BY <1>1, <1>3 DEF BundleInv, BundleTyped
  <2>3. PICK evidence \in [copied -> Versions] :
          /\ folder = Tree(MarkedFiles(evidence))
          /\ ~touched => \A q \in copied : evidence[q] = tree[q]
    BY <1>1 DEF BundleInv, ContentInv, Holding, Current, Filling
  <2> DEFINE more == With(evidence, file, version)
  <2>4. more \in [copied \cup {file} -> Versions]
    BY <2>2, WithTyped
  <2>5. ~touched => \A q \in copied \cup {file} : more[q] = tree[q]
    BY <2>2, <2>3, SMT DEF With
  <2>6. "marker" # file
    BY <2>2, ReviewBundleAssumption, SMT DEF Generated
  <2>7. With(MarkedFiles(evidence), file, version) = MarkedFiles(more)
    <3>1. \A files, a, b, x, y : a # b => With(With(files, a, x), b, y) = With(With(files, b, y), a, x)
      BY WithCommutes
    <3>2. With(With(evidence, "marker", 0), file, version) = With(With(evidence, file, version), "marker", 0)
      BY <2>6, <3>1, SMT
    <3>3. QED BY <3>2 DEF MarkedFiles
  <2>8. folder' = Tree(MarkedFiles(more))
    BY <2>1, <2>3, <2>7, OutputStates
  <2> HIDE DEF more, p
  <2>9. ContentInv'
    <3>1. Holding(more, 0)'
      BY <2>1, <2>8 DEF Holding
    <3>2. ~touched' => Current(more, 0)'
      BY <2>1, <2>5 DEF Current
    <3>3. step' \in Filling /\ step' \notin Filling \ {"copy"} /\ step' \notin Checking \cup Clearing
      BY <2>1, SMT DEF Filling, Checking, Clearing
    <3>4. QED BY <2>1, <2>4, <3>1, <3>2, <3>3 DEF ContentInv
  <2>10. copied' \subseteq Paths
    BY <1>1, <2>1, <2>2
  <2>11. QED BY <1>1, <2>1, <2>9, <2>10, FillInv DEF Filling
<1>4. QED BY <1>2, <1>3 DEF CopyFile

\* The baseline, with the profile the manifest has at that moment.
LEMMA WriteBaselineInv ==
  ASSUME BundleInv, WriteBaseline
  PROVE  BundleInv'
<1> PICK profile : profile = tree[Manifest]
  OBVIOUS
<1>1. /\ step = "copy" /\ step' = "template" /\ copied = Paths
      /\ Put("baseline", [commit |-> commit, paths |-> Paths, profile |-> profile])
      /\ UNCHANGED <<head, tree, touched, edits, archive, commit, copied, packed, args, result, found, runs>>
  BY DEF WriteBaseline, Proceed, checkout
<1>2. profile \in Versions
  BY ReviewBundleAssumption DEF WriteBaseline, BundleInv, BundleTyped
<1>3. PICK evidence \in [Paths -> Versions] :
        /\ folder = Tree(MarkedFiles(evidence))
        /\ ~touched => \A p \in Paths : evidence[p] = tree[p]
  BY <1>1 DEF BundleInv, ContentInv, Holding, Current, Filling
<1>4. folder' = Tree(DescribedFiles(commit', evidence, profile))
  BY <1>1, <1>3, OutputStates DEF Put, DescribedFiles
<1>5. ~touched' => Current(evidence, profile)'
  BY <1>1, <1>3 DEF Current
<1>6. Holding(evidence, profile)'
  BY <1>1, <1>2, <1>4 DEF Holding
<1>7. ContentInv'
  <2>1. step' \in Filling \ {"copy", "archive"} /\ step' \notin Checking \cup Clearing /\ copied' = Paths
    BY <1>1, SMT DEF Filling, Checking, Clearing
  <2>2. QED BY <1>5, <1>6, <2>1 DEF ContentInv
<1>8. QED BY <1>1, <1>7, FillInv DEF Filling

\* Template and checksums, about the evidence that was copied.
LEMMA DescribeInv ==
  ASSUME BundleInv, WriteTemplate \/ WriteChecksums
  PROVE  BundleInv'
<1>1. /\ \/ step = "template" /\ step' = "sums" /\ Put("template", commit)
         \/ /\ step = "sums" /\ step' = "open"
            /\ Put("sums", [f \in DOMAIN folder.files \ {"sums"} |-> folder.files[f]])
      /\ copied = Paths
      /\ UNCHANGED <<head, tree, touched, edits, archive, commit, copied, packed, args, result, found, runs>>
  <2>1. copied = Paths
    BY SMT DEF WriteTemplate, WriteChecksums, BundleInv, ContentInv, Filling
  <2>2. QED BY <2>1 DEF WriteTemplate, WriteChecksums, Proceed, checkout
<1>2. PICK evidence \in [Paths -> Versions] :
        \E profile : Holding(evidence, profile) /\ (~touched => Current(evidence, profile))
  BY <1>1 DEF BundleInv, ContentInv, Filling
<1>3. PICK profile : Holding(evidence, profile) /\ (~touched => Current(evidence, profile))
  BY <1>2
<1>4. profile \in Versions
  BY <1>1, <1>3 DEF Holding
<1>5. Holding(evidence, profile)'
  <2>1. CASE step = "template"
    <3>1. folder = Tree(DescribedFiles(commit, evidence, profile))
      BY <1>3, <2>1 DEF Holding
    <3>2. folder' = Tree(BodyFiles(commit', evidence, profile))
      BY <1>1, <2>1, <3>1, OutputStates DEF Put, BodyFiles
    <3>3. QED BY <1>1, <1>4, <2>1, <3>2 DEF Holding
  <2>2. CASE step = "sums"
    <3> DEFINE body == BodyFiles(commit, evidence, profile)
    <3>1. folder = Tree(body) /\ folder.files = body
      BY <1>3, <2>2, OutputStates DEF Holding
    <3>2. [f \in DOMAIN body \ {"sums"} |-> body[f]] = body
      <4>1. DOMAIN body \ {"sums"} = DOMAIN body
        <5>1. DOMAIN body = Paths \cup {"marker"} \cup {"baseline"} \cup {"template"}
          <6>1. DOMAIN evidence = Paths
            OBVIOUS
          <6>2. DOMAIN body = DOMAIN evidence \cup {"marker"} \cup {"baseline"} \cup {"template"}
            BY FillingNames
          <6> HIDE DEF body
          <6>3. QED BY <6>1, <6>2
        <5>2. "sums" \notin Paths
          BY ReviewBundleAssumption, SMT DEF Generated
        <5>3. QED BY <5>1, <5>2, SMT
      <4>2. body = [f \in DOMAIN body |-> body[f]]
        BY SMT DEF BodyFiles, With
      <4>3. QED BY <4>1, <4>2
    <3>3. folder' = Tree(With(body, "sums", body))
      <4> HIDE DEF body
      <4>1. folder' = Tree(With(folder.files, "sums", [f \in DOMAIN folder.files \ {"sums"} |-> folder.files[f]]))
        BY <1>1, <2>2 DEF Put
      <4>2. [f \in DOMAIN folder.files \ {"sums"} |-> folder.files[f]] = body
        BY <3>1, <3>2, SMT
      <4>3. QED BY <3>1, <4>1, <4>2
    <3>4. BundleOf(commit, evidence, profile) = With(body, "sums", body)
      BY BundleBody
    <3>5. step' = "open" /\ folder' = Tree(BundleOf(commit, evidence, profile)) /\ commit' = commit
      BY <1>1, <2>2, <3>3, <3>4
    <3>6. QED BY <1>4, <3>5 DEF Holding
  <2>3. QED BY <1>1, <2>1, <2>2
<1>6. ContentInv'
  <2>1. step' \in Filling \ {"copy", "archive"} /\ step' \notin Checking \cup Clearing /\ copied' = Paths
    BY <1>1, SMT DEF Filling, Checking, Clearing
  <2>2. ~touched' => Current(evidence, profile)'
    BY <1>1, <1>3 DEF Current
  <2>3. QED BY <1>5, <2>1, <2>2 DEF ContentInv
<1>7. QED BY <1>1, <1>6, FillInv DEF Filling

\* What the directory holds when it is packed: a whole bundle of the commit, with
\* the working tree's evidence and profile unless somebody touched it.
LEMMA PackedBundle ==
  ASSUME BundleInv, step \in {"open", "archive"}
  PROVE  \E evidence \in [Paths -> Versions], profile \in Versions :
           /\ folder = Tree(BundleOf(commit, evidence, profile))
           /\ ~touched => profile = tree[Manifest] /\ \A p \in Paths : evidence[p] = tree[p]
<1>1. copied = Paths /\ step \in Filling /\ step # "copy"
  BY SMT DEF BundleInv, ContentInv, Filling
<1>2. PICK evidence \in [Paths -> Versions] :
        \E profile : Holding(evidence, profile) /\ (~touched => Current(evidence, profile))
  BY <1>1 DEF BundleInv, ContentInv
<1>3. PICK profile : Holding(evidence, profile) /\ (~touched => Current(evidence, profile))
  BY <1>2
<1>4. profile \in Versions /\ folder = Tree(BundleOf(commit, evidence, profile))
  BY <1>1, <1>3 DEF Holding
<1>5. ~touched => profile = tree[Manifest] /\ \A p \in Paths : evidence[p] = tree[p]
  BY <1>1, <1>3 DEF Current
<1>6. QED BY <1>4, <1>5

\* An archive being written cannot be read, and its members are files of the directory.
LEMMA PackInv ==
  ASSUME BundleInv, OpenArchive \/ PackFile
  PROVE  BundleInv'
<1>1. /\ step \in {"open", "archive"} /\ step' = "archive"
      /\ UNCHANGED <<head, tree, touched, edits, folder, commit, copied, args, result, found, runs>>
  BY DEF OpenArchive, PackFile, Proceed, checkout, outputs
<1>2. archive' = CutShort /\ Outputs(archive') /\ archive'.state # "tree"
  <2>1. archive' = CutShort
    BY DEF OpenArchive, PackFile, outputs, BundleInv, OutputsInv
  <2>2. QED BY <2>1, OutputStates DEF Outputs
<1>3. packed' \subseteq DOMAIN folder.files
  <2>1. CASE OpenArchive
    BY <2>1 DEF OpenArchive, Proceed, BundleInv, OutputsInv
  <2>2. CASE PackFile
    BY <2>2 DEF PackFile, BundleInv, OutputsInv
  <2>3. QED BY <2>1, <2>2
<1>4. DOMAIN folder.files \subseteq Paths \cup Generated
  <2>1. PICK evidence \in [Paths -> Versions], profile \in Versions :
          folder = Tree(BundleOf(commit, evidence, profile))
    BY <1>1, PackedBundle
  <2>2. folder.files = BundleOf(commit, evidence, profile)
    BY <2>1, OutputStates
  <2>3. Summed(folder.files)
    BY <2>2, BundleSums
  <2>4. QED BY <2>3 DEF Summed
<1>5. copied = Paths
  BY <1>1, SMT DEF BundleInv, ContentInv, Filling
<1>6. BundleTyped'
  BY <1>1, <1>2, <1>3, <1>4, <1>5 DEF BundleInv, BundleTyped
<1>7. VerifiedIsWhole'
  BY <1>2 DEF VerifiedIsWhole
<1>8. (Spared(found[1])' <=> Spared(found[1])) /\ (Spared(found[2])' <=> Spared(found[2]))
  BY <1>1, SparedStays
<1>9. OutputsInv'
  BY <1>1, <1>2, <1>3, <1>8, SMT DEF BundleInv, OutputsInv, Checking, Clearing, Filling
<1>10. ContentInv'
  <2>1. PICK evidence \in [copied -> Versions] :
          \E profile : Holding(evidence, profile) /\ (~touched => Current(evidence, profile))
    BY <1>1 DEF BundleInv, ContentInv, Filling
  <2>2. PICK profile : Holding(evidence, profile) /\ (~touched => Current(evidence, profile))
    BY <2>1
  <2>3. Holding(evidence, profile)'
    BY <1>1, <2>2 DEF Holding
  <2>4. ~touched' => Current(evidence, profile)'
    BY <1>1, <2>2 DEF Current
  <2>5. step' \in Filling /\ step' \notin Checking \cup Clearing
    BY <1>1, SMT DEF Filling, Checking, Clearing
  <2>6. QED BY <1>1, <1>5, <2>3, <2>4, <2>5 DEF ContentInv
<1>11. Clean' <=> Clean
  BY <1>1 DEF Clean
<1>12. CommitInv'
  BY <1>1, <1>11, SMT DEF BundleInv, CommitInv, Clearing, Filling
<1>13. QED BY <1>6, <1>7, <1>9, <1>10, <1>12 DEF BundleInv

\* An archive as a run leaves it once it was opened: whole, in part, or unreadable.
LEMMA LeftArchive ==
  ASSUME BundleInv, step = "archive",
         archive' \in {CutShort, folder, Tree(Restrict(folder.files, packed))}
  PROVE  Outputs(archive') /\ VerifiedIsWhole'
<1>1. PICK evidence \in [Paths -> Versions], profile \in Versions :
        folder = Tree(BundleOf(commit, evidence, profile))
  BY PackedBundle
<1> DEFINE bundle == BundleOf(commit, evidence, profile)
<1>2. folder.files = bundle /\ commit \in Commits /\ packed \subseteq DOMAIN bundle
  BY <1>1, OutputStates DEF BundleInv, CommitInv, OutputsInv, Filling
<1>3. Restrict(bundle, DOMAIN bundle) = bundle
  <2>1. Summed(bundle)
    BY BundleSums
  <2>2. QED BY <2>1 DEF Summed
<1> HIDE DEF bundle
<1>4. ASSUME NEW S \in SUBSET DOMAIN bundle, archive' = Tree(Restrict(bundle, S))
      PROVE  Outputs(archive') /\ VerifiedIsWhole'
  BY <1>2, <1>4, PartIsAllowed DEF bundle
<1>5. CASE archive' = CutShort
  BY <1>5, OutputStates DEF Outputs, VerifiedIsWhole
<1>6. CASE archive' = folder
  BY <1>1, <1>3, <1>4, <1>6 DEF bundle
<1>7. CASE archive' = Tree(Restrict(folder.files, packed))
  BY <1>2, <1>4, <1>7
<1>8. QED BY <1>5, <1>6, <1>7

\* The archive is closed, by the end of the program or by an exception.
LEMMA CloseInv ==
  ASSUME BundleInv, CloseArchive \/ Unwind
  PROVE  BundleInv'
<1>1. /\ step = "archive" /\ folder' = folder
      /\ archive' \in {CutShort, folder, Tree(Restrict(folder.files, packed))}
      /\ \E why \in {"built", "died"} : End(why)
  BY DEF CloseArchive, Unwind
<1>2. Outputs(folder') /\ folder' # CutShort
  BY <1>1 DEF BundleInv, BundleTyped
<1>3. Outputs(archive') /\ VerifiedIsWhole'
  BY <1>1, LeftArchive
<1>4. QED BY <1>1, <1>2, <1>3, EndInv

\* A run that dies leaves the archive, and a directory that may be in part removed.
LEMMA DieInv ==
  ASSUME BundleInv, Die
  PROVE  BundleInv'
<1>1. /\ End("died")
      /\ \/ folder' = folder
         \/ /\ folder # Absent
            /\ \E S \in SUBSET DOMAIN folder.files : folder' = Tree(Restrict(folder.files, S))
      /\ archive' = archive \/ (step = "archive" /\ archive' = folder)
  BY DEF Die
<1>2. Outputs(folder') /\ folder' # CutShort
  <2>1. CASE folder' = folder
    BY <2>1 DEF BundleInv, BundleTyped
  <2>2. CASE /\ folder # Absent
             /\ \E S \in SUBSET DOMAIN folder.files : folder' = Tree(Restrict(folder.files, S))
    <3>1. PICK S \in SUBSET DOMAIN folder.files : folder' = Tree(Restrict(folder.files, S))
      BY <2>2
    <3>2. DOMAIN folder.files \subseteq Paths \cup Generated \cup {"notes"}
      BY <2>2 DEF BundleInv, BundleTyped, Outputs
    <3>3. DOMAIN Restrict(folder.files, S) = S
      BY DEF Restrict
    <3>4. DOMAIN Restrict(folder.files, S) \subseteq Paths \cup Generated \cup {"notes"}
      BY <3>2, <3>3
    <3>5. QED BY <3>1, <3>4, OutputStates DEF Outputs
  <2>3. QED BY <1>1, <2>1, <2>2
<1>3. Outputs(archive') /\ VerifiedIsWhole'
  <2>1. CASE archive' = archive
    BY <2>1 DEF BundleInv, BundleTyped, VerifiedIsWhole
  <2>2. CASE step = "archive" /\ archive' = folder
    BY <2>2, LeftArchive
  <2>3. QED BY <1>1, <2>1, <2>2
<1>4. QED BY <1>1, <1>2, <1>3, EndInv

\* Every step of the program and of the people around it.
LEMMA BundleStep == BundleInv /\ [BundleNext]_bundleVars => BundleInv'
<1> SUFFICES ASSUME BundleInv, [BundleNext]_bundleVars PROVE BundleInv'
  OBVIOUS
<1>1. CASE UNCHANGED bundleVars
  <2>1. UNCHANGED <<head, tree, touched, edits, folder, archive, step, commit, copied, packed, args, result, found, runs>>
    BY <1>1 DEF bundleVars
  <2>2. BundleTyped'
    BY <2>1 DEF BundleInv, BundleTyped
  <2>3. VerifiedIsWhole'
    BY <2>1 DEF BundleInv, VerifiedIsWhole
  <2>4. OutputsInv'
    BY <2>1 DEF BundleInv, OutputsInv, Spared
  <2>5. ContentInv'
    <3>1. \A evidence, profile : Holding(evidence, profile)' <=> Holding(evidence, profile)
      BY <2>1 DEF Holding
    <3>2. \A evidence, profile : Current(evidence, profile)' <=> Current(evidence, profile)
      BY <2>1 DEF Current
    <3>3. QED BY <2>1, <3>1, <3>2 DEF BundleInv, ContentInv
  <2>6. CommitInv'
    BY <2>1 DEF BundleInv, CommitInv, Clean
  <2>7. QED BY <2>2, <2>3, <2>4, <2>5, <2>6 DEF BundleInv
<1>2. CASE ManifestFails
  BY <1>2, FailInv DEF ManifestFails
<1>3. QED
  BY <1>1, <1>2, PeopleInv, UserWritesInv, BeginInv, CheckingInv, ClearingInv, WriteMarkerInv, CopyFileInv,
     WriteBaselineInv, DescribeInv, PackInv, CloseInv, DieInv
  DEF BundleNext

----------------------------------------------------------------------------

\* What a run changes it was allowed to.
LEMMA KeepsUnmarked ==
  ASSUME BundleInv, [BundleNext]_bundleVars, step # "idle"
  PROVE  (Spared(found[1]) => folder' = found[1]) /\ (Spared(found[2]) => archive' = found[2])
<1>1. step \in Checking \/ step \in Clearing \cup Filling
  BY SMT DEF BundleInv, BundleTyped, Checking, Clearing, Filling
<1>2. CASE step \in Clearing \cup Filling
  BY <1>2 DEF BundleInv, OutputsInv
<1>3. CASE step \in Checking
  <2>1. found[1] = folder /\ found[2] = archive
    BY <1>3, SMT DEF BundleInv, OutputsInv
  <2>2. step \notin Clearing \cup Filling
    BY <1>3, SMT DEF Checking, Clearing, Filling
  <2>3. UNCHANGED outputs
    <3>1. CASE UNCHANGED bundleVars
      BY <3>1 DEF bundleVars, outputs
    <3>2. CASE Die
      BY <2>2, <3>2 DEF Die, outputs, Clearing, Filling
    <3>3. CASE (\E p \in Paths : Edit(p)) \/ Checkout \/ GitFails \/ CheckClean \/ ResolveCommit \/ Prepare
               \/ ProbeRaises \/ ManifestFails
      BY <3>3 DEF Edit, Checkout, GitFails, CheckClean, ResolveCommit, Prepare, ProbeRaises, ManifestFails, Fail,
         outputs
    <3>4. QED
      BY <2>2, <3>1, <3>2, <3>3
      DEF BundleNext, UserWrites, Begin, Remove, MakeDir, WriteMarker, CopyFile, WriteBaseline, WriteTemplate,
          WriteChecksums, OpenArchive, PackFile, CloseArchive, Unwind, Clearing, Filling
  <2>4. QED BY <2>1, <2>3 DEF outputs
<1>4. QED BY <1>1, <1>2, <1>3

\* A run that ends leaves the outputs it found, as its result says.
LEMMA RefusesHarmlessly ==
  ASSUME BundleInv, [BundleNext]_bundleVars, step # "idle", step' = "idle"
  PROVE  /\ result' \in {"refused", "crashed"} => <<folder', archive'>> = found
         /\ step # "archive" => archive' = found[2]
<1>1. step # "archive" => found[2] = archive
  BY SMT DEF BundleInv, BundleTyped, OutputsInv, Checking, Clearing, Filling
<1>2. CASE CloseArchive \/ Unwind
  BY <1>2 DEF CloseArchive, Unwind, End
<1>3. CASE Die
  BY <1>1, <1>3 DEF Die, End
<1>4. CASE CheckClean \/ ResolveCommit \/ GitFails \/ Prepare \/ ProbeRaises
  <2>1. (\E why : Fail(why)) /\ step \in Checking
    BY <1>4 DEF CheckClean, ResolveCommit, GitFails, Prepare, ProbeRaises, Proceed, Checking
  <2>2. folder' = folder /\ archive' = archive
    BY <2>1 DEF Fail, outputs
  <2>3. QED BY <1>1, <2>1, <2>2 DEF BundleInv, OutputsInv, Checking
<1>5. CASE CopyFile \/ ManifestFails
  <2>1. (Fail("missing") \/ Fail("manifest")) /\ step = "copy"
    BY <1>5 DEF CopyFile, ManifestFails, Proceed
  <2>2. archive' = archive /\ result' \in {"missing", "manifest"}
    BY <2>1 DEF Fail, End, outputs
  <2>3. QED BY <1>1, <2>1, <2>2
<1>6. QED
  BY <1>2, <1>3, <1>4, <1>5 DEF BundleNext, bundleVars, Edit, Checkout, UserWrites, Begin, Remove, MakeDir,
     WriteMarker, WriteBaseline, WriteTemplate, WriteChecksums, OpenArchive, PackFile, Proceed

\* A bundle reported as built is whole, and that of HEAD when nobody touched the checkout.
LEMMA PacksHead ==
  ASSUME BundleInv, [BundleNext]_bundleVars, step # "idle", result' = "built"
  PROVE  /\ archive'.state = "tree" /\ Verifies(archive'.files)
         /\ ~touched =>
              /\ archive'.files["baseline"].commit = head
              /\ archive'.files["baseline"].profile = archive'.files[Manifest]
              /\ PacksCommit(head, archive'.files)
<1>1. CloseArchive
  <2>1. result = "none" /\ result' # result
    BY SMT DEF BundleInv, OutputsInv
  <2>2. \A why : Fail(why) => result' = why
    BY DEF Fail, End
  <2>3. ~CheckClean /\ ~ResolveCommit /\ ~GitFails /\ ~Prepare /\ ~ProbeRaises /\ ~CopyFile /\ ~ManifestFails
    BY <2>1, <2>2 DEF GitFails, CheckClean, ResolveCommit, Prepare, ProbeRaises, CopyFile, ManifestFails, Proceed
  <2>4. ~Unwind /\ ~Die
    BY DEF Unwind, Die, End
  <2>5. QED
    BY <2>1, <2>3, <2>4 DEF BundleNext, bundleVars, Edit, Checkout, UserWrites, Begin, Remove, MakeDir,
       WriteMarker, WriteBaseline, WriteTemplate, WriteChecksums, OpenArchive, PackFile, Proceed
<1>2. step = "archive" /\ archive' = folder
  BY <1>1 DEF CloseArchive
<1>3. PICK evidence \in [Paths -> Versions], profile \in Versions :
        /\ folder = Tree(BundleOf(commit, evidence, profile))
        /\ ~touched => profile = tree[Manifest] /\ \A p \in Paths : evidence[p] = tree[p]
  BY <1>2, PackedBundle
<1> DEFINE bundle == BundleOf(commit, evidence, profile)
<1>4. Contains(bundle, commit, evidence, profile)
  BY BundleContents
<1>5. archive'.files = bundle /\ archive'.state = "tree"
  BY <1>2, <1>3, OutputStates
<1>6. Verifies(bundle)
  <2>1. Summed(bundle)
    BY BundleSums
  <2>2. QED BY <2>1, PartOfBundle
<1> HIDE DEF bundle
<1>7. bundle["baseline"].commit = commit /\ bundle["baseline"].profile = profile
  BY <1>4, SMT DEF Contains
<1>8. ASSUME ~touched
      PROVE  /\ archive'.files["baseline"].commit = head
             /\ archive'.files["baseline"].profile = archive'.files[Manifest]
             /\ PacksCommit(head, archive'.files)
  <2>1. commit = head /\ Clean
    BY <1>2, <1>8 DEF BundleInv, CommitInv, Filling
  <2>2. PacksCommit(head, archive'.files)
    BY <1>3, <1>4, <1>5, <1>8, <2>1 DEF PacksCommit, Clean, Contains
  <2>3. bundle[Manifest] = profile
    BY <1>3, <1>4, <1>8, ReviewBundleAssumption DEF Contains
  <2>4. QED BY <1>5, <1>7, <2>1, <2>2, <2>3
<1>9. QED BY <1>5, <1>6, <1>8

\* An archive that can be read holds files of one bundle and is all of it when its
\* checksums verify, whatever earlier runs, interrupts, crashes and edits left behind;
\* the generator keeps what has no marker; a refusal leaves both outputs as they were;
\* what is reported as built verifies, and for an untouched checkout is that of HEAD.
THEOREM BundleIsAlwaysSafe == BundleSpec => BundleIsSafe
<1>1. BundleSpec => []BundleInv
  BY BundleInitInv, BundleStep, PTL DEF BundleSpec
<1>2. BundleInv => BundleTyped /\ VerifiedIsWhole
  BY DEF BundleInv
<1>3. BundleInv /\ [BundleNext]_bundleVars =>
        [step # "idle" => /\ Spared(found[1]) => folder' = found[1]
                          /\ Spared(found[2]) => archive' = found[2]]_bundleVars
  BY KeepsUnmarked
<1>4. BundleInv /\ [BundleNext]_bundleVars =>
        [(step # "idle" /\ step' = "idle") =>
           /\ result' \in {"refused", "crashed"} => <<folder', archive'>> = found
           /\ step # "archive" => archive' = found[2]]_bundleVars
  BY RefusesHarmlessly
<1>5. BundleInv /\ [BundleNext]_bundleVars =>
        [(step # "idle" /\ result' = "built") =>
           /\ archive'.state = "tree" /\ Verifies(archive'.files)
           /\ ~touched =>
                /\ archive'.files["baseline"].commit = head
                /\ archive'.files["baseline"].profile = archive'.files[Manifest]
                /\ PacksCommit(head, archive'.files)]_bundleVars
  BY PacksHead
<1>6. QED
  BY <1>1, <1>2, <1>3, <1>4, <1>5, PTL
  DEF BundleSpec, BundleIsSafe, UnmarkedIsKept, RefusalIsHarmless, PacksItsCommit

============================================================================
