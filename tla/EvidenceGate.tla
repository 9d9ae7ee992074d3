---------------------------- MODULE EvidenceGate -----------------------------
(***************************************************************************)
(* What is on disk when release_evidence.py runs, and the predicate it       *)
(* evaluates there: one operator per report validator and per section of     *)
(* _validated_files, joined in Accepted.                                     *)
(*                                                                          *)
(* A commit is identified with the tree it commits, so tree = head is a      *)
(* clean working tree.  A report carries the commit and the dirty flag its   *)
(* tool stamped, what it closed ("all" or "part" of what the release asks),  *)
(* the tree when the tool began and when it ended (from which the hashes it  *)
(* lists follow) and the regression it cites.  intact[k] says that the files *)
(* report k lists by hash are on disk as that run left them.                 *)
(***************************************************************************)
EXTENDS EvidenceTools, FiniteSets

CONSTANTS
  Trees,      \* contents of the working tree; each is also a commit
  OwnFiles    \* OwnFiles[t]: the test benches, scripts and manifests of tree t

ASSUME TreesAssumption == Trees # {} /\ OwnFiles \in [Trees -> Nat]

VARIABLES
  tree,       \* content of the working tree
  head,       \* the commit checked out
  reports,    \* reports[k]: what k's report file says
  intact,     \* intact[k]: k's listed files match its report
  regression, \* what regression.json says
  watched     \* the tools this behaviour follows; the others are let through

Statuses == {"absent", "running", "passed", "failed"}

Report == [status: Statuses, commit: Trees, dirty: BOOLEAN,
           closed: {"part", "all"}, begun: Trees, ended: Trees, cites: Nat]

Regression ==
  [status: {"absent", "running", "passed", "failed", "interrupted"},
   mode: {"quick", "full"}, scope: {"release", "simulation-only"},
   commit: Trees, dirty: BOOLEAN, digest: Trees,
   results: SUBSET (Kinds \cup {"clean", "checks"}), id: Nat]

Clean == tree = head

\* Mutant of CleanAt: the dirty flag is not looked at.
CommitAt(r, commit) == r.commit = commit

CleanAt(r, commit) == ~r.dirty /\ r.commit = commit

Complete(r, commit) ==
  r.status = "passed" /\ r.closed = "all" /\ CleanAt(r, commit)

-----------------------------------------------------------------------------
(* The report validators.                                                    *)

ValidFormal(r, commit) == Complete(r, commit)

ValidSoak(r, commit) == Complete(r, commit)

ValidRandomEvents(r, commit) == Complete(r, commit)

ValidFunctional(r, commit) == Complete(r, commit)

\* Mutant of ValidConstrainedRandom: every campaign will do.
AnyGradeRandom(r, commit, releaseGrade) ==
  r.status = "passed" /\ CleanAt(r, commit)

\* The grade of the campaign has to be the grade of the regression: a quick
\* regression wants the report of the quick campaign.
ValidConstrainedRandom(r, commit, releaseGrade) ==
  /\ r.status = "passed"
  /\ CleanAt(r, commit)
  /\ releaseGrade <=> r.closed = "all"

ValidPublicSuite(r, commit) == Complete(r, commit)

ValidTable7(r, commit) == Complete(r, commit)

ValidTrm(r, commit) == Complete(r, commit)

\* The report has no status field: it is written only when the contract held.
ValidAcTiming(r, commit) ==
  r.status # "absent" /\ r.closed = "all" /\ CleanAt(r, commit)

ValidFramework(r, commit) == Complete(r, commit)

\* Regression and coverage are checked together, against the current commit.
ValidEvidence(coverage, commit) ==
  /\ regression.status = "passed"
  /\ CleanAt(regression, commit)
  /\ coverage.status # "absent"
  /\ CleanAt(coverage, commit)
-----------------------------------------------------------------------------
(* Files on disk against the hashes a report lists.                          *)

HashedTree(k) == IF Tool[k].hashes = "start" THEN reports[k].begun
                                             ELSE reports[k].ended

InputsMatch(k) ==
  CASE Tool[k].inputs = "sources" -> HashedTree(k) = tree
    [] Tool[k].inputs = "own"     -> OwnFiles[HashedTree(k)] = OwnFiles[tree]
    [] Tool[k].inputs = "nothing" -> TRUE

ArtifactsMatch(k) == Tool[k].disturbs => intact[k]

\* The regression phases a report was built from are those of this regression.
CitesThis(k) == reports[k].cites = regression.id

Phases(mode, scope) ==
  AllPhases \cap Selected(mode, scope) \cap (watched \cup {"clean", "checks"})

RegressionPhases == Phases(regression.mode, regression.scope)

\* Only a phase that passed is followed by another: the last result of a failed
\* regression is left out, its status says the same.
PhaseNames == regression.results

Followed(k) == k \in watched

OnDisk(k) == reports[k].status # "absent"
-----------------------------------------------------------------------------
(* _validated_files, section by section.                                     *)

\* The count of results is written with the status "passed".
ResultsPassed == regression.status = "passed" /\ PhaseNames # {}

CoverageFiles ==
  Followed("coverage") => OnDisk("coverage") /\ ArtifactsMatch("coverage")

MandatoryInFull == {"framework", "table7", "events", "functional", "formal"}

FullHasMandatory ==
  regression.mode = "full" => MandatoryInFull \cap watched \subseteq PhaseNames

FormalFiles ==
  "formal" \in PhaseNames =>
    /\ ValidFormal(reports["formal"], regression.commit)
    /\ ArtifactsMatch("formal") /\ InputsMatch("formal")

TrmFiles ==
  Followed("trm") =>
    /\ "trm" \in PhaseNames
    /\ ValidTrm(reports["trm"], regression.commit)
    /\ InputsMatch("trm")

AcTimingFiles ==
  Followed("ac") =>
    /\ "ac" \in PhaseNames
    /\ ValidAcTiming(reports["ac"], regression.commit)

TraceabilityFiles ==
  Followed("traceability") =>
    /\ "traceability" \in PhaseNames
    /\ OnDisk("traceability")
    /\ CleanAt(reports["traceability"], regression.commit)
    /\ reports["traceability"].closed = "all"
    /\ InputsMatch("traceability")

\* Their presence is all that is asked of these three.
UnboundFiles ==
  \A k \in {"options", "qemu", "compiler"} \cap PhaseNames : OnDisk(k)

SoakFiles ==
  "soak" \in PhaseNames =>
    /\ ValidSoak(reports["soak"], regression.commit)
    /\ InputsMatch("soak") /\ ArtifactsMatch("soak")

RandomEventFiles ==
  "events" \in PhaseNames =>
    /\ ValidRandomEvents(reports["events"], regression.commit)
    /\ InputsMatch("events") /\ ArtifactsMatch("events")

\* random-validation and random-validation-quick are two names of one phase
\* here: which one ran follows from the mode.
ConstrainedRandomFiles ==
  "random" \in PhaseNames =>
    /\ ValidConstrainedRandom(reports["random"], regression.commit,
                              regression.mode = "full")
    /\ InputsMatch("random") /\ ArtifactsMatch("random")

PublicSuiteFiles ==
  "public" \in PhaseNames =>
    /\ ValidPublicSuite(reports["public"], regression.commit)
    /\ InputsMatch("public") /\ ArtifactsMatch("public")

Table7Files ==
  "table7" \in PhaseNames =>
    /\ ValidTable7(reports["table7"], regression.commit)
    /\ InputsMatch("table7") /\ CitesThis("table7")

FunctionalFiles ==
  "functional" \in PhaseNames =>
    /\ ValidFunctional(reports["functional"], regression.commit)
    /\ InputsMatch("functional") /\ CitesThis("functional")

QualityFiles ==
  /\ {"lint", "cdc"} \subseteq watched =>
       ("lint" \in PhaseNames <=> "cdc" \in PhaseNames)
  /\ \A k \in {"lint", "cdc"} \cap PhaseNames :
       /\ Complete(reports[k], regression.commit)
       /\ ArtifactsMatch(k) /\ InputsMatch(k)

PostfitFiles ==
  "postfit" \in PhaseNames =>
    /\ Complete(reports["postfit"], regression.commit)
    /\ ArtifactsMatch("postfit") /\ InputsMatch("postfit")

FrameworkFiles ==
  "framework" \in PhaseNames =>
    /\ ValidFramework(reports["framework"], regression.commit)
    /\ InputsMatch("framework") /\ ArtifactsMatch("framework")

ValidatedFiles ==
  /\ ResultsPassed /\ CoverageFiles /\ FullHasMandatory
  /\ FormalFiles /\ TrmFiles /\ AcTimingFiles /\ TraceabilityFiles
  /\ UnboundFiles /\ SoakFiles /\ RandomEventFiles
  /\ ConstrainedRandomFiles /\ PublicSuiteFiles /\ Table7Files
  /\ FunctionalFiles /\ QualityFiles /\ PostfitFiles /\ FrameworkFiles

\* main up to build_manifest.
Accepted ==
  /\ Clean
  /\ ValidEvidence(reports["coverage"], head)
  /\ regression.digest = reports["coverage"].ended
  /\ regression.digest = tree
  /\ ValidatedFiles

\* What is then archived.
Candidates == (PhaseNames \cap Kinds) \cup {"coverage"}
==============================================================================
