--------------------------- MODULE ReleaseEvidence ---------------------------
(***************************************************************************)
(* From the working tree to a release archive: a developer who edits,        *)
(* commits and reverts at any moment; the regression runner, which starts    *)
(* the tools of EvidenceTools one after the other and keeps regression.json  *)
(* up to date; tools started on their own; interrupts and kills; and         *)
(* release_evidence.py, which archives what EvidenceGate accepts.            *)
(*                                                                          *)
(* One command runs at a time.  Every report is replaced by os.replace, so   *)
(* no reader sees half of one.                                               *)
(***************************************************************************)
EXTENDS EvidenceGate

CONSTANTS
  FirstTree,       \* the tree, clean, that a behaviour begins with
  Profiles,        \* sets of tools; a behaviour follows one of them
  MaxEdits,        \* edits, commits and reverts in a behaviour
  MaxRegressions,  \* regressions in a behaviour
  MaxCommands,     \* tools and cleans started by hand
  MaxMishaps       \* failures, refusals, interrupts and kills

ASSUME ProfilesAssumption ==
  FirstTree \in Trees /\ Profiles \subseteq SUBSET Kinds

VARIABLES
  job,       \* the tool that runs, or NoJob
  runner,    \* "idle", or "alive" while the regression runner lives
  archive,   \* archive[c]: the evidence archive named after commit c
  calm,      \* nothing but the regression and coverage ran since a clean start
  spent      \* how much of each bound is used

vars == <<tree, head, reports, intact, regression, watched,
          job, runner, archive, calm, spent>>
devVars == <<tree, head>>
diskVars == <<reports, intact>>

NoJob == [kind |-> "none"]
NoBundle == [mode |-> "none"]

Job == [kind: Kinds, asked: {"part", "all"}, commit: Trees, dirty: BOOLEAN,
        begun: Trees, byHand: BOOLEAN]

\* A report of which only the status will be read.
Blank(s) == [status |-> s, commit |-> FirstTree, dirty |-> TRUE,
             closed |-> "part", begun |-> FirstTree, ended |-> FirstTree,
             cites |-> 0]

Spend(what) == /\ spent[what] > 0
               /\ spent' = [spent EXCEPT ![what] = @ - 1]

Init ==
  /\ tree = FirstTree /\ head = FirstTree
  /\ watched \in Profiles
  /\ reports = [k \in Kinds |-> Blank("absent")]
  /\ intact = [k \in Kinds |-> FALSE]
  /\ regression = [status |-> "absent", mode |-> "quick", scope |-> "release",
                   commit |-> head, dirty |-> TRUE, digest |-> head,
                   results |-> {}, id |-> 0]
  /\ job = NoJob /\ runner = "idle"
  /\ archive = [c \in Trees |-> NoBundle]
  /\ calm = FALSE
  /\ spent = [edits |-> MaxEdits, regressions |-> MaxRegressions,
              commands |-> MaxCommands, mishaps |-> MaxMishaps]
-----------------------------------------------------------------------------
(* The developer.                                                            *)

Edit ==
  /\ Spend("edits")
  /\ \E t \in Trees \ {tree} : tree' = t
  /\ calm' = FALSE
  /\ UNCHANGED <<head, diskVars, regression, watched, job, runner, archive>>

Commit ==
  /\ ~Clean /\ Spend("edits")
  /\ head' = tree /\ calm' = FALSE
  /\ UNCHANGED <<tree, diskVars, regression, watched, job, runner, archive>>

Revert ==
  /\ ~Clean /\ Spend("edits")
  /\ tree' = head /\ calm' = FALSE
  /\ UNCHANGED <<head, diskVars, regression, watched, job, runner, archive>>
-----------------------------------------------------------------------------
(* One run of one tool, by hand or as a phase.                               *)

\* table7_cross and functional_coverage want the live full regression of the
\* clean current commit, with the phases they cite already passed in it.
LiveFullRegression ==
  /\ regression.mode = "full" /\ regression.status \in {"running", "passed"}
  /\ CleanAt(regression, head) /\ Clean
  /\ "checks" \in PhaseNames

Refused(k) ==
  \/ Tool[k].needs = "clean" /\ ~Clean
  \/ Tool[k].needs = "regression" /\ ~LiveFullRegression

\* What a tool does before it measures: the job is born, "running" is written
\* and the artifact directory emptied.
Start(k, asked, byHand) ==
  /\ ~Refused(k)
  /\ job' = [kind |-> k, asked |-> asked, commit |-> head, dirty |-> ~Clean,
             begun |-> tree, byHand |-> byHand]
  /\ reports' = IF Tool[k].announces
                THEN [reports EXCEPT ![k] = Blank("running")]
                ELSE IF Tool[k].onFailure = "loses"
                THEN [reports EXCEPT ![k] = Blank("absent")]
                ELSE reports
  /\ intact' = IF Tool[k].wipes \/ Tool[k].disturbs
               THEN [intact EXCEPT ![k] = FALSE] ELSE intact

\* The report of the job that runs, if it ends now.
ReportNow ==
  LET atStart == Tool[job.kind].git = "start"
  IN  [status |-> "passed",
       commit |-> IF atStart THEN job.commit ELSE head,
       dirty  |-> IF atStart THEN job.dirty ELSE ~Clean,
       closed |-> job.asked, begun |-> job.begun, ended |-> tree,
       cites  |-> IF Tool[job.kind].needs = "regression"
                  THEN regression.id ELSE 0]

Pass ==
  /\ job # NoJob
  /\ reports' = [reports EXCEPT ![job.kind] = ReportNow]
  /\ intact' = [intact EXCEPT ![job.kind] = TRUE]
  /\ job' = NoJob

\* What may be left of the report of k when its run fails or is refused: an
\* exception that the tool does not catch leaves what was there.
AfterFailure(k) ==
  CASE Tool[k].onFailure = "fails" -> {Blank("failed"), reports[k]}
    [] Tool[k].onFailure = "keeps" -> {reports[k]}
    [] Tool[k].onFailure = "loses" -> {Blank("absent")}

Failed(k) ==
  \E r \in AfterFailure(k) : reports' = [reports EXCEPT ![k] = r]

RunByHand(k, asked) ==
  /\ job = NoJob /\ runner = "idle" /\ Spend("commands")
  /\ asked = "all" \/ k \in Scalable
  /\ Start(k, asked, TRUE)
  /\ calm' = (calm /\ k = "coverage")
  /\ UNCHANGED <<devVars, regression, watched, runner, archive>>

\* make clean removes the simulator binaries that two reports list by hash.
RemovedBinaries == [k \in Kinds |-> intact[k] /\ k \notin {"soak", "events"}]

CleanByHand ==
  /\ job = NoJob /\ runner = "idle" /\ Spend("commands")
  /\ intact' = RemovedBinaries /\ calm' = FALSE
  /\ UNCHANGED <<devVars, reports, regression, watched, job, runner, archive>>

PassByHand ==
  /\ job # NoJob /\ job.byHand /\ Pass
  /\ UNCHANGED <<devVars, regression, watched, runner, archive, calm, spent>>

FailByHand ==
  /\ job # NoJob /\ job.byHand /\ Spend("mishaps")
  /\ Failed(job.kind)
  /\ job' = NoJob
  /\ UNCHANGED <<devVars, intact, regression, watched, runner, archive, calm>>
-----------------------------------------------------------------------------
(* The regression runner.                                                    *)

StartRegression(mode, scope) ==
  /\ job = NoJob /\ runner = "idle" /\ Spend("regressions")
  /\ regression' = [status |-> "running", mode |-> mode, scope |-> scope,
                    commit |-> head, dirty |-> ~Clean, digest |-> tree,
                    results |-> {}, id |-> regression.id + 1]
  /\ runner' = "alive"
  /\ calm' = Clean
  /\ UNCHANGED <<devVars, diskVars, watched, job, archive>>

PhasesLeft == RegressionPhases \ regression.results

\* The loop has come to phase p, the first that is left.
AtPhase(p) ==
  /\ runner = "alive" /\ job = NoJob
  /\ p \in PhasesLeft
  /\ \E i \in DOMAIN PhaseOrder :
       /\ p = PhaseOrder[i]
       /\ \A j \in 1 .. i - 1 : PhaseOrder[j] \notin PhasesLeft

PhasePassed(p) ==
  regression' = [regression EXCEPT !.results = @ \cup {p}]

\* _run_phase returned a failure: one more report, and the runner is gone.
RunnerStops(status) ==
  regression' = [regression EXCEPT !.status = status] /\ runner' = "idle"

CleanPhase ==
  /\ AtPhase("clean") /\ PhasePassed("clean")
  /\ intact' = RemovedBinaries
  /\ UNCHANGED <<devVars, reports, watched, job, runner, archive, calm, spent>>

ChecksPass ==
  /\ AtPhase("checks") /\ PhasePassed("checks")
  /\ UNCHANGED <<devVars, diskVars, watched, job, runner, archive, calm, spent>>

ChecksFail ==
  /\ AtPhase("checks") /\ Spend("mishaps") /\ RunnerStops("failed")
  /\ UNCHANGED <<devVars, diskVars, watched, job, archive, calm>>

ToolPhase(k) ==
  /\ AtPhase(k) /\ Start(k, AskedBy(regression.mode, k), FALSE)
  /\ UNCHANGED <<devVars, regression, watched, runner, archive, calm, spent>>

PhaseRefused(k) ==
  /\ AtPhase(k) /\ Refused(k) /\ Spend("mishaps") /\ RunnerStops("failed")
  /\ Failed(k)
  /\ UNCHANGED <<devVars, intact, watched, job, archive, calm>>

PhasePasses ==
  /\ job # NoJob /\ ~job.byHand /\ Pass /\ PhasePassed(job.kind)
  /\ UNCHANGED <<devVars, watched, runner, archive, calm, spent>>

PhaseFails ==
  /\ job # NoJob /\ ~job.byHand /\ Spend("mishaps") /\ RunnerStops("failed")
  /\ Failed(job.kind)
  /\ job' = NoJob
  /\ UNCHANGED <<devVars, intact, watched, archive, calm>>

RegressionPasses ==
  /\ runner = "alive" /\ job = NoJob /\ PhasesLeft = {}
  /\ RunnerStops("passed")
  /\ UNCHANGED <<devVars, diskVars, watched, job, archive, calm, spent>>

\* KeyboardInterrupt reaches the runner, which says so, and the tool, which
\* leaves its report as it was.
Interrupt ==
  /\ runner = "alive" /\ Spend("mishaps") /\ RunnerStops("interrupted")
  /\ job' = NoJob
  /\ UNCHANGED <<devVars, diskVars, watched, archive, calm>>

\* The power goes: nobody writes anything.
Kill ==
  /\ job # NoJob \/ runner = "alive"
  /\ Spend("mishaps")
  /\ job' = NoJob /\ runner' = "idle"
  /\ UNCHANGED <<devVars, diskVars, regression, watched, archive, calm>>
-----------------------------------------------------------------------------
(* release_evidence.main: what is accepted is archived under the commit's    *)
(* name, an older archive of that commit replaced.                           *)

Contents ==
  [mode |-> regression.mode, scope |-> regression.scope,
   digest |-> regression.digest,
   evidence |-> [k \in Candidates \cap watched |-> reports[k]]]

Package ==
  /\ job = NoJob /\ runner = "idle" /\ Accepted
  /\ archive' = [archive EXCEPT ![head] = Contents]
  /\ UNCHANGED <<devVars, diskVars, regression, watched, job, runner, calm, spent>>

Next ==
  \/ Edit \/ Commit \/ Revert
  \/ \E k \in watched, asked \in {"part", "all"} : RunByHand(k, asked)
  \/ CleanByHand \/ PassByHand \/ FailByHand
  \/ \E mode \in {"quick", "full"}, scope \in {"release", "simulation-only"} :
       StartRegression(mode, scope)
  \/ CleanPhase \/ ChecksPass \/ ChecksFail
  \/ \E k \in watched : ToolPhase(k) \/ PhaseRefused(k)
  \/ PhasePasses \/ PhaseFails \/ RegressionPasses
  \/ Interrupt \/ Kill
  \/ Package

Spec == Init /\ [][Next]_vars
-----------------------------------------------------------------------------
\* The variables stay in their sets.
TypeOK ==
  /\ tree \in Trees /\ head \in Trees
  /\ watched \in Profiles
  /\ reports \in [Kinds -> Report]
  /\ intact \in [Kinds -> BOOLEAN]
  /\ regression \in Regression
  /\ job \in Job \cup {NoJob}
  /\ runner \in {"idle", "alive"}
  /\ archive = [c \in Trees |-> archive[c]]
  /\ calm \in BOOLEAN

\* Evidence r of tool k was taken on commit c: the tree was c's when the tool
\* asked git, and again when it hashed all the sources, if it does.  Where one
\* is at the start and the other at the end, both ends are bound.
Attests(k, r, c) ==
  /\ IF Tool[k].git = "start" THEN r.begun = c ELSE r.ended = c
  /\ Tool[k].inputs = "sources" =>
       IF Tool[k].hashes = "start" THEN r.begun = c ELSE r.ended = c

\* Whatever was edited, committed, reverted, rerun or interrupted meanwhile,
\* an archive named after a commit holds a regression of that commit's sources
\* and, of each report the gate checks, one that attests that commit.
ArchivedAttested ==
  \A c \in Trees : archive[c] # NoBundle =>
    /\ archive[c].digest = c
    /\ \A k \in DOMAIN archive[c].evidence \cap Bound :
         Attests(k, archive[c].evidence[k], c)

\* An archive of a full regression is a release-grade one: it holds
\* every mandatory report, each complete, whatever smaller campaigns, quick
\* regressions or failures came in between.
FullIsComplete ==
  \A c \in Trees : archive[c] # NoBundle /\ archive[c].mode = "full" =>
    /\ archive[c].scope = "simulation-only" => "framework" \notin watched
    /\ MandatoryInFull \cap watched \subseteq DOMAIN archive[c].evidence
    /\ \A k \in DOMAIN archive[c].evidence \cap Bound :
         archive[c].evidence[k].closed = "all"

\* The gate is not stricter than the tools: after a full release regression
\* and coverage on a clean tree, with nothing else done since, it accepts.
HonestAccepted ==
  /\ calm /\ job = NoJob /\ runner = "idle"
  /\ regression.status = "passed"
  /\ regression.mode = "full" /\ regression.scope = "release"
  /\ OnDisk("coverage") /\ CleanAt(reports["coverage"], head)
  => Accepted
==============================================================================
