------------------------ MODULE ReleaseEvidenceProofs ------------------------
(***************************************************************************)
(* For any set of trees, any tools followed and any bounds: types, that every *)
(* archive attests its commit, that a full one is complete and that an        *)
(* undisturbed release is accepted.                                          *)
(*                                                                          *)
(* StampInv carries the stamp of a report from the job that takes it: a clean *)
(* stamp names the tree at the end of the run the tool asked git at.  Edits  *)
(* while a tool runs cannot break it, because the stamp is either taken      *)
(* before them and paired with the tree of that moment, or after them.       *)
(* RunnerInv says how far the runner is, CoverageInv what a coverage report   *)
(* is worth, CalmInv what the phases leave when nothing disturbs them.       *)
(***************************************************************************)
EXTENDS ReleaseEvidence, TLAPS

\* A clean stamp names the tree its tool saw when it asked git.
StampNamesTree(k, r) ==
  ~r.dirty => IF Tool[k].git = "start" THEN r.begun = r.commit
                                       ELSE r.ended = r.commit

ReportsStamped == \A k \in Kinds : StampNamesTree(k, reports[k])

JobStamped == job # NoJob /\ ~job.dirty => job.begun = job.commit

StampInv == TypeOK /\ ReportsStamped /\ JobStamped

-----------------------------------------------------------------------------
LEMMA KindNames ==
  Kinds = {"lint", "cdc", "options", "postfit", "framework", "qemu",
           "compiler", "formal", "table7", "functional", "public", "random",
           "events", "soak", "trm", "ac", "traceability", "coverage"}
BY DEF Kinds, Tool

LEMMA WatchedKinds == watched \in Profiles => watched \subseteq Kinds
BY ProfilesAssumption

LEMMA NoJobIsNoKind == NoJob \notin Job
<1>1. "none" \notin Kinds
  BY KindNames
<1> QED BY <1>1 DEF NoJob, Job

\* A job that is not NoJob has the fields of a job.
LEMMA JobTyped ==
  ASSUME job \in Job \cup {NoJob}, job # NoJob
  PROVE  /\ job \in Job /\ job.kind \in Kinds /\ job.asked \in {"part", "all"}
         /\ job.commit \in Trees /\ job.dirty \in BOOLEAN
         /\ job.begun \in Trees
BY DEF Job

LEMMA BlankTyped ==
  ASSUME NEW s \in Statuses
  PROVE  Blank(s) \in Report /\ Blank(s).dirty
<1>1. FirstTree \in Trees BY ProfilesAssumption
<1>2. 0 \in Nat OBVIOUS
<1> QED BY <1>1, <1>2 DEF Blank, Report

LEMMA CleanTyped == Clean \in BOOLEAN
BY DEF Clean

\* One more result.
LEMMA PhasePassedTyped ==
  ASSUME regression \in Regression, NEW p \in Kinds \cup {"clean", "checks"},
         PhasePassed(p)
  PROVE  regression' \in Regression
BY DEF Regression, PhasePassed

\* The report of the running job is one, and its stamp names the tree.
LEMMA ReportNowTyped ==
  ASSUME TypeOK, JobStamped, job # NoJob
  PROVE  ReportNow \in Report /\ StampNamesTree(job.kind, ReportNow)
<1>1. job.commit \in Trees /\ job.dirty \in BOOLEAN /\ job.begun \in Trees
      /\ job.asked \in {"part", "all"}
  BY JobTyped DEF TypeOK
<1>2. tree \in Trees /\ head \in Trees /\ regression.id \in Nat
  BY DEF TypeOK, Regression
<1>3. ReportNow \in Report
  <2>1. (IF Tool[job.kind].git = "start" THEN job.commit ELSE head) \in Trees
    BY <1>1, <1>2
  <2>2. (IF Tool[job.kind].git = "start" THEN job.dirty ELSE ~Clean) \in BOOLEAN
    BY <1>1 DEF Clean
  <2>3. (IF Tool[job.kind].needs = "regression" THEN regression.id ELSE 0) \in Nat
    BY <1>2
  <2>4. "passed" \in Statuses
    BY DEF Statuses
  <2> QED BY <1>1, <1>2, <2>1, <2>2, <2>3, <2>4 DEF ReportNow, Report
<1>4. CASE Tool[job.kind].git = "start"
  <2>1. ReportNow.dirty = job.dirty /\ ReportNow.begun = job.begun
        /\ ReportNow.commit = job.commit
    BY <1>4 DEF ReportNow
  <2> QED BY <1>3, <1>4, <2>1 DEF StampNamesTree, JobStamped
<1>5. CASE Tool[job.kind].git # "start"
  <2>1. ReportNow.dirty = ~Clean /\ ReportNow.ended = tree
        /\ ReportNow.commit = head
    BY <1>5 DEF ReportNow
  <2> QED BY <1>3, <1>5, <2>1 DEF StampNamesTree, Clean
<1> QED BY <1>4, <1>5

\* Replacing one report by a well-stamped one keeps all of them well stamped.
LEMMA OneReport ==
  ASSUME reports \in [Kinds -> Report], ReportsStamped,
         NEW k \in Kinds, NEW r \in Report, StampNamesTree(k, r),
         reports' = [reports EXCEPT ![k] = r]
  PROVE  reports' \in [Kinds -> Report] /\ ReportsStamped'
BY DEF ReportsStamped, StampNamesTree

\* Every tool treats the report of a failed run in one of three ways.
LEMMA FailureKinds ==
  \A k \in Kinds : Tool[k].onFailure \in {"fails", "keeps", "loses"}
BY DEF Kinds, Tool, IndependentLint, CdcRdcCheck, OptionCharacterization,
       PostfitSim, MisterFramework, QemuReference, CompilerProgram,
       FormalReport, Table7Cross, FunctionalCoverage, PublicSuite,
       ConstrainedRandom, RandomEvents, SoakHarness, TrmCoverage, AcTiming,
       Traceability, CoverageReport

\* Whatever a failed run leaves is a well-stamped report.
LEMMA AfterFailureTyped ==
  ASSUME reports \in [Kinds -> Report], ReportsStamped, NEW k \in Kinds
  PROVE  \A r \in AfterFailure(k) : r \in Report /\ StampNamesTree(k, r)
<1>1. Blank("failed") \in Report /\ Blank("failed").dirty
  BY BlankTyped DEF Statuses
<1>2. Blank("absent") \in Report /\ Blank("absent").dirty
  BY BlankTyped DEF Statuses
<1>3. Tool[k].onFailure \in {"fails", "keeps", "loses"}
  BY FailureKinds
<1>4. AfterFailure(k) \subseteq {Blank("failed"), Blank("absent"), reports[k]}
  BY <1>3 DEF AfterFailure
<1> QED BY <1>1, <1>2, <1>4 DEF ReportsStamped, StampNamesTree

\* A tool that starts leaves the reports stamped and its own stamp in the job.
LEMMA StartKeeps ==
  ASSUME StampInv, NEW k \in Kinds, NEW asked \in {"part", "all"},
         NEW byHand \in BOOLEAN, Start(k, asked, byHand)
  PROVE  /\ reports' \in [Kinds -> Report] /\ ReportsStamped'
         /\ intact' \in [Kinds -> BOOLEAN]
         /\ job' \in Job /\ JobStamped'
<1>1. reports \in [Kinds -> Report] /\ ReportsStamped
  BY DEF StampInv, TypeOK
<1>2. Blank("running") \in Report /\ StampNamesTree(k, Blank("running"))
  BY BlankTyped DEF Statuses, StampNamesTree
<1>3. Blank("absent") \in Report /\ StampNamesTree(k, Blank("absent"))
  BY BlankTyped DEF Statuses, StampNamesTree
<1>4. \/ reports' = [reports EXCEPT ![k] = Blank("running")]
      \/ reports' = [reports EXCEPT ![k] = Blank("absent")]
      \/ reports' = reports
  BY DEF Start
<1>5. reports' \in [Kinds -> Report] /\ ReportsStamped'
  <2>1. CASE reports' = [reports EXCEPT ![k] = Blank("running")]
    BY <1>1, <1>2, <2>1, OneReport
  <2>2. CASE reports' = [reports EXCEPT ![k] = Blank("absent")]
    BY <1>1, <1>3, <2>2, OneReport
  <2>3. CASE reports' = reports
    BY <1>1, <2>3 DEF ReportsStamped
  <2> QED BY <1>4, <2>1, <2>2, <2>3
<1>6. intact' \in [Kinds -> BOOLEAN]
  BY DEF Start, StampInv, TypeOK
<1>7. job' = [kind |-> k, asked |-> asked, commit |-> head, dirty |-> ~Clean,
              begun |-> tree, byHand |-> byHand]
  BY DEF Start
<1>8. job' \in Job
  BY <1>7 DEF StampInv, TypeOK, Job, Clean
<1>9. JobStamped'
  BY <1>7 DEF JobStamped, Clean
<1> QED BY <1>5, <1>6, <1>8, <1>9

\* A tool that passes.
LEMMA PassKeeps ==
  ASSUME StampInv, Pass
  PROVE  /\ reports' \in [Kinds -> Report] /\ ReportsStamped'
         /\ intact' \in [Kinds -> BOOLEAN]
         /\ job' = NoJob /\ JobStamped'
<1>1. job # NoJob /\ job.kind \in Kinds
  BY JobTyped DEF Pass, StampInv, TypeOK
<1>2. ReportNow \in Report /\ StampNamesTree(job.kind, ReportNow)
  BY <1>1, ReportNowTyped DEF StampInv
<1>3. reports' = [reports EXCEPT ![job.kind] = ReportNow]
  BY DEF Pass
<1>4. reports' \in [Kinds -> Report] /\ ReportsStamped'
  BY <1>1, <1>2, <1>3, OneReport DEF StampInv, TypeOK
<1>5. intact' \in [Kinds -> BOOLEAN]
  BY DEF Pass, StampInv, TypeOK
<1>6. job' = NoJob /\ JobStamped'
  BY DEF Pass, JobStamped
<1> QED BY <1>4, <1>5, <1>6

\* A tool that fails, or is refused.
LEMMA FailKeeps ==
  ASSUME StampInv, NEW k \in Kinds,
         Failed(k)
  PROVE  reports' \in [Kinds -> Report] /\ ReportsStamped'
<1>1. PICK r \in AfterFailure(k) : reports' = [reports EXCEPT ![k] = r]
  BY DEF Failed
<1>2. r \in Report /\ StampNamesTree(k, r)
  BY AfterFailureTyped DEF StampInv, TypeOK
<1> QED BY <1>1, <1>2, OneReport DEF StampInv, TypeOK

LEMMA StampInit == Init => StampInv
<1> SUFFICES ASSUME Init PROVE StampInv
  OBVIOUS
<1>1. FirstTree \in Trees BY ProfilesAssumption
<1>2. Blank("absent") \in Report /\ Blank("absent").dirty
  BY BlankTyped DEF Statuses
<1>3. regression \in Regression
  BY <1>1 DEF Init, Regression
<1>4. TypeOK
  BY <1>1, <1>2, <1>3 DEF Init, TypeOK
<1>5. ReportsStamped
  BY <1>2 DEF Init, ReportsStamped, StampNamesTree
<1>6. JobStamped
  BY DEF Init, JobStamped
<1> QED BY <1>4, <1>5, <1>6 DEF StampInv

\* Every step keeps the invariant: edits and the regression runner touch no
\* stamp, and the tools are the cases of the lemmas above.
LEMMA StampStep == StampInv /\ [Next]_vars => StampInv'
<1> SUFFICES ASSUME StampInv, [Next]_vars PROVE StampInv'
  OBVIOUS
<1> USE DEF StampInv
<1>t. TypeOK /\ ReportsStamped /\ JobStamped
  OBVIOUS
<1>w. \A k \in watched : k \in Kinds
  BY WatchedKinds DEF TypeOK
<1>1. CASE Edit
  <2>1. tree' \in Trees /\ head' \in Trees
    BY <1>1 DEF Edit, TypeOK
  <2>2. TypeOK'
    BY <1>1, <2>1 DEF Edit, diskVars, TypeOK
  <2> QED BY <1>1, <2>2 DEF Edit, diskVars, ReportsStamped, JobStamped
<1>2. CASE Commit \/ Revert
  <2>1. TypeOK'
    BY <1>2 DEF Commit, Revert, diskVars, TypeOK
  <2> QED BY <1>2, <2>1 DEF Commit, Revert, diskVars, ReportsStamped, JobStamped
<1>3. ASSUME NEW k \in watched, NEW asked \in {"part", "all"},
             RunByHand(k, asked)
      PROVE  StampInv'
  <2>1. Start(k, asked, TRUE) /\ k \in Kinds
    BY <1>3, <1>w DEF RunByHand
  <2>2. /\ reports' \in [Kinds -> Report] /\ ReportsStamped'
        /\ intact' \in [Kinds -> BOOLEAN]
        /\ job' \in Job /\ JobStamped'
    BY <2>1, StartKeeps
  <2>3. calm' \in BOOLEAN
    BY <1>3 DEF RunByHand, TypeOK
  <2>4. TypeOK'
    BY <1>3, <2>2, <2>3 DEF RunByHand, TypeOK, devVars
  <2> QED BY <2>2, <2>4
<1>4. CASE CleanByHand \/ CleanPhase
  <2>1. intact' = RemovedBinaries /\ UNCHANGED <<tree, head, reports, watched,
                                                job, runner, archive>>
    BY <1>4 DEF CleanByHand, CleanPhase, devVars
  <2>2. intact' \in [Kinds -> BOOLEAN]
    BY <2>1 DEF RemovedBinaries, TypeOK
  <2>3. calm' \in BOOLEAN
    BY <1>4 DEF CleanByHand, CleanPhase, TypeOK
  <2>4. regression' \in Regression
    BY <1>4, PhasePassedTyped DEF CleanByHand, CleanPhase, TypeOK
  <2>5. TypeOK'
    BY <2>1, <2>2, <2>3, <2>4 DEF TypeOK
  <2> QED BY <2>1, <2>5 DEF ReportsStamped, JobStamped
<1>5. CASE PassByHand \/ PhasePasses
  <2>1. Pass
    BY <1>5 DEF PassByHand, PhasePasses
  <2>2. /\ reports' \in [Kinds -> Report] /\ ReportsStamped'
        /\ intact' \in [Kinds -> BOOLEAN]
        /\ job' = NoJob /\ JobStamped'
    BY <2>1, PassKeeps
  <2>3. regression' \in Regression
    <3>1. CASE PassByHand
      BY <3>1 DEF PassByHand, TypeOK
    <3>2. CASE PhasePasses
      BY <3>2, JobTyped, PhasePassedTyped DEF PhasePasses, TypeOK
    <3> QED BY <1>5, <3>1, <3>2
  <2>4. UNCHANGED <<tree, head, watched, runner, archive, calm>>
    BY <1>5 DEF PassByHand, PhasePasses, devVars
  <2>5. TypeOK'
    BY <2>2, <2>3, <2>4 DEF TypeOK
  <2> QED BY <2>2, <2>5
<1>6. CASE FailByHand \/ PhaseFails
  <2>1. job # NoJob /\ Failed(job.kind)
        /\ job' = NoJob
    BY <1>6 DEF FailByHand, PhaseFails
  <2>2. job.kind \in Kinds
    BY <2>1, JobTyped DEF TypeOK
  <2>3. reports' \in [Kinds -> Report] /\ ReportsStamped'
    BY <2>1, <2>2, FailKeeps
  <2>4. regression' \in Regression /\ runner' \in {"idle", "alive"}
    BY <1>6 DEF FailByHand, PhaseFails, RunnerStops, TypeOK, Regression
  <2>5. UNCHANGED <<tree, head, intact, watched, archive, calm>>
    BY <1>6 DEF FailByHand, PhaseFails, devVars
  <2>6. TypeOK'
    BY <2>1, <2>3, <2>4, <2>5 DEF TypeOK
  <2>7. JobStamped'
    BY <2>1 DEF JobStamped
  <2> QED BY <2>3, <2>6, <2>7
<1>7. ASSUME NEW mode \in {"quick", "full"},
             NEW scope \in {"release", "simulation-only"},
             StartRegression(mode, scope)
      PROVE  StampInv'
  <2>1. regression.id + 1 \in Nat
    BY DEF TypeOK, Regression
  <2>2. regression' \in Regression
    BY <1>7, <2>1 DEF StartRegression, TypeOK, Regression, Clean
  <2>3. calm' \in BOOLEAN /\ runner' \in {"idle", "alive"}
    BY <1>7 DEF StartRegression, Clean
  <2>4. UNCHANGED <<tree, head, reports, intact, watched, job, archive>>
    BY <1>7 DEF StartRegression, devVars, diskVars
  <2>5. TypeOK'
    BY <2>2, <2>3, <2>4 DEF TypeOK
  <2> QED BY <2>4, <2>5 DEF ReportsStamped, JobStamped
<1>8. CASE ChecksPass \/ ChecksFail \/ RegressionPasses \/ Interrupt \/ Kill
  <2>1. regression' \in Regression
    <3>1. CASE ChecksPass
      BY <3>1, PhasePassedTyped DEF ChecksPass, TypeOK
    <3>2. CASE ~ChecksPass
      BY <1>8, <3>2 DEF ChecksFail, RegressionPasses, Interrupt, Kill,
                        RunnerStops, TypeOK, Regression
    <3> QED BY <3>1, <3>2
  <2>2. runner' \in {"idle", "alive"} /\ job' \in {job, NoJob}
    BY <1>8 DEF ChecksPass, ChecksFail, RegressionPasses, Interrupt, Kill,
               PhasePassed, RunnerStops, TypeOK
  <2>3. UNCHANGED <<tree, head, reports, intact, watched, archive, calm>>
    BY <1>8 DEF ChecksPass, ChecksFail, RegressionPasses, Interrupt, Kill,
               devVars, diskVars
  <2>4. TypeOK'
    BY <2>1, <2>2, <2>3 DEF TypeOK
  <2> QED BY <2>2, <2>3, <2>4 DEF ReportsStamped, JobStamped
<1>9. ASSUME NEW k \in watched, ToolPhase(k)
      PROVE  StampInv'
  <2>1. AskedBy(regression.mode, k) \in {"part", "all"}
    BY DEF AskedBy
  <2>2. Start(k, AskedBy(regression.mode, k), FALSE) /\ k \in Kinds
    BY <1>9, <1>w DEF ToolPhase
  <2>3. /\ reports' \in [Kinds -> Report] /\ ReportsStamped'
        /\ intact' \in [Kinds -> BOOLEAN]
        /\ job' \in Job /\ JobStamped'
    BY <2>1, <2>2, StartKeeps
  <2>4. UNCHANGED <<tree, head, regression, watched, runner, archive, calm>>
    BY <1>9 DEF ToolPhase, devVars
  <2>5. TypeOK'
    BY <2>3, <2>4 DEF TypeOK
  <2> QED BY <2>3, <2>5
<1>10. ASSUME NEW k \in watched, PhaseRefused(k)
       PROVE  StampInv'
  <2>1. Failed(k) /\ k \in Kinds
    BY <1>10, <1>w DEF PhaseRefused
  <2>2. reports' \in [Kinds -> Report] /\ ReportsStamped'
    BY <2>1, FailKeeps
  <2>3. regression' \in Regression /\ runner' \in {"idle", "alive"}
    BY <1>10 DEF PhaseRefused, RunnerStops, TypeOK, Regression
  <2>4. UNCHANGED <<tree, head, intact, watched, job, archive, calm>>
    BY <1>10 DEF PhaseRefused, devVars
  <2>5. TypeOK'
    BY <2>2, <2>3, <2>4 DEF TypeOK
  <2> QED BY <2>2, <2>4, <2>5 DEF JobStamped
<1>11. CASE Package
  <2>1. archive' = [archive EXCEPT ![head] = Contents]
    BY <1>11 DEF Package
  <2>2. archive' = [c \in Trees |-> archive'[c]]
    BY <2>1 DEF TypeOK
  <2>3. UNCHANGED <<tree, head, reports, intact, regression, watched, job,
                    runner, calm>>
    BY <1>11 DEF Package, devVars, diskVars
  <2>4. TypeOK'
    BY <2>2, <2>3 DEF TypeOK
  <2> QED BY <2>3, <2>4 DEF ReportsStamped, JobStamped
<1>12. CASE UNCHANGED vars
  BY <1>12 DEF vars, TypeOK, ReportsStamped, JobStamped
<1> QED BY <1>1, <1>2, <1>3, <1>4, <1>5, <1>6, <1>7, <1>8, <1>9, <1>10,
           <1>11, <1>12 DEF Next

-----------------------------------------------------------------------------
\* What the gate accepts attests the current commit.
LEMMA GateAttests ==
  ASSUME StampInv, Accepted
  PROVE  /\ regression.digest = head
         /\ \A k \in Candidates \cap watched \cap Bound :
              Attests(k, reports[k], head)
<1>1. tree = head /\ regression.digest = tree
  BY DEF Accepted, Clean
<1>2. reports["coverage"].ended = head /\ regression.commit = head
  BY <1>1 DEF Accepted, ValidEvidence, CleanAt
<1>3. SUFFICES ASSUME NEW k \in Candidates \cap watched \cap Bound
               PROVE  Attests(k, reports[k], head)
  BY <1>1
<1>4. k \in Kinds /\ k \in watched /\ (k \in PhaseNames \/ k = "coverage")
  BY DEF Candidates, Bound
<1>5. CleanAt(reports[k], head)
  <2>1. CASE k = "coverage"
    BY <2>1 DEF Accepted, ValidEvidence
  <2>2. CASE k # "coverage"
    BY <1>2, <1>4, <2>2, KindNames
    DEF Bound, Accepted, ValidatedFiles, FormalFiles, TrmFiles, AcTimingFiles,
        TraceabilityFiles, SoakFiles, RandomEventFiles, ConstrainedRandomFiles,
        PublicSuiteFiles, Table7Files, FunctionalFiles, QualityFiles,
        PostfitFiles, FrameworkFiles, ValidFormal, ValidTrm, ValidAcTiming,
        ValidSoak, ValidRandomEvents, ValidConstrainedRandom, ValidPublicSuite,
        ValidTable7, ValidFunctional, ValidFramework, Complete, Followed
  <2> QED BY <2>1, <2>2
<1>6. IF Tool[k].git = "start" THEN reports[k].begun = head
                              ELSE reports[k].ended = head
  BY <1>4, <1>5 DEF StampInv, ReportsStamped, StampNamesTree, CleanAt
<1>7. ASSUME Tool[k].inputs = "sources"
      PROVE  HashedTree(k) = head
  <2>1. CASE k = "coverage"
    BY <1>2, <2>1 DEF HashedTree, Tool, CoverageReport
  <2>2. CASE k \in {"lint", "cdc", "postfit", "framework"}
    <3>1. InputsMatch(k)
      BY <1>4, <2>2 DEF Accepted, ValidatedFiles, QualityFiles, PostfitFiles,
                        FrameworkFiles
    <3> QED BY <1>1, <1>7, <3>1 DEF InputsMatch
  <2>3. CASE k \in {"table7", "functional", "public", "random", "events",
                    "soak", "trm", "ac", "traceability", "formal"}
    BY <1>7, <2>3 DEF Tool, Table7Cross, FunctionalCoverage, PublicSuite,
                      ConstrainedRandom, RandomEvents, SoakHarness,
                      TrmCoverage, AcTiming, Traceability, FormalReport
  <2> QED BY <1>4, <2>1, <2>2, <2>3, KindNames DEF Bound
<1> QED BY <1>6, <1>7 DEF Attests, HashedTree

LEMMA ArchiveInit == Init => ArchivedAttested
BY DEF Init, ArchivedAttested

LEMMA ArchiveStep ==
  StampInv /\ ArchivedAttested /\ [Next]_vars => ArchivedAttested'
<1> SUFFICES ASSUME StampInv, ArchivedAttested, [Next]_vars
             PROVE  ArchivedAttested'
  OBVIOUS
<1>1. CASE Package
  <2>1. archive' = [archive EXCEPT ![head] = Contents] /\ Accepted
    BY <1>1 DEF Package
  <2>2. Contents.digest = head
    BY <2>1, GateAttests DEF Contents
  <2>3. \A k \in DOMAIN Contents.evidence \cap Bound :
          Attests(k, Contents.evidence[k], head)
    BY <2>1, GateAttests DEF Contents
  <2>4. \A c \in Trees : archive'[c] = IF c = head THEN Contents ELSE archive[c]
    BY <2>1 DEF StampInv, TypeOK
  <2>5. ASSUME NEW c \in Trees, archive'[c] # NoBundle
        PROVE  /\ archive'[c].digest = c
               /\ \A k \in DOMAIN archive'[c].evidence \cap Bound :
                    Attests(k, archive'[c].evidence[k], c)
    <3>1. CASE c = head
      BY <2>2, <2>3, <2>4, <3>1
    <3>2. CASE c # head
      <4>1. archive'[c] = archive[c]
        BY <2>4, <3>2
      <4> QED BY <2>5, <4>1 DEF ArchivedAttested
    <3> QED BY <3>1, <3>2
  <2> QED BY <2>5 DEF ArchivedAttested, Attests
<1>2. CASE archive' = archive
  BY <1>2 DEF ArchivedAttested, Attests
<1>3. Package \/ archive' = archive
  BY DEF Next, vars, Edit, Commit, Revert, RunByHand, CleanByHand, PassByHand,
         FailByHand, StartRegression, CleanPhase, ChecksPass, ChecksFail,
         ToolPhase, PhaseRefused, PhasePasses, PhaseFails, RegressionPasses,
         Interrupt, Kill
<1> QED BY <1>1, <1>2, <1>3

-----------------------------------------------------------------------------
(* The runner: what it has behind it and what is left.                       *)

\* While a phase runs, the runner lives, the phase is one of those left and
\* "make clean" is behind it; a regression that passed has all its phases.
RunnerInv ==
  /\ runner = "alive" => regression.status = "running"
  /\ regression.results \subseteq RegressionPhases
  /\ regression.results # {} => "clean" \in regression.results
  /\ regression.status = "passed" => regression.results = RegressionPhases
  /\ job # NoJob /\ job.byHand => runner = "idle"
  /\ job # NoJob /\ ~job.byHand =>
       runner = "alive" /\ job.kind \in PhasesLeft /\ "clean" \in regression.results

LEMMA PhaseOrderFacts ==
  /\ DOMAIN PhaseOrder = 1 .. 19
  /\ PhaseOrder[1] = "clean"
  /\ AllPhases = (Kinds \ {"coverage"}) \cup {"clean", "checks"}
<1>1. DOMAIN PhaseOrder = 1 .. 19
  BY DEF PhaseOrder
<1>2. /\ PhaseOrder[1] = "clean" /\ PhaseOrder[2] = "lint"
      /\ PhaseOrder[3] = "cdc" /\ PhaseOrder[4] = "options"
      /\ PhaseOrder[5] = "postfit" /\ PhaseOrder[6] = "framework"
      /\ PhaseOrder[7] = "checks" /\ PhaseOrder[8] = "qemu"
      /\ PhaseOrder[9] = "compiler" /\ PhaseOrder[10] = "formal"
      /\ PhaseOrder[11] = "table7" /\ PhaseOrder[12] = "functional"
      /\ PhaseOrder[13] = "public" /\ PhaseOrder[14] = "random"
      /\ PhaseOrder[15] = "events" /\ PhaseOrder[16] = "soak"
      /\ PhaseOrder[17] = "trm" /\ PhaseOrder[18] = "ac"
      /\ PhaseOrder[19] = "traceability"
  BY DEF PhaseOrder
<1>3. \A i \in 1 .. 19 :
        PhaseOrder[i] \in (Kinds \ {"coverage"}) \cup {"clean", "checks"}
  <2>1. ASSUME NEW i \in 1 .. 19
        PROVE  i \in {1, 2, 3, 4, 5, 6, 7, 8, 9, 10, 11, 12, 13, 14, 15, 16, 17,
                      18, 19}
    OBVIOUS
  <2> QED BY <1>2, <2>1, KindNames
<1>4. \A p \in (Kinds \ {"coverage"}) \cup {"clean", "checks"} :
        \E i \in 1 .. 19 : PhaseOrder[i] = p
  BY <1>2, KindNames
<1> QED BY <1>1, <1>2, <1>3, <1>4 DEF AllPhases

LEMMA CleanIsAPhase == "clean" \in RegressionPhases
BY PhaseOrderFacts DEF RegressionPhases, Phases, Selected, QuickPhases, FpgaPhases

\* Nothing comes before "make clean", and everything else after it.
LEMMA CleanComesFirst ==
  ASSUME RunnerInv, NEW p, AtPhase(p)
  PROVE  IF p = "clean" THEN regression.results = {}
         ELSE "clean" \in regression.results
<1>1. CASE p = "clean"
  BY <1>1 DEF AtPhase, PhasesLeft, RunnerInv
<1>2. CASE p # "clean"
  <2>1. PICK i \in 1 .. 19 : p = PhaseOrder[i]
                             /\ \A j \in 1 .. i - 1 : PhaseOrder[j] \notin PhasesLeft
    BY PhaseOrderFacts DEF AtPhase
  <2>2. i # 1
    BY <1>2, <2>1, PhaseOrderFacts
  <2>3. "clean" \notin PhasesLeft
    BY <2>1, <2>2, PhaseOrderFacts
  <2> QED BY <1>2, <2>3, CleanIsAPhase DEF PhasesLeft
<1> QED BY <1>1, <1>2

LEMMA RunnerInit == Init => RunnerInv
BY DEF Init, RunnerInv

\* A phase that is left and passes.
LEMMA OneMoreResult ==
  ASSUME regression \in Regression, RunnerInv, NEW p \in PhasesLeft,
         p = "clean" \/ "clean" \in regression.results,
         regression.status = "running", PhasePassed(p),
         watched' = watched, runner' = runner, job' = NoJob
  PROVE  RunnerInv'
<1>1. /\ regression'.results = regression.results \cup {p}
      /\ regression'.mode = regression.mode /\ regression'.scope = regression.scope
      /\ regression'.status = regression.status
  BY DEF PhasePassed, Regression
<1>2. RegressionPhases' = RegressionPhases
  BY <1>1 DEF RegressionPhases, Phases
<1> QED BY <1>1, <1>2 DEF RunnerInv, PhasesLeft

\* The runner ends, whatever the reason, and leaves the results.
LEMMA RunnerGone ==
  ASSUME regression \in Regression, RunnerInv, NEW s, RunnerStops(s),
         s # "passed" \/ PhasesLeft = {},
         watched' = watched, job' = NoJob
  PROVE  RunnerInv'
<1>1. /\ regression'.results = regression.results
      /\ regression'.mode = regression.mode /\ regression'.scope = regression.scope
      /\ regression'.status = s /\ runner' = "idle"
  BY DEF RunnerStops, Regression
<1>2. RegressionPhases' = RegressionPhases
  BY <1>1 DEF RegressionPhases, Phases
<1> QED BY <1>1, <1>2 DEF RunnerInv, PhasesLeft

LEMMA RunnerStep == StampInv /\ RunnerInv /\ [Next]_vars => RunnerInv'
<1> SUFFICES ASSUME StampInv, RunnerInv, [Next]_vars PROVE RunnerInv'
  OBVIOUS
<1>0. TypeOK /\ regression \in Regression
  BY DEF StampInv, TypeOK
<1>1. ASSUME UNCHANGED <<regression, runner, job, watched>>
      PROVE  RunnerInv'
  BY <1>1 DEF RunnerInv, PhasesLeft, RegressionPhases, Phases
<1>2. ASSUME NEW k \in watched, NEW asked \in {"part", "all"},
             RunByHand(k, asked)
      PROVE  RunnerInv'
  <2>1. job'.byHand = TRUE /\ runner = "idle"
        /\ UNCHANGED <<regression, runner, watched>>
    BY <1>2 DEF RunByHand, Start
  <2> QED BY <2>1 DEF RunnerInv, RegressionPhases, Phases
<1>3. CASE PassByHand \/ FailByHand \/ Kill
  <2>1. job' = NoJob /\ UNCHANGED <<regression, watched>>
        /\ (runner' = runner \/ runner' = "idle")
    BY <1>3 DEF PassByHand, FailByHand, Kill, Pass
  <2> QED BY <2>1 DEF RunnerInv, RegressionPhases, Phases
<1>4. ASSUME NEW mode \in {"quick", "full"},
             NEW scope \in {"release", "simulation-only"},
             StartRegression(mode, scope)
      PROVE  RunnerInv'
  <2>1. regression'.status = "running" /\ regression'.results = {} /\ job' = NoJob
    BY <1>4 DEF StartRegression
  <2> QED BY <2>1 DEF RunnerInv
<1>5. CASE CleanPhase
  <2>1. AtPhase("clean") /\ PhasePassed("clean")
        /\ UNCHANGED <<watched, runner, job>>
    BY <1>5 DEF CleanPhase
  <2> QED BY <1>0, <2>1, OneMoreResult DEF AtPhase, RunnerInv
<1>6. CASE ChecksPass
  <2>1. AtPhase("checks") /\ PhasePassed("checks")
        /\ UNCHANGED <<watched, runner, job>>
    BY <1>6 DEF ChecksPass
  <2>2. "clean" \in regression.results
    BY <2>1, CleanComesFirst
  <2> QED BY <1>0, <2>1, <2>2, OneMoreResult DEF AtPhase, RunnerInv
<1>7. CASE PhasePasses
  <2>1. /\ job # NoJob /\ ~job.byHand /\ PhasePassed(job.kind) /\ job' = NoJob
        /\ UNCHANGED <<watched, runner>>
    BY <1>7 DEF PhasePasses, Pass
  <2>2. /\ job.kind \in PhasesLeft /\ "clean" \in regression.results
        /\ regression.status = "running"
    BY <2>1 DEF RunnerInv
  <2> QED BY <1>0, <2>1, <2>2, OneMoreResult
<1>8. ASSUME NEW k \in watched, ToolPhase(k)
      PROVE  RunnerInv'
  <2>1. /\ AtPhase(k) /\ job'.kind = k /\ job'.byHand = FALSE
        /\ UNCHANGED <<regression, runner, watched>>
    BY <1>8 DEF ToolPhase, Start
  <2>2. k # "clean"
    BY <1>0, WatchedKinds, KindNames DEF TypeOK
  <2>3. "clean" \in regression.results
    BY <2>1, <2>2, CleanComesFirst
  <2>4. RegressionPhases' = RegressionPhases /\ PhasesLeft' = PhasesLeft
    BY <2>1 DEF RegressionPhases, Phases, PhasesLeft
  <2> QED BY <2>1, <2>3, <2>4 DEF RunnerInv, AtPhase
<1>9. ASSUME NEW k \in watched, PhaseRefused(k)
      PROVE  RunnerInv'
  <2>1. RunnerStops("failed") /\ watched' = watched /\ job' = NoJob
    BY <1>9 DEF PhaseRefused, AtPhase
  <2> QED BY <1>0, <2>1, RunnerGone
<1>10. CASE ChecksFail \/ PhaseFails \/ RegressionPasses \/ Interrupt
  <2>1. PICK s \in {"failed", "passed", "interrupted"} :
          RunnerStops(s) /\ (s = "passed" => PhasesLeft = {})
    BY <1>10 DEF ChecksFail, PhaseFails, RegressionPasses, Interrupt
  <2>2. watched' = watched /\ job' = NoJob
    BY <1>10 DEF ChecksFail, PhaseFails, RegressionPasses, Interrupt, AtPhase
  <2> QED BY <1>0, <2>1, <2>2, RunnerGone
<1>11. CASE Edit \/ Commit \/ Revert \/ CleanByHand \/ Package \/ UNCHANGED vars
  BY <1>1, <1>11 DEF Edit, Commit, Revert, CleanByHand, Package, vars
<1> QED BY <1>2, <1>3, <1>4, <1>5, <1>6, <1>7, <1>8, <1>9, <1>10, <1>11 DEF Next

-----------------------------------------------------------------------------
(* A full archive is complete.                                               *)

\* There is no smaller coverage run: a coverage report on disk is a whole one,
\* and the files it lists are those of its run, because "make coverage" removes
\* report and files together.
CoverageInv ==
  /\ job # NoJob /\ job.kind = "coverage" => job.asked = "all"
  /\ reports["coverage"].status # "absent" =>
       reports["coverage"].closed = "all" /\ intact["coverage"]

LEMMA CoverageTool ==
  /\ "coverage" \in Kinds /\ "coverage" \notin Scalable
  /\ ~Tool["coverage"].announces /\ Tool["coverage"].onFailure = "loses"
  /\ Tool["coverage"].wipes
BY KindNames DEF Tool, CoverageReport, Scalable

LEMMA CoverageInit == Init => CoverageInv
BY CoverageTool DEF Init, CoverageInv, Blank

LEMMA StartCoverage ==
  ASSUME StampInv, CoverageInv, NEW k \in Kinds, NEW asked, NEW byHand,
         Start(k, asked, byHand), k = "coverage" => asked = "all"
  PROVE  CoverageInv'
<1>1. job'.kind = k /\ job'.asked = asked
  BY DEF Start
<1>2. CASE k = "coverage"
  <2>1. reports' = [reports EXCEPT !["coverage"] = Blank("absent")]
    BY <1>2, CoverageTool DEF Start
  <2>2. reports'["coverage"].status = "absent"
    BY <2>1, CoverageTool DEF Blank, StampInv, TypeOK
  <2> QED BY <1>1, <1>2, <2>2 DEF CoverageInv
<1>3. CASE k # "coverage"
  <2>1. reports'["coverage"] = reports["coverage"]
        /\ intact'["coverage"] = intact["coverage"]
    BY <1>3, CoverageTool DEF Start, StampInv, TypeOK
  <2> QED BY <1>1, <1>3, <2>1 DEF CoverageInv
<1> QED BY <1>2, <1>3

LEMMA PassCoverage ==
  ASSUME StampInv, CoverageInv, Pass
  PROVE  CoverageInv'
<1>1. /\ job.kind \in Kinds /\ job' = NoJob
      /\ reports' = [reports EXCEPT ![job.kind] = ReportNow]
      /\ intact' = [intact EXCEPT ![job.kind] = TRUE]
  BY JobTyped DEF Pass, StampInv, TypeOK
<1>2. CASE job.kind = "coverage"
  <2>1. reports'["coverage"] = ReportNow /\ intact'["coverage"] = TRUE
    BY <1>1, <1>2 DEF StampInv, TypeOK
  <2>2. ReportNow.closed = job.asked
    BY DEF ReportNow
  <2> QED BY <1>1, <1>2, <2>1, <2>2 DEF CoverageInv, Pass
<1>3. CASE job.kind # "coverage"
  <2>1. reports'["coverage"] = reports["coverage"]
        /\ intact'["coverage"] = intact["coverage"]
    BY <1>1, <1>3, CoverageTool DEF StampInv, TypeOK
  <2> QED BY <1>1, <2>1 DEF CoverageInv
<1> QED BY <1>2, <1>3

LEMMA FailCoverage ==
  ASSUME StampInv, CoverageInv, NEW k \in Kinds, Failed(k), intact' = intact,
         job' = NoJob
  PROVE  CoverageInv'
<1>1. PICK r \in AfterFailure(k) : reports' = [reports EXCEPT ![k] = r]
  BY DEF Failed
<1>2. CASE k = "coverage"
  <2>1. AfterFailure(k) = {Blank("absent")}
    BY <1>2, CoverageTool DEF AfterFailure
  <2>2. reports'["coverage"].status = "absent"
    BY <1>1, <1>2, <2>1, CoverageTool DEF Blank, StampInv, TypeOK
  <2> QED BY <2>2 DEF CoverageInv
<1>3. CASE k # "coverage"
  <2>1. reports'["coverage"] = reports["coverage"]
    BY <1>1, <1>3, CoverageTool DEF StampInv, TypeOK
  <2> QED BY <2>1 DEF CoverageInv
<1> QED BY <1>2, <1>3

LEMMA CoverageStep == StampInv /\ CoverageInv /\ [Next]_vars => CoverageInv'
<1> SUFFICES ASSUME StampInv, CoverageInv, [Next]_vars PROVE CoverageInv'
  OBVIOUS
<1>1. TypeOK /\ \A k \in watched : k \in Kinds
  BY WatchedKinds DEF StampInv, TypeOK
<1>2. ASSUME NEW k \in watched, NEW asked \in {"part", "all"},
             RunByHand(k, asked)
      PROVE  CoverageInv'
  <2>1. Start(k, asked, TRUE) /\ (asked = "all" \/ k \in Scalable)
    BY <1>2 DEF RunByHand
  <2> QED BY <1>1, <2>1, CoverageTool, StartCoverage
<1>3. ASSUME NEW k \in watched, ToolPhase(k)
      PROVE  CoverageInv'
  <2>1. Start(k, AskedBy(regression.mode, k), FALSE)
    BY <1>3 DEF ToolPhase
  <2>2. k = "coverage" => AskedBy(regression.mode, k) = "all"
    BY DEF AskedBy
  <2> QED BY <1>1, <2>1, <2>2, StartCoverage
<1>4. CASE PassByHand \/ PhasePasses
  BY <1>4, PassCoverage DEF PassByHand, PhasePasses
<1>5. CASE FailByHand \/ PhaseFails
  <2>1. job # NoJob /\ Failed(job.kind) /\ intact' = intact /\ job' = NoJob
    BY <1>5 DEF FailByHand, PhaseFails
  <2>2. job.kind \in Kinds
    BY <1>1, <2>1, JobTyped DEF TypeOK
  <2> QED BY <2>1, <2>2, FailCoverage
<1>6. ASSUME NEW k \in watched, PhaseRefused(k)
      PROVE  CoverageInv'
  <2>1. Failed(k) /\ intact' = intact /\ job' = NoJob
    BY <1>6 DEF PhaseRefused, AtPhase
  <2> QED BY <1>1, <2>1, FailCoverage
<1>7. CASE CleanByHand \/ CleanPhase
  <2>1. /\ intact' = RemovedBinaries /\ UNCHANGED <<reports, job>>
    BY <1>7 DEF CleanByHand, CleanPhase
  <2>2. intact'["coverage"] = intact["coverage"]
    BY <1>1, <2>1, CoverageTool DEF RemovedBinaries, TypeOK
  <2> QED BY <2>1, <2>2 DEF CoverageInv
<1>8. ASSUME NEW mode \in {"quick", "full"},
             NEW scope \in {"release", "simulation-only"},
             StartRegression(mode, scope)
      PROVE  CoverageInv'
  BY <1>8 DEF StartRegression, diskVars, CoverageInv
<1>9. CASE \/ Edit \/ Commit \/ Revert \/ ChecksPass \/ ChecksFail
           \/ RegressionPasses \/ Interrupt \/ Kill \/ Package \/ UNCHANGED vars
  <2>1. UNCHANGED <<reports, intact>> /\ (job' = job \/ job' = NoJob)
    BY <1>9 DEF Edit, Commit, Revert, ChecksPass, ChecksFail, RegressionPasses,
                Interrupt, Kill, Package, diskVars, vars
  <2> QED BY <2>1 DEF CoverageInv
<1> QED BY <1>2, <1>3, <1>4, <1>5, <1>6, <1>7, <1>8, <1>9 DEF Next

\* What the gate accepts of a full regression is complete.
LEMMA GateCompletes ==
  ASSUME StampInv, RunnerInv, CoverageInv, Accepted, regression.mode = "full"
  PROVE  /\ regression.scope = "simulation-only" => "framework" \notin watched
         /\ MandatoryInFull \cap watched \subseteq DOMAIN Contents.evidence
         /\ \A k \in DOMAIN Contents.evidence \cap Bound :
              Contents.evidence[k].closed = "all"
<1>1. MandatoryInFull \cap watched \subseteq PhaseNames
  BY DEF Accepted, ValidatedFiles, FullHasMandatory
<1>2. DOMAIN Contents.evidence = Candidates \cap watched
  BY DEF Contents
<1>3. MandatoryInFull \subseteq Kinds
  BY KindNames DEF MandatoryInFull
<1>4. MandatoryInFull \cap watched \subseteq DOMAIN Contents.evidence
  BY <1>1, <1>2, <1>3 DEF Candidates
<1>5. ASSUME regression.scope = "simulation-only"
      PROVE  "framework" \notin watched
  <2>1. "framework" \notin RegressionPhases
    BY <1>5 DEF RegressionPhases, Phases, Selected, FpgaPhases
  <2>2. "framework" \notin PhaseNames
    BY <2>1 DEF RunnerInv, PhaseNames
  <2> QED BY <1>1, <2>2 DEF MandatoryInFull
<1>6. ASSUME NEW k \in Candidates \cap watched \cap Bound
      PROVE  reports[k].closed = "all"
  <2>1. CASE k = "coverage"
    BY <2>1 DEF Accepted, ValidEvidence, CoverageInv
  <2>2. CASE k # "coverage"
    <3>1. k \in PhaseNames /\ k \in watched /\ k \in Kinds
          /\ k \notin {"options", "qemu", "compiler"}
      BY <2>2 DEF Candidates, Bound
    <3> QED BY <2>2, <3>1, KindNames
      DEF Accepted, ValidatedFiles, FormalFiles, TrmFiles, AcTimingFiles,
          TraceabilityFiles, SoakFiles, RandomEventFiles, ConstrainedRandomFiles,
          PublicSuiteFiles, Table7Files, FunctionalFiles, QualityFiles,
          PostfitFiles, FrameworkFiles, ValidFormal, ValidTrm, ValidAcTiming,
          ValidSoak, ValidRandomEvents, ValidConstrainedRandom, ValidPublicSuite,
          ValidTable7, ValidFunctional, ValidFramework, Complete, Followed
  <2> QED BY <2>1, <2>2
<1>7. \A k \in Candidates \cap watched : Contents.evidence[k] = reports[k]
  BY DEF Contents
<1> QED BY <1>2, <1>4, <1>5, <1>6, <1>7

LEMMA FullInit == Init => FullIsComplete
BY DEF Init, FullIsComplete

LEMMA FullStep ==
  StampInv /\ RunnerInv /\ CoverageInv /\ FullIsComplete /\ [Next]_vars
    => FullIsComplete'
<1> SUFFICES ASSUME StampInv, RunnerInv, CoverageInv, FullIsComplete, [Next]_vars
             PROVE  FullIsComplete'
  OBVIOUS
<1>1. watched' = watched
  BY DEF Next, vars, Edit, Commit, Revert, RunByHand, CleanByHand, PassByHand,
         FailByHand, StartRegression, CleanPhase, ChecksPass, ChecksFail,
         ToolPhase, PhaseRefused, PhasePasses, PhaseFails, RegressionPasses,
         Interrupt, Kill, Package
<1>2. CASE Package
  <2>1. archive' = [archive EXCEPT ![head] = Contents] /\ Accepted
    BY <1>2 DEF Package
  <2>2. \A c \in Trees : archive'[c] = IF c = head THEN Contents ELSE archive[c]
    BY <2>1 DEF StampInv, TypeOK
  <2>3. Contents.mode = regression.mode /\ Contents.scope = regression.scope
    BY DEF Contents
  <2>4. ASSUME NEW c \in Trees, archive'[c] # NoBundle, archive'[c].mode = "full"
        PROVE  /\ archive'[c].scope = "simulation-only" => "framework" \notin watched
               /\ MandatoryInFull \cap watched \subseteq DOMAIN archive'[c].evidence
               /\ \A k \in DOMAIN archive'[c].evidence \cap Bound :
                    archive'[c].evidence[k].closed = "all"
    <3>1. CASE c = head
      <4>1. archive'[c] = Contents /\ regression.mode = "full"
        BY <2>2, <2>3, <2>4, <3>1
      <4> QED BY <2>1, <2>3, <4>1, GateCompletes
    <3>2. CASE c # head
      <4>1. archive'[c] = archive[c]
        BY <2>2, <3>2
      <4> QED BY <2>4, <4>1 DEF FullIsComplete
    <3> QED BY <3>1, <3>2
  <2> QED BY <1>1, <2>4 DEF FullIsComplete
<1>3. CASE archive' = archive
  BY <1>1, <1>3 DEF FullIsComplete
<1>4. Package \/ archive' = archive
  BY DEF Next, vars, Edit, Commit, Revert, RunByHand, CleanByHand, PassByHand,
         FailByHand, StartRegression, CleanPhase, ChecksPass, ChecksFail,
         ToolPhase, PhaseRefused, PhasePasses, PhaseFails, RegressionPasses,
         Interrupt, Kill
<1> QED BY <1>2, <1>3, <1>4

-----------------------------------------------------------------------------
(* An undisturbed release is accepted.                                       *)

\* The report of phase k as an undisturbed regression leaves it.
TakenNow(k) ==
  /\ reports[k].status = "passed"
  /\ reports[k].closed = AskedBy(regression.mode, k)
  /\ CleanAt(reports[k], head)
  /\ reports[k].begun = head /\ reports[k].ended = head
  /\ Tool[k].needs = "regression" => reports[k].cites = regression.id
  /\ intact[k]

\* While nothing disturbs the regression: the tree is the commit's, so is the
\* regression's stamp and that of whatever runs, and every phase that passed
\* has left such a report.
CalmInv ==
  calm =>
    /\ Clean
    /\ CleanAt(regression, head) /\ regression.digest = head
    /\ job # NoJob =>
         /\ job.commit = head /\ job.begun = head /\ job.dirty = FALSE
         /\ job.byHand => job.kind = "coverage"
         /\ ~job.byHand => job.asked = AskedBy(regression.mode, job.kind)
    /\ \A k \in regression.results \cap Kinds : TakenNow(k)

LEMMA CalmInit == Init => CalmInv
BY DEF Init, CalmInv

\* The coverage report is not one of the reports of the phases.
LEMMA CoverageIsNoPhase == RunnerInv => "coverage" \notin regression.results
BY PhaseOrderFacts, KindNames DEF RunnerInv, RegressionPhases, Phases

\* A tool starts that is not one of the phases that passed.
LEMMA StartCalm ==
  ASSUME StampInv, CalmInv, NEW k \in Kinds, NEW asked, NEW byHand \in BOOLEAN,
         Start(k, asked, byHand), k \notin regression.results,
         UNCHANGED <<devVars, regression>>, calm' => calm,
         calm' /\ byHand => k = "coverage",
         ~byHand => asked = AskedBy(regression.mode, k)
  PROVE  CalmInv'
<1> SUFFICES ASSUME calm' PROVE CalmInv'
  BY DEF CalmInv
<1>1. /\ Clean /\ CleanAt(regression, head) /\ regression.digest = head
      /\ \A p \in regression.results \cap Kinds : TakenNow(p)
  BY DEF CalmInv
<1>2. tree' = tree /\ head' = head /\ regression' = regression
  BY DEF devVars
<1>3. job' = [kind |-> k, asked |-> asked, commit |-> head, dirty |-> ~Clean,
              begun |-> tree, byHand |-> byHand]
  BY DEF Start
<1>4. /\ job'.commit = head' /\ job'.begun = head' /\ job'.dirty = FALSE
      /\ job'.byHand => job'.kind = "coverage"
      /\ ~job'.byHand => job'.asked = AskedBy(regression'.mode, job'.kind)
  BY <1>1, <1>2, <1>3 DEF Clean
<1>5. \A p \in Kinds \ {k} : reports'[p] = reports[p] /\ intact'[p] = intact[p]
  BY DEF Start, StampInv, TypeOK
<1>6. \A p \in regression.results \cap Kinds : TakenNow(p)'
  BY <1>1, <1>2, <1>5 DEF TakenNow, CleanAt
<1> QED BY <1>1, <1>2, <1>4, <1>6 DEF CalmInv, Clean, CleanAt

\* What the job that runs undisturbed reports.
LEMMA CalmReport ==
  ASSUME CalmInv, calm, job # NoJob
  PROVE  /\ ReportNow.status = "passed" /\ ReportNow.closed = job.asked
         /\ CleanAt(ReportNow, head)
         /\ ReportNow.begun = head /\ ReportNow.ended = head
         /\ Tool[job.kind].needs = "regression" => ReportNow.cites = regression.id
<1>1. /\ job.commit = head /\ job.begun = head /\ job.dirty = FALSE
      /\ tree = head
  BY DEF CalmInv, Clean
<1> QED BY <1>1 DEF ReportNow, CleanAt, Clean

\* A phase passes: its report joins the others.
LEMMA PhasePassesCalm ==
  ASSUME StampInv, RunnerInv, CalmInv, PhasePasses
  PROVE  CalmInv'
<1> SUFFICES ASSUME calm PROVE CalmInv'
  BY DEF CalmInv, PhasePasses
<1>1. /\ job # NoJob /\ ~job.byHand /\ job' = NoJob
      /\ reports' = [reports EXCEPT ![job.kind] = ReportNow]
      /\ intact' = [intact EXCEPT ![job.kind] = TRUE]
      /\ PhasePassed(job.kind) /\ tree' = tree /\ head' = head
  BY DEF PhasePasses, Pass, devVars
<1>2. job.kind \in Kinds /\ job.asked = AskedBy(regression.mode, job.kind)
  BY <1>1, JobTyped DEF StampInv, TypeOK, CalmInv
<1>3. /\ regression'.results = regression.results \cup {job.kind}
      /\ regression'.mode = regression.mode /\ regression'.id = regression.id
      /\ regression'.commit = regression.commit
      /\ regression'.dirty = regression.dirty
      /\ regression'.digest = regression.digest
  BY <1>1 DEF PhasePassed, StampInv, TypeOK, Regression
<1>4. reports'[job.kind] = ReportNow /\ intact'[job.kind] = TRUE
  BY <1>1, <1>2 DEF StampInv, TypeOK
<1>5. \A k \in Kinds : k = job.kind => TakenNow(k)'
  BY <1>1, <1>2, <1>3, <1>4, CalmReport DEF TakenNow, CleanAt
<1>6. ASSUME NEW k \in regression.results \cap Kinds
      PROVE  TakenNow(k)'
  <2>1. CASE k = job.kind
    BY <1>5, <2>1
  <2>2. CASE k # job.kind
    <3>1. reports'[k] = reports[k] /\ intact'[k] = intact[k]
      BY <1>1, <2>2 DEF StampInv, TypeOK
    <3>2. TakenNow(k)
      BY DEF CalmInv
    <3> QED BY <1>1, <1>3, <3>1, <3>2 DEF TakenNow, CleanAt
  <2> QED BY <2>1, <2>2
<1>7. \A k \in regression'.results \cap Kinds : TakenNow(k)'
  BY <1>3, <1>5, <1>6
<1>8. Clean /\ CleanAt(regression, head) /\ regression.digest = head
  BY DEF CalmInv
<1> QED BY <1>1, <1>3, <1>7, <1>8 DEF CalmInv, Clean, CleanAt

LEMMA CalmStep == StampInv /\ RunnerInv /\ CalmInv /\ [Next]_vars => CalmInv'
<1> SUFFICES ASSUME StampInv, RunnerInv, CalmInv, [Next]_vars PROVE CalmInv'
  OBVIOUS
<1>1. TypeOK /\ \A k \in watched : k \in Kinds
  BY WatchedKinds DEF StampInv, TypeOK
\* Nothing of this is touched, but a job may be gone or the regression ended.
<1>2. ASSUME UNCHANGED <<tree, head, reports, intact, calm>>,
             job' = job \/ job' = NoJob,
             regression' = regression
               \/ \E s : regression' = [regression EXCEPT !.status = s]
      PROVE  CalmInv'
  <2>1. /\ regression'.results = regression.results
        /\ regression'.mode = regression.mode /\ regression'.id = regression.id
        /\ regression'.commit = regression.commit
        /\ regression'.dirty = regression.dirty
        /\ regression'.digest = regression.digest
    BY <1>1, <1>2 DEF TypeOK, Regression
  <2> QED BY <1>2, <2>1 DEF CalmInv, TakenNow, Clean, CleanAt
\* The report of a phase that has not passed is replaced.
<1>3. ASSUME NEW k \in Kinds, k \notin regression.results, Failed(k),
             UNCHANGED <<tree, head, intact, calm>>, job' = NoJob,
             regression' = regression
               \/ \E s : regression' = [regression EXCEPT !.status = s]
      PROVE  CalmInv'
  <2>1. /\ regression'.results = regression.results
        /\ regression'.mode = regression.mode /\ regression'.id = regression.id
        /\ regression'.commit = regression.commit
        /\ regression'.dirty = regression.dirty
        /\ regression'.digest = regression.digest
    BY <1>1, <1>3 DEF TypeOK, Regression
  <2>2. \A p \in Kinds \ {k} : reports'[p] = reports[p]
    BY <1>1, <1>3 DEF Failed, TypeOK
  <2> QED BY <1>3, <2>1, <2>2 DEF CalmInv, TakenNow, Clean, CleanAt
<1>4. ASSUME NEW k \in watched, NEW asked \in {"part", "all"},
             RunByHand(k, asked)
      PROVE  CalmInv'
  <2>1. /\ Start(k, asked, TRUE) /\ calm' = (calm /\ k = "coverage")
        /\ UNCHANGED <<devVars, regression>>
    BY <1>4 DEF RunByHand
  <2>2. CASE k = "coverage"
    BY <1>1, <2>1, <2>2, StartCalm, CoverageIsNoPhase
  <2>3. CASE k # "coverage"
    BY <2>1, <2>3 DEF CalmInv
  <2> QED BY <2>2, <2>3
<1>5. ASSUME NEW k \in watched, ToolPhase(k)
      PROVE  CalmInv'
  <2>1. /\ Start(k, AskedBy(regression.mode, k), FALSE) /\ k \in PhasesLeft
        /\ UNCHANGED <<devVars, regression, calm>>
    BY <1>5 DEF ToolPhase, AtPhase
  <2>2. k \notin regression.results
    BY <2>1 DEF PhasesLeft
  <2> QED BY <1>1, <2>1, <2>2, StartCalm
<1>6. CASE PassByHand
  <2>1. /\ job # NoJob /\ job.byHand /\ job' = NoJob
        /\ reports' = [reports EXCEPT ![job.kind] = ReportNow]
        /\ intact' = [intact EXCEPT ![job.kind] = TRUE]
        /\ UNCHANGED <<tree, head, regression, calm>>
    BY <1>6 DEF PassByHand, Pass, devVars
  <2>2. calm => job.kind = "coverage"
    BY <2>1 DEF CalmInv
  <2>3. \A p \in Kinds \ {"coverage"} :
          calm => reports'[p] = reports[p] /\ intact'[p] = intact[p]
    BY <1>1, <2>1, <2>2 DEF TypeOK
  <2> QED BY <2>1, <2>3, CoverageIsNoPhase DEF CalmInv, TakenNow, Clean, CleanAt
<1>7. CASE FailByHand
  <2>1. /\ job # NoJob /\ job.byHand /\ job' = NoJob /\ Failed(job.kind)
        /\ UNCHANGED <<tree, head, regression, calm, intact>>
    BY <1>7 DEF FailByHand, devVars
  <2>2. job.kind \in Kinds
    BY <1>1, <2>1, JobTyped DEF TypeOK
  <2>3. CASE calm
    <3>1. job.kind = "coverage"
      BY <2>1, <2>3 DEF CalmInv
    <3> QED BY <1>3, <2>1, <2>2, <3>1, CoverageIsNoPhase
  <2>4. CASE ~calm
    BY <2>1, <2>4 DEF CalmInv
  <2> QED BY <2>3, <2>4
<1>8. CASE PhasePasses
  BY <1>8, PhasePassesCalm
<1>9. CASE PhaseFails
  <2>1. /\ job # NoJob /\ ~job.byHand /\ job' = NoJob /\ Failed(job.kind)
        /\ UNCHANGED <<tree, head, calm, intact>>
        /\ regression' = [regression EXCEPT !.status = "failed"]
    BY <1>9 DEF PhaseFails, RunnerStops, devVars
  <2>2. job.kind \in Kinds /\ job.kind \notin regression.results
    BY <1>1, <2>1, JobTyped DEF TypeOK, RunnerInv, PhasesLeft
  <2> QED BY <1>3, <2>1, <2>2
<1>10. ASSUME NEW k \in watched, PhaseRefused(k)
       PROVE  CalmInv'
  <2>1. /\ job' = NoJob /\ Failed(k) /\ k \in PhasesLeft
        /\ UNCHANGED <<tree, head, calm, intact>>
        /\ regression' = [regression EXCEPT !.status = "failed"]
    BY <1>10 DEF PhaseRefused, AtPhase, RunnerStops, devVars
  <2> QED BY <1>1, <1>3, <2>1 DEF PhasesLeft
<1>11. CASE CleanPhase \/ ChecksPass
  <2>1. PICK p \in {"clean", "checks"} :
          /\ AtPhase(p) /\ PhasePassed(p)
          /\ p = "clean" => CleanPhase
          /\ p = "checks" => intact' = intact
          /\ UNCHANGED <<tree, head, reports, job, calm>>
    BY <1>11 DEF CleanPhase, ChecksPass, devVars, diskVars
  <2>2. /\ regression'.results = regression.results \cup {p}
        /\ regression'.mode = regression.mode /\ regression'.id = regression.id
        /\ regression'.commit = regression.commit
        /\ regression'.dirty = regression.dirty
        /\ regression'.digest = regression.digest
    BY <1>1, <2>1 DEF PhasePassed, TypeOK, Regression
  <2>3. p \notin Kinds
    BY KindNames
  <2>4. \A k \in regression'.results \cap Kinds :
          k \in regression.results /\ intact'[k] = intact[k]
    BY <2>1, <2>2, <2>3, CleanComesFirst
  <2> QED BY <2>1, <2>2, <2>4 DEF CalmInv, TakenNow, Clean, CleanAt
<1>12. ASSUME NEW mode \in {"quick", "full"},
              NEW scope \in {"release", "simulation-only"},
              StartRegression(mode, scope)
       PROVE  CalmInv'
  <2>1. /\ job' = NoJob /\ calm' = Clean
        /\ UNCHANGED <<tree, head>>
        /\ regression'.results = {} /\ regression'.commit = head
        /\ regression'.dirty = ~Clean /\ regression'.digest = tree
    BY <1>12 DEF StartRegression, devVars
  <2> QED BY <2>1 DEF CalmInv, Clean, CleanAt
<1>13. CASE Edit \/ Commit \/ Revert \/ CleanByHand
  BY <1>13 DEF Edit, Commit, Revert, CleanByHand, CalmInv
<1>14. CASE \/ ChecksFail \/ RegressionPasses \/ Interrupt \/ Kill \/ Package
            \/ UNCHANGED vars
  <2>1. /\ UNCHANGED <<tree, head, reports, intact, calm>>
        /\ job' = job \/ job' = NoJob
        /\ regression' = regression
             \/ \E s : regression' = [regression EXCEPT !.status = s]
    BY <1>14 DEF ChecksFail, RegressionPasses, Interrupt, Kill, Package,
                 RunnerStops, devVars, diskVars, vars
  <2> QED BY <1>2, <2>1
<1> QED BY <1>4, <1>5, <1>6, <1>7, <1>8, <1>9, <1>10, <1>11, <1>12, <1>13,
           <1>14 DEF Next

LEMMA HonestStep ==
  StampInv /\ RunnerInv /\ CoverageInv /\ CalmInv => HonestAccepted
<1> SUFFICES ASSUME StampInv, RunnerInv, CoverageInv, CalmInv,
                    calm, job = NoJob, runner = "idle",
                    regression.status = "passed",
                    regression.mode = "full", regression.scope = "release",
                    OnDisk("coverage"), CleanAt(reports["coverage"], head)
             PROVE  Accepted
  BY DEF HonestAccepted
<1>1. /\ tree = head /\ CleanAt(regression, head) /\ regression.digest = head
      /\ regression.commit = head
  BY DEF CalmInv, Clean, CleanAt
<1>2. /\ reports["coverage"].ended = head /\ reports["coverage"].status # "absent"
      /\ intact["coverage"]
  BY CoverageTool DEF StampInv, ReportsStamped, StampNamesTree, CleanAt, OnDisk,
                      Tool, CoverageReport, CoverageInv
<1>3. \A p : p \in PhaseNames <=>
               /\ p \in (Kinds \ {"coverage"}) \cup {"clean", "checks"}
               /\ p \in watched \cup {"clean", "checks"}
  BY PhaseOrderFacts DEF RunnerInv, PhaseNames, RegressionPhases, Phases, Selected
\* The report of every phase passes every test there is.
<1>4. ASSUME NEW k \in PhaseNames \cap Kinds
      PROVE  /\ Complete(reports[k], head) /\ OnDisk(k)
             /\ InputsMatch(k) /\ ArtifactsMatch(k)
             /\ Tool[k].needs = "regression" => CitesThis(k)
  <2>1. TakenNow(k)
    BY DEF CalmInv, PhaseNames
  <2>2. AskedBy(regression.mode, k) = "all"
    BY DEF AskedBy
  <2>3. Tool[k].inputs \in {"sources", "own", "nothing"}
    BY DEF Kinds, Tool, IndependentLint, CdcRdcCheck, OptionCharacterization,
           PostfitSim, MisterFramework, QemuReference, CompilerProgram,
           FormalReport, Table7Cross, FunctionalCoverage, PublicSuite,
           ConstrainedRandom, RandomEvents, SoakHarness, TrmCoverage, AcTiming,
           Traceability, CoverageReport
  <2>4. HashedTree(k) = tree
    BY <1>1, <2>1 DEF TakenNow, HashedTree
  <2>5. InputsMatch(k)
    BY <2>3, <2>4 DEF InputsMatch
  <2> QED BY <2>1, <2>2, <2>5 DEF TakenNow, Complete, CleanAt, OnDisk,
                                  ArtifactsMatch, CitesThis
<1>5. Tool["table7"].needs = "regression" /\ Tool["functional"].needs = "regression"
  BY DEF Tool, Table7Cross, FunctionalCoverage
<1>6. ResultsPassed /\ CoverageFiles
  BY <1>2, <1>3, CoverageTool DEF ResultsPassed, CoverageFiles, OnDisk, ArtifactsMatch
<1>7. FullHasMandatory
  BY <1>3, KindNames DEF FullHasMandatory, MandatoryInFull
<1>8. FormalFiles /\ SoakFiles /\ RandomEventFiles /\ PublicSuiteFiles
  BY <1>1, <1>4, KindNames
  DEF FormalFiles, SoakFiles, RandomEventFiles, PublicSuiteFiles, ValidFormal,
      ValidSoak, ValidRandomEvents, ValidPublicSuite
<1>9. TrmFiles /\ AcTimingFiles /\ TraceabilityFiles
  <2>1. \A k \in {"trm", "ac", "traceability"} :
          Followed(k) => k \in PhaseNames \cap Kinds
    BY <1>3, KindNames DEF Followed
  <2> QED BY <1>1, <1>4, <2>1
    DEF TrmFiles, AcTimingFiles, TraceabilityFiles, ValidTrm, ValidAcTiming,
        Complete, OnDisk
<1>10. UnboundFiles
  BY <1>4, KindNames DEF UnboundFiles
<1>11. ConstrainedRandomFiles
  BY <1>1, <1>4, KindNames
  DEF ConstrainedRandomFiles, ValidConstrainedRandom, Complete
<1>12. Table7Files /\ FunctionalFiles
  BY <1>1, <1>4, <1>5, KindNames
  DEF Table7Files, FunctionalFiles, ValidTable7, ValidFunctional
<1>13. QualityFiles
  <2>1. {"lint", "cdc"} \subseteq watched =>
          ("lint" \in PhaseNames <=> "cdc" \in PhaseNames)
    BY <1>3, KindNames
  <2>2. \A k \in {"lint", "cdc"} \cap PhaseNames : k \in PhaseNames \cap Kinds
    BY KindNames
  <2> QED BY <1>1, <1>4, <2>1, <2>2 DEF QualityFiles
<1>14. PostfitFiles /\ FrameworkFiles
  BY <1>1, <1>4, KindNames DEF PostfitFiles, FrameworkFiles, ValidFramework
<1>15. ValidatedFiles
  BY <1>6, <1>7, <1>8, <1>9, <1>10, <1>11, <1>12, <1>13, <1>14 DEF ValidatedFiles
<1>16. ValidEvidence(reports["coverage"], head)
  BY <1>1, <1>2 DEF ValidEvidence
<1> QED BY <1>1, <1>2, <1>15, <1>16 DEF Accepted, Clean
-----------------------------------------------------------------------------
\* The variables stay in their sets, for any trees, tools and bounds.
THEOREM EvidenceTypes == Spec => []TypeOK
<1>1. StampInv => TypeOK
  BY DEF StampInv
<1> QED BY <1>1, StampInit, StampStep, PTL DEF Spec

\* release_evidence.py archives only evidence that attests the commit the
\* archive is named after, whoever edits, commits, reverts, interrupts or
\* reruns tools meanwhile, and however often.
THEOREM ArchivesAttest == Spec => []ArchivedAttested
BY StampInit, StampStep, ArchiveInit, ArchiveStep, PTL DEF Spec

\* An archive of a full regression holds every mandatory report, each complete,
\* and a simulation-only one has no framework to hold, whatever smaller
\* campaigns, quick regressions, failures or kills came in between.
THEOREM FullArchivesComplete == Spec => []FullIsComplete
BY StampInit, StampStep, RunnerInit, RunnerStep, CoverageInit, CoverageStep,
   FullInit, FullStep, PTL DEF Spec

\* The gate accepts what a full release regression and a coverage run leave of a
\* clean tree that nobody touched since.
THEOREM HonestReleaseAccepted == Spec => []HonestAccepted
BY StampInit, StampStep, RunnerInit, RunnerStep, CoverageInit, CoverageStep,
   CalmInit, CalmStep, HonestStep, PTL DEF Spec
==============================================================================
