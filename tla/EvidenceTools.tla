---------------------------- MODULE EvidenceTools ----------------------------
(***************************************************************************)
(* The command-line tools under scripts/ and verification/ that leave a     *)
(* report under reports/generated, each described by how it treats that     *)
(* report: the part of the tool a later reader of the report depends on.    *)
(*                                                                          *)
(*   announces  writes a report with status "running" before it measures    *)
(*   wipes      deletes its artifact directory before it measures           *)
(*   disturbs   leaves files on disk that its report lists by hash          *)
(*   onFailure  "fails": a failed report is written, unless an exception    *)
(*              passes by; "keeps": only an exception, which leaves the     *)
(*              old report; "loses": the report is deleted                  *)
(*   needs      what it refuses to run without                              *)
(*   git        when it asks git for the commit and the dirty flag          *)
(*   hashes     when it hashes its inputs                                   *)
(*   inputs     what it hashes: all the RTL ("sources"), its own test       *)
(*              bench, manifest and script ("own"), or nothing              *)
(*                                                                          *)
(* What a tool measures is abstracted to whether all that the release asks  *)
(* of it was closed ("all"), or only a part ("part").                       *)
(***************************************************************************)
EXTENDS Naturals, Sequences

\* independent_lint.run: one Slang build per public top; the first that does
\* not pass ends the run with a failed report.
IndependentLint ==
  [announces |-> TRUE, wipes |-> FALSE, disturbs |-> TRUE,
   onFailure |-> "fails", needs |-> "nothing",
   git |-> "start", hashes |-> "start", inputs |-> "sources"]

\* cdc_rdc_check.build_report: reads every source, analyses them, and only
\* then asks git; a report with violations is written as failed.
CdcRdcCheck ==
  [announces |-> FALSE, wipes |-> FALSE, disturbs |-> FALSE,
   onFailure |-> "fails", needs |-> "nothing",
   git |-> "end", hashes |-> "start", inputs |-> "sources"]

\* quartus_option_characterization.main: no commit and no dirty flag at all.
OptionCharacterization ==
  [announces |-> FALSE, wipes |-> FALSE, disturbs |-> FALSE,
   onFailure |-> "keeps", needs |-> "nothing",
   git |-> "end", hashes |-> "end", inputs |-> "nothing"]

\* postfit_sim.main: "running" is only a value in memory; the file is written
\* when both profiles passed or an exception is on its way out.
PostfitSim ==
  [announces |-> FALSE, wipes |-> FALSE, disturbs |-> TRUE,
   onFailure |-> "fails", needs |-> "nothing",
   git |-> "start", hashes |-> "start", inputs |-> "sources"]

\* mister_framework_build.build: refuses a dirty tree, empties the artifact
\* directory, and writes a report only when the build and its timing passed.
MisterFramework ==
  [announces |-> FALSE, wipes |-> TRUE, disturbs |-> TRUE,
   onFailure |-> "keeps", needs |-> "clean",
   git |-> "start", hashes |-> "end", inputs |-> "sources"]

\* qemu_armv4t_reference and build_compiler_program: a directory with a
\* metadata.json; it says nothing of the commit or of the working tree.
QemuReference ==
  [announces |-> FALSE, wipes |-> FALSE, disturbs |-> FALSE,
   onFailure |-> "keeps", needs |-> "nothing",
   git |-> "end", hashes |-> "end", inputs |-> "nothing"]

CompilerProgram == QemuReference

\* formal_report.main: runs every SBY task first; git and all hashes last.
FormalReport ==
  [announces |-> FALSE, wipes |-> FALSE, disturbs |-> TRUE,
   onFailure |-> "fails", needs |-> "nothing",
   git |-> "end", hashes |-> "end", inputs |-> "own"]

\* table7_cross.main: reads the live full regression, and turns every
\* refusal into a failed report.
Table7Cross ==
  [announces |-> FALSE, wipes |-> FALSE, disturbs |-> FALSE,
   onFailure |-> "fails", needs |-> "regression",
   git |-> "start", hashes |-> "end", inputs |-> "own"]

\* functional_coverage.main: the same conditions, but a refusal is an
\* exception that leaves the old report in place; uncovered bins are written.
FunctionalCoverage ==
  [announces |-> FALSE, wipes |-> FALSE, disturbs |-> FALSE,
   onFailure |-> "fails", needs |-> "regression",
   git |-> "start", hashes |-> "end", inputs |-> "own"]

\* public_suite.main.
PublicSuite ==
  [announces |-> TRUE, wipes |-> TRUE, disturbs |-> TRUE,
   onFailure |-> "fails", needs |-> "nothing",
   git |-> "start", hashes |-> "start", inputs |-> "own"]

\* constrained_random.main.
ConstrainedRandom ==
  [announces |-> TRUE, wipes |-> TRUE, disturbs |-> TRUE,
   onFailure |-> "fails", needs |-> "nothing",
   git |-> "start", hashes |-> "start", inputs |-> "own"]

\* random_events.main: git before the first seed, everything else after the
\* last one; the seed logs are overwritten one by one.
RandomEvents ==
  [announces |-> FALSE, wipes |-> FALSE, disturbs |-> TRUE,
   onFailure |-> "fails", needs |-> "nothing",
   git |-> "start", hashes |-> "end", inputs |-> "own"]

\* soak_harness.main.
SoakHarness ==
  [announces |-> TRUE, wipes |-> FALSE, disturbs |-> TRUE,
   onFailure |-> "fails", needs |-> "nothing",
   git |-> "start", hashes |-> "start", inputs |-> "own"]

\* trm_coverage.build_report and main: the manifest is validated before git
\* is asked; nothing is written unless all of it passed.
TrmCoverage ==
  [announces |-> FALSE, wipes |-> FALSE, disturbs |-> FALSE,
   onFailure |-> "keeps", needs |-> "nothing",
   git |-> "end", hashes |-> "end", inputs |-> "own"]

\* ac_timing.build_report and main.
AcTiming ==
  [announces |-> FALSE, wipes |-> FALSE, disturbs |-> FALSE,
   onFailure |-> "keeps", needs |-> "nothing",
   git |-> "end", hashes |-> "end", inputs |-> "nothing"]

\* traceability_report.build_report and main.
Traceability ==
  [announces |-> FALSE, wipes |-> FALSE, disturbs |-> FALSE,
   onFailure |-> "keeps", needs |-> "nothing",
   git |-> "end", hashes |-> "end", inputs |-> "own"]

\* coverage_report.main behind `make coverage`, which first removes the
\* directory the report lives in.
CoverageReport ==
  [announces |-> FALSE, wipes |-> TRUE, disturbs |-> TRUE,
   onFailure |-> "loses", needs |-> "nothing",
   git |-> "end", hashes |-> "end", inputs |-> "sources"]

-----------------------------------------------------------------------------
Tool ==
  [lint |-> IndependentLint,     cdc |-> CdcRdcCheck,
   options |-> OptionCharacterization,
   postfit |-> PostfitSim,       framework |-> MisterFramework,
   qemu |-> QemuReference,       compiler |-> CompilerProgram,
   formal |-> FormalReport,      table7 |-> Table7Cross,
   functional |-> FunctionalCoverage,
   public |-> PublicSuite,       random |-> ConstrainedRandom,
   events |-> RandomEvents,      soak |-> SoakHarness,
   trm |-> TrmCoverage,          ac |-> AcTiming,
   traceability |-> Traceability, coverage |-> CoverageReport]

Kinds == DOMAIN Tool

\* The tools whose campaign can be made smaller from the command line.
Scalable == {"random", "events", "soak"}

\* The reports release_evidence.py ties to the commit; the others it archives
\* because the phase that wrote them is in the regression.
Bound == Kinds \ {"options", "qemu", "compiler"}
-----------------------------------------------------------------------------
\* Mutant of PhaseOrder: the binaries are cleaned away at the end.
CleanLast ==
  <<"lint", "cdc", "options", "postfit", "framework", "checks",
    "qemu", "compiler", "formal", "table7", "functional", "public",
    "random", "events", "soak", "trm", "ac", "traceability", "clean">>

(* regression_harness._phases.  "clean" is make clean; "checks" stands for  *)
(* the phases that leave nothing but a log (lints, unit and integration     *)
(* tests, self-tests, smoke).                                               *)
PhaseOrder ==
  <<"clean", "lint", "cdc", "options", "postfit", "framework", "checks",
    "qemu", "compiler", "formal", "table7", "functional", "public",
    "random", "events", "soak", "trm", "ac", "traceability">>

AllPhases == {PhaseOrder[i] : i \in DOMAIN PhaseOrder}

QuickPhases ==
  {"clean", "lint", "cdc", "checks", "qemu", "compiler", "public", "random",
   "trm", "ac", "traceability"}

FpgaPhases == {"options", "postfit", "framework"}

Selected(mode, scope) ==
  IF mode = "quick" THEN QuickPhases
  ELSE IF scope = "release" THEN Kinds \cup {"clean", "checks"}
  ELSE (Kinds \cup {"clean", "checks"}) \ FpgaPhases

\* The size of campaign a phase of the regression asks a tool for.
AskedBy(mode, k) ==
  IF mode = "quick" /\ k = "random" THEN "part" ELSE "all"
==============================================================================
