---------------------------- MODULE SeedCampaign -----------------------------
(***************************************************************************)
(* The three multi-seed campaigns: the sanitizer soak (soak_harness.py), the *)
(* random events (random_events.py) and the constrained-random differential  *)
(* (constrained_random.py), and what release_evidence.py accepts of their    *)
(* reports.                                                                  *)
(*                                                                          *)
(* A campaign lists its seeds, runs the simulator on one after the other,    *)
(* stops at the first failure and reports.  The simulator is deterministic   *)
(* in the seed, except that a slow run may or may not meet its timeout; how  *)
(* a seed behaves is fixed when it is first run.  Seeds have Bits bits       *)
(* instead of 16 and 31: both generators have full period for any width.     *)
(***************************************************************************)
EXTENDS Naturals, Sequences, FiniteSets

CONSTANTS
  Bits,          \* width of a seed
  Signatures,    \* failure signatures other than a timeout
  Asks, Bases,   \* seed counts and base seeds asked for on the command line
  Release,       \* seeds a release asks of a campaign: 256, 32 and 32
  MaxCampaigns   \* campaigns in a behaviour

ASSUME BitsAssumption ==
  Bits \in Nat \ {0} /\ 2 ^ Bits \in Nat /\ Release \in Nat \ {0}
ASSUME AsksAssumption == Asks \subseteq Nat \ {0} /\ Bases \subseteq Nat
ASSUME SignaturesAssumption ==
  Signatures \cap {"unknown", "none", "pass", "slow", "thin", "timeout"} = {}

VARIABLES
  harness,   \* which of the three programs this behaviour runs
  says,      \* says[s]: how the simulator behaves on seed s
  phase,     \* where main is
  run,       \* main's local state: what was asked, and the results so far
  search,    \* minimize's local state: the bit it is at and the seed so far
  report,    \* the report file
  logs,      \* logs[s]: the simulation log of seed s on disk
  verdict,   \* how the last campaign returned
  campaigns  \* campaigns started

campaignVars == <<harness, says, phase, run, search, report, logs, verdict, campaigns>>

Modulus == 2 ^ Bits
Seeds == 0 .. 2 * Modulus

\* "thin" prints its PASS marker but leaves a required bin uncovered.
Behaviours == {"pass", "slow", "thin"} \cup Signatures

\* What one execution can print.
Outputs(b) == IF b = "slow" THEN {"pass", "timeout"} ELSE {b}

\* A soak has no bins; a random-event marker must have them all; the
\* constrained-random campaign looks at the union over its seeds, at the end.
Passed(out) ==
  \/ out = "pass"
  \/ out = "thin" /\ harness = "random"
-----------------------------------------------------------------------------
(* The seeds of a campaign.                                                  *)

First(base) == IF base % Modulus = 0 THEN 1 ELSE base % Modulus

\* The first states of the generator s -> s * a + c from First(base) on.
Lcg(a, c, base, last) ==
  LET state[i \in 0 .. last] == IF i = 0 THEN First(base)
                                ELSE (state[i - 1] * a + c) % Modulus
  IN  state

\* The k-th of a set of numbers.
Kth(numbers, k) ==
  CHOOSE n \in numbers : Cardinality({m \in numbers : m <= n}) = k

\* soak_harness._seeds: the nonzero states, repeated after a period.
SoakSeeds(base, count) ==
  LET state == Lcg(25173, 13849, base, 2 * count)
      nonzero == {i \in 0 .. 2 * count : state[i] # 0}
  IN  [k \in 1 .. count |-> state[Kth(nonzero, k)]]

\* random_events._seed_sequence: the nonzero states, each once.  With more
\* than Modulus - 1 of them asked for, the code does not return.
EventSeeds(base, count) ==
  LET state == Lcg(1664525, 1013904223, base, Modulus - 1)
      fresh == {i \in 0 .. Modulus - 1 :
                  state[i] # 0 /\ \A j \in 0 .. i - 1 : state[j] # state[i]}
  IN  [k \in 1 .. count |-> state[Kth(fresh, k)]]

\* A list of seeds the simulator takes for seeds, no two alike while there are
\* enough of them.
Draws(list, count) ==
  /\ list \in [1 .. count -> Seeds \ {0}]
  /\ count < Modulus => \A i, j \in 1 .. count : i # j => list[i] # list[j]

\* Seeds is as large as the campaigns of constrained_random.py need.
ASSUME SeedsAssumption ==
  \A base \in Bases, count \in Asks : \A i \in 1 .. count : base + i - 1 \in Seeds

SeedList(base, count) ==
  CASE harness = "soak"   -> SoakSeeds(base, count)
    [] harness = "events" -> EventSeeds(base, count)
    [] harness = "random" -> [i \in 1 .. count |-> base + i - 1]
-----------------------------------------------------------------------------
NoFailure == [signature |-> "none"]
NoReport == [status |-> "absent"]
NoRun == [asked |-> 0]
NoSearch == [bit |-> 0, seed |-> 0]

CampaignInit ==
  /\ harness \in {"soak", "events", "random"}
  /\ says = [s \in Seeds |-> "unknown"]
  /\ phase = "idle" /\ run = NoRun /\ search = NoSearch
  /\ report = NoReport
  /\ logs = [s \in Seeds |-> "none"]
  /\ verdict = "none" /\ campaigns = 0

\* The report of the run as it stands.
Written(status, r) ==
  [status |-> status, asked |-> r.asked, grade |-> r.grade,
   instructions |-> r.instructions, entries |-> r.entries,
   failure |-> NoFailure]

\* main up to the first seed.  The soak and the constrained-random campaign
\* announce themselves in the report; the latter removes its old artifacts.
Announce(asked, base, instructions) ==
  /\ phase = "idle" /\ campaigns < MaxCampaigns
  /\ instructions = 64 => harness = "random"
  /\ harness = "events" => asked < Modulus
  /\ run' = [asked |-> asked, seeds |-> SeedList(base, asked),
             instructions |-> instructions,
             grade |-> asked >= Release /\ instructions >= 256,
             entries |-> <<>>]
  /\ report' = IF harness = "events" THEN report ELSE Written("running", run')
  /\ logs' = IF harness = "random" THEN [s \in Seeds |-> "none"] ELSE logs
  /\ phase' = "running" /\ verdict' = "none"
  /\ campaigns' = campaigns + 1
  /\ UNCHANGED <<harness, says, search>>

\* One execution of the simulator; a seed run before behaves as before.
Execute(s, out) ==
  \E b \in Behaviours :
    /\ says[s] \in {"unknown", b} /\ out \in Outputs(b)
    /\ b = "thin" => harness # "soak"
    /\ says' = [says EXCEPT ![s] = b]

MoreSeeds == phase = "running" /\ Len(run.entries) < run.asked

Current == run.seeds[Len(run.entries) + 1]

Recorded(out) ==
  [run EXCEPT !.entries = Append(@, [seed |-> Current, output |-> out])]

\* One seed passed: the result is appended, and two of the three rewrite
\* their report.
SeedPasses(out) ==
  /\ MoreSeeds /\ Passed(out) /\ Execute(Current, out)
  /\ run' = Recorded(out)
  /\ report' = IF harness = "events" THEN report ELSE Written("running", run')
  /\ logs' = IF harness = "soak" THEN logs ELSE [logs EXCEPT ![Current] = out]
  /\ UNCHANGED <<harness, phase, search, verdict, campaigns>>

\* The soak keeps the failing result in memory and turns to minimize.
SoakSeedFails(out) ==
  /\ harness = "soak" /\ MoreSeeds /\ ~Passed(out) /\ Execute(Current, out)
  /\ run' = Recorded(out)
  /\ search' = [bit |-> Bits, seed |-> Current]
  /\ phase' = "minimizing"
  /\ UNCHANGED <<harness, report, logs, verdict, campaigns>>

\* The random events leave the loop for their report, the log written.
EventSeedFails(out) ==
  /\ harness = "events" /\ MoreSeeds /\ ~Passed(out) /\ Execute(Current, out)
  /\ run' = Recorded(out)
  /\ logs' = [logs EXCEPT ![Current] = out]
  /\ phase' = "reporting"
  /\ UNCHANGED <<harness, search, report, verdict, campaigns>>

Return(status) ==
  phase' = "idle" /\ run' = NoRun /\ search' = NoSearch /\ verdict' = status

\* CommandFailure or ValueError: a failed report without the failing seed.
RandomSeedFails(out) ==
  /\ harness = "random" /\ MoreSeeds /\ ~Passed(out) /\ Execute(Current, out)
  /\ report' = Written("failed", run)
  /\ Return("failed")
  /\ UNCHANGED <<harness, logs, campaigns>>
-----------------------------------------------------------------------------
(* soak_harness.minimize: the bits from the highest down, each cleared if    *)
(* the seed without it fails with the same signature.                        *)

ClearBit(s, b) == IF (s \div (2 ^ b)) % 2 = 1 THEN s - 2 ^ b ELSE s

FailingOutput == run.entries[Len(run.entries)].output

\* Mutant of StillFails: any failure counts.
FailsSomehow(out, signature) == ~Passed(out)

StillFails(out, signature) == ~Passed(out) /\ out = signature

\* Mutant of TryBit: a bit that could be cleared is tried again.
SameBit ==
  /\ phase = "minimizing" /\ search.bit > 0
  /\ \E out \in Signatures \cup {"pass", "timeout"} :
       /\ Execute(search.seed, out)
       /\ search' = [search EXCEPT !.bit = IF StillFails(out, FailingOutput)
                                           THEN @ ELSE @ - 1]
  /\ UNCHANGED <<harness, phase, run, report, logs, verdict, campaigns>>

TryBit ==
  /\ phase = "minimizing" /\ search.bit > 0
  /\ LET candidate == ClearBit(search.seed, search.bit - 1)
     IN  IF candidate = 0
         THEN search' = [search EXCEPT !.bit = @ - 1] /\ UNCHANGED says
         ELSE \E out \in Signatures \cup {"pass", "timeout"} :
                /\ Execute(candidate, out)
                /\ search' = [bit |-> search.bit - 1,
                              seed |-> IF StillFails(out, FailingOutput)
                                       THEN candidate ELSE search.seed]
  /\ UNCHANGED <<harness, phase, run, report, logs, verdict, campaigns>>

\* The reproducer is written and the report says failed.
Reproduce ==
  /\ phase = "minimizing" /\ search.bit = 0
  /\ report' = [Written("failed", run) EXCEPT
                 !.failure = [signature |-> FailingOutput,
                              failing |-> run.entries[Len(run.entries)].seed,
                              minimized |-> search.seed]]
  /\ Return("failed")
  /\ UNCHANGED <<harness, says, logs, campaigns>>
-----------------------------------------------------------------------------
(* The end of main.                                                          *)

AllPassed(entries) == \A i \in DOMAIN entries : Passed(entries[i].output)

\* Every required bin was covered by some seed.
Covered(entries) == \E i \in DOMAIN entries : entries[i].output = "pass"

\* Mutant of Verdict: the union of the bins is not looked at.
NoCoverage(r) ==
  IF Len(r.entries) = r.asked /\ AllPassed(r.entries) THEN "passed" ELSE "failed"

Verdict(r) ==
  IF Len(r.entries) = r.asked /\ AllPassed(r.entries) /\ Covered(r.entries)
  THEN "passed" ELSE "failed"

Conclude ==
  /\ phase = "reporting" \/ (phase = "running" /\ Len(run.entries) = run.asked)
  /\ report' = Written(Verdict(run), run)
  /\ Return(Verdict(run))
  /\ UNCHANGED <<harness, says, logs, campaigns>>

\* An interrupt, a kill, or an exception main does not catch: nothing more is
\* written.
Abandon ==
  /\ phase # "idle"
  /\ Return("none")
  /\ UNCHANGED <<harness, says, report, logs, campaigns>>

Progress ==
  \/ \E out \in Signatures \cup {"pass", "thin", "timeout"} :
       \/ SeedPasses(out) \/ SoakSeedFails(out) \/ EventSeedFails(out)
       \/ RandomSeedFails(out)
  \/ TryBit \/ Reproduce \/ Conclude

CampaignNext ==
  \/ \E asked \in Asks, base \in Bases, instructions \in {64, 256} :
       Announce(asked, base, instructions)
  \/ Progress \/ Abandon

\* Every execution ends: subprocess.run has a timeout.
CampaignSpec == CampaignInit /\ [][CampaignNext]_campaignVars /\ WF_campaignVars(Progress)
-----------------------------------------------------------------------------
(* release_evidence.py: what it accepts, the stamp and the inputs aside.     *)

EntriesOf(r) == {r.entries[i] : i \in DOMAIN r.entries}
SeedsOf(r) == {e.seed : e \in EntriesOf(r)}

\* Mutant of Complete: the number of seeds is not compared with the demand.
AnySize(r, least) ==
  /\ r.status = "passed" /\ r.failure = NoFailure
  /\ Len(r.entries) = r.asked
  /\ Cardinality(SeedsOf(r)) = Len(r.entries)
  /\ AllPassed(r.entries)

\* Passed, of the size asked for, every seed once and every seed passed.
Complete(r, least) ==
  /\ r.status = "passed" /\ r.failure = NoFailure
  /\ r.asked >= least /\ Len(r.entries) = r.asked
  /\ Cardinality(SeedsOf(r)) = Len(r.entries)
  /\ AllPassed(r.entries)

LogsMatch(r) == \A e \in EntriesOf(r) : logs[e.seed] = e.output

AcceptedSoak(r) == Complete(r, Release)

\* Every seed has all bins, and its log is on disk.
AcceptedEvents(r) ==
  /\ Complete(r, Release)
  /\ \A e \in EntriesOf(r) : e.output = "pass"
  /\ LogsMatch(r)

\* The grade of the report has to be the grade of the regression.
AcceptedRandom(r, grade) ==
  /\ Complete(r, IF grade THEN Release ELSE 2)
  /\ r.instructions >= (IF grade THEN 256 ELSE 64) /\ r.grade = grade
  /\ Covered(r.entries)
  /\ LogsMatch(r)

\* A full regression (grade) or a quick one accepts the report on disk.
Accepted(grade) ==
  /\ report # NoReport
  /\ CASE harness = "soak"   -> grade /\ AcceptedSoak(report)
       [] harness = "events" -> grade /\ AcceptedEvents(report)
       [] harness = "random" -> AcceptedRandom(report, grade)
-----------------------------------------------------------------------------
\* What the release accepts is a campaign of the size it asks for: that many
\* distinct seeds, none of them zero where the simulator takes zero for "no
\* seed", each of which this simulator passes, and every bin covered.
AcceptedIsEarned ==
  \A grade \in BOOLEAN : Accepted(grade) =>
    /\ Cardinality(SeedsOf(report)) >= IF grade THEN Release ELSE 2
    /\ harness # "random" => 0 \notin SeedsOf(report)
    /\ \A s \in SeedsOf(report) : "pass" \in Outputs(says[s])
                                  \/ (says[s] = "thin" /\ harness = "random")
    /\ \E s \in SeedsOf(report) : "pass" \in Outputs(says[s])

\* The programs and their validators agree on the last campaign: one of
\* release size that passed is accepted, unless it was asked for more seeds
\* than there are; after one that failed nothing is, whatever report an
\* earlier campaign had left.
VerdictStands ==
  /\ verdict = "passed" /\ phase = "idle"
     /\ report.asked \in Release .. Modulus - 1 /\ report.instructions = 256
       => Accepted(TRUE)
  /\ verdict = "failed" => \A grade \in BOOLEAN : ~Accepted(grade)

\* The reproducer of a soak failure shows the failure that was seen: its seed
\* is not zero, has no bit the failing seed has not, and can print the same
\* signature.
ReproducerReproduces ==
  harness = "soak" /\ report # NoReport /\ report.failure # NoFailure =>
    LET f == report.failure
    IN  /\ f.minimized # 0 /\ f.minimized <= f.failing
        /\ \A b \in 0 .. Bits - 1 :
             ClearBit(f.failing, b) = f.failing =>
               ClearBit(f.minimized, b) = f.minimized
        /\ f.signature \in Outputs(says[f.failing])
        /\ f.signature \in Outputs(says[f.minimized])

\* A campaign ends.
CampaignEnds == phase # "idle" ~> phase = "idle"
==============================================================================
