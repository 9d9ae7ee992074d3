-------------------------- MODULE ReferenceOracles ---------------------------
(***************************************************************************)
(* The two Python oracles of the full regression beside the hardware they    *)
(* judge, in the order of its phases: functional_coverage.py enumerates the  *)
(* encodings (Decoders), then constrained_random.py predicts a memory        *)
(* (MemoryLanes).  An ARM step is one round of the loop over bits 27:20, a   *)
(* Thumb step the 256 words with one upper byte.                             *)
(***************************************************************************)
EXTENDS MemoryLanes, Decoders

CONSTANT Fields   \* register numbers tried in the operand fields of a row

\* Enough of them for a word of each class that does not trap.
ASSUME FieldsAssumption == Fields \subseteq 0 .. 15 /\ {0, 1, 15} \subseteq Fields

VARIABLES
  at,        \* rounds of the enumeration done: 256 of ARM, then 256 of Thumb
  counts,    \* class_counts
  covered,   \* covered
  policy,    \* thumb_policy_rows
  outcome    \* "enumerating", "passed" or "failed"

enumVars == <<at, counts, covered, policy, outcome>>
oracleVars == <<big, words, mem, expected, loaded, enumVars>>

OracleInit ==
  /\ Init
  /\ at = 0 /\ counts = [c \in ArmClasses |-> 0]
  /\ covered = {} /\ policy = 0 /\ outcome = "enumerating"

Lows == 0 .. 15
ThumbWords(n) == 256 * n .. 256 * n + 255

EnumerateArm ==
  /\ outcome = "enumerating" /\ at < 256
  /\ counts' = [c \in ArmClasses |->
                 counts[c] + Cardinality({lo \in Lows : ArmClass(at, lo) = c})]
  /\ covered' = covered \cup UNION {ArmBins(at, lo) : lo \in Lows}
  /\ at' = at + 1
  /\ UNCHANGED <<vars, policy, outcome>>

\* A valid word that has no format ends the enumeration.
EnumerateThumb ==
  /\ outcome = "enumerating" /\ at \in 256 .. 511
  /\ LET block == ThumbWords(at - 256)
         valid == {w \in block : ~ThumbReserved(w) /\ ~ThumbPolicy(w)}
         lost  == {w \in valid : ThumbFormat(w) = 0}
     IN  /\ policy' = policy + Cardinality({w \in block : ThumbPolicy(w)})
         /\ outcome' = IF lost = {} THEN outcome ELSE "failed"
         /\ covered' = covered \cup
              UNION {ThumbBins(w, ThumbFormat(w)) : w \in valid \ lost}
  /\ at' = at + 1
  /\ UNCHANGED <<vars, counts>>

\* The totals are compared, then the required bins with the covered ones.
ReportCoverage ==
  /\ outcome = "enumerating" /\ at = 512
  /\ outcome' = IF /\ counts = ArmClassTotals /\ policy = 448
                   /\ RequiredArm \cup RequiredThumb \subseteq covered
                THEN "passed" ELSE "failed"
  /\ counts' = [c \in ArmClasses |-> 0] /\ covered' = {}
  /\ UNCHANGED <<vars, at, policy>>

\* The random campaign, once the coverage phase has passed.
RandomCampaign == outcome = "passed" /\ Next /\ UNCHANGED enumVars

OracleNext == EnumerateArm \/ EnumerateThumb \/ ReportCoverage \/ RandomCampaign

OracleSpec == OracleInit /\ [][OracleNext]_oracleVars
-----------------------------------------------------------------------------
\* The words of the row (hi, lo) over the field values tried.
RowWords(hi, lo) ==
  [hi : {hi}, lo : {lo}, rn : Fields, rd : Fields, rs : Fields, rm : Fields]

\* The decoder and the reference allocate each ARM row alike: every word of a
\* row has the row's class or traps; a row the reference allocates has a word
\* that does not trap, and among those one whose operation is a bin the
\* reference counts as covered.  So no covered bin stands for an instruction
\* the decoder always refuses, and no reserved row executes.
ArmRowsAgree ==
  outcome = "enumerating" /\ at < 256 => \A lo \in Lows :
    LET class == ArmClass(at, lo)
        live  == {w \in RowWords(at, lo) : DecodedClass(w) # "undef"}
    IN  /\ \A w \in live : DecodedClass(w) = class
        /\ class # "undef" => \E w \in live : DecodedBin(w) \in ArmBins(at, lo)

\* The Thumb decoder traps exactly the words the reference calls reserved or
\* unpredictable, and executes every other word as the operation its bin
\* names: with the operand, the condition and the size.
ThumbWordsAgree ==
  outcome = "enumerating" /\ at \in 256 .. 511 => \A w \in ThumbWords(at - 256) :
    LET u == ThumbDecode(w)
        f == ThumbFormat(w)
    IN  IF ThumbReserved(w) \/ ThumbPolicy(w) THEN u.class = "undef"
        ELSE u.class # "undef" /\ ThumbExecuted(u, f) = ThumbOperation(w, f)

\* The unpredictable ARM words that the reference counts are as many as the
\* test bench builds, and the decoder traps each of them.
PolicyTraps ==
  \A part \in DOMAIN ArmPolicyRows :
    /\ Cardinality(ArmPolicyRows[part]) = ArmPolicyTotals[part]
    /\ \A w \in ArmPolicyRows[part] : DecodedClass(w) = "undef"

\* The enumeration never fails its own totals, closes every bin the manifest
\* requires of it, and counts as policy rows only words that trap.
CoverageCloses ==
  /\ outcome # "failed"
  /\ at = 512 /\ outcome = "enumerating" => PolicyTraps

\* The random campaign finds the memory and the loaded register as its oracle
\* predicted them, whatever lanes a read leaves open.
OraclesAgree == MemoriesAgree /\ LoadsAgree
==============================================================================
