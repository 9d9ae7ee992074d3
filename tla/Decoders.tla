------------------------------ MODULE Decoders -------------------------------
(***************************************************************************)
(* The instruction encodings, read twice: by the reference of                *)
(* functional_coverage.py, which classifies the 4096 ARM decode rows         *)
(* (bits 27:20 and 7:4) and the 65536 Thumb words to decide which required   *)
(* bins they cover, and by the two decoders of the RTL.                      *)
(*                                                                          *)
(* An ARM word is a row and four register fields; its condition is AL.  A    *)
(* bin is a pair of its group and its member.                                *)
(***************************************************************************)
EXTENDS Naturals, Sequences, FiniteSets

Bit(n, i) == (n \div (2 ^ i)) % 2 = 1

\* Bits top down to low of n.
Slice(n, top, low) == (n \div (2 ^ low)) % (2 ^ (top - low + 1))

ArmClasses ==
  {"undef", "dp", "msr", "mrs", "mul", "mull", "branch", "bx", "ldr_str",
   "ldrh_strh", "ldm_stm", "swp", "swi", "cdp", "mcr_mrc", "ldc_stc"}

DpNames ==
  <<"and", "eor", "sub", "rsb", "add", "adc", "sbc", "rsc",
    "tst", "teq", "cmp", "cmn", "orr", "mov", "bic", "mvn">>

ConditionNames ==
  <<"eq", "ne", "cs", "cc", "mi", "pl", "vs", "vc", "hi", "ls", "ge", "lt",
    "gt", "le", "al">>

ThumbAluNames ==
  <<"and", "eor", "lsl", "lsr", "asr", "adc", "sbc", "ror",
    "tst", "neg", "cmp", "cmn", "orr", "mul", "bic", "mvn">>

ShiftNames == <<"lsl", "lsr", "asr", "ror">>

\* The n-th name, counted from 0.
Nth(names, n) == names[n + 1]

ArmClassTotals ==
  [undef |-> 445, dp |-> 784, msr |-> 34, mrs |-> 2, mul |-> 4, mull |-> 8,
   branch |-> 512, bx |-> 1, ldr_str |-> 768, ldrh_strh |-> 64,
   ldm_stm |-> 512, swp |-> 2, swi |-> 256, cdp |-> 128, mcr_mrc |-> 128,
   ldc_stc |-> 448]
-----------------------------------------------------------------------------
(* The reference: the class of an ARM row.                                   *)

MultiplyOrTransfer(hi, lo) ==
  CASE lo = 9 /\ hi <= 3                -> "mul"
    [] lo = 9 /\ hi \in 8 .. 15         -> "mull"
    [] lo = 9 /\ hi \in {16, 20}        -> "swp"
    [] lo = 11                          -> "ldrh_strh"
    [] lo \in {13, 15} /\ hi % 2 = 1    -> "ldrh_strh"
    [] OTHER                            -> "undef"

Miscellaneous(hi, lo) ==
  CASE hi \in {16, 20} /\ lo = 0 -> "mrs"
    [] hi \in {18, 22} /\ lo = 0 -> "msr"
    [] hi = 18 /\ lo = 1         -> "bx"
    [] OTHER                     -> "undef"

\* Mutant of CoprocessorRow: the two-register transfers are offered.
LaterCoprocessor(hi) == "ldc_stc"

CoprocessorRow(hi) ==
  IF hi \div 8 = 24 /\ ~Bit(hi, 1) THEN "undef" ELSE "ldc_stc"

ArmClass(hi, lo) ==
  CASE hi \div 32 = 0 -> IF Bit(lo, 3) /\ Bit(lo, 0) THEN MultiplyOrTransfer(hi, lo)
                         ELSE IF hi \in {16, 18, 20, 22} THEN Miscellaneous(hi, lo)
                         ELSE "dp"
    [] hi \div 32 = 1 -> IF hi \in {48, 52} THEN "undef"
                         ELSE IF hi \in {50, 54} THEN "msr" ELSE "dp"
    [] hi \div 32 = 2 -> "ldr_str"
    [] hi \div 32 = 3 -> IF Bit(lo, 0) THEN "undef" ELSE "ldr_str"
    [] hi \div 32 = 4 -> "ldm_stm"
    [] hi \div 32 = 5 -> "branch"
    [] hi \div 32 = 6 -> CoprocessorRow(hi)
    [] hi \div 32 = 7 -> IF Bit(hi, 4) THEN "swi"
                         ELSE IF Bit(lo, 0) THEN "mcr_mrc" ELSE "cdp"
-----------------------------------------------------------------------------
(* The reference: the bins an ARM row covers.                                *)

ShifterBin(hi, lo) ==
  LET shift == Nth(ShiftNames, Slice(lo, 2, 1))
  IN  IF Bit(hi, 5) THEN <<"shifter", "immediate_rotate">>
      ELSE IF Bit(lo, 0) THEN <<"shifter", shift, "register">>
      ELSE IF shift = "ror" /\ ~Bit(lo, 3) THEN <<"shifter", "rrx">>
      ELSE <<"shifter", shift, "immediate">>

\* Pre or post index, up or down, written back or not: the same three bits in
\* single and extra transfers.
IndexingBins(group, hi) ==
  {<<group, IF Bit(hi, 4) THEN "pre_index" ELSE "post_index">>,
   <<group, IF Bit(hi, 3) THEN "up" ELSE "down">>,
   <<group, IF ~Bit(hi, 4) \/ Bit(hi, 1) THEN "writeback" ELSE "no_writeback">>}

ArmBins(hi, lo) ==
  LET class == ArmClass(hi, lo)
      load  == Bit(hi, 0)
  IN  {<<"class", class>>} \cup
  CASE class = "dp" ->
         {<<"dp_opcode", Nth(DpNames, Slice(hi, 4, 1))>>,
          ShifterBin(hi, lo)}
    [] class \in {"mrs", "msr"} ->
         {<<"psr", class, IF Bit(hi, 5) THEN "immediate" ELSE "register",
            IF Bit(hi, 2) THEN "spsr" ELSE "cpsr">>}
    [] class = "mul" -> {<<"multiply", IF Bit(hi, 1) THEN "mla" ELSE "mul">>}
    [] class = "mull" ->
         {<<"multiply", IF Bit(hi, 2) THEN IF Bit(hi, 1) THEN "smlal" ELSE "smull"
                                      ELSE IF Bit(hi, 1) THEN "umlal" ELSE "umull">>}
    [] class = "branch" -> {<<"branch", IF Bit(hi, 4) THEN "bl" ELSE "b">>}
    [] class = "bx" -> {<<"branch", "bx">>}
    [] class = "ldr_str" ->
         {<<"single", IF load THEN IF Bit(hi, 2) THEN "ldrb" ELSE "ldr"
                              ELSE IF Bit(hi, 2) THEN "strb" ELSE "str">>,
          <<"single", IF Bit(hi, 5) THEN "register_offset" ELSE "immediate_offset">>}
         \cup IndexingBins("single", hi)
         \cup IF ~Bit(hi, 4) /\ Bit(hi, 1)
              THEN {<<"single", IF load THEN "translated_load"
                                         ELSE "translated_store">>}
              ELSE {}
    [] class = "ldrh_strh" ->
         {<<"extra", CASE Slice(lo, 2, 1) = 1 -> IF load THEN "ldrh" ELSE "strh"
                       [] Slice(lo, 2, 1) = 2 -> "ldrsb"
                       [] Slice(lo, 2, 1) = 3 -> "ldrsh">>,
          <<"extra", IF Bit(hi, 2) THEN "immediate_offset" ELSE "register_offset">>}
         \cup IndexingBins("extra", hi)
    [] class = "ldm_stm" ->
         {<<"block", IF load THEN "ldm" ELSE "stm">>,
          <<"block", IF Bit(hi, 3) THEN IF Bit(hi, 4) THEN "ib" ELSE "ia"
                                   ELSE IF Bit(hi, 4) THEN "db" ELSE "da">>,
          <<"block", IF Bit(hi, 1) THEN "writeback" ELSE "no_writeback">>}
    [] class = "swp" -> {<<"swap", IF Bit(hi, 2) THEN "swpb" ELSE "swp">>}
    [] class = "cdp" -> {<<"coprocessor", "cdp">>}
    [] class = "mcr_mrc" -> {<<"coprocessor", IF load THEN "mrc" ELSE "mcr">>}
    [] class = "ldc_stc" -> {<<"coprocessor", IF load THEN "ldc" ELSE "stc">>}
    [] class \in {"undef", "swi"} -> {}
-----------------------------------------------------------------------------
(* The reference: reserved Thumb words, formats and operations.              *)

ThumbReserved(w) ==
  \/ w \in \hB100 .. \hB3FF \/ w \in \hB600 .. \hBBFF \/ w \in \hBE00 .. \hBFFF
  \/ w \in \hDE00 .. \hDEFF \/ w \in \hE800 .. \hEFFF

\* Mutant of ThumbPolicy: the pre-ARMv5 BLX spelling is let through.
NoBlxPolicy(w) ==
  LET op == Slice(w, 9, 8)
  IN  /\ Slice(w, 15, 10) = 17
      /\ \/ op # 3 /\ ~Bit(w, 7) /\ ~Bit(w, 6)
         \/ op = 1 /\ Bit(w, 7) /\ w % 8 = 7
         \/ op = 3 /\ w % 8 # 0

\* Format 5 with operands the architecture leaves unpredictable.
ThumbPolicy(w) ==
  LET op == Slice(w, 9, 8)
  IN  /\ Slice(w, 15, 10) = 17
      /\ \/ op # 3 /\ ~Bit(w, 7) /\ ~Bit(w, 6)
         \/ op = 1 /\ Bit(w, 7) /\ w % 8 = 7
         \/ op = 3 /\ (Bit(w, 7) \/ w % 8 # 0)

\* 0 is no format.
ThumbFormat(w) ==
  CASE w < \h1800              -> 1
    [] w \in \h1800 .. \h1FFF  -> 2
    [] w \in \h2000 .. \h3FFF  -> 3
    [] w \in \h4000 .. \h43FF  -> 4
    [] w \in \h4400 .. \h47FF  -> 5
    [] w \in \h4800 .. \h4FFF  -> 6
    [] w \in \h5000 .. \h5FFF  -> IF Bit(w, 9) THEN 8 ELSE 7
    [] w \in \h6000 .. \h7FFF  -> 9
    [] w \in \h8000 .. \h8FFF  -> 10
    [] w \in \h9000 .. \h9FFF  -> 11
    [] w \in \hA000 .. \hAFFF  -> 12
    [] w \in \hB000 .. \hB0FF  -> 13
    [] w \in \hB400 .. \hB5FF \/ w \in \hBC00 .. \hBDFF -> 14
    [] w \in \hC000 .. \hCFFF  -> 15
    [] w \in \hD000 .. \hDDFF  -> 16
    [] w \in \hDF00 .. \hDFFF  -> 17
    [] w \in \hE000 .. \hE7FF  -> 18
    [] w \in \hF000 .. \hFFFF  -> 19
    [] OTHER                   -> 0

\* What the bin of a word in format f says of it: an operation and, where the
\* name has one, an operand or a condition.
ThumbOperation(w, f) ==
  LET Pick(names, low, width) == Nth(names, Slice(w, low + width - 1, low))
      Load == Bit(w, 11)
  IN
  CASE f = 1  -> <<Pick(<<"lsl", "lsr", "asr">>, 11, 2), "">>
    [] f = 2  -> <<Pick(<<"add", "sub">>, 9, 1), Pick(<<"register", "immediate">>, 10, 1)>>
    [] f = 3  -> <<Pick(<<"mov", "cmp", "add", "sub">>, 11, 2), "">>
    [] f = 4  -> <<Pick(ThumbAluNames, 6, 4), "">>
    [] f = 5  -> <<Pick(<<"add", "cmp", "mov", "bx">>, 8, 2), "">>
    [] f = 6  -> <<"ldr", "literal">>
    [] f = 7  -> <<Pick(<<"str", "strb", "ldr", "ldrb">>, 10, 2), "">>
    [] f = 8  -> <<Pick(<<"strh", "ldrsb", "ldrh", "ldrsh">>, 10, 2), "">>
    [] f = 9  -> <<Pick(<<"str", "ldr", "strb", "ldrb">>, 11, 2), "">>
    [] f = 10 -> <<IF Load THEN "ldrh" ELSE "strh", "">>
    [] f = 11 -> <<IF Load THEN "ldr" ELSE "str", "sp">>
    [] f = 12 -> <<"add", Pick(<<"pc", "sp">>, 11, 1)>>
    [] f = 13 -> <<Pick(<<"add", "sub">>, 7, 1), "sp">>
    [] f = 14 -> <<IF Load THEN "pop" ELSE "push",
                   IF ~Bit(w, 8) THEN "" ELSE IF Load THEN "pc" ELSE "lr">>
    [] f = 15 -> <<IF Load THEN "ldmia" ELSE "stmia", "">>
    [] f = 16 -> <<"b", Pick(ConditionNames, 8, 4)>>
    [] f = 17 -> <<"swi", "">>
    [] f = 18 -> <<"b", "">>
    [] f = 19 -> <<IF Load THEN "bl_suffix" ELSE "bl_prefix", "">>
\* A push or pop with an extra register covers the plain bin as well.
ThumbBins(w, f) ==
  LET operation == ThumbOperation(w, f)
  IN  {<<"thumb", f>> \o operation}
      \cup IF f = 14 THEN {<<"thumb", f, operation[1], "">>} ELSE {}
-----------------------------------------------------------------------------
(* The bins functional_coverage.json requires of the enumeration.            *)

RequiredArm ==
  LET In(group, members) == {<<group, m>> : m \in members}
      Indexing == {"immediate_offset", "register_offset", "pre_index", "post_index",
                   "up", "down", "writeback", "no_writeback"}
  IN  In("class", ArmClasses)
      \cup {<<"dp_opcode", DpNames[i]>> : i \in 1 .. 16}
      \cup In("shifter", {"immediate_rotate", "rrx"})
      \cup {<<"shifter", ShiftNames[i], by>> : i \in 1 .. 4, by \in {"immediate", "register"}}
      \cup In("multiply", {"mul", "mla", "umull", "umlal", "smull", "smlal"})
      \cup {<<"psr", form[1], form[2], psr>> :
              form \in {<<"mrs", "register">>, <<"msr", "register">>, <<"msr", "immediate">>},
              psr \in {"cpsr", "spsr"}}
      \cup In("branch", {"b", "bl", "bx"})
      \cup In("single", Indexing \cup {"ldr", "str", "ldrb", "strb",
                                       "translated_load", "translated_store"})
      \cup In("extra", Indexing \cup {"ldrh", "strh", "ldrsb", "ldrsh"})
      \cup In("block", {"ldm", "stm", "ia", "ib", "da", "db", "writeback", "no_writeback"})
      \cup In("swap", {"swp", "swpb"})
      \cup In("coprocessor", {"cdp", "mcr", "mrc", "ldc", "stc"})

RequiredThumb ==
  LET In(f, operations) == {<<"thumb", f, op, "">> : op \in operations}
      With(f, operations, operands) ==
        {<<"thumb", f, op, by>> : op \in operations, by \in operands}
  IN  In(1, {"lsl", "lsr", "asr"}) \cup With(2, {"add", "sub"}, {"register", "immediate"})
      \cup In(3, {"mov", "cmp", "add", "sub"})
      \cup In(4, {ThumbAluNames[i] : i \in 1 .. 16})
      \cup In(5, {"add", "cmp", "mov", "bx"}) \cup With(6, {"ldr"}, {"literal"})
      \cup In(7, {"str", "strb", "ldr", "ldrb"})
      \cup In(8, {"strh", "ldrsb", "ldrh", "ldrsh"})
      \cup In(9, {"str", "ldr", "strb", "ldrb"}) \cup In(10, {"strh", "ldrh"})
      \cup With(11, {"str", "ldr"}, {"sp"}) \cup With(12, {"add"}, {"pc", "sp"})
      \cup With(13, {"add", "sub"}, {"sp"})
      \cup With(14, {"push"}, {"", "lr"}) \cup With(14, {"pop"}, {"", "pc"})
      \cup In(15, {"stmia", "ldmia"})
      \cup With(16, {"b"}, {ConditionNames[i] : i \in 1 .. 14})
      \cup In(17, {"swi"}) \cup In(18, {"b"}) \cup In(19, {"bl_prefix", "bl_suffix"})
-----------------------------------------------------------------------------
(* The words with unpredictable operand fields that the reference counts and  *)
(* unpredictable_decode_tb.sv enumerates, one should-be field wrong at a time.*)

Encoding(hi, lo, rn, rd, rs, rm) ==
  [hi |-> hi, lo |-> lo, rn |-> rn, rd |-> rd, rs |-> rs, rm |-> rm]

ArmPolicyRows ==
  LET NotZeros == 1 .. 15   \* wrong where 0 should be
      NotOnes  == 0 .. 14   \* wrong where 1111 should be
  IN
  [data_processing_fields |->
     {Encoding(imm + 17 + 2 * op, 0, 1, rd, 0, 2) : imm \in {0, 32}, op \in 0 .. 3, rd \in NotZeros}
     \cup {Encoding(imm + hi, 0, rn, 2, 0, 2) : imm \in {0, 32}, hi \in {26, 30}, rn \in NotZeros},
   short_multiply_operands |->
     {Encoding(0, 9, 1, rd, 2, 3) : rd \in 1 .. 14}
     \cup {Encoding(0, 9, 15, 0, 2, 3), Encoding(0, 9, 1, 0, 15, 3), Encoding(0, 9, 1, 0, 2, 15),
           Encoding(2, 9, 15, 4, 2, 3), Encoding(2, 9, 1, 15, 2, 3),
           Encoding(2, 9, 1, 4, 15, 3), Encoding(2, 9, 1, 4, 2, 15)},
   long_multiply_operands |->
     UNION {{Encoding(hi, 9, 15, 2, 3, 4), Encoding(hi, 9, 1, 15, 3, 4),
             Encoding(hi, 9, 1, 2, 15, 4), Encoding(hi, 9, 1, 2, 3, 15)}
            \cup {Encoding(hi, 9, rd, rd, 3, 4) : rd \in 0 .. 14} : hi \in {8, 10, 12, 14}},
   psr_operands |->
     UNION {{Encoding(16 + spsr, 0, 15, 15, 0, 0), Encoding(18 + spsr, 0, 0, 15, 0, 1),
             Encoding(50 + spsr, 0, 0, 15, 0, 1), Encoding(18 + spsr, 0, 8, 15, 0, 15)}
            : spsr \in {0, 4}},
   psr_misc_fields |->
     UNION {{Encoding(16 + spsr, 0, field, 1, 0, 0) : field \in NotOnes}
            \cup {Encoding(18 + spsr, 0, 8, field, 0, 1) : field \in NotOnes}
            \cup {Encoding(50 + spsr, 0, 8, field, 0, 1) : field \in NotOnes}
            \cup {Encoding(16 + spsr, 0, 15, 1, sbz \div 16, sbz % 16) : sbz \in 1 .. 255}
            \cup {Encoding(18 + spsr, 0, 8, 15, sbz, 1) : sbz \in NotZeros} : spsr \in {0, 4}},
   bx_sbo_fields |->
     UNION {{Encoding(18, 1, field, 15, 15, 1), Encoding(18, 1, 15, field, 15, 1),
             Encoding(18, 1, 15, 15, field, 1)} : field \in NotOnes},
   swp_sbz_fields |-> {Encoding(16 + byte, 9, 1, 2, sbz, 3) : byte \in {0, 4}, sbz \in NotZeros},
   extra_transfer_sbz_fields |->
     {Encoding(form[1], form[2], 1, 2, sbz, 3) :
        form \in {<<24, 11>>, <<25, 11>>, <<25, 13>>, <<25, 15>>}, sbz \in NotZeros},
   coprocessor_pc_writeback |->
     {Encoding(194 + 8 * pu + 4 * n + l, 0, 15, 2, 1, 4) :
        pu \in 0 .. 3, n \in 0 .. 1, l \in 0 .. 1}]

ArmPolicyTotals ==
  [data_processing_fields |-> 180, short_multiply_operands |-> 21,
   long_multiply_operands |-> 76, psr_operands |-> 8, psr_misc_fields |-> 630,
   bx_sbo_fields |-> 45, swp_sbz_fields |-> 30, extra_transfer_sbz_fields |-> 60,
   coprocessor_pc_writeback |-> 16]
-----------------------------------------------------------------------------
(* arm7tdmis_decoder.sv: the class of a word.                                *)

\* Mutant of IsSwap: bits 11:8 are not looked at.
SwapAnyField(w) == w.hi \in {16, 20} /\ w.lo = 9

\* Mutant of IsExtraTransfer: a signed store, which ARMv4 has not, is one too.
SignedStores(w) == w.lo \in {11, 13, 15}

IsExtraTransfer(w) == w.lo = 11 \/ (w.hi % 2 = 1 /\ w.lo \in {13, 15})

IsSwap(w) == w.hi \in {16, 20} /\ w.lo = 9 /\ w.rs = 0

\* Bits 27:25 = 000.
Allocation(w) ==
  CASE w.hi = 18 /\ w.lo = 1 /\ w.rn = 15 /\ w.rd = 15 /\ w.rs = 15 -> "bx"
    [] w.hi \div 4 = 0 /\ w.lo = 9                                  -> "mul"
    [] w.hi \div 8 = 1 /\ w.lo = 9                                  -> "mull"
    [] IsSwap(w)                                                    -> "swp"
    [] w.hi \in {16, 20} /\ w.lo = 0 /\ w.rn = 15 /\ w.rs = 0 /\ w.rm = 0 -> "mrs"
    [] w.hi \in {18, 22} /\ w.lo = 0 /\ w.rd = 15 /\ w.rs = 0       -> "msr"
    [] IsExtraTransfer(w)                                           -> "ldrh_strh"
    [] OTHER -> IF Bit(w.lo, 3) /\ Bit(w.lo, 0) THEN "undef"
                ELSE IF Slice(w.hi, 4, 3) = 2 /\ w.hi % 2 = 0 THEN "undef" ELSE "dp"

RowClass(w) ==
  CASE w.hi \div 32 = 0 -> Allocation(w)
    [] w.hi \div 32 = 1 -> IF w.hi \in {50, 54}
                           THEN IF w.rd = 15 THEN "msr" ELSE "undef"
                           ELSE IF w.hi \in {48, 52} THEN "undef" ELSE "dp"
    [] w.hi \div 32 = 2 -> "ldr_str"
    [] w.hi \div 32 = 3 -> IF Bit(w.lo, 0) THEN "undef" ELSE "ldr_str"
    [] w.hi \div 32 = 4 -> "ldm_stm"
    [] w.hi \div 32 = 5 -> "branch"
    [] w.hi \div 32 = 6 -> IF w.hi \div 8 = 24 /\ ~Bit(w.hi, 1) THEN "undef"
                           ELSE "ldc_stc"
    [] w.hi \div 32 = 7 -> IF Bit(w.hi, 4) THEN "swi"
                           ELSE IF Bit(w.lo, 0) THEN "mcr_mrc" ELSE "cdp"

WritesBase(w) == ~Bit(w.hi, 4) \/ Bit(w.hi, 1)

BaseClash(w, indexed) ==
  WritesBase(w) /\ (w.rn \in {w.rd, 15} \/ (indexed /\ w.rn = w.rm))

Opcode(w) == Slice(w.hi, 4, 1)

\* The register and should-be-zero fields that turn an allocated row into a
\* trap.
OperandTrap(c, w) ==
  CASE c = "ldr_str" ->
         BaseClash(w, Bit(w.hi, 5)) \/ (Bit(w.hi, 5) /\ w.rm = 15)
         \/ (Bit(w.hi, 2) /\ w.rd = 15)
    [] c = "ldrh_strh" ->
         LET register == ~Bit(w.hi, 2)
         IN  w.rd = 15 \/ BaseClash(w, register)
             \/ (register /\ (w.rs # 0 \/ w.rm = 15))
    [] c = "dp" ->
         \/ Opcode(w) \in 8 .. 11 /\ w.rd # 0
         \/ Opcode(w) \in {13, 15} /\ w.rn # 0
    [] c = "mul" ->
         15 \in {w.rn, w.rs, w.rm}
         \/ (IF Bit(w.hi, 1) THEN w.rd = 15 ELSE w.rd # 0)
    [] c = "mull" -> 15 \in {w.rn, w.rd, w.rs, w.rm} \/ w.rn = w.rd
    [] c = "mrs" -> w.rd = 15
    [] c = "msr" -> w.rn = 0 \/ (~Bit(w.hi, 5) /\ w.rm = 15)
    [] c = "ldc_stc" -> Bit(w.hi, 1) /\ w.rn = 15
    [] OTHER -> FALSE

DecodedClass(w) ==
  LET c == RowClass(w) IN IF OperandTrap(c, w) THEN "undef" ELSE c

\* The operation the decoded fields select in the core, as a bin.
DecodedBin(w) ==
  LET c == DecodedClass(w)
      load == Bit(w.hi, 0)                                 \* ls_load, block_load
  IN
  CASE c = "dp" ->
         LET op == Nth(ShiftNames, Slice(w.lo, 2, 1))      \* shifter_op
             rrx == op = "ror" /\ w.rs = 0 /\ ~Bit(w.lo, 3)
         IN  IF w.hi \div 32 = 1 THEN <<"shifter", "immediate_rotate">>
             ELSE IF Bit(w.lo, 0) /\ ~Bit(w.lo, 3) THEN <<"shifter", op, "register">>
             ELSE IF rrx THEN <<"shifter", "rrx">> ELSE <<"shifter", op, "immediate">>
    [] c \in {"mrs", "msr"} ->
         <<"psr", c, IF w.hi \div 32 = 1 THEN "immediate" ELSE "register",
           IF Bit(w.hi, 2) THEN "spsr" ELSE "cpsr">>
    [] c = "mul" -> <<"multiply", IF Bit(w.hi, 1) THEN "mla" ELSE "mul">>
    [] c = "mull" ->
         <<"multiply", CASE Slice(w.hi, 2, 1) = 0 -> "umull"    \* signed, accumulate
                         [] Slice(w.hi, 2, 1) = 1 -> "umlal"
                         [] Slice(w.hi, 2, 1) = 2 -> "smull"
                         [] Slice(w.hi, 2, 1) = 3 -> "smlal">>
    [] c = "ldrh_strh" ->                                  \* hs_signed, hs_halfword
         <<"extra", IF ~load THEN "strh"
                    ELSE IF ~Bit(w.lo, 2) THEN "ldrh"
                    ELSE IF Bit(w.lo, 1) THEN "ldrsh" ELSE "ldrsb">>
    [] OTHER -> <<"class", c>>
-----------------------------------------------------------------------------
(* arm7tdmis_thumb_decoder.sv: the micro-operation of a word.                *)

LowRegister == "low"

NoOp ==
  [class |-> "undef", alu |-> "and", s |-> FALSE, shift |-> "lsl",
   imm |-> FALSE, rd |-> LowRegister, base |-> LowRegister, load |-> FALSE, byte |-> FALSE,
   half |-> FALSE, signed |-> FALSE, extra |-> "", cond |-> "al", link |-> FALSE]

DataOp(alu, s, imm) ==
  [NoOp EXCEPT !.class = "dp", !.alu = alu, !.s = s, !.imm = imm]

Format4Op(op) ==
  CASE op = 13 -> [NoOp EXCEPT !.class = "mul", !.s = TRUE]
    [] op \in {2, 3, 4, 7} ->
         [DataOp("mov", TRUE, FALSE) EXCEPT
           !.shift = CASE op = 2 -> "lsl" [] op = 3 -> "lsr"
                       [] op = 4 -> "asr" [] op = 7 -> "ror"]
    [] op = 9 -> DataOp("rsb", TRUE, TRUE)
    [] OTHER ->
         DataOp(CASE op = 0 -> "and" [] op = 1 -> "eor" [] op = 5 -> "adc"
                  [] op = 6 -> "sbc" [] op = 8 -> "tst" [] op = 10 -> "cmp"
                  [] op = 11 -> "cmn" [] op = 12 -> "orr" [] op = 14 -> "bic"
                  [] op = 15 -> "mvn", TRUE, FALSE)

Transfer(base, load, byte) ==
  [NoOp EXCEPT !.class = "ldr_str", !.base = base, !.load = load, !.byte = byte]

HalfTransfer(load, half, signed) ==
  [NoOp EXCEPT !.class = "ldrh_strh", !.load = load, !.half = half, !.signed = signed]

Block(base, load, extra) ==
  [NoOp EXCEPT !.class = "ldm_stm", !.base = base, !.load = load, !.extra = extra]

\* The low/low forms, CMP with r15, the later BLX and nonzero BX fields trap.
Format5Trap(w) ==
  IF Slice(w, 9, 8) = 3 THEN Bit(w, 7) \/ w % 8 # 0
  ELSE \/ ~Bit(w, 7) /\ ~Bit(w, 6)
       \/ Slice(w, 9, 8) = 1 /\ Bit(w, 7) /\ w % 8 = 7

Format5Op(w) ==
  IF Format5Trap(w) THEN NoOp
  ELSE CASE Slice(w, 9, 8) = 0 -> DataOp("add", FALSE, FALSE)
         [] Slice(w, 9, 8) = 1 -> DataOp("cmp", TRUE, FALSE)
         [] Slice(w, 9, 8) = 2 -> DataOp("mov", FALSE, FALSE)
         [] Slice(w, 9, 8) = 3 -> [NoOp EXCEPT !.class = "bx"]

Branch(cond) == [NoOp EXCEPT !.class = "branch", !.cond = cond]

\* Mutant of IsConditional: the reserved condition is a branch too.
BranchOnReserved(w) == w \div 4096 = 13 /\ Slice(w, 11, 8) < 15

IsConditional(w) == w \div 4096 = 13 /\ Slice(w, 11, 8) < 14

ThumbDecode(w) ==
  LET Top(n) == w \div (2 ^ (16 - n))
      load   == Bit(w, 11)
  IN
  CASE Top(5) = 3  -> DataOp(IF Bit(w, 9) THEN "sub" ELSE "add", TRUE, Bit(w, 10))
    [] Top(5) \in 0 .. 2 ->
         [DataOp("mov", TRUE, FALSE) EXCEPT !.shift = Nth(ShiftNames, Slice(w, 12, 11))]
    [] Top(3) = 1  ->
         DataOp(Nth(<<"mov", "cmp", "add", "sub">>, Slice(w, 12, 11)), TRUE, TRUE)
    [] Top(6) = 16 -> Format4Op(Slice(w, 9, 6))
    [] Top(6) = 17 -> Format5Op(w)
    [] Top(5) = 9  -> Transfer("pc", TRUE, FALSE)
    [] Top(4) = 5 /\ ~Bit(w, 9) -> Transfer(LowRegister, load, Bit(w, 10))
    [] Top(4) = 5 /\ Bit(w, 9) ->
         LET s == Bit(w, 10) h == load
         IN  HalfTransfer(s \/ h, ~s \/ h, s)
    [] Top(3) = 3  -> Transfer(LowRegister, load, Bit(w, 12))
    [] Top(4) = 8  -> HalfTransfer(load, TRUE, FALSE)
    [] Top(4) = 9  -> Transfer("sp", load, FALSE)
    [] Top(4) = 10 -> [DataOp("add", FALSE, TRUE) EXCEPT !.base = IF load THEN "sp" ELSE "pc"]
    [] Top(8) = 176 ->
         [DataOp(IF Bit(w, 7) THEN "sub" ELSE "add", FALSE, TRUE) EXCEPT
           !.rd = "sp", !.base = "sp"]
    [] Top(4) = 11 /\ Slice(w, 10, 9) = 2 ->
         Block("sp", load, IF ~Bit(w, 8) THEN "" ELSE IF load THEN "pc" ELSE "lr")
    [] Top(4) = 12 -> Block(LowRegister, load, "")
    [] IsConditional(w) -> Branch(Nth(ConditionNames, Slice(w, 11, 8)))
    [] Top(8) = 223 -> [NoOp EXCEPT !.class = "swi"]
    [] Top(5) = 28 -> Branch("al")
    [] Top(5) = 30 -> [DataOp("add", FALSE, TRUE) EXCEPT !.rd = "lr", !.base = "pc"]
    [] Top(5) = 31 -> [Branch("al") EXCEPT !.link = TRUE, !.base = "lr"]
    [] OTHER -> NoOp

\* The operation the core executes for a micro-operation of format f: a MOV
\* that sets the flags from a register is the shift it passes through.
ThumbExecuted(u, f) ==
  LET mnemonic ==
        CASE u.class = "dp" ->
               IF u.rd = "lr" THEN "bl_prefix"
               ELSE IF u.alu = "mov" /\ u.s /\ ~u.imm THEN u.shift
               ELSE IF u.alu = "rsb" THEN "neg" ELSE u.alu
          [] u.class = "ldr_str" -> IF u.load THEN IF u.byte THEN "ldrb" ELSE "ldr"
                                    ELSE IF u.byte THEN "strb" ELSE "str"
          [] u.class = "ldrh_strh" -> IF ~u.load THEN "strh" ELSE IF ~u.signed THEN "ldrh"
                                      ELSE IF u.half THEN "ldrsh" ELSE "ldrsb"
          [] u.class = "ldm_stm" -> IF u.base = "sp" THEN IF u.load THEN "pop" ELSE "push"
                                    ELSE IF u.load THEN "ldmia" ELSE "stmia"
          [] u.class = "branch" -> IF u.link THEN "bl_suffix" ELSE "b"
          [] OTHER -> u.class
      operand ==
        CASE f = 2 -> IF u.imm THEN "immediate" ELSE "register"
          [] f = 6 /\ u.base = "pc" -> "literal"
          [] f \in {11, 12, 13} -> u.base
          [] f = 14 -> u.extra
          [] f = 16 -> u.cond
          [] OTHER -> ""
  IN  <<mnemonic, operand>>
==============================================================================
