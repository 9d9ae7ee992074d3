--------------------------- MODULE ArithmeticUnit ---------------------------
(* Data processing and multiplication in Execute                             *)
(* (src/rtl/core/arm7tdmis_core_pipelined.sv): the operand paths into the    *)
(* blocks of Datapath, the substates of the instructions that take more than *)
(* one cycle, and the latches that carry them over after Decode has moved on *)
(* to the next instruction.                                                  *)
(*                                                                           *)
(* An edge is one on which CLKEN is high; the unit is driven by the pipeline *)
(* with one instruction after the other. What an interrupt on the last edge  *)
(* of an instruction does is CorePipeline's subject, and so are r15 as an    *)
(* operand or destination and the refill behind it.                          *)
EXTENDS Datapath

CONSTANTS Regs,             \* registers in use, r15 not among them
          Instructions,     \* what Decode may deliver
          StartValues,      \* words and flags the program starts with
          StartFlags,
          MaxInstructions   \* instructions executed: a bound of the model

Flags == [n : Flag, z : Flag, c : Flag, v : Flag]

ASSUME InstructionAssumption ==
         Instructions \subseteq
           [class : {"DP", "MUL", "MULL"}, cond : Conditions, op : AluOps, s : BOOLEAN,
            rn : Regs, rd : Regs, rm : Regs, rs : Regs,
            shift : ShiftOps, amount : 0 .. WordSize, use_rs : BOOLEAN,
            accumulate : BOOLEAN, signed : BOOLEAN]
ASSUME StartAssumption == StartValues \subseteq Word /\ StartFlags \subseteq Flags
ASSUME BoundAssumption == MaxInstructions \in Nat

VARIABLES gpr,          \* register file
          flags,        \* CPSR.N, Z, C, V
          dec,          \* de_q.dec: the decoded instruction
          state_q,      \* substate of Execute
          shift_q,      \* dp_shift_*_q
          mull_q,       \* mull_*_q and acc_lo_q
          mul_active,   \* mull_active_q: a long form is in progress
          remaining,    \* mul_busy_remaining_q
          executed,     \* instructions completed so far, for the bound
          due           \* cycles the timing table leaves the instruction

unit_vars == <<gpr, flags, dec, state_q, shift_q, mull_q, mul_active, remaining, executed, due>>

States == {"S_EXEC", "S_DP_SHIFT", "S_MUL_BUSY", "S_MULL_ACC", "S_MULL_HI"}

AnyReg == CHOOSE r \in Regs : TRUE
NoShift == [rd |-> AnyReg, result |-> 0, flags |-> [n |-> 0, z |-> 0, c |-> 0, v |-> 0],
            writes |-> FALSE, flags_we |-> FALSE]
NoMull == [rdhi |-> AnyReg, rdlo |-> AnyReg, result_hi |-> 0, acc_lo |-> 0,
           op_a |-> 0, op_b |-> 0, signed |-> FALSE, s |-> FALSE]

UnitInit ==
  /\ gpr \in [Regs -> StartValues]
  /\ flags \in StartFlags
  /\ dec \in Instructions
  /\ state_q = "S_EXEC"
  /\ shift_q = NoShift
  /\ mull_q = NoMull
  /\ mul_active = FALSE
  /\ remaining = 0
  /\ executed = 0
  /\ due = 0

passes_cond == state_q = "S_EXEC" /\ ConditionPass(dec.cond, flags)
instr_is_mul == passes_cond /\ dec.class = "MUL"
mull_take_cycle == passes_cond /\ dec.class = "MULL" /\ ~dec.accumulate
mull_accum_take_cycle == passes_cond /\ dec.class = "MULL" /\ dec.accumulate
mul_take_busy == instr_is_mul \/ mull_take_cycle
dp_fires == passes_cond /\ dec.class = "DP"
dp_shift_take_cycle == dp_fires /\ dec.use_rs

LiveAccumulator ==
  gpr[IF dec.class = "MUL" \/ (dec.class = "MULL" /\ dec.accumulate) THEN dec.rd ELSE dec.rn]
(* Port A of the register file: the accumulator's slot for MUL, MLA and the  *)
(* first cycle of an accumulating long form, its high half in the second.    *)
ra_data ==
  gpr[IF state_q = "S_MULL_ACC" THEN mull_q.rdhi
       ELSE IF dec.class = "MUL" \/ (dec.class = "MULL" /\ dec.accumulate) THEN dec.rd
       ELSE dec.rn]
rb_data == gpr[dec.rm]
rc_data == gpr[dec.rs]

shifter == Shifter(dec.shift, IF dec.use_rs THEN rc_data % Power[AmountBits] ELSE dec.amount,
                   rb_data, flags.c)
alu_result == AluResult(dec.op, ra_data, shifter.result, flags.c)
alu_flags_merged == AluFlags(dec.op, ra_data, shifter.result, flags, shifter.carry)

(* The multiplier's inputs: latched ones in S_MULL_ACC, when Decode already  *)
(* holds the next instruction, live ones otherwise.                          *)
product ==
  IF state_q = "S_MULL_ACC"
    THEN Product(mull_q.signed, mull_q.op_a, mull_q.op_b, ra_data * Modulus + mull_q.acc_lo)
    ELSE Product(dec.signed /\ dec.class = "MULL", rb_data, rc_data,
                 IF dec.accumulate THEN ra_data ELSE 0)
cycle_count == CycleCount(IF state_q = "S_MULL_ACC" THEN mull_q.op_b ELSE rc_data)
result_lo == product % Modulus
result_hi == product \div Modulus

(* Cycles of an instruction in the timing table, with the multiplier's m     *)
(* stated by what it means: the bytes a signed reading of Rs needs.          *)
Needs(rs) ==
  LET signed == IF Top(rs) = 1 THEN rs - Modulus ELSE rs
      Reach(k) == Power[k * (WordSize \div 4)]
  IN Min({k \in 1 .. 4 : signed >= -Reach(k) /\ signed < Reach(k)})
Cycles ==
  CASE ~passes_cond -> 1
    [] dp_fires -> IF dec.use_rs THEN 2 ELSE 1
    [] instr_is_mul -> 1 + Needs(rc_data) + (IF dec.accumulate THEN 1 ELSE 0)
    [] mull_take_cycle -> 2 + Needs(rc_data)
    [] mull_accum_take_cycle -> 3 + Needs(rc_data)

(* Decode delivers the next instruction on the edge that ends S_EXEC.        *)
Decode ==
  /\ executed < MaxInstructions
  /\ executed' = executed + 1
  /\ due' = Cycles - 1
  /\ dec' \in Instructions

(* An instruction whose condition fails takes one cycle and does nothing.    *)
Skip ==
  /\ state_q = "S_EXEC"
  /\ ~passes_cond
  /\ Decode
  /\ UNCHANGED <<gpr, flags, state_q, shift_q, mull_q, mul_active, remaining>>

DataProcessing ==
  /\ dp_fires
  /\ ~dp_shift_take_cycle
  /\ gpr' = IF dec.op \in Tests THEN gpr ELSE [gpr EXCEPT ![dec.rd] = alu_result]
  /\ flags' = IF dec.s THEN alu_flags_merged ELSE flags
  /\ Decode
  /\ UNCHANGED <<state_q, shift_q, mull_q, mul_active, remaining>>

(* A shift by a register takes a second cycle; result and flags wait in      *)
(* latches.                                                                  *)
ShiftByRegister ==
  /\ dp_shift_take_cycle
  /\ shift_q' = [rd |-> dec.rd, result |-> alu_result, flags |-> alu_flags_merged,
                 writes |-> dec.op \notin Tests, flags_we |-> dec.s]
  /\ state_q' = "S_DP_SHIFT"
  /\ Decode
  /\ UNCHANGED <<gpr, flags, mull_q, mul_active, remaining>>

ShiftCommit ==
  /\ state_q = "S_DP_SHIFT"
  /\ gpr' = IF shift_q.writes THEN [gpr EXCEPT ![shift_q.rd] = shift_q.result] ELSE gpr
  /\ flags' = IF shift_q.flags_we THEN shift_q.flags ELSE flags
  /\ state_q' = "S_EXEC"
  /\ due' = due - 1
  /\ UNCHANGED <<dec, shift_q, mull_q, mul_active, remaining, executed>>

(* MUL, MLA, UMULL and SMULL write their low word and flags at once, latch   *)
(* the high word, and then wait for the multiplier. MLA waits a cycle more.  *)
Multiply ==
  /\ mul_take_busy
  /\ gpr' = [gpr EXCEPT ![IF instr_is_mul THEN dec.rn ELSE dec.rd] = result_lo]
  /\ flags' = IF dec.s THEN ProductFlags(~instr_is_mul, product, flags) ELSE flags
  /\ mull_q' = IF mull_take_cycle THEN [mull_q EXCEPT !.rdhi = dec.rn, !.result_hi = result_hi]
               ELSE mull_q
  /\ remaining' = IF dec.accumulate THEN cycle_count + 1 ELSE cycle_count
  /\ mul_active' = (dec.class = "MULL")
  /\ state_q' = "S_MUL_BUSY"
  /\ Decode
  /\ UNCHANGED shift_q

(* UMLAL and SMLAL need a fourth operand: the first cycle latches what the   *)
(* second needs of the instruction, which reads the high accumulator.        *)
MultiplyAccumulate ==
  /\ mull_accum_take_cycle
  /\ mull_q' = [mull_q EXCEPT !.acc_lo = ra_data, !.rdhi = dec.rn, !.rdlo = dec.rd,
                              !.op_a = rb_data, !.op_b = rc_data,
                              !.signed = dec.signed, !.s = dec.s]
  /\ mul_active' = TRUE
  /\ state_q' = "S_MULL_ACC"
  /\ Decode
  /\ UNCHANGED <<gpr, flags, shift_q, remaining>>

AccumulateHigh ==
  /\ state_q = "S_MULL_ACC"
  /\ gpr' = [gpr EXCEPT ![mull_q.rdlo] = result_lo]
  /\ flags' = IF mull_q.s THEN ProductFlags(TRUE, product, flags) ELSE flags
  /\ mull_q' = [mull_q EXCEPT !.result_hi = result_hi]
  /\ remaining' = cycle_count
  /\ state_q' = "S_MUL_BUSY"
  /\ due' = due - 1
  /\ UNCHANGED <<dec, shift_q, mul_active, executed>>

Busy ==
  /\ state_q = "S_MUL_BUSY"
  /\ remaining' = IF remaining = 0 THEN 0 ELSE remaining - 1
  /\ state_q' = IF remaining # 1 THEN "S_MUL_BUSY"
                ELSE IF mul_active THEN "S_MULL_HI" ELSE "S_EXEC"
  /\ due' = due - 1
  /\ UNCHANGED <<gpr, flags, dec, shift_q, mull_q, mul_active, executed>>

WriteHigh ==
  /\ state_q = "S_MULL_HI"
  /\ gpr' = [gpr EXCEPT ![mull_q.rdhi] = mull_q.result_hi]
  /\ state_q' = "S_EXEC"
  /\ due' = due - 1
  /\ UNCHANGED <<flags, dec, shift_q, mull_q, mul_active, remaining, executed>>

UnitNext == \/ Skip \/ DataProcessing \/ ShiftByRegister \/ ShiftCommit \/ Multiply
        \/ MultiplyAccumulate \/ AccumulateHigh \/ Busy \/ WriteHigh

UnitSpec == UnitInit /\ [][UnitNext]_unit_vars

-----------------------------------------------------------------------------
(* Type correctness of the unit's registers.                                 *)
UnitTypeOK ==
  /\ gpr \in [Regs -> Word]
  /\ flags \in Flags
  /\ dec \in Instructions
  /\ state_q \in States
  /\ shift_q \in [rd : Regs, result : Word, flags : Flags, writes : BOOLEAN, flags_we : BOOLEAN]
  /\ mull_q \in [rdhi : Regs, rdlo : Regs, result_hi : Word, acc_lo : Word,
                 op_a : Word, op_b : Word, signed : BOOLEAN, s : BOOLEAN]
  /\ mul_active \in BOOLEAN
  /\ remaining \in 0 .. 5
  /\ executed \in 0 .. MaxInstructions
  /\ due \in 0 .. 6

(* CMP and the condition evaluator together decide what a program means by   *)
(* them: whatever a CMP in Execute compares, the conditions that follow it   *)
(* are the comparisons of the unsigned and the signed values.                *)
Signed(x) == IF x >= Modulus \div 2 THEN x - Modulus ELSE x
CompareDecides ==
  dp_fires /\ dec.op = "CMP" =>
    LET a == ra_data
        b == shifter.result
        Then(cond) == ConditionPass(cond, alu_flags_merged)
    IN /\ Then("EQ") <=> a = b
       /\ Then("NE") <=> a # b
       /\ Then("CS") <=> a >= b
       /\ Then("CC") <=> a < b
       /\ Then("HI") <=> a > b
       /\ Then("LS") <=> a <= b
       /\ Then("GE") <=> Signed(a) >= Signed(b)
       /\ Then("LT") <=> Signed(a) < Signed(b)
       /\ Then("GT") <=> Signed(a) > Signed(b)
       /\ Then("LE") <=> Signed(a) <= Signed(b)

(* The carry chains of double-word arithmetic: an ADD, SUB or RSB in Execute *)
(* that is followed by ADC, SBC or RSC of any two registers adds, subtracts  *)
(* or subtracts in reverse two double words, carry and overflow included.    *)
Chained == [ADD |-> "ADC", SUB |-> "SBC", RSB |-> "RSC"]
DoubleWords ==
  dp_fires /\ dec.op \in DOMAIN Chained =>
    \A r, q \in Regs :
      LET double == Modulus * Modulus
          SignedDouble(d) == IF d >= double \div 2 THEN d - double ELSE d
          Exact(x, y) == CASE dec.op = "ADD" -> x + y
                           [] dec.op = "SUB" -> x - y
                           [] dec.op = "RSB" -> y - x
          x == gpr[r] * Modulus + ra_data
          y == gpr[q] * Modulus + shifter.result
          high == AluResult(Chained[dec.op], gpr[r], gpr[q], alu_flags_merged.c)
          after == AluFlags(Chained[dec.op], gpr[r], gpr[q], alu_flags_merged, 0)
          value == high * Modulus + alu_result
      IN /\ value = Exact(x, y) % double
         /\ (after.c = 1) <=> (IF dec.op = "ADD" THEN x + y >= double ELSE Exact(x, y) >= 0)
         /\ (after.v = 1) <=> (SignedDouble(value) # Exact(SignedDouble(x), SignedDouble(y)))

(* Flags mean what the next instruction takes them for, in a comparison and   *)
(* in a carry chain.                                                         *)
FlagsDecide == CompareDecides /\ DoubleWords

(* Execute is ready for the next instruction exactly when the cycles of the  *)
(* timing table have passed: one, two for a shift by a register, and for a   *)
(* multiplication as many as Rs needs bytes, with the extra ones of the      *)
(* accumulating and the long forms.                                          *)
CyclesExact == (state_q = "S_EXEC") <=> (due = 0)

(* What the registers will hold when the instruction in progress is done.    *)
WillHold ==
  CASE state_q = "S_DP_SHIFT" /\ shift_q.writes -> [gpr EXCEPT ![shift_q.rd] = shift_q.result]
    [] state_q = "S_MULL_ACC" -> [gpr EXCEPT ![mull_q.rdlo] = result_lo, ![mull_q.rdhi] = result_hi]
    [] state_q \in {"S_MUL_BUSY", "S_MULL_HI"} /\ mul_active -> [gpr EXCEPT ![mull_q.rdhi] = mull_q.result_hi]
    [] OTHER -> gpr
FlagsWillBe ==
  CASE state_q = "S_DP_SHIFT" /\ shift_q.flags_we -> shift_q.flags
    [] state_q = "S_MULL_ACC" /\ mull_q.s -> ProductFlags(TRUE, product, flags)
    [] OTHER -> flags

Promise == INSTANCE Arithmetic WITH regs <- WillHold, flags <- FlagsWillBe, instr <- dec

(* Each instruction does to registers and flags what the arithmetic of its   *)
(* operands says, once, whatever Decode delivers while it runs: no latch is  *)
(* stale, no half of a product is lost and no operand is read after it is    *)
(* overwritten.                                                              *)
ArithmeticSpec == Promise!Spec
=============================================================================
