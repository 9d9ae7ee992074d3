------------------------------ MODULE Datapath ------------------------------
(* The combinational blocks of Execute: barrel shifter, ALU, multiplier and  *)
(* condition evaluator (src/rtl/datapath, src/rtl/decode/..._condition.sv).  *)
(*                                                                           *)
(* A word is a number of WordSize bits, 32 in the code. The constants of the *)
(* code that stand for the word size (a shift by 32, bit 31) are WordSize    *)
(* here; a byte of the early-terminating multiplier is a quarter of a word.  *)
(* Flags are numbers 0 and 1, as on the wires.                               *)
EXTENDS Integers, FiniteSetsExt

CONSTANTS WordSize,     \* bits of a word: 32 in the code
          AmountBits    \* bits of a register that hold a shift amount: 8

ASSUME WordSizeAssumption == /\ WordSize \in Nat /\ WordSize >= 4 /\ WordSize % 4 = 0
                             /\ AmountBits \in 1..WordSize

(* Powers of two, as far as a word needs them.                               *)
Power[i \in 0 .. WordSize] == IF i = 0 THEN 1 ELSE 2 * Power[i - 1]

Modulus == Power[WordSize]
Word == 0 .. Modulus - 1
Ones == Modulus - 1
Flag == {0, 1}
Bit(x, i) == (x \div Power[i]) % 2
Top(x) == Bit(x, WordSize - 1)

ShiftOps == {"LSL", "LSR", "ASR", "ROR", "RRX"}

(* result and carry_out of the shifter. A shift by 0 passes both through;    *)
(* RRX ignores the amount.                                                   *)
Shifter(op, amount, x, carry_in) ==
  LET Out(result, carry) == [result |-> result, carry |-> carry]
      turn == amount % WordSize
      left == (WordSize - turn) % WordSize
  IN CASE op = "RRX" -> Out(carry_in * Power[WordSize - 1] + x \div 2, Bit(x, 0))
       [] op # "RRX" /\ amount = 0 -> Out(x, carry_in)
       [] op = "LSL" /\ amount \in 1 .. WordSize - 1 -> Out((x * Power[amount]) % Modulus, Bit(x, left))
       [] op = "LSL" /\ amount = WordSize -> Out(0, Bit(x, 0))
       [] op = "LSR" /\ amount \in 1 .. WordSize - 1 -> Out(x \div Power[amount], Bit(x, amount - 1))
       [] op = "LSR" /\ amount = WordSize -> Out(0, Top(x))
       [] op \in {"LSL", "LSR"} /\ amount > WordSize -> Out(0, 0)
       [] op = "ASR" /\ amount \in 1 .. WordSize - 1 ->
            Out(x \div Power[amount] + Top(x) * (Modulus - Power[WordSize - amount]), Bit(x, amount - 1))
       [] op = "ASR" /\ amount >= WordSize -> Out(Top(x) * Ones, Top(x))
       [] op = "ROR" /\ amount > 0 /\ turn = 0 -> Out(x, Top(x))
       [] op = "ROR" /\ turn # 0 -> Out((x \div Power[turn]) + ((x * Power[left]) % Modulus), Bit(x, turn - 1))

BitsOf(x) == {i \in 0 .. WordSize - 1 : Bit(x, i) = 1}
WordOf(bits) ==
  LET low[n \in 0 .. WordSize] ==
        IF n = 0 THEN 0 ELSE low[n - 1] + (IF n - 1 \in bits THEN Power[n - 1] ELSE 0)
  IN low[WordSize]

Subtracts == {"SUB", "RSB", "SBC", "RSC", "CMP"}
UsesCarry == {"ADC", "SBC", "RSC"}
Reversed == {"RSB", "RSC"}
Arithmetics == Subtracts \cup UsesCarry \cup {"ADD", "CMN"}
Tests == {"TST", "TEQ", "CMP", "CMN"}
AluOps == Arithmetics \cup {"AND", "EOR", "TST", "TEQ", "ORR", "MOV", "BIC", "MVN"}

(* The 33-bit adder: operands swapped for the reversed forms, the second one *)
(* complemented for the subtractions, and the carry selected.                *)
AdderA(op, a, b) == IF op \in Reversed THEN b ELSE a
AdderB(op, a, b) ==
  LET raw == IF op \in Reversed THEN a ELSE b IN IF op \in Subtracts THEN Ones - raw ELSE raw
SubtractsWhole(op, c) == IF op \in Subtracts THEN 1 ELSE IF op \in UsesCarry THEN c ELSE 0
AdderCarry(op, c) == IF op \in UsesCarry THEN c ELSE IF op \in Subtracts THEN 1 ELSE 0
SumExt(op, a, b, c) == AdderA(op, a, b) + AdderB(op, a, b) + AdderCarry(op, c)

AluResult(op, a, b, c) ==
  CASE op \in Arithmetics -> SumExt(op, a, b, c) % Modulus
    [] op \in {"AND", "TST"} -> WordOf(BitsOf(a) \cap BitsOf(b))
    [] op \in {"EOR", "TEQ"} -> WordOf((BitsOf(a) \cup BitsOf(b)) \ (BitsOf(a) \cap BitsOf(b)))
    [] op = "ORR" -> WordOf(BitsOf(a) \cup BitsOf(b))
    [] op = "BIC" -> WordOf(BitsOf(a) \ BitsOf(b))
    [] op = "MOV" -> b
    [] op = "MVN" -> Ones - b

SignAgainstCarry(op, a, b, c) ==
  LET sum == SumExt(op, a, b, c) IN (sum \div Modulus + Top(sum)) % 2
(* V: the carry out of the top bit against the carry into it, which the code *)
(* recovers from the three top bits.                                         *)
Overflow(op, a, b, c) ==
  LET sum == SumExt(op, a, b, c)
      carry_into_msb == (Top(sum) + Top(AdderA(op, a, b)) + Top(AdderB(op, a, b))) % 2
  IN (sum \div Modulus + carry_into_msb) % 2

(* alu_flags_merged: what CPSR's flags become when the instruction sets them.*)
(* A logical operation takes C from the shifter and preserves V.             *)
AluFlags(op, a, b, flags, shifter_carry) ==
  LET result == AluResult(op, a, b, flags.c)
  IN [n |-> Top(result),
      z |-> IF result = 0 THEN 1 ELSE 0,
      c |-> IF op \in Arithmetics THEN SumExt(op, a, b, flags.c) \div Modulus ELSE shifter_carry,
      v |-> IF op \in Arithmetics THEN Overflow(op, a, b, flags.c) ELSE flags.v]

(* A multiplier operand as a double word, and the sum of product and         *)
(* accumulator, a double word too. MUL and MLA are not signed.               *)
Extended(x, signed) == IF signed THEN x + Top(x) * (Modulus * Modulus - Modulus) ELSE x
Product(signed, a, b, accumulator) ==
  (Extended(a, signed) * Extended(b, signed) + accumulator) % (Modulus * Modulus)

(* N and Z of a product, over one word or two; C and V are preserved.        *)
ProductFlags(long, product, flags) ==
  [flags EXCEPT !.n = IF long THEN Top(product \div Modulus) ELSE Top(product),
                !.z = IF (IF long THEN product ELSE product % Modulus) = 0 THEN 1 ELSE 0]

ZerosOnly(rs) ==
  Min({k \in 1 .. 3 : rs \div Power[k * (WordSize \div 4)] = 0} \cup {4})
(* cycle_count, the parameter m: how many bytes of Rs are multiplied before  *)
(* what is left of it is all zeros or all ones.                              *)
CycleCount(rs) ==
  LET Left(k) == rs \div Power[k * (WordSize \div 4)]
      AllOnes(k) == Power[(4 - k) * (WordSize \div 4)] - 1
  IN Min({k \in 1 .. 3 : Left(k) \in {0, AllOnes(k)}} \cup {4})

Conditions == {"EQ", "NE", "CS", "CC", "MI", "PL", "VS", "VC",
               "HI", "LS", "GE", "LT", "GT", "LE", "AL", "NV"}
ConditionPass(cond, f) ==
  CASE cond = "EQ" -> f.z = 1
    [] cond = "NE" -> f.z = 0
    [] cond = "CS" -> f.c = 1
    [] cond = "CC" -> f.c = 0
    [] cond = "MI" -> f.n = 1
    [] cond = "PL" -> f.n = 0
    [] cond = "VS" -> f.v = 1
    [] cond = "VC" -> f.v = 0
    [] cond = "HI" -> f.c = 1 /\ f.z = 0
    [] cond = "LS" -> f.c = 0 \/ f.z = 1
    [] cond = "GE" -> f.n = f.v
    [] cond = "LT" -> f.n # f.v
    [] cond = "GT" -> f.z = 0 /\ f.n = f.v
    [] cond = "LE" -> f.z = 1 \/ f.n # f.v
    [] cond = "AL" -> TRUE
    [] cond = "NV" -> FALSE
=============================================================================
