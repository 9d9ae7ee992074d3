----------------------------- MODULE Arithmetic -----------------------------
(* What the arithmetic instructions promise, in terms of numbers and not of  *)
(* adders, latches and cycles: each takes effect at once. A word stands for  *)
(* an unsigned number or, in two's complement, for a signed one; carry and   *)
(* overflow say that the exact result is not representable as either; a      *)
(* shift by n is n shifts by one.                                            *)
EXTENDS Integers

CONSTANTS Regs, WordSize, AmountBits, Instructions

VARIABLES regs,     \* value of each register
          flags,    \* [n, z, c, v]
          instr     \* the next instruction

vars == <<regs, flags, instr>>

Power[i \in 0 .. WordSize] == IF i = 0 THEN 1 ELSE 2 * Power[i - 1]
Modulus == Power[WordSize]
Signed(x) == IF 2 * x >= Modulus THEN x - Modulus ELSE x
Unsigned(x) == x % Modulus
Bit(x, i) == (x \div Power[i]) % 2
One(condition) == IF condition THEN 1 ELSE 0

(* One step of a shift: the word moves by a bit and the bit that leaves it   *)
(* is the carry.                                                             *)
ShiftByOne(op, s) ==
  LET top == Bit(s.result, WordSize - 1)
      low == s.result % 2
      enters == CASE op = "LSR" -> 0 [] op = "ASR" -> top [] op = "ROR" -> low [] op = "RRX" -> s.carry
  IN IF op = "LSL"
       THEN [result |-> Unsigned(2 * s.result), carry |-> top]
       ELSE [result |-> s.result \div 2 + enters * (Modulus \div 2), carry |-> low]

Shifted(op, amount, x, carry) ==
  LET after[n \in 0 .. amount] ==
        IF n = 0 THEN [result |-> x, carry |-> carry] ELSE ShiftByOne(op, after[n - 1])
  IN after[amount]

(* The exact value of an operation on two numbers, before it is cut to a     *)
(* word. Subtraction with carry takes one less when carry is clear.          *)
Exact(op, a, b, carry) ==
  CASE op \in {"ADD", "CMN"} -> a + b
    [] op = "ADC" -> a + b + carry
    [] op \in {"SUB", "CMP"} -> a - b
    [] op = "SBC" -> a - b - (1 - carry)
    [] op = "RSB" -> b - a
    [] op = "RSC" -> b - a - (1 - carry)

Adds == {"ADD", "CMN", "ADC"}
Subtracts == {"SUB", "CMP", "SBC", "RSB", "RSC"}

(* A logical operation is one on each pair of bits.                          *)
Logical(op, x, y) ==
  CASE op \in {"AND", "TST"} -> One(x = 1 /\ y = 1)
    [] op \in {"EOR", "TEQ"} -> One(x # y)
    [] op = "ORR" -> One(x = 1 \/ y = 1)
    [] op = "BIC" -> One(x = 1 /\ y = 0)
    [] op = "MOV" -> y
    [] op = "MVN" -> 1 - y

Result(op, a, b, carry) ==
  IF op \in Adds \cup Subtracts
    THEN Unsigned(Exact(op, a, b, carry))
    ELSE CHOOSE word \in 0 .. Modulus - 1 :
           \A i \in 0 .. WordSize - 1 : Bit(word, i) = Logical(op, Bit(a, i), Bit(b, i))

(* Carry is set by an addition whose exact result is too large and by a      *)
(* subtraction that does not borrow; overflow when the signed result is not  *)
(* representable.                                                            *)
Flags(op, a, b, f, shift_carry) ==
  LET result == Result(op, a, b, f.c)
      exact == Exact(op, a, b, f.c)
  IN [n |-> One(Signed(result) < 0),
      z |-> One(result = 0),
      c |-> CASE op \in Adds -> One(exact >= Modulus)
              [] op \in Subtracts -> One(exact >= 0)
              [] OTHER -> shift_carry,
      v |-> IF op \in Adds \cup Subtracts
              THEN One(Signed(result) # Exact(op, Signed(a), Signed(b), f.c))
              ELSE f.v]

DataProcessing(i) ==
  LET amount == IF i.shift = "RRX" THEN 1
                ELSE IF i.use_rs THEN regs[i.rs] % Power[AmountBits] ELSE i.amount
      shift == Shifted(i.shift, amount, regs[i.rm], flags.c)
  IN /\ regs' = IF i.op \in {"TST", "TEQ", "CMP", "CMN"} THEN regs
                ELSE [regs EXCEPT ![i.rd] = Result(i.op, regs[i.rn], shift.result, flags.c)]
     /\ flags' = IF i.s THEN Flags(i.op, regs[i.rn], shift.result, flags, shift.carry) ELSE flags

(* rn names the destination (its high word in a long form), rd the           *)
(* accumulator (the low word in a long form): the encoding's fields.         *)
Multiply(i) ==
  LET long == i.class = "MULL"
      Value(x) == IF i.signed THEN Signed(x) ELSE x
      added == CASE ~i.accumulate -> 0
                 [] i.accumulate /\ ~long -> regs[i.rd]
                 [] i.accumulate /\ long -> regs[i.rn] * Modulus + regs[i.rd]
      exact == Value(regs[i.rm]) * Value(regs[i.rs]) + added
      kept == exact % (IF long THEN Modulus * Modulus ELSE Modulus)
  IN /\ regs' = IF long THEN [regs EXCEPT ![i.rd] = kept % Modulus, ![i.rn] = kept \div Modulus]
                ELSE [regs EXCEPT ![i.rn] = kept]
     /\ flags' = IF i.s THEN [flags EXCEPT !.z = One(kept = 0),
                                           !.n = One(2 * kept >= IF long THEN Modulus * Modulus ELSE Modulus)]
                 ELSE flags

(* The conditions come in pairs of a relation and its opposite.              *)
Relation(cond) ==
  CASE cond \in {"EQ", "NE"} -> flags.z = 1
    [] cond \in {"CS", "CC"} -> flags.c = 1
    [] cond \in {"MI", "PL"} -> flags.n = 1
    [] cond \in {"VS", "VC"} -> flags.v = 1
    [] cond \in {"HI", "LS"} -> flags.c = 1 /\ flags.z = 0
    [] cond \in {"GE", "LT"} -> flags.n = flags.v
    [] cond \in {"GT", "LE"} -> flags.n = flags.v /\ flags.z = 0
    [] cond \in {"AL", "NV"} -> TRUE
Opposites == {"NE", "CC", "PL", "VC", "LS", "LT", "LE", "NV"}
Passes(i) == Relation(i.cond) <=> i.cond \notin Opposites

Init ==
  /\ regs \in [Regs -> 0 .. Modulus - 1]
  /\ flags \in [n : {0, 1}, z : {0, 1}, c : {0, 1}, v : {0, 1}]
  /\ instr \in Instructions

Step ==
  /\ instr' \in Instructions
  /\ CASE ~Passes(instr) -> UNCHANGED <<regs, flags>>
       [] Passes(instr) /\ instr.class = "DP" -> DataProcessing(instr)
       [] Passes(instr) /\ instr.class # "DP" -> Multiply(instr)

Spec == Init /\ [][Step]_vars
=============================================================================
