-------------------------- MODULE MCArithmeticUnit --------------------------
(* Three registers of four bits; two instructions, the second one delivered  *)
(* while the first runs, and a third that is decoded and not executed.       *)
EXTENDS ArithmeticUnit

MCRegs == {0, 1, 2}
MCValues == {1, 7, 8}
MCFlags == {[n |-> 0, z |-> 0, c |-> 1, v |-> 1]}

Base == [class |-> "DP", cond |-> "AL", op |-> "MOV", s |-> TRUE, rn |-> 0, rd |-> 2, rm |-> 1,
         rs |-> 0, shift |-> "LSL", amount |-> 0, use_rs |-> FALSE,
         accumulate |-> FALSE, signed |-> FALSE]
Operations == {[Base EXCEPT !.op = o] : o \in AluOps}
Shifts == {[Base EXCEPT !.shift = o[1], !.amount = o[2]]
             : o \in {<<"LSL", 3>>, <<"LSR", 4>>, <<"ASR", 4>>, <<"ROR", 1>>, <<"RRX", 0>>}}
RegisterShifts == {[Base EXCEPT !.shift = h, !.use_rs = TRUE, !.rd = 1] : h \in {"LSL", "LSR", "ASR", "ROR"}}
                    \cup {[Base EXCEPT !.op = o, !.s = (o = "TST"), !.shift = "LSR", !.use_rs = TRUE] : o \in {"SBC", "TST"}}
Short == {[Base EXCEPT !.class = "MUL", !.cond = IF a THEN "EQ" ELSE "AL", !.accumulate = a, !.rn = 1, !.rm = 0, !.rs = r]
            : a \in BOOLEAN, r \in {1, 2}}
Long == {[Base EXCEPT !.class = "MULL", !.s = (a # g), !.accumulate = a, !.signed = g, !.rn = l[1], !.rd = l[2], !.rm = 0, !.rs = 1]
           : a \in BOOLEAN, g \in BOOLEAN, l \in {<<1, 0>>, <<2, 1>>}}
MCInstructions == Operations \cup Shifts \cup RegisterShifts \cup Short \cup Long
=============================================================================
