----------------------------- MODULE MCDebugTap -----------------------------
(* Two EmbeddedICE registers of two bits, the second reserved; instructions *)
(* and chain numbers of two bits.                                           *)
EXTENDS DebugTap

Bits2(hi, lo) == [i \in 0 .. 1 |-> IF i = 0 THEN lo ELSE hi]
MCScanN == Bits2(0, 1)
MCRestart == Bits2(0, 0)
MCIntest == Bits2(1, 0)
MCIdcode == Bits2(1, 1)
MCKept == [a \in Vector(1) |-> IF a[0] = 0 THEN {0, 1} ELSE {}]
=============================================================================
