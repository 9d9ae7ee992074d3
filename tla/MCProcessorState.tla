-------------------------- MODULE MCProcessorState --------------------------
EXTENDS ProcessorState

Word(m, i) == [flags |-> 0, i |-> i, f |-> FALSE, t |-> FALSE, m |-> m]

(* Operands with FIQ enabled, one of them of no mode.                      *)
MCWords == {Word("usr", FALSE), Word("fiq", FALSE), Word("invalid", FALSE)}

(* Control bytes and returns: flags and T choose no bank.                  *)
MCAsked == {NoRequest, [kind |-> "restore"]}
             \cup {q \in Msrs : q.c /\ ~q.f}
=============================================================================
