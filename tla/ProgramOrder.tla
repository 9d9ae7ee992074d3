---------------------------- MODULE ProgramOrder ----------------------------
(***************************************************************************)
(* What the pipeline promises: instructions execute one at a time, each at *)
(* the address the previous one left, and an exception is taken between    *)
(* them with a link from which the program can be resumed exactly.         *)
(*                                                                         *)
(* pc      address of the first instruction that has not executed          *)
(* thumb   the instruction set it is executed in                           *)
(* open    the instruction in progress: its address and class, or Nothing  *)
(* label   what the last step did: an instruction class, an exception, a   *)
(*         redirect, or nothing; to is the address a jump went to and link *)
(*         the value an exception entry left in the banked r14.            *)
(*                                                                         *)
(* Addresses count halfwords and wrap modulo NPC.                          *)
(***************************************************************************)
EXTENDS Integers

CONSTANTS NPC,        \* number of halfword addresses
          Vector,     \* exception vector of each event
          Plain,      \* classes that finish in the step that starts them
          Jumps,      \* the plain classes that write the PC
          Long,       \* classes that stay open for later steps
          LongJumps   \* the long classes that may write the PC when they finish

VARIABLES pc, thumb, open, label

vars == <<pc, thumb, open, label>>

PC == 0 .. NPC - 1
Nothing == [pc |-> 0, kind |-> "nothing"]
Quiet == [what |-> "none", to |-> 0, link |-> 0]
Plus(a, n) == (a + n) % NPC
Width(t) == IF t THEN 1 ELSE 2

(* The exception-link table: 4 bytes past the next instruction for an      *)
(* interrupt or a prefetch abort, 8 past the transfer for a data abort,    *)
(* the following instruction for SWI and Undefined.                        *)
LinkOf(e) ==
    CASE e \in {"irq", "fiq", "pabt"} -> Plus(pc, 2)
      [] e = "dabt" -> Plus(open.pc, 4)
      [] OTHER -> Plus(pc, Width(thumb))

Init == pc = 0 /\ thumb = FALSE /\ open = Nothing /\ label = Quiet

(* One instruction starts. Only the next one can, and only between         *)
(* instructions.                                                           *)
Execute(k) ==
    /\ open = Nothing
    /\ label' = [what |-> k, to |-> IF k \in Jumps THEN pc' ELSE 0, link |-> 0]
    /\ IF k \in Jumps
       THEN pc' \in PC /\ thumb' \in BOOLEAN
       ELSE pc' = Plus(pc, Width(thumb)) /\ UNCHANGED thumb
    /\ open' = IF k \in Long THEN [pc |-> pc, kind |-> k] ELSE Nothing

(* The open instruction writes the PC.                                     *)
Redirect ==
    /\ open.kind \in LongJumps
    /\ pc' \in PC /\ thumb' \in BOOLEAN
    /\ open' \in {open, Nothing}
    /\ label' = [what |-> "redirect", to |-> pc', link |-> 0]

Exception(e) ==
    /\ pc' = Vector[e] /\ thumb' = FALSE /\ open' = Nothing
    /\ e = "dabt" => open # Nothing
    /\ label' = [what |-> e, to |-> Vector[e], link |-> LinkOf(e)]

(* A step in which the pipeline refills or the open instruction goes on or *)
(* ends.                                                                   *)
Internal ==
    /\ label' = Quiet
    /\ open' \in {open, Nothing}
    /\ UNCHANGED <<pc, thumb>>

Next == \/ \E k \in Plain \cup Long : Execute(k)
        \/ \E e \in DOMAIN Vector : Exception(e)
        \/ Redirect \/ Internal

Spec == Init /\ [][Next]_vars
=============================================================================
