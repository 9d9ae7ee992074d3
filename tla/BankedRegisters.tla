-------------------------- MODULE BankedRegisters --------------------------
(***************************************************************************)
(* The registers r0 to r14 as the ARM architecture names them: User and    *)
(* System share all, FIQ has its own r8 to r14, the other exception modes  *)
(* their own r13 and r14.  A write names a register through a mode, or     *)
(* through the User bank; a word of a saved image names one by its place   *)
(* in the schema.  Each changes the register of that name and no other.    *)
(***************************************************************************)
EXTENDS Integers, Sequences

CONSTANTS RegNums, Modes, Values,
          Schema  \* the registers in the order of the save-state image

VARIABLES file, request

Bank(r, m) == IF r <= 7 \/ (r <= 12 /\ m # "fiq") \/ m = "sys" THEN "usr" ELSE m
Name(r, m) == <<r, Bank(r, m)>>
Names == {Name(r, m) : r \in RegNums, m \in Modes}

Nothing == [kind |-> "nothing"]

Target(q) == IF q.kind = "import" THEN Schema[q.index]
             ELSE Name(q.reg, IF q.user THEN "usr" ELSE q.mode)

Cleared == \E v \in Values : file = [n \in Names |-> v]

Init == Cleared /\ request = Nothing

Next == \/ /\ request'.kind \in {"write", "import"} /\ request'.value \in Values
           /\ Target(request') \in DOMAIN file
           /\ file' = [file EXCEPT ![Target(request')] = request'.value]
        \/ request' = Nothing /\ (UNCHANGED file \/ Cleared')

Spec == Init /\ [][Next]_<<file, request>>
=============================================================================
