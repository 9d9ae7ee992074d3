-------------------------------- MODULE Psr --------------------------------
(***************************************************************************)
(* CPSR and the banked SPSRs: MSR with its field masks, exception entry    *)
(* and return, BX, and the save-state words 31 to 36.                      *)
(*                                                                         *)
(* A step is an enabled edge: the instruction in Execute makes at most one *)
(* request, and an exception may be taken on the same edge.  NZCV are one  *)
(* field; the reserved bits, which no path writes, are left out.           *)
(***************************************************************************)
CONSTANTS Banked,       \* modes that have an SPSR
          Unbanked,     \* User and System
          Events,       \* exceptions that are taken
          Words,        \* operands of MSR and words of a saved image
          MsrWithEntry  \* may MSR SPSR share its edge with an entry to its mode?

VARIABLES cpsr, spsr,
          ready,  \* the save-state host holds the core
          saved   \* per mode, the CPSR its last entry found, or NoWord

vars == <<cpsr, spsr, ready, saved>>

Modes == Banked \cup Unbanked
Psrs(modes) == [flags : {0, 1}, i : BOOLEAN, f : BOOLEAN, t : BOOLEAN, m : modes]

(* A reset SPSR is zero, which is no mode.                                 *)
Zero == [flags |-> 0, i |-> FALSE, f |-> FALSE, t |-> FALSE, m |-> "invalid"]
NoWord == [Zero EXCEPT !.m = "unknown"]
ModeOf == [dabt |-> "abt", fiq |-> "fiq", irq |-> "irq",
           pabt |-> "abt", undef |-> "und", swi |-> "svc"]

ASSUME ModesAssumption ==
    /\ Banked \subseteq {"fiq", "irq", "svc", "abt", "und"} /\ "svc" \in Banked
    /\ Unbanked \subseteq {"usr", "sys"}
ASSUME EventsAssumption ==
    \A e \in Events : e \in DOMAIN ModeOf /\ ModeOf[e] \in Banked
ASSUME WordsAssumption == Words \subseteq Psrs(Modes \cup {"invalid"})
ASSUME MsrAssumption == MsrWithEntry \in BOOLEAN

Init ==
    /\ cpsr = [Zero EXCEPT !.i = TRUE, !.f = TRUE, !.m = "svc"]
    /\ spsr = [m \in Banked |-> Zero]
    /\ ready = FALSE
    /\ saved = [m \in Banked |-> NoWord]
-----------------------------------------------------------------------------
NoRequest == [kind |-> "none"]
Msrs == [kind : {"cpsr", "spsr"}, c : BOOLEAN, f : BOOLEAN, word : Words]
Requests == {NoRequest, [kind |-> "restore"]} \cup [kind : {"bx"}, t : BOOLEAN]
                \cup [kind : {"flags"}, value : {0, 1}] \cup Msrs

(* The old word under a field mask. An invalid mode rejects the control    *)
(* byte; the T bit is written only where the caller allows it.             *)
Masked(old, c, f, word, allow_t) ==
    LET control == c /\ word.m \in Modes
    IN [flags |-> IF f THEN word.flags ELSE old.flags,
        i |-> IF control THEN word.i ELSE old.i,
        f |-> IF control THEN word.f ELSE old.f,
        t |-> IF control /\ allow_t THEN word.t ELSE old.t,
        m |-> IF control THEN word.m ELSE old.m]

(* Mutant of MsrCpsr: User mode may write the control byte.                *)
MsrUnprivileged(q) == Masked(cpsr, q.c, q.f, q.word, FALSE)

MsrCpsr(q) == Masked(cpsr, q.c /\ cpsr.m # "usr", q.f, q.word, FALSE)

(* The SPSR of the current mode; User and System read zero.                *)
CurrentSpsr == IF cpsr.m \in Banked THEN spsr[cpsr.m] ELSE Zero

(* Mutant of Restored: the return does not look at the mode it restores.   *)
RestoredBlindly == CurrentSpsr

(* An exception return is ignored if the SPSR is absent or has no mode.    *)
Restored == IF CurrentSpsr.m \in Modes THEN CurrentSpsr ELSE cpsr

(* CPSR on exception entry.                                                *)
Entered(e) == [cpsr EXCEPT !.i = TRUE, !.t = FALSE, !.f = @ \/ e = "fiq", !.m = ModeOf[e]]

(* CPSR after a request with no exception.                                 *)
Requested(q) ==
    CASE q.kind = "cpsr"    -> MsrCpsr(q)
      [] q.kind = "flags"   -> [cpsr EXCEPT !.flags = q.value]
      [] q.kind = "restore" -> Restored
      [] q.kind = "bx"      -> [cpsr EXCEPT !.t = q.t]
      [] OTHER              -> cpsr

Enters(e, m) == e # "none" /\ m = ModeOf[e]

(* Mutant of SavesCpsr: the link status is the CPSR after the request.     *)
SavesRequested(q) == Requested(q)

(* What an entry puts into its SPSR: the CPSR before the edge, for the     *)
(* interrupted instruction runs again.                                     *)
SavesCpsr(q) == cpsr

(* The SPSRs after an edge. The MSR is the later assignment: it wins.      *)
SpsrAfter(e, q) ==
    [m \in Banked |->
        IF q.kind = "spsr" /\ m = cpsr.m THEN Masked(spsr[m], q.c, q.f, q.word, TRUE)
        ELSE IF Enters(e, m) THEN SavesCpsr(q)
        ELSE spsr[m]]

(* Interrupts look at their masks. SWI and Undefined are the instruction   *)
(* in Execute; a data abort comes after it.                                *)
Taken(e, q) ==
    \/ e = "irq" /\ ~cpsr.i
    \/ e = "fiq" /\ ~cpsr.f
    \/ e = "pabt"
    \/ e \in {"swi", "undef", "dabt"} /\ q = NoRequest

Edge(e, q) ==
    /\ ~ready
    /\ e # "none" => Taken(e, q)
    /\ q.kind = "spsr" /\ Enters(e, cpsr.m) => MsrWithEntry
    /\ cpsr' = IF e # "none" THEN Entered(e) ELSE Requested(q)
    /\ spsr' = SpsrAfter(e, q)
    /\ saved' = [m \in Banked |-> IF Enters(e, m) THEN cpsr
                                  ELSE IF q.kind = "spsr" /\ m = cpsr.m THEN NoWord
                                  ELSE saved[m]]
    /\ UNCHANGED ready

(* The host takes and releases the core between instructions.              *)
Host == ready' = ~ready /\ UNCHANGED <<cpsr, spsr, saved>>

(* It imports a word of an image it exported before.                       *)
ImportCpsr(w) == /\ ready /\ w.m \in Modes
                 /\ cpsr' = w /\ UNCHANGED <<spsr, ready, saved>>
ImportSpsr(m, w) == /\ ready
                    /\ spsr' = [spsr EXCEPT ![m] = w]
                    /\ saved' = [saved EXCEPT ![m] = NoWord]
                    /\ UNCHANGED <<cpsr, ready>>

Next == \/ \E e \in Events \cup {"none"}, q \in Requests : Edge(e, q)
        \/ Host
        \/ \E w \in Words : ImportCpsr(w)
        \/ \E m \in Banked, w \in Words : ImportSpsr(m, w)

Spec == Init /\ [][Next]_vars
-----------------------------------------------------------------------------
(* Type invariant.                                                         *)
TypeOK ==
    /\ cpsr \in Psrs(Modes \cup {"invalid"})
    /\ spsr \in [Banked -> Psrs(Modes \cup {"invalid"})]
    /\ saved \in [Banked -> Psrs(Modes \cup {"unknown"})]
    /\ ready \in BOOLEAN

(* docs/PSR.md, Invalid modes: no MSR, no return from a reset SPSR and no  *)
(* exception leaves a mode in CPSR for which there is no register bank.    *)
LegalMode == cpsr.m \in Modes

(* docs/EXCEPTIONS.md, Entry sequence: until a handler writes its SPSR, it *)
(* holds the status of the program it interrupted, however modes nest.     *)
SavedContext == \A m \in Banked : saved[m] # NoWord => spsr[m] = saved[m]

(* docs/PSR.md, Privilege: a User program changes neither I nor F, and the *)
(* only way out of User mode is an exception, with User's CPSR in an SPSR  *)
(* and interrupts masked.                                                  *)
UserConfined ==
    [][~ready /\ cpsr.m = "usr" =>
         \/ cpsr'.m = "usr" /\ cpsr'.i = cpsr.i /\ cpsr'.f = cpsr.f
         \/ cpsr'.m \in Banked /\ spsr'[cpsr'.m] = cpsr /\ cpsr'.i /\ ~cpsr'.t]_vars
=============================================================================
