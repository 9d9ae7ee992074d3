---------------------------- MODULE CorePipeline ----------------------------
(***************************************************************************)
(* Control of the three-stage ARM7TDMI-S core: the fetch slot in flight,   *)
(* F, D, the execute substates, redirects, the exception selector, the one *)
(* register write port and the save-state restart address.  A step is a    *)
(* rising CLK edge on which CLKEN is high; an edge with CLKEN low changes  *)
(* nothing and is a stutter.                                               *)
(*                                                                         *)
(* Addresses count halfwords and wrap modulo NPC.  An instruction is its   *)
(* class, drawn when Execute first reads it; so is the ABORT tag of its    *)
(* fetch.  Data values are left out: what an edge writes is a set of       *)
(* items, "rd", "base", "lo", ..., each paired with the register bank.     *)
(*                                                                         *)
(* owed and stray are history: the writes that the instructions begun so   *)
(* far still have to make, and whether a write was made that none of them  *)
(* asked for.  label records what the last edge did.                       *)
(***************************************************************************)
EXTENDS Integers, FiniteSets

CONSTANTS NPC,          \* number of halfword addresses
          Vector,       \* exception vector of each event
          Kinds,        \* instruction classes the program may contain
          IrqStates,    \* substates in which nIRQ/nFIQ may be low
          FiqWithAbort, \* may nFIQ be low on the edge of a failed response or
                        \* of the Data Abort entry it causes?
          AbortedKinds, \* classes the word of a failed fetch may decode to
          VectorKinds,  \* classes placed at the Data Abort vector
          PsrModes,     \* modes that MSR and exception returns select
          MaxMul        \* longest multiplier countdown

Events == {"dabt", "fiq", "irq", "pabt", "undef", "swi"}
Modes == {"abt", "fiq", "irq", "und", "svc"}
PC == 0 .. NPC - 1

Jumps     == {"jump", "return"}
Single    == {"alu", "msr"} \cup Jumps
Transfers == {"load", "loadpc", "store"}
Blocks    == {"ldm", "ldmpc", "ldmret", "stm"}
Shifts    == {"shift", "shiftpc"}
Muls      == {"mul", "mull", "mlal"}
CpKinds   == {"cdp", "mcr", "mrc", "ldc", "stc"}
AllKinds  == Single \cup Transfers \cup Blocks \cup Shifts \cup Muls
             \cup CpKinds \cup {"swp", "swi", "undef"}
States == {"EXEC", "DDATA", "LOAD_WB", "BLOCK_DATA", "BLOCK_WB", "SWP_RDATA",
           "SWP_WDATA", "SWP_WB", "MULL_ACC", "MUL_BUSY", "MULL_HI", "DP_SHIFT",
           "CP_WAIT", "CP_MCR_DATA", "CP_MRC_DATA", "CP_MRC_WB", "UNDEF_WAIT"}

ASSUME SizeAssumption == NPC \in Nat /\ NPC % 2 = 0 /\ NPC > 4
ASSUME VectorAssumption == Vector \in [Events -> {p \in PC : p % 2 = 0}]
ASSUME EnvironmentAssumption ==
    /\ Kinds \subseteq AllKinds /\ AbortedKinds \subseteq Kinds
    /\ VectorKinds \subseteq Kinds
    /\ IrqStates \subseteq States /\ FiqWithAbort \in BOOLEAN
    /\ PsrModes \subseteq Modes /\ MaxMul \in Nat \ {0}

VARIABLES fetch_pc,  \* next address to fetch
          inflight,  \* fetch whose word arrives this cycle
          fd, de,    \* the F/D and D/E slots
          state,     \* state_q
          op,        \* latches of the multicycle instruction in progress
          psr,       \* CPSR: T, I, F and the mode
          dabort,    \* data_abort_q
          fiqHeld, fiqDelay,  \* the DABT+FIQ interlock
          resume,    \* state_resume_pc_q
          halted,    \* the wrapper holds the core after STATE_CAPTURE
          label, owed, stray

pipe == <<fetch_pc, inflight, fd, de>>
interlock == <<fiqHeld, fiqDelay>>
history == <<label, owed, stray>>
vars == <<pipe, state, op, psr, dabort, interlock, resume, halted, history>>

(* Mutant of Plus: the address adder does not wrap.                        *)
PlusWide(a, n) == a + n

(* 32-bit address arithmetic, modulo the address space.                    *)
Plus(a, n) == (a + n) % NPC
Width(thumb) == IF thumb THEN 1 ELSE 2
Aligned(thumb) == {p \in PC : thumb \/ p % 2 = 0}

Bubble == [pc |-> 0, thumb |-> FALSE, valid |-> FALSE]
Slot(a, thumb) == [pc |-> a, thumb |-> thumb, valid |-> TRUE]
NoOp == [kind |-> "nothing", pc |-> 0, thumb |-> FALSE, left |-> 0, mode |-> "svc"]
Lost == NPC   \* label.link when r14 was not written
Quiet == [what |-> "none", to |-> 0, link |-> 0]
ModeOf == [dabt |-> "abt", fiq |-> "fiq", irq |-> "irq",
           pabt |-> "abt", undef |-> "und", swi |-> "svc"]

Init ==
    /\ fetch_pc = 0 /\ inflight = Bubble /\ fd = Bubble /\ de = Bubble
    /\ state = "EXEC" /\ op = NoOp
    /\ psr = [t |-> FALSE, i |-> TRUE, f |-> TRUE, mode |-> "svc"]
    /\ dabort = FALSE /\ fiqHeld = FALSE /\ fiqDelay = 0
    /\ resume = 0 /\ halted = FALSE
    /\ label = Quiet /\ owed = {} /\ stray = FALSE
-----------------------------------------------------------------------------
(* Selection of an exception on an edge that leads to substate nx.         *)

InterlockFires == fiqHeld /\ fiqDelay = 0 /\ state = "EXEC"

(* Mutants of Boundary: interrupts sampled in every substate, and on       *)
(* bubbles.                                                                *)
SamplesAlways(nx) == state # "EXEC" \/ de.valid
SamplesBubbles(nx) == nx = "EXEC"

Boundary(nx) == nx = "EXEC" /\ (state # "EXEC" \/ de.valid)

(* Mutant of DabtFires: only the live response is looked at.               *)
DabtLiveOnly(nx, ab) == ab /\ nx = "EXEC" /\ state # "EXEC"

DabtFires(nx, ab) == (dabort \/ ab) /\ nx = "EXEC" /\ state # "EXEC"
FiqFires(nx, fiq) == (Boundary(nx) /\ fiq /\ ~psr.f /\ ~fiqHeld) \/ InterlockFires

Event(nx, ab, irq, fiq, sync) ==
    CASE DabtFires(nx, ab) -> "dabt"
      [] ~DabtFires(nx, ab) /\ FiqFires(nx, fiq) -> "fiq"
      [] ~DabtFires(nx, ab) /\ ~FiqFires(nx, fiq) /\ Boundary(nx) /\ irq /\ ~psr.i -> "irq"
      [] OTHER -> sync

ExceptionLR(e) ==
    CASE InterlockFires -> Plus(Vector["dabt"], 2)
      [] ~InterlockFires /\ e = "dabt" -> Plus(op.pc, 4)
      [] ~InterlockFires /\ e # "dabt" /\ state = "CP_WAIT" -> Plus(op.pc, 2)
      [] e = "undef" -> Plus(op.pc, Width(op.thumb))
      [] e = "swi" -> Plus(de.pc, Width(de.thumb))
      [] OTHER -> Plus(de.pc, 2)

(* The E stage hands an edge over as a record:                             *)
(*   nx    next substate              ab    a data response failed         *)
(*   sync  PABT/UNDEF/SWI requested   to, t  redirect, if jump             *)
(*   early the redirect also issues the first fetch of its target          *)
(*   psr   CPSR if no exception is taken                                   *)
(*   high  register write that outranks the exception link                 *)
(*   low   register write that the exception link outranks                 *)
(*   mem   memory writes              owes  writes this instruction owes   *)
(*   did   what label shows           fetches  whether a fetch may issue   *)
Edge0 == [nx |-> "EXEC", ab |-> FALSE, sync |-> "none", jump |-> FALSE, to |-> 0,
          early |-> TRUE, psr |-> psr, high |-> {}, low |-> {}, mem |-> {},
          owes |-> {}, did |-> "none", fetches |-> TRUE]

(* Mutant of TargetThumb: the live CPSR.T sizes the first fetch of a       *)
(* target.                                                                 *)
LiveThumb(x, vectors) == psr.t

(* Instruction set of a redirect's target.                                 *)
TargetThumb(x, vectors) == IF vectors THEN FALSE ELSE x.psr.t

(* F and D. A redirect empties both; otherwise D takes F's word, F takes   *)
(* the word in flight and, if the edge leads back to EXEC, a fetch issues. *)
Advance(x, event) ==
    LET flush   == x.jump \/ event # "none"
        load    == state = "LOAD_WB" /\ x.jump
        vectors == event # "none" /\ ~load
        target  == IF vectors THEN Vector[event] ELSE x.to
        thumb   == TargetThumb(x, vectors)
        early   == vectors \/ x.early
        issue   == x.fetches /\ x.nx = "EXEC"
    IN IF flush
       THEN /\ inflight' = IF early THEN Slot(target, thumb) ELSE Bubble
            /\ fetch_pc' = IF early THEN Plus(target, Width(thumb)) ELSE target
            /\ fd' = Bubble
            /\ de' = [de EXCEPT !.valid = FALSE]
       ELSE /\ inflight' = IF issue THEN Slot(fetch_pc, psr.t) ELSE Bubble
            /\ fetch_pc' = IF issue THEN Plus(fetch_pc, Width(psr.t)) ELSE fetch_pc
            /\ IF state # "EXEC" THEN UNCHANGED <<fd, de>>
               ELSE /\ fd' = IF inflight.valid THEN Slot(inflight.pc, psr.t) ELSE Bubble
                    /\ de' = IF fd.valid THEN fd ELSE [de EXCEPT !.valid = FALSE]

(* Mutant of Bank: block_mode_q is not kept.                               *)
LiveBank(event) == IF event # "none" THEN ModeOf[event] ELSE psr.mode

(* The register bank the write port is steered to.                         *)
Bank(event) == IF event # "none" THEN ModeOf[event]
               ELSE IF state = "BLOCK_WB" THEN op.mode ELSE psr.mode

(* The one write port: high, then the link, then low.                      *)
Commit(x, event) ==
    LET port   == IF x.high # {} THEN x.high
                  ELSE IF event # "none" THEN {} ELSE x.low
        wrote  == {<<w, Bank(event)>> : w \in port} \cup {<<m, "bus">> : m \in x.mem}
        begun  == IF event # "none" THEN {} ELSE x.owes
        due    == owed \cup begun
    IN /\ owed' = IF event = "dabt" THEN {w \in due \ wrote : w[1] = "base"}
                                    ELSE due \ wrote
       /\ stray' = (stray \/ ~(wrote \subseteq due))
       /\ label' = IF event = "none"
                   THEN [what |-> x.did, to |-> IF x.jump THEN x.to ELSE 0, link |-> 0]
                   ELSE [what |-> event,
                         to |-> IF state = "LOAD_WB" /\ x.jump THEN x.to ELSE Vector[event],
                         link |-> IF x.high = {} THEN ExceptionLR(event) ELSE Lost]

(* Mutant of FiqDelay: the count of the entry cycles never runs down.      *)
FiqDelayStuck(reload) == IF reload THEN 3 ELSE fiqDelay

(* The three cycles of the Data Abort entry that precede the retained FIQ. *)
FiqDelay(reload) == IF reload THEN 3
                    ELSE IF fiqHeld /\ fiqDelay # 0 THEN fiqDelay - 1 ELSE fiqDelay

Interlock(x, event, fiq) ==
    LET low == fiq /\ ~psr.f
    IN IF InterlockFires
       THEN fiqHeld' = FALSE /\ fiqDelay' = 0
       ELSE /\ fiqHeld' = (fiqHeld \/ ((x.ab \/ event = "dabt") /\ low))
            /\ fiqDelay' = FiqDelay(event = "dabt" /\ (fiqHeld \/ low))

(* Mutant of ResumePC: F is taken for the successor of a multicycle        *)
(* instruction too.                                                        *)
ResumeFromFetch(x, event) ==
    CASE x.jump \/ event # "none" ->
            IF event # "none" /\ ~(state = "LOAD_WB" /\ x.jump) THEN Vector[event] ELSE x.to
      [] OTHER -> IF fd.valid THEN fd.pc
                  ELSE IF inflight.valid THEN inflight.pc ELSE fetch_pc

(* STATE_CAPTURE on a boundary edge records where to start again.          *)
ResumePC(x, event) ==
    CASE x.jump \/ event # "none" ->
            IF event # "none" /\ ~(state = "LOAD_WB" /\ x.jump) THEN Vector[event] ELSE x.to
      [] ~x.jump /\ event = "none" /\ state # "EXEC" /\ de.valid -> de.pc
      [] OTHER -> IF fd.valid THEN fd.pc
                  ELSE IF inflight.valid THEN inflight.pc ELSE fetch_pc

Capture(x, event) ==
    \/ UNCHANGED <<halted, resume>>
    \/ x.nx = "EXEC" /\ halted' = TRUE /\ resume' = ResumePC(x, event)

Edge(x, irq, fiq) ==
    LET event == Event(x.nx, x.ab, irq, fiq, x.sync)
    IN /\ ~halted
       /\ irq \/ fiq => state \in IrqStates
       /\ fiq /\ (x.ab \/ event = "dabt") => FiqWithAbort
       /\ Advance(x, event) /\ Commit(x, event) /\ Interlock(x, event, fiq)
       /\ Capture(x, event)
       /\ state' = x.nx
       /\ psr' = IF event = "none" THEN x.psr
                 ELSE [t |-> FALSE, i |-> TRUE, f |-> psr.f \/ event = "fiq",
                       mode |-> ModeOf[event]]
       /\ dabort' = (state # "EXEC" /\ (dabort \/ x.ab))

Settle(x) == \E irq, fiq \in BOOLEAN : Edge(x, irq, fiq)
-----------------------------------------------------------------------------
(* EXEC: the substate, the immediate write and the debts of each class.    *)

CpData(k) == CASE k \in {"mcr", "stc"} -> "CP_MCR_DATA"
               [] k \in {"mrc", "ldc"} -> "CP_MRC_DATA"
               [] OTHER -> "EXEC"

FirstSubstate(k) ==
    CASE k \in Transfers -> "DDATA"       [] k \in Blocks -> "BLOCK_DATA"
      [] k = "swp" -> "SWP_RDATA"         [] k = "mlal" -> "MULL_ACC"
      [] k \in {"mul", "mull"} -> "MUL_BUSY" [] k \in Shifts -> "DP_SHIFT"
      [] k \in CpKinds -> CpData(k)       [] OTHER -> "EXEC"

ImmediateWrite(k) == CASE k \in {"alu", "mul"} -> {"rd"}
                       [] k = "mull" -> {"lo"}
                       [] k \in Transfers \cup {"stm"} -> {"base"}
                       [] OTHER -> {}

Owes(k) ==
    LET regs == CASE k \in {"alu", "mul", "shift", "swp", "mrc"} -> {"rd"}
                  [] k \in {"mull", "mlal"} -> {"lo", "hi"}
                  [] k = "load" -> {"base", "rd"}     [] k = "loadpc" -> {"base", "pc"}
                  [] k = "ldm" -> {"base", "r2", "r1"}
                  [] k \in {"ldmpc", "ldmret"} -> {"base", "r2", "pc"}
                  [] k \in {"store", "stm", "ldc", "stc"} -> {"base"}
                  [] OTHER -> {}
        bus == CASE k \in {"store", "swp"} -> {"m1"} [] k = "stm" -> {"m2", "m1"} [] OTHER -> {}
    IN {<<w, psr.mode>> : w \in regs} \cup {<<m, "bus">> : m \in bus}

Psrs == [t : {psr.t}, i : BOOLEAN, f : BOOLEAN, mode : PsrModes]
Restored == [t : BOOLEAN, i : BOOLEAN, f : BOOLEAN, mode : PsrModes]

(* CPSR and target of a class that changes them in EXEC.                   *)
PsrAfter(k) == CASE k = "msr" -> Psrs
                 [] k = "jump" -> {[psr EXCEPT !.t = b] : b \in BOOLEAN}
                 [] k = "return" -> Restored
                 [] OTHER -> {psr}

Execute ==
    /\ state = "EXEC" /\ de.valid
    /\ \E k \in Kinds, failed \in BOOLEAN, irq, fiq \in BOOLEAN :
       \E cp \in IF k \in CpKinds THEN {"ready", "busy", "absent"} ELSE {"ready"},
          p \in PsrAfter(k) :
       \E to \in IF k \in Jumps THEN Aligned(p.t) ELSE {0},
          n \in IF k \in {"mul", "mull"} THEN 1 .. MaxMul ELSE {2} :
          LET undef == k = "undef" \/ cp = "absent"
              recognised == /\ undef /\ ~failed /\ ~InterlockFires
                            /\ ~(fiq /\ ~psr.f) /\ ~(irq /\ ~psr.i)
              nx == CASE undef -> IF recognised THEN "UNDEF_WAIT" ELSE "EXEC"
                      [] ~undef /\ cp = "busy" -> "CP_WAIT"
                      [] OTHER -> FirstSubstate(k)
              begins == ~undef /\ cp = "ready"
              x == [Edge0 EXCEPT !.nx = nx,
                       !.sync = IF failed THEN "pabt" ELSE IF k = "swi" THEN "swi" ELSE "none",
                       !.jump = k \in Jumps, !.to = to, !.psr = p,
                       !.low = IF begins THEN ImmediateWrite(k) ELSE {},
                       !.owes = IF begins THEN Owes(k) ELSE {},
                       !.did = IF begins THEN k ELSE "none"]
          IN /\ failed => k \in AbortedKinds
             /\ de.pc = Vector["dabt"] => k \in VectorKinds
             /\ op' = IF nx = "EXEC" THEN NoOp
                      ELSE [kind |-> k, pc |-> de.pc, thumb |-> de.thumb, left |-> n, mode |-> psr.mode]
             /\ Edge(x, irq, fiq)

(* A bubble in Execute.                                                    *)
Refill ==
    /\ state = "EXEC" /\ ~de.valid
    /\ UNCHANGED op
    /\ Settle(Edge0)
-----------------------------------------------------------------------------
(* The multicycle substates.                                               *)

Leaves(nx) == op' = IF nx = "EXEC" THEN NoOp ELSE op

DataResponse ==
    /\ state = "DDATA"
    /\ \E ab \in BOOLEAN :
          LET nx == IF op.kind = "store" THEN "EXEC" ELSE "LOAD_WB"
          IN /\ Leaves(nx)
             /\ Settle([Edge0 EXCEPT !.nx = nx, !.ab = ab,
                          !.mem = IF op.kind = "store" /\ ~ab THEN {"m1"} ELSE {}])

LoadWriteback ==
    /\ state = "LOAD_WB"
    /\ Leaves("EXEC")
    /\ \E to \in IF op.kind = "loadpc" THEN Aligned(psr.t) ELSE {0} :
          LET jump == op.kind = "loadpc" /\ ~dabort
              dest == IF op.kind = "loadpc" THEN {"pc"} ELSE {"rd"}
          IN Settle([Edge0 EXCEPT !.jump = jump, !.to = to,
                        !.did = IF jump THEN "redirect" ELSE "none",
                        !.high = IF dabort THEN {} ELSE dest])

(* One beat of LDM/STM. The last beat of a failed LDM restores the base;   *)
(* if the list held the PC two refill cycles are still waited.             *)
BlockBeat ==
    /\ state = "BLOCK_DATA"
    /\ \E ab \in BOOLEAN :
       \E p \in IF op.kind = "ldmret" /\ op.left = 1 THEN Restored ELSE {psr} :
       \E to \in IF op.left = 1 /\ op.kind \in {"ldmpc", "ldmret"} THEN Aligned(p.t) ELSE {0} :
          LET loads  == op.kind # "stm"
              failed == dabort \/ ab
              haspc  == op.kind \in {"ldmpc", "ldmret"}
              last   == op.left = 1
              jump   == last /\ haspc /\ ~failed
              nx     == IF ~last THEN "BLOCK_DATA" ELSE IF loads THEN "BLOCK_WB" ELSE "EXEC"
              item   == IF ~last THEN "r2" ELSE IF haspc THEN "pc" ELSE "r1"
          IN /\ op' = IF nx = "EXEC" THEN NoOp
                      ELSE [op EXCEPT !.left = IF ~last THEN 1
                                               ELSE IF haspc /\ failed THEN 2 ELSE 0]
             /\ Settle([Edge0 EXCEPT !.nx = nx, !.ab = ab, !.jump = jump, !.to = to,
                          !.early = FALSE, !.psr = IF jump THEN p ELSE psr,
                          !.did = IF jump THEN "redirect" ELSE "none",
                          !.high = CASE loads /\ ~failed -> {item}
                                     [] loads /\ failed /\ last -> {"base"}
                                     [] OTHER -> {},
                          !.mem = IF loads \/ ab THEN {} ELSE {IF last THEN "m1" ELSE "m2"}])

BlockWriteback ==
    /\ state = "BLOCK_WB"
    /\ LET nx == IF op.left # 0 THEN "BLOCK_WB" ELSE "EXEC"
       IN /\ op' = IF nx = "EXEC" THEN NoOp ELSE [op EXCEPT !.left = @ - 1]
          /\ Settle([Edge0 EXCEPT !.nx = nx, !.low = IF dabort THEN {} ELSE {"base"}])

(* The locked read and write of SWP. A failed read ends the sequence.      *)
Swap ==
    \/ /\ state = "SWP_RDATA"
       /\ \E ab \in BOOLEAN :
             LET nx == IF ab THEN "EXEC" ELSE "SWP_WDATA"
             IN Leaves(nx) /\ Settle([Edge0 EXCEPT !.nx = nx, !.ab = ab])
    \/ /\ state = "SWP_WDATA"
       /\ UNCHANGED op
       /\ \E ab \in BOOLEAN :
             Settle([Edge0 EXCEPT !.nx = "SWP_WB", !.ab = ab,
                        !.mem = IF ab THEN {} ELSE {"m1"}])
    \/ /\ state = "SWP_WB"
       /\ Leaves("EXEC")
       /\ Settle([Edge0 EXCEPT !.high = IF dabort THEN {} ELSE {"rd"}])

Multiply ==
    \/ /\ state = "MULL_ACC"
       /\ \E n \in 1 .. MaxMul : op' = [op EXCEPT !.left = n]
       /\ Settle([Edge0 EXCEPT !.nx = "MUL_BUSY", !.low = {"lo"}])
    \/ /\ state = "MUL_BUSY"
       /\ LET nx == IF op.left # 1 THEN "MUL_BUSY"
                    ELSE IF op.kind = "mul" THEN "EXEC" ELSE "MULL_HI"
          IN /\ op' = IF nx = "EXEC" THEN NoOp ELSE [op EXCEPT !.left = @ - 1]
             /\ Settle([Edge0 EXCEPT !.nx = nx])
    \/ /\ state = "MULL_HI"
       /\ Leaves("EXEC")
       /\ Settle([Edge0 EXCEPT !.low = {"hi"}])

(* A register-controlled shift commits one cycle later.                    *)
ShiftCommit ==
    /\ state = "DP_SHIFT"
    /\ Leaves("EXEC")
    /\ \E p \in IF op.kind = "shiftpc" THEN Restored \cup {psr} ELSE {psr} :
       \E to \in IF op.kind = "shiftpc" THEN Aligned(p.t) ELSE {0} :
          LET jump == op.kind = "shiftpc"
          IN Settle([Edge0 EXCEPT !.jump = jump, !.to = to, !.psr = p,
                        !.did = IF jump THEN "redirect" ELSE "none",
                        !.low = IF jump THEN {} ELSE {"rd"}])

(* A busy coprocessor. An unmasked interrupt abandons the wait even if the *)
(* coprocessor answers on the same edge.                                   *)
CoprocessorWait ==
    /\ state = "CP_WAIT"
    /\ \E irq, fiq, ready \in BOOLEAN :
          LET abandoned == (fiq /\ ~psr.f) \/ (irq /\ ~psr.i)
              begins == ready /\ ~abandoned
              nx == IF abandoned THEN "EXEC"
                    ELSE IF ready THEN CpData(op.kind) ELSE "CP_WAIT"
          IN /\ Leaves(nx)
             /\ Edge([Edge0 EXCEPT !.nx = nx, !.owes = IF begins THEN Owes(op.kind) ELSE {},
                         !.did = IF begins THEN op.kind ELSE "none"], irq, fiq)

(* Data cycles of MCR/MRC and of LDC/STC. op.left is 2 in the first data   *)
(* cycle (cp_ls_first_q); the response of a word comes one cycle later.    *)
CoprocessorData ==
    /\ state \in {"CP_MCR_DATA", "CP_MRC_DATA"}
    /\ \E final \in BOOLEAN, ab \in BOOLEAN :
          LET words == op.kind \in {"ldc", "stc"}
              nx == CASE op.kind = "mcr" -> "EXEC"
                      [] op.kind = "mrc" -> "CP_MRC_WB"
                      [] OTHER -> IF final THEN "CP_MRC_WB" ELSE state
          IN /\ ab => words /\ op.left # 2
             /\ op' = IF nx = "EXEC" THEN NoOp ELSE [op EXCEPT !.left = 1]
             /\ Settle([Edge0 EXCEPT !.nx = nx, !.ab = ab, !.fetches = ~words,
                           !.high = IF words /\ op.left = 2 THEN {"base"} ELSE {}])

CoprocessorEnd ==
    /\ state = "CP_MRC_WB"
    /\ Leaves("EXEC")
    /\ \E ab \in BOOLEAN :
          /\ ab => op.kind \in {"ldc", "stc"}
          /\ Settle([Edge0 EXCEPT !.ab = ab, !.high = IF op.kind = "mrc" THEN {"rd"} ELSE {}])

UndefinedTrap ==
    /\ state = "UNDEF_WAIT"
    /\ Leaves("EXEC")
    /\ Settle([Edge0 EXCEPT !.sync = "undef"])

(* STATE_RESUME: the pipeline and its pending events are discarded.        *)
Resume ==
    /\ halted
    /\ halted' = FALSE
    /\ fetch_pc' = resume /\ inflight' = Bubble /\ fd' = Bubble /\ de' = Bubble
    /\ state' = "EXEC" /\ op' = NoOp /\ dabort' = FALSE
    /\ fiqHeld' = FALSE /\ fiqDelay' = 0
    /\ label' = Quiet
    /\ resume' = 0   \* not read before the next capture; keeps the state small
    /\ UNCHANGED <<psr, owed, stray>>

Next == \/ Execute \/ Refill \/ DataResponse \/ LoadWriteback \/ BlockBeat
        \/ BlockWriteback \/ Swap \/ Multiply \/ ShiftCommit \/ CoprocessorWait
        \/ CoprocessorData \/ CoprocessorEnd \/ UndefinedTrap \/ Resume

Spec == Init /\ [][Next]_vars
-----------------------------------------------------------------------------
SlotType == [pc : PC, thumb : BOOLEAN, valid : BOOLEAN]

(* Type invariant of the pipeline registers and latches.                   *)
TypeOK ==
    /\ fetch_pc \in PC /\ inflight \in SlotType /\ fd \in SlotType /\ de \in SlotType
    /\ state \in States
    /\ op \in [kind : AllKinds \cup {"nothing"}, pc : PC, thumb : BOOLEAN,
               left : Nat, mode : Modes]
    /\ psr \in [t : BOOLEAN, i : BOOLEAN, f : BOOLEAN, mode : Modes]
    /\ dabort \in BOOLEAN /\ fiqHeld \in BOOLEAN /\ fiqDelay \in 0 .. 3
    /\ resume \in PC /\ halted \in BOOLEAN

(* The first instruction that has not executed: a trapped or waiting one   *)
(* in E, else the oldest slot that still holds one.                        *)
NextPC == IF state \in {"UNDEF_WAIT", "CP_WAIT"} THEN op.pc
          ELSE IF de.valid THEN de.pc
          ELSE IF fd.valid THEN fd.pc
          ELSE IF inflight.valid THEN inflight.pc ELSE fetch_pc

InProgress == IF state \in {"EXEC", "UNDEF_WAIT", "CP_WAIT"}
              THEN [pc |-> 0, kind |-> "nothing"]
              ELSE [pc |-> op.pc, kind |-> op.kind]

Order == INSTANCE ProgramOrder WITH
            pc <- NextPC, thumb <- psr.t, open <- InProgress,
            Plain <- Single \cup {"cdp"}, Jumps <- Jumps,
            Long <- AllKinds \ (Single \cup {"cdp", "swi", "undef"}),
            LongJumps <- {"loadpc", "ldmpc", "ldmret", "shiftpc"}

(* The pipeline executes the program in order: nothing is skipped, nothing *)
(* is executed twice, every exception vectors and saves the link of the    *)
(* first unexecuted (or faulting) instruction, across flushes, multicycle  *)
(* substates, coprocessor waits and save-state halts.                      *)
OrderSpec == Order!Spec

(* No write that shares its edge with another one is lost.  Back in EXEC,  *)
(* no instruction has a register or memory write left to do: "every        *)
(* instruction class returns to S_EXEC only after its final architectural  *)
(* effect"; and an exception entry leaves the link in the banked r14,      *)
(* whatever else wants the write port (docs/EXCEPTIONS.md, step 1).        *)
NothingLost ==
    /\ state = "EXEC" => owed = {}
    /\ label.what \in Events => label.link # Lost

(* No register or memory write is made that no executed instruction asked  *)
(* for, and each lands in the bank of the mode that issued it.             *)
NothingStray == ~stray

(* docs/EXCEPTIONS.md, entry sequence step 7: an exception entry continues *)
(* at its vector.                                                          *)
VectorTaken == label.what \in Events => label.to = Vector[label.what]

(* The link of an interrupt is 4 bytes past the first instruction that has *)
(* not executed, so that SUBS pc,lr,#4 resumes the program exactly.        *)
InterruptLink ==
    [][label' # label /\ label'.what \in {"irq", "fiq"}
          => label'.link \in {Plus(NextPC, 2), Lost}]_vars

(* An instruction recognised as Undefined is trapped, or an interrupt      *)
(* taken instead links back to it.                                         *)
UndefinedPrecise ==
    [][state = "UNDEF_WAIT" => label'.what = "undef" \/ label'.link = Plus(op.pc, 2)]_vars

(* The FIQ kept by the DABT+FIQ interlock is entered before anything runs  *)
(* at the abort vector: "the untouched Abort vector".                      *)
AbortVectorUntouched == ~halted /\ InterlockFires => NextPC = Vector["dabt"]

(* A FIQ retained by the interlock is dropped only by entering FIQ.        *)
HeldFiqKept == [][fiqHeld /\ ~fiqHeld' => label'.what = "fiq"]_vars

(* The restart word of a save state names the first instruction that has   *)
(* not executed, on every boundary a snapshot can be taken.                *)
ResumeExact == halted => resume = NextPC /\ owed = {}

(* CLKEN keeps coming back, and the host lets a halted core go.            *)
FairSpec == Spec /\ WF_vars(Next)

(* A retained FIQ is entered, whatever the lines do meanwhile, unless a    *)
(* save state is taken first.                                              *)
HeldFiqServed == fiqHeld ~> (label.what = "fiq" \/ halted)
=============================================================================
