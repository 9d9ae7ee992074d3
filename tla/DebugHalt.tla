----------------------------- MODULE DebugHalt -----------------------------
(***************************************************************************)
(* Halt-mode debugging: the EmbeddedICE halt machine and scan-instruction  *)
(* engine, and the pipeline they stop, fill and release.  A step is a      *)
(* rising CLK edge; the inputs of the edge are CLKEN, DBGEN, nIRQ, DBGRQ,  *)
(* a data watchpoint hit, and what the debugger's scan does on it.         *)
(*                                                                         *)
(* The program is a loop of positions, each an instruction class; an IRQ   *)
(* handler of one instruction is at Vector.  Data values are left out.     *)
(*                                                                         *)
(* What an empty F/D slot or an unused latch holds is left out; the empty  *)
(* D/E slot keeps its position, which the link of an exception reads.      *)
(*                                                                         *)
(* The memory answers a fetch on the next enabled edge, once: a stopped    *)
(* core is off the bus.                                                    *)
(*                                                                         *)
(* The debugger waits for a scanned instruction to retire before its next  *)
(* scan, and loads the PC after scanning instructions, before RESTART.     *)
(*                                                                         *)
(* History: due and after, where the program should go on, now and after   *)
(* the handler; stray, that it did not; passed, that it ran through a      *)
(* breakpoint; dim, that DBGEN was low since the last refill; stopped, the *)
(* breakpoint that stopped it; ran and scanned, what began to execute;     *)
(* owed, an interrupt was seen with a halt and is not yet entered.         *)
(***************************************************************************)
EXTENDS Integers, FiniteSets

CONSTANTS Kind,          \* instruction class of each position
          Vector,        \* position of the IRQ vector
          Breakable,     \* sets of breakpoints the debugger may choose
          IrqEdges,      \* edges on which nIRQ may be low, see EdgeClass
          FlushesSaved,  \* may the core redirect with a saved fetch waiting?
          StalledHalts,  \* may CLKEN be low while a halt saves the fetch?
          MovesOn,       \* may the debugger change the PC or the
                         \* breakpoints when a breakpoint stopped it?
          DropsBusy      \* may DBGEN fall while a scanned word or a
                         \* retained interrupt waits?

Positions == DOMAIN Kind
Kinds == {"alu", "load", "store", "jump", "return"}
Transfers == {"load", "store"}
EdgeClasses == {"boundary", "bubble", "within"}

ASSUME ProgramAssumption ==
    /\ IsFiniteSet(Positions) /\ Positions = 0 .. Cardinality(Positions) - 1
    /\ Kind \in [Positions -> Kinds] /\ Vector \in Positions
    /\ Breakable \subseteq SUBSET Positions
ASSUME EnvironmentAssumption ==
    /\ IrqEdges \subseteq EdgeClasses
    /\ {FlushesSaved, StalledHalts, MovesOn, DropsBusy} \subseteq BOOLEAN

None == -1
Empty == [pos |-> 0, good |-> TRUE, bp |-> FALSE, injected |-> FALSE, valid |-> FALSE]
NoWord == [active |-> FALSE, accepted |-> FALSE, started |-> FALSE, kind |-> "alu"]
Injected == [Empty EXCEPT !.injected = TRUE, !.valid = TRUE]

VARIABLES fetch_pc, inflight, fd, de,  \* the fetch and pipeline slots
          live,       \* the memory has the answer to inflight on the bus
          saved,      \* halt_response: the fetch that a halt caught
          state, op,  \* Execute substate and its instruction class
          irq_off, lr,  \* CPSR.I, and the handler's return position
          irq_q,      \* debug_irq_pending_q
          refill,     \* debug_exception_refill_q
          dbg_state, halt_pending, exc_wait, bp_halt, bp_resume,
          inj,        \* inject_active, inject_accepted, started, class
          armed, pending, speed,  \* system_speed_*_q
          bps,        \* positions the comparators tag
          dirty,      \* words were scanned since the PC was loaded
          due, after, stray, passed, dim, stopped, ran, scanned, owed

pipe == <<fetch_pc, inflight, fd, de>>
bus == <<live, saved>>
core == <<state, op, irq_off, lr, irq_q, refill>>
ice == <<dbg_state, halt_pending, exc_wait, bp_halt, bp_resume>>
engine == <<inj, armed, pending, speed>>
host == <<bps, dirty>>
history == <<due, after, stray, passed, dim, stopped, ran, scanned, owed>>
vars == <<pipe, bus, core, ice, engine, host, history>>

Init ==
    /\ fetch_pc = 0 /\ inflight = None /\ fd = Empty /\ de = Empty
    /\ live = FALSE /\ saved = Empty
    /\ state = "EXEC" /\ op = "alu" /\ irq_off = FALSE /\ lr = 0
    /\ irq_q = FALSE /\ refill = FALSE
    /\ dbg_state = "RUNNING" /\ halt_pending = FALSE /\ exc_wait = FALSE
    /\ bp_halt = FALSE /\ bp_resume = FALSE
    /\ inj = NoWord
    /\ armed = FALSE /\ pending = FALSE /\ speed = FALSE
    /\ bps \in Breakable /\ dirty = FALSE
    /\ due = 0 /\ after = 0 /\ stray = FALSE /\ passed = FALSE /\ dim = FALSE
    /\ stopped = None /\ ran = "none" /\ scanned = 0 /\ owed = FALSE
-----------------------------------------------------------------------------
(* Combinational signals. in is the record of the edge's inputs:           *)
(*   clken, dbgen, irq, rq, hit, and the debugger's act:                   *)
(*   tap in {"none", "scan", "load", "break", "restart"}, with word        *)
(*   ("alu" or "load"), mark (DBGBREAK), pos and set.                      *)

in_debug_halt == dbg_state = "HALTED"

(* Mutant of inject_we: acceptance does not withdraw the scanned word.     *)
OffersForever == inj.active

inject_we == inj.active /\ ~inj.accepted
executing == state = "EXEC" /\ de.valid /\ ~inject_we
KindOf(slot) == IF slot.injected THEN inj.kind ELSE Kind[slot.pos]
begins == executing /\ KindOf(de) \in Transfers
breakpoint_execute == executing /\ de.bp

state_next ==
    CASE state = "EXEC" -> IF begins THEN "DATA" ELSE "EXEC"
      [] state = "DATA" -> IF op = "store" THEN "EXEC" ELSE "WB"
      [] state = "WB" -> "EXEC"
halt_boundary == state_next = "EXEC"

EdgeClass == CASE ~halt_boundary -> "within"
               [] halt_boundary /\ (state # "EXEC" \/ executing) -> "boundary"
               [] OTHER -> "bubble"

(* nIRQ as the core sees it, unmasked: IFEN closes it in debug state and   *)
(* while an exception entry on the way there is completed.                 *)
Interrupt(in) == in.irq /\ ~irq_off /\ ~(in.dbgen /\ (in_debug_halt \/ exc_wait))

entry_req(in) == in.dbgen /\ (in.hit \/ in.rq)
collision(in) == \/ in.dbgen /\ in.hit
                 \/ dbg_state = "RUNNING" /\ in.dbgen /\ in.rq
                 \/ breakpoint_execute

(* Mutant of exception_pending: only a live request holds debug state off. *)
AsksLive(in) == collision(in) /\ Interrupt(in)

exception_pending(in) == irq_q \/ (collision(in) /\ Interrupt(in))
breakpoint_interrupt(in) == breakpoint_execute /\ Interrupt(in)

(* Mutant of breakpoint_stop: the stop ignores the instruction resumed.    *)
StopsResumed(in) ==
    /\ dbg_state = "RUNNING" /\ in.dbgen /\ breakpoint_execute
    /\ ~breakpoint_interrupt(in)

breakpoint_stop(in) ==
    /\ dbg_state = "RUNNING" /\ in.dbgen /\ breakpoint_execute
    /\ ~breakpoint_interrupt(in) /\ ~bp_resume

(* Mutant of core_halt: a breakpoint stops the core one edge late.         *)
HaltsLate(in) == in.dbgen /\ in_debug_halt /\ ~inj.active

core_halt(in) == in.dbgen /\ (in_debug_halt \/ breakpoint_stop(in)) /\ ~inj.active
core_clken(in) == in.clken /\ ~core_halt(in)

(* Mutant of irq_fires: a retained request must still be on the pin.       *)
AsksAgain(in) == /\ Interrupt(in)
                 /\ EdgeClass = "boundary" \/ (state = "EXEC" /\ irq_q)

(* The retained request needs Execute only; a live one a completed         *)
(* instruction.                                                            *)
irq_fires(in) ==
    \/ EdgeClass = "boundary" /\ Interrupt(in)
    \/ state = "EXEC" /\ irq_q
exception_entry(in) == core_clken(in) /\ irq_fires(in)

redirects == executing /\ ~begins /\ KindOf(de) \in {"jump", "return"}
flush(in) == irq_fires(in) \/ redirects
Target(in) == CASE irq_fires(in) -> Vector
                [] ~irq_fires(in) /\ KindOf(de) = "jump" -> 0
                [] OTHER -> lr

latch_into_fd(in) ==
    /\ core_clken(in) /\ ~inj.active /\ ~flush(in)
    /\ state = "EXEC" /\ inflight # None
vector_ready(in) == refill /\ latch_into_fd(in)

inject_starts == executing /\ de.injected

(* Mutant of inject_retire: the first boundary retires the scanned word.   *)
RetiresEarly(in) == core_clken(in) /\ inj.active /\ halt_boundary

inject_retire(in) == /\ core_clken(in) /\ inj.active
                     /\ (inj.started \/ inject_starts)
                     /\ halt_boundary
-----------------------------------------------------------------------------
(* Core.                                                                   *)

(* The word latched: a saved response stands for the fetch it belongs to,  *)
(* and is a word only if it was sampled on an enabled edge.                *)
Latched(in) ==
    IF saved.valid
    THEN [pos |-> inflight, good |-> saved.good /\ saved.pos = inflight,
          bp |-> saved.bp, injected |-> FALSE, valid |-> TRUE]
    ELSE [pos |-> inflight, good |-> live, bp |-> in.dbgen /\ inflight \in bps,
          injected |-> FALSE, valid |-> TRUE]

Redirected(in) ==
    /\ inflight' = Target(in) /\ fetch_pc' = Target(in) + 1
    /\ fd' = Empty /\ de' = [de EXCEPT !.valid = FALSE]

(* Mutant of Accepted: the instruction in Execute stays.                   *)
AcceptsBehind == fd' = Injected /\ UNCHANGED <<fetch_pc, inflight, de>>

(* A scanned instruction replaces F/D and discards the one in Execute.     *)
Accepted == /\ fd' = Injected /\ de' = [de EXCEPT !.valid = FALSE]
            /\ UNCHANGED <<fetch_pc, inflight>>

issue_fetch == ~inj.active /\ halt_boundary

Advanced(in) ==
    /\ IF issue_fetch
       THEN inflight' = fetch_pc /\ fetch_pc' = fetch_pc + 1
       ELSE inflight' = None /\ UNCHANGED fetch_pc
    /\ fd' = CASE latch_into_fd(in) -> Latched(in)
               [] ~latch_into_fd(in) /\ state = "EXEC" -> Empty
               [] OTHER -> fd
    /\ de' = CASE state = "EXEC" /\ fd.valid -> fd
               [] state = "EXEC" /\ ~fd.valid -> [de EXCEPT !.valid = FALSE]
               [] OTHER -> de

Pipeline(in) ==
    CASE flush(in) -> Redirected(in)
      [] ~flush(in) /\ inject_we -> Accepted
      [] OTHER -> Advanced(in)

(* Mutant of Retains: an interrupt of a halting edge is forgotten.         *)
Forgets(in) == FALSE

Retains(in) == irq_q \/ (collision(in) /\ Interrupt(in))

Core(in) ==
    IF core_clken(in)
    THEN /\ Pipeline(in)
         /\ state' = state_next
         /\ op' = IF begins THEN KindOf(de) ELSE op
         /\ irq_off' = (irq_fires(in) \/ (irq_off /\ ~(redirects /\ KindOf(de) = "return")))
         /\ lr' = IF irq_fires(in) THEN de.pos ELSE lr
         /\ irq_q' = (~irq_fires(in) /\ Retains(in))
         /\ refill' = (irq_fires(in) \/ (refill /\ ~vector_ready(in)))
    ELSE UNCHANGED <<pipe, core>>

(* Mutant of Saves: the response is left on the bus.                       *)
SavesNothing(in) == FALSE

(* The response in flight when the core stops, sampled on the first edge   *)
(* that finds it halted.                                                   *)
Saves(in) == ~saved.valid /\ core_halt(in) /\ inflight # None

HaltResponse(in) ==
    /\ live' = (core_clken(in) \/ (live /\ ~in.clken))
    /\ saved' = CASE Saves(in) -> [pos |-> inflight, good |-> live /\ in.clken,
                                bp |-> in.dbgen /\ inflight \in bps,
                                injected |-> FALSE, valid |-> TRUE]
               [] ~Saves(in) /\ latch_into_fd(in) -> Empty
               [] OTHER -> saved

(* A debug-speed LDM of r15: the pipeline restarts at the position loaded. *)
LoadPc(p) ==
    /\ fetch_pc' = p /\ inflight' = None
    /\ fd' = Empty /\ de' = [de EXCEPT !.valid = FALSE]
    /\ saved' = Empty
    /\ UNCHANGED <<core, live>>
-----------------------------------------------------------------------------
(* EmbeddedICE.                                                            *)

(* At a boundary: debug state, or the exception's vector first.            *)
AtBoundary(in) ==
    /\ halt_pending' = FALSE /\ bp_halt' = FALSE
    /\ IF exception_pending(in) \/ exception_entry(in)
       THEN exc_wait' = TRUE /\ UNCHANGED dbg_state
       ELSE dbg_state' = "HALTED" /\ UNCHANGED exc_wait

Running(in) ==
    CASE ~in.dbgen ->
           /\ halt_pending' = FALSE /\ exc_wait' = FALSE
           /\ bp_halt' = FALSE /\ bp_resume' = FALSE /\ UNCHANGED dbg_state
      [] in.dbgen /\ exc_wait ->
           /\ halt_pending' = FALSE
           /\ IF vector_ready(in)
              THEN dbg_state' = "HALTED" /\ exc_wait' = FALSE /\ bp_halt' = FALSE
              ELSE UNCHANGED <<dbg_state, exc_wait, bp_halt>>
           /\ UNCHANGED bp_resume
      [] in.dbgen /\ ~exc_wait /\ bp_resume /\ breakpoint_execute ->
           /\ bp_resume' = FALSE
           /\ IF entry_req(in) /\ halt_boundary THEN AtBoundary(in)
              ELSE /\ bp_halt' = FALSE
                   /\ halt_pending' = (halt_pending \/ entry_req(in))
                   /\ UNCHANGED <<dbg_state, exc_wait>>
      [] in.dbgen /\ ~exc_wait /\ ~bp_resume /\ breakpoint_execute ->
           /\ halt_pending' = FALSE
           /\ IF breakpoint_interrupt(in)
              THEN exc_wait' = TRUE /\ bp_halt' = FALSE /\ UNCHANGED dbg_state
              ELSE dbg_state' = "HALTED" /\ bp_halt' = TRUE /\ UNCHANGED exc_wait
           /\ UNCHANGED bp_resume
      [] OTHER ->
           /\ IF (halt_pending \/ entry_req(in)) /\ halt_boundary THEN AtBoundary(in)
              ELSE /\ halt_pending' = (halt_pending \/ entry_req(in))
                   /\ UNCHANGED <<dbg_state, exc_wait, bp_halt>>
           /\ UNCHANGED bp_resume

Halted(in) ==
    /\ halt_pending' = FALSE /\ exc_wait' = FALSE
    /\ CASE ~in.dbgen ->
              dbg_state' = "RUNNING" /\ bp_halt' = FALSE /\ bp_resume' = FALSE
         [] in.dbgen /\ in.tap = "restart" /\ ~pending /\ ~speed ->
              dbg_state' = "RUNNING" /\ bp_resume' = bp_halt /\ UNCHANGED bp_halt
         [] OTHER -> UNCHANGED <<dbg_state, bp_halt, bp_resume>>

HaltMachine(in) ==
    CASE ~in.clken -> UNCHANGED ice
      [] in.clken /\ in_debug_halt -> Halted(in)
      [] OTHER -> Running(in)

(* Scanned instructions: a marked word arms the next one, which waits for  *)
(* RESTART and runs at system speed if it is a transfer.                   *)
Activate(kind) == inj' = [active |-> TRUE, accepted |-> FALSE, started |-> FALSE,
                          kind |-> kind]

(* Mutant of Discards: an ordinary exit keeps the mark.                    *)
KeepsMark(in) == FALSE

Discards(in) == in.tap = "restart" /\ in_debug_halt /\ ~pending

Engine(in) ==
    CASE in.tap = "scan" /\ in_debug_halt /\ ~inj.active /\ ~pending ->
           IF armed
           THEN /\ pending' = (in.word \in Transfers) /\ armed' = FALSE
                /\ UNCHANGED <<inj, speed>>
           ELSE Activate(in.word) /\ armed' = in.mark /\ UNCHANGED <<pending, speed>>
      [] in.tap = "restart" /\ in_debug_halt /\ pending /\ ~inj.active ->
           Activate("load") /\ pending' = FALSE /\ speed' = TRUE /\ UNCHANGED armed
      [] in.clken /\ inj.active ->
           /\ inj' = IF inject_retire(in)
                     THEN NoWord
                     ELSE [inj EXCEPT !.accepted = TRUE,
                                      !.started = ~inject_we /\ (@ \/ inject_starts)]
           /\ speed' = (speed /\ ~inject_retire(in))
           /\ UNCHANGED <<armed, pending>>
      [] Discards(in) /\ ~(in.clken /\ inj.active) ->
           armed' = FALSE /\ UNCHANGED <<inj, pending, speed>>
      [] OTHER -> UNCHANGED engine
-----------------------------------------------------------------------------
(* History.                                                                *)
runs(in) == /\ core_clken(in) /\ executing /\ ~de.injected
            /\ (begins \/ ~irq_fires(in))
Successor(p) == CASE Kind[p] = "jump" -> 0
                  [] Kind[p] = "return" -> after
                  [] OTHER -> p + 1
DueNext(in) == IF runs(in) THEN Successor(de.pos) ELSE due

History(in) ==
    /\ due' = CASE in.tap = "load" -> in.pos
                [] in.tap # "load" /\ exception_entry(in) -> Vector
                [] OTHER -> DueNext(in)
    /\ after' = IF exception_entry(in) THEN DueNext(in) ELSE after
    /\ stray' = (stray \/ (runs(in) /\ (de.pos # due \/ ~de.good)))
    /\ passed' = (passed \/ (in.dbgen /\ ~dim /\ runs(in)
                            /\ de.pos \in bps /\ de.pos # stopped))
    /\ dim' = (~in.dbgen \/ (dim /\ in.tap # "load" /\ ~(core_clken(in) /\ flush(in))))
    /\ stopped' = IF runs(in) \/ (in_debug_halt /\ dbg_state' = "RUNNING" /\ due # stopped)
                  THEN None
                  ELSE IF bp_halt' /\ ~bp_halt THEN de.pos ELSE stopped
    /\ ran' = CASE exception_entry(in) -> "irq"
                [] ~exception_entry(in) /\ runs(in) -> "program"
                [] OTHER -> "none"
    /\ scanned' = IF inj'.active /\ ~inj.active THEN 0
                  ELSE IF core_clken(in) /\ inject_starts THEN scanned + 1 ELSE scanned
    /\ owed' = ((owed \/ (core_clken(in) /\ collision(in) /\ Interrupt(in)))
                /\ ~exception_entry(in))

Edge(in) ==
    /\ in.irq => EdgeClass \in IrqEdges /\ ~irq_off /\ (FlushesSaved \/ ~saved.valid)
    /\ in.hit => state = "DATA"
    /\ ~in.clken => (StalledHalts \/ ~Saves(in))
    /\ in.dbgen \/ DropsBusy \/ ~(armed \/ pending \/ inj.active \/ dirty \/ irq_q)
    /\ IF in.tap = "load" THEN LoadPc(in.pos) ELSE Core(in) /\ HaltResponse(in)
    /\ HaltMachine(in) /\ Engine(in) /\ History(in)

Quiet == [clken |-> TRUE, dbgen |-> TRUE, irq |-> FALSE, rq |-> FALSE, hit |-> FALSE,
          tap |-> "none", word |-> "alu", mark |-> FALSE, pos |-> 0]

(* The core runs, or waits for the debugger.                               *)
Clock == \E clken, irq, rq, hit \in BOOLEAN :
    /\ Edge([Quiet EXCEPT !.clken = clken, !.irq = irq, !.rq = rq, !.hit = hit])
    /\ UNCHANGED host

(* The instruction in Execute will not redirect a saved fetch.             *)
Resumable == FlushesSaved \/ ~((saved.valid \/ inflight # None) /\ redirects)

(* DBGEN low for an edge.                                                  *)
Disabled == \E clken, irq \in BOOLEAN :
    /\ Resumable
    /\ Edge([Quiet EXCEPT !.clken = clken, !.irq = irq, !.dbgen = FALSE])
    /\ UNCHANGED host

CanScan == in_debug_halt /\ ~inj.active

(* Nothing of the program is left in the pipeline: the PC was loaded.      *)
Drained == ~fd.valid /\ ~de.valid /\ inflight = None

(* An instruction scanned into chain 1.                                    *)
Scan == \E clken, mark \in BOOLEAN, word \in {"alu", "load"} :
    /\ CanScan /\ ~pending
    /\ mark => ~armed
    /\ word \in Transfers => armed
    /\ Edge([Quiet EXCEPT !.clken = clken, !.tap = "scan", !.word = word, !.mark = mark])
    /\ dirty' = (dirty \/ ~Drained) /\ UNCHANGED bps

(* The debugger loads the PC.                                              *)
ScanPc == \E clken \in BOOLEAN, p \in Positions :
    /\ CanScan /\ ~pending /\ ~armed
    /\ p = due \/ ((MovesOn \/ ~bp_halt) /\ p \in {0} \cup bps)
    /\ Edge([Quiet EXCEPT !.clken = clken, !.tap = "load", !.pos = p])
    /\ dirty' = FALSE /\ UNCHANGED bps

Restart == \E clken \in BOOLEAN :
    /\ CanScan /\ (pending \/ (~dirty /\ Resumable))
    /\ Edge([Quiet EXCEPT !.clken = clken, !.tap = "restart"])
    /\ UNCHANGED host

(* Comparators are reprogrammed while halted; the debugger then loads the  *)
(* PC, so that what was fetched before is fetched again.                   *)
SetBreakpoints == \E set \in Breakable :
    /\ CanScan /\ ~pending /\ ~armed /\ (MovesOn \/ ~bp_halt)
    /\ Edge(Quiet)
    /\ bps' = set /\ dirty' = TRUE

Next == Clock \/ Restart \/ Scan \/ ScanPc \/ SetBreakpoints \/ Disabled

(* CLKEN is high again and again, and the debugger and the inputs let the  *)
(* core be.                                                                *)
Ticks == \E irq, rq, hit \in BOOLEAN :
    /\ Edge([Quiet EXCEPT !.irq = irq, !.rq = rq, !.hit = hit])
    /\ UNCHANGED host

Spec == Init /\ [][Next]_vars
FairSpec == Spec /\ WF_vars(Ticks)
-----------------------------------------------------------------------------
Addresses == 0 .. Cardinality(Positions) + 3
Slots == [pos : Addresses, good : BOOLEAN, bp : BOOLEAN, injected : BOOLEAN,
          valid : BOOLEAN]

(* Types of the registers; a tagged or scanned slot is never a saved one.  *)
TypeOK ==
    /\ fetch_pc \in Addresses /\ inflight \in Addresses \cup {None}
    /\ {fd, de, saved} \subseteq Slots /\ ~saved.injected
    /\ state \in {"EXEC", "DATA", "WB"} /\ op \in Kinds
    /\ dbg_state \in {"RUNNING", "HALTED"}
    /\ {irq_off, irq_q, refill, halt_pending, exc_wait, bp_halt, bp_resume,
        armed, pending, speed, dirty, live} \subseteq BOOLEAN
    /\ inj \in [active : BOOLEAN, accepted : BOOLEAN, started : BOOLEAN, kind : Kinds]
    /\ lr \in Addresses /\ bps \in Breakable

(* The program goes on where it should, through halts, scanned             *)
(* instructions, interrupts and resumes: each instruction it executes is   *)
(* the one due, fetched from its address (halt_response_*, LR, de_q).      *)
ExecutesInOrder == ~stray

(* A breakpointed instruction does not execute before it has stopped the   *)
(* core, however it was fetched (tags in fd_q, de_q, halt_response_tag_q,  *)
(* breakpoint_stop, breakpoint_resume_q).                                  *)
BreakpointStops == ~passed

(* In debug state nothing of the program executes and no exception is      *)
(* entered, also while the core is released for a scanned instruction      *)
(* (core_halt, dbg_inject_we, ifen); and a scanned instruction that the    *)
(* engine reports retired was executed, and once (inject_accepted_q,       *)
(* dbg_inject_started_q).                                                  *)
DebugStateHolds ==
    /\ [][dbg_state = "HALTED" /\ dbg_state' = "HALTED"
            => ran' \notin {"program", "irq"}]_vars
    /\ [][inj.active /\ ~inj'.active => scanned' = 1]_vars

(* Nothing crosses the border between the program and a debug session: no  *)
(* marked, waiting or active scanned word is left when the core runs       *)
(* (system_speed_*_q), and an interrupt seen with a halting instruction is *)
(* taken before debug state, where it would meet a scanned instruction in  *)
(* Execute (debug_irq_pending_q, halt_exception_wait_q).                   *)
SessionEnds ==
    /\ dbg_state = "RUNNING" => ~armed /\ ~pending /\ ~inj.active
    /\ dbg_state = "HALTED" => ~owed

(* A halt that waits for an exception's vector ends in debug state         *)
(* (halt_exception_wait_q), unless DBGEN falls.  With a breakpoint on the  *)
(* next instruction it does not: breakpoint_stop holds the core.           *)
ExceptionHalts == exc_wait ~> ~exc_wait

(* The two waits of the debug logic end: that for a vector, no breakpoint  *)
(* set, and that for a scanned instruction to retire.                      *)
WaitsEnd == ((exc_wait /\ bps = {}) ~> ~exc_wait) /\ (inj.active ~> ~inj.active)
=============================================================================
