----------------------------- MODULE IceRtProofs -----------------------------
(***************************************************************************)
(* The two parts of EmbeddedICE-RT that share no state: the halt machine   *)
(* with the pipeline it stops, fills and releases, and the watchpoint      *)
(* units.                                                                  *)
(*                                                                         *)
(* The halt machine keeps the program in order because, whatever the       *)
(* debugger does, the slots hold a stretch of the program that begins with *)
(* the instruction due (Stream), the fetch a halt saves is the one in      *)
(* flight (SavedIsFetch), a scanned instruction has a drained pipeline to  *)
(* itself (Phases), and a retained interrupt waits at an instruction that  *)
(* can be interrupted (Retained).  A step stands still, moves a scanned    *)
(* instruction, moves the program, or loads the PC; each part of the       *)
(* invariant is proved kept over these four.                               *)
(*                                                                         *)
(* The verdicts of the watchpoint units hold for every width,              *)
(* configuration and program, when the debugger writes WP1's control value *)
(* last.  The watch pipeline holds the transfer on the bus, masked         *)
(* comparison is set difference, and the chain latch is as old as WP1 is.  *)
(***************************************************************************)
EXTENDS DebugHalt, Watchpoints, FiniteSetTheorems, TLAPS

-----------------------------------------------------------------------------
(* The halt machine.                                                       *)

(* The program takes no interrupts, or the instruction is no transfer.     *)
Interruptible(p) == IrqEdges = {} \/ Kind[p] \notin Transfers

(* What the program and the debugger keep away from.  Outside each clause  *)
(* but the last the code breaks one of the properties: nIRQ in the bubble  *)
(* behind a jump (core 1375); a redirect over a saved fetch (core 216), a  *)
(* halt in a wait state (core 210), a resume elsewhere from a breakpoint   *)
(* (ice_rt 593), DBGEN low over scanned words (ice_rt 724); an interrupt   *)
(* retained before a second transfer (core 1375), or pending at a          *)
(* breakpointed one (ice_rt 775).  The last: no program runs off its end.  *)
SafeUse ==
    /\ IrqEdges \subseteq {"boundary", "within"}
    /\ ~FlushesSaved /\ ~StalledHalts /\ ~MovesOn /\ ~DropsBusy
    /\ \A p \in Positions : Kind[p] \in Transfers => Interruptible(p + 1)
    /\ \A set \in Breakable : \A p \in set : Interruptible(p)
    /\ \A p \in Positions : Kind[p] \notin {"jump", "return"} => p + 1 \in Positions

Running0 == dbg_state = "RUNNING"
Clean == ~dirty /\ ~inj.active

(* The history knows no stray and no passed instruction; LR is where the   *)
(* program goes on after the handler, and what is owed is what is retained.*)
HistoryTyped ==
    /\ due \in Positions /\ after \in Positions /\ scanned \in Nat
    /\ stray = FALSE /\ passed = FALSE /\ dim \in BOOLEAN
    /\ lr = after /\ owed = irq_q

(* Debug state and program leave nothing behind for each other.            *)
Sessions ==
    /\ Running0 => ~armed /\ ~pending /\ ~inj.active /\ ~dirty
    /\ in_debug_halt => ~irq_q /\ ~refill /\ ~exc_wait /\ (~inj.active => state = "EXEC")

Slot(s, p) == s.valid /\ s.pos = p /\ s.good /\ ~s.injected

(* The shapes of the stream: n slots behind the fetch hold the program     *)
(* from the instruction due on; in the cycles of a transfer none is in     *)
(* flight.                                                                 *)
Upto(n) ==
    \/ n = 0 /\ ~de.valid /\ ~fd.valid /\ inflight = None /\ fetch_pc = due
    \/ n = 1 /\ ~de.valid /\ ~fd.valid /\ inflight = due /\ fetch_pc = due + 1
    \/ n = 2 /\ ~de.valid /\ Slot(fd, due) /\ inflight = due + 1 /\ fetch_pc = due + 2
    \/ n = 3 /\ Slot(de, due) /\ Slot(fd, due + 1) /\ inflight = due + 2
             /\ fetch_pc = due + 3
Between == /\ Slot(de, due) /\ Slot(fd, due + 1) /\ inflight = None
           /\ fetch_pc = due + 2 /\ Interruptible(due)
Stream == Clean => IF state = "EXEC" THEN \E n \in 0 .. 3 : Upto(n) ELSE Between

(* A saved fetch is the one in flight, and what is not saved is on the     *)
(* bus.                                                                    *)
SavedIsFetch ==
    Clean =>
      /\ saved.valid => /\ inflight # None /\ saved.pos = inflight /\ saved.good
                        /\ state = "EXEC"
                        /\ Running0 => \/ ~irq_q /\ ~redirects
                                       \/ irq_q /\ exc_wait /\ breakpoint_execute /\ ~bp_resume
      /\ ~saved.valid /\ inflight # None => live

(* The phases of a scanned instruction: offered to Decode, in Decode, in   *)
(* Execute, in the cycles of its access.                                   *)
Offered == /\ ~inj.accepted /\ ~inj.started /\ scanned = 0 /\ state = "EXEC"
           /\ ~dirty => ~fd.valid /\ ~de.valid
InDecode == /\ inj.accepted /\ ~inj.started /\ scanned = 0 /\ state = "EXEC"
            /\ fd.valid /\ fd.injected /\ ~fd.bp /\ ~de.valid
InExecute == /\ inj.accepted /\ ~inj.started /\ scanned = 0 /\ state = "EXEC"
             /\ de.valid /\ de.injected /\ ~de.bp /\ ~fd.valid
InAccess == /\ inj.accepted /\ inj.started /\ scanned = 1 /\ state # "EXEC"
            /\ ~de.valid /\ ~fd.valid
Phases ==
    inj.active =>
      /\ in_debug_halt /\ inj.kind \in {"alu", "load"}
      /\ ~dirty => inflight = None /\ fetch_pc = due /\ ~saved.valid
      /\ Offered \/ InDecode \/ InExecute \/ InAccess

(* While a marked word waits nothing of the program is in the pipeline.    *)
Waiting == (armed \/ pending) /\ Clean => Drained

(* A retained interrupt waits for the end of a transfer or at an           *)
(* instruction that it can interrupt; the halt then waits for the vector.  *)
Retained ==
    /\ irq_q => /\ Running0 /\ IrqEdges # {}
                /\ exc_wait \/ (halt_pending /\ state # "EXEC")
                /\ state = "EXEC" => de.valid /\ Kind[de.pos] \notin Transfers
    /\ exc_wait => irq_q \/ refill
    /\ refill => state = "EXEC" /\ ~de.valid /\ ~fd.valid /\ inflight # None

(* A tag belongs to a breakpoint, and while DBGEN was high every           *)
(* breakpoint fetched is tagged.                                           *)
Tagged(s) == s.valid => (s.bp => s.pos \in bps) /\ (~dim => (s.bp <=> s.pos \in bps))
Tags == Clean => Tagged(fd) /\ Tagged(de) /\ Tagged(saved)

(* The breakpoint that holds the core, or may be passed once, is the one   *)
(* due.                                                                    *)
Held == (in_debug_halt /\ bp_halt) \/ (Running0 /\ bp_resume)
Resume ==
    /\ Running0 /\ bp_halt => bp_resume
    /\ Running0 /\ bp_resume => ~exc_wait /\ ~irq_q /\ state = "EXEC"
    /\ Held => /\ stopped = due /\ due \in bps
               /\ Clean => /\ de.valid => de.bp
                           /\ ~de.valid /\ fd.valid => fd.bp
                           /\ ~de.valid /\ ~fd.valid /\ saved.valid => saved.bp

HaltInv == /\ TypeOK /\ HistoryTyped /\ Sessions /\ Stream /\ SavedIsFetch /\ Phases
           /\ Waiting /\ Retained /\ Tags /\ Resume

-----------------------------------------------------------------------------
(* The inputs of an edge, and what else the debugger does on it.           *)
Inputs == [clken : BOOLEAN, dbgen : BOOLEAN, irq : BOOLEAN, rq : BOOLEAN, hit : BOOLEAN,
           tap : {"none", "scan", "load", "restart"}, word : {"alu", "load"},
           mark : BOOLEAN, pos : Positions]

Reprograms == /\ CanScan /\ ~pending /\ ~armed /\ ~bp_halt
              /\ bps' \in Breakable /\ dirty' = TRUE

Allowed(in) ==
    /\ in.tap # "none" => CanScan /\ in.dbgen /\ ~in.irq
    /\ in.tap = "scan" => ~pending /\ dirty' = (dirty \/ ~Drained) /\ bps' = bps
    /\ in.tap = "load" => ~pending /\ ~armed /\ (bp_halt => in.pos = due)
                          /\ dirty' = FALSE /\ bps' = bps
    /\ in.tap = "restart" => (pending \/ (~dirty /\ Resumable)) /\ UNCHANGED host
    /\ in.tap = "none" => UNCHANGED host \/ (Reprograms /\ in.dbgen /\ in.clken)
    /\ ~in.dbgen => Resumable /\ UNCHANGED host

(* Positions are an initial segment of the natural numbers.                *)
LEMMA Program ==
    /\ Cardinality(Positions) \in Nat /\ Positions \subseteq Nat /\ 0 \in Positions
    /\ \A p \in Positions : p < Cardinality(Positions) /\ Kind[p] \in Kinds
    /\ Vector \in Positions /\ \A set \in Breakable : set \subseteq Positions
<1>1. Cardinality(Positions) \in Nat
  BY ProgramAssumption, FS_CardinalityType
<1> QED BY <1>1, ProgramAssumption

LEMMA QuietInput == Quiet \in Inputs
BY Program DEF Quiet, Inputs

(* Every step is an edge under some inputs that the debugger may choose.   *)
LEMMA EdgeInputs ==
    ASSUME SafeUse, HaltInv, Next
    PROVE  \E in \in Inputs : Edge(in) /\ Allowed(in)
<1> USE QuietInput
<1>1. CASE Clock
  <2>1. PICK clken, irq, rq, watched \in BOOLEAN :
          /\ Edge([Quiet EXCEPT !.clken = clken, !.irq = irq, !.rq = rq, !.hit = watched])
          /\ UNCHANGED host
    BY <1>1 DEF Clock
  <2> DEFINE in == [Quiet EXCEPT !.clken = clken, !.irq = irq, !.rq = rq, !.hit = watched]
  <2>2. in \in Inputs
    BY DEF Inputs
  <2>3. in.tap = "none" /\ in.dbgen
    BY DEF Quiet
  <2>4. Edge(in)
    BY <2>1
  <2>5. Allowed(in)
    BY <2>1, <2>3 DEF Allowed
  <2> QED BY <2>2, <2>4, <2>5
<1>2. CASE Disabled
  <2>1. PICK clken, irq \in BOOLEAN :
          /\ Resumable /\ UNCHANGED host
          /\ Edge([Quiet EXCEPT !.clken = clken, !.irq = irq, !.dbgen = FALSE])
    BY <1>2 DEF Disabled
  <2> DEFINE in == [Quiet EXCEPT !.clken = clken, !.irq = irq, !.dbgen = FALSE]
  <2>2. in \in Inputs
    BY DEF Inputs
  <2>3. in.tap = "none" /\ ~in.dbgen
    BY DEF Quiet
  <2>4. Edge(in)
    BY <2>1
  <2>5. Allowed(in)
    BY <2>1, <2>3 DEF Allowed
  <2> QED BY <2>2, <2>4, <2>5
<1>3. CASE Scan
  <2>1. PICK clken, mark \in BOOLEAN, word \in {"alu", "load"} :
          /\ CanScan /\ ~pending
          /\ Edge([Quiet EXCEPT !.clken = clken, !.tap = "scan", !.word = word, !.mark = mark])
          /\ dirty' = (dirty \/ ~Drained) /\ UNCHANGED bps
    BY <1>3 DEF Scan
  <2> DEFINE in == [Quiet EXCEPT !.clken = clken, !.tap = "scan", !.word = word, !.mark = mark]
  <2>2. in \in Inputs
    BY DEF Inputs
  <2>3. in.tap = "scan" /\ in.dbgen /\ ~in.irq
    BY DEF Quiet
  <2>4. Edge(in)
    BY <2>1
  <2>5. Allowed(in)
    BY <2>1, <2>3 DEF Allowed
  <2> QED BY <2>2, <2>4, <2>5
<1>4. CASE ScanPc
  <2>1. PICK clken \in BOOLEAN, p \in Positions :
          /\ CanScan /\ ~pending /\ ~armed
          /\ p = due \/ ((MovesOn \/ ~bp_halt) /\ p \in {0} \cup bps)
          /\ Edge([Quiet EXCEPT !.clken = clken, !.tap = "load", !.pos = p])
          /\ dirty' = FALSE /\ UNCHANGED bps
    BY <1>4 DEF ScanPc
  <2> DEFINE in == [Quiet EXCEPT !.clken = clken, !.tap = "load", !.pos = p]
  <2>2. in \in Inputs
    BY DEF Inputs
  <2>3. in.tap = "load" /\ in.dbgen /\ ~in.irq /\ in.pos = p
    BY DEF Quiet
  <2>4. Edge(in)
    BY <2>1
  <2>5. Allowed(in)
    BY <2>1, <2>3 DEF Allowed, SafeUse
  <2> QED BY <2>2, <2>4, <2>5
<1>5. CASE Restart
  <2>1. PICK clken \in BOOLEAN :
          /\ CanScan /\ (pending \/ (~dirty /\ Resumable)) /\ UNCHANGED host
          /\ Edge([Quiet EXCEPT !.clken = clken, !.tap = "restart"])
    BY <1>5 DEF Restart
  <2> DEFINE in == [Quiet EXCEPT !.clken = clken, !.tap = "restart"]
  <2>2. in \in Inputs
    BY DEF Inputs
  <2>3. in.tap = "restart" /\ in.dbgen /\ ~in.irq
    BY DEF Quiet
  <2>4. Edge(in)
    BY <2>1
  <2>5. Allowed(in)
    BY <2>1, <2>3 DEF Allowed
  <2> QED BY <2>2, <2>4, <2>5
<1>6. CASE SetBreakpoints
  <2>1. Edge(Quiet) /\ Reprograms
    BY <1>6 DEF SetBreakpoints, Reprograms, SafeUse
  <2>2. Quiet.tap = "none" /\ Quiet.dbgen /\ Quiet.clken
    BY DEF Quiet
  <2> QED BY <2>1, <2>2 DEF Allowed
<1> QED BY <1>1, <1>2, <1>3, <1>4, <1>5, <1>6 DEF Next
-----------------------------------------------------------------------------
(* How a step moves the pipeline.                                          *)
At(in) == SafeUse /\ HaltInv /\ in \in Inputs /\ Edge(in) /\ Allowed(in)

(* The pipeline stands still: CLKEN is low, or the core is halted.         *)
Stays(in) == in.tap # "load" /\ ~core_clken(in)

(* A scanned instruction moves, nothing else.                              *)
Injects(in) == in.tap # "load" /\ core_clken(in) /\ inj.active

(* The program's instructions move.                                        *)
Moves(in) == in.tap # "load" /\ core_clken(in) /\ ~inj.active

(* What the invariant says of types, as facts for the provers.             *)
LEMMA Types ==
    ASSUME HaltInv
    PROVE  /\ irq_off \in BOOLEAN /\ irq_q \in BOOLEAN /\ refill \in BOOLEAN
           /\ halt_pending \in BOOLEAN /\ exc_wait \in BOOLEAN /\ bp_halt \in BOOLEAN
           /\ bp_resume \in BOOLEAN /\ armed \in BOOLEAN /\ pending \in BOOLEAN
           /\ speed \in BOOLEAN /\ dirty \in BOOLEAN /\ live \in BOOLEAN
           /\ fd \in Slots /\ de \in Slots /\ saved \in Slots /\ saved.injected = FALSE
           /\ inj \in [active : BOOLEAN, accepted : BOOLEAN, started : BOOLEAN, kind : Kinds]
           /\ state \in {"EXEC", "DATA", "WB"} /\ op \in Kinds
           /\ dbg_state \in {"RUNNING", "HALTED"} /\ lr \in Addresses /\ bps \in Breakable
           /\ fetch_pc \in Addresses /\ inflight \in Addresses \cup {None}
           /\ due \in Positions /\ after \in Positions /\ scanned \in Nat
           /\ stray = FALSE /\ passed = FALSE /\ dim \in BOOLEAN
           /\ lr = after /\ owed = irq_q
<1>1. TypeOK /\ HistoryTyped
  BY DEF HaltInv
<1>2. saved.injected \in BOOLEAN
  BY <1>1 DEF TypeOK, Slots
<1> QED BY <1>1, <1>2 DEF TypeOK, HistoryTyped

(* In debug state no exception is entered.                                 *)
LEMMA Masked ==
    ASSUME NEW in, HaltInv, in_debug_halt, in.dbgen
    PROVE  ~irq_fires(in) /\ ~Interrupt(in)
BY DEF HaltInv, Sessions, irq_fires, Interrupt

(* The program's instructions move only on a clean stream, and the         *)
(* debugger does nothing on such an edge.                                  *)
LEMMA CleanRuns ==
    ASSUME NEW in, At(in), Moves(in)
    PROVE  /\ Clean /\ in.clken /\ ~core_halt(in) /\ in.tap = "none" /\ UNCHANGED host
           /\ dbg_state = "RUNNING" \/ (in_debug_halt /\ ~in.dbgen)
           /\ ~armed /\ ~pending
           /\ irq_q => in.dbgen /\ dbg_state = "RUNNING"
<1>1. in.clken /\ ~core_halt(in) /\ ~inj.active /\ in \in Inputs /\ Sessions
  BY DEF Moves, core_clken, At, HaltInv
<1>2. dbg_state = "RUNNING" \/ (in_debug_halt /\ ~in.dbgen)
  BY <1>1, Types DEF core_halt, in_debug_halt, At
<1>3. ~armed /\ ~pending /\ ~dirty
  BY <1>1, <1>2 DEF Sessions, Running0, At, Edge, SafeUse
<1>4. irq_q => in.dbgen /\ dbg_state = "RUNNING"
  BY <1>1, <1>2 DEF Sessions, At, Edge, SafeUse, in_debug_halt, HaltInv, Retained, Running0
<1>5. in.tap = "none" /\ UNCHANGED host
  BY <1>1, <1>2 DEF At, Allowed, CanScan, in_debug_halt, Reprograms, Inputs
<1> QED BY <1>1, <1>2, <1>3, <1>4, <1>5 DEF Clean

(* On such an edge what Execute holds is the instruction due.              *)
LEMMA DueInExecute ==
    ASSUME NEW in, At(in), Moves(in)
    PROVE  /\ ~inject_we
           /\ executing => /\ Upto(3) /\ state = "EXEC" /\ de.valid
                           /\ de.pos = due /\ de.good /\ ~de.injected /\ KindOf(de) = Kind[due]
           /\ state # "EXEC" => Between /\ ~executing
           /\ de.valid => executing \/ state # "EXEC"
           /\ ~de.valid => ~executing /\ state = "EXEC" /\ (Upto(0) \/ Upto(1) \/ Upto(2))
<1>1. Clean /\ Stream
  BY CleanRuns DEF At, HaltInv
<1>2. ~inject_we
  BY <1>1 DEF Clean, inject_we
<1>3. CASE state = "EXEC"
  <2>1. PICK n \in 0 .. 3 : Upto(n)
    BY <1>1, <1>3 DEF Stream
  <2>2. Upto(0) \/ Upto(1) \/ Upto(2) \/ Upto(3)
    BY <2>1
  <2> QED BY <1>2, <1>3, <2>2 DEF Upto, executing, Slot, KindOf
<1>4. CASE state # "EXEC"
  BY <1>1, <1>2, <1>4 DEF Stream, executing, Between, Slot
<1> QED BY <1>3, <1>4, <1>2

(* An interrupt is entered with the instruction due in Execute, none       *)
(* begun, and no fetch saved.                                              *)
LEMMA Fires ==
    ASSUME NEW in, At(in), Moves(in), irq_fires(in)
    PROVE  /\ de.valid /\ de.pos = due /\ ~begins /\ ~runs(in) /\ ~saved.valid
           /\ halt_boundary
<1>1. in \in Inputs /\ Clean /\ ~core_halt(in)
  BY CleanRuns DEF At
<1>2. CASE state = "EXEC" /\ irq_q
  <2>1. Retained /\ SavedIsFetch /\ Resume
    BY DEF At, HaltInv
  <2>2. dbg_state = "RUNNING" /\ in.dbgen
    BY <1>2, CleanRuns
  <2>3. de.valid /\ Kind[de.pos] \notin Transfers /\ executing
    BY <1>2, <2>1, DueInExecute DEF Retained
  <2>4. ~begins /\ halt_boundary
    BY <1>2, <2>3, DueInExecute DEF begins, halt_boundary, state_next
  <2>5. ~saved.valid
    <3>1. SUFFICES ASSUME saved.valid PROVE FALSE
      OBVIOUS
    <3>2. exc_wait /\ breakpoint_execute /\ ~bp_resume
      BY <1>1, <1>2, <2>1, <2>2, <3>1 DEF SavedIsFetch, Running0
    <3>3. ~Interrupt(in)
      BY <2>2, <3>2 DEF Interrupt
    <3>4. core_halt(in)
      BY <1>1, <2>2, <3>2, <3>3 DEF core_halt, breakpoint_stop, breakpoint_interrupt, Clean
    <3> QED BY <1>1, <3>4
  <2> QED BY <2>3, <2>4, <2>5, DueInExecute DEF runs
<1>3. CASE EdgeClass = "boundary" /\ Interrupt(in)
  <2>1. in.irq /\ ~saved.valid
    BY <1>3 DEF Interrupt, At, Edge, SafeUse
  <2>2. halt_boundary /\ (state # "EXEC" \/ executing)
    BY <1>3 DEF EdgeClass
  <2>3. ~begins
    BY <2>2 DEF halt_boundary, state_next, begins, executing
  <2> QED BY <2>1, <2>2, <2>3, DueInExecute DEF runs, Between, Slot
<1> QED BY <1>2, <1>3 DEF irq_fires

(* The debugger acts in debug state, while no scanned instruction moves.   *)
LEMMA Scans ==
    ASSUME NEW in, At(in), in.tap # "none"
    PROVE  /\ in_debug_halt /\ ~inj.active /\ in.dbgen /\ ~core_clken(in) /\ core_halt(in)
           /\ ~irq_q /\ ~refill /\ ~exc_wait /\ state = "EXEC"
BY DEF At, Allowed, CanScan, core_clken, core_halt, HaltInv, Sessions

(* The edges of a scanned instruction.                                     *)
LEMMA Injecting ==
    ASSUME NEW in, At(in), inj.active
    PROVE  /\ in_debug_halt /\ in.dbgen /\ in.tap = "none" /\ ~core_halt(in)
           /\ core_clken(in) <=> in.clken
           /\ ~irq_fires(in) /\ ~redirects /\ ~flush(in) /\ ~latch_into_fd(in) /\ ~runs(in)
           /\ executing <=> InExecute
           /\ inject_starts <=> InExecute
<1>1. Phases /\ HaltInv
  BY DEF At, HaltInv
<1>2. in_debug_halt /\ in.tap = "none" /\ in.dbgen
  BY <1>1, Scans DEF At, Edge, SafeUse, Phases, Inputs
<1>3. ~core_halt(in) /\ (core_clken(in) <=> in.clken)
  BY DEF core_halt, core_clken
<1>4. ~irq_fires(in)
  BY <1>1, <1>2, Masked
<1>5. executing <=> InExecute
  BY <1>1, Types DEF Phases, Offered, InDecode, InExecute, InAccess, executing, inject_we
<1>6. inject_starts <=> InExecute
  BY <1>5 DEF inject_starts, InExecute
<1>7. ~redirects /\ ~runs(in)
  BY <1>1, <1>5 DEF redirects, runs, InExecute, KindOf, Phases
<1> QED BY <1>2, <1>3, <1>4, <1>5, <1>6, <1>7 DEF flush, latch_into_fd

(* The program executes, and takes interrupts, only when its instructions  *)
(* move.                                                                   *)
LEMMA RunsMoving ==
    ASSUME NEW in, At(in), runs(in)
    PROVE  Moves(in) /\ in.clken
BY Scans, Injecting DEF runs, Moves, At, Inputs, core_clken

LEMMA EntersMoving ==
    ASSUME NEW in, At(in), exception_entry(in)
    PROVE  Moves(in) /\ irq_fires(in)
BY Scans, Injecting DEF exception_entry, Moves, At, Inputs

(* What runs was due, and is not a breakpointed instruction that has not   *)
(* stopped the core.                                                       *)
LEMMA RunsDue ==
    ASSUME NEW in, At(in), runs(in)
    PROVE  /\ executing /\ Upto(3) /\ de.pos = due /\ de.good /\ KindOf(de) = Kind[due]
           /\ in.dbgen /\ ~dim /\ due \in bps => bp_resume /\ stopped = due
<1>1. Moves(in) /\ executing /\ in \in Inputs
  BY RunsMoving DEF runs, At
<1>2. Upto(3) /\ de.valid /\ de.pos = due /\ de.good /\ KindOf(de) = Kind[due]
  BY <1>1, DueInExecute
<1>3. ASSUME in.dbgen, ~dim, due \in bps PROVE bp_resume /\ stopped = due
  <2>1. Clean /\ ~core_halt(in) /\ dbg_state = "RUNNING" /\ Tags /\ Resume
    BY <1>1, <1>3, CleanRuns DEF At, HaltInv
  <2>2. breakpoint_execute
    BY <1>1, <1>2, <1>3, <2>1 DEF Tags, Tagged, breakpoint_execute
  <2>3. Interruptible(due)
    BY <1>3, Types DEF At, SafeUse
  <2>4. ASSUME Kind[due] \notin Transfers PROVE ~begins /\ EdgeClass = "boundary"
    BY <1>1, <1>2, <2>4 DEF begins, EdgeClass, halt_boundary, state_next, executing
  <2>5. ASSUME IrqEdges = {} PROVE ~Interrupt(in)
    BY <2>5 DEF Interrupt, At, Edge
  <2>6. ~breakpoint_interrupt(in)
    BY <2>3, <2>4, <2>5 DEF irq_fires, breakpoint_interrupt, runs, Interruptible
  <2>7. bp_resume
    BY <1>3, <2>1, <2>2, <2>6 DEF core_halt, breakpoint_stop, Clean
  <2> QED BY <2>1, <2>7 DEF Resume, Held, Running0
<1> QED BY <1>1, <1>2, <1>3

(* So the history never sees a stray or passed instruction.                *)
LEMMA Behaves ==
    ASSUME NEW in, At(in)
    PROVE  stray' = FALSE /\ passed' = FALSE
<1>1. stray = FALSE /\ passed = FALSE /\ History(in) /\ in \in Inputs
  BY Types DEF At, Edge
<1>2. ~(runs(in) /\ (de.pos # due \/ ~de.good))
  BY RunsDue
<1>3. ~(in.dbgen /\ ~dim /\ runs(in) /\ de.pos \in bps /\ de.pos # stopped)
  BY RunsDue
<1>4. stray' = (stray \/ (runs(in) /\ (de.pos # due \/ ~de.good)))
  BY <1>1 DEF History
<1>5. passed' = (passed \/ (in.dbgen /\ ~dim /\ runs(in)
                            /\ de.pos \in bps /\ de.pos # stopped))
  BY <1>1 DEF History
<1> QED BY <1>1, <1>2, <1>3, <1>4, <1>5
-----------------------------------------------------------------------------
(* What each kind of step does to the pipeline and the history.            *)
HistorySame == due' = due /\ after' = after /\ owed' = owed /\ ran' = "none"

(* Loading the PC empties the pipeline and moves where the program goes    *)
(* on.                                                                     *)
LEMMA LoadStep ==
    ASSUME NEW in, At(in), in.tap = "load"
    PROVE  /\ fetch_pc' = in.pos /\ inflight' = None
           /\ fd' = Empty /\ de' = [de EXCEPT !.valid = FALSE] /\ saved' = Empty
           /\ ~fd'.valid /\ ~de'.valid /\ ~saved'.valid
           /\ UNCHANGED <<core, live, engine, dbg_state, bp_halt, bp_resume, bps>> /\ dirty' = FALSE
           /\ ~exc_wait' /\ in.pos \in Positions
           /\ due' = in.pos /\ after' = after /\ owed' = owed /\ ran' = "none"
           /\ dim' = ~in.dbgen /\ scanned' = scanned
           /\ bp_halt => in.pos = due
<1>1. LoadPc(in.pos) /\ HaltMachine(in) /\ Engine(in) /\ History(in) /\ in.pos \in Positions
  BY DEF At, Edge, Inputs
<1>2. /\ in_debug_halt /\ ~inj.active /\ in.dbgen /\ ~core_clken(in) /\ ~exc_wait
      /\ exc_wait \in BOOLEAN /\ owed \in BOOLEAN /\ in.clken \in BOOLEAN
  BY Scans, Types DEF At, Inputs
<1>3. ~exception_entry(in) /\ ~runs(in) /\ DueNext(in) = due
  BY <1>2 DEF exception_entry, runs, DueNext
<1>4. UNCHANGED engine
  BY <1>1, <1>2 DEF Engine, Discards
<1>5. UNCHANGED <<dbg_state, bp_halt, bp_resume>> /\ ~exc_wait'
  BY <1>1, <1>2 DEF HaltMachine, Halted, ice
<1>6. /\ due' = in.pos /\ after' = after /\ owed' = owed /\ ran' = "none"
      /\ dim' = ~in.dbgen /\ scanned' = scanned
  BY <1>1, <1>2, <1>3, <1>4 DEF History, engine
<1>7. dirty' = FALSE /\ bps' = bps /\ (bp_halt => in.pos = due)
  BY DEF At, Allowed
<1>8. ~fd'.valid /\ ~de'.valid /\ ~saved'.valid
  <2>1. fd' = Empty /\ saved' = Empty /\ de' = [de EXCEPT !.valid = FALSE]
    BY <1>1 DEF LoadPc
  <2>2. de \in Slots
    BY Types DEF At
  <2> QED BY <2>1, <2>2 DEF Empty, Slots
<1> QED BY <1>1, <1>4, <1>5, <1>6, <1>7, <1>8 DEF LoadPc

(* Standing still changes nothing of the program; the first halted edge    *)
(* saves the fetch in flight.                                              *)
LEMMA StayStep ==
    ASSUME NEW in, At(in), Stays(in)
    PROVE  /\ UNCHANGED <<fetch_pc, inflight, fd, de, state, op, irq_off, lr, irq_q, refill>>
           /\ HistorySame /\ dim' = (~in.dbgen \/ dim)
           /\ ~in.clken => live' = live /\ saved' = saved
           /\ in.clken => live' = FALSE /\ core_halt(in)
           /\ in.clken => saved' = IF ~saved.valid /\ inflight # None
                                   THEN [pos |-> inflight, good |-> live,
                                         bp |-> in.dbgen /\ inflight \in bps,
                                         injected |-> FALSE, valid |-> TRUE]
                                   ELSE saved
           /\ Clean' => Clean /\ bps' = bps
<1>1. Core(in) /\ HaltResponse(in) /\ Engine(in) /\ History(in) /\ in \in Inputs
  BY DEF At, Edge, Stays
<1>2. in.tap # "load" /\ ~core_clken(in) /\ ~latch_into_fd(in) /\ (in.clken => core_halt(in))
  BY DEF Stays, latch_into_fd, core_clken
<1>3. ~exception_entry(in) /\ ~runs(in) /\ DueNext(in) = due
  BY <1>2 DEF exception_entry, runs, DueNext
<1>4. in.clken \in BOOLEAN /\ live \in BOOLEAN /\ dim \in BOOLEAN /\ owed \in BOOLEAN
  BY <1>1, Types DEF At, Inputs
<1>5. HistorySame /\ dim' = (~in.dbgen \/ dim)
  BY <1>1, <1>2, <1>3, <1>4 DEF History, HistorySame
<1>6. UNCHANGED <<fetch_pc, inflight, fd, de, state, op, irq_off, lr, irq_q, refill>>
  BY <1>1, <1>2 DEF Core, pipe, core
<1>7. live' = (live /\ ~in.clken)
  BY <1>1, <1>2, <1>4 DEF HaltResponse
<1>8. ASSUME ~in.clken PROVE saved' = saved
  <2>1. ~Saves(in)
    BY <1>8 DEF At, Edge, SafeUse
  <2> QED BY <1>1, <1>2, <2>1 DEF HaltResponse
<1>9. ASSUME in.clken
      PROVE  saved' = IF ~saved.valid /\ inflight # None
                      THEN [pos |-> inflight, good |-> live,
                            bp |-> in.dbgen /\ inflight \in bps,
                            injected |-> FALSE, valid |-> TRUE]
                      ELSE saved
  <2>1. in.clken = TRUE /\ (live /\ in.clken) = live
    BY <1>4, <1>9
  <2>2. core_halt(in)
    BY <1>2, <1>9
  <2>3. CASE Saves(in)
    BY <1>1, <1>2, <2>1, <2>3 DEF HaltResponse, Saves
  <2>4. CASE ~Saves(in)
    BY <1>1, <1>2, <2>2, <2>4 DEF HaltResponse, Saves
  <2> QED BY <2>3, <2>4
<1>10. ASSUME Clean' PROVE Clean /\ bps' = bps
  <2>1. ~dirty' /\ ~inj'.active
    BY <1>10 DEF Clean
  <2>2. ~inj.active
    BY <1>1, <1>2, <2>1, Injecting, Types DEF Engine, Activate, Discards, inject_retire, engine
  <2>3. ~dirty /\ bps' = bps
    BY <1>1, <1>2, <2>1, <2>2 DEF At, Allowed, host, Reprograms, Inputs
  <2> QED BY <2>2, <2>3 DEF Clean
<1> QED BY <1>2, <1>4, <1>5, <1>6, <1>7, <1>8, <1>9, <1>10

(* The edge on which the program moves, without the cases of the pipeline. *)
LEMMA MoveCore ==
    ASSUME NEW in, At(in), Moves(in)
    PROVE  /\ state' = state_next /\ op' = (IF begins THEN KindOf(de) ELSE op)
           /\ lr' = (IF irq_fires(in) THEN de.pos ELSE lr)
           /\ irq_q' = (~irq_fires(in) /\ Retains(in))
           /\ refill' = (irq_fires(in) \/ (refill /\ ~vector_ready(in)))
           /\ irq_off' \in BOOLEAN
           /\ live' = TRUE /\ saved' = IF latch_into_fd(in) THEN Empty ELSE saved
           /\ Pipeline(in) /\ inj' = inj /\ UNCHANGED <<armed, pending, speed>>
           /\ after' = (IF irq_fires(in) THEN DueNext(in) ELSE after)
           /\ due' = (IF irq_fires(in) THEN Vector ELSE DueNext(in))
           /\ dim' = (~in.dbgen \/ (dim /\ ~flush(in)))
           /\ owed' = ((owed \/ (collision(in) /\ Interrupt(in))) /\ ~irq_fires(in))
           /\ ran' \in {"none", "program", "irq"} /\ scanned' = scanned
<1>1. /\ Core(in) /\ HaltResponse(in) /\ Engine(in) /\ History(in) /\ core_clken(in)
      /\ ~core_halt(in) /\ in.tap = "none" /\ ~inj.active /\ in.clken
  BY CleanRuns DEF At, Edge, Moves, Clean
<1>2. exception_entry(in) <=> irq_fires(in)
  BY <1>1 DEF exception_entry
<1>3. irq_off' \in BOOLEAN /\ Pipeline(in) /\ state' = state_next
      /\ op' = (IF begins THEN KindOf(de) ELSE op)
      /\ lr' = (IF irq_fires(in) THEN de.pos ELSE lr)
      /\ irq_q' = (~irq_fires(in) /\ Retains(in))
      /\ refill' = (irq_fires(in) \/ (refill /\ ~vector_ready(in)))
  BY <1>1 DEF Core
<1>4. live' = TRUE /\ saved' = IF latch_into_fd(in) THEN Empty ELSE saved
  <2>1. ~Saves(in)
    BY <1>1 DEF Saves
  <2>2. live' = (core_clken(in) \/ (live /\ ~in.clken))
    BY <1>1 DEF HaltResponse
  <2>3. saved' = IF latch_into_fd(in) THEN Empty ELSE saved
    BY <1>1, <2>1 DEF HaltResponse
  <2> QED BY <1>1, <2>2, <2>3
<1>5. UNCHANGED engine
  BY <1>1 DEF Engine, Discards
<1>6. ~inj'.active /\ ~inject_starts
  BY <1>1, <1>5, DueInExecute DEF engine, inject_starts
<1>7. /\ after' = (IF irq_fires(in) THEN DueNext(in) ELSE after)
      /\ due' = (IF irq_fires(in) THEN Vector ELSE DueNext(in))
  BY <1>1, <1>2 DEF History
<1>8. dim' = (~in.dbgen \/ (dim /\ ~flush(in)))
  <2>1. dim' = (~in.dbgen \/ (dim /\ in.tap # "load" /\ ~(core_clken(in) /\ flush(in))))
    BY <1>1 DEF History
  <2> QED BY <1>1, <2>1
<1>9. owed' = ((owed \/ (collision(in) /\ Interrupt(in))) /\ ~irq_fires(in))
  <2>1. owed' = ((owed \/ (core_clken(in) /\ collision(in) /\ Interrupt(in)))
                 /\ ~exception_entry(in))
    BY <1>1 DEF History
  <2> QED BY <1>1, <1>2, <2>1
<1>10. ran' \in {"none", "program", "irq"} /\ scanned' = scanned
  <2>1. scanned' = IF inj'.active /\ ~inj.active THEN 0
                   ELSE IF core_clken(in) /\ inject_starts THEN scanned + 1 ELSE scanned
    BY <1>1 DEF History
  <2>2. ran' \in {"none", "program", "irq"}
    BY <1>1 DEF History
  <2> QED BY <1>6, <2>1, <2>2
<1> QED BY <1>3, <1>4, <1>5, <1>7, <1>8, <1>9, <1>10 DEF engine

(* The entry of an interrupt: the handler is due, and what was due is      *)
(* where it returns to.                                                    *)
LEMMA EnterStep ==
    ASSUME NEW in, At(in), Moves(in), irq_fires(in)
    PROVE  /\ due' = Vector /\ after' = due /\ lr' = due /\ state' = "EXEC"
           /\ inflight' = Vector /\ fetch_pc' = Vector + 1
           /\ fd' = Empty /\ de' = [de EXCEPT !.valid = FALSE] /\ saved' = saved /\ ~saved.valid
           /\ ~irq_q' /\ refill' /\ ~owed' /\ dim' = ~in.dbgen
<1>1. /\ de.valid /\ de.pos = due /\ ~begins /\ ~runs(in) /\ ~saved.valid
      /\ state_next = "EXEC"
  BY Fires DEF halt_boundary
<1>2. flush(in) /\ ~latch_into_fd(in) /\ DueNext(in) = due /\ Target(in) = Vector
  BY <1>1 DEF flush, latch_into_fd, DueNext, Target
<1>3. Redirected(in)
  BY <1>2, MoveCore DEF Pipeline
<1> QED BY <1>1, <1>2, <1>3, MoveCore DEF Redirected, At, Inputs

(* A jump or a return.                                                     *)
LEMMA RedirectStep ==
    ASSUME NEW in, At(in), Moves(in), ~irq_fires(in), redirects
    PROVE  /\ due' \in Positions /\ after' = after /\ lr' = lr /\ state' = "EXEC"
           /\ inflight' = due' /\ fetch_pc' = due' + 1
           /\ fd' = Empty /\ de' = [de EXCEPT !.valid = FALSE] /\ saved' = saved /\ ~saved.valid
           /\ runs(in) /\ executing /\ ~begins /\ halt_boundary /\ dim' = ~in.dbgen
<1>1. executing /\ ~begins /\ de.pos = due /\ KindOf(de) = Kind[due] /\ ~de.injected
  BY DueInExecute DEF redirects
<1>2. runs(in) /\ halt_boundary /\ state_next = "EXEC"
  BY <1>1 DEF runs, Moves, halt_boundary, state_next, executing
<1>3. flush(in) /\ ~latch_into_fd(in) /\ DueNext(in) = Successor(due)
  BY <1>1, <1>2 DEF flush, latch_into_fd, DueNext
<1>4. Target(in) = Successor(due) /\ Successor(due) \in Positions
  BY <1>1, Types, Program DEF Target, Successor, redirects, At
<1>5. ~saved.valid
  <2>1. Clean /\ SavedIsFetch /\ (dbg_state = "RUNNING" \/ ~in.dbgen)
    BY CleanRuns DEF At, HaltInv
  <2>2. ASSUME ~in.dbgen PROVE ~saved.valid
    BY <2>2 DEF At, Allowed, Resumable, SafeUse
  <2>3. ASSUME dbg_state = "RUNNING", saved.valid PROVE FALSE
    <3>1. irq_q
      BY <2>1, <2>3 DEF SavedIsFetch, Running0
    <3>2. state = "EXEC"
      BY <1>1 DEF executing
    <3> QED BY <3>1, <3>2 DEF irq_fires
  <2> QED BY <2>1, <2>2, <2>3
<1>6. Redirected(in)
  BY <1>3, MoveCore DEF Pipeline
<1> QED BY <1>1, <1>2, <1>3, <1>4, <1>5, <1>6, MoveCore DEF Redirected, At, Inputs

(* What Execute does with the shapes of the stream when nothing redirects  *)
(* it.                                                                     *)
LEMMA AdvanceStep ==
    ASSUME NEW in, At(in), Moves(in), ~irq_fires(in), ~redirects
    PROVE  /\ Advanced(in) /\ lr' = lr /\ after' = after /\ due' = DueNext(in)
           /\ latch_into_fd(in) <=> state = "EXEC" /\ inflight # None
           /\ dim' = (~in.dbgen \/ dim)
           /\ runs(in) <=> executing
           /\ issue_fetch <=> halt_boundary
<1>1. ~flush(in) /\ ~inject_we /\ core_clken(in) /\ ~inj.active
  BY DueInExecute DEF flush, Moves
<1>2. runs(in) <=> executing
  BY <1>1, DueInExecute DEF runs
<1> QED BY <1>1, <1>2, MoveCore DEF Pipeline, latch_into_fd, issue_fetch, At, Inputs

(* What is latched is the word fetched last, with its tag.                 *)
LEMMA LatchedGood ==
    ASSUME NEW in, At(in), Moves(in), inflight # None
    PROVE  /\ Slot(Latched(in), inflight) /\ Latched(in) \in Slots /\ Latched(in).pos = inflight
           /\ Latched(in).bp = IF saved.valid THEN saved.bp ELSE in.dbgen /\ inflight \in bps
<1>1. Clean /\ SavedIsFetch /\ saved \in Slots /\ live \in BOOLEAN /\ in.dbgen \in BOOLEAN
  BY CleanRuns, Types DEF At, HaltInv, Inputs
<1>2. inflight \in Addresses
  BY Types DEF At
<1> DEFINE good == IF saved.valid THEN saved.good /\ saved.pos = inflight ELSE live
           tag == IF saved.valid THEN saved.bp ELSE in.dbgen /\ inflight \in bps
<1>3. good = TRUE
  BY <1>1 DEF SavedIsFetch, Slots
<1>4. tag \in BOOLEAN
  BY <1>1 DEF Slots
<1>5. Latched(in) = [pos |-> inflight, good |-> good, bp |-> tag, injected |-> FALSE,
                     valid |-> TRUE]
  BY DEF Latched
<1> HIDE DEF good, tag
<1>6. Latched(in).bp = tag /\ Latched(in).pos = inflight
  BY <1>5
<1>7. Slot(Latched(in), inflight)
  BY <1>3, <1>5 DEF Slot
<1>8. Latched(in) \in Slots
  BY <1>2, <1>3, <1>4, <1>5 DEF Slots
<1> QED BY <1>6, <1>7, <1>8 DEF tag

(* A bubble fills, an instruction executes, or a transfer goes on.         *)
Fills(in) ==
    /\ state = "EXEC" /\ state' = "EXEC" /\ ~executing /\ due' = due
    /\ \/ Upto(0) /\ Upto(1)' /\ ~fd'.valid /\ ~de'.valid
       \/ Upto(1) /\ Upto(2)' /\ fd' = Latched(in) /\ ~de'.valid
       \/ Upto(2) /\ Upto(3)' /\ fd' = Latched(in) /\ de' = fd
Executes(in) ==
    /\ executing /\ Upto(3) /\ due' = due + 1 /\ due + 1 \in Positions
    /\ fd' = Latched(in) /\ de' = fd /\ runs(in)
    /\ \/ Kind[due] \notin Transfers /\ state' = "EXEC" /\ Upto(3)' /\ ~begins
       \/ Kind[due] \in Transfers /\ state' = "DATA" /\ Between' /\ begins
Transferring(in) ==
    /\ ~executing /\ state # "EXEC" /\ Between /\ due' = due /\ fd' = fd /\ de' = de
    /\ \/ state' # "EXEC" /\ Between'
       \/ state' = "EXEC" /\ Upto(3)'

(* Without a redirect the shape of the stream fills, executes or waits in  *)
(* a transfer.                                                             *)
LEMMA AdvanceShape ==
    ASSUME NEW in, At(in), Moves(in), ~irq_fires(in), ~redirects
    PROVE  Fills(in) \/ Executes(in) \/ Transferring(in)
<1>1. /\ Advanced(in) /\ due' = DueNext(in) /\ (runs(in) <=> executing)
      /\ latch_into_fd(in) <=> state = "EXEC" /\ inflight # None
      /\ issue_fetch <=> halt_boundary
      /\ state' = state_next
  BY AdvanceStep, MoveCore
<1>2. due \in Positions /\ Positions \subseteq Nat /\ Kind[due] \in Kinds
  BY Types, Program DEF At
<1>3. inflight # None => Slot(Latched(in), inflight)
  BY LatchedGood
<1>4. CASE state = "EXEC" /\ ~executing
  <2>1. state' = "EXEC" /\ halt_boundary /\ due' = due /\ ~de.valid
    BY <1>1, <1>4, DueInExecute DEF state_next, halt_boundary, begins, DueNext
  <2>2. inflight' = fetch_pc /\ fetch_pc' = fetch_pc + 1
    BY <1>1, <2>1 DEF Advanced
  <2>3. fd' = IF inflight # None THEN Latched(in) ELSE Empty
    BY <1>1, <1>4 DEF Advanced
  <2>4. de' = IF fd.valid THEN fd ELSE [de EXCEPT !.valid = FALSE]
    BY <1>1, <1>4 DEF Advanced
  <2>5. ~fd.valid => ~de'.valid
    BY <2>4, Types DEF At, Slots
  <2>6. CASE Upto(0)
    <3>1. ~fd'.valid /\ ~de'.valid
      BY <2>3, <2>5, <2>6 DEF Upto, Empty
    <3>2. inflight' = due' /\ fetch_pc' = due' + 1
      BY <2>1, <2>2, <2>6 DEF Upto
    <3> QED BY <1>4, <2>1, <2>6, <3>1, <3>2 DEF Fills, Upto
  <2>7. CASE Upto(1)
    <3>1. inflight = due /\ due # None /\ fd' = Latched(in) /\ ~de'.valid
      BY <1>2, <2>3, <2>5, <2>7 DEF Upto, None
    <3>2. Slot(fd', due')
      BY <1>3, <2>1, <3>1
    <3>3. inflight' = due' + 1 /\ fetch_pc' = due' + 2
      BY <1>2, <2>1, <2>2, <2>7 DEF Upto
    <3> QED BY <1>4, <2>1, <2>7, <3>1, <3>2, <3>3 DEF Fills, Upto, Slot
  <2>8. CASE Upto(2)
    <3>1. inflight = due + 1 /\ due + 1 # None /\ fd' = Latched(in) /\ de' = fd
      BY <1>2, <2>3, <2>4, <2>8 DEF Upto, None, Slot
    <3>2. Slot(fd', due' + 1) /\ Slot(de', due')
      BY <1>3, <2>1, <2>8, <3>1 DEF Upto, Slot
    <3>3. inflight' = due' + 2 /\ fetch_pc' = due' + 3
      BY <1>2, <2>1, <2>2, <2>8 DEF Upto
    <3> QED BY <1>4, <2>1, <2>8, <3>1, <3>2, <3>3 DEF Fills, Upto, Slot
  <2> QED BY <2>1, <2>6, <2>7, <2>8, DueInExecute
<1>5. CASE executing
  <2>1. Upto(3) /\ state = "EXEC" /\ KindOf(de) = Kind[due] /\ runs(in) /\ de.pos = due
    BY <1>1, <1>5, DueInExecute
  <2>2. inflight = due + 2 /\ inflight # None /\ fd.valid /\ latch_into_fd(in)
    BY <1>1, <1>2, <2>1 DEF Upto, None, Slot
  <2>3. fd' = Latched(in) /\ de' = fd
    BY <1>1, <2>1, <2>2 DEF Advanced
  <2>4. Kind[due] \notin {"jump", "return"}
    BY <1>5, <2>1 DEF redirects, begins, Transfers
  <2>5. due' = due + 1 /\ due + 1 \in Positions
    BY <1>1, <1>2, <2>1, <2>4 DEF DueNext, Successor, At, SafeUse
  <2>6. Slot(fd', due' + 1) /\ Slot(de', due')
    BY <1>2, <1>3, <2>1, <2>2, <2>3, <2>5 DEF Upto, Slot
  <2>7. CASE Kind[due] \in Transfers
    <3>1. begins /\ state' = "DATA" /\ ~halt_boundary
      BY <1>1, <1>5, <2>1, <2>7 DEF begins, state_next, halt_boundary
    <3>2. inflight' = None /\ fetch_pc' = due' + 2
      BY <1>1, <1>2, <2>1, <2>5, <3>1 DEF Advanced, Upto
    <3>3. Interruptible(due')
      BY <1>2, <2>5, <2>7 DEF At, SafeUse
    <3> QED BY <1>5, <2>1, <2>3, <2>5, <2>6, <2>7, <3>1, <3>2, <3>3 DEF Executes, Between, Slot
  <2>8. CASE Kind[due] \notin Transfers
    <3>1. ~begins /\ state' = "EXEC" /\ halt_boundary
      BY <1>1, <1>5, <2>1, <2>8 DEF begins, state_next, halt_boundary
    <3>2. inflight' = due' + 2 /\ fetch_pc' = due' + 3
      BY <1>1, <1>2, <2>1, <2>5, <3>1 DEF Advanced, Upto
    <3> QED BY <1>5, <2>1, <2>3, <2>5, <2>6, <2>8, <3>1, <3>2 DEF Executes, Upto, Slot
  <2> QED BY <2>7, <2>8
<1>6. CASE state # "EXEC"
  <2>1. Between /\ ~executing /\ due' = due
    BY <1>1, <1>6, DueInExecute DEF DueNext
  <2>2. fd' = fd /\ de' = de
    BY <1>1, <1>6 DEF Advanced
  <2>3. CASE state' = "EXEC"
    <3>1. inflight' = due' + 2 /\ fetch_pc' = due' + 3
      BY <1>1, <1>2, <2>1, <2>3 DEF Advanced, halt_boundary, Between
    <3> QED BY <1>6, <2>1, <2>2, <2>3, <3>1 DEF Transferring, Upto, Between, Slot
  <2>4. CASE state' # "EXEC"
    <3>1. inflight' = None /\ fetch_pc' = due' + 2
      BY <1>1, <2>1, <2>4 DEF Advanced, halt_boundary, Between
    <3> QED BY <1>6, <2>1, <2>2, <2>4, <3>1 DEF Transferring, Between, Slot
  <2> QED BY <2>3, <2>4
<1> QED BY <1>4, <1>5, <1>6

(* A scanned instruction goes down the pipeline: offered, in Decode, in    *)
(* Execute, in its access; then nothing is left in the pipeline.           *)
Retires == ~inj'.active /\ scanned' = 1 /\ state' = "EXEC" /\ Drained'
Continues == inj'.active /\ inj'.kind = inj.kind
             /\ inflight' \in {inflight, None} /\ (InDecode \/ InExecute \/ InAccess)'

LEMMA InjectStep ==
    ASSUME NEW in, At(in), Injects(in)
    PROVE  /\ HistorySame /\ dim' = dim /\ irq_q' = FALSE /\ refill' = FALSE
           /\ UNCHANGED <<lr, host, armed, pending>> /\ irq_off' \in BOOLEAN /\ live' = TRUE
           /\ speed' \in BOOLEAN
           /\ fetch_pc' = fetch_pc /\ saved' = saved /\ inj' \in [active : BOOLEAN,
                           accepted : BOOLEAN, started : BOOLEAN, kind : Kinds]
           /\ UNCHANGED <<dbg_state, bp_halt, bp_resume>> /\ ~exc_wait'
           /\ Retires \/ Continues
<1>1. /\ in_debug_halt /\ in.dbgen /\ in.tap = "none" /\ ~core_halt(in) /\ in.clken
      /\ core_clken(in) /\ inj.active /\ in.dbgen \in BOOLEAN
      /\ ~irq_fires(in) /\ ~redirects /\ ~flush(in) /\ ~latch_into_fd(in) /\ ~runs(in)
      /\ executing <=> InExecute
      /\ inject_starts <=> InExecute
  BY Injecting DEF Injects, At, Inputs
<1>2. /\ Core(in) /\ HaltResponse(in) /\ HaltMachine(in) /\ Engine(in) /\ History(in)
      /\ Pipeline(in) /\ state' = state_next
  BY <1>1 DEF At, Edge, Core
<1>3. ~exception_entry(in) /\ DueNext(in) = due /\ ~Interrupt(in)
  BY <1>1, Masked DEF exception_entry, DueNext, At
<1>4. ~irq_q /\ ~refill /\ ~exc_wait /\ owed = irq_q /\ owed \in BOOLEAN /\ dim \in BOOLEAN
  BY <1>1, Types DEF At, HaltInv, Sessions
<1>5. HistorySame /\ dim' = dim
  BY <1>1, <1>2, <1>3, <1>4 DEF History, HistorySame
<1>6. irq_q' = FALSE /\ refill' = FALSE /\ lr' = lr /\ irq_off' \in BOOLEAN
  BY <1>1, <1>2, <1>3, <1>4 DEF Core, Retains
<1>7. saved' = saved /\ live' = TRUE
  BY <1>1, <1>2 DEF HaltResponse, Saves
<1>8. UNCHANGED <<dbg_state, bp_halt, bp_resume>> /\ ~exc_wait'
  BY <1>1, <1>2 DEF HaltMachine, Halted
<1>9. UNCHANGED host
  BY <1>1 DEF At, Allowed, Reprograms, CanScan
<1>10. UNCHANGED <<armed, pending>> /\ speed' \in BOOLEAN
       /\ inj' = IF inject_retire(in) THEN NoWord
                 ELSE [inj EXCEPT !.accepted = TRUE,
                                  !.started = ~inject_we /\ (@ \/ inject_starts)]
  BY <1>1, <1>2 DEF Engine, Discards
<1>11. inject_retire(in) <=> (inj.started \/ InExecute) /\ halt_boundary
  BY <1>1 DEF inject_retire
<1>12. inj \in [active : BOOLEAN, accepted : BOOLEAN, started : BOOLEAN, kind : Kinds]
  BY Types DEF At
<1>13. inj' \in [active : BOOLEAN, accepted : BOOLEAN, started : BOOLEAN, kind : Kinds]
  BY <1>10, <1>12 DEF NoWord, Kinds
<1>14. scanned' = IF inj'.active /\ ~inj.active THEN 0
                  ELSE IF core_clken(in) /\ inject_starts THEN scanned + 1 ELSE scanned
  BY <1>2 DEF History
<1>15. scanned' = IF InExecute THEN scanned + 1 ELSE scanned
  BY <1>1, <1>14
<1>16. IF inject_we THEN Accepted ELSE Advanced(in) /\ ~issue_fetch
  BY <1>1, <1>2 DEF Pipeline, issue_fetch
<1>17. de \in Slots /\ fd \in Slots
  BY Types DEF At
<1>18. CASE Offered
  <2>1. inject_we /\ ~InExecute /\ Accepted /\ ~inj.started
    BY <1>1, <1>16, <1>18 DEF inject_we, Offered, InExecute
  <2>2. state' = "EXEC" /\ scanned' = 0
    BY <1>1, <1>2, <1>15, <1>18, <2>1 DEF Offered, state_next, begins
  <2>3. inj'.active /\ inj'.kind = inj.kind /\ inj'.accepted /\ ~inj'.started
    BY <1>1, <1>10, <1>11, <1>12, <2>1
  <2>4. fd'.valid /\ fd'.injected /\ ~fd'.bp /\ ~de'.valid /\ inflight' = inflight
        /\ fetch_pc' = fetch_pc
    BY <1>17, <2>1 DEF Accepted, Injected, Empty, Slots
  <2>5. InDecode'
    BY <2>2, <2>3, <2>4 DEF InDecode
  <2> QED BY <1>5, <1>6, <1>7, <1>8, <1>9, <1>10, <1>13, <2>3, <2>4, <2>5 DEF Continues
<1>19. CASE InDecode
  <2>1. ~inject_we /\ ~InExecute /\ Advanced(in) /\ ~issue_fetch /\ ~inj.started
    BY <1>1, <1>16, <1>19 DEF inject_we, InDecode, InExecute
  <2>2. state' = "EXEC" /\ scanned' = 0
    BY <1>1, <1>2, <1>15, <1>19, <2>1 DEF InDecode, state_next, begins
  <2>3. inj'.active /\ inj'.kind = inj.kind /\ inj'.accepted /\ ~inj'.started
    BY <1>1, <1>10, <1>11, <1>12, <2>1
  <2>4. de' = fd /\ fd' = Empty /\ inflight' = None /\ fetch_pc' = fetch_pc
    BY <1>1, <1>19, <2>1 DEF Advanced, InDecode
  <2>5. InExecute'
    BY <1>19, <2>2, <2>3, <2>4 DEF InExecute, InDecode, Empty
  <2> QED BY <1>5, <1>6, <1>7, <1>8, <1>9, <1>10, <1>13, <2>3, <2>4, <2>5 DEF Continues
<1>20. ASSUME InExecute \/ InAccess
       PROVE  /\ ~inject_we /\ fetch_pc' = fetch_pc /\ inflight' = None
              /\ ~fd'.valid /\ ~de'.valid /\ scanned' = 1
              /\ inject_retire(in) <=> state' = "EXEC"
  <2>1. ~inject_we /\ Advanced(in) /\ ~issue_fetch /\ ~fd.valid
    BY <1>16, <1>20 DEF inject_we, InExecute, InAccess
  <2>2. fetch_pc' = fetch_pc /\ inflight' = None
    BY <2>1 DEF Advanced
  <2>3. ~fd'.valid
    BY <1>1, <2>1 DEF Advanced, Empty
  <2>4. ~de'.valid
    <3>1. CASE state = "EXEC"
      BY <1>17, <2>1, <3>1 DEF Advanced, Slots
    <3>2. CASE state # "EXEC"
      BY <1>20, <2>1, <3>2 DEF Advanced, InExecute, InAccess
    <3> QED BY <3>1, <3>2
  <2>5. scanned' = 1
    BY <1>15, <1>20 DEF InExecute, InAccess
  <2>6. inject_retire(in) <=> state' = "EXEC"
    BY <1>2, <1>11, <1>20 DEF halt_boundary, InExecute, InAccess
  <2> QED BY <2>1, <2>2, <2>3, <2>4, <2>5, <2>6
<1>21. CASE InExecute \/ InAccess
  <2>1. CASE state' = "EXEC"
    BY <1>5, <1>6, <1>7, <1>8, <1>9, <1>10, <1>13, <1>20, <1>21, <2>1
       DEF Retires, Drained, NoWord
  <2>2. CASE state' # "EXEC"
    <3>1. inj' = [inj EXCEPT !.accepted = TRUE, !.started = TRUE]
      BY <1>1, <1>10, <1>20, <1>21, <2>2 DEF InAccess
    <3>2. InAccess' /\ inj'.active /\ inj'.kind = inj.kind
      BY <1>1, <1>12, <1>20, <1>21, <2>2, <3>1 DEF InAccess
    <3> QED BY <1>5, <1>6, <1>7, <1>8, <1>9, <1>10, <1>13, <1>20, <1>21, <3>2 DEF Continues
  <2> QED BY <2>1, <2>2
<1>22. Phases
  BY DEF At, HaltInv
<1> QED BY <1>1, <1>18, <1>19, <1>21, <1>22 DEF Phases
-----------------------------------------------------------------------------
(* The halt machine and the engine on each kind of step.                   *)
LEMMA StayIce ==
    ASSUME NEW in, At(in), Stays(in)
    PROVE  \/ ~in.clken /\ UNCHANGED ice
           \/ /\ in.clken /\ in_debug_halt /\ in.dbgen /\ ~exc_wait'
              /\ \/ UNCHANGED <<dbg_state, bp_halt, bp_resume>>
                 \/ /\ in.tap = "restart" /\ ~pending /\ dbg_state' = "RUNNING"
                    /\ bp_resume' = bp_halt /\ bp_halt' = bp_halt
           \/ /\ in.clken /\ dbg_state = "RUNNING" /\ in.dbgen /\ breakpoint_execute
              /\ ~breakpoint_interrupt(in) /\ ~bp_resume /\ exc_wait /\ irq_q
              /\ UNCHANGED <<dbg_state, exc_wait, bp_halt, bp_resume>>
           \/ /\ in.clken /\ dbg_state = "RUNNING" /\ in.dbgen /\ breakpoint_execute
              /\ ~breakpoint_interrupt(in) /\ ~bp_resume /\ ~exc_wait /\ ~irq_q /\ ~refill
              /\ dbg_state' = "HALTED" /\ bp_halt' = TRUE /\ exc_wait' = exc_wait
<1>1. HaltMachine(in) /\ (in.clken => core_halt(in))
  BY StayStep DEF At, Edge
<1>2. CASE ~in.clken
  BY <1>1, <1>2 DEF HaltMachine
<1>3. CASE in.clken /\ in_debug_halt
  <2>1. Halted(in) /\ in.dbgen
    BY <1>1, <1>3 DEF HaltMachine, core_halt
  <2> QED BY <1>3, <2>1 DEF Halted
<1>4. CASE in.clken /\ ~in_debug_halt
  <2>1. Running(in) /\ in.dbgen /\ breakpoint_stop(in) /\ Retained /\ ~core_clken(in)
    BY <1>1, <1>4 DEF HaltMachine, core_halt, At, HaltInv, Stays
  <2>2. breakpoint_execute /\ ~breakpoint_interrupt(in) /\ ~bp_resume
        /\ dbg_state = "RUNNING" /\ de.valid /\ state = "EXEC" /\ ~vector_ready(in)
    BY <2>1 DEF breakpoint_stop, breakpoint_execute, executing, vector_ready, latch_into_fd
  <2>3. ~refill
    BY <2>1, <2>2 DEF Retained
  <2>4. CASE exc_wait
    BY <1>4, <2>1, <2>2, <2>3, <2>4 DEF Retained, Running
  <2>5. CASE ~exc_wait
    BY <1>4, <2>1, <2>2, <2>3, <2>5 DEF Retained, Running
  <2> QED BY <2>4, <2>5
<1> QED BY <1>2, <1>3, <1>4

(* The engine starts a scanned instruction only in debug state.            *)
LEMMA StayEngine ==
    ASSUME NEW in, At(in), Stays(in)
    PROVE  /\ \/ inj' = inj
              \/ /\ in_debug_halt /\ ~inj.active
                 /\ inj' \in [active : {TRUE}, accepted : {FALSE}, started : {FALSE},
                              kind : {"alu", "load"}]
                 /\ in.tap = "scan" \/ pending
           /\ inj' \in [active : BOOLEAN, accepted : BOOLEAN, started : BOOLEAN, kind : Kinds]
           /\ scanned' = IF inj'.active /\ ~inj.active THEN 0 ELSE scanned
           /\ armed' \in BOOLEAN /\ pending' \in BOOLEAN /\ speed' \in BOOLEAN
           /\ armed' \/ pending' => armed \/ pending \/ inj'.active
           /\ armed' \/ pending' \/ inj'.active => armed \/ pending \/ inj.active \/ in_debug_halt
           /\ in.tap = "none" => UNCHANGED <<armed, pending, inj>>
           /\ in.tap = "restart" /\ ~pending => inj' = inj /\ ~armed' /\ ~pending'
<1>1. Engine(in) /\ History(in) /\ ~core_clken(in) /\ in \in Inputs
  BY DEF At, Edge, Stays
<1>2. /\ armed \in BOOLEAN /\ pending \in BOOLEAN /\ speed \in BOOLEAN /\ in.mark \in BOOLEAN
      /\ inj \in [active : BOOLEAN, accepted : BOOLEAN, started : BOOLEAN, kind : Kinds]
      /\ in.word \in {"alu", "load"} /\ {"alu", "load"} \subseteq Kinds
  BY <1>1, Types DEF At, Inputs, Kinds
<1>3. scanned' = IF inj'.active /\ ~inj.active THEN 0 ELSE scanned
  BY <1>1 DEF History
<1>4. ~(in.clken /\ inj.active)
  BY <1>1, Injecting DEF At
<1>5. CASE in.tap = "scan"
  <2>1. in_debug_halt /\ ~inj.active /\ ~pending
    BY <1>5, Scans DEF At, Allowed
  <2>2. CASE armed
    <3>1. pending' = (in.word \in Transfers) /\ armed' = FALSE /\ inj' = inj /\ speed' = speed
      BY <1>1, <1>5, <2>1, <2>2 DEF Engine, Discards
    <3>2. (in.word \in Transfers) \in BOOLEAN /\ ~(inj'.active /\ ~inj.active)
      BY <2>1, <3>1
    <3>3. pending' \in BOOLEAN /\ armed' \in BOOLEAN /\ speed' \in BOOLEAN
      BY <1>2, <3>1, <3>2
    <3>4. scanned' = IF inj'.active /\ ~inj.active THEN 0 ELSE scanned
      BY <1>3
    <3>5. inj' \in [active : BOOLEAN, accepted : BOOLEAN, started : BOOLEAN, kind : Kinds]
      BY <1>2, <3>1
    <3> QED BY <1>5, <2>1, <2>2, <3>1, <3>3, <3>4, <3>5
  <2>3. CASE ~armed
    <3>1. inj' = [active |-> TRUE, accepted |-> FALSE, started |-> FALSE, kind |-> in.word]
          /\ armed' = in.mark /\ pending' = pending /\ speed' = speed
      BY <1>1, <1>5, <2>1, <2>3 DEF Engine, Activate, Discards
    <3> QED BY <1>2, <1>3, <1>5, <2>1, <3>1
  <2> QED BY <2>2, <2>3
<1>6. CASE in.tap = "restart"
  <2>1. in_debug_halt /\ ~inj.active
    BY <1>6, Scans
  <2>2. CASE pending
    <3>1. inj' = [active |-> TRUE, accepted |-> FALSE, started |-> FALSE, kind |-> "load"]
          /\ armed' = armed /\ pending' = FALSE /\ speed' = TRUE
      BY <1>1, <1>6, <2>1, <2>2 DEF Engine, Activate, Discards
    <3> QED BY <1>2, <1>3, <1>6, <2>1, <2>2, <3>1
  <2>3. CASE ~pending
    <3>1. inj' = inj /\ armed' = FALSE /\ pending' = pending /\ speed' = speed
      BY <1>1, <1>4, <1>6, <2>1, <2>3 DEF Engine, Discards
    <3> QED BY <1>2, <1>3, <1>6, <2>1, <2>3, <3>1
  <2> QED BY <2>2, <2>3
<1>7. CASE in.tap # "scan" /\ in.tap # "restart"
  <2>1. UNCHANGED engine
    BY <1>1, <1>4, <1>7 DEF Engine, Discards
  <2> QED BY <1>2, <1>3, <1>7, <2>1 DEF engine
<1> QED BY <1>5, <1>6, <1>7

(* A breakpointed instruction that an interrupt meets completes on the     *)
(* edge it executes.                                                       *)
LEMMA BreakpointBoundary ==
    ASSUME NEW in, At(in), Moves(in), breakpoint_execute, Interrupt(in)
    PROVE  EdgeClass = "boundary" /\ halt_boundary /\ ~begins
<1>1. Tags /\ Clean /\ executing /\ de.valid /\ state = "EXEC" /\ bps \in Breakable
  BY CleanRuns, Types DEF At, HaltInv, breakpoint_execute, executing
<1>2. de.pos \in bps /\ de.pos = due
  BY <1>1, DueInExecute DEF Tags, Tagged, breakpoint_execute
<1>3. KindOf(de) \notin Transfers
  BY <1>1, <1>2, DueInExecute DEF At, SafeUse, Interruptible, Interrupt, Edge
<1> QED BY <1>1, <1>3 DEF EdgeClass, halt_boundary, state_next, begins

(* An interrupt not entered on its edge came within an instruction.        *)
LEMMA WithinOnly ==
    ASSUME NEW in, At(in), Moves(in), Interrupt(in), ~irq_fires(in)
    PROVE  /\ ~halt_boundary /\ ~breakpoint_execute
           /\ collision(in) => entry_req(in) /\ in.dbgen /\ dbg_state = "RUNNING" /\ ~exc_wait
<1>1. EdgeClass \in {"boundary", "within"} /\ EdgeClass # "boundary"
  BY DEF Interrupt, At, Edge, SafeUse, irq_fires
<1>2. ~halt_boundary
  BY <1>1 DEF EdgeClass
<1>3. ~breakpoint_execute
  BY <1>2, BreakpointBoundary
<1>4. ASSUME collision(in)
      PROVE entry_req(in) /\ in.dbgen /\ dbg_state = "RUNNING" /\ ~exc_wait
  BY <1>3, <1>4, CleanRuns DEF collision, entry_req, Interrupt
<1> QED BY <1>2, <1>3, <1>4

(* The vector arrives on the edge after the entry.                         *)
LEMMA RefillEnds ==
    ASSUME NEW in, At(in), Moves(in), ~irq_fires(in)
    PROVE  ~refill' /\ (refill => vector_ready(in) /\ halt_boundary /\ ~executing /\ ~irq_q)
<1>1. refill' = (refill /\ ~vector_ready(in)) /\ Retained /\ refill \in BOOLEAN
  BY MoveCore, Types DEF At, HaltInv
<1>2. ASSUME refill PROVE vector_ready(in) /\ halt_boundary /\ ~executing /\ ~irq_q
  <2>1. state = "EXEC" /\ ~de.valid /\ inflight # None
    BY <1>1, <1>2 DEF Retained
  <2>2. ~executing /\ ~redirects /\ ~begins
    BY <2>1 DEF executing, redirects, begins
  <2>3. vector_ready(in)
    BY <1>2, <2>1, <2>2 DEF vector_ready, latch_into_fd, flush, Moves
  <2> QED BY <2>1, <2>2, <2>3 DEF halt_boundary, state_next, irq_fires
<1> QED BY <1>1, <1>2

(* What the halt machine may do while the program moves: halt at a         *)
(* boundary, or wait for the vector of an interrupt that is retained or    *)
(* entered.                                                                *)
HaltsCleanly(in) ==
    /\ dbg_state' \in {"RUNNING", "HALTED"}
    /\ halt_pending' \in BOOLEAN /\ exc_wait' \in BOOLEAN
    /\ bp_halt' \in BOOLEAN /\ bp_resume' \in BOOLEAN
    /\ bp_halt' => bp_halt
    /\ bp_resume' => bp_resume /\ in.dbgen /\ dbg_state = "RUNNING" /\ ~breakpoint_execute
    /\ dbg_state' = "RUNNING" /\ bp_halt' => bp_resume'
    /\ dbg_state' = "HALTED" => ~bp_halt' /\ in.dbgen /\ dbg_state = "RUNNING" /\ ~exc_wait'
                                /\ ~irq_fires(in) /\ halt_boundary /\ ~Retains(in)
    /\ exc_wait' => irq_fires(in) \/ (Retains(in) /\ in.dbgen) \/ (exc_wait /\ ~vector_ready(in))
    /\ Retains(in) /\ ~irq_fires(in) =>
         /\ dbg_state' = "RUNNING" /\ (halt_boundary => state # "EXEC")
         /\ exc_wait' \/ (halt_pending' /\ ~halt_boundary)

LEMMA MoveIce ==
    ASSUME NEW in, At(in), Moves(in)
    PROVE  HaltsCleanly(in)
<1>1. /\ in.clken /\ ~core_halt(in) /\ ~inj.active /\ HaltMachine(in) /\ core_clken(in)
      /\ dbg_state = "RUNNING" \/ (in_debug_halt /\ ~in.dbgen)
      /\ irq_q => in.dbgen /\ dbg_state = "RUNNING"
  BY CleanRuns DEF At, Edge, Moves
<1>2. /\ halt_pending \in BOOLEAN /\ exc_wait \in BOOLEAN /\ bp_halt \in BOOLEAN
      /\ bp_resume \in BOOLEAN /\ irq_q \in BOOLEAN
      /\ Retained /\ Resume
  BY Types DEF At, HaltInv
<1>3. exception_entry(in) <=> irq_fires(in)
  BY <1>1 DEF exception_entry
<1>4. exception_pending(in) <=> Retains(in)
  BY DEF exception_pending, Retains
<1>5. Retains(in) /\ ~irq_fires(in) =>
        /\ in.dbgen /\ dbg_state = "RUNNING" /\ ~breakpoint_execute
        /\ (irq_q /\ state # "EXEC") \/ (entry_req(in) /\ ~halt_boundary /\ ~exc_wait)
  <2>1. CASE irq_q /\ ~irq_fires(in)
    BY <1>1, <2>1 DEF irq_fires, breakpoint_execute, executing
  <2>2. CASE ~irq_q /\ Retains(in) /\ ~irq_fires(in)
    <3>1. collision(in) /\ Interrupt(in)
      BY <2>2 DEF Retains
    <3>2. ~halt_boundary /\ ~breakpoint_execute /\ entry_req(in) /\ in.dbgen
          /\ dbg_state = "RUNNING" /\ ~exc_wait
      BY <2>2, <3>1, WithinOnly
    <3> QED BY <3>2
  <2> QED BY <2>1, <2>2
<1>6. breakpoint_execute => (bp_resume \/ irq_fires(in) \/ ~in.dbgen)
  <2>1. ASSUME breakpoint_execute, ~bp_resume, in.dbgen PROVE irq_fires(in)
    <3>1. breakpoint_interrupt(in)
      BY <1>1, <2>1 DEF core_halt, breakpoint_stop
    <3> QED BY <2>1, <3>1, BreakpointBoundary DEF breakpoint_interrupt, irq_fires
  <2> QED BY <2>1
<1>7. vector_ready(in) => ~irq_fires(in) /\ state = "EXEC"
  BY DEF vector_ready, latch_into_fd, flush
<1>8. CASE ~in.dbgen
  <2>1. /\ halt_pending' = FALSE /\ exc_wait' = FALSE /\ bp_halt' = FALSE /\ bp_resume' = FALSE
        /\ dbg_state' = "RUNNING"
    <3>1. CASE dbg_state = "RUNNING"
      BY <1>1, <1>8, <3>1 DEF HaltMachine, Running, in_debug_halt
    <3>2. CASE in_debug_halt
      BY <1>1, <1>8, <3>2 DEF HaltMachine, Halted
    <3> QED BY <1>1, <3>1, <3>2
  <2> QED BY <1>1, <1>5, <1>8, <2>1 DEF HaltsCleanly
<1>9. CASE in.dbgen /\ exc_wait
  <2>1. dbg_state = "RUNNING" /\ Running(in) /\ ~Interrupt(in)
    BY <1>1, <1>9 DEF HaltMachine, in_debug_halt, Interrupt
  <2>2. halt_pending' = FALSE /\ bp_resume' = bp_resume
        /\ IF vector_ready(in)
           THEN dbg_state' = "HALTED" /\ exc_wait' = FALSE /\ bp_halt' = FALSE
           ELSE UNCHANGED <<dbg_state, exc_wait, bp_halt>>
    BY <1>9, <2>1 DEF Running
  <2>3. ~bp_resume /\ ~bp_halt
    BY <1>2, <1>9, <2>1 DEF Resume, Running0
  <2>4. vector_ready(in) => ~Retains(in) /\ halt_boundary
    <3>1. ASSUME vector_ready(in) PROVE ~Retains(in) /\ halt_boundary
      BY <1>7, <2>1, <3>1, RefillEnds DEF vector_ready, Retains
    <3> QED BY <3>1
  <2> QED BY <1>1, <1>2, <1>5, <1>7, <1>9, <2>1, <2>2, <2>3, <2>4 DEF HaltsCleanly
<1>10. CASE in.dbgen /\ ~exc_wait
  <2>1. dbg_state = "RUNNING" /\ Running(in)
    BY <1>1, <1>10 DEF HaltMachine, in_debug_halt
  <2>2. bp_halt => bp_resume
    BY <1>2, <2>1 DEF Resume, Running0
  <2>3. AtBoundary(in) /\ halt_boundary /\ (bp_resume' => bp_resume /\ ~breakpoint_execute)
        /\ bp_resume' \in BOOLEAN => HaltsCleanly(in)
    BY <1>1, <1>2, <1>3, <1>4, <1>5, <1>10, <2>1 DEF AtBoundary, HaltsCleanly
  <2>4. CASE breakpoint_execute /\ bp_resume
    <3>1. bp_resume' = FALSE
          /\ IF entry_req(in) /\ halt_boundary THEN AtBoundary(in)
             ELSE /\ bp_halt' = FALSE
                  /\ halt_pending' = (halt_pending \/ entry_req(in))
                  /\ UNCHANGED <<dbg_state, exc_wait>>
      BY <1>10, <2>1, <2>4 DEF Running
    <3>2. CASE entry_req(in) /\ halt_boundary
      BY <2>3, <3>1, <3>2
    <3>3. CASE ~(entry_req(in) /\ halt_boundary)
      BY <1>1, <1>2, <1>5, <1>10, <2>1, <2>4, <3>1, <3>3 DEF HaltsCleanly, entry_req
    <3> QED BY <3>2, <3>3
  <2>5. CASE breakpoint_execute /\ ~bp_resume
    <3>1. irq_fires(in) /\ breakpoint_interrupt(in)
      BY <1>1, <1>6, <1>10, <2>1, <2>5 DEF core_halt, breakpoint_stop
    <3>2. halt_pending' = FALSE /\ exc_wait' = TRUE /\ bp_halt' = FALSE
          /\ UNCHANGED <<dbg_state, bp_resume>>
      BY <1>10, <2>1, <2>5, <3>1 DEF Running
    <3> QED BY <1>1, <1>2, <2>1, <2>5, <3>1, <3>2 DEF HaltsCleanly
  <2>6. CASE ~breakpoint_execute
    <3>1. bp_resume' = bp_resume
          /\ IF (halt_pending \/ entry_req(in)) /\ halt_boundary THEN AtBoundary(in)
             ELSE /\ halt_pending' = (halt_pending \/ entry_req(in))
                  /\ UNCHANGED <<dbg_state, exc_wait, bp_halt>>
      BY <1>10, <2>1, <2>6 DEF Running
    <3>2. CASE (halt_pending \/ entry_req(in)) /\ halt_boundary
      BY <1>2, <2>3, <2>6, <3>1, <3>2
    <3>3. CASE ~((halt_pending \/ entry_req(in)) /\ halt_boundary)
      <4>1. Retains(in) /\ ~irq_fires(in) => halt_pending' /\ ~halt_boundary
        <5>1. irq_q => halt_pending \/ exc_wait
          BY <1>2 DEF Retained
        <5> QED BY <1>2, <1>5, <1>10, <3>1, <3>3, <5>1
      <4>2. halt_pending' \in BOOLEAN
          BY <3>1, <3>3
      <4> QED BY <1>1, <1>2, <1>5, <1>10, <2>1, <2>2, <2>6, <3>1, <3>3, <4>1, <4>2
              DEF HaltsCleanly
    <3> QED BY <3>2, <3>3
  <2> QED BY <2>4, <2>5, <2>6
<1> QED BY <1>2, <1>8, <1>9, <1>10
-----------------------------------------------------------------------------
(* Each part of the invariant is kept.                                     *)
LEMMA StepKinds ==
    ASSUME NEW in, At(in)
    PROVE  \/ in.tap = "load" \/ Stays(in) \/ Injects(in)
           \/ Moves(in) /\ irq_fires(in)
           \/ Moves(in) /\ ~irq_fires(in) /\ redirects
           \/ Moves(in) /\ ~irq_fires(in) /\ ~redirects
BY DEF Stays, Injects, Moves

(* Debugger and engine are at rest when the program moves.                 *)
LEMMA MoveClean ==
    ASSUME NEW in, At(in), Moves(in)
    PROVE  /\ ~inj.active /\ inj' = inj /\ ~armed /\ ~pending /\ UNCHANGED <<armed, pending, host>>
           /\ ~dirty /\ ~inj'.active /\ ~dirty' /\ Clean /\ Clean'
<1>1. Clean /\ UNCHANGED host /\ ~armed /\ ~pending /\ inj' = inj /\ UNCHANGED <<armed, pending>>
  BY CleanRuns, MoveCore
<1>2. Clean'
  BY <1>1 DEF Clean, host
<1> QED BY <1>1, <1>2 DEF Clean, host

(* History and types of the history.                                       *)
LEMMA HistoryKept ==
    ASSUME NEW in, At(in)
    PROVE  HistoryTyped'
<1>1. stray' = FALSE /\ passed' = FALSE
  BY Behaves
<1>2. /\ due \in Positions /\ after \in Positions /\ scanned \in Nat /\ dim \in BOOLEAN
      /\ lr = after /\ owed = irq_q /\ irq_q \in BOOLEAN /\ in.dbgen \in BOOLEAN
      /\ Vector \in Positions
  BY Types, Program DEF At, Inputs
<1>3. CASE in.tap = "load"
  BY <1>1, <1>2, <1>3, LoadStep DEF HistoryTyped, core
<1>4. CASE Stays(in)
  <2>1. scanned' \in Nat
    <3>1. scanned' = IF inj'.active /\ ~inj.active THEN 0 ELSE scanned
      BY <1>4, StayEngine
    <3> QED BY <1>2, <3>1
  <2>2. dim' \in BOOLEAN
    BY <1>2, <1>4, StayStep
  <2> QED BY <1>1, <1>2, <1>4, <2>1, <2>2, StayStep DEF HistoryTyped, HistorySame
<1>5. CASE Injects(in)
  <2>1. Retires \/ Continues
    BY <1>5, InjectStep
  <2>2. scanned' \in {0, 1}
    BY <2>1 DEF Retires, Continues, InDecode, InExecute, InAccess
  <2>3. irq_q' = FALSE /\ owed' = owed
    BY <1>5, InjectStep DEF HistorySame
  <2>4. owed = FALSE
    BY <1>2, <1>5, Injecting DEF At, HaltInv, Sessions, Injects
  <2>5. due' = due /\ after' = after /\ lr' = lr /\ dim' = dim
    BY <1>5, InjectStep DEF HistorySame
  <2>6. due' \in Positions /\ after' \in Positions /\ lr' = after' /\ dim' \in BOOLEAN
    BY <1>2, <2>5
  <2>7. scanned' \in Nat
    BY <2>2
  <2>8. owed' = irq_q'
    BY <2>3, <2>4, Zenon
  <2> QED BY <1>1, <2>6, <2>7, <2>8 DEF HistoryTyped
<1>6. CASE Moves(in)
  <2>1. scanned' \in Nat /\ dim' \in BOOLEAN
    BY <1>2, <1>6, MoveCore
  <2>2. owed' = irq_q'
    <3>1. owed' = ((owed \/ (collision(in) /\ Interrupt(in))) /\ ~irq_fires(in))
          /\ irq_q' = (~irq_fires(in) /\ Retains(in))
      BY <1>6, MoveCore
    <3>2. Retains(in) <=> (owed \/ (collision(in) /\ Interrupt(in)))
      BY <1>2 DEF Retains
    <3> QED BY <3>1, <3>2
  <2>3. due' \in Positions /\ after' \in Positions /\ lr' = after'
    <3>1. CASE irq_fires(in)
      BY <1>2, <1>6, <3>1, EnterStep
    <3>2. CASE ~irq_fires(in) /\ redirects
      BY <1>2, <1>6, <3>2, RedirectStep
    <3>3. CASE ~irq_fires(in) /\ ~redirects
      BY <1>2, <1>6, <3>3, AdvanceStep, AdvanceShape DEF Fills, Executes, Transferring
    <3> QED BY <3>1, <3>2, <3>3
  <2> QED BY <1>1, <2>1, <2>2, <2>3 DEF HistoryTyped
<1> QED BY <1>3, <1>4, <1>5, <1>6, StepKinds

(* The slots hold the stretch of the program that is due.                  *)
LEMMA StreamKept ==
    ASSUME NEW in, At(in)
    PROVE  Stream'
<1>1. CASE in.tap = "load"
  <2>1. ~fd'.valid /\ ~de'.valid /\ inflight' = None /\ fetch_pc' = due' /\ UNCHANGED core
    BY <1>1, LoadStep
  <2>2. state' = "EXEC"
    BY <1>1, <2>1, Scans DEF core
  <2>3. Upto(0)'
    BY <2>1 DEF Upto
  <2> QED BY <2>2, <2>3 DEF Stream
<1>2. CASE Stays(in)
  <2>1. ASSUME Clean' PROVE IF state' = "EXEC" THEN \E n \in 0 .. 3 : Upto(n)' ELSE Between'
    <3>1. Clean /\ Stream
      BY <1>2, <2>1, StayStep DEF At, HaltInv
    <3>2. UNCHANGED <<fetch_pc, inflight, fd, de, state, due>>
      BY <1>2, StayStep DEF HistorySame
    <3>3. CASE state = "EXEC"
      <4>1. PICK n \in 0 .. 3 : Upto(n)
        BY <3>1, <3>3 DEF Stream
      <4>2. Upto(n)'
        BY <3>2, <4>1 DEF Upto, Slot
      <4> QED BY <3>2, <3>3, <4>2
    <3>4. CASE state # "EXEC"
      BY <3>1, <3>2, <3>4 DEF Stream, Between, Slot
    <3> QED BY <3>3, <3>4
  <2> QED BY <2>1 DEF Stream
<1>3. CASE Injects(in)
  <2>1. ASSUME Clean' PROVE state' = "EXEC" /\ Upto(0)'
    <3>1. ~inj'.active /\ ~dirty' /\ Retires /\ dirty' = dirty
      BY <1>3, <2>1, InjectStep DEF Clean, Continues, host
    <3>2. fetch_pc = due
      BY <1>3, <3>1 DEF At, HaltInv, Phases, Injects
    <3>3. fetch_pc' = due' /\ due' = due
      BY <1>3, <3>2, InjectStep DEF HistorySame
    <3> QED BY <3>1, <3>3 DEF Retires, Drained, Upto
  <2> QED BY <2>1 DEF Stream
<1>4. CASE Moves(in) /\ irq_fires(in)
  <2>1. state' = "EXEC" /\ Upto(1)'
    BY <1>4, EnterStep, Types DEF Upto, Empty, Slots, At
  <2> QED BY <2>1 DEF Stream
<1>5. CASE Moves(in) /\ ~irq_fires(in) /\ redirects
  <2>1. state' = "EXEC" /\ Upto(1)'
    BY <1>5, RedirectStep, Types DEF Upto, Empty, Slots, At
  <2> QED BY <2>1 DEF Stream
<1>6. CASE Moves(in) /\ ~irq_fires(in) /\ ~redirects
  BY <1>6, AdvanceShape DEF Stream, Fills, Executes, Transferring
<1> QED BY <1>1, <1>2, <1>3, <1>4, <1>5, <1>6, StepKinds

(* Running and debug state leave nothing to each other.                    *)
LEMMA SessionsKept ==
    ASSUME NEW in, At(in)
    PROVE  Sessions'
<1>1. Sessions /\ in \in Inputs /\ dbg_state \in {"RUNNING", "HALTED"}
  BY Types DEF At, HaltInv
<1>2. CASE in.tap = "load"
  <2>1. in_debug_halt /\ ~irq_q /\ ~refill /\ state = "EXEC" /\ dbg_state' = dbg_state
        /\ UNCHANGED core /\ ~exc_wait'
    BY <1>2, Scans, LoadStep
  <2> QED BY <2>1 DEF Sessions, Running0, in_debug_halt, core
<1>3. CASE Stays(in)
  <2>1. UNCHANGED <<irq_q, refill, state>> /\ ~core_clken(in) /\ in.tap # "load"
    BY <1>3, StayStep DEF Stays
  <2>2. inj' = inj \/ inj'.active = TRUE
    <3>1. \/ inj' = inj
          \/ inj' \in [active : {TRUE}, accepted : {FALSE}, started : {FALSE},
                      kind : {"alu", "load"}]
      BY <1>3, StayEngine
    <3> QED BY <3>1
  <2>3. CASE dbg_state = "RUNNING" /\ dbg_state' = "RUNNING"
    <3>1. in.tap = "none"
      BY <2>3, Scans DEF in_debug_halt
    <3>2. UNCHANGED <<armed, pending, inj>>
      BY <1>3, <3>1, StayEngine
    <3>3. UNCHANGED host
      BY <2>3, <3>1 DEF At, Allowed, Reprograms, CanScan, in_debug_halt
    <3> QED BY <1>1, <2>3, <3>2, <3>3 DEF Sessions, Running0, host, in_debug_halt
  <2>4. CASE in_debug_halt /\ dbg_state' = "RUNNING"
    <3>1. in.tap = "restart" /\ ~pending
      BY <1>3, <2>4, StayIce DEF ice, in_debug_halt
    <3>2. inj' = inj /\ ~armed' /\ ~pending' /\ ~inj.active
      BY <1>3, <3>1, StayEngine, Scans
    <3>3. ~dirty'
      BY <3>1 DEF At, Allowed, host
    <3> QED BY <2>4, <3>2, <3>3 DEF Sessions, Running0, in_debug_halt
  <2>5. CASE in_debug_halt /\ dbg_state' # "RUNNING"
    <3>1. ~irq_q /\ ~refill /\ ~exc_wait /\ (~inj.active => state = "EXEC")
      BY <1>1, <2>5 DEF Sessions
    <3>2. ~exc_wait'
      BY <1>3, <2>5, <3>1, StayIce DEF ice, in_debug_halt
    <3> QED BY <2>1, <2>2, <2>5, <3>1, <3>2 DEF Sessions, Running0
  <2>6. CASE dbg_state = "RUNNING" /\ dbg_state' # "RUNNING"
    <3>1. breakpoint_execute /\ ~exc_wait /\ ~irq_q /\ ~refill /\ exc_wait' = exc_wait
      BY <1>3, <2>6, StayIce DEF ice, in_debug_halt
    <3> QED BY <2>1, <2>6, <3>1 DEF Sessions, Running0, breakpoint_execute, executing
  <2> QED BY <1>1, <2>3, <2>4, <2>5, <2>6 DEF in_debug_halt
<1>4. CASE Injects(in)
  <2>1. in_debug_halt /\ dbg_state' = dbg_state /\ ~exc_wait' /\ ~irq_q' /\ ~refill'
    BY <1>4, Injecting, InjectStep DEF Injects
  <2>2. ~inj'.active => state' = "EXEC"
    BY <1>4, InjectStep DEF Retires, Continues
  <2> QED BY <2>1, <2>2 DEF Sessions, Running0, in_debug_halt
<1>5. CASE Moves(in)
  <2>1. /\ dbg_state' = "HALTED" => ~exc_wait' /\ ~irq_fires(in) /\ halt_boundary /\ ~Retains(in)
    BY <1>5, MoveIce DEF HaltsCleanly
  <2>2. dbg_state' = "HALTED" => ~irq_q' /\ ~refill' /\ state' = "EXEC"
    <3>1. ASSUME dbg_state' = "HALTED" PROVE ~irq_q' /\ ~refill' /\ state' = "EXEC"
      BY <1>5, <2>1, <3>1, MoveCore, RefillEnds DEF halt_boundary
    <3> QED BY <3>1
  <2>3. ~armed' /\ ~pending' /\ ~inj'.active /\ ~dirty'
    BY <1>5, MoveClean
  <2> QED BY <2>1, <2>2, <2>3 DEF Sessions, Running0, in_debug_halt
<1> QED BY <1>2, <1>3, <1>4, <1>5, StepKinds

(* A marked word waits on a drained pipeline.                              *)
LEMMA WaitingKept ==
    ASSUME NEW in, At(in)
    PROVE  Waiting'
<1>1. CASE in.tap = "load"
  <2>1. ~armed' /\ ~pending'
    BY <1>1, LoadStep DEF engine, At, Allowed
  <2> QED BY <2>1 DEF Waiting
<1>2. CASE Stays(in)
  <2>1. ASSUME armed' \/ pending', Clean' PROVE Drained'
    <3>1. Clean /\ UNCHANGED <<fd, de, inflight>>
      BY <1>2, <2>1, StayStep
    <3>2. armed \/ pending
      BY <1>2, <2>1, StayEngine DEF Clean
    <3> QED BY <3>1, <3>2 DEF Waiting, Drained, At, HaltInv
  <2> QED BY <2>1 DEF Waiting
<1>3. CASE Injects(in)
  <2>1. Retires \/ Continues
    BY <1>3, InjectStep
  <2> QED BY <2>1 DEF Retires, Continues, Waiting, Clean
<1>4. CASE Moves(in)
  BY <1>4, MoveClean DEF Waiting
<1> QED BY <1>1, <1>2, <1>3, <1>4, StepKinds

(* A scanned instruction goes through its phases.                          *)
LEMMA PhasesKept ==
    ASSUME NEW in, At(in)
    PROVE  Phases'
<1>1. CASE in.tap = "load"
  BY <1>1, LoadStep, Scans DEF Phases, engine
<1>2. CASE Stays(in)
  <2>1. UNCHANGED <<fetch_pc, inflight, fd, de, state, due>> /\ ~core_clken(in)
    BY <1>2, StayStep DEF HistorySame, Stays
  <2>2. CASE inj.active
    <3>1. ~in.clken /\ in.tap = "none" /\ Phases /\ in_debug_halt /\ ~core_halt(in)
      BY <2>1, <2>2, Injecting DEF At, HaltInv
    <3>2. UNCHANGED <<saved, inj, dbg_state>> /\ scanned' = scanned
      <4>1. /\ UNCHANGED <<armed, pending, inj>>
            /\ scanned' = IF inj'.active /\ ~inj.active THEN 0 ELSE scanned
        BY <1>2, <3>1, StayEngine
      <4>2. dbg_state' = dbg_state /\ saved' = saved
        BY <1>2, <3>1, StayIce, StayStep DEF ice
      <4> QED BY <2>2, <4>1, <4>2
    <3>3. dirty' = dirty
      BY <2>2, <3>1 DEF At, Allowed, host, Reprograms, CanScan
    <3> QED BY <2>1, <2>2, <3>1, <3>2, <3>3
            DEF Phases, Offered, InDecode, InExecute, InAccess, in_debug_halt
  <2>3. CASE ~inj.active /\ inj'.active
    <3>1. /\ inj' \in [active : {TRUE}, accepted : {FALSE}, started : {FALSE},
                      kind : {"alu", "load"}]
          /\ in.tap = "scan" \/ pending
          /\ scanned' = IF inj'.active /\ ~inj.active THEN 0 ELSE scanned
          /\ in.tap # "none"
      BY <1>2, <2>3, StayEngine
    <3>2. in_debug_halt /\ state = "EXEC" /\ in.dbgen
      BY <3>1, Scans
    <3>3. dbg_state' = dbg_state
      <4>1. ~(in.tap = "restart" /\ ~pending)
        BY <3>1
      <4> QED BY <1>2, <3>2, <4>1, StayIce DEF ice, in_debug_halt
    <3>4. ASSUME ~dirty' PROVE ~dirty /\ Drained
      <4>1. CASE in.tap = "scan"
        BY <3>4, <4>1 DEF At, Allowed
      <4>2. CASE in.tap # "scan"
        <5>1. pending /\ in.tap = "restart" /\ in.tap # "load"
          BY <1>2, <3>1, <4>2 DEF At, Inputs, Stays
        <5>2. dirty' = dirty
          BY <5>1 DEF At, Allowed, host
        <5> QED BY <2>3, <3>4, <5>1, <5>2 DEF At, HaltInv, Waiting, Clean
      <4> QED BY <4>1, <4>2
    <3>5. ASSUME ~dirty' PROVE ~fd.valid /\ ~de.valid /\ inflight = None /\ fetch_pc = due
                               /\ ~saved'.valid
      <4>1. Clean /\ Drained /\ Stream /\ SavedIsFetch
        BY <2>3, <3>4, <3>5 DEF At, HaltInv, Clean
      <4>2. PICK n \in 0 .. 3 : Upto(n)
        BY <3>2, <4>1 DEF Stream
      <4>3. fetch_pc = due
        BY <4>1, <4>2, Types, Program DEF Upto, Drained, Slot, None, At
      <4>4. ~saved.valid /\ inflight = None
        BY <4>1 DEF SavedIsFetch, Drained
      <4>5. saved' = saved
        BY <1>2, <4>4, StayStep
      <4> QED BY <4>1, <4>3, <4>4, <4>5 DEF Drained
    <3>6. inj'.kind \in {"alu", "load"} /\ ~inj'.accepted /\ ~inj'.started /\ scanned' = 0
      BY <2>3, <3>1
    <3> QED BY <2>1, <3>2, <3>3, <3>5, <3>6 DEF Phases, Offered, in_debug_halt
  <2>4. CASE ~inj'.active
    BY <2>4 DEF Phases
  <2> QED BY <2>2, <2>3, <2>4
<1>3. CASE Injects(in)
  <2>1. Retires \/ Continues
    BY <1>3, InjectStep
  <2>2. CASE Retires
    BY <2>2 DEF Retires, Phases
  <2>3. CASE Continues
    <3>1. Phases /\ inj.active /\ in_debug_halt /\ dbg_state' = dbg_state
      BY <1>3, Injecting, InjectStep DEF At, HaltInv, Injects
    <3>2. inj'.kind = inj.kind /\ dirty' = dirty /\ saved' = saved /\ fetch_pc' = fetch_pc
          /\ due' = due /\ inflight' \in {inflight, None}
      BY <1>3, <2>3, InjectStep DEF Continues, host, HistorySame
    <3>3. (InDecode \/ InExecute \/ InAccess)'
      BY <2>3 DEF Continues
    <3> QED BY <3>1, <3>2, <3>3 DEF Phases, in_debug_halt
  <2> QED BY <2>1, <2>2, <2>3
<1>4. CASE Moves(in)
  BY <1>4, MoveClean DEF Phases
<1> QED BY <1>1, <1>2, <1>3, <1>4, StepKinds

(* The saved fetch is the one in flight.                                   *)
LEMMA SavedKept ==
    ASSUME NEW in, At(in)
    PROVE  SavedIsFetch'
<1>1. CASE in.tap = "load"
  <2>1. ~saved'.valid /\ inflight' = None
    BY <1>1, LoadStep
  <2> QED BY <2>1 DEF SavedIsFetch
<1>2. CASE Stays(in)
  <2> SUFFICES ASSUME Clean'
               PROVE  /\ saved'.valid =>
                           /\ inflight' # None /\ saved'.pos = inflight' /\ saved'.good
                           /\ state' = "EXEC"
                           /\ dbg_state' = "RUNNING" =>
                                \/ ~irq_q' /\ ~redirects'
                                \/ irq_q' /\ exc_wait' /\ breakpoint_execute' /\ ~bp_resume'
                      /\ ~saved'.valid /\ inflight' # None => live'
    BY DEF SavedIsFetch, Running0
  <2>1. Clean /\ SavedIsFetch /\ UNCHANGED <<inflight, de, state, irq_q>>
    BY <1>2, StayStep DEF At, HaltInv
  <2>2. inj' = inj
    <3>1. \/ inj' = inj
          \/ inj' \in [active : {TRUE}, accepted : {FALSE}, started : {FALSE},
                      kind : {"alu", "load"}]
      BY <1>2, StayEngine
    <3> QED BY <3>1 DEF Clean
  <2>3. (redirects' <=> redirects) /\ (breakpoint_execute' <=> breakpoint_execute)
    BY <2>1, <2>2 DEF redirects, breakpoint_execute, executing, inject_we, begins, KindOf
  <2>4. CASE ~in.clken
    <3>1. UNCHANGED <<saved, live, dbg_state, exc_wait, bp_resume>>
      BY <1>2, <2>4, StayStep, StayIce DEF ice
    <3> QED BY <2>1, <2>3, <3>1 DEF SavedIsFetch, Running0
  <2>5. CASE in.clken
    <3>1. saved' = IF ~saved.valid /\ inflight # None
                   THEN [pos |-> inflight, good |-> live,
                         bp |-> in.dbgen /\ inflight \in bps,
                         injected |-> FALSE, valid |-> TRUE]
                   ELSE saved
      BY <1>2, <2>5, StayStep
    <3>2. state = "EXEC"
      <4>1. core_halt(in)
        BY <1>2, <2>5, StayStep
      <4>2. CASE in_debug_halt
        BY <2>1, <4>2 DEF At, HaltInv, Sessions, Clean
      <4>3. CASE breakpoint_stop(in)
        BY <4>3 DEF breakpoint_stop, breakpoint_execute, executing
      <4> QED BY <4>1, <4>2, <4>3 DEF core_halt
    <3>3. saved'.valid => inflight' # None /\ saved'.pos = inflight' /\ saved'.good
      BY <2>1, <3>1 DEF SavedIsFetch
    <3>4. ASSUME saved'.valid, dbg_state' = "RUNNING"
          PROVE  \/ ~irq_q /\ ~redirects
                 \/ irq_q /\ exc_wait' /\ breakpoint_execute /\ ~bp_resume'
      <4>1. CASE in.tap = "restart" /\ ~pending
        <5>1. ~irq_q /\ Resumable /\ inflight # None
          BY <2>1, <3>3, <3>4, <4>1, Scans DEF At, Allowed
        <5> QED BY <5>1 DEF Resumable, At, SafeUse
      <4>2. CASE ~(in.tap = "restart" /\ ~pending) /\ dbg_state = "RUNNING"
        <5>1. /\ breakpoint_execute /\ ~bp_resume /\ exc_wait /\ irq_q
              /\ UNCHANGED <<dbg_state, exc_wait, bp_halt, bp_resume>>
          BY <1>2, <2>5, <3>4, <4>2, StayIce DEF in_debug_halt
        <5> QED BY <5>1
      <4>3. CASE ~(in.tap = "restart" /\ ~pending) /\ dbg_state # "RUNNING"
        BY <1>2, <2>5, <3>4, <4>3, StayIce
      <4> QED BY <4>1, <4>2, <4>3
    <3>5. ~saved'.valid => inflight' = None
      BY <2>1, <3>1
    <3> QED BY <2>1, <2>3, <3>2, <3>3, <3>4, <3>5
  <2> QED BY <2>4, <2>5
<1>3. CASE Injects(in)
  <2>1. Retires \/ Continues
    BY <1>3, InjectStep
  <2>2. ASSUME Clean' PROVE ~saved'.valid /\ inflight' = None
    <3>1. Retires /\ ~dirty /\ saved' = saved
      BY <1>3, <2>1, <2>2, InjectStep DEF Clean, Continues, host
    <3> QED BY <1>3, <3>1 DEF Retires, Drained, Injects, Phases, At, HaltInv
  <2> QED BY <2>2 DEF SavedIsFetch
<1>4. CASE Moves(in)
  <2>1. live' = TRUE /\ saved' = IF latch_into_fd(in) THEN Empty ELSE saved
    BY <1>4, MoveCore
  <2>2. ~saved'.valid
    <3>1. CASE irq_fires(in)
      BY <1>4, <3>1, EnterStep
    <3>2. CASE ~irq_fires(in) /\ redirects
      BY <1>4, <3>2, RedirectStep
    <3>3. CASE ~irq_fires(in) /\ ~redirects
      <4>1. latch_into_fd(in) <=> state = "EXEC" /\ inflight # None
        BY <1>4, <3>3, AdvanceStep
      <4>2. Clean /\ SavedIsFetch
        BY <1>4, MoveClean DEF At, HaltInv
      <4> QED BY <2>1, <4>1, <4>2 DEF SavedIsFetch, Empty
    <3> QED BY <3>1, <3>2, <3>3
  <2> QED BY <2>1, <2>2 DEF SavedIsFetch
<1> QED BY <1>1, <1>2, <1>3, <1>4, StepKinds

(* A retained interrupt waits at an instruction that can be interrupted.   *)
LEMMA RetainedKept ==
    ASSUME NEW in, At(in)
    PROVE  Retained'
<1>1. Retained /\ Sessions
  BY DEF At, HaltInv
<1>2. CASE in.tap = "load"
  <2>1. ~irq_q /\ ~refill /\ UNCHANGED core /\ ~exc_wait'
    BY <1>2, Scans, LoadStep
  <2> QED BY <2>1 DEF Retained, core
<1>3. CASE Stays(in)
  <2>1. UNCHANGED <<irq_q, refill, state, de, fd, inflight>>
    BY <1>3, StayStep
  <2>2. CASE in_debug_halt
    <3>1. ~irq_q /\ ~refill /\ ~exc_wait
      BY <1>1, <2>2 DEF Sessions
    <3>2. ~exc_wait'
      BY <1>3, <2>2, <3>1, StayIce DEF ice, in_debug_halt
    <3> QED BY <2>1, <3>1, <3>2 DEF Retained
  <2>3. CASE ~in_debug_halt
    <3>1. \/ UNCHANGED <<dbg_state, exc_wait, halt_pending>>
          \/ exc_wait /\ irq_q /\ UNCHANGED <<dbg_state, exc_wait>>
          \/ ~irq_q /\ ~refill /\ ~exc_wait /\ exc_wait' = exc_wait
      BY <1>3, <2>3, StayIce DEF ice, in_debug_halt
    <3> QED BY <1>1, <2>1, <3>1 DEF Retained, Running0
  <2> QED BY <2>2, <2>3
<1>4. CASE Injects(in)
  BY <1>4, InjectStep DEF Retained
<1>5. CASE Moves(in)
  <2>1. state' = state_next /\ irq_q' = (~irq_fires(in) /\ Retains(in))
        /\ (refill' => irq_fires(in))
    BY <1>5, MoveCore, RefillEnds
  <2>2. HaltsCleanly(in)
    BY <1>5, MoveIce
  <2>3. ASSUME irq_q'
        PROVE  /\ dbg_state' = "RUNNING"
               /\ exc_wait' \/ (halt_pending' /\ state' # "EXEC")
               /\ IrqEdges # {}
               /\ state' = "EXEC" => de'.valid /\ Kind[de'.pos] \notin Transfers
    <3>1. Retains(in) /\ ~irq_fires(in)
      BY <2>1, <2>3
    <3>2. dbg_state' = "RUNNING" /\ (exc_wait' \/ (halt_pending' /\ ~halt_boundary))
          /\ (halt_boundary => state # "EXEC")
      BY <2>2, <3>1 DEF HaltsCleanly
    <3>3. IrqEdges # {}
      BY <1>1, <3>1 DEF Retained, Retains, Interrupt, At, Edge
    <3>4. ASSUME state' = "EXEC" PROVE de'.valid /\ Kind[de'.pos] \notin Transfers
      <4>1. state # "EXEC" /\ ~redirects
        BY <2>1, <3>2, <3>4 DEF halt_boundary, redirects, executing
      <4>2. Between /\ de' = de
        BY <1>5, <3>1, <4>1, AdvanceShape DEF Fills, Executes, Transferring, executing
      <4> QED BY <3>3, <4>2 DEF Between, Slot, Interruptible
    <3> QED BY <2>1, <3>2, <3>3, <3>4 DEF halt_boundary
  <2>4. ASSUME exc_wait' PROVE irq_q' \/ refill'
    <3>1. irq_fires(in) \/ Retains(in) \/ (exc_wait /\ ~vector_ready(in))
      BY <2>2, <2>4 DEF HaltsCleanly
    <3>2. irq_fires(in) => refill'
      BY <1>5, EnterStep
    <3>3. ASSUME exc_wait, ~vector_ready(in) PROVE irq_fires(in) \/ Retains(in)
      BY <1>1, <1>5, <3>3, RefillEnds DEF Retained, Retains
    <3> QED BY <2>1, <3>1, <3>2, <3>3
  <2>5. ASSUME refill' PROVE state' = "EXEC" /\ ~de'.valid /\ ~fd'.valid /\ inflight' # None
    <3>1. irq_fires(in) /\ de \in Slots /\ Vector # None
      BY <2>1, <2>5, Types, Program DEF At, None
    <3> QED BY <1>5, <3>1, EnterStep DEF Slots, Empty
  <2> QED BY <2>3, <2>4, <2>5 DEF Retained, Running0
<1> QED BY <1>2, <1>3, <1>4, <1>5, StepKinds

(* A slot is tagged as its position is.                                    *)
LEMMA TagsKept ==
    ASSUME NEW in, At(in)
    PROVE  Tags'
<1>1. Tags /\ fd \in Slots /\ de \in Slots /\ saved \in Slots /\ in.dbgen \in BOOLEAN
      /\ dim \in BOOLEAN
  BY Types DEF At, HaltInv, Inputs
<1>2. CASE in.tap = "load"
  <2>1. ~fd'.valid /\ ~de'.valid /\ ~saved'.valid
    BY <1>2, LoadStep
  <2> QED BY <2>1 DEF Tags, Tagged
<1>3. CASE Stays(in)
  <2>1. ASSUME Clean' PROVE Tagged(fd)' /\ Tagged(de)' /\ Tagged(saved)'
    <3>1. Clean /\ bps' = bps /\ fd' = fd /\ de' = de /\ dim' = (~in.dbgen \/ dim)
      BY <1>3, <2>1, StayStep
    <3>2. \/ saved' = saved
          \/ saved' = [pos |-> inflight, good |-> live, bp |-> in.dbgen /\ inflight \in bps,
                       injected |-> FALSE, valid |-> TRUE]
      BY <1>3, StayStep
    <3>3. Tagged(fd) /\ Tagged(de) /\ Tagged(saved) /\ (~dim' => ~dim /\ in.dbgen)
      BY <1>1, <3>1 DEF Tags
    <3>4. Tagged(fd)' /\ Tagged(de)'
      BY <3>1, <3>3 DEF Tagged
    <3>5. Tagged(saved)'
      <4>1. CASE saved' = saved
        BY <3>1, <3>3, <4>1 DEF Tagged
      <4>2. CASE saved' = [pos |-> inflight, good |-> live, bp |-> in.dbgen /\ inflight \in bps,
                           injected |-> FALSE, valid |-> TRUE]
        <5>1. saved'.pos = inflight /\ saved'.bp = (in.dbgen /\ inflight \in bps)
          BY <4>2
        <5> QED BY <3>1, <3>3, <5>1 DEF Tagged
      <4> QED BY <3>2, <4>1, <4>2
    <3> QED BY <3>4, <3>5
  <2> QED BY <2>1 DEF Tags
<1>4. CASE Injects(in)
  <2>1. Retires \/ Continues
    BY <1>4, InjectStep
  <2>2. ASSUME Clean' PROVE ~saved'.valid /\ ~fd'.valid /\ ~de'.valid
    <3>1. Retires /\ ~dirty /\ saved' = saved
      BY <1>4, <2>1, <2>2, InjectStep DEF Clean, Continues, host
    <3> QED BY <1>4, <3>1 DEF Retires, Drained, Injects, Phases, At, HaltInv
  <2> QED BY <2>2 DEF Tags, Tagged
<1>5. CASE Moves(in)
  <2>1. Clean /\ SavedIsFetch /\ bps' = bps /\ Tagged(fd) /\ Tagged(de) /\ Tagged(saved)
    BY <1>1, <1>5, MoveClean DEF At, HaltInv, Tags, host
  <2>2. CASE irq_fires(in) \/ redirects
    <3>1. ~fd'.valid /\ ~de'.valid /\ ~saved'.valid
      BY <1>1, <1>5, <2>2, EnterStep, RedirectStep DEF Empty, Slots
    <3> QED BY <3>1 DEF Tags, Tagged
  <2>3. CASE ~irq_fires(in) /\ ~redirects
    <3>1. dim' = (~in.dbgen \/ dim)
      BY <1>5, <2>3, AdvanceStep
    <3>2. saved'.valid => saved' = saved
      <4>1. saved' = IF latch_into_fd(in) THEN Empty ELSE saved
        BY <1>5, MoveCore
      <4> QED BY <4>1 DEF Empty
    <3>3. \/ ~fd'.valid \/ fd' = fd \/ (fd' = Latched(in) /\ inflight # None)
      <4>1. Fills(in) \/ Executes(in) \/ Transferring(in)
        BY <1>5, <2>3, AdvanceShape
      <4>2. Upto(1) \/ Upto(2) \/ Upto(3) => inflight # None
        <5>1. due \in Nat
          BY Types, Program DEF At
        <5> QED BY <5>1 DEF Upto, None
      <4> QED BY <4>1, <4>2 DEF Fills, Executes, Transferring
    <3>4. ~de'.valid \/ de' = fd \/ de' = de
      BY <1>5, <2>3, AdvanceShape DEF Fills, Executes, Transferring
    <3>5. inflight # None => Latched(in).pos = inflight
            /\ Latched(in).bp = IF saved.valid THEN saved.bp ELSE in.dbgen /\ inflight \in bps
      BY <1>5, LatchedGood
    <3>6. Tagged(de)' /\ Tagged(saved)'
      BY <2>1, <3>1, <3>2, <3>4 DEF Tagged
    <3>7. ASSUME fd' = Latched(in), inflight # None PROVE Tagged(fd)'
      <4>1. saved.valid => saved.pos = inflight
        BY <2>1 DEF SavedIsFetch
      <4>2. fd'.pos = inflight
            /\ fd'.bp = IF saved.valid THEN saved.bp ELSE in.dbgen /\ inflight \in bps
        BY <3>5, <3>7
      <4>3. CASE saved.valid
        BY <2>1, <3>1, <4>1, <4>2, <4>3 DEF Tagged
      <4>4. CASE ~saved.valid
        <5>1. fd'.bp = (in.dbgen /\ inflight \in bps)
          BY <4>2, <4>4
        <5> QED BY <2>1, <3>1, <4>2, <5>1 DEF Tagged
      <4> QED BY <4>3, <4>4
    <3>8. Tagged(fd)'
      <4>1. CASE ~fd'.valid
        BY <4>1 DEF Tagged
      <4>2. CASE fd' = fd
        BY <2>1, <3>1, <4>2 DEF Tagged
      <4> QED BY <3>3, <3>7, <4>1, <4>2
    <3> QED BY <3>6, <3>8 DEF Tags
  <2> QED BY <2>2, <2>3
<1> QED BY <1>2, <1>3, <1>4, <1>5, StepKinds

(* What holds the core at a breakpoint, or lets the instruction pass once, *)
(* speaks of the instruction due.                                          *)
HeldAt == /\ stopped = due /\ due \in bps
          /\ Clean => /\ de.valid => de.bp
                      /\ ~de.valid /\ fd.valid => fd.bp
                      /\ ~de.valid /\ ~fd.valid /\ saved.valid => saved.bp

(* The invariant in terms of HeldAt.                                       *)
LEMMA ResumeParts == Resume <=> /\ Running0 /\ bp_halt => bp_resume
                                /\ Running0 /\ bp_resume => ~exc_wait /\ ~irq_q /\ state = "EXEC"
                                /\ Held => HeldAt
BY DEF Resume, HeldAt

(* What stopped the core is forgotten only when the program moves on.      *)
LEMMA StoppedKept ==
    ASSUME NEW in, At(in), ~runs(in), ~(in_debug_halt /\ dbg_state' = "RUNNING" /\ due # stopped)
    PROVE  stopped' = IF bp_halt' /\ ~bp_halt THEN de.pos ELSE stopped
BY DEF At, Edge, History

(* A core that stands still stays held where it is.                        *)
LEMMA ResumeStays ==
    ASSUME NEW in, At(in), Stays(in)
    PROVE  Resume'
<1>1. /\ UNCHANGED <<inflight, fd, de, state, irq_q, due>> /\ ~core_clken(in) /\ in \in Inputs
      /\ Sessions /\ Resume /\ Tags /\ Stream
  BY StayStep DEF HistorySame, At, HaltInv, Stays
<1>2. Running0 /\ bp_halt => bp_resume
  BY <1>1 DEF Resume
<1>3. Running0 /\ bp_resume => ~exc_wait /\ ~irq_q /\ state = "EXEC"
  BY <1>1 DEF Resume
<1>4. Held => HeldAt
  BY <1>1, ResumeParts
<1>5. ~runs(in)
  BY <1>1 DEF runs
<1>6. ASSUME Held PROVE bps' = bps
  <2>1. ~Reprograms
    BY <1>6 DEF Held, Reprograms, CanScan, in_debug_halt, Running0
  <2> QED BY <1>1, <2>1 DEF At, Allowed, host, Inputs, Stays
<1>7. ASSUME Held, stopped' = stopped PROVE HeldAt'
  <2>1. HeldAt /\ bps' = bps
    BY <1>4, <1>6, <1>7
  <2>2. stopped' = due' /\ due' \in bps'
    BY <1>1, <1>7, <2>1 DEF HeldAt
  <2>3. ASSUME Clean'
        PROVE  /\ de'.valid => de'.bp
               /\ ~de'.valid /\ fd'.valid => fd'.bp
               /\ ~de'.valid /\ ~fd'.valid /\ saved'.valid => saved'.bp
    <3>1. Clean
      BY <2>3, StayStep
    <3>2. ASSUME ~de.valid, ~fd.valid, saved'.valid PROVE saved'.bp
      <4>1. CASE saved' = saved
        BY <2>1, <3>1, <3>2, <4>1 DEF HeldAt
      <4>2. CASE saved' # saved
        <5>1. /\ in.clken /\ core_halt(in) /\ inflight # None
              /\ saved' = [pos |-> inflight, good |-> live, bp |-> in.dbgen /\ inflight \in bps,
                           injected |-> FALSE, valid |-> TRUE]
          BY <4>2, StayStep
        <5>2. in.dbgen
          BY <5>1 DEF core_halt
        <5>3. inflight = due
          BY <1>1, <3>1, <3>2, <5>1 DEF Stream, Upto, Between, Slot
        <5> QED BY <2>1, <5>1, <5>2, <5>3 DEF HeldAt
      <4> QED BY <4>1, <4>2
    <3> QED BY <1>1, <2>1, <3>1, <3>2 DEF HeldAt
  <2> QED BY <2>2, <2>3 DEF HeldAt
<1>8. CASE UNCHANGED <<dbg_state, bp_halt, bp_resume>> /\ (Running0 => exc_wait' = exc_wait)
  <2>1. Held' = Held /\ (Running0' <=> Running0)
    BY <1>8 DEF Held, Running0, in_debug_halt
  <2>2. ASSUME Held PROVE HeldAt'
    <3>1. stopped' = stopped
      BY <1>5, <1>8, StoppedKept DEF in_debug_halt
    <3> QED BY <1>7, <2>2, <3>1
  <2> QED BY <1>1, <1>2, <1>3, <1>8, <2>1, <2>2, ResumeParts DEF Resume, HeldAt, Running0
<1>9. CASE in_debug_halt /\ in.tap = "restart" /\ dbg_state' = "RUNNING"
           /\ bp_resume' = bp_halt /\ bp_halt' = bp_halt /\ ~exc_wait'
  <2>1. ~irq_q /\ state = "EXEC"
    BY <1>9, Scans
  <2>2. ASSUME bp_halt PROVE HeldAt'
    <3>1. Held /\ HeldAt
      BY <1>4, <1>9, <2>2 DEF Held
    <3>2. stopped' = stopped
      BY <1>5, <1>9, <2>2, <3>1, StoppedKept DEF HeldAt
    <3> QED BY <1>7, <3>1, <3>2
  <2> QED BY <1>1, <1>9, <2>1, <2>2 DEF Resume, HeldAt, Held, Running0, in_debug_halt
<1>10. CASE /\ dbg_state = "RUNNING" /\ in.dbgen /\ breakpoint_execute /\ ~bp_resume
            /\ dbg_state' = "HALTED" /\ bp_halt' = TRUE
  <2>1. Clean /\ ~bp_halt /\ de.valid /\ de.bp /\ state = "EXEC" /\ ~in_debug_halt
    BY <1>1, <1>2, <1>10 DEF Sessions, Running0, Clean, breakpoint_execute, executing, in_debug_halt
  <2>2. de.pos = due
    BY <1>1, <2>1 DEF Stream, Upto, Slot
  <2>3. due \in bps
    BY <1>1, <2>1, <2>2 DEF Tags, Tagged
  <2>4. stopped' = due
    BY <1>5, <1>10, <2>1, <2>2, StoppedKept
  <2>5. bps' = bps
    BY <1>1, <2>1 DEF At, Allowed, host, Inputs, Reprograms, CanScan
  <2>6. HeldAt'
    BY <1>1, <2>1, <2>3, <2>4, <2>5 DEF HeldAt
  <2> QED BY <1>10, <2>6 DEF Resume, HeldAt, Running0
<1> QED BY <1>1, <1>8, <1>9, <1>10, StayIce DEF ice, Running0, in_debug_halt

(* The permission to pass a breakpoint speaks of the one due.              *)
LEMMA ResumeKept ==
    ASSUME NEW in, At(in)
    PROVE  Resume'
<1>1. Resume /\ fd \in Slots /\ de \in Slots /\ (Held => HeldAt)
  BY Types, ResumeParts DEF At, HaltInv
<1>2. CASE in.tap = "load"
  <2>1. in_debug_halt /\ ~core_clken(in) /\ UNCHANGED <<dbg_state, bp_halt, bps>>
        /\ due' = in.pos /\ (bp_halt => in.pos = due)
    BY <1>2, Scans, LoadStep
  <2>2. ~fd'.valid /\ ~de'.valid /\ ~saved'.valid
    BY <1>2, LoadStep
  <2>3. stopped' = stopped
    BY <2>1, StoppedKept DEF runs, in_debug_halt
  <2> QED BY <1>1, <2>1, <2>2, <2>3 DEF Resume, HeldAt, Held, Running0, in_debug_halt
<1>3. CASE Injects(in)
  <2>1. in_debug_halt /\ ~runs(in) /\ UNCHANGED <<dbg_state, bp_halt, bps, due>>
    BY <1>3, Injecting, InjectStep DEF Injects, host, HistorySame
  <2>2. Retires \/ Continues
    BY <1>3, InjectStep
  <2>3. Clean' => ~fd'.valid /\ ~de'.valid /\ ~saved'.valid
    <3>1. ASSUME Clean' PROVE ~fd'.valid /\ ~de'.valid /\ ~saved'.valid
      <4>1. Retires /\ ~dirty /\ saved' = saved
        BY <1>3, <2>2, <3>1, InjectStep DEF Clean, Continues, host
      <4> QED BY <1>3, <4>1 DEF Retires, Drained, Injects, Phases, At, HaltInv
    <3> QED BY <3>1
  <2>4. stopped' = stopped
    BY <2>1, StoppedKept DEF in_debug_halt
  <2> QED BY <1>1, <2>1, <2>3, <2>4 DEF Resume, HeldAt, Held, Running0, in_debug_halt
<1>4. CASE Moves(in)
  <2>1. HaltsCleanly(in)
    BY <1>4, MoveIce
  <2>2. dbg_state' = "RUNNING" /\ bp_halt' => bp_resume'
    BY <2>1 DEF HaltsCleanly
  <2>3. dbg_state' = "HALTED" => ~bp_halt'
    BY <2>1 DEF HaltsCleanly
  <2>4. ASSUME bp_resume'
        PROVE  ~exc_wait' /\ ~irq_q' /\ state' = "EXEC" /\ HeldAt'
    <3>1. bp_resume /\ in.dbgen /\ dbg_state = "RUNNING" /\ ~breakpoint_execute
      BY <2>1, <2>4 DEF HaltsCleanly
    <3>2. ~exc_wait /\ ~irq_q /\ state = "EXEC" /\ HeldAt
      BY <1>1, <3>1 DEF Resume, Running0, Held, HeldAt
    <3>3. Clean /\ Clean' /\ bps' = bps
      BY <1>4, MoveClean DEF host
    <3>4. ~executing /\ ~de.valid
      BY <1>4, <3>1, <3>2, <3>3, DueInExecute DEF HeldAt, breakpoint_execute
    <3>5. ~begins /\ halt_boundary /\ ~redirects /\ state_next = "EXEC"
      BY <3>2, <3>4 DEF begins, redirects, halt_boundary, state_next
    <3>6. ~irq_fires(in)
      <4>1. EdgeClass = "bubble"
        BY <3>2, <3>4, <3>5 DEF EdgeClass
      <4> QED BY <3>2, <4>1 DEF irq_fires
    <3>7. ~Retains(in)
      BY <1>4, <3>2, <3>5, <3>6, WithinOnly DEF Retains
    <3>8. ~exc_wait'
      BY <2>1, <3>2, <3>6, <3>7 DEF HaltsCleanly
    <3>9. ~irq_q' /\ state' = "EXEC" /\ saved' = IF latch_into_fd(in) THEN Empty ELSE saved
      BY <1>4, <3>5, <3>7, MoveCore
    <3>10. Fills(in)
      BY <1>4, <3>2, <3>4, <3>5, <3>6, AdvanceShape DEF Executes, Transferring
    <3>11. stopped' = stopped
      <4>1. ~runs(in) /\ ~in_debug_halt /\ (bp_halt' => bp_halt)
        BY <2>1, <3>1, <3>4 DEF runs, in_debug_halt, HaltsCleanly
      <4> QED BY <4>1, StoppedKept
    <3>12. SavedIsFetch
      BY DEF At, HaltInv
    <3>13. CASE Upto(0) /\ Upto(1)' /\ ~fd'.valid /\ ~de'.valid
      <4>1. ~saved'.valid
        BY <3>3, <3>9, <3>12, <3>13 DEF Upto, SavedIsFetch, Empty
      <4> QED BY <3>2, <3>3, <3>8, <3>9, <3>10, <3>11, <3>13, <4>1 DEF HeldAt, Fills
    <3>14. CASE Upto(1) /\ Upto(2)' /\ fd' = Latched(in) /\ ~de'.valid
      <4>1. inflight = due /\ inflight # None /\ ~fd.valid
        BY <3>14, Types, Program DEF Upto, At, None
      <4>2. Latched(in).bp = IF saved.valid THEN saved.bp ELSE in.dbgen /\ inflight \in bps
        BY <1>4, <4>1, LatchedGood
      <4>3. fd'.bp
        <5>1. CASE saved.valid
          BY <3>2, <3>3, <3>4, <3>14, <4>1, <4>2, <5>1 DEF HeldAt
        <5>2. CASE ~saved.valid
          BY <3>1, <3>2, <3>14, <4>1, <4>2, <5>2 DEF HeldAt
        <5> QED BY <5>1, <5>2
      <4>4. fd'.valid
        BY <3>14 DEF Upto, Slot
      <4> QED BY <3>2, <3>3, <3>8, <3>9, <3>10, <3>11, <3>14, <4>3, <4>4 DEF HeldAt, Fills
    <3>15. CASE Upto(2) /\ Upto(3)' /\ fd' = Latched(in) /\ de' = fd
      <4>1. de'.valid /\ de'.bp
        BY <3>2, <3>3, <3>4, <3>15 DEF HeldAt, Upto, Slot
      <4> QED BY <3>2, <3>3, <3>8, <3>9, <3>10, <3>11, <4>1 DEF HeldAt, Fills
    <3> QED BY <3>10, <3>13, <3>14, <3>15 DEF Fills
  <2> QED BY <2>2, <2>3, <2>4 DEF Resume, HeldAt, Held, Running0, in_debug_halt
<1> QED BY <1>2, <1>3, <1>4, ResumeStays, StepKinds

(* Types of the halt machine.                                              *)
LEMMA IceTypes ==
    ASSUME NEW in, At(in)
    PROVE  /\ dbg_state' \in {"RUNNING", "HALTED"} /\ halt_pending' \in BOOLEAN
           /\ exc_wait' \in BOOLEAN /\ bp_halt' \in BOOLEAN /\ bp_resume' \in BOOLEAN
<1>1. /\ dbg_state \in {"RUNNING", "HALTED"} /\ halt_pending \in BOOLEAN
      /\ exc_wait \in BOOLEAN /\ bp_halt \in BOOLEAN /\ bp_resume \in BOOLEAN
      /\ HaltMachine(in)
  BY Types DEF At, Edge
<1>2. CASE Moves(in)
  BY <1>2, MoveIce DEF HaltsCleanly
<1>3. CASE ~in.clken
  BY <1>1, <1>3 DEF HaltMachine, ice
<1>4. CASE in.clken /\ in_debug_halt
  <2>1. Halted(in)
    BY <1>1, <1>4 DEF HaltMachine
  <2> QED BY <1>1, <1>4, <2>1 DEF Halted, in_debug_halt
<1>5. CASE in.clken /\ ~in_debug_halt /\ ~Moves(in)
  <2>1. Stays(in)
    BY <1>5, StepKinds, Scans, Injecting DEF Injects
  <2>2. Running(in) /\ core_halt(in)
    BY <1>1, <1>5, <2>1, StayStep DEF HaltMachine
  <2>3. in.dbgen /\ breakpoint_execute /\ ~breakpoint_interrupt(in) /\ ~bp_resume
    BY <1>5, <2>2 DEF core_halt, breakpoint_stop
  <2>4. CASE exc_wait
    BY <1>1, <2>2, <2>3, <2>4 DEF Running
  <2>5. CASE ~exc_wait
    BY <1>1, <2>2, <2>3, <2>5 DEF Running
  <2> QED BY <2>4, <2>5
<1> QED BY <1>2, <1>3, <1>4, <1>5

(* Types of slots.                                                         *)
LEMMA SlotTypes ==
    /\ Empty \in Slots /\ Injected \in Slots /\ Positions \subseteq Addresses
    /\ \A s \in Slots : [s EXCEPT !.valid = FALSE] \in Slots
<1>1. Positions \subseteq Addresses /\ 0 \in Addresses
  BY Program DEF Addresses
<1> QED BY <1>1 DEF Empty, Injected, Slots

(* Types of the engine.                                                    *)
LEMMA EngineTypes ==
    ASSUME NEW in, At(in)
    PROVE  /\ inj' \in [active : BOOLEAN, accepted : BOOLEAN, started : BOOLEAN, kind : Kinds]
           /\ armed' \in BOOLEAN /\ pending' \in BOOLEAN /\ speed' \in BOOLEAN
<1>1. /\ inj \in [active : BOOLEAN, accepted : BOOLEAN, started : BOOLEAN, kind : Kinds]
      /\ armed \in BOOLEAN /\ pending \in BOOLEAN /\ speed \in BOOLEAN
  BY Types DEF At
<1>2. CASE in.tap = "load"
  <2>1. UNCHANGED engine
    BY <1>2, LoadStep
  <2> QED BY <1>1, <2>1 DEF engine
<1>3. CASE Stays(in)
  BY <1>3, StayEngine
<1>4. CASE Injects(in)
  <2>1. UNCHANGED <<armed, pending>> /\ speed' \in BOOLEAN
        /\ inj' \in [active : BOOLEAN, accepted : BOOLEAN, started : BOOLEAN, kind : Kinds]
    BY <1>4, InjectStep
  <2> QED BY <1>1, <2>1
<1>5. CASE Moves(in)
  <2>1. UNCHANGED <<inj, armed, pending, speed>>
    BY <1>5, MoveCore
  <2> QED BY <1>1, <2>1
<1> QED BY <1>2, <1>3, <1>4, <1>5, StepKinds

(* Types of the debugger's part.                                           *)
LEMMA HostTypes ==
    ASSUME NEW in, At(in)
    PROVE  bps' \in Breakable /\ dirty' \in BOOLEAN
<1>1. bps \in Breakable /\ dirty \in BOOLEAN /\ in \in Inputs
  BY Types DEF At
<1>2. \/ bps' = bps /\ dirty' \in {dirty, TRUE, FALSE, (dirty \/ ~Drained)}
      \/ Reprograms
  BY <1>1 DEF At, Allowed, Inputs, host
<1> QED BY <1>1, <1>2 DEF Reprograms

(* Types of the pipeline.                                                  *)
LEMMA PipeTypes ==
    ASSUME NEW in, At(in)
    PROVE  /\ fetch_pc' \in Addresses /\ inflight' \in Addresses \cup {None}
           /\ fd' \in Slots /\ de' \in Slots /\ saved' \in Slots /\ ~saved'.injected
<1>1. /\ fd \in Slots /\ de \in Slots /\ saved \in Slots /\ ~saved.injected
      /\ fetch_pc \in Addresses /\ inflight \in Addresses \cup {None}
      /\ live \in BOOLEAN /\ in.dbgen \in BOOLEAN
  BY Types DEF At, Inputs
<1>2. ~Empty.injected
  BY DEF Empty
<1>3. CASE in.tap = "load"
  <2>1. fetch_pc' = in.pos /\ inflight' = None /\ fd' = Empty /\ saved' = Empty
        /\ de' = [de EXCEPT !.valid = FALSE] /\ in.pos \in Positions
    BY <1>3, LoadStep
  <2> QED BY <1>1, <1>2, <2>1, SlotTypes
<1>4. CASE Stays(in)
  <2>1. UNCHANGED <<fetch_pc, inflight, fd, de>>
    BY <1>4, StayStep
  <2>2. \/ saved' = saved
        \/ inflight # None /\ saved' = [pos |-> inflight, good |-> live,
                  bp |-> in.dbgen /\ inflight \in bps, injected |-> FALSE, valid |-> TRUE]
    BY <1>4, StayStep
  <2>3. saved' \in Slots /\ ~saved'.injected
    <3>1. CASE saved' = saved
      BY <1>1, <3>1
    <3>2. CASE saved' # saved
      <4>1. inflight \in Addresses /\ saved' = [pos |-> inflight, good |-> live,
                  bp |-> in.dbgen /\ inflight \in bps, injected |-> FALSE, valid |-> TRUE]
        BY <1>1, <2>2, <3>2
      <4>2. (in.dbgen /\ inflight \in bps) \in BOOLEAN
        OBVIOUS
      <4> QED BY <1>1, <4>1, <4>2 DEF Slots
    <3> QED BY <3>1, <3>2
  <2> QED BY <1>1, <2>1, <2>3
<1>5. CASE Injects(in)
  <2>1. fetch_pc' = fetch_pc /\ saved' = saved /\ (Retires \/ Continues)
    BY <1>5, InjectStep
  <2>2. inflight' \in {inflight, None}
    BY <2>1 DEF Retires, Continues, Drained
  <2>3. Pipeline(in) /\ ~flush(in) /\ ~latch_into_fd(in)
    BY <1>5, Injecting DEF Injects, At, Edge, Core
  <2>4. fd' \in {Empty, Injected, fd} /\ de' \in {de, fd, [de EXCEPT !.valid = FALSE]}
    BY <2>3 DEF Pipeline, Accepted, Advanced
  <2> QED BY <1>1, <2>1, <2>2, <2>4, SlotTypes
<1>6. CASE Moves(in)
  <2>1. Clean' /\ Stream' /\ due' \in Positions
    BY <1>6, MoveClean, StreamKept, HistoryKept DEF HistoryTyped
  <2>2. \/ inflight' = None /\ fetch_pc' = due'
        \/ inflight' = due' /\ fetch_pc' = due' + 1
        \/ inflight' = due' + 1 /\ fetch_pc' = due' + 2
        \/ inflight' = due' + 2 /\ fetch_pc' = due' + 3
        \/ inflight' = None /\ fetch_pc' = due' + 2
    BY <2>1 DEF Stream, Upto, Between
  <2>3. fetch_pc' \in Addresses /\ inflight' \in Addresses \cup {None}
    BY <2>1, <2>2, Program DEF Addresses
  <2>4. saved' \in {Empty, saved}
    <3>1. saved' = IF latch_into_fd(in) THEN Empty ELSE saved
      BY <1>6, MoveCore
    <3> QED BY <3>1
  <2>5. CASE irq_fires(in)
    <3>1. fd' = Empty /\ de' = [de EXCEPT !.valid = FALSE]
      BY <1>6, <2>5, EnterStep
    <3> QED BY <1>1, <1>2, <2>3, <2>4, <3>1, SlotTypes
  <2>6. CASE ~irq_fires(in) /\ redirects
    <3>1. fd' = Empty /\ de' = [de EXCEPT !.valid = FALSE]
      BY <1>6, <2>6, RedirectStep
    <3> QED BY <1>1, <1>2, <2>3, <2>4, <3>1, SlotTypes
  <2>7. CASE ~irq_fires(in) /\ ~redirects
    <3>1. Advanced(in)
      BY <1>6, <2>7, AdvanceStep
    <3>2. de' \in {de, fd, [de EXCEPT !.valid = FALSE]}
      BY <3>1 DEF Advanced
    <3>3. fd' \in {Empty, fd} \/ (fd' = Latched(in) /\ inflight # None)
      BY <3>1 DEF Advanced, latch_into_fd
    <3>4. inflight # None => Latched(in) \in Slots
      BY <1>6, LatchedGood
    <3> QED BY <1>1, <1>2, <2>3, <2>4, <3>2, <3>3, <3>4, SlotTypes
  <2> QED BY <2>5, <2>6, <2>7
<1> QED BY <1>3, <1>4, <1>5, <1>6, StepKinds

(* Types of the core.                                                      *)
LEMMA CoreTypes ==
    ASSUME NEW in, At(in)
    PROVE  /\ state' \in {"EXEC", "DATA", "WB"} /\ op' \in Kinds
           /\ irq_off' \in BOOLEAN /\ irq_q' \in BOOLEAN /\ refill' \in BOOLEAN
           /\ live' \in BOOLEAN
<1>1. /\ irq_off \in BOOLEAN /\ irq_q \in BOOLEAN /\ refill \in BOOLEAN /\ live \in BOOLEAN
      /\ state \in {"EXEC", "DATA", "WB"} /\ op \in Kinds /\ due \in Positions
  BY Types DEF At
<1>2. CASE in.tap = "load"
  <2>1. UNCHANGED <<core, live>>
    BY <1>2, LoadStep
  <2> QED BY <1>1, <2>1 DEF core
<1>3. CASE Stays(in)
  <2>1. UNCHANGED <<state, op, irq_off, irq_q, refill>> /\ live' \in {live, FALSE}
    BY <1>3, StayStep DEF At, Inputs
  <2> QED BY <1>1, <2>1
<1>4. state_next \in {"EXEC", "DATA", "WB"}
  BY <1>1 DEF state_next
<1>5. (Injects(in) \/ Moves(in)) /\ begins => KindOf(de) \in Kinds
  <2>1. ASSUME Injects(in), begins PROVE KindOf(de) \in Kinds
    <3>1. de.injected /\ inj.active
      BY <2>1, Injecting DEF begins, InExecute, Injects
    <3> QED BY <3>1, Types DEF KindOf, At
  <2>2. ASSUME Moves(in), begins PROVE KindOf(de) \in Kinds
    BY <1>1, <2>2, DueInExecute, Program DEF begins
  <2> QED BY <2>1, <2>2
<1>6. CASE Injects(in)
  <2>1. irq_q' = FALSE /\ refill' = FALSE /\ irq_off' \in BOOLEAN /\ live' = TRUE
    BY <1>6, InjectStep
  <2>2. state' = state_next /\ op' = IF begins THEN KindOf(de) ELSE op
    BY <1>6 DEF Injects, At, Edge, Core
  <2> QED BY <1>1, <1>4, <1>5, <1>6, <2>1, <2>2
<1>7. CASE Moves(in)
  <2>1. state' = state_next /\ (op' = IF begins THEN KindOf(de) ELSE op)
        /\ irq_off' \in BOOLEAN /\ live' = TRUE
        /\ irq_q' = (~irq_fires(in) /\ Retains(in))
        /\ refill' = (irq_fires(in) \/ (refill /\ ~vector_ready(in)))
    BY <1>7, MoveCore
  <2> QED BY <1>1, <1>4, <1>5, <1>7, <2>1
<1> QED BY <1>2, <1>3, <1>6, <1>7, StepKinds

LEMMA TypesKept ==
    ASSUME NEW in, At(in)
    PROVE  TypeOK'
<1>1. lr' \in Addresses
  <2>1. lr' = after' /\ after' \in Positions
    BY HistoryKept DEF HistoryTyped
  <2> QED BY <2>1, SlotTypes
<1> QED BY <1>1, CoreTypes, PipeTypes, IceTypes, EngineTypes, HostTypes DEF TypeOK
-----------------------------------------------------------------------------
(* The invariant holds at first, is kept by every edge, and by a stutter.  *)
LEMMA StartHolds ==
    ASSUME Init
    PROVE  HaltInv
<1>1. TypeOK
  <2>1. {fd, de, saved} \subseteq Slots /\ ~saved.injected
    BY SlotTypes DEF Init, Empty
  <2>2. fetch_pc \in Addresses /\ inflight \in Addresses \cup {None} /\ lr \in Addresses
    BY SlotTypes, Program DEF Init
  <2>3. inj \in [active : BOOLEAN, accepted : BOOLEAN, started : BOOLEAN, kind : Kinds]
    BY DEF Init, NoWord, Kinds
  <2>4. {irq_off, irq_q, refill, halt_pending, exc_wait, bp_halt, bp_resume,
         armed, pending, speed, dirty, live} \subseteq BOOLEAN
    BY DEF Init
  <2>5. /\ state \in {"EXEC", "DATA", "WB"} /\ op \in Kinds
        /\ dbg_state \in {"RUNNING", "HALTED"} /\ bps \in Breakable
    BY DEF Init, Kinds
  <2> QED BY <2>1, <2>2, <2>3, <2>4, <2>5 DEF TypeOK
<1>2. HistoryTyped /\ Sessions
  BY Program DEF Init, HistoryTyped, Sessions, Running0, NoWord, in_debug_halt
<1>3. Upto(0)
  BY DEF Init, Upto, Empty
<1>4. Stream /\ SavedIsFetch
  BY <1>3 DEF Init, Stream, SavedIsFetch, Empty
<1>5. Phases /\ Waiting /\ Retained /\ Resume
  BY DEF Init, Phases, Waiting, Retained, Resume, Held, Running0, NoWord, in_debug_halt
<1>6. Tags
  BY DEF Init, Tags, Tagged, Empty
<1> QED BY <1>1, <1>2, <1>4, <1>5, <1>6 DEF HaltInv

LEMMA EdgeKeeps ==
    ASSUME NEW in, At(in)
    PROVE  HaltInv'
BY TypesKept, HistoryKept, SessionsKept, StreamKept, SavedKept, PhasesKept, WaitingKept,
   RetainedKept, TagsKept, ResumeKept DEF HaltInv

LEMMA StutterKeeps ==
    ASSUME HaltInv, UNCHANGED vars
    PROVE  HaltInv'
<1> USE DEF vars, pipe, bus, core, ice, engine, host, history
<1>1. TypeOK' /\ HistoryTyped'
  BY DEF HaltInv, TypeOK, HistoryTyped
<1>2. Sessions' /\ Retained'
  BY DEF HaltInv, Sessions, Retained, Running0, in_debug_halt
<1>3. Stream'
  BY DEF HaltInv, Stream, Clean, Upto, Between, Slot
<1>4. SavedIsFetch'
  BY DEF HaltInv, SavedIsFetch, Clean, Running0, redirects, begins, breakpoint_execute, executing,
         inject_we, KindOf
<1>5. Phases' /\ Waiting'
  BY DEF HaltInv, Phases, Waiting, Offered, InDecode, InExecute, InAccess, Clean, Drained,
         in_debug_halt
<1>6. Tags' /\ Resume'
  BY DEF HaltInv, Tags, Tagged, Resume, Held, Running0, Clean, in_debug_halt
<1> QED BY <1>1, <1>2, <1>3, <1>4, <1>5, <1>6 DEF HaltInv

-----------------------------------------------------------------------------
(* Debug state holds the program on every edge.                            *)
LEMMA DebugStateStep ==
    ASSUME NEW in, At(in)
    PROVE  /\ dbg_state = "HALTED" /\ dbg_state' = "HALTED" => ran' \notin {"program", "irq"}
           /\ inj.active /\ ~inj'.active => scanned' = 1
<1>1. CASE in.tap = "load"
  BY <1>1, LoadStep, Scans DEF engine
<1>2. CASE Stays(in)
  <2>1. ran' = "none"
    BY <1>2, StayStep DEF HistorySame
  <2>2. inj.active => inj' = inj
    BY <1>2, StayEngine
  <2> QED BY <2>1, <2>2
<1>3. CASE Injects(in)
  <2>1. (Retires \/ Continues) /\ ran' = "none"
    BY <1>3, InjectStep DEF HistorySame
  <2> QED BY <2>1 DEF Retires, Continues
<1>4. CASE Moves(in)
  <2>1. dbg_state' = "HALTED" => dbg_state = "RUNNING"
    BY <1>4, MoveIce DEF HaltsCleanly
  <2>2. ~inj.active
    BY <1>4 DEF Moves
  <2> QED BY <2>1, <2>2
<1> QED BY <1>1, <1>2, <1>3, <1>4, StepKinds

(* For every program, vector, set of breakpoints and debugger within       *)
(* SafeUse the invariant holds.                                            *)
THEOREM HaltInvariant == ASSUME SafeUse PROVE Spec => []HaltInv
<1>1. Init => HaltInv
  BY StartHolds
<1>2. HaltInv /\ [Next]_vars => HaltInv'
  <2>1. ASSUME HaltInv, Next PROVE HaltInv'
    <3>1. PICK in \in Inputs : Edge(in) /\ Allowed(in)
      BY <2>1, EdgeInputs
    <3>2. At(in)
      BY <2>1, <3>1 DEF At
    <3> QED BY <3>2, EdgeKeeps
  <2> QED BY <2>1, StutterKeeps
<1> QED BY <1>1, <1>2, PTL DEF Spec

(* Every register keeps its type: slots, latches, halt machine and engine. *)
THEOREM HaltTypes == ASSUME SafeUse PROVE Spec => []TypeOK
<1>1. HaltInv => TypeOK
  BY DEF HaltInv
<1> QED BY <1>1, HaltInvariant, PTL

(* Each instruction the program executes is the one due, fetched from its  *)
(* address, over any halts, scans, interrupts and resumes (core 200-219,   *)
(* 425-494; ice_rt 566-695).                                               *)
THEOREM HaltInOrder == ASSUME SafeUse PROVE Spec => []ExecutesInOrder
<1>1. HaltInv => ExecutesInOrder
  BY DEF HaltInv, HistoryTyped, ExecutesInOrder
<1> QED BY <1>1, HaltInvariant, PTL

(* A breakpointed instruction does not execute before it has stopped the   *)
(* core (tags in fd_q, de_q and halt_response_tag_q; ice_rt 772-780).      *)
THEOREM HaltStops == ASSUME SafeUse PROVE Spec => []BreakpointStops
<1>1. HaltInv => BreakpointStops
  BY DEF HaltInv, HistoryTyped, BreakpointStops
<1> QED BY <1>1, HaltInvariant, PTL

(* No scanned word is left when the core runs, and no seen interrupt is    *)
(* left when it is in debug state (system_speed_*_q, debug_irq_pending_q). *)
THEOREM HaltEnds == ASSUME SafeUse PROVE Spec => []SessionEnds
<1>1. HaltInv => SessionEnds
  BY DEF HaltInv, HistoryTyped, Sessions, SessionEnds, Running0, in_debug_halt
<1> QED BY <1>1, HaltInvariant, PTL

(* In debug state nothing of the program executes and no exception is      *)
(* entered; a scanned instruction that retires was executed once           *)
(* (core_halt, dbg_inject_we, inject_accepted_q).                          *)
THEOREM HaltHolds == ASSUME SafeUse PROVE Spec => DebugStateHolds
<1>1. ASSUME HaltInv, Next
      PROVE  /\ dbg_state = "HALTED" /\ dbg_state' = "HALTED" => ran' \notin {"program", "irq"}
             /\ inj.active /\ ~inj'.active => scanned' = 1
  <2>1. PICK in \in Inputs : Edge(in) /\ Allowed(in)
    BY <1>1, EdgeInputs
  <2>2. At(in)
    BY <1>1, <2>1 DEF At
  <2> QED BY <2>2, DebugStateStep
<1>2. HaltInv /\ [Next]_vars
        => [dbg_state = "HALTED" /\ dbg_state' = "HALTED" => ran' \notin {"program", "irq"}]_vars
  BY <1>1
<1>3. HaltInv /\ [Next]_vars => [inj.active /\ ~inj'.active => scanned' = 1]_vars
  BY <1>1
<1> QED BY <1>2, <1>3, HaltInvariant, PTL DEF Spec, DebugStateHolds

-----------------------------------------------------------------------------
(* The watchpoint units.                                                   *)

(* The write of WP1's control value, which clears the chain latch.         *)
ChainWritten == <<1, "ctrl_val">>

WatchTypes ==
  /\ wp \in [Units -> UnitValues] /\ disabled \in BOOLEAN /\ monitor \in BOOLEAN
  /\ transfer \in TransferValues /\ chainout_q \in BOOLEAN
  /\ target.wp \in [Units -> UnitValues] /\ target.monitor \in BOOLEAN
  /\ todo \subseteq Units \X UnitRegisters
  /\ hit.matched \in BOOLEAN /\ hit.current \in BOOLEAN

(* The address phase that is kept is that of the transfer on the bus.      *)
PipelineInStep ==
  /\ watch_q = Latch(transfer) /\ break_q = transfer.brk
  /\ data_write_q <=> "nRW" \in transfer.control

(* While WP1 is between two configurations its control value is still to   *)
(* come, and that write clears the latch.                                  *)
ChainInStep ==
  /\ todo # {} => disabled
  /\ \A r \in UnitRegisters : <<1, r>> \in todo => ChainWritten \in todo
  /\ chainout_q => hit.matched /\ (hit.current \/ ChainWritten \in todo)

WatchInv == WatchTypes /\ PipelineInStep /\ ChainInStep
-----------------------------------------------------------------------------
(* A masked comparison is about the bits that differ.                      *)
LEMMA MaskedIsDiffer ==
  \A value, mask, input, bits :
     masked_match(value, mask, input, bits) <=> Differ(value, input) \cap bits \subseteq mask
BY DEF masked_match, Differ

(* The lanes of the kept address phase are those the transfer uses.        *)
LEMMA LanesCompared == ASSUME WatchInv PROVE lanes = Compared(transfer)
<1>1. watch_q.control = transfer.control /\ watch_q.addr = transfer.addr
  BY DEF WatchInv, PipelineInStep, Latch
<1>2. thumb_opcode_data <=> ThumbFetch(transfer)
  BY <1>1 DEF thumb_opcode_data, ThumbFetch
<1> QED BY <1>1, <1>2 DEF lanes, Compared, Halves

(* What is fed to the comparators when a transfer ends is its own data.    *)
LEMMA OwnData ==
  ASSUME WatchInv, NEW in \in WatchInputs, EndsTransfer(in) PROVE watch_data(in) = transfer.data
<1>1. in.clken /\ (data_write_q <=> "nRW" \in transfer.control)
  BY DEF EndsTransfer, WatchInv, PipelineInStep
<1>2. PICK t \in BusTransfers, other \in OtherData :
        in = [clken |-> TRUE, next |-> t,
              rdata |-> IF "nRW" \in transfer.control THEN other ELSE transfer.data,
              wdata |-> IF "nRW" \in transfer.control THEN transfer.data ELSE other]
  BY <1>1 DEF WatchInputs
<1>3. CASE "nRW" \in transfer.control
  BY <1>1, <1>2, <1>3 DEF watch_data
<1>4. CASE "nRW" \notin transfer.control
  BY <1>1, <1>2, <1>4 DEF watch_data
<1> QED BY <1>3, <1>4

(* The comparators of a unit on the transfer that ends.                    *)
LEMMA UnitCompares ==
  ASSUME WatchInv, NEW u \in Units
  PROVE  /\ addr_match(u) <=> SameAddress(u, transfer)
         /\ \A in \in WatchInputs :
              EndsTransfer(in) => (data_match(u, in) <=> SameData(u, transfer))
         /\ \A input, bits : control_match(u, input, bits) <=> SameControl(u, input, bits)
<1>1. wp[u].addr_val \subseteq AddrBits /\ transfer.addr \subseteq AddrBits
  <2>1. wp[u] \in UnitValues /\ transfer \in TransferValues
    BY DEF WatchInv, WatchTypes
  <2> QED BY <2>1 DEF UnitValues, TransferValues
<1>2. watch_q.addr = transfer.addr
  BY DEF WatchInv, PipelineInStep, Latch
<1>3. addr_match(u) <=> SameAddress(u, transfer)
  BY <1>1, <1>2 DEF addr_match, masked_match, SameAddress, Differ
<1>4. ASSUME NEW in \in WatchInputs, EndsTransfer(in)
      PROVE data_match(u, in) <=> SameData(u, transfer)
  BY <1>4, OwnData, LanesCompared, MaskedIsDiffer DEF data_match, SameData
<1>5. \A input, bits : control_match(u, input, bits) <=> SameControl(u, input, bits)
  BY MaskedIsDiffer DEF control_match, SameControl
<1> QED BY <1>3, <1>4, <1>5

(* The two halves of a control comparison.                                 *)
LEMMA ControlParts ==
  ASSUME NEW u, NEW low \in SUBSET LowControl, NEW high \in SUBSET HighControl
  PROVE  SameControl(u, low \cup high, AllControl)
           <=> SameControl(u, low, LowControl) /\ SameControl(u, high, HighControl)
<1>1. LowControl \cap HighControl = {}
  BY DEF LowControl, HighControl
<1>2. Differ(wp[u].ctrl_val, low \cup high) \cap AllControl
        = (Differ(wp[u].ctrl_val, low) \cap LowControl)
            \cup (Differ(wp[u].ctrl_val, high) \cap HighControl)
  BY <1>1 DEF Differ, AllControl
<1> QED BY <1>2 DEF SameControl

(* The chain latch and the history compare WP1 on one and the same transfer. *)
LEMMA SecondCompares ==
  ASSUME WatchInv
  PROVE  /\ wp1_addr_low_match
              <=> SameAddress(1, transfer) /\ SameControl(1, transfer.control, LowControl)
         /\ \A in \in WatchInputs : EndsTransfer(in) =>
              /\ wp1_data_high_match(in)
                   <=> SameData(1, transfer) /\ SameControl(1, External(1), HighControl)
              /\ wp1_rangeout(in) <=> SecondMatches(transfer)
<1>1. watch_q.control = transfer.control /\ watch_q.valid = transfer.valid
  BY DEF WatchInv, PipelineInStep, Latch
<1>2. wp1_addr_low_match
        <=> SameAddress(1, transfer) /\ SameControl(1, transfer.control, LowControl)
  BY <1>1, UnitCompares DEF wp1_addr_low_match, Units
<1>3. ASSUME NEW in \in WatchInputs, EndsTransfer(in)
      PROVE  wp1_data_high_match(in)
               <=> SameData(1, transfer) /\ SameControl(1, External(1), HighControl)
  BY <1>3, UnitCompares DEF wp1_data_high_match, Units
<1>4. SameControl(1, transfer.control \cup External(1), AllControl)
        <=> SameControl(1, transfer.control, LowControl) /\ SameControl(1, External(1), HighControl)
  <2>1. transfer.control \in SUBSET LowControl
    BY DEF WatchInv, WatchTypes, TransferValues
  <2>2. External(1) \in SUBSET HighControl
    BY DEF External, HighControl
  <2> QED BY <2>1, <2>2, ControlParts
<1>5. ASSUME NEW in \in WatchInputs, EndsTransfer(in)
      PROVE  wp1_rangeout(in) <=> SecondMatches(transfer)
  BY <1>1, <1>2, <1>3, <1>4, <1>5 DEF wp1_rangeout, SecondMatches, EndsTransfer
<1> QED BY <1>2, <1>3, <1>5

(* WP0 sees RANGE and CHAIN beside its own control bits.                   *)
LEMMA FirstCompares ==
  ASSUME WatchInv, NEW in \in WatchInputs, EndsTransfer(in)
  PROVE  wp0_rangeout(in) <=> FirstMatches(transfer)
<1>1. watch_q.control = transfer.control /\ watch_q.valid = transfer.valid
  BY DEF WatchInv, PipelineInStep, Latch
<1> DEFINE coupled == (IF chainout_q THEN {"CHAIN"} ELSE {})
                        \cup (IF SecondMatches(transfer) THEN {"RANGE"} ELSE {})
<1>2. wp0_control_in(in) = transfer.control \cup External(0) \cup coupled
  <2>1. wp1_rangeout(in) <=> SecondMatches(transfer)
    BY SecondCompares
  <2> QED BY <1>1, <2>1 DEF wp0_control_in
<1> HIDE DEF coupled
<1>3. control_match(0, wp0_control_in(in), LowControl \cup HighControl)
        <=> SameControl(0, transfer.control \cup External(0) \cup coupled, AllControl)
  BY <1>2, UnitCompares DEF Units, AllControl
<1>4. FirstMatches(transfer) <=>
        /\ SameAddress(0, transfer) /\ SameData(0, transfer)
        /\ SameControl(0, transfer.control \cup External(0) \cup coupled, AllControl)
  BY DEF FirstMatches, coupled
<1>5. /\ addr_match(0) <=> SameAddress(0, transfer)
      /\ data_match(0, in) <=> SameData(0, transfer)
  BY UnitCompares DEF Units
<1> QED BY <1>1, <1>3, <1>4, <1>5 DEF wp0_rangeout, EndsTransfer

(* Both comparators together.                                              *)
LEMMA RangeoutsMatch ==
  ASSUME WatchInv, NEW in \in WatchInputs, EndsTransfer(in)
  PROVE  rangeouts(in) = Matching(transfer)
BY FirstCompares, SecondCompares DEF rangeouts, Matching
-----------------------------------------------------------------------------
EdgeFacts(writes) ==
  /\ transfer' \in TransferValues /\ chainout_q' \in BOOLEAN
  /\ hit'.matched \in BOOLEAN /\ hit'.current \in BOOLEAN
  /\ PipelineInStep'
  /\ ChainWritten \in writes => ~chainout_q'
  /\ chainout_q' =>
       /\ hit'.matched
       /\ \/ hit'.current \/ ChainWritten \in todo
          \/ \E r \in UnitRegisters : <<1, r>> \in writes

(* An edge: the pipeline, and the latch beside its history.                *)
LEMMA WatchEdgeKeeps ==
  ASSUME WatchInv, NEW in \in WatchInputs, NEW writes \in SUBSET (Units \X UnitRegisters),
         WatchEdge(in, writes)
  PROVE  EdgeFacts(writes)
<1>1. in.clken => in.next \in TransferValues
  BY WatchAssumption DEF WatchInputs
<1>3. /\ transfer' \in TransferValues /\ PipelineInStep'
  <2>1. CASE in.clken
    BY <1>1, <2>1 DEF WatchEdge, LatchEdge, PipelineInStep
  <2>2. CASE ~in.clken
    BY <2>2 DEF WatchEdge, LatchEdge, PipelineInStep, WatchInv, WatchTypes
  <2> QED BY <2>1, <2>2
<1> DEFINE ends == /\ in.clken /\ transfer.valid /\ SameAddress(1, transfer)
                   /\ SameControl(1, transfer.control, LowControl)
           same == SameData(1, transfer) /\ SameControl(1, External(1), HighControl)
           changed == \E r \in UnitRegisters : <<1, r>> \in writes
<1>4. watch_q.valid = transfer.valid
  BY DEF WatchInv, PipelineInStep, Latch
<1>5. ends <=> in.clken /\ watch_q.valid /\ wp1_addr_low_match
  BY <1>4, SecondCompares
<1>6. ends => (wp1_data_high_match(in) <=> same)
  BY SecondCompares DEF EndsTransfer
<1>7. /\ hit'.matched = (IF ends THEN same ELSE hit.matched)
      /\ hit'.current = ((ends \/ hit.current) /\ ~changed)
  BY DEF WatchEdge, HistoryNext
<1>8. chainout_q' = IF ChainWritten \in writes THEN FALSE
                    ELSE IF ends THEN wp1_data_high_match(in) ELSE chainout_q
  BY <1>5 DEF WatchEdge, ChainNext, ChainWritten
<1>9. same \in BOOLEAN /\ ends \in BOOLEAN /\ changed \in BOOLEAN
      /\ wp1_data_high_match(in) \in BOOLEAN
  BY DEF wp1_data_high_match, data_match, control_match, masked_match
<1>10. /\ chainout_q \in BOOLEAN /\ hit.matched \in BOOLEAN /\ hit.current \in BOOLEAN
       /\ chainout_q => hit.matched /\ (hit.current \/ ChainWritten \in todo)
  BY DEF WatchInv, WatchTypes, ChainInStep
<1> HIDE DEF ends, same, changed
<1>11. /\ chainout_q' \in BOOLEAN /\ hit'.matched \in BOOLEAN /\ hit'.current \in BOOLEAN
  BY <1>7, <1>8, <1>9, <1>10
<1>12. ChainWritten \in writes => ~chainout_q'
  BY <1>8
<1>13. ASSUME chainout_q' PROVE hit'.matched /\ (hit'.current \/ ChainWritten \in todo \/ changed)
  <2>1. CASE ends
    BY <1>6, <1>7, <1>8, <1>13, <2>1
  <2>2. CASE ~ends
    BY <1>7, <1>8, <1>10, <1>13, <2>2
  <2> QED BY <2>1, <2>2
<1> QED BY <1>3, <1>11, <1>12, <1>13 DEF changed, EdgeFacts

(* An edge on which nothing is programmed.                                 *)
LEMMA QuietEdgeKeeps ==
  ASSUME WatchInv, NEW in \in WatchInputs, WatchEdge(in, {})
  PROVE  /\ transfer' \in TransferValues /\ chainout_q' \in BOOLEAN
         /\ hit'.matched \in BOOLEAN /\ hit'.current \in BOOLEAN /\ PipelineInStep'
         /\ chainout_q' => hit'.matched /\ (hit'.current \/ ChainWritten \in todo)
<1>1. {} \in SUBSET (Units \X UnitRegisters)
  OBVIOUS
<1>2. EdgeFacts({})
  BY <1>1, WatchEdgeKeeps
<1> QED BY <1>2 DEF EdgeFacts

(* Nothing is programmed at first.                                         *)
LEMMA InitKeeps == WatchInit => WatchInv
<1> SUFFICES ASSUME WatchInit PROVE WatchInv
  OBVIOUS
<1>1. transfer = Idle /\ transfer \in TransferValues
  BY DEF WatchInit, Idle, TransferValues
<1>2. PipelineInStep
  <2>1. "nRW" \notin transfer.control /\ transfer.brk = FALSE
    BY <1>1 DEF Idle
  <2>2. watch_q = Latch(transfer) /\ break_q = FALSE /\ data_write_q = FALSE
    BY <1>1 DEF WatchInit
  <2> QED BY <2>1, <2>2 DEF PipelineInStep
<1>3. wp \in [Units -> UnitValues] /\ target.wp = wp /\ target.monitor = FALSE
  BY DEF WatchInit, NoUnit, UnitRegisters, UnitValues
<1>4. hit.matched = FALSE /\ hit.current = TRUE /\ chainout_q = FALSE /\ todo = {}
      /\ disabled = FALSE /\ monitor = FALSE
  BY DEF WatchInit
<1> QED BY <1>1, <1>2, <1>3, <1>4 DEF WatchInv, WatchTypes, ChainInStep

(* An edge of the program alone.                                           *)
LEMMA ClockKeeps == ASSUME WatchInv, WatchClock PROVE WatchInv'
<1>1. PICK in \in WatchInputs : WatchEdge(in, {}) /\ UNCHANGED <<units, debugger>>
  BY DEF WatchClock
<1>2. /\ transfer' \in TransferValues /\ chainout_q' \in BOOLEAN
      /\ hit'.matched \in BOOLEAN /\ hit'.current \in BOOLEAN /\ PipelineInStep'
      /\ chainout_q' => hit'.matched /\ (hit'.current \/ ChainWritten \in todo)
  BY <1>1, QuietEdgeKeeps
<1> QED BY <1>1, <1>2 DEF WatchInv, WatchTypes, ChainInStep, units, debugger

(* The debugger takes up a configuration: WP1's control value is on it too.*)
LEMMA DisableKeeps == ASSUME WatchInv, Disable PROVE WatchInv'
<1>1. PICK c \in Configurations : target' = c /\ todo' = ToWrite(c)
  BY DEF Disable
<1>2. PICK in \in WatchInputs : WatchEdge(in, {})
  BY DEF Disable
<1>3. /\ transfer' \in TransferValues /\ chainout_q' \in BOOLEAN
      /\ hit'.matched \in BOOLEAN /\ hit'.current \in BOOLEAN /\ PipelineInStep'
      /\ chainout_q' => hit'.matched /\ (hit'.current \/ ChainWritten \in todo)
  BY <1>2, QuietEdgeKeeps
<1>4. c.wp \in [Units -> UnitValues] /\ c.monitor \in BOOLEAN
  BY WatchAssumption
<1>5. /\ todo' \subseteq Units \X UnitRegisters
      /\ \A r \in UnitRegisters : <<1, r>> \in todo' => ChainWritten \in todo'
  BY <1>1 DEF ToWrite, ChainWritten, Units, UnitRegisters
<1>6. todo = {} /\ disabled' = TRUE /\ UNCHANGED <<wp, monitor>>
  BY DEF Disable
<1> QED BY <1>1, <1>3, <1>4, <1>5, <1>6 DEF WatchInv, WatchTypes, ChainInStep

(* A register of a unit is replaced by the one the debugger programs.      *)
LEMMA RegisterReplaced ==
  ASSUME NEW a \in [Units -> UnitValues], NEW b \in [Units -> UnitValues],
         NEW u \in Units, NEW r \in UnitRegisters
  PROVE  [a EXCEPT ![u][r] = b[u][r]] \in [Units -> UnitValues]
<1>1. a[u] \in UnitValues /\ b[u] \in UnitValues
  OBVIOUS
<1>2. [a[u] EXCEPT ![r] = b[u][r]] \in UnitValues
  <2>1. CASE r = "addr_val"
    BY <1>1, <2>1 DEF UnitValues
  <2>2. CASE r = "addr_mask"
    BY <1>1, <2>2 DEF UnitValues
  <2>3. CASE r = "data_val"
    BY <1>1, <2>3 DEF UnitValues
  <2>4. CASE r = "data_mask"
    BY <1>1, <2>4 DEF UnitValues
  <2>5. CASE r = "ctrl_val"
    BY <1>1, <2>5 DEF UnitValues
  <2>6. CASE r = "ctrl_mask"
    BY <1>1, <2>6 DEF UnitValues
  <2> QED BY <2>1, <2>2, <2>3, <2>4, <2>5, <2>6 DEF UnitRegisters
<1> QED BY <1>2

(* One register is written, WP1's control value as the last of WP1.        *)
LEMMA WriteKeeps == ASSUME ControlLast, WatchInv, WriteUnit PROVE WatchInv'
<1>1. PICK w \in todo :
        /\ w = ChainWritten => \A v \in todo : v[1] = 1 => v = w
        /\ wp' = [wp EXCEPT ![w[1]][w[2]] = target.wp[w[1]][w[2]]]
        /\ todo' = todo \ {w}
        /\ \E in \in WatchInputs : WatchEdge(in, {w})
  BY DEF WriteUnit, ChainWritten
<1>2. w \in Units \X UnitRegisters /\ w = <<w[1], w[2]>>
  BY DEF WatchInv, WatchTypes
<1>3. PICK in \in WatchInputs : WatchEdge(in, {w})
  BY <1>1
<1>4. /\ transfer' \in TransferValues /\ chainout_q' \in BOOLEAN
      /\ hit'.matched \in BOOLEAN /\ hit'.current \in BOOLEAN /\ PipelineInStep'
      /\ ChainWritten = w => ~chainout_q'
      /\ chainout_q' =>
           /\ hit'.matched
           /\ \/ hit'.current \/ ChainWritten \in todo
              \/ \E r \in UnitRegisters : <<1, r>> = w
  <2>1. {w} \in SUBSET (Units \X UnitRegisters)
    BY <1>2
  <2>2. EdgeFacts({w})
    BY <1>3, <2>1, WatchEdgeKeeps
  <2>3. \A v : v \in {w} <=> v = w
    OBVIOUS
  <2> QED BY <2>2, <2>3 DEF EdgeFacts
<1>5. wp' \in [Units -> UnitValues]
  <2>1. /\ wp \in [Units -> UnitValues] /\ target.wp \in [Units -> UnitValues]
        /\ w[1] \in Units /\ w[2] \in UnitRegisters
    BY <1>2 DEF WatchInv, WatchTypes
  <2> QED BY <1>1, <2>1, RegisterReplaced
<1>6. UNCHANGED <<disabled, monitor, target>>
  BY DEF WriteUnit
<1>7. /\ todo # {} /\ disabled
      /\ \A r \in UnitRegisters : <<1, r>> \in todo => ChainWritten \in todo
  BY DEF WatchInv, ChainInStep
<1>8. chainout_q' => hit'.matched /\ (hit'.current \/ ChainWritten \in todo')
  BY <1>1, <1>4, <1>7
<1>9. \A r \in UnitRegisters : <<1, r>> \in todo' => ChainWritten \in todo'
  BY <1>1, <1>7 DEF ChainWritten
<1> QED BY <1>1, <1>4, <1>5, <1>6, <1>7, <1>8, <1>9 DEF WatchInv, WatchTypes, ChainInStep

(* All registers are written.                                              *)
LEMMA EnableKeeps == ASSUME WatchInv, Enable PROVE WatchInv'
<1>1. PICK in \in WatchInputs : WatchEdge(in, {})
  BY DEF Enable
<1>2. /\ transfer' \in TransferValues /\ chainout_q' \in BOOLEAN
      /\ hit'.matched \in BOOLEAN /\ hit'.current \in BOOLEAN /\ PipelineInStep'
      /\ chainout_q' => hit'.matched /\ (hit'.current \/ ChainWritten \in todo)
  BY <1>1, QuietEdgeKeeps
<1>3. /\ todo = {} /\ disabled' = FALSE /\ monitor' = target.monitor
      /\ UNCHANGED <<wp, debugger>>
  BY DEF Enable
<1> QED BY <1>2, <1>3 DEF WatchInv, WatchTypes, ChainInStep, debugger

(* The invariant holds in every state.                                     *)
LEMMA WatchInvariant == ASSUME ControlLast PROVE WatchSpec => []WatchInv
<1>1. ASSUME WatchInv, [WatchNext]_watch_vars PROVE WatchInv'
  <2>1. CASE UNCHANGED watch_vars
    BY <1>1, <2>1 DEF watch_vars, units, pipeline, debugger, WatchInv, WatchTypes,
                      PipelineInStep, ChainInStep
  <2> QED BY <1>1, <2>1, ClockKeeps, DisableKeeps, WriteKeeps, EnableKeeps DEF WatchNext
<1> QED BY InitKeeps, <1>1, PTL DEF WatchSpec
-----------------------------------------------------------------------------
(* Whatever is programmed, in any order that ends WP1 with its control     *)
(* value, a verdict is that of one whole transfer, and the chain latch is  *)
(* of the configuration it is used under.                                  *)
THEOREM VerdictsOfOneTransfer == ASSUME ControlLast PROVE WatchSpec => []ComparesTransfer
<1>1. ASSUME WatchInv PROVE ComparesTransfer
  <2>1. ChainFresh
    BY <1>1 DEF WatchInv, ChainInStep, ChainFresh
  <2>2. ASSUME NEW in \in WatchInputs, EndsTransfer(in)
        PROVE  DBGRNG(in) = IF disabled THEN {} ELSE Matching(transfer)
    BY <1>1, <2>2, RangeoutsMatch DEF DBGRNG, comparators_enabled
  <2> QED BY <2>1, <2>2 DEF ComparesTransfer
<1> QED BY WatchInvariant, <1>1, PTL

(* A unit in monitor mode matches what it compares at all.                 *)
LEMMA MonitorMatches ==
  ASSUME WatchInv, NEW u \in Units, transfer.valid
  PROVE  monitor_match(u) <=>
           /\ ~disabled /\ u \in Matching(transfer) /\ "ENABLE" \in wp[u].ctrl_val
           /\ wp[u].data_mask = Halves
           /\ wp[u].ctrl_mask \cap {"RANGE", "CHAIN"} = {"RANGE", "CHAIN"}
<1> DEFINE coupled == (IF chainout_q THEN {"CHAIN"} ELSE {})
                        \cup (IF SecondMatches(transfer) THEN {"RANGE"} ELSE {})
           more == IF u = 0 THEN coupled ELSE {}
           plain == wp[u].data_mask = Halves /\ {"RANGE", "CHAIN"} \subseteq wp[u].ctrl_mask
<1>1. watch_q.control = transfer.control /\ watch_q.valid
  BY DEF WatchInv, PipelineInStep, Latch
<1>2. u \in Matching(transfer) <=>
        /\ SameAddress(u, transfer) /\ SameData(u, transfer)
        /\ SameControl(u, transfer.control \cup External(u) \cup more, AllControl)
  BY DEF Matching, FirstMatches, SecondMatches, Units
<1>3. more \subseteq {"RANGE", "CHAIN"}
  OBVIOUS
<1> HIDE DEF more
<1>4. wp[u].data_mask = Halves => SameData(u, transfer)
  BY DEF SameData, Compared
<1>5. {"RANGE", "CHAIN"} \subseteq wp[u].ctrl_mask =>
        (SameControl(u, transfer.control \cup External(u) \cup more, AllControl)
           <=> SameControl(u, transfer.control \cup External(u), LowControl \cup {"EXTERN"}))
  <2>1. transfer.control \subseteq LowControl
    BY DEF WatchInv, WatchTypes, TransferValues
  <2>2. External(u) \subseteq {"EXTERN"}
    BY DEF External
  <2> QED BY <1>3, <2>1, <2>2 DEF SameControl, Differ, AllControl, LowControl, HighControl
<1>6. monitor_match(u) <=>
        /\ ~disabled /\ "ENABLE" \in wp[u].ctrl_val /\ plain /\ SameAddress(u, transfer)
        /\ SameControl(u, transfer.control \cup External(u), LowControl \cup {"EXTERN"})
  BY <1>1, UnitCompares DEF monitor_match, monitor_supported, comparators_enabled
<1>7. plain <=> /\ wp[u].data_mask = Halves
                /\ wp[u].ctrl_mask \cap {"RANGE", "CHAIN"} = {"RANGE", "CHAIN"}
  OBVIOUS
<1> QED BY <1>2, <1>4, <1>5, <1>6, <1>7

(* And the program stops or aborts for exactly the reasons programmed.     *)
THEOREM StopsAsProgrammed == ASSUME ControlLast PROVE WatchSpec => []StopsProgram
<1>1. ASSUME WatchInv PROVE StopsProgram
  <2> SUFFICES ASSUME NEW in \in WatchInputs, EndsTransfer(in)
      PROVE  LET enabled == {u \in Units : "ENABLE" \in wp[u].ctrl_val}
                 plain == {u \in enabled : wp[u].data_mask = Halves
                             /\ wp[u].ctrl_mask \cap {"RANGE", "CHAIN"} = {"RANGE", "CHAIN"}}
                 matching == IF disabled THEN {} ELSE Matching(transfer)
                 stops == IF monitor THEN matching \cap plain # {}
                          ELSE matching \cap enabled # {} \/ transfer.brk
                 fetch == "nOPC" \notin transfer.control
             IN  /\ breakpoint_fetch(in) <=> stops /\ fetch
                 /\ watchpoint_halt(in) <=> stops /\ ~fetch /\ ~monitor
                 /\ monitor_data_abort <=> stops /\ ~fetch /\ monitor
    BY DEF StopsProgram
  <2> DEFINE enabled == {u \in Units : "ENABLE" \in wp[u].ctrl_val}
             plain == {u \in enabled : wp[u].data_mask = Halves
                         /\ wp[u].ctrl_mask \cap {"RANGE", "CHAIN"} = {"RANGE", "CHAIN"}}
             matching == IF disabled THEN {} ELSE Matching(transfer)
             stops == IF monitor THEN matching \cap plain # {}
                      ELSE matching \cap enabled # {} \/ transfer.brk
  <2>1. /\ transfer.valid /\ watch_q.valid /\ watch_q.control = transfer.control
        /\ break_q = transfer.brk
    BY <1>1 DEF EndsTransfer, WatchInv, PipelineInStep, Latch
  <2>2. monitor_enabled_wp_match <=> matching \cap plain # {}
    BY <1>1, <2>1, MonitorMatches DEF monitor_enabled_wp_match
  <2>3. enabled_wp_match(in) <=> matching \cap enabled # {}
    <3>1. Matching(transfer) \subseteq Units
      BY DEF Matching
    <3> QED BY <1>1, <3>1, RangeoutsMatch DEF enabled_wp_match, comparators_enabled
  <2>4. external_break_match <=> transfer.brk
    BY <2>1 DEF external_break_match
  <2>5. is_data <=> "nOPC" \in transfer.control
    BY <2>1 DEF is_data
  <2> HIDE DEF enabled, plain, matching
  <2>6. /\ breakpoint_fetch(in) <=> stops /\ "nOPC" \notin transfer.control
        /\ watchpoint_halt(in) <=> stops /\ "nOPC" \in transfer.control /\ ~monitor
        /\ monitor_data_abort <=> stops /\ "nOPC" \in transfer.control /\ monitor
    BY <2>2, <2>3, <2>4, <2>5 DEF breakpoint_fetch, watchpoint_halt, monitor_data_abort
  <2> QED BY <2>6 DEF enabled, plain, matching
<1> QED BY WatchInvariant, <1>1, PTL
=============================================================================
