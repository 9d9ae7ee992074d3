-------------------------- MODULE CorePipelineProofs --------------------------
(***************************************************************************)
(* The pipeline executes the program in order, for every mix of            *)
(* instruction classes, every placement of vectors and every length of a   *)
(* multiplication.  QuietInterrupts is what has to be assumed: where it    *)
(* fails the properties fail, as TLC shows.                                *)
(*                                                                         *)
(* An edge is the same for all substates but for the record they hand      *)
(* over.  EdgeShape says what those records have in common; one lemma says *)
(* what any edge does to the slots, one what an exception does, and then   *)
(* each substate is looked at for the writes it makes.                     *)
(***************************************************************************)
EXTENDS CorePipeline, TLAPS

(* The substates in which an interrupt shares its edge with no register    *)
(* write, no redirect and no trap.                                         *)
QuietStates == {"EXEC", "DDATA", "BLOCK_DATA", "SWP_RDATA", "SWP_WDATA",
                "MULL_ACC", "MUL_BUSY", "CP_WAIT", "CP_MCR_DATA", "CP_MRC_DATA"}

(* Interrupts come in quiet substates only, no FIQ comes with a failed     *)
(* data response, and the word of a failed fetch finishes in Execute.      *)
QuietInterrupts ==
    /\ IrqStates \subseteq QuietStates /\ FiqWithAbort = FALSE
    /\ AbortedKinds \subseteq Single \cup {"swi", "undef"}
-----------------------------------------------------------------------------
(* The inductive invariant.                                                *)

Waiting == state \in {"UNDEF_WAIT", "CP_WAIT"}

(* The oldest instruction in the slots.                                    *)
Front == IF de.valid THEN de.pc
         ELSE IF fd.valid THEN fd.pc
         ELSE IF inflight.valid THEN inflight.pc ELSE fetch_pc

(* The slots hold consecutive instructions of the current instruction set, *)
(* and none has a gap before it.  During a multicycle instruction nothing  *)
(* is in flight, and its successors wait in both slots unless it has       *)
(* flushed them itself.                                                    *)
SlotsInOrder ==
    LET W == Width(psr.t)
    IN /\ inflight.valid => inflight.thumb = psr.t /\ fetch_pc = Plus(inflight.pc, W)
       /\ fd.valid => /\ fd.thumb = psr.t
                      /\ Plus(fd.pc, W) = IF inflight.valid THEN inflight.pc ELSE fetch_pc
       /\ de.valid => fd.valid /\ de.thumb = psr.t /\ fd.pc = Plus(de.pc, W)
       /\ state = "EXEC" /\ fd.valid => inflight.valid
       /\ state # "EXEC" => ~inflight.valid /\ (de.valid \/ (state = "BLOCK_WB" /\ ~fd.valid))

(* The classes a substate serves.                                          *)
Served(s) ==
    CASE s = "EXEC" -> {"nothing"}           [] s = "DDATA" -> Transfers
      [] s = "LOAD_WB" -> {"load", "loadpc"} [] s = "BLOCK_DATA" -> Blocks
      [] s = "BLOCK_WB" -> Blocks \ {"stm"}  [] s = "MULL_ACC" -> {"mlal"}
      [] s \in {"SWP_RDATA", "SWP_WDATA", "SWP_WB"} -> {"swp"}
      [] s = "MUL_BUSY" -> Muls              [] s = "MULL_HI" -> {"mull", "mlal"}
      [] s = "DP_SHIFT" -> Shifts            [] s = "CP_WAIT" -> CpKinds
      [] s = "CP_MCR_DATA" -> {"mcr", "stc"} [] s = "CP_MRC_DATA" -> {"mrc", "ldc"}
      [] s = "CP_MRC_WB" -> {"mrc", "ldc", "stc"}
      [] OTHER -> CpKinds \cup {"undef"}

(* The latches of a multicycle instruction belong to it, and a waiting one *)
(* is the predecessor of what is in the slots.                             *)
LatchesMatch ==
    /\ op.kind \in Served(state)
    /\ state = "EXEC" => op = NoOp
    /\ state = "BLOCK_DATA" => op.left \in {1, 2}
    /\ state = "MUL_BUSY" => op.left # 0
    /\ state = "CP_WAIT" => op.left = 2
    /\ state \notin {"EXEC", "BLOCK_WB"} => op.mode = psr.mode
    /\ Waiting => op.thumb = psr.t /\ de.pc = Plus(op.pc, Width(psr.t))

(* A failed response is remembered only by an instruction that made it.    *)
AbortsPending ==
    dabort /\ state # "EXEC" =>
       /\ state \in {"LOAD_WB", "BLOCK_DATA", "BLOCK_WB", "SWP_WB",
                     "CP_MCR_DATA", "CP_MRC_DATA", "CP_MRC_WB"}
       /\ op.kind \notin {"mcr", "mrc"}
       /\ state = "BLOCK_DATA" => op.left = 1

(* What each substate still has to write.  After a failed response only    *)
(* the base matters: the abort cancels the rest.                           *)
LastItem == IF op.kind \in {"ldmpc", "ldmret"} THEN "pc" ELSE "r1"
NoBase == \A w \in owed : w[1] # "base"

DebtsMatch ==
    LET R(w) == <<w, op.mode>>   B(w) == <<w, "bus">>
    IN /\ state \in {"EXEC", "UNDEF_WAIT", "CP_WAIT"} => owed = {}
       /\ state \in {"DDATA", "LOAD_WB"} =>
            owed = CASE op.kind = "load" -> {R("rd")} [] op.kind = "loadpc" -> {R("pc")}
                     [] OTHER -> {B("m1")}
       /\ state = "BLOCK_DATA" /\ op.kind = "stm" =>
            /\ NoBase
            /\ B("m1") \in owed
            /\ op.left = 2 => owed = {B("m2"), B("m1")}
            /\ op.left = 1 /\ ~dabort => owed = {B("m1")}
       /\ state = "BLOCK_DATA" /\ op.kind # "stm" =>
            /\ op.left = 2 => owed = {R("base"), R("r2"), R(LastItem)}
            /\ op.left = 1 /\ ~dabort => owed = {R("base"), R(LastItem)}
            /\ op.left = 1 /\ dabort => owed = {R("base"), R("r2"), R(LastItem)}
       /\ state = "BLOCK_WB" => IF dabort THEN NoBase ELSE op.left = 0 /\ owed = {R("base")}
       /\ state \in {"SWP_RDATA", "SWP_WDATA"} => owed = {R("rd"), B("m1")}
       /\ state = "SWP_WB" => IF dabort THEN NoBase ELSE owed = {R("rd")}
       /\ state = "MULL_ACC" => owed = {R("lo"), R("hi")}
       /\ state = "MUL_BUSY" => owed = IF op.kind = "mul" THEN {} ELSE {R("hi")}
       /\ state = "MULL_HI" => owed = {R("hi")}
       /\ state = "DP_SHIFT" => owed = IF op.kind = "shift" THEN {R("rd")} ELSE {}
       /\ state \in {"CP_MCR_DATA", "CP_MRC_DATA"} =>
            owed = CASE op.kind = "mcr" -> {} [] op.kind = "mrc" -> {R("rd")}
                     [] OTHER -> IF op.left = 2 THEN {R("base")} ELSE {}
       /\ state = "CP_MRC_WB" => owed = IF op.kind = "mrc" THEN {R("rd")} ELSE {}

LinkKept == label.what \in Events => label.link # Lost

IInv == /\ TypeOK /\ ~fiqHeld
        /\ SlotsInOrder /\ LatchesMatch /\ AbortsPending /\ DebtsMatch
        /\ LinkKept /\ NothingStray
        /\ halted => state = "EXEC" /\ resume = Front
-----------------------------------------------------------------------------
(* Any edge.                                                               *)

PsrType == [t : BOOLEAN, i : BOOLEAN, f : BOOLEAN, mode : Modes]
Idle == {"EXEC", "UNDEF_WAIT", "CP_WAIT"}

(* What the records that the substates hand to Edge have in common.        *)
EdgeShape(x) ==
    /\ x.nx \in States /\ x.to \in PC /\ x.psr \in PsrType
    /\ x.ab \in BOOLEAN /\ x.jump \in BOOLEAN /\ x.early \in BOOLEAN
    /\ ~x.jump => x.psr.t = psr.t
    /\ x.jump => (x.nx = "EXEC" /\ x.early) \/ (x.nx = "BLOCK_WB" /\ ~x.early)
    /\ x.nx = "EXEC" => x.fetches
    /\ state = "EXEC" /\ x.nx # "EXEC" => de.valid
    /\ state = "BLOCK_WB" => x.nx \in {"EXEC", "BLOCK_WB"}
    /\ state = "LOAD_WB" /\ x.jump => ~dabort /\ ~x.ab
    /\ x.sync # "none" =>
         /\ x.nx = "EXEC"
         /\ \/ state = "EXEC" /\ de.valid /\ x.sync \in {"pabt", "swi"}
            \/ state = "UNDEF_WAIT" /\ x.sync = "undef"
    /\ x.ab => state \notin Idle
    /\ x.nx = "EXEC" /\ (state \in QuietStates \cup {"UNDEF_WAIT"} \/ dabort \/ x.ab)
         => x.high = {}

LEMMA PlusType == \A a \in PC, n \in Nat : Plus(a, n) \in PC
  BY SizeAssumption DEF Plus, PC

LEMMA LostIsNoAddress == \A a \in PC : a # Lost
  BY SizeAssumption DEF PC, Lost

LEMMA VectorType == \A e \in Events : Vector[e] \in PC
  BY VectorAssumption DEF PC

(* Which exception an edge takes.                                          *)
LEMMA EventCases ==
    ASSUME IInv, QuietInterrupts, NEW x, EdgeShape(x),
           NEW irq \in BOOLEAN, NEW fiq \in BOOLEAN, Edge(x, irq, fiq),
           NEW e, e = Event(x.nx, x.ab, irq, fiq, x.sync)
    PROVE  /\ e \in Events \cup {"none"}
           /\ e # "none" => x.nx = "EXEC"
           /\ e = "dabt" <=> (dabort \/ x.ab) /\ x.nx = "EXEC" /\ state # "EXEC"
           /\ e = "dabt" => state \notin Idle
           /\ e \in {"fiq", "irq"} => state \in QuietStates /\ (state = "EXEC" => de.valid)
           /\ e \notin {"none", "dabt", "fiq", "irq"} => e = x.sync
           /\ e = "none" => x.sync = "none"
           /\ state = "LOAD_WB" /\ x.jump => e = "none"
           /\ ~InterlockFires
<1>1. ~InterlockFires
  BY DEF IInv, InterlockFires
<1>2. (irq \/ fiq) => state \in QuietStates
  BY DEF Edge, QuietInterrupts
<1>3. x.sync \in {"none", "pabt", "swi", "undef"}
  BY DEF EdgeShape
<1>4. state \in Idle => ~(dabort /\ state # "EXEC") /\ ~x.ab
  BY DEF IInv, AbortsPending, EdgeShape, Idle
<1>5. CASE DabtFires(x.nx, x.ab)
  BY <1>1, <1>2, <1>4, <1>5 DEF Event, DabtFires, EdgeShape, Events, Idle
<1>6. CASE ~DabtFires(x.nx, x.ab)
  BY <1>1, <1>2, <1>3, <1>6
  DEF Event, DabtFires, FiqFires, Boundary, EdgeShape, Events, Idle, QuietStates
<1> QED BY <1>5, <1>6

(* Where the program continues once an edge without a redirect is over.    *)
After == IF Waiting THEN Plus(op.pc, Width(psr.t))
         ELSE IF state = "EXEC" /\ de.valid THEN Plus(de.pc, Width(psr.t)) ELSE Front

(* The address a redirect or an exception goes to.                         *)
Target(x, e) == IF e # "none" THEN Vector[e] ELSE x.to

LEMMA BubbleType == Bubble \in SlotType /\ ~Bubble.valid
  BY SizeAssumption DEF Bubble, SlotType, PC

LEMMA SlotFacts ==
    ASSUME NEW a \in PC, NEW thumb \in BOOLEAN
    PROVE  /\ Slot(a, thumb) \in SlotType /\ Slot(a, thumb).valid
           /\ Slot(a, thumb).pc = a /\ Slot(a, thumb).thumb = thumb
           /\ Plus(a, Width(thumb)) \in PC
  BY PlusType DEF Slot, SlotType, Width

(* What the advance of the slots comes to, case by case.                   *)
LEMMA EdgeAdvance ==
    ASSUME IInv, QuietInterrupts, NEW x, EdgeShape(x),
           NEW irq \in BOOLEAN, NEW fiq \in BOOLEAN, Edge(x, irq, fiq),
           NEW e, e = Event(x.nx, x.ab, irq, fiq, x.sync)
    PROVE  /\ psr' \in PsrType /\ state' = x.nx /\ state' \in States
           /\ ~x.jump /\ e = "none" => psr'.t = psr.t
           /\ e # "none" => psr'.t = FALSE
           /\ e = "none" => psr' = x.psr
           /\ e # "none" => /\ inflight' = Slot(Target(x, e), psr'.t)
                            /\ fetch_pc' = Plus(Target(x, e), Width(psr'.t))
           /\ (e = "none" /\ x.jump /\ x.early) =>
                /\ inflight' = Slot(Target(x, e), psr'.t)
                /\ fetch_pc' = Plus(Target(x, e), Width(psr'.t))
           /\ (e = "none" /\ x.jump /\ ~x.early) =>
                inflight' = Bubble /\ fetch_pc' = x.to
           /\ (e # "none" \/ x.jump) => fd' = Bubble /\ de' = [de EXCEPT !.valid = FALSE]
           /\ (e = "none" /\ ~x.jump /\ x.nx = "EXEC") =>
                inflight' = Slot(fetch_pc, psr.t) /\ fetch_pc' = Plus(fetch_pc, Width(psr.t))
           /\ (e = "none" /\ ~x.jump /\ x.nx # "EXEC") =>
                inflight' = Bubble /\ fetch_pc' = fetch_pc
           /\ (e = "none" /\ ~x.jump /\ state # "EXEC") => UNCHANGED <<fd, de>>
           /\ (e = "none" /\ ~x.jump /\ state = "EXEC") =>
                /\ fd' = IF inflight.valid THEN Slot(inflight.pc, psr.t) ELSE Bubble
                /\ de' = IF fd.valid THEN fd ELSE [de EXCEPT !.valid = FALSE]
           /\ Target(x, e) \in PC
<1>1. /\ e \in Events \cup {"none"}
      /\ e # "none" => x.nx = "EXEC"
      /\ state = "LOAD_WB" /\ x.jump => e = "none"
  BY EventCases
<1>2. /\ Advance(x, e) /\ state' = x.nx
      /\ psr' = IF e = "none" THEN x.psr
                ELSE [t |-> FALSE, i |-> TRUE, f |-> psr.f \/ e = "fiq", mode |-> ModeOf[e]]
  BY DEF Edge
<1>3. psr \in PsrType
  BY DEF IInv, TypeOK, PsrType
<1>4. psr' \in PsrType
  <2>1. e \in Events => ModeOf[e] \in Modes
    BY DEF Events, ModeOf, Modes
  <2> QED BY <1>1, <1>2, <1>3, <2>1 DEF EdgeShape, PsrType
<1>5. Target(x, e) \in PC
  BY <1>1, VectorType DEF Target, EdgeShape
<1>6. CASE e # "none"
  <2>1. /\ inflight' = Slot(Vector[e], FALSE)
        /\ fetch_pc' = Plus(Vector[e], Width(FALSE))
        /\ fd' = Bubble /\ de' = [de EXCEPT !.valid = FALSE]
    BY <1>1, <1>2, <1>6 DEF Advance, TargetThumb
  <2>2. psr'.t = FALSE
    BY <1>2, <1>6
  <2> QED BY <1>1, <1>2, <1>4, <1>5, <1>6, <2>1, <2>2 DEF Target, EdgeShape
<1>7. CASE e = "none" /\ x.jump
  <2>1. /\ inflight' = IF x.early THEN Slot(x.to, x.psr.t) ELSE Bubble
        /\ fetch_pc' = IF x.early THEN Plus(x.to, Width(x.psr.t)) ELSE x.to
        /\ fd' = Bubble /\ de' = [de EXCEPT !.valid = FALSE]
    BY <1>7, <1>2 DEF Advance, TargetThumb
  <2> QED BY <1>1, <1>2, <1>4, <1>5, <1>7, <2>1 DEF Target, EdgeShape
<1>8. CASE e = "none" /\ ~x.jump
  <2>1. /\ inflight' = IF x.nx = "EXEC" THEN Slot(fetch_pc, psr.t) ELSE Bubble
        /\ fetch_pc' = IF x.nx = "EXEC" THEN Plus(fetch_pc, Width(psr.t)) ELSE fetch_pc
    BY <1>2, <1>8 DEF Advance, EdgeShape
  <2>2. state # "EXEC" => UNCHANGED <<fd, de>>
    BY <1>2, <1>8 DEF Advance
  <2>3. state = "EXEC" =>
          /\ fd' = IF inflight.valid THEN Slot(inflight.pc, psr.t) ELSE Bubble
          /\ de' = IF fd.valid THEN fd ELSE [de EXCEPT !.valid = FALSE]
    BY <1>2, <1>8 DEF Advance
  <2>4. psr' = x.psr /\ psr'.t = psr.t /\ x.nx \in States
    BY <1>2, <1>8 DEF EdgeShape
  <2> QED BY <1>2, <1>4, <1>5, <1>8, <2>1, <2>2, <2>3, <2>4
<1> QED BY <1>6, <1>7, <1>8 DEF EdgeShape

(* Any edge keeps the slots in order, and the program goes on where it     *)
(* should.                                                                 *)
LEMMA EdgeSlots ==
    ASSUME IInv, QuietInterrupts, NEW x, EdgeShape(x),
           NEW irq \in BOOLEAN, NEW fiq \in BOOLEAN, Edge(x, irq, fiq),
           NEW e, e = Event(x.nx, x.ab, irq, fiq, x.sync)
    PROVE  /\ fetch_pc' \in PC /\ inflight' \in SlotType
           /\ fd' \in SlotType /\ de' \in SlotType
           /\ SlotsInOrder'
           /\ Front' = IF e # "none" \/ x.jump THEN Target(x, e) ELSE After
           /\ e = "none" /\ ~x.jump /\ state = "EXEC" /\ de.valid =>
                de' = fd /\ de'.pc = Plus(de.pc, Width(psr.t)) /\ de'.valid
           /\ e = "none" /\ ~x.jump /\ state # "EXEC" => de' = de
<1>1. /\ psr \in PsrType /\ psr.t \in BOOLEAN /\ fetch_pc \in PC
      /\ inflight \in SlotType /\ fd \in SlotType /\ de \in SlotType
      /\ inflight.pc \in PC /\ fd.pc \in PC /\ de.pc \in PC
  BY DEF IInv, TypeOK, PsrType, SlotType
<1>2. [de EXCEPT !.valid = FALSE] \in SlotType /\ ~[de EXCEPT !.valid = FALSE].valid
  BY <1>1 DEF SlotType
<1>3. psr'.t \in BOOLEAN /\ state' = x.nx
  BY EdgeAdvance DEF PsrType
<1>4. e # "none" => x.nx = "EXEC"
  BY EventCases
<1>5. CASE e # "none" \/ (x.jump /\ x.early)
  <2>1. /\ inflight' = Slot(Target(x, e), psr'.t)
        /\ fetch_pc' = Plus(Target(x, e), Width(psr'.t))
        /\ fd' = Bubble /\ de' = [de EXCEPT !.valid = FALSE]
        /\ Target(x, e) \in PC
    <3>1. e # "none" \/ x.jump
      BY <1>5
    <3>2. fd' = Bubble /\ de' = [de EXCEPT !.valid = FALSE] /\ Target(x, e) \in PC
      BY <3>1, EdgeAdvance
    <3>3. /\ inflight' = Slot(Target(x, e), psr'.t)
          /\ fetch_pc' = Plus(Target(x, e), Width(psr'.t))
      <4>1. CASE e # "none"
        BY <4>1, EdgeAdvance
      <4>2. CASE e = "none" /\ x.jump /\ x.early
        BY <4>2, EdgeAdvance
      <4> QED BY <1>5, <4>1, <4>2
    <3> QED BY <3>2, <3>3
  <2>2. state' = "EXEC"
    BY <1>3, <1>4, <1>5 DEF EdgeShape
  <2>3. /\ inflight'.valid /\ inflight'.pc = Target(x, e) /\ inflight'.thumb = psr'.t
        /\ inflight' \in SlotType /\ fetch_pc' \in PC /\ ~fd'.valid /\ ~de'.valid
    BY <1>2, <1>3, <2>1, SlotFacts, BubbleType
  <2>4. SlotsInOrder'
    BY <2>1, <2>2, <2>3 DEF SlotsInOrder
  <2> QED BY <1>2, <1>5, <2>1, <2>3, <2>4, BubbleType DEF Front
<1>6. CASE e = "none" /\ x.jump /\ ~x.early
  <2>1. /\ inflight' = Bubble /\ fetch_pc' = x.to /\ fd' = Bubble
        /\ de' = [de EXCEPT !.valid = FALSE]
    BY <1>6, EdgeAdvance
  <2>2. state' = "BLOCK_WB" /\ x.to \in PC
    BY <1>3, <1>6 DEF EdgeShape
  <2>3. SlotsInOrder'
    BY <1>2, <2>1, <2>2, BubbleType DEF SlotsInOrder
  <2> QED BY <1>2, <1>6, <2>1, <2>2, <2>3, BubbleType DEF Front, Target
<1>7. CASE e = "none" /\ ~x.jump
  <2> DEFINE W == Width(psr.t)
  <2>1. psr'.t = psr.t
    BY <1>7, EdgeAdvance
  <2>2. /\ x.nx = "EXEC" => inflight' = Slot(fetch_pc, psr.t) /\ fetch_pc' = Plus(fetch_pc, W)
        /\ x.nx # "EXEC" => inflight' = Bubble /\ fetch_pc' = fetch_pc
    BY <1>7, EdgeAdvance
  <2>3. /\ inflight' \in SlotType /\ fetch_pc' \in PC
        /\ inflight'.valid <=> x.nx = "EXEC"
        /\ x.nx = "EXEC" => inflight'.pc = fetch_pc /\ inflight'.thumb = psr.t
    <3> DEFINE s == Slot(fetch_pc, psr.t)
    <3>0. /\ s \in SlotType /\ s.valid /\ s.pc = fetch_pc /\ s.thumb = psr.t
          /\ Plus(fetch_pc, W) \in PC
      BY <1>1, SlotFacts
    <3>1. CASE x.nx = "EXEC"
      <4>1. inflight' = s /\ fetch_pc' = Plus(fetch_pc, W)
        BY <2>2, <3>1
      <4> HIDE DEF s, W
      <4> QED BY <3>0, <3>1, <4>1
    <3>2. CASE x.nx # "EXEC"
      BY <1>1, <2>2, <3>2, BubbleType
    <3> QED BY <3>1, <3>2
  <2>4. CASE state # "EXEC"
    <3>1. fd' = fd /\ de' = de
      BY <1>7, <2>4, EdgeAdvance
    <3>2. ~inflight.valid /\ (de.valid \/ (state = "BLOCK_WB" /\ ~fd.valid))
      BY <2>4 DEF IInv, SlotsInOrder
    <3>3. SlotsInOrder'
      <4>1. /\ fd.valid => fd.thumb = psr.t /\ Plus(fd.pc, W) = fetch_pc
            /\ de.valid => fd.valid /\ de.thumb = psr.t /\ fd.pc = Plus(de.pc, W)
        BY <3>2 DEF IInv, SlotsInOrder
      <4>2. Width(psr'.t) = W
        BY <2>1
      <4>3. CASE x.nx = "EXEC"
        <5>1. /\ inflight'.valid /\ inflight'.pc = fetch_pc /\ inflight'.thumb = psr.t
              /\ fetch_pc' = Plus(fetch_pc, W) /\ state' = "EXEC"
          BY <1>3, <2>2, <2>3, <4>3
        <5> QED BY <2>1, <3>1, <4>1, <4>2, <5>1 DEF SlotsInOrder
      <4>4. CASE x.nx # "EXEC"
        <5>1. /\ ~inflight'.valid /\ fetch_pc' = fetch_pc /\ state' # "EXEC"
              /\ state = "BLOCK_WB" => state' = "BLOCK_WB"
          BY <1>3, <2>2, <2>3, <4>4 DEF EdgeShape
        <5> QED BY <2>1, <3>1, <3>2, <4>1, <4>2, <5>1 DEF SlotsInOrder
      <4> QED BY <4>3, <4>4
    <3>4. Front' = After
      <4>1. CASE Waiting
        <5>1. de.valid
          BY <3>2, <4>1 DEF Waiting
        <5> QED BY <3>1, <4>1, <5>1 DEF IInv, Front, After, LatchesMatch
      <4>2. CASE ~Waiting
        <5>1. After = Front
          BY <2>4, <4>2 DEF After
        <5> QED BY <2>2, <2>3, <3>1, <3>2, <5>1 DEF Front
      <4> QED BY <4>1, <4>2
    <3> QED BY <1>1, <1>7, <2>3, <2>4, <3>1, <3>3, <3>4
  <2>5. CASE state = "EXEC"
    <3>1. /\ fd' = IF inflight.valid THEN Slot(inflight.pc, psr.t) ELSE Bubble
          /\ de' = IF fd.valid THEN fd ELSE [de EXCEPT !.valid = FALSE]
      BY <1>7, <2>5, EdgeAdvance
    <3>2. /\ fd' \in SlotType /\ de' \in SlotType
          /\ fd'.valid <=> inflight.valid
          /\ inflight.valid => fd'.pc = inflight.pc /\ fd'.thumb = psr.t
          /\ de'.valid <=> fd.valid
          /\ fd.valid => de' = fd
      BY <1>1, <1>2, <3>1, SlotFacts, BubbleType
    <3>3. /\ fd.valid => inflight.valid
          /\ de.valid => fd.valid /\ fd.pc = Plus(de.pc, W)
          /\ inflight.valid => fetch_pc = Plus(inflight.pc, W)
          /\ fd.valid => fd.thumb = psr.t /\ inflight.pc = Plus(fd.pc, W)
      BY <2>5 DEF IInv, SlotsInOrder
    <3>4. x.nx # "EXEC" => de.valid
      BY <2>5 DEF EdgeShape
    <3>5. SlotsInOrder'
      BY <1>3, <2>1, <2>2, <2>3, <3>2, <3>3, <3>4 DEF SlotsInOrder
    <3>6. Front' = After
      <4>1. ~Waiting
        BY <2>5 DEF Waiting
      <4>2. CASE fd.valid
        BY <2>5, <3>2, <3>3, <4>1, <4>2 DEF Front, After
      <4>3. CASE ~fd.valid /\ inflight.valid
        BY <2>5, <3>2, <3>3, <4>1, <4>3 DEF Front, After
      <4>4. CASE ~fd.valid /\ ~inflight.valid
        BY <2>2, <2>3, <2>5, <3>2, <3>3, <4>1, <4>4 DEF Front, After
      <4> QED BY <4>2, <4>3, <4>4
    <3> QED BY <1>7, <2>3, <2>5, <3>2, <3>3, <3>5, <3>6
  <2> QED BY <2>4, <2>5
<1>8. x.jump \/ ~x.jump
  OBVIOUS
<1> QED BY <1>5, <1>6, <1>7

(* A save state taken on the edge restarts at the front of the slots, no   *)
(* abort is remembered that was not answered, and no FIQ is retained.      *)
LEMMA EdgeRest ==
    ASSUME IInv, QuietInterrupts, NEW x, EdgeShape(x),
           NEW irq \in BOOLEAN, NEW fiq \in BOOLEAN, Edge(x, irq, fiq),
           NEW e, e = Event(x.nx, x.ab, irq, fiq, x.sync)
    PROVE  /\ ~halted /\ halted' \in BOOLEAN /\ resume' \in PC
           /\ halted' => state' = "EXEC" /\ resume' = Front'
           /\ dabort' = (state # "EXEC" /\ (dabort \/ x.ab))
           /\ dabort' \in BOOLEAN /\ ~fiqHeld' /\ fiqHeld' \in BOOLEAN /\ fiqDelay' \in 0 .. 3
<1>1. /\ ~halted /\ Capture(x, e) /\ Interlock(x, e, fiq)
      /\ dabort' = (state # "EXEC" /\ (dabort \/ x.ab))
      /\ fiq => ~x.ab /\ e # "dabt"
      /\ state' = x.nx
  BY DEF Edge, QuietInterrupts
<1>2. /\ resume \in PC /\ halted \in BOOLEAN /\ dabort \in BOOLEAN
      /\ fiqHeld = FALSE /\ fiqDelay \in 0 .. 3
  BY DEF IInv, TypeOK
<1>3. fiqHeld' = FALSE /\ fiqDelay' \in 0 .. 3
  <2>1. fiqHeld' = FALSE
    BY <1>1, <1>2, EventCases DEF Interlock
  <2>2. fiqDelay' = FiqDelay(FALSE)
    BY <1>1, <1>2, EventCases DEF Interlock
  <2> QED BY <1>2, <2>1, <2>2 DEF FiqDelay
<1>4. x.nx = "EXEC" => ResumePC(x, e) = Front'
  <2> SUFFICES ASSUME x.nx = "EXEC" PROVE ResumePC(x, e) = Front'
    OBVIOUS
  <2>1. CASE e # "none" \/ x.jump
    <3>1. Front' = Target(x, e)
      BY <2>1, EdgeSlots
    <3>2. e # "none" => ~(state = "LOAD_WB" /\ x.jump)
      BY EventCases
    <3> QED BY <2>1, <3>1, <3>2 DEF ResumePC, Target
  <2>2. CASE e = "none" /\ ~x.jump
    <3>1. /\ inflight' = Slot(fetch_pc, psr.t)
          /\ state # "EXEC" => de' = de /\ fd' = fd
          /\ state = "EXEC" =>
               /\ fd' = IF inflight.valid THEN Slot(inflight.pc, psr.t) ELSE Bubble
               /\ de' = IF fd.valid THEN fd ELSE [de EXCEPT !.valid = FALSE]
      BY <2>2, EdgeAdvance
    <3>2. inflight'.valid /\ inflight'.pc = fetch_pc
      BY <3>1 DEF Slot
    <3>3. CASE state # "EXEC"
      <4>1. ~inflight.valid /\ (de.valid \/ ~fd.valid)
        BY <3>3 DEF IInv, SlotsInOrder
      <4> QED BY <2>2, <3>1, <3>2, <3>3, <4>1 DEF ResumePC, Front
    <3>4. CASE state = "EXEC"
      <4>1. ResumePC(x, e) = IF fd.valid THEN fd.pc
                             ELSE IF inflight.valid THEN inflight.pc ELSE fetch_pc
        BY <2>2, <3>4 DEF ResumePC
      <4>2. fd.valid => de'.valid /\ de'.pc = fd.pc
        BY <3>1, <3>4
      <4>3. ~fd.valid => ~de'.valid
        <5>1. ~[de EXCEPT !.valid = FALSE].valid
          BY DEF IInv, TypeOK, SlotType
        <5> QED BY <3>1, <3>4, <5>1
      <4>4. inflight.valid => fd'.valid /\ fd'.pc = inflight.pc
        BY <3>1, <3>4 DEF Slot
      <4>5. ~inflight.valid => ~fd'.valid
        BY <3>1, <3>4 DEF Bubble
      <4> QED BY <3>2, <4>1, <4>2, <4>3, <4>4, <4>5 DEF Front
    <3> QED BY <3>3, <3>4
  <2> QED BY <2>1, <2>2
<1>5. x.nx = "EXEC" => Front' \in PC
  <2>1. /\ fetch_pc' \in PC /\ inflight'.pc \in PC /\ fd'.pc \in PC /\ de'.pc \in PC
    BY EdgeSlots DEF SlotType
  <2> QED BY <2>1 DEF Front
<1>6. /\ halted' \in BOOLEAN /\ resume' \in PC
      /\ halted' => state' = "EXEC" /\ resume' = Front'
  <2>1. CASE UNCHANGED <<halted, resume>>
    BY <1>1, <1>2, <2>1
  <2>2. CASE x.nx = "EXEC" /\ halted' = TRUE /\ resume' = ResumePC(x, e)
    BY <1>1, <1>4, <1>5, <2>2
  <2> QED BY <1>1, <2>1, <2>2 DEF Capture
<1>7. x.ab \in BOOLEAN
  BY DEF EdgeShape
<1> QED BY <1>1, <1>2, <1>3, <1>6, <1>7

LEMMA NextPCIsFront == ~Waiting => NextPC = Front
  BY DEF NextPC, Front, Waiting

LEMMA NextPCIsFrontPrimed == ~Waiting' => NextPC' = Front'
  BY DEF NextPC, Front, Waiting

Bus(items) == {<<m, "bus">> : m \in items}

(* The register or memory writes of an edge that takes no exception.       *)
Written(x) ==
    {<<w, IF state = "BLOCK_WB" THEN op.mode ELSE psr.mode>> :
        w \in IF x.high # {} THEN x.high ELSE x.low} \cup Bus(x.mem)

LEMMA EdgeCommit ==
    ASSUME IInv, QuietInterrupts, NEW x, EdgeShape(x),
           NEW irq \in BOOLEAN, NEW fiq \in BOOLEAN, Edge(x, irq, fiq),
           Event(x.nx, x.ab, irq, fiq, x.sync) = "none"
    PROVE  /\ owed' = (owed \cup x.owes) \ Written(x)
           /\ stray' = ~(Written(x) \subseteq owed \cup x.owes)
           /\ label' = [what |-> x.did, to |-> IF x.jump THEN x.to ELSE 0, link |-> 0]
<1>1. Commit(x, "none") /\ stray = FALSE
  BY DEF Edge, IInv, NothingStray
<1>2. /\ owed' = (owed \cup x.owes) \ Written(x)
      /\ label' = [what |-> x.did, to |-> IF x.jump THEN x.to ELSE 0, link |-> 0]
  BY <1>1 DEF Commit, Written, Bus, Bank
<1>3. stray' = ~(Written(x) \subseteq owed \cup x.owes)
  BY <1>1 DEF Commit, Written, Bus, Bank
<1> QED BY <1>2, <1>3

(* An exception saves a link from which the program resumes exactly, goes  *)
(* to its vector and writes nothing but memory that was owed.              *)
LEMMA EdgeException ==
    ASSUME IInv, QuietInterrupts, NEW x, EdgeShape(x),
           NEW irq \in BOOLEAN, NEW fiq \in BOOLEAN, Edge(x, irq, fiq),
           NEW e, e = Event(x.nx, x.ab, irq, fiq, x.sync), e # "none"
    PROVE  /\ Order!Exception(e) /\ e \in Events /\ LinkKept' /\ state' = "EXEC"
           /\ owed' = IF e = "dabt" THEN {w \in owed \ Bus(x.mem) : w[1] = "base"}
                                    ELSE owed \ Bus(x.mem)
           /\ stray' = ~(Bus(x.mem) \subseteq owed)
<1>1. /\ e \in Events /\ x.nx = "EXEC" /\ state' = "EXEC"
      /\ ~(state = "LOAD_WB" /\ x.jump) /\ ~InterlockFires
      /\ e = "dabt" => state \notin Idle /\ (dabort \/ x.ab)
      /\ e \in {"fiq", "irq"} => state \in QuietStates /\ (state = "EXEC" => de.valid)
      /\ e \notin {"none", "dabt", "fiq", "irq"} => e = x.sync
  <2>1. state' = x.nx
    BY EdgeAdvance
  <2> QED BY <2>1, EventCases
<1>2. x.high = {}
  BY <1>1 DEF EdgeShape, QuietStates
<1>3. Commit(x, e) /\ stray = FALSE
  BY DEF Edge, IInv, NothingStray
<1>4. /\ owed' = IF e = "dabt" THEN {w \in owed \ Bus(x.mem) : w[1] = "base"}
                               ELSE owed \ Bus(x.mem)
      /\ label' = [what |-> e, to |-> Vector[e], link |-> ExceptionLR(e)]
  BY <1>1, <1>2, <1>3 DEF Commit, Bus
<1>5. stray' = ~(Bus(x.mem) \subseteq owed)
  BY <1>2, <1>3 DEF Commit, Bus
<1>6. de.valid => de.thumb = psr.t
  BY DEF IInv, SlotsInOrder
<1> DEFINE Exact == /\ ExceptionLR(e) = Order!LinkOf(e) /\ ExceptionLR(e) \in PC
                    /\ e = "dabt" => InProgress # Order!Nothing
<1>7. op.pc \in PC /\ de.pc \in PC /\ op.thumb \in BOOLEAN /\ psr.t \in BOOLEAN
  BY DEF IInv, TypeOK, SlotType
<1>8. ASSUME e = "dabt" PROVE Exact
  <2>1. ExceptionLR(e) = Plus(op.pc, 4)
    BY <1>1, <1>8 DEF ExceptionLR
  <2>2. InProgress = [pc |-> op.pc, kind |-> op.kind]
    BY <1>1, <1>8 DEF InProgress, Idle
  <2>3. op.kind # "nothing"
    BY <1>1, <1>8 DEF IInv, TypeOK, States, LatchesMatch, Served, Idle, Transfers, Blocks,
       Shifts, Muls, CpKinds
  <2>4. Order!LinkOf(e) = Plus(op.pc, 4)
    BY <1>8, <2>2 DEF Order!LinkOf, Order!Plus, Plus
  <2>5. InProgress # Order!Nothing
    BY <2>2, <2>3 DEF Order!Nothing
  <2> QED BY <1>7, <1>8, <2>1, <2>4, <2>5, PlusType
<1>9. ASSUME e \in {"irq", "fiq"} PROVE Exact
  <2>1. Order!LinkOf(e) = Plus(NextPC, 2)
    BY <1>9 DEF Order!LinkOf, Order!Plus, Plus
  <2>2. ASSUME state = "CP_WAIT" PROVE Exact
    <3>1. ExceptionLR(e) = Plus(op.pc, 2) /\ NextPC = op.pc
      BY <1>1, <1>9, <2>2 DEF ExceptionLR, NextPC
    <3> QED BY <1>7, <1>9, <2>1, <3>1, PlusType
  <2>3. ASSUME state # "CP_WAIT" PROVE Exact
    <3>1. ExceptionLR(e) = Plus(de.pc, 2)
      BY <1>1, <1>9, <2>3 DEF ExceptionLR
    <3>2. de.valid
      BY <1>1, <1>9 DEF IInv, SlotsInOrder, QuietStates
    <3>3. NextPC = de.pc
      BY <1>1, <1>9, <2>3, <3>2 DEF NextPC, QuietStates
    <3> QED BY <1>7, <1>9, <2>1, <3>1, <3>3, PlusType
  <2> QED BY <2>2, <2>3
<1>10. ASSUME e \in {"pabt", "swi"} PROVE Exact
  <2>1. state = "EXEC" /\ de.valid
    BY <1>1, <1>10 DEF EdgeShape
  <2>2. NextPC = de.pc /\ de.thumb = psr.t
    BY <1>6, <2>1 DEF NextPC
  <2>3. ExceptionLR(e) = IF e = "pabt" THEN Plus(de.pc, 2) ELSE Plus(de.pc, Width(psr.t))
    BY <1>1, <1>10, <2>1, <2>2 DEF ExceptionLR
  <2>4. Order!LinkOf(e) = IF e = "pabt" THEN Plus(de.pc, 2) ELSE Plus(de.pc, Width(psr.t))
    BY <1>10, <2>2 DEF Order!LinkOf, Order!Plus, Plus, Order!Width, Width
  <2>5. Plus(de.pc, 2) \in PC /\ Plus(de.pc, Width(psr.t)) \in PC
    BY <1>7, SlotFacts, PlusType
  <2> QED BY <1>10, <2>3, <2>4, <2>5
<1>11. ASSUME e = "undef" PROVE Exact
  <2>1. state = "UNDEF_WAIT"
    BY <1>1, <1>11 DEF EdgeShape
  <2>2. NextPC = op.pc /\ op.thumb = psr.t
    BY <2>1 DEF NextPC, IInv, LatchesMatch, Waiting
  <2>3. ExceptionLR(e) = Plus(op.pc, Width(psr.t))
    BY <1>1, <1>11, <2>1, <2>2 DEF ExceptionLR
  <2>4. Order!LinkOf(e) = Plus(op.pc, Width(psr.t))
    BY <1>11, <2>2 DEF Order!LinkOf, Order!Plus, Plus, Order!Width, Width
  <2> QED BY <1>7, <1>11, <2>3, <2>4, SlotFacts, ZenonT(60)
<1>12. Exact
  BY <1>1, <1>8, <1>9, <1>10, <1>11 DEF Events
<1>13. LinkKept'
  <2>1. ExceptionLR(e) # Lost
    BY <1>12, LostIsNoAddress
  <2> QED BY <1>4, <2>1 DEF LinkKept
<1>14. Order!Exception(e)
  <2>1. ~Waiting' /\ InProgress' = Order!Nothing
    BY <1>1 DEF Waiting, InProgress, Order!Nothing
  <2>2. NextPC' = Vector[e]
    BY <2>1, EdgeSlots, NextPCIsFrontPrimed DEF Target
  <2>3. psr'.t = FALSE
    BY EdgeAdvance
  <2>4. e \in DOMAIN Vector
    BY <1>1, VectorAssumption
  <2> QED BY <1>4, <1>12, <2>1, <2>2, <2>3, <2>4 DEF Order!Exception
<1> QED BY <1>1, <1>4, <1>5, <1>13, <1>14

OpType == [kind : AllKinds \cup {"nothing"}, pc : PC, thumb : BOOLEAN, left : Nat, mode : Modes]

LEMMA NoOpType == NoOp \in OpType
  BY SizeAssumption DEF NoOp, OpType, PC, Modes

LEMMA SlotPart ==
    ASSUME IInv, QuietInterrupts, NEW x, EdgeShape(x),
           NEW irq \in BOOLEAN, NEW fiq \in BOOLEAN, Edge(x, irq, fiq), op' \in OpType
    PROVE  /\ TypeOK' /\ ~fiqHeld' /\ SlotsInOrder' /\ state' = x.nx
           /\ halted' => state' = "EXEC" /\ resume' = Front'
<1>1. PICK e : e = Event(x.nx, x.ab, irq, fiq, x.sync)
  OBVIOUS
<1>2. /\ fetch_pc' \in PC /\ inflight' \in SlotType /\ fd' \in SlotType /\ de' \in SlotType
      /\ SlotsInOrder'
  BY <1>1, EdgeSlots
<1>3. /\ halted' \in BOOLEAN /\ resume' \in PC /\ dabort' \in BOOLEAN /\ ~fiqHeld'
      /\ fiqHeld' \in BOOLEAN /\ fiqDelay' \in 0 .. 3
  BY <1>1, EdgeRest
<1>4. psr' \in PsrType /\ state' = x.nx /\ state' \in States
  BY <1>1, EdgeAdvance
<1>5. halted' => state' = "EXEC" /\ resume' = Front'
  BY <1>1, EdgeRest
<1>6. TypeOK'
  BY <1>2, <1>3, <1>4 DEF TypeOK, OpType, PsrType
<1> QED BY <1>2, <1>3, <1>4, <1>5, <1>6

(* An edge that takes an exception.                                        *)
LEMMA ExceptionStep ==
    ASSUME IInv, QuietInterrupts, NEW x, EdgeShape(x),
           NEW irq \in BOOLEAN, NEW fiq \in BOOLEAN, Edge(x, irq, fiq),
           NEW e, e = Event(x.nx, x.ab, irq, fiq, x.sync), e # "none",
           x.nx = "EXEC" => op' = NoOp, Bus(x.mem) \subseteq owed,
           IF e = "dabt" THEN NoBase ELSE owed \subseteq Bus(x.mem)
    PROVE  IInv' /\ Order!Next
<1>1. /\ Order!Exception(e) /\ e \in Events /\ LinkKept' /\ state' = "EXEC"
      /\ owed' = IF e = "dabt" THEN {w \in owed \ Bus(x.mem) : w[1] = "base"}
                               ELSE owed \ Bus(x.mem)
      /\ stray' = ~(Bus(x.mem) \subseteq owed)
  BY EdgeException
<1>2. state' = x.nx
  BY EdgeAdvance
<1>3. op' = NoOp
  BY <1>1, <1>2
<1>4. owed' = {}
  BY <1>1 DEF NoBase
<1>5. op'.kind = "nothing" /\ op' \in OpType
  BY <1>3, NoOpType DEF NoOp
<1>6. LatchesMatch' /\ AbortsPending' /\ DebtsMatch' /\ NothingStray'
  BY <1>1, <1>3, <1>4, <1>5
  DEF LatchesMatch, Served, Waiting, AbortsPending, DebtsMatch, NothingStray
<1>7. /\ TypeOK' /\ ~fiqHeld' /\ SlotsInOrder'
      /\ halted' => state' = "EXEC" /\ resume' = Front'
  BY <1>5, SlotPart
<1>8. Order!Next
  <2>1. e \in DOMAIN Vector
    BY <1>1, VectorAssumption
  <2> QED BY <1>1, <2>1 DEF Order!Next
<1> QED BY <1>1, <1>6, <1>7, <1>8 DEF IInv

(* An edge that takes none.                                                *)
LEMMA PlainStep ==
    ASSUME IInv, QuietInterrupts, NEW x, EdgeShape(x),
           NEW irq \in BOOLEAN, NEW fiq \in BOOLEAN, Edge(x, irq, fiq),
           Event(x.nx, x.ab, irq, fiq, x.sync) = "none",
           op' \in OpType, LatchesMatch', AbortsPending', DebtsMatch',
           Written(x) \subseteq owed \cup x.owes, x.did \notin Events
    PROVE  IInv'
<1>1. /\ stray' = ~(Written(x) \subseteq owed \cup x.owes)
      /\ label' = [what |-> x.did, to |-> IF x.jump THEN x.to ELSE 0, link |-> 0]
  BY EdgeCommit
<1>2. LinkKept' /\ NothingStray'
  BY <1>1 DEF LinkKept, NothingStray
<1> QED BY <1>2, SlotPart DEF IInv

(* An edge on which the instruction ends.                                  *)
LEMMA EndStep ==
    ASSUME IInv, QuietInterrupts, NEW x, EdgeShape(x),
           NEW irq \in BOOLEAN, NEW fiq \in BOOLEAN, Edge(x, irq, fiq),
           Event(x.nx, x.ab, irq, fiq, x.sync) = "none",
           x.nx = "EXEC", op' = NoOp, Written(x) = owed \cup x.owes, x.did \notin Events
    PROVE  IInv'
<1>1. state' = "EXEC" /\ owed' = {}
  BY EdgeAdvance, EdgeCommit
<1>2. op'.kind = "nothing" /\ op' \in OpType
  BY NoOpType DEF NoOp
<1>3. LatchesMatch' /\ AbortsPending' /\ DebtsMatch'
  BY <1>1, <1>2 DEF LatchesMatch, Served, Waiting, AbortsPending, DebtsMatch
<1> QED BY <1>2, <1>3, PlainStep

(* What the program sees of such an edge within an instruction: nothing,   *)
(* or the instruction's end, or the program counter it writes.             *)
LEMMA InsideStep ==
    ASSUME IInv, QuietInterrupts, NEW x, EdgeShape(x),
           NEW irq \in BOOLEAN, NEW fiq \in BOOLEAN, Edge(x, irq, fiq),
           Event(x.nx, x.ab, irq, fiq, x.sync) = "none",
           state \notin Idle \/ (state = "EXEC" /\ ~de.valid), ~Waiting',
           state' # "EXEC" => state # "EXEC" /\ op'.pc = op.pc /\ op'.kind = op.kind,
           x.did = IF x.jump THEN "redirect" ELSE "none",
           x.jump => op.kind \in {"loadpc", "ldmpc", "ldmret", "shiftpc"} /\ state \notin Idle
    PROVE  Order!Next
<1>1. label' = [what |-> x.did, to |-> IF x.jump THEN x.to ELSE 0, link |-> 0]
  BY EdgeCommit
<1>2. InProgress' \in {InProgress, Order!Nothing}
  <2>1. CASE state' = "EXEC"
    BY <2>1 DEF InProgress, Order!Nothing
  <2>2. CASE state' # "EXEC"
    <3>1. state \notin Idle /\ state' \notin Idle
      BY <2>2 DEF Idle, Waiting
    <3> QED BY <2>2, <3>1 DEF InProgress, Idle
  <2> QED BY <2>1, <2>2
<1>3. ~Waiting /\ (state = "EXEC" => ~de.valid)
  BY DEF Waiting, Idle
<1>4. Front' = IF x.jump THEN x.to ELSE Front
  BY <1>3, EdgeSlots DEF Target, After
<1>5. NextPC' = IF x.jump THEN x.to ELSE NextPC
  BY <1>3, <1>4, NextPCIsFront, NextPCIsFrontPrimed
<1>6. CASE ~x.jump
  <2>1. psr'.t = psr.t
    BY <1>6, EdgeAdvance
  <2>2. Order!Internal
    BY <1>1, <1>2, <1>5, <1>6, <2>1 DEF Order!Internal, Order!Quiet
  <2> QED BY <2>2 DEF Order!Next
<1>7. CASE x.jump
  <2>1. x.to \in PC /\ psr'.t \in BOOLEAN
    BY EdgeAdvance DEF EdgeShape, PsrType
  <2>2. InProgress.kind = op.kind
    BY <1>7 DEF InProgress, Idle
  <2>3. Order!Redirect
    BY <1>1, <1>2, <1>5, <1>7, <2>1, <2>2 DEF Order!Redirect, Order!PC, PC
  <2> QED BY <2>3 DEF Order!Next
<1> QED BY <1>6, <1>7
-----------------------------------------------------------------------------
(* The substates.  Each lemma describes the record handed to Edge, and     *)
(* then looks at the edge with an exception and at the one without.        *)

LEMMA StateFacts ==
    ASSUME IInv
    PROVE  /\ psr \in PsrType /\ op \in OpType /\ op.kind \in Served(state)
           /\ psr.mode \in Modes /\ op.left \in Nat /\ dabort \in BOOLEAN
           /\ 0 \in PC /\ Aligned(psr.t) \subseteq PC
<1>1. 0 \in PC
  BY SizeAssumption DEF PC
<1> QED BY <1>1 DEF IInv, TypeOK, PsrType, OpType, LatchesMatch, Aligned

LEMMA DataResponseStep ==
    ASSUME IInv, QuietInterrupts, DataResponse PROVE IInv' /\ Order!Next
<1> DEFINE store == op.kind = "store"
           nx == IF store THEN "EXEC" ELSE "LOAD_WB"
<1>1. PICK ab \in BOOLEAN, irq \in BOOLEAN, fiq \in BOOLEAN :
        /\ Leaves(nx)
        /\ Edge([Edge0 EXCEPT !.nx = nx, !.ab = ab,
                   !.mem = IF store /\ ~ab THEN {"m1"} ELSE {}], irq, fiq)
  BY DEF DataResponse, Settle
<1> DEFINE x == [Edge0 EXCEPT !.nx = nx, !.ab = ab,
                   !.mem = IF store /\ ~ab THEN {"m1"} ELSE {}]
           e == Event(x.nx, x.ab, irq, fiq, x.sync)
<1>2. /\ x.nx = nx /\ x.ab = ab /\ x.sync = "none" /\ x.jump = FALSE /\ x.to = 0
      /\ x.early = TRUE /\ x.psr = psr /\ x.high = {} /\ x.low = {} /\ x.owes = {}
      /\ x.mem = (IF store /\ ~ab THEN {"m1"} ELSE {})
      /\ x.did = "none" /\ x.fetches = TRUE
  BY DEF Edge0
<1>3. Edge(x, irq, fiq) /\ op' = IF nx = "EXEC" THEN NoOp ELSE op
  BY <1>1 DEF Leaves
<1>4. /\ state = "DDATA" /\ op.kind \in Transfers
      /\ owed = CASE op.kind = "load" -> {<<"rd", op.mode>>}
                  [] op.kind = "loadpc" -> {<<"pc", op.mode>>}
                  [] OTHER -> {<<"m1", "bus">>}
      /\ op.mode = psr.mode /\ dabort = FALSE
  BY StateFacts DEF DataResponse, IInv, LatchesMatch, Served, DebtsMatch, AbortsPending
<1>5. nx \in States
  BY DEF States
<1> HIDE DEF x
<1>6. EdgeShape(x)
  BY <1>2, <1>4, <1>5, StateFacts DEF EdgeShape, Idle
<1>7. state' = nx
  BY <1>2, <1>3, <1>6, EdgeAdvance
<1>8. Bus(x.mem) = IF store /\ ~ab THEN {<<"m1", "bus">>} ELSE {}
  BY <1>2 DEF Bus
<1>9. CASE e # "none"
  <2>1. store /\ (e = "dabt" <=> ab)
    BY <1>2, <1>3, <1>4, <1>6, <1>9, EventCases
  <2>2. owed = {<<"m1", "bus">>}
    BY <1>4, <2>1
  <2>3. NoBase
    BY <2>2 DEF NoBase
  <2> QED BY <1>2, <1>3, <1>6, <1>8, <1>9, <2>1, <2>2, <2>3, ExceptionStep
<1>10. CASE e = "none"
  <2>1. Written(x) = Bus(x.mem)
    BY <1>2 DEF Written
  <2>2. store => ~ab
    BY <1>2, <1>3, <1>4, <1>6, <1>10, EventCases
  <2>3. x.did \notin Events /\ ~Waiting'
    BY <1>2, <1>7 DEF Events, Waiting
  <2>4. Order!Next
    BY <1>2, <1>3, <1>4, <1>6, <1>7, <1>10, <2>3, InsideStep DEF Idle
  <2>5. CASE store
    <3>1. Written(x) = owed \cup x.owes
      BY <1>2, <1>4, <1>8, <2>1, <2>2, <2>5
    <3> QED BY <1>2, <1>3, <1>6, <1>10, <2>3, <2>4, <2>5, <3>1, EndStep
  <2>6. CASE ~store
    <3>1. owed' = owed /\ Written(x) \subseteq owed \cup x.owes
      BY <1>2, <1>3, <1>6, <1>8, <1>10, <2>1, <2>6, EdgeCommit
    <3>0. psr' = psr
      BY <1>2, <1>3, <1>6, <1>10, EdgeAdvance, ZenonT(60)
    <3>2. psr' = psr /\ op' = op /\ state' = "LOAD_WB" /\ op.kind \in {"load", "loadpc"}
      BY <1>2, <1>3, <1>4, <1>7, <1>10, <2>6, <3>0 DEF Transfers
    <3>3. LatchesMatch' /\ AbortsPending' /\ DebtsMatch'
      BY <1>4, <3>1, <3>2 DEF LatchesMatch, Served, Waiting, AbortsPending, DebtsMatch
    <3> QED BY <1>3, <1>6, <1>10, <2>3, <2>4, <3>1, <3>2, <3>3, StateFacts, PlainStep
  <2> QED BY <2>5, <2>6
<1> QED BY <1>9, <1>10

LEMMA LoadWritebackStep ==
    ASSUME IInv, QuietInterrupts, LoadWriteback PROVE IInv' /\ Order!Next
<1> DEFINE jump == op.kind = "loadpc" /\ ~dabort
           dest == IF op.kind = "loadpc" THEN {"pc"} ELSE {"rd"}
<1>1. PICK to \in IF op.kind = "loadpc" THEN Aligned(psr.t) ELSE {0},
           irq \in BOOLEAN, fiq \in BOOLEAN :
        Edge([Edge0 EXCEPT !.jump = jump, !.to = to,
                !.did = IF jump THEN "redirect" ELSE "none",
                !.high = IF dabort THEN {} ELSE dest], irq, fiq)
  BY DEF LoadWriteback, Settle
<1> DEFINE x == [Edge0 EXCEPT !.jump = jump, !.to = to,
                   !.did = IF jump THEN "redirect" ELSE "none",
                   !.high = IF dabort THEN {} ELSE dest]
           e == Event(x.nx, x.ab, irq, fiq, x.sync)
<1>2. /\ x.nx = "EXEC" /\ x.ab = FALSE /\ x.sync = "none" /\ x.jump = jump /\ x.to = to
      /\ x.early = TRUE /\ x.psr = psr /\ x.high = (IF dabort THEN {} ELSE dest)
      /\ x.low = {} /\ x.owes = {} /\ x.mem = {}
      /\ x.did = (IF jump THEN "redirect" ELSE "none") /\ x.fetches = TRUE
  BY DEF Edge0
<1>3. Edge(x, irq, fiq) /\ op' = NoOp
  BY <1>1 DEF LoadWriteback, Leaves
<1>4. /\ state = "LOAD_WB" /\ op.kind \in {"load", "loadpc"} /\ op.mode = psr.mode
      /\ owed = IF op.kind = "load" THEN {<<"rd", op.mode>>} ELSE {<<"pc", op.mode>>}
  BY StateFacts DEF LoadWriteback, IInv, LatchesMatch, Served, DebtsMatch
<1>5. to \in PC
  BY StateFacts
<1> HIDE DEF x
<1>6. EdgeShape(x)
  BY <1>2, <1>4, <1>5, StateFacts DEF EdgeShape, Idle, QuietStates, States
<1>7. state' = "EXEC"
  BY <1>2, <1>3, <1>6, EdgeAdvance
<1>8. e = (IF dabort THEN "dabt" ELSE "none")
  BY <1>2, <1>3, <1>4, <1>6, EventCases DEF QuietStates, Events
<1>9. Bus(x.mem) = {}
  BY <1>2 DEF Bus
<1>10. CASE dabort
  <2>1. NoBase
    BY <1>4 DEF NoBase
  <2> QED BY <1>3, <1>6, <1>8, <1>9, <1>10, <2>1, ExceptionStep
<1>11. CASE ~dabort
  <2>1. Written(x) = owed \cup x.owes
    BY <1>2, <1>4, <1>9, <1>11 DEF Written
  <2>2. x.did \notin Events /\ ~Waiting'
    BY <1>2, <1>7 DEF Events, Waiting
  <2>3. IInv'
    BY <1>2, <1>3, <1>6, <1>8, <1>11, <2>1, <2>2, EndStep
  <2>4. Order!Next
    BY <1>2, <1>3, <1>4, <1>6, <1>7, <1>8, <1>11, <2>2, InsideStep DEF Idle
  <2> QED BY <2>3, <2>4
<1> QED BY <1>10, <1>11

LEMMA BlockWritebackStep ==
    ASSUME IInv, QuietInterrupts, BlockWriteback PROVE IInv' /\ Order!Next
<1> DEFINE nx == IF op.left # 0 THEN "BLOCK_WB" ELSE "EXEC"
           x == [Edge0 EXCEPT !.nx = nx, !.low = IF dabort THEN {} ELSE {"base"}]
<1>1. PICK irq \in BOOLEAN, fiq \in BOOLEAN : Edge(x, irq, fiq)
  BY DEF BlockWriteback, Settle
<1> DEFINE e == Event(x.nx, x.ab, irq, fiq, x.sync)
<1>2. /\ x.nx = nx /\ x.ab = FALSE /\ x.sync = "none" /\ x.jump = FALSE /\ x.to = 0
      /\ x.early = TRUE /\ x.psr = psr /\ x.high = {}
      /\ x.low = (IF dabort THEN {} ELSE {"base"}) /\ x.owes = {} /\ x.mem = {}
      /\ x.did = "none" /\ x.fetches = TRUE
  BY DEF Edge0
<1>3. op' = IF nx = "EXEC" THEN NoOp ELSE [op EXCEPT !.left = @ - 1]
  BY DEF BlockWriteback
<1>4. /\ state = "BLOCK_WB" /\ op.kind \in Blocks \ {"stm"}
      /\ dabort => NoBase
      /\ ~dabort => op.left = 0 /\ owed = {<<"base", op.mode>>}
  BY StateFacts DEF BlockWriteback, IInv, LatchesMatch, Served, DebtsMatch
<1> HIDE DEF x
<1>6. EdgeShape(x)
  BY <1>2, <1>4, StateFacts DEF EdgeShape, Idle, QuietStates, States
<1>7. state' = nx
  BY <1>1, <1>2, <1>6, EdgeAdvance
<1>8. e = (IF dabort /\ nx = "EXEC" THEN "dabt" ELSE "none")
  BY <1>1, <1>2, <1>4, <1>6, EventCases DEF QuietStates, Events
<1>9. Bus(x.mem) = {}
  BY <1>2 DEF Bus
<1>10. Written(x) = IF dabort THEN {} ELSE {<<"base", op.mode>>}
  BY <1>2, <1>4, <1>9 DEF Written
<1>11. x.did \notin Events /\ ~Waiting'
  BY <1>2, <1>7 DEF Events, Waiting
<1>12. CASE e # "none"
  BY <1>1, <1>3, <1>4, <1>6, <1>8, <1>9, <1>12, ExceptionStep
<1>13. CASE e = "none" /\ nx = "EXEC"
  <2>1. ~dabort /\ Written(x) = owed \cup x.owes
    BY <1>2, <1>4, <1>8, <1>10, <1>13
  <2>2. IInv'
    BY <1>1, <1>2, <1>3, <1>6, <1>11, <1>13, <2>1, EndStep
  <2>3. Order!Next
    BY <1>1, <1>2, <1>4, <1>6, <1>7, <1>11, <1>13, InsideStep DEF Idle
  <2> QED BY <2>2, <2>3
<1>14. CASE e = "none" /\ nx # "EXEC"
  <2>1. dabort /\ op.left # 0
    BY <1>4, <1>14
  <2>2. /\ op' = [op EXCEPT !.left = @ - 1] /\ op' \in OpType
        /\ op'.pc = op.pc /\ op'.kind = op.kind /\ state' = "BLOCK_WB"
    BY <1>3, <1>7, <1>14, <2>1, StateFacts DEF OpType
  <2>3. owed' = owed /\ Written(x) \subseteq owed \cup x.owes
    BY <1>1, <1>2, <1>6, <1>10, <1>14, <2>1, EdgeCommit
  <2>4. dabort' = TRUE
    BY <1>1, <1>2, <1>4, <1>6, <2>1, EdgeRest
  <2>5. LatchesMatch' /\ AbortsPending' /\ DebtsMatch'
    BY <1>4, <2>1, <2>2, <2>3, <2>4
    DEF LatchesMatch, Served, Waiting, AbortsPending, DebtsMatch, NoBase, Blocks
  <2>6. IInv'
    BY <1>1, <1>6, <1>11, <1>14, <2>2, <2>3, <2>5, PlainStep
  <2>7. Order!Next
    BY <1>1, <1>2, <1>4, <1>6, <1>7, <1>11, <1>14, <2>2, InsideStep DEF Idle
  <2> QED BY <2>6, <2>7
<1> QED BY <1>12, <1>13, <1>14

LEMMA RestoredType == Restored \subseteq PsrType
  BY EnvironmentAssumption DEF Restored, PsrType

LEMMA AlignedType == \A t : Aligned(t) \subseteq PC
  BY DEF Aligned

LEMMA BlockBeatStep ==
    ASSUME IInv, QuietInterrupts, BlockBeat PROVE IInv' /\ Order!Next
<1> DEFINE loads == op.kind # "stm"
           haspc == op.kind \in {"ldmpc", "ldmret"}
           last  == op.left = 1
           item  == IF ~last THEN "r2" ELSE LastItem
           nx    == IF ~last THEN "BLOCK_DATA" ELSE IF loads THEN "BLOCK_WB" ELSE "EXEC"
           failed(ab) == dabort \/ ab
           jump(ab)   == last /\ haspc /\ ~failed(ab)
           X(ab, p, to) ==
             [Edge0 EXCEPT !.nx = nx, !.ab = ab, !.jump = jump(ab), !.to = to,
                !.early = FALSE, !.psr = IF jump(ab) THEN p ELSE psr,
                !.did = IF jump(ab) THEN "redirect" ELSE "none",
                !.high = CASE loads /\ ~failed(ab) -> {item}
                           [] loads /\ failed(ab) /\ last -> {"base"}
                           [] OTHER -> {},
                !.mem = IF loads \/ ab THEN {} ELSE {IF last THEN "m1" ELSE "m2"}]
<1>1. PICK ab \in BOOLEAN,
           p \in IF op.kind = "ldmret" /\ op.left = 1 THEN Restored ELSE {psr} :
      \E to \in IF op.left = 1 /\ op.kind \in {"ldmpc", "ldmret"} THEN Aligned(p.t) ELSE {0} :
         /\ op' = IF nx = "EXEC" THEN NoOp
                  ELSE [op EXCEPT !.left = IF ~last THEN 1
                                           ELSE IF haspc /\ failed(ab) THEN 2 ELSE 0]
         /\ Settle(X(ab, p, to))
  BY DEF BlockBeat, LastItem
<1>2. PICK to \in IF op.left = 1 /\ op.kind \in {"ldmpc", "ldmret"} THEN Aligned(p.t) ELSE {0},
           irq \in BOOLEAN, fiq \in BOOLEAN : Edge(X(ab, p, to), irq, fiq)
  BY <1>1 DEF Settle
<1> DEFINE x == X(ab, p, to)
           e == Event(x.nx, x.ab, irq, fiq, x.sync)
<1>3. /\ x.nx = nx /\ x.ab = ab /\ x.sync = "none" /\ x.jump = jump(ab) /\ x.to = to
      /\ x.early = FALSE /\ x.psr = (IF jump(ab) THEN p ELSE psr) /\ x.low = {} /\ x.owes = {}
      /\ x.high = (CASE loads /\ ~failed(ab) -> {item}
                     [] loads /\ failed(ab) /\ last -> {"base"}
                     [] OTHER -> {})
      /\ x.mem = (IF loads \/ ab THEN {} ELSE {IF last THEN "m1" ELSE "m2"})
      /\ x.did = (IF jump(ab) THEN "redirect" ELSE "none") /\ x.fetches = TRUE
  BY DEF Edge0
<1>4. /\ state = "BLOCK_DATA" /\ op.kind \in Blocks /\ op.left \in {1, 2}
      /\ op.mode = psr.mode /\ dabort \in BOOLEAN /\ (dabort => last)
  BY StateFacts DEF BlockBeat, IInv, LatchesMatch, Served, AbortsPending
<1>5. to \in PC /\ p \in PsrType
  BY StateFacts, RestoredType, AlignedType
<1>6. Edge(x, irq, fiq)
  BY <1>2
<1>7. op' = IF nx = "EXEC" THEN NoOp
            ELSE [op EXCEPT !.left = IF ~last THEN 1 ELSE IF haspc /\ failed(ab) THEN 2 ELSE 0]
  BY <1>1
<1> HIDE DEF x, X
<1>8. EdgeShape(x)
  BY <1>3, <1>4, <1>5, StateFacts DEF EdgeShape, Idle, QuietStates, States, Blocks
<1>9. state' = nx /\ dabort' = failed(ab)
  <2>1. state' = nx
    BY <1>3, <1>6, <1>8, EdgeAdvance, ZenonT(60)
  <2>2. dabort' = (state # "EXEC" /\ (dabort \/ x.ab))
    BY <1>6, <1>8, EdgeRest
  <2> QED BY <1>3, <1>4, <2>1, <2>2
<1>10. e = "dabt" <=> failed(ab) /\ nx = "EXEC"
  BY <1>3, <1>4, <1>6, <1>8, EventCases
<1>11. e # "none" => nx = "EXEC"
  BY <1>3, <1>6, <1>8, EventCases
<1>12. x.did \notin Events /\ ~Waiting'
  BY <1>3, <1>9 DEF Events, Waiting
<1>13. Bus(x.mem) = IF loads \/ ab THEN {} ELSE {<<IF last THEN "m1" ELSE "m2", "bus">>}
  BY <1>3 DEF Bus
<1>14. CASE e # "none"
  <2>1. ~loads /\ last
    BY <1>11, <1>14
  <2>2. /\ NoBase /\ <<"m1", "bus">> \in owed
        /\ ~dabort => owed = {<<"m1", "bus">>}
    BY <1>4, <2>1 DEF IInv, DebtsMatch
  <2> QED BY <1>3, <1>6, <1>7, <1>8, <1>10, <1>13, <1>14, <2>1, <2>2, ExceptionStep
<1>15. CASE e = "none"
  <2>1. Order!Next
    <3>1. (op'.pc = op.pc /\ op'.kind = op.kind) \/ nx = "EXEC"
      BY <1>7, StateFacts DEF OpType
    <3> QED BY <1>3, <1>4, <1>6, <1>8, <1>9, <1>12, <1>15, <3>1, InsideStep DEF Idle
  <2>2. CASE nx = "EXEC"
    <3>1. ~loads /\ last /\ ~failed(ab)
      BY <1>10, <1>15, <2>2
    <3>2. owed = {<<"m1", "bus">>} /\ Bus(x.mem) = {<<"m1", "bus">>} /\ x.high = {}
      BY <1>3, <1>4, <1>13, <3>1 DEF IInv, DebtsMatch
    <3>3. Written(x) = owed \cup x.owes
      BY <1>3, <3>2 DEF Written
    <3> QED BY <1>3, <1>6, <1>7, <1>8, <1>12, <1>15, <2>1, <2>2, <3>3, EndStep
  <2>3. CASE nx # "EXEC"
    <3>1. /\ op' \in OpType /\ op'.kind = op.kind /\ op'.mode = op.mode
          /\ op'.left = IF ~last THEN 1 ELSE IF haspc /\ failed(ab) THEN 2 ELSE 0
      BY <1>7, <2>3, StateFacts DEF OpType
    <3>2. psr' = IF jump(ab) THEN p ELSE psr
      <4>1. psr' = x.psr
        BY <1>6, <1>8, <1>15, EdgeAdvance
      <4> QED BY <1>3, <4>1
    <3>3. owed' = (owed \cup x.owes) \ Written(x)
      BY <1>6, <1>8, <1>15, EdgeCommit
    <3>4. Written(x) = {<<w, op.mode>> : w \in x.high} \cup Bus(x.mem)
      BY <1>3, <1>4 DEF Written
    <3>5. CASE ~loads
      <4>1. /\ op.kind = "stm" /\ op.left = 2 /\ ~last /\ ~dabort
            /\ owed = {<<"m2", "bus">>, <<"m1", "bus">>}
        BY <1>4, <2>3, <3>5 DEF IInv, DebtsMatch
      <4>2. Written(x) = IF ab THEN {} ELSE {<<"m2", "bus">>}
        BY <1>3, <1>13, <3>4, <3>5, <4>1
      <4>3. /\ owed' = IF ab THEN owed ELSE {<<"m1", "bus">>}
            /\ Written(x) \subseteq owed \cup x.owes
        BY <1>3, <3>3, <4>1, <4>2
      <4>4. state' = "BLOCK_DATA" /\ psr' = psr /\ dabort' = ab
        BY <1>9, <3>2, <4>1
      <4>5. LatchesMatch' /\ AbortsPending' /\ DebtsMatch'
        BY <1>4, <3>1, <4>1, <4>3, <4>4
        DEF LatchesMatch, Served, Waiting, AbortsPending, DebtsMatch, NoBase
      <4> QED BY <1>6, <1>8, <1>12, <1>15, <2>1, <3>1, <4>3, <4>5, PlainStep
    <3>6. CASE loads /\ ~last
      <4>1. /\ op.left = 2 /\ ~dabort /\ op.kind # "stm"
            /\ owed = {<<"base", op.mode>>, <<"r2", op.mode>>, <<LastItem, op.mode>>}
        BY <1>4, <3>6 DEF IInv, DebtsMatch
      <4>2. Written(x) = IF ab THEN {} ELSE {<<"r2", op.mode>>}
        BY <1>3, <1>13, <3>4, <3>6, <4>1
      <4>3. /\ owed' = IF ab THEN owed ELSE {<<"base", op.mode>>, <<LastItem, op.mode>>}
            /\ Written(x) \subseteq owed \cup x.owes
        BY <1>3, <3>3, <4>1, <4>2 DEF LastItem
      <4>4. /\ state' = "BLOCK_DATA" /\ psr' = psr /\ dabort' = ab /\ op'.left = 1
            /\ LastItem' = LastItem
        BY <1>9, <3>1, <3>2, <3>6, <4>1 DEF LastItem
      <4>5. LatchesMatch' /\ AbortsPending'
        <5>1. op'.kind \in Blocks /\ op'.left = 1 /\ op'.mode = psr'.mode /\ state' = "BLOCK_DATA"
          BY <1>4, <3>1, <4>4
        <5>2. op'.kind \in Served(state')
          BY <5>1 DEF Served
        <5>3. LatchesMatch'
          BY <5>1, <5>2 DEF LatchesMatch, Waiting
        <5>4. op'.kind \notin {"mcr", "mrc"}
          BY <5>1 DEF Blocks
        <5>5. AbortsPending'
          BY <5>1, <5>4 DEF AbortsPending
        <5> QED BY <5>3, <5>5
      <4>6. DebtsMatch'
        <5>1. owed' = IF dabort' THEN {<<"base", op'.mode>>, <<"r2", op'.mode>>, <<LastItem', op'.mode>>}
                      ELSE {<<"base", op'.mode>>, <<LastItem', op'.mode>>}
          BY <3>1, <4>1, <4>3, <4>4
        <5>2. op'.kind # "stm" /\ op'.left = 1 /\ state' = "BLOCK_DATA"
          BY <3>1, <4>1, <4>4
        <5> QED BY <5>1, <5>2 DEF DebtsMatch
      <4> QED BY <1>6, <1>8, <1>12, <1>15, <2>1, <3>1, <4>3, <4>5, <4>6, PlainStep
    <3>7. CASE loads /\ last
      <4>1. /\ op.left = 1 /\ op.kind # "stm"
            /\ owed = IF dabort THEN {<<"base", op.mode>>, <<"r2", op.mode>>, <<LastItem, op.mode>>}
                      ELSE {<<"base", op.mode>>, <<LastItem, op.mode>>}
        BY <1>4, <3>7 DEF IInv, DebtsMatch
      <4>2. Written(x) = {<<IF failed(ab) THEN "base" ELSE LastItem, op.mode>>}
        BY <1>3, <1>13, <3>4, <3>7
      <4>3. /\ Written(x) \subseteq owed \cup x.owes
            /\ failed(ab) => NoBase'
            /\ ~failed(ab) => owed' = {<<"base", op.mode>>}
        BY <1>3, <3>3, <4>1, <4>2 DEF LastItem, NoBase
      <4>4. state' = "BLOCK_WB" /\ op'.kind \in Blocks \ {"stm"}
        BY <1>4, <1>9, <3>1, <3>7
      <4>5. LatchesMatch' /\ AbortsPending' /\ DebtsMatch'
        BY <1>4, <1>9, <3>1, <3>7, <4>3, <4>4
        DEF LatchesMatch, Served, Waiting, AbortsPending, DebtsMatch, Blocks
      <4> QED BY <1>6, <1>8, <1>12, <1>15, <2>1, <3>1, <4>3, <4>5, PlainStep
    <3> QED BY <3>5, <3>6, <3>7
  <2> QED BY <2>2, <2>3
<1> QED BY <1>14, <1>15

LEMMA SwapReadStep ==
    ASSUME IInv, QuietInterrupts, Swap, state = "SWP_RDATA" PROVE IInv' /\ Order!Next
<1>1. PICK ab \in BOOLEAN, irq \in BOOLEAN, fiq \in BOOLEAN :
        /\ Leaves(IF ab THEN "EXEC" ELSE "SWP_WDATA")
        /\ Edge([Edge0 EXCEPT !.nx = IF ab THEN "EXEC" ELSE "SWP_WDATA", !.ab = ab], irq, fiq)
  BY DEF Swap, Settle
<1> DEFINE nx == IF ab THEN "EXEC" ELSE "SWP_WDATA"
           x == [Edge0 EXCEPT !.nx = nx, !.ab = ab]
           e == Event(x.nx, x.ab, irq, fiq, x.sync)
<1>2. /\ x.nx = nx /\ x.ab = ab /\ x.sync = "none" /\ x.jump = FALSE /\ x.to = 0
      /\ x.early = TRUE /\ x.psr = psr /\ x.high = {} /\ x.low = {} /\ x.owes = {}
      /\ x.mem = {} /\ x.did = "none" /\ x.fetches = TRUE
  BY DEF Edge0
<1>3. Edge(x, irq, fiq) /\ op' = IF nx = "EXEC" THEN NoOp ELSE op
  BY <1>1 DEF Leaves
<1>4. /\ op.kind = "swp" /\ op.mode = psr.mode /\ dabort = FALSE
      /\ owed = {<<"rd", op.mode>>, <<"m1", "bus">>}
  BY StateFacts DEF IInv, LatchesMatch, Served, DebtsMatch, AbortsPending
<1> HIDE DEF x
<1>5. EdgeShape(x)
  BY <1>2, <1>4, StateFacts DEF EdgeShape, Idle, States
<1>6. Bus(x.mem) = {} /\ state' = nx
  BY <1>2, <1>3, <1>5, EdgeAdvance DEF Bus
<1>7. e = "dabt" <=> ab
  BY <1>2, <1>3, <1>4, <1>5, EventCases
<1>8. e # "none" => nx = "EXEC"
  BY <1>2, <1>3, <1>5, EventCases
<1>9. CASE e # "none"
  <2>1. NoBase
    BY <1>4 DEF NoBase
  <2> QED BY <1>3, <1>5, <1>6, <1>7, <1>8, <1>9, <2>1, ExceptionStep
<1>10. CASE e = "none"
  <2>1. ~ab /\ Written(x) = {}
    BY <1>2, <1>6, <1>7, <1>10 DEF Written
  <2>2. owed' = owed /\ Written(x) \subseteq owed \cup x.owes
    BY <1>2, <1>3, <1>5, <1>10, <2>1, EdgeCommit
  <2>3. psr' = psr /\ op' = op /\ state' = "SWP_WDATA" /\ dabort' = FALSE
    <3>1. psr' = psr
      BY <1>2, <1>3, <1>5, <1>10, EdgeAdvance, ZenonT(60)
    <3>2. dabort' = (state # "EXEC" /\ (dabort \/ x.ab))
      BY <1>3, <1>5, EdgeRest
    <3>3. x.ab = FALSE
      BY <1>2, <2>1
    <3> QED BY <1>3, <1>4, <1>6, <2>1, <3>1, <3>2, <3>3
  <2>4. x.did \notin Events /\ ~Waiting'
    BY <1>2, <2>3 DEF Events, Waiting
  <2>5. LatchesMatch' /\ AbortsPending' /\ DebtsMatch'
    BY <1>4, <2>2, <2>3 DEF LatchesMatch, Served, Waiting, AbortsPending, DebtsMatch
  <2>6. Order!Next
    BY <1>2, <1>3, <1>5, <1>10, <2>3, <2>4, InsideStep DEF Idle
  <2> QED BY <1>3, <1>5, <1>10, <2>2, <2>3, <2>4, <2>5, <2>6, StateFacts, PlainStep
<1> QED BY <1>9, <1>10

LEMMA SwapWriteStep ==
    ASSUME IInv, QuietInterrupts, Swap, state = "SWP_WDATA" PROVE IInv' /\ Order!Next
<1>1. PICK ab \in BOOLEAN, irq \in BOOLEAN, fiq \in BOOLEAN :
        /\ op' = op
        /\ Edge([Edge0 EXCEPT !.nx = "SWP_WB", !.ab = ab, !.mem = IF ab THEN {} ELSE {"m1"}],
                irq, fiq)
  BY DEF Swap, Settle
<1> DEFINE x == [Edge0 EXCEPT !.nx = "SWP_WB", !.ab = ab, !.mem = IF ab THEN {} ELSE {"m1"}]
           e == Event(x.nx, x.ab, irq, fiq, x.sync)
<1>2. /\ x.nx = "SWP_WB" /\ x.ab = ab /\ x.sync = "none" /\ x.jump = FALSE /\ x.to = 0
      /\ x.early = TRUE /\ x.psr = psr /\ x.high = {} /\ x.low = {} /\ x.owes = {}
      /\ x.mem = (IF ab THEN {} ELSE {"m1"}) /\ x.did = "none" /\ x.fetches = TRUE
  BY DEF Edge0
<1>3. Edge(x, irq, fiq) /\ op' = op
  BY <1>1
<1>4. /\ op.kind = "swp" /\ op.mode = psr.mode /\ dabort = FALSE
      /\ owed = {<<"rd", op.mode>>, <<"m1", "bus">>}
  BY StateFacts DEF IInv, LatchesMatch, Served, DebtsMatch, AbortsPending
<1> HIDE DEF x
<1>5. EdgeShape(x)
  BY <1>2, <1>4, StateFacts DEF EdgeShape, Idle, States
<1>6. e = "none"
  BY <1>2, <1>3, <1>5, EventCases
<1>7. Written(x) = IF ab THEN {} ELSE {<<"m1", "bus">>}
  BY <1>2 DEF Written, Bus
<1>8. /\ owed' = IF ab THEN owed ELSE {<<"rd", op.mode>>}
      /\ Written(x) \subseteq owed \cup x.owes
  BY <1>2, <1>3, <1>4, <1>5, <1>6, <1>7, EdgeCommit
<1>9. psr' = psr /\ state' = "SWP_WB" /\ dabort' = ab
  <2>0. psr' = x.psr /\ state' = x.nx
    BY <1>3, <1>5, <1>6, EdgeAdvance
  <2>1. psr' = psr /\ state' = "SWP_WB"
    BY <1>2, <2>0
  <2>2. dabort' = (state # "EXEC" /\ (dabort \/ x.ab))
    BY <1>3, <1>5, EdgeRest
  <2> QED BY <1>2, <1>4, <2>1, <2>2
<1>10. x.did \notin Events /\ ~Waiting'
  BY <1>2, <1>9 DEF Events, Waiting
<1>11. LatchesMatch' /\ AbortsPending' /\ DebtsMatch'
  BY <1>3, <1>4, <1>8, <1>9
  DEF LatchesMatch, Served, Waiting, AbortsPending, DebtsMatch, NoBase
<1>12. Order!Next
  BY <1>2, <1>3, <1>5, <1>6, <1>9, <1>10, InsideStep DEF Idle
<1> QED BY <1>3, <1>5, <1>6, <1>8, <1>10, <1>11, <1>12, StateFacts, PlainStep

LEMMA SwapWritebackStep ==
    ASSUME IInv, QuietInterrupts, Swap, state = "SWP_WB" PROVE IInv' /\ Order!Next
<1>1. PICK irq \in BOOLEAN, fiq \in BOOLEAN :
        /\ op' = NoOp
        /\ Edge([Edge0 EXCEPT !.high = IF dabort THEN {} ELSE {"rd"}], irq, fiq)
  BY DEF Swap, Settle, Leaves
<1> DEFINE x == [Edge0 EXCEPT !.high = IF dabort THEN {} ELSE {"rd"}]
           e == Event(x.nx, x.ab, irq, fiq, x.sync)
<1>2. /\ x.nx = "EXEC" /\ x.ab = FALSE /\ x.sync = "none" /\ x.jump = FALSE /\ x.to = 0
      /\ x.early = TRUE /\ x.psr = psr /\ x.high = (IF dabort THEN {} ELSE {"rd"})
      /\ x.low = {} /\ x.owes = {} /\ x.mem = {} /\ x.did = "none" /\ x.fetches = TRUE
  BY DEF Edge0
<1>3. Edge(x, irq, fiq) /\ op' = NoOp
  BY <1>1
<1>4. /\ op.kind = "swp" /\ op.mode = psr.mode
      /\ IF dabort THEN NoBase ELSE owed = {<<"rd", op.mode>>}
  BY StateFacts DEF IInv, LatchesMatch, Served, DebtsMatch
<1> HIDE DEF x
<1>5. EdgeShape(x)
  BY <1>2, <1>4, StateFacts DEF EdgeShape, Idle, QuietStates, States
<1>6. e = (IF dabort THEN "dabt" ELSE "none")
  BY <1>2, <1>3, <1>5, EventCases DEF QuietStates, Events
<1>7. Bus(x.mem) = {} /\ state' = "EXEC"
  BY <1>2, <1>3, <1>5, EdgeAdvance DEF Bus
<1>8. CASE dabort
  BY <1>3, <1>4, <1>5, <1>6, <1>7, <1>8, ExceptionStep
<1>9. CASE ~dabort
  <2>1. Written(x) = owed \cup x.owes
    BY <1>2, <1>4, <1>7, <1>9 DEF Written
  <2>2. x.did \notin Events /\ ~Waiting'
    BY <1>2, <1>7 DEF Events, Waiting
  <2>3. IInv'
    BY <1>2, <1>3, <1>5, <1>6, <1>9, <2>1, <2>2, EndStep
  <2>4. Order!Next
    BY <1>2, <1>3, <1>5, <1>6, <1>7, <1>9, <2>2, InsideStep DEF Idle
  <2> QED BY <2>3, <2>4
<1> QED BY <1>8, <1>9

LEMMA SwapStep ==
    ASSUME IInv, QuietInterrupts, Swap PROVE IInv' /\ Order!Next
  BY SwapReadStep, SwapWriteStep, SwapWritebackStep DEF Swap

LEMMA MultiplyAccumulateStep ==
    ASSUME IInv, QuietInterrupts, Multiply, state = "MULL_ACC" PROVE IInv' /\ Order!Next
<1>1. PICK n \in 1 .. MaxMul, irq \in BOOLEAN, fiq \in BOOLEAN :
        /\ op' = [op EXCEPT !.left = n]
        /\ Edge([Edge0 EXCEPT !.nx = "MUL_BUSY", !.low = {"lo"}], irq, fiq)
  BY DEF Multiply, Settle
<1> DEFINE x == [Edge0 EXCEPT !.nx = "MUL_BUSY", !.low = {"lo"}]
           e == Event(x.nx, x.ab, irq, fiq, x.sync)
<1>2. /\ x.nx = "MUL_BUSY" /\ x.ab = FALSE /\ x.sync = "none" /\ x.jump = FALSE /\ x.to = 0
      /\ x.early = TRUE /\ x.psr = psr /\ x.high = {} /\ x.low = {"lo"} /\ x.owes = {}
      /\ x.mem = {} /\ x.did = "none" /\ x.fetches = TRUE
  BY DEF Edge0
<1>3. /\ Edge(x, irq, fiq) /\ op' \in OpType /\ op'.left # 0
      /\ op'.kind = op.kind /\ op'.mode = op.mode /\ op'.pc = op.pc
  <2>1. n \in Nat /\ n # 0
    BY EnvironmentAssumption
  <2> QED BY <1>1, <2>1, StateFacts DEF OpType
<1>4. /\ op.kind = "mlal" /\ op.mode = psr.mode /\ dabort = FALSE
      /\ owed = {<<"lo", op.mode>>, <<"hi", op.mode>>}
  BY StateFacts DEF IInv, LatchesMatch, Served, DebtsMatch, AbortsPending
<1> HIDE DEF x
<1>5. EdgeShape(x)
  BY <1>2, <1>4, StateFacts DEF EdgeShape, Idle, States
<1>6. e = "none"
  BY <1>2, <1>3, <1>5, EventCases
<1>7. Written(x) = {<<"lo", op.mode>>}
  BY <1>2, <1>4 DEF Written, Bus
<1>8. owed' = {<<"hi", op.mode>>} /\ Written(x) \subseteq owed \cup x.owes
  BY <1>2, <1>3, <1>4, <1>5, <1>6, <1>7, EdgeCommit
<1>9. psr' = psr /\ state' = "MUL_BUSY"
  <2>1. psr' = x.psr /\ state' = x.nx
    BY <1>3, <1>5, <1>6, EdgeAdvance
  <2> QED BY <1>2, <2>1
<1>10. dabort' = FALSE
  BY <1>2, <1>3, <1>4, <1>5, EdgeRest
<1>11. x.did \notin Events /\ ~Waiting'
  BY <1>2, <1>9 DEF Events, Waiting
<1>12. LatchesMatch' /\ AbortsPending' /\ DebtsMatch'
  BY <1>3, <1>4, <1>8, <1>9, <1>10
  DEF LatchesMatch, Served, Waiting, AbortsPending, DebtsMatch, Muls
<1>13. Order!Next
  BY <1>2, <1>3, <1>5, <1>6, <1>9, <1>11, InsideStep DEF Idle
<1> QED BY <1>3, <1>5, <1>6, <1>8, <1>11, <1>12, <1>13, PlainStep

LEMMA MultiplyBusyStep ==
    ASSUME IInv, QuietInterrupts, Multiply, state = "MUL_BUSY" PROVE IInv' /\ Order!Next
<1> DEFINE nx == IF op.left # 1 THEN "MUL_BUSY"
                 ELSE IF op.kind = "mul" THEN "EXEC" ELSE "MULL_HI"
           x == [Edge0 EXCEPT !.nx = nx]
<1>1. PICK irq \in BOOLEAN, fiq \in BOOLEAN :
        /\ op' = IF nx = "EXEC" THEN NoOp ELSE [op EXCEPT !.left = @ - 1]
        /\ Edge(x, irq, fiq)
  BY DEF Multiply, Settle
<1> DEFINE e == Event(x.nx, x.ab, irq, fiq, x.sync)
<1>2. /\ x.nx = nx /\ x.ab = FALSE /\ x.sync = "none" /\ x.jump = FALSE /\ x.to = 0
      /\ x.early = TRUE /\ x.psr = psr /\ x.high = {} /\ x.low = {} /\ x.owes = {}
      /\ x.mem = {} /\ x.did = "none" /\ x.fetches = TRUE
  BY DEF Edge0
<1>3. /\ op.kind \in Muls /\ op.mode = psr.mode /\ dabort = FALSE
      /\ op.left \in Nat /\ op.left # 0
      /\ owed = IF op.kind = "mul" THEN {} ELSE {<<"hi", op.mode>>}
  BY StateFacts DEF IInv, LatchesMatch, Served, DebtsMatch, AbortsPending
<1> HIDE DEF x
<1>4. EdgeShape(x)
  BY <1>2, <1>3, StateFacts DEF EdgeShape, Idle, States
<1>5. e # "none" => nx = "EXEC"
  BY <1>1, <1>2, <1>4, EventCases
<1>6. e # "dabt"
  BY <1>1, <1>2, <1>3, <1>4, EventCases
<1>7. Bus(x.mem) = {} /\ Written(x) = {} /\ state' = nx
  BY <1>1, <1>2, <1>4, EdgeAdvance DEF Bus, Written
<1>8. x.did \notin Events /\ ~Waiting'
  BY <1>2, <1>7 DEF Events, Waiting
<1>9. nx = "EXEC" => owed = {}
  BY <1>3
<1>10. CASE e # "none"
  BY <1>1, <1>4, <1>5, <1>6, <1>7, <1>9, <1>10, ExceptionStep
<1>11. CASE e = "none" /\ nx = "EXEC"
  <2>1. Written(x) = owed \cup x.owes
    BY <1>2, <1>7, <1>9, <1>11
  <2>2. IInv'
    BY <1>1, <1>2, <1>4, <1>8, <1>11, <2>1, EndStep, SMTT(40)
  <2>3. Order!Next
    BY <1>1, <1>2, <1>4, <1>7, <1>8, <1>11, InsideStep, SMTT(40) DEF Idle
  <2> QED BY <2>2, <2>3
<1>12. CASE e = "none" /\ nx # "EXEC"
  <2>1. /\ op' \in OpType /\ op'.kind = op.kind /\ op'.mode = op.mode /\ op'.pc = op.pc
        /\ op'.left = op.left - 1
    BY <1>1, <1>3, <1>12, StateFacts DEF OpType
  <2>2. owed' = owed /\ Written(x) \subseteq owed \cup x.owes
    BY <1>1, <1>2, <1>4, <1>7, <1>12, EdgeCommit
  <2>3. psr' = psr
    BY <1>1, <1>2, <1>4, <1>12, EdgeAdvance, ZenonT(60)
  <2>4. dabort' = FALSE
    BY <1>1, <1>2, <1>3, <1>4, EdgeRest
  <2>5. \/ state' = "MUL_BUSY" /\ op.left # 1
        \/ state' = "MULL_HI" /\ op.kind # "mul"
    BY <1>7, <1>12
  <2>6. LatchesMatch' /\ AbortsPending'
    BY <1>3, <2>1, <2>3, <2>4, <2>5
    DEF LatchesMatch, Served, Waiting, AbortsPending, Muls
  <2>7. DebtsMatch'
    BY <1>3, <2>1, <2>2, <2>5 DEF DebtsMatch
  <2>8. Order!Next
    BY <1>1, <1>2, <1>4, <1>7, <1>8, <1>12, <2>1, InsideStep DEF Idle
  <2> QED BY <1>1, <1>4, <1>8, <1>12, <2>1, <2>2, <2>6, <2>7, <2>8, PlainStep
<1> QED BY <1>10, <1>11, <1>12

LEMMA MultiplyHighStep ==
    ASSUME IInv, QuietInterrupts, Multiply, state = "MULL_HI" PROVE IInv' /\ Order!Next
<1>1. PICK irq \in BOOLEAN, fiq \in BOOLEAN :
        op' = NoOp /\ Edge([Edge0 EXCEPT !.low = {"hi"}], irq, fiq)
  BY DEF Multiply, Settle, Leaves
<1> DEFINE x == [Edge0 EXCEPT !.low = {"hi"}]
           e == Event(x.nx, x.ab, irq, fiq, x.sync)
<1>2. /\ x.nx = "EXEC" /\ x.ab = FALSE /\ x.sync = "none" /\ x.jump = FALSE /\ x.to = 0
      /\ x.early = TRUE /\ x.psr = psr /\ x.high = {} /\ x.low = {"hi"} /\ x.owes = {}
      /\ x.mem = {} /\ x.did = "none" /\ x.fetches = TRUE
  BY DEF Edge0
<1>3. Edge(x, irq, fiq) /\ op' = NoOp
  BY <1>1
<1>4. op.mode = psr.mode /\ dabort = FALSE /\ owed = {<<"hi", op.mode>>}
  BY StateFacts DEF IInv, LatchesMatch, DebtsMatch, AbortsPending
<1> HIDE DEF x
<1>5. EdgeShape(x)
  BY <1>2, <1>4, StateFacts DEF EdgeShape, Idle, QuietStates, States
<1>6. e = "none"
  BY <1>2, <1>3, <1>4, <1>5, EventCases DEF QuietStates, Events
<1>7. Written(x) = owed \cup x.owes
  BY <1>2, <1>4 DEF Written, Bus
<1>8. state' = "EXEC"
  BY <1>2, <1>3, <1>5, EdgeAdvance
<1>9. x.did \notin Events /\ ~Waiting'
  BY <1>2, <1>8 DEF Events, Waiting
<1>10. IInv'
  BY <1>2, <1>3, <1>5, <1>6, <1>7, <1>9, EndStep
<1>11. Order!Next
  BY <1>2, <1>3, <1>5, <1>6, <1>8, <1>9, InsideStep DEF Idle
<1> QED BY <1>10, <1>11

LEMMA MultiplyStep ==
    ASSUME IInv, QuietInterrupts, Multiply PROVE IInv' /\ Order!Next
  BY MultiplyAccumulateStep, MultiplyBusyStep, MultiplyHighStep DEF Multiply

LEMMA ShiftCommitStep ==
    ASSUME IInv, QuietInterrupts, ShiftCommit PROVE IInv' /\ Order!Next
<1> DEFINE jump == op.kind = "shiftpc"
<1>1. PICK p \in IF jump THEN Restored \cup {psr} ELSE {psr} :
        /\ op' = NoOp
        /\ \E to \in IF jump THEN Aligned(p.t) ELSE {0} :
             Settle([Edge0 EXCEPT !.jump = jump, !.to = to, !.psr = p,
                       !.did = IF jump THEN "redirect" ELSE "none",
                       !.low = IF jump THEN {} ELSE {"rd"}])
  BY DEF ShiftCommit, Leaves
<1>2. PICK to \in IF jump THEN Aligned(p.t) ELSE {0}, irq \in BOOLEAN, fiq \in BOOLEAN :
        Edge([Edge0 EXCEPT !.jump = jump, !.to = to, !.psr = p,
                !.did = IF jump THEN "redirect" ELSE "none",
                !.low = IF jump THEN {} ELSE {"rd"}], irq, fiq)
  BY <1>1 DEF Settle
<1> DEFINE x == [Edge0 EXCEPT !.jump = jump, !.to = to, !.psr = p,
                   !.did = IF jump THEN "redirect" ELSE "none",
                   !.low = IF jump THEN {} ELSE {"rd"}]
           e == Event(x.nx, x.ab, irq, fiq, x.sync)
<1>3. /\ x.nx = "EXEC" /\ x.ab = FALSE /\ x.sync = "none" /\ x.jump = jump /\ x.to = to
      /\ x.early = TRUE /\ x.psr = p /\ x.high = {}
      /\ x.low = (IF jump THEN {} ELSE {"rd"}) /\ x.owes = {} /\ x.mem = {}
      /\ x.did = (IF jump THEN "redirect" ELSE "none") /\ x.fetches = TRUE
  BY DEF Edge0
<1>4. Edge(x, irq, fiq) /\ op' = NoOp
  BY <1>1, <1>2
<1>5. /\ state = "DP_SHIFT" /\ op.kind \in Shifts /\ op.mode = psr.mode /\ dabort = FALSE
      /\ owed = IF jump THEN {} ELSE {<<"rd", op.mode>>}
  BY StateFacts DEF ShiftCommit, IInv, LatchesMatch, Served, DebtsMatch, AbortsPending, Shifts
<1>6. to \in PC /\ p \in PsrType /\ (~jump => p = psr)
  BY StateFacts, RestoredType, AlignedType
<1> HIDE DEF x
<1>7. EdgeShape(x)
  BY <1>3, <1>5, <1>6 DEF EdgeShape, Idle, QuietStates, States
<1>8. e = "none"
  BY <1>3, <1>4, <1>5, <1>7, EventCases DEF QuietStates, Events
<1>9. Written(x) = owed \cup x.owes
  BY <1>3, <1>5 DEF Written, Bus
<1>10. state' = "EXEC"
  BY <1>3, <1>4, <1>7, EdgeAdvance
<1>11. x.did \notin Events /\ ~Waiting'
  BY <1>3, <1>10 DEF Events, Waiting
<1>12. IInv'
  BY <1>3, <1>4, <1>7, <1>8, <1>9, <1>11, EndStep
<1>13. Order!Next
  BY <1>3, <1>4, <1>5, <1>7, <1>8, <1>10, <1>11, InsideStep DEF Idle
<1> QED BY <1>12, <1>13

LEMMA CoprocessorDataStep ==
    ASSUME IInv, QuietInterrupts, CoprocessorData PROVE IInv' /\ Order!Next
<1> DEFINE words == op.kind \in {"ldc", "stc"}
           nx(final) == CASE op.kind = "mcr" -> "EXEC"
                          [] op.kind = "mrc" -> "CP_MRC_WB"
                          [] OTHER -> IF final THEN "CP_MRC_WB" ELSE state
           X(final, ab) == [Edge0 EXCEPT !.nx = nx(final), !.ab = ab, !.fetches = ~words,
                              !.high = IF words /\ op.left = 2 THEN {"base"} ELSE {}]
<1>a. PICK final \in BOOLEAN, ab \in BOOLEAN :
        /\ ab => words /\ op.left # 2
        /\ op' = IF nx(final) = "EXEC" THEN NoOp ELSE [op EXCEPT !.left = 1]
        /\ Settle(X(final, ab))
  BY DEF CoprocessorData
<1>b. PICK irq \in BOOLEAN, fiq \in BOOLEAN : Edge(X(final, ab), irq, fiq)
  BY <1>a DEF Settle
<1>1. /\ ab => words /\ op.left # 2
      /\ op' = IF nx(final) = "EXEC" THEN NoOp ELSE [op EXCEPT !.left = 1]
      /\ Edge(X(final, ab), irq, fiq)
  BY <1>a, <1>b
<1> DEFINE x == X(final, ab)
           e == Event(x.nx, x.ab, irq, fiq, x.sync)
<1>2. /\ x.nx = nx(final) /\ x.ab = ab /\ x.sync = "none" /\ x.jump = FALSE /\ x.to = 0
      /\ x.early = TRUE /\ x.psr = psr
      /\ x.high = (IF words /\ op.left = 2 THEN {"base"} ELSE {}) /\ x.low = {}
      /\ x.owes = {} /\ x.mem = {} /\ x.did = "none" /\ x.fetches = ~words
  BY DEF Edge0
<1>3. /\ state \in {"CP_MCR_DATA", "CP_MRC_DATA"} /\ op.mode = psr.mode
      /\ op.kind \in {"mcr", "mrc", "ldc", "stc"}
      /\ op.kind \in {"mcr", "mrc"} => dabort = FALSE
      /\ owed = CASE op.kind = "mcr" -> {} [] op.kind = "mrc" -> {<<"rd", op.mode>>}
                  [] OTHER -> IF op.left = 2 THEN {<<"base", op.mode>>} ELSE {}
  <2>1. state \in {"CP_MCR_DATA", "CP_MRC_DATA"} /\ op.kind \in Served(state)
    BY StateFacts DEF CoprocessorData
  <2>2. op.kind \in {"mcr", "mrc", "ldc", "stc"}
    BY <2>1 DEF Served
  <2>3. op.mode = psr.mode /\ (op.kind \in {"mcr", "mrc"} => dabort = FALSE)
    BY <2>1, StateFacts DEF IInv, LatchesMatch, AbortsPending
  <2>4. owed = CASE op.kind = "mcr" -> {} [] op.kind = "mrc" -> {<<"rd", op.mode>>}
                 [] OTHER -> IF op.left = 2 THEN {<<"base", op.mode>>} ELSE {}
    BY <2>1 DEF IInv, DebtsMatch
  <2> QED BY <2>1, <2>2, <2>3, <2>4
<1>4. Edge(x, irq, fiq) /\ (op.kind = "mcr" => ab = FALSE)
  BY <1>1, <1>2
<1> HIDE DEF x, X
<1>5. EdgeShape(x)
  <2>1. nx(final) \in States \ {"BLOCK_WB"}
    BY <1>3 DEF States
  <2>2. nx(final) = "EXEC" => op.kind = "mcr"
    BY <1>3
  <2> QED BY <1>2, <1>3, <2>1, <2>2, StateFacts DEF EdgeShape, Idle
<1>6. state' = nx(final) /\ dabort' = (dabort \/ ab)
  <2>1. state' = x.nx
    BY <1>4, <1>5, EdgeAdvance
  <2>2. dabort' = (state # "EXEC" /\ (dabort \/ x.ab))
    BY <1>4, <1>5, EdgeRest
  <2> QED BY <1>2, <1>3, <2>1, <2>2
<1>7. e # "none" => nx(final) = "EXEC"
  BY <1>2, <1>4, <1>5, EventCases
<1>8. e = "dabt" => dabort \/ ab
  BY <1>2, <1>4, <1>5, EventCases
<1>9. Bus(x.mem) = {}
  BY <1>2 DEF Bus
<1>10. Written(x) = IF words /\ op.left = 2 THEN {<<"base", op.mode>>} ELSE {}
  BY <1>2, <1>3, <1>9 DEF Written
<1>11. x.did \notin Events /\ ~Waiting'
  BY <1>2, <1>3, <1>6 DEF Events, Waiting
<1>12. nx(final) = "EXEC" => op.kind = "mcr" /\ owed = {}
  BY <1>3
<1>13. CASE e # "none"
  <2>1. op.kind = "mcr" /\ owed = {} /\ e # "dabt"
    BY <1>3, <1>4, <1>7, <1>8, <1>12, <1>13
  <2> QED BY <1>1, <1>2, <1>4, <1>5, <1>9, <1>13, <2>1, ExceptionStep
<1>14. CASE e = "none" /\ nx(final) = "EXEC"
  <2>1. Written(x) = owed \cup x.owes
    BY <1>2, <1>10, <1>12, <1>14
  <2>2. IInv'
    BY <1>1, <1>2, <1>4, <1>5, <1>11, <1>14, <2>1, EndStep
  <2>3. Order!Next
    BY <1>2, <1>3, <1>4, <1>5, <1>6, <1>11, <1>14, InsideStep DEF Idle
  <2> QED BY <2>2, <2>3
<1>15. CASE e = "none" /\ nx(final) # "EXEC"
  <2>1. /\ op' \in OpType /\ op'.kind = op.kind /\ op'.mode = op.mode /\ op'.pc = op.pc
        /\ op'.left = 1 /\ op.kind # "mcr"
    BY <1>1, <1>15, StateFacts DEF OpType
  <2>2. Written(x) \subseteq owed \cup x.owes
    BY <1>3, <1>10, <2>1
  <2>3. owed' = IF op.kind = "mrc" THEN {<<"rd", op.mode>>} ELSE {}
    <3>1. owed' = (owed \cup x.owes) \ Written(x)
      BY <1>4, <1>5, <1>15, EdgeCommit
    <3> QED BY <1>2, <1>3, <1>10, <2>1, <3>1
  <2>4. psr' = psr
    <3>1. psr' = x.psr
      BY <1>4, <1>5, <1>15, EdgeAdvance
    <3> QED BY <1>2, <3>1
  <2>5. \/ state' = "CP_MRC_WB"
        \/ state' = state /\ words
    BY <1>3, <1>6, <1>15
  <2>6. LatchesMatch'
    BY <1>3, <2>1, <2>4, <2>5, StateFacts DEF LatchesMatch, Served, Waiting
  <2>7. AbortsPending'
    <3>1. op.kind = "mrc" => dabort' = FALSE
      BY <1>1, <1>3, <1>6
    <3> QED BY <1>3, <2>1, <2>5, <3>1 DEF AbortsPending
  <2>8. DebtsMatch'
    BY <1>3, <2>1, <2>3, <2>5 DEF DebtsMatch
  <2>9. Order!Next
    BY <1>2, <1>3, <1>4, <1>5, <1>6, <1>11, <1>15, <2>1, InsideStep DEF Idle
  <2> QED BY <1>4, <1>5, <1>11, <1>15, <2>1, <2>2, <2>6, <2>7, <2>8, <2>9, PlainStep
<1> QED BY <1>13, <1>14, <1>15

LEMMA CoprocessorEndStep ==
    ASSUME IInv, QuietInterrupts, CoprocessorEnd PROVE IInv' /\ Order!Next
<1> DEFINE X(ab) == [Edge0 EXCEPT !.ab = ab, !.high = IF op.kind = "mrc" THEN {"rd"} ELSE {}]
<1>1. PICK ab \in BOOLEAN, irq \in BOOLEAN, fiq \in BOOLEAN :
        /\ ab => op.kind \in {"ldc", "stc"}
        /\ Edge(X(ab), irq, fiq)
  BY DEF CoprocessorEnd, Settle, Leaves
<1>2. op' = NoOp /\ (op.kind = "mrc" => ab = FALSE)
  BY <1>1 DEF CoprocessorEnd, Leaves
<1> DEFINE x == X(ab)
           e == Event(x.nx, x.ab, irq, fiq, x.sync)
<1>3. /\ x.nx = "EXEC" /\ x.ab = ab /\ x.sync = "none" /\ x.jump = FALSE /\ x.to = 0
      /\ x.early = TRUE /\ x.psr = psr
      /\ x.high = (IF op.kind = "mrc" THEN {"rd"} ELSE {}) /\ x.low = {} /\ x.owes = {}
      /\ x.mem = {} /\ x.did = "none" /\ x.fetches = TRUE
  BY DEF Edge0
<1>4. /\ state = "CP_MRC_WB" /\ op.kind \in {"mrc", "ldc", "stc"} /\ op.mode = psr.mode
      /\ op.kind = "mrc" => dabort = FALSE
      /\ owed = IF op.kind = "mrc" THEN {<<"rd", op.mode>>} ELSE {}
  BY StateFacts DEF CoprocessorEnd, IInv, LatchesMatch, Served, DebtsMatch, AbortsPending
<1>5. Edge(x, irq, fiq)
  BY <1>1
<1> HIDE DEF x, X
<1>6. EdgeShape(x)
  BY <1>2, <1>3, <1>4, StateFacts DEF EdgeShape, Idle, QuietStates, States
<1>7. e = (IF dabort \/ ab THEN "dabt" ELSE "none")
  BY <1>3, <1>4, <1>5, <1>6, EventCases DEF QuietStates, Events
<1>8. Bus(x.mem) = {} /\ state' = "EXEC"
  BY <1>3, <1>5, <1>6, EdgeAdvance DEF Bus
<1>9. CASE e # "none"
  <2>1. e = "dabt" /\ owed = {}
    BY <1>2, <1>4, <1>7, <1>9
  <2>2. NoBase
    BY <2>1 DEF NoBase
  <2> QED BY <1>2, <1>5, <1>6, <1>8, <1>9, <2>1, <2>2, ExceptionStep
<1>10. CASE e = "none"
  <2>1. Written(x) = owed \cup x.owes
    BY <1>3, <1>4, <1>8 DEF Written
  <2>2. x.did \notin Events /\ ~Waiting'
    BY <1>3, <1>8 DEF Events, Waiting
  <2>3. IInv'
    BY <1>2, <1>3, <1>5, <1>6, <1>10, <2>1, <2>2, EndStep
  <2>4. Order!Next
    BY <1>3, <1>4, <1>5, <1>6, <1>8, <1>10, <2>2, InsideStep DEF Idle
  <2> QED BY <2>3, <2>4
<1> QED BY <1>9, <1>10

LEMMA UndefinedTrapStep ==
    ASSUME IInv, QuietInterrupts, UndefinedTrap PROVE IInv' /\ Order!Next
<1> DEFINE x == [Edge0 EXCEPT !.sync = "undef"]
<1>1. PICK irq \in BOOLEAN, fiq \in BOOLEAN : op' = NoOp /\ Edge(x, irq, fiq)
  BY DEF UndefinedTrap, Settle, Leaves
<1> DEFINE e == Event(x.nx, x.ab, irq, fiq, x.sync)
<1>2. /\ x.nx = "EXEC" /\ x.ab = FALSE /\ x.sync = "undef" /\ x.jump = FALSE /\ x.to = 0
      /\ x.early = TRUE /\ x.psr = psr /\ x.high = {} /\ x.low = {} /\ x.owes = {}
      /\ x.mem = {} /\ x.did = "none" /\ x.fetches = TRUE
  BY DEF Edge0
<1>3. state = "UNDEF_WAIT" /\ owed = {}
  BY DEF UndefinedTrap, IInv, DebtsMatch
<1> HIDE DEF x
<1>4. EdgeShape(x)
  BY <1>2, <1>3, StateFacts DEF EdgeShape, Idle, States
<1>5. e = "undef"
  BY <1>1, <1>2, <1>3, <1>4, EventCases DEF QuietStates, Events, Idle
<1>6. Bus(x.mem) = {}
  BY <1>2 DEF Bus
<1> QED BY <1>1, <1>3, <1>4, <1>5, <1>6, ExceptionStep

LEMMA RefillStep ==
    ASSUME IInv, QuietInterrupts, Refill PROVE IInv' /\ Order!Next
<1> DEFINE x == Edge0
<1>1. PICK irq \in BOOLEAN, fiq \in BOOLEAN : Edge(x, irq, fiq)
  BY DEF Refill, Settle
<1> DEFINE e == Event(x.nx, x.ab, irq, fiq, x.sync)
<1>2. /\ x.nx = "EXEC" /\ x.ab = FALSE /\ x.sync = "none" /\ x.jump = FALSE /\ x.to = 0
      /\ x.early = TRUE /\ x.psr = psr /\ x.high = {} /\ x.low = {} /\ x.owes = {}
      /\ x.mem = {} /\ x.did = "none" /\ x.fetches = TRUE
  BY DEF Edge0
<1>3. state = "EXEC" /\ ~de.valid /\ owed = {} /\ op' = NoOp
  BY DEF Refill, IInv, DebtsMatch, LatchesMatch
<1> HIDE DEF x
<1>4. EdgeShape(x)
  BY <1>2, <1>3, StateFacts DEF EdgeShape, States
<1>5. e = "none"
  BY <1>1, <1>2, <1>3, <1>4, EventCases DEF Events
<1>6. Written(x) = owed \cup x.owes
  BY <1>2, <1>3 DEF Written, Bus
<1>7. state' = "EXEC"
  BY <1>1, <1>2, <1>4, EdgeAdvance
<1>8. x.did \notin Events /\ ~Waiting'
  BY <1>2, <1>7 DEF Events, Waiting
<1>9. IInv'
  BY <1>1, <1>2, <1>3, <1>4, <1>5, <1>6, <1>8, EndStep
<1>10. Order!Next
  BY <1>1, <1>2, <1>3, <1>4, <1>5, <1>7, <1>8, InsideStep
<1> QED BY <1>9, <1>10

(* Which interrupt an edge takes, if it can take one at all.               *)
LEMMA InterruptCases ==
    ASSUME IInv, NEW x, NEW irq \in BOOLEAN, NEW fiq \in BOOLEAN, x.nx = "EXEC",
           state # "EXEC" => ~dabort /\ ~x.ab, state = "EXEC" => de.valid
    PROVE  Event(x.nx, x.ab, irq, fiq, x.sync) =
             IF fiq /\ ~psr.f THEN "fiq" ELSE IF irq /\ ~psr.i THEN "irq" ELSE x.sync
<1>1. ~InterlockFires /\ ~fiqHeld
  BY DEF IInv, InterlockFires
<1>2. ~DabtFires(x.nx, x.ab)
  BY DEF DabtFires
<1>3. Boundary(x.nx)
  BY DEF Boundary
<1>4. FiqFires(x.nx, fiq) <=> fiq /\ ~psr.f
  BY <1>1, <1>3 DEF FiqFires
<1>5. CASE fiq /\ ~psr.f
  BY <1>2, <1>4, <1>5 DEF Event
<1>6. CASE ~(fiq /\ ~psr.f) /\ irq /\ ~psr.i
  BY <1>2, <1>3, <1>4, <1>6 DEF Event
<1>7. CASE ~(fiq /\ ~psr.f) /\ ~(irq /\ ~psr.i)
  BY <1>2, <1>4, <1>7 DEF Event
<1> QED BY <1>5, <1>6, <1>7

(* What a class writes on its first edge and what it owes from then on.    *)
FirstWrites(k) == {<<w, psr.mode>> : w \in ImmediateWrite(k)}
DueAfter(k) == Owes(k) \ FirstWrites(k)

LEMMA FirstDebts ==
    ASSUME NEW k
    PROVE  /\ k \in AllKinds \ {"swi", "undef"} => FirstWrites(k) \subseteq Owes(k)
           /\ k \in {"msr", "jump", "return", "cdp", "mcr", "shiftpc"} => DueAfter(k) = {}
           /\ k \in {"alu", "mul"} => DueAfter(k) = {}
           /\ k \in {"shift", "mrc"} => DueAfter(k) = {<<"rd", psr.mode>>}
           /\ k \in {"load"} => DueAfter(k) = {<<"rd", psr.mode>>}
           /\ k \in {"loadpc"} => DueAfter(k) = {<<"pc", psr.mode>>}
           /\ k \in {"store"} => DueAfter(k) = {<<"m1", "bus">>}
           /\ k \in {"ldm"} => DueAfter(k) = {<<"base", psr.mode>>, <<"r2", psr.mode>>, <<"r1", psr.mode>>}
           /\ k \in {"ldmpc", "ldmret"} => DueAfter(k) = {<<"base", psr.mode>>, <<"r2", psr.mode>>, <<"pc", psr.mode>>}
           /\ k \in {"stm"} => DueAfter(k) = {<<"m2", "bus">>, <<"m1", "bus">>}
           /\ k \in {"mull"} => DueAfter(k) = {<<"hi", psr.mode>>}
           /\ k \in {"mlal"} => DueAfter(k) = {<<"lo", psr.mode>>, <<"hi", psr.mode>>}
           /\ k \in {"swp"} => DueAfter(k) = {<<"rd", psr.mode>>, <<"m1", "bus">>}
           /\ k \in {"ldc", "stc"} => DueAfter(k) = {<<"base", psr.mode>>}
<1> DEFINE Fact(group, left) ==
             k \in group => FirstWrites(k) \subseteq Owes(k) /\ DueAfter(k) = left
           R(w) == <<w, psr.mode>>
           B(w) == <<w, "bus">>
<1>1. Fact({"msr", "jump", "return", "cdp", "mcr", "shiftpc"}, {})
  <2>1. k \in {"msr", "jump", "return", "cdp", "mcr", "shiftpc"} => ImmediateWrite(k) = {} /\ Owes(k) = {}
    BY DEF ImmediateWrite, Owes, Transfers
  <2> QED BY <2>1 DEF FirstWrites, DueAfter
<1>2. Fact({"alu", "mul"}, {})
  <2>1. k \in {"alu", "mul"} => ImmediateWrite(k) = {"rd"} /\ Owes(k) = {R("rd")}
    BY DEF ImmediateWrite, Owes, Transfers
  <2> QED BY <2>1 DEF FirstWrites, DueAfter
<1>3. Fact({"shift", "mrc"}, {R("rd")})
  <2>1. k \in {"shift", "mrc"} => ImmediateWrite(k) = {} /\ Owes(k) = {R("rd")}
    BY DEF ImmediateWrite, Owes, Transfers
  <2> QED BY <2>1 DEF FirstWrites, DueAfter
<1>4. Fact({"load"}, {R("rd")})
  <2>1. k \in {"load"} => ImmediateWrite(k) = {"base"} /\ Owes(k) = {R("base"), R("rd")}
    BY DEF ImmediateWrite, Owes, Transfers
  <2> QED BY <2>1 DEF FirstWrites, DueAfter
<1>5. Fact({"loadpc"}, {R("pc")})
  <2>1. k \in {"loadpc"} => ImmediateWrite(k) = {"base"} /\ Owes(k) = {R("base"), R("pc")}
    BY DEF ImmediateWrite, Owes, Transfers
  <2> QED BY <2>1 DEF FirstWrites, DueAfter
<1>6. Fact({"store"}, {B("m1")})
  <2>1. k \in {"store"} => ImmediateWrite(k) = {"base"} /\ Owes(k) = {R("base"), B("m1")}
    BY DEF ImmediateWrite, Owes, Transfers
  <2> QED BY <2>1 DEF FirstWrites, DueAfter
<1>7. Fact({"ldm"}, {R("base"), R("r2"), R("r1")})
  <2>1. k \in {"ldm"} => ImmediateWrite(k) = {} /\ Owes(k) = {R("base"), R("r2"), R("r1")}
    BY DEF ImmediateWrite, Owes, Transfers
  <2> QED BY <2>1 DEF FirstWrites, DueAfter
<1>8. Fact({"ldmpc", "ldmret"}, {R("base"), R("r2"), R("pc")})
  <2>1. k \in {"ldmpc", "ldmret"} => ImmediateWrite(k) = {} /\ Owes(k) = {R("base"), R("r2"), R("pc")}
    BY DEF ImmediateWrite, Owes, Transfers
  <2> QED BY <2>1 DEF FirstWrites, DueAfter
<1>9. Fact({"stm"}, {B("m2"), B("m1")})
  <2>1. k \in {"stm"} => ImmediateWrite(k) = {"base"} /\ Owes(k) = {R("base"), B("m2"), B("m1")}
    BY DEF ImmediateWrite, Owes, Transfers
  <2> QED BY <2>1 DEF FirstWrites, DueAfter
<1>10. Fact({"mull"}, {R("hi")})
  <2>1. k \in {"mull"} => ImmediateWrite(k) = {"lo"} /\ Owes(k) = {R("lo"), R("hi")}
    BY DEF ImmediateWrite, Owes, Transfers
  <2> QED BY <2>1 DEF FirstWrites, DueAfter
<1>11. Fact({"mlal"}, {R("lo"), R("hi")})
  <2>1. k \in {"mlal"} => ImmediateWrite(k) = {} /\ Owes(k) = {R("lo"), R("hi")}
    BY DEF ImmediateWrite, Owes, Transfers
  <2> QED BY <2>1 DEF FirstWrites, DueAfter
<1>12. Fact({"swp"}, {R("rd"), B("m1")})
  <2>1. k \in {"swp"} => ImmediateWrite(k) = {} /\ Owes(k) = {R("rd"), B("m1")}
    BY DEF ImmediateWrite, Owes, Transfers
  <2> QED BY <2>1 DEF FirstWrites, DueAfter
<1>13. Fact({"ldc", "stc"}, {R("base")})
  <2>1. k \in {"ldc", "stc"} => ImmediateWrite(k) = {} /\ Owes(k) = {R("base")}
    BY DEF ImmediateWrite, Owes, Transfers
  <2> QED BY <2>1 DEF FirstWrites, DueAfter
<1>14. k \in AllKinds \ {"swi", "undef"} => FirstWrites(k) \subseteq Owes(k)
  BY <1>1, <1>2, <1>3, <1>4, <1>5, <1>6, <1>7, <1>8, <1>9, <1>10, <1>11, <1>12, <1>13
  DEF AllKinds, Single, Jumps, Transfers, Blocks, Shifts, Muls, CpKinds
<1> QED BY <1>1, <1>2, <1>3, <1>4, <1>5, <1>6, <1>7, <1>8, <1>9, <1>10, <1>11, <1>12, <1>13, <1>14

LongKinds == AllKinds \ (Single \cup {"cdp", "swi", "undef"})

LEMMA FirstSubstates ==
    ASSUME NEW k \in AllKinds \ {"swi", "undef"}
    PROVE  /\ FirstSubstate(k) \in States \ {"UNDEF_WAIT", "CP_WAIT"}
           /\ k \in Single \cup {"cdp"} <=> FirstSubstate(k) = "EXEC"
           /\ k \in LongKinds <=> FirstSubstate(k) # "EXEC"
           /\ k \in LongKinds => k \in Served(FirstSubstate(k))
           /\ k \in Transfers => FirstSubstate(k) = "DDATA"
           /\ k \in Blocks => FirstSubstate(k) = "BLOCK_DATA"
           /\ k \in Shifts => FirstSubstate(k) = "DP_SHIFT"
           /\ k = "mlal" => FirstSubstate(k) = "MULL_ACC"
           /\ k \in {"mul", "mull"} => FirstSubstate(k) = "MUL_BUSY"
           /\ k = "swp" => FirstSubstate(k) = "SWP_RDATA"
           /\ k \in {"mcr", "mrc", "ldc", "stc"} =>
                FirstSubstate(k) \in {"CP_MCR_DATA", "CP_MRC_DATA"}
<1>1. k \in Transfers => FirstSubstate(k) = "DDATA"
  BY DEF FirstSubstate, CpData, CpKinds, Blocks, Transfers, Shifts
<1>2. k \in Blocks => FirstSubstate(k) = "BLOCK_DATA"
  BY DEF FirstSubstate, CpData, CpKinds, Blocks, Transfers, Shifts
<1>3. k \in Shifts => FirstSubstate(k) = "DP_SHIFT"
  BY DEF FirstSubstate, CpData, CpKinds, Blocks, Transfers, Shifts
<1>4. /\ k = "mlal" => FirstSubstate(k) = "MULL_ACC"
      /\ k \in {"mul", "mull"} => FirstSubstate(k) = "MUL_BUSY"
      /\ k = "swp" => FirstSubstate(k) = "SWP_RDATA"
  BY DEF FirstSubstate, CpData, CpKinds, Blocks, Transfers, Shifts
<1>5. /\ k \in {"mcr", "stc"} => FirstSubstate(k) = "CP_MCR_DATA"
      /\ k \in {"mrc", "ldc"} => FirstSubstate(k) = "CP_MRC_DATA"
      /\ k = "cdp" => FirstSubstate(k) = "EXEC"
  BY DEF FirstSubstate, CpData, CpKinds, Blocks, Transfers, Shifts
<1>6. k \in Single => FirstSubstate(k) = "EXEC"
  BY DEF FirstSubstate, CpData, CpKinds, Blocks, Transfers, Shifts, Single, Jumps
<1>7. k \in Single \cup {"cdp"} \/ k \in LongKinds
  BY DEF LongKinds
<1>8. k \in LongKinds <=>
        k \in Transfers \/ k \in Blocks \/ k \in Shifts \/ k = "mlal"
          \/ k \in {"mul", "mull"} \/ k = "swp" \/ k \in {"mcr", "stc"}
          \/ k \in {"mrc", "ldc"}
  BY DEF LongKinds, AllKinds, CpKinds, Muls, Single, Jumps, Transfers, Blocks, Shifts
<1>9. k \in LongKinds <=> FirstSubstate(k) # "EXEC"
  BY <1>1, <1>2, <1>3, <1>4, <1>5, <1>6, <1>7, <1>8
<1>10. k \in LongKinds => k \notin Single \cup {"cdp"}
  BY DEF LongKinds
<1>11. FirstSubstate(k) \in States \ {"UNDEF_WAIT", "CP_WAIT"}
  BY <1>1, <1>2, <1>3, <1>4, <1>5, <1>6, <1>7, <1>8 DEF States
<1>12. k \in LongKinds => k \in Served(FirstSubstate(k))
  BY <1>1, <1>2, <1>3, <1>4, <1>5, <1>8 DEF Served, Muls
<1> QED BY <1>1, <1>2, <1>3, <1>4, <1>5, <1>7, <1>9, <1>10, <1>11, <1>12

(* The latches and the debts of an instruction that has just begun.        *)
LEMMA OpenLatches ==
    ASSUME NEW k \in LongKinds, state' = FirstSubstate(k), op'.kind = k,
           op'.mode = psr'.mode, psr' = psr, dabort' = FALSE, owed' = DueAfter(k),
           IF k \in {"mul", "mull"} THEN op'.left # 0 ELSE op'.left = 2
    PROVE  LatchesMatch' /\ AbortsPending' /\ DebtsMatch'
<1>1. k \in AllKinds \ {"swi", "undef"}
  BY DEF LongKinds
<1>2. state' \notin {"EXEC", "UNDEF_WAIT", "CP_WAIT"} /\ op'.kind \in Served(state')
  BY <1>1, FirstSubstates
<1>3. state' = "MUL_BUSY" => k \in {"mul", "mull"}
  BY <1>1 DEF FirstSubstate, CpData, LongKinds, AllKinds, Single, Jumps, Transfers, Blocks,
     Shifts, Muls, CpKinds
<1>4. state' = "BLOCK_DATA" => k \in Blocks
  BY <1>1 DEF FirstSubstate, CpData, LongKinds, AllKinds, Single, Jumps, Transfers, Blocks,
     Shifts, Muls, CpKinds
<1>5. LatchesMatch'
  <2>1. state' = "MUL_BUSY" => op'.left # 0
    BY <1>3
  <2>2. state' = "BLOCK_DATA" => op'.left = 2
    BY <1>4 DEF Blocks
  <2> QED BY <1>2, <2>1, <2>2 DEF LatchesMatch, Waiting
<1>6. AbortsPending'
  BY DEF AbortsPending
<1>7. DebtsMatch'
  <2>1. CASE k \in Transfers
    <3>1. state' = "DDATA"
      BY <1>1, <2>1, FirstSubstates
    <3> QED BY <2>1, <3>1, FirstDebts DEF DebtsMatch, Transfers
  <2>2. CASE k \in Blocks
    <3>1. state' = "BLOCK_DATA" /\ op'.left = 2
      BY <1>1, <2>2, FirstSubstates DEF Blocks
    <3>2. CASE k = "stm"
      <4>1. owed' = {<<"m2", "bus">>, <<"m1", "bus">>}
        BY <3>2, FirstDebts
      <4>2. NoBase' /\ <<"m1", "bus">> \in owed'
        BY <4>1 DEF NoBase
      <4> QED BY <3>1, <3>2, <4>1, <4>2 DEF DebtsMatch
    <3>3. CASE k # "stm"
      <4>1. LastItem' = IF k \in {"ldmpc", "ldmret"} THEN "pc" ELSE "r1"
        BY DEF LastItem
      <4>2. owed' = {<<"base", op'.mode>>, <<"r2", op'.mode>>, <<LastItem', op'.mode>>}
        BY <2>2, <3>3, <4>1, FirstDebts DEF Blocks
      <4> QED BY <3>1, <3>3, <4>2 DEF DebtsMatch
    <3> QED BY <3>2, <3>3
  <2>3. CASE k \in Shifts
    <3>1. state' = "DP_SHIFT"
      BY <1>1, <2>3, FirstSubstates
    <3> QED BY <2>3, <3>1, FirstDebts DEF DebtsMatch, Shifts
  <2>4. CASE k \in Muls
    <3>1. state' = IF k = "mlal" THEN "MULL_ACC" ELSE "MUL_BUSY"
      BY <1>1, <2>4, FirstSubstates DEF Muls
    <3>2. owed' = CASE k = "mul" -> {} [] k = "mull" -> {<<"hi", op'.mode>>}
                    [] OTHER -> {<<"lo", op'.mode>>, <<"hi", op'.mode>>}
      BY <2>4, FirstDebts DEF Muls
    <3> QED BY <2>4, <3>1, <3>2 DEF DebtsMatch, Muls
  <2>5. CASE k = "swp"
    <3>1. state' = "SWP_RDATA"
      BY <1>1, <2>5, FirstSubstates
    <3> QED BY <2>5, <3>1, FirstDebts DEF DebtsMatch
  <2>6. CASE k \in {"mcr", "mrc", "ldc", "stc"}
    <3>1. state' \in {"CP_MCR_DATA", "CP_MRC_DATA"} /\ op'.left = 2
      BY <1>1, <2>6, FirstSubstates
    <3>2. owed' = CASE k = "mcr" -> {} [] k = "mrc" -> {<<"rd", op'.mode>>}
                    [] OTHER -> {<<"base", op'.mode>>}
      BY <2>6, FirstDebts
    <3> QED BY <2>6, <3>1, <3>2 DEF DebtsMatch
  <2> QED BY <2>1, <2>2, <2>3, <2>4, <2>5, <2>6 DEF LongKinds, AllKinds, CpKinds
<1> QED BY <1>5, <1>6, <1>7

(* The edge on which an instruction begins, in Execute or at the end of a  *)
(* coprocessor wait.                                                       *)
LEMMA BeginStep ==
    ASSUME IInv, QuietInterrupts, NEW x, EdgeShape(x),
           NEW irq \in BOOLEAN, NEW fiq \in BOOLEAN, Edge(x, irq, fiq),
           Event(x.nx, x.ab, irq, fiq, x.sync) = "none",
           NEW k \in AllKinds \ {"swi", "undef"}, owed = {},
           (state = "EXEC" /\ de.valid) \/ (state = "CP_WAIT" /\ k \notin Jumps),
           x.nx = FirstSubstate(k), x.ab = FALSE, x.jump <=> k \in Jumps,
           x.did = k, x.owes = Owes(k), Written(x) = FirstWrites(k),
           k \in LongKinds => x.psr = psr,
           op' \in OpType, x.nx = "EXEC" => op' = NoOp,
           x.nx # "EXEC" => op'.kind = k /\ op'.pc = NextPC /\ op'.mode = psr.mode,
           x.nx # "EXEC" => IF k \in {"mul", "mull"} THEN op'.left # 0 ELSE op'.left = 2
    PROVE  IInv' /\ Order!Next
<1>1. /\ state' = FirstSubstate(k) /\ psr' = x.psr /\ psr' \in PsrType
      /\ ~x.jump => psr'.t = psr.t
  BY EdgeAdvance
<1>2. dabort' = FALSE
  <2>1. dabort' = (state # "EXEC" /\ (dabort \/ x.ab))
    BY EdgeRest
  <2>2. state = "CP_WAIT" => dabort = FALSE
    BY StateFacts DEF IInv, AbortsPending
  <2> QED BY <2>1, <2>2
<1>3. /\ owed' = Owes(k) \ FirstWrites(k)
      /\ label' = [what |-> k, to |-> IF x.jump THEN x.to ELSE 0, link |-> 0]
  BY EdgeCommit
<1>4. FirstWrites(k) \subseteq Owes(k) /\ owed' = DueAfter(k)
  BY <1>3, FirstDebts DEF DueAfter
<1>5. k \notin Events
  BY DEF AllKinds, Single, Jumps, Transfers, Blocks, Shifts, Muls, CpKinds, Events
<1>6. IInv'
  <2>1. CASE x.nx = "EXEC"
    <3>1. k \in Single \cup {"cdp"}
      BY <2>1, FirstSubstates, ZenonT(60)
    <3>2. DueAfter(k) = {}
      BY <3>1, FirstDebts DEF Single, Jumps
    <3>3. Written(x) = owed \cup x.owes
      BY <1>4, <3>2 DEF DueAfter
    <3> QED BY <1>5, <2>1, <3>3, EndStep
  <2>2. CASE x.nx # "EXEC"
    <3>1. k \in LongKinds
      BY <2>2, FirstSubstates
    <3>2. LatchesMatch' /\ AbortsPending' /\ DebtsMatch'
      BY <1>1, <1>2, <1>4, <2>2, <3>1, OpenLatches
    <3>3. Written(x) \subseteq owed \cup x.owes
      BY <1>4
    <3> QED BY <1>5, <3>2, <3>3, PlainStep
  <2> QED BY <2>1, <2>2
<1>7. InProgress = Order!Nothing
  BY DEF InProgress, Order!Nothing
<1>8. InProgress' = IF k \in LongKinds THEN [pc |-> NextPC, kind |-> k] ELSE Order!Nothing
  BY <1>1, FirstSubstates DEF InProgress, Order!Nothing
<1>9. NextPC' = IF k \in Jumps THEN x.to ELSE Plus(NextPC, Width(psr.t))
  <2>1. ~Waiting'
    BY <1>1, FirstSubstates DEF Waiting
  <2>2. NextPC' = IF x.jump THEN x.to ELSE After
    BY <2>1, EdgeSlots, NextPCIsFrontPrimed DEF Target
  <2>3. After = Plus(NextPC, Width(psr.t))
    BY DEF After, NextPC, Waiting
  <2> QED BY <2>2, <2>3
<1>10. Order!Execute(k)
  <2>1. x.to \in PC /\ psr'.t \in BOOLEAN
    BY <1>1 DEF EdgeShape, PsrType
  <2>2. CASE k \in Jumps
    BY <1>3, <1>7, <1>8, <1>9, <2>1, <2>2 DEF Order!Execute, Order!PC, PC, LongKinds
  <2>3. CASE k \notin Jumps
    BY <1>1, <1>3, <1>7, <1>8, <1>9, <2>1, <2>3
    DEF Order!Execute, Order!Plus, Plus, Order!Width, Width, LongKinds
  <2> QED BY <2>2, <2>3
<1>11. Order!Next
  BY <1>10 DEF Order!Next
<1> QED BY <1>6, <1>11

LEMMA CoprocessorWaitStep ==
    ASSUME IInv, QuietInterrupts, CoprocessorWait PROVE IInv' /\ Order!Next
<1> DEFINE abandoned(irq, fiq) == (fiq /\ ~psr.f) \/ (irq /\ ~psr.i)
           begins(irq, fiq, ready) == ready /\ ~abandoned(irq, fiq)
           nx(irq, fiq, ready) == IF abandoned(irq, fiq) THEN "EXEC"
                                  ELSE IF ready THEN CpData(op.kind) ELSE "CP_WAIT"
           X(irq, fiq, ready) ==
             [Edge0 EXCEPT !.nx = nx(irq, fiq, ready),
                !.owes = IF begins(irq, fiq, ready) THEN Owes(op.kind) ELSE {},
                !.did = IF begins(irq, fiq, ready) THEN op.kind ELSE "none"]
<1>1. PICK irq \in BOOLEAN, fiq \in BOOLEAN, ready \in BOOLEAN :
        Leaves(nx(irq, fiq, ready)) /\ Edge(X(irq, fiq, ready), irq, fiq)
  BY DEF CoprocessorWait
<1> DEFINE x == X(irq, fiq, ready)
           e == Event(x.nx, x.ab, irq, fiq, x.sync)
           taken == abandoned(irq, fiq)
<1>2. /\ x.nx = nx(irq, fiq, ready) /\ x.ab = FALSE /\ x.sync = "none" /\ x.jump = FALSE
      /\ x.to = 0 /\ x.early = TRUE /\ x.psr = psr /\ x.high = {} /\ x.low = {}
      /\ x.owes = (IF begins(irq, fiq, ready) THEN Owes(op.kind) ELSE {}) /\ x.mem = {}
      /\ x.did = (IF begins(irq, fiq, ready) THEN op.kind ELSE "none") /\ x.fetches = TRUE
  BY DEF Edge0
<1>3. /\ state = "CP_WAIT" /\ op.kind \in CpKinds /\ op.left = 2 /\ op.mode = psr.mode
      /\ op.thumb = psr.t /\ dabort = FALSE /\ owed = {} /\ NextPC = op.pc
      /\ de.pc = Plus(op.pc, Width(psr.t))
  BY StateFacts
  DEF CoprocessorWait, IInv, LatchesMatch, Served, DebtsMatch, AbortsPending, Waiting, NextPC
<1>4. Edge(x, irq, fiq) /\ op' = IF x.nx = "EXEC" THEN NoOp ELSE op
  BY <1>1, <1>2 DEF Leaves
<1>5. op.kind \in AllKinds \ {"swi", "undef"} /\ CpData(op.kind) = FirstSubstate(op.kind)
  BY <1>3 DEF FirstSubstate, AllKinds, CpKinds, Transfers, Blocks, Shifts
<1>6. nx(irq, fiq, ready) \in States
  BY <1>5, FirstSubstates DEF States
<1> HIDE DEF x, X
<1>7. x.nx = "EXEC" => e = IF fiq /\ ~psr.f THEN "fiq" ELSE IF irq /\ ~psr.i THEN "irq" ELSE "none"
  <2>1. x.nx = "EXEC" => e = IF fiq /\ ~psr.f THEN "fiq"
                             ELSE IF irq /\ ~psr.i THEN "irq" ELSE x.sync
    BY <1>2, <1>3, InterruptCases
  <2> QED BY <1>2, <2>1
<1>8. EdgeShape(x)
  BY <1>2, <1>3, <1>6, StateFacts DEF EdgeShape, Idle
<1>9. e # "none" => x.nx = "EXEC"
  BY <1>4, <1>8, EventCases
<1>10. Bus(x.mem) = {} /\ Written(x) = {}
  BY <1>2 DEF Bus, Written
<1>11. CASE taken
  <2>1. x.nx = "EXEC"
    BY <1>2, <1>11
  <2>2. e \in {"fiq", "irq"}
    BY <1>7, <1>11, <2>1
  <2>3. e # "none" /\ (x.nx = "EXEC" => op' = NoOp)
    BY <1>4, <2>1, <2>2
  <2>4. Bus(x.mem) \subseteq owed
    BY <1>10
  <2>5. IF e = "dabt" THEN NoBase ELSE owed \subseteq Bus(x.mem)
    BY <1>3, <2>2
  <2> QED BY <1>4, <1>8, <2>3, <2>4, <2>5, ExceptionStep
<1>12. CASE ~taken /\ ready
  <2>1. e = "none"
    BY <1>7, <1>9, <1>12
  <2>2. x.nx = FirstSubstate(op.kind) /\ x.did = op.kind /\ x.owes = Owes(op.kind)
    BY <1>2, <1>5, <1>12
  <2>3. FirstWrites(op.kind) = {}
    <3>1. ImmediateWrite(op.kind) = {}
      BY <1>3 DEF ImmediateWrite, CpKinds, Transfers
    <3> QED BY <3>1 DEF FirstWrites
  <2>4. op.kind \notin Jumps /\ op.kind \notin {"mul", "mull"}
    BY <1>3 DEF CpKinds, Jumps
  <2>5. op' \in OpType /\ (x.nx = "EXEC" => op' = NoOp) /\ (x.nx # "EXEC" => op' = op)
    BY <1>4, NoOpType, StateFacts
  <2>6. (state = "EXEC" /\ de.valid) \/ (state = "CP_WAIT" /\ op.kind \notin Jumps)
    BY <1>3, <2>4
  <2>7. x.ab = FALSE /\ (x.jump <=> op.kind \in Jumps) /\ x.psr = psr /\ owed = {}
    BY <1>2, <1>3, <2>4
  <2>8. Written(x) = FirstWrites(op.kind)
    BY <1>10, <2>3
  <2>9. x.nx # "EXEC" => op'.kind = op.kind /\ op'.pc = NextPC /\ op'.mode = psr.mode
    BY <1>3, <2>5
  <2>10. x.nx # "EXEC" =>
           IF op.kind \in {"mul", "mull"} THEN op'.left # 0 ELSE op'.left = 2
    BY <1>3, <2>4, <2>5
  <2> QED BY <1>4, <1>5, <1>8, <2>1, <2>2, <2>5, <2>6, <2>7, <2>8, <2>9, <2>10, BeginStep
<1>13. CASE ~taken /\ ~ready
  <2>1. x.nx = "CP_WAIT" /\ e = "none" /\ x.did = "none" /\ x.owes = {} /\ op' = op
    BY <1>2, <1>4, <1>9, <1>13
  <2>2. state' = "CP_WAIT" /\ psr' = psr
    <3>1. state' = x.nx /\ psr' = x.psr
      BY <1>4, <1>8, <2>1, EdgeAdvance
    <3> QED BY <1>2, <2>1, <3>1
  <2>3. de' = de
    BY <1>2, <1>3, <1>4, <1>8, <2>1, EdgeSlots
  <2>4. dabort' = FALSE
    BY <1>2, <1>3, <1>4, <1>8, EdgeRest
  <2>5. owed' = {} /\ label' = [what |-> "none", to |-> 0, link |-> 0]
    BY <1>2, <1>3, <1>4, <1>8, <1>10, <2>1, EdgeCommit
  <2>6. LatchesMatch' /\ AbortsPending' /\ DebtsMatch'
    BY <1>3, <2>1, <2>2, <2>3, <2>4, <2>5, StateFacts
    DEF LatchesMatch, Served, Waiting, AbortsPending, DebtsMatch
  <2>7. Written(x) \subseteq owed \cup x.owes /\ x.did \notin Events
    BY <1>10, <2>1 DEF Events
  <2>8. IInv'
    BY <1>4, <1>8, <2>1, <2>6, <2>7, StateFacts, PlainStep
  <2>9. Order!Internal
    BY <1>3, <2>1, <2>2, <2>5 DEF Order!Internal, Order!Quiet, NextPC, InProgress
  <2>10. Order!Next
    BY <2>9 DEF Order!Next
  <2> QED BY <2>8, <2>10
<1> QED BY <1>11, <1>12, <1>13

LEMMA PsrAfterType ==
    ASSUME IInv, NEW k, NEW p \in PsrAfter(k)
    PROVE  /\ p \in PsrType
           /\ k \notin Jumps => p.t = psr.t
           /\ k \notin {"msr", "jump", "return"} => p = psr
<1>1. psr \in PsrType /\ psr.t \in BOOLEAN
  BY StateFacts DEF PsrType
<1>2. CASE k = "msr"
  <2>1. p \in Psrs
    BY <1>2 DEF PsrAfter
  <2> QED BY <1>1, <1>2, <2>1, EnvironmentAssumption DEF Psrs, PsrType
<1>3. CASE k = "jump"
  <2>1. PICK b \in BOOLEAN : p = [psr EXCEPT !.t = b]
    BY <1>3 DEF PsrAfter
  <2> QED BY <1>1, <1>3, <2>1 DEF PsrType, Jumps
<1>4. CASE k = "return"
  <2>1. p \in Restored
    BY <1>4 DEF PsrAfter
  <2> QED BY <1>4, <2>1, RestoredType DEF Jumps
<1>5. CASE k \notin {"msr", "jump", "return"}
  <2>1. p = psr
    BY <1>5 DEF PsrAfter
  <2> QED BY <1>1, <2>1
<1> QED BY <1>2, <1>3, <1>4, <1>5

LEMMA ExecuteStep ==
    ASSUME IInv, QuietInterrupts, Execute PROVE IInv' /\ Order!Next
<1> DEFINE Undef(k, cp) == k = "undef" \/ cp = "absent"
           Recognised(k, cp, failed, irq, fiq) ==
             /\ Undef(k, cp) /\ ~failed /\ ~InterlockFires
             /\ ~(fiq /\ ~psr.f) /\ ~(irq /\ ~psr.i)
           Nx(k, cp, failed, irq, fiq) ==
             CASE Undef(k, cp) ->
                    IF Recognised(k, cp, failed, irq, fiq) THEN "UNDEF_WAIT" ELSE "EXEC"
               [] ~Undef(k, cp) /\ cp = "busy" -> "CP_WAIT"
               [] OTHER -> FirstSubstate(k)
           Begins(k, cp) == ~Undef(k, cp) /\ cp = "ready"
           X(k, cp, failed, irq, fiq, p, to) ==
             [Edge0 EXCEPT !.nx = Nx(k, cp, failed, irq, fiq),
                !.sync = IF failed THEN "pabt" ELSE IF k = "swi" THEN "swi" ELSE "none",
                !.jump = k \in Jumps, !.to = to, !.psr = p,
                !.low = IF Begins(k, cp) THEN ImmediateWrite(k) ELSE {},
                !.owes = IF Begins(k, cp) THEN Owes(k) ELSE {},
                !.did = IF Begins(k, cp) THEN k ELSE "none"]
<1>1. PICK k \in Kinds, failed \in BOOLEAN, irq \in BOOLEAN, fiq \in BOOLEAN :
      \E cp \in IF k \in CpKinds THEN {"ready", "busy", "absent"} ELSE {"ready"},
         p \in PsrAfter(k) :
      \E to \in IF k \in Jumps THEN Aligned(p.t) ELSE {0},
         n \in IF k \in {"mul", "mull"} THEN 1 .. MaxMul ELSE {2} :
         /\ failed => k \in AbortedKinds
         /\ de.pc = Vector["dabt"] => k \in VectorKinds
         /\ op' = IF Nx(k, cp, failed, irq, fiq) = "EXEC" THEN NoOp
                  ELSE [kind |-> k, pc |-> de.pc, thumb |-> de.thumb, left |-> n,
                        mode |-> psr.mode]
         /\ Edge(X(k, cp, failed, irq, fiq, p, to), irq, fiq)
  BY DEF Execute
<1>2. PICK cp \in IF k \in CpKinds THEN {"ready", "busy", "absent"} ELSE {"ready"},
           p \in PsrAfter(k) :
      \E to \in IF k \in Jumps THEN Aligned(p.t) ELSE {0},
         n \in IF k \in {"mul", "mull"} THEN 1 .. MaxMul ELSE {2} :
         /\ failed => k \in AbortedKinds
         /\ de.pc = Vector["dabt"] => k \in VectorKinds
         /\ op' = IF Nx(k, cp, failed, irq, fiq) = "EXEC" THEN NoOp
                  ELSE [kind |-> k, pc |-> de.pc, thumb |-> de.thumb, left |-> n,
                        mode |-> psr.mode]
         /\ Edge(X(k, cp, failed, irq, fiq, p, to), irq, fiq)
  BY <1>1
<1>3. PICK to \in IF k \in Jumps THEN Aligned(p.t) ELSE {0},
           n \in IF k \in {"mul", "mull"} THEN 1 .. MaxMul ELSE {2} :
         /\ failed => k \in AbortedKinds
         /\ de.pc = Vector["dabt"] => k \in VectorKinds
         /\ op' = IF Nx(k, cp, failed, irq, fiq) = "EXEC" THEN NoOp
                  ELSE [kind |-> k, pc |-> de.pc, thumb |-> de.thumb, left |-> n,
                        mode |-> psr.mode]
         /\ Edge(X(k, cp, failed, irq, fiq, p, to), irq, fiq)
  BY <1>2
<1> DEFINE undef == Undef(k, cp)
           nx == Nx(k, cp, failed, irq, fiq)
           x == X(k, cp, failed, irq, fiq, p, to)
           e == Event(x.nx, x.ab, irq, fiq, x.sync)
<1>4. /\ x.nx = nx /\ x.ab = FALSE
      /\ x.sync = (IF failed THEN "pabt" ELSE IF k = "swi" THEN "swi" ELSE "none")
      /\ x.jump = (k \in Jumps) /\ x.to = to /\ x.early = TRUE /\ x.psr = p /\ x.high = {}
      /\ x.low = (IF Begins(k, cp) THEN ImmediateWrite(k) ELSE {})
      /\ x.owes = (IF Begins(k, cp) THEN Owes(k) ELSE {}) /\ x.mem = {}
      /\ x.did = (IF Begins(k, cp) THEN k ELSE "none") /\ x.fetches = TRUE
  BY DEF Edge0
<1>5. state = "EXEC" /\ de.valid /\ owed = {} /\ de.thumb = psr.t /\ NextPC = de.pc
  BY DEF Execute, IInv, DebtsMatch, SlotsInOrder, NextPC
<1>6. /\ k \in AllKinds /\ to \in PC /\ p \in PsrType
      /\ k \notin Jumps => p.t = psr.t
      /\ k \notin {"msr", "jump", "return"} => p = psr
  BY EnvironmentAssumption, StateFacts, AlignedType, PsrAfterType
<1>7. Edge(x, irq, fiq) /\ (failed => k \in Single \cup {"swi", "undef"})
  BY <1>3 DEF QuietInterrupts
<1>8. op' = IF nx = "EXEC" THEN NoOp
            ELSE [kind |-> k, pc |-> de.pc, thumb |-> de.thumb, left |-> n, mode |-> psr.mode]
  BY <1>3
<1> HIDE DEF x, X
<1>9. /\ undef => k \in CpKinds \cup {"undef"}
      /\ cp = "busy" => k \in CpKinds
      /\ cp \in {"ready", "busy", "absent"}
  BY <1>2
<1>10. /\ ~InterlockFires
       /\ undef => nx = (IF ~failed /\ ~(fiq /\ ~psr.f) /\ ~(irq /\ ~psr.i)
                         THEN "UNDEF_WAIT" ELSE "EXEC")
       /\ ~undef /\ cp = "busy" => nx = "CP_WAIT"
       /\ ~undef /\ cp # "busy" => cp = "ready" /\ nx = FirstSubstate(k)
  <2>1. ~InterlockFires
    BY DEF IInv, InterlockFires
  <2> QED BY <1>9, <2>1
<1>a. /\ undef <=> k = "undef" \/ cp = "absent"
      /\ Begins(k, cp) <=> ~undef /\ cp = "ready"
  OBVIOUS
<1> HIDE DEF nx, undef, Begins
<1>11. FirstSubstate(k) \in States /\ (k \in Single \cup {"swi"} => FirstSubstate(k) = "EXEC")
  <2>1. CASE k \in {"swi", "undef"}
    BY <2>1 DEF FirstSubstate, Transfers, Blocks, Shifts, CpKinds, States, Single, Jumps
  <2>2. CASE k \notin {"swi", "undef"}
    BY <1>6, <2>2, FirstSubstates
  <2> QED BY <2>1, <2>2
<1>12. /\ nx \in States
       /\ failed \/ k = "swi" => nx = "EXEC"
       /\ k \in Jumps => nx = "EXEC"
  <2>1. k \in Single \cup {"swi"} => ~undef /\ cp # "busy"
    BY <1>9 DEF Single, Jumps, CpKinds
  <2>2. nx \in States
    BY <1>9, <1>10, <1>11 DEF States
  <2>3. k \in Single \cup {"swi"} => nx = "EXEC"
    BY <1>10, <1>11, <2>1
  <2>4. k = "undef" /\ failed => nx = "EXEC"
    BY <1>10, <1>a
  <2> QED BY <1>7, <2>2, <2>3, <2>4 DEF Single
<1>13. EdgeShape(x)
  <2>1. x.nx \in States /\ x.to \in PC /\ x.psr \in PsrType
    BY <1>4, <1>6, <1>12
  <2>2. x.ab = FALSE /\ x.early = TRUE /\ x.fetches = TRUE /\ x.high = {}
    BY <1>4
  <2>3. x.jump \in BOOLEAN
    BY <1>4
  <2>5. ~x.jump => x.psr.t = psr.t
    BY <1>4, <1>6
  <2>6. x.jump => x.nx = "EXEC"
    BY <1>4, <1>12
  <2>4. x.sync # "none" => x.nx = "EXEC" /\ x.sync \in {"pabt", "swi"}
    BY <1>4, <1>12
  <2> QED BY <1>5, <2>1, <2>2, <2>3, <2>4, <2>5, <2>6 DEF EdgeShape
<1>14. /\ nx = "EXEC" => e = IF fiq /\ ~psr.f THEN "fiq"
                             ELSE IF irq /\ ~psr.i THEN "irq" ELSE x.sync
       /\ e # "none" => nx = "EXEC"
       /\ e = "none" => x.sync = "none"
       /\ e # "dabt"
  <2>1. /\ e # "none" => x.nx = "EXEC"
        /\ e = "none" => x.sync = "none"
        /\ e = "dabt" <=> (dabort \/ x.ab) /\ x.nx = "EXEC" /\ state # "EXEC"
    BY <1>7, <1>13, EventCases
  <2>2. x.nx = "EXEC" => e = IF fiq /\ ~psr.f THEN "fiq"
                             ELSE IF irq /\ ~psr.i THEN "irq" ELSE x.sync
    BY <1>5, InterruptCases
  <2> QED BY <1>4, <1>5, <2>1, <2>2
<1>15. Bus(x.mem) = {}
  BY <1>4 DEF Bus
<1>16. /\ n \in Nat /\ (k \in {"mul", "mull"} => n # 0)
       /\ k \notin {"mul", "mull"} => n = 2
  BY EnvironmentAssumption
<1>17. /\ op' \in OpType /\ (nx = "EXEC" => op' = NoOp)
       /\ nx # "EXEC" => /\ op'.kind = k /\ op'.pc = de.pc /\ op'.thumb = psr.t
                         /\ op'.mode = psr.mode /\ op'.left = n
  <2>1. de.pc \in PC /\ psr.t \in BOOLEAN /\ psr.mode \in Modes
    BY StateFacts DEF IInv, TypeOK, SlotType, PsrType
  <2> QED BY <1>5, <1>6, <1>8, <1>16, <2>1, NoOpType DEF OpType
<1>18. CASE e # "none"
  BY <1>4, <1>5, <1>7, <1>13, <1>14, <1>15, <1>17, <1>18, ExceptionStep
<1>19. CASE e = "none" /\ (undef \/ cp = "busy")
  <2>1. ~failed /\ k # "swi"
    BY <1>4, <1>14, <1>19
  <2>2. nx \in {"UNDEF_WAIT", "CP_WAIT"} /\ (nx = "CP_WAIT" => k \in CpKinds)
        /\ k \in CpKinds \cup {"undef"}
    BY <1>4, <1>9, <1>10, <1>14, <1>19, <2>1
  <2>3. /\ x.did = "none" /\ x.owes = {} /\ x.low = {} /\ ~x.jump /\ p = psr
        /\ k \notin {"mul", "mull"}
    <3>1. k \notin Jumps /\ k # "msr" /\ k \notin {"mul", "mull"}
      BY <2>2 DEF CpKinds, Jumps
    <3>2. p = psr
      BY <1>6, <3>1 DEF Jumps
    <3>3. ~Begins(k, cp)
      BY <1>19, <1>a
    <3>4. x.did = "none" /\ x.owes = {} /\ x.low = {}
      BY <1>4, <3>3
    <3>5. ~x.jump
      BY <1>4, <3>1
    <3> QED BY <3>1, <3>2, <3>4, <3>5
  <2>4. Written(x) = {}
    BY <1>4, <1>15, <2>3 DEF Written
  <2>5. state' = nx /\ psr' = psr
    <3>1. state' = x.nx /\ psr' = x.psr
      BY <1>7, <1>13, <1>19, EdgeAdvance
    <3> QED BY <1>4, <2>3, <3>1
  <2>6. de'.pc = Plus(de.pc, Width(psr.t))
    BY <1>5, <1>7, <1>13, <1>19, <2>3, EdgeSlots
  <2>7. dabort' = FALSE
    BY <1>5, <1>7, <1>13, EdgeRest
  <2>8. owed' = {} /\ label' = [what |-> "none", to |-> 0, link |-> 0]
    BY <1>5, <1>7, <1>13, <1>19, <2>3, <2>4, EdgeCommit
  <2>9. LatchesMatch'
    BY <1>16, <1>17, <2>2, <2>3, <2>5, <2>6 DEF LatchesMatch, Served, Waiting
  <2>10. AbortsPending' /\ DebtsMatch'
    BY <2>2, <2>5, <2>7, <2>8 DEF AbortsPending, DebtsMatch
  <2>11. Written(x) \subseteq owed \cup x.owes /\ x.did \notin Events
    BY <2>3, <2>4 DEF Events
  <2>12. IInv'
    BY <1>7, <1>13, <1>17, <1>19, <2>9, <2>10, <2>11, PlainStep
  <2>13. Order!Internal
    BY <1>5, <1>17, <2>2, <2>5, <2>8 DEF Order!Internal, Order!Quiet, NextPC, InProgress
  <2>14. Order!Next
    BY <2>13 DEF Order!Next
  <2> QED BY <2>12, <2>14
<1>20. CASE e = "none" /\ ~undef /\ cp # "busy"
  <2>1. k \in AllKinds \ {"swi", "undef"}
    BY <1>4, <1>6, <1>14, <1>20, <1>a
  <2>2. /\ x.nx = FirstSubstate(k) /\ x.did = k /\ x.owes = Owes(k)
        /\ x.low = ImmediateWrite(k)
    BY <1>4, <1>9, <1>10, <1>20, <1>a
  <2>3. Written(x) = FirstWrites(k)
    BY <1>4, <1>5, <1>15, <2>2 DEF Written, FirstWrites
  <2>4. k \in LongKinds => x.psr = psr
    BY <1>4, <1>6 DEF LongKinds, Single, Jumps
  <2>5. x.nx # "EXEC" => op'.kind = k /\ op'.pc = NextPC /\ op'.mode = psr.mode
    BY <1>4, <1>5, <1>17
  <2>6. x.nx # "EXEC" => IF k \in {"mul", "mull"} THEN op'.left # 0 ELSE op'.left = 2
    BY <1>4, <1>16, <1>17
  <2>7. x.ab = FALSE /\ (x.jump <=> k \in Jumps) /\ (x.nx = "EXEC" => op' = NoOp)
    BY <1>4, <1>17
  <2>8. (state = "EXEC" /\ de.valid) \/ (state = "CP_WAIT" /\ k \notin Jumps)
    BY <1>5
  <2>9. Event(x.nx, x.ab, irq, fiq, x.sync) = "none" /\ owed = {}
    BY <1>5, <1>20
  <2>10. op' \in OpType /\ Edge(x, irq, fiq)
    BY <1>7, <1>17
  <2>11. x.nx = FirstSubstate(k) /\ x.did = k /\ x.owes = Owes(k)
    BY <2>2
  <2> QED BY <1>13, <2>1, <2>3, <2>4, <2>5, <2>6, <2>7, <2>8, <2>9, <2>10, <2>11,
             BeginStep, ZenonT(60)
<1> QED BY <1>18, <1>19, <1>20

LEMMA ResumeStep ==
    ASSUME IInv, QuietInterrupts, Resume PROVE IInv' /\ Order!Next
<1>1. /\ state = "EXEC" /\ resume = Front /\ owed = {} /\ resume \in PC
  BY DEF Resume, IInv, TypeOK, DebtsMatch
<1>2. /\ fetch_pc' = resume /\ inflight' = Bubble /\ fd' = Bubble /\ de' = Bubble
      /\ state' = "EXEC" /\ op' = NoOp /\ dabort' = FALSE /\ fiqHeld' = FALSE
      /\ fiqDelay' = 0 /\ label' = Quiet /\ resume' = 0 /\ halted' = FALSE
      /\ psr' = psr /\ owed' = owed /\ stray' = stray
  BY DEF Resume
<1>3. TypeOK'
  <2>1. /\ fetch_pc' \in PC /\ inflight' \in SlotType /\ fd' \in SlotType /\ de' \in SlotType
        /\ op' \in OpType /\ psr' \in PsrType /\ resume' \in PC
    BY <1>1, <1>2, BubbleType, NoOpType, StateFacts
  <2>2. /\ state' \in States /\ dabort' \in BOOLEAN /\ fiqHeld' \in BOOLEAN
        /\ fiqDelay' \in 0 .. 3 /\ halted' \in BOOLEAN
    <3>1. state' \in States
      BY <1>2 DEF States
    <3>2. fiqDelay' \in 0 .. 3
      BY <1>2
    <3>3. dabort' \in BOOLEAN /\ fiqHeld' \in BOOLEAN /\ halted' \in BOOLEAN
      BY <1>2
    <3> QED BY <3>1, <3>2, <3>3
  <2> QED BY <2>1, <2>2 DEF TypeOK, OpType, PsrType
<1>4. SlotsInOrder'
  BY <1>2, BubbleType DEF SlotsInOrder
<1>5. LatchesMatch' /\ AbortsPending' /\ DebtsMatch'
  BY <1>1, <1>2 DEF LatchesMatch, Served, Waiting, NoOp, AbortsPending, DebtsMatch
<1>6. LinkKept' /\ NothingStray'
  BY <1>2 DEF LinkKept, Quiet, Events, IInv, NothingStray
<1>7. Order!Internal
  <2>1. NextPC = resume
    BY <1>1 DEF NextPC, Front
  <2>2. NextPC' = resume
    BY <1>2, BubbleType DEF NextPC
  <2>3. InProgress' = InProgress
    BY <1>1, <1>2 DEF InProgress
  <2> QED BY <1>2, <2>1, <2>2, <2>3 DEF Order!Internal, Order!Quiet, Quiet
<1>8. Order!Next
  BY <1>7 DEF Order!Next
<1> QED BY <1>2, <1>3, <1>4, <1>5, <1>6, <1>8 DEF IInv

LEMMA StepKeeps ==
    ASSUME IInv, QuietInterrupts, Next PROVE IInv' /\ Order!Next
  BY ExecuteStep, RefillStep, DataResponseStep, LoadWritebackStep, BlockBeatStep,
     BlockWritebackStep, SwapStep, MultiplyStep, ShiftCommitStep, CoprocessorWaitStep,
     CoprocessorDataStep, CoprocessorEndStep, UndefinedTrapStep, ResumeStep
  DEF Next

LEMMA InitKeeps == ASSUME Init PROVE IInv /\ Order!Init
<1>1. 0 \in PC /\ Bubble \in SlotType /\ ~Bubble.valid /\ NoOp \in OpType
  BY BubbleType, NoOpType, SizeAssumption DEF PC
<1>2. /\ fetch_pc = 0 /\ inflight = Bubble /\ fd = Bubble /\ de = Bubble
      /\ state = "EXEC" /\ op = NoOp /\ op.kind = "nothing"
      /\ psr = [t |-> FALSE, i |-> TRUE, f |-> TRUE, mode |-> "svc"]
      /\ dabort = FALSE /\ fiqHeld = FALSE /\ fiqDelay = 0 /\ resume = 0 /\ halted = FALSE
      /\ label = Quiet /\ owed = {} /\ stray = FALSE
  BY DEF Init, NoOp
<1>3. TypeOK
  <2>1. psr \in PsrType
    BY <1>2 DEF PsrType, Modes
  <2>2. state \in States
    BY <1>2 DEF States
  <2>3. fiqDelay \in 0 .. 3
    BY <1>2
  <2>4. dabort \in BOOLEAN /\ fiqHeld \in BOOLEAN /\ halted \in BOOLEAN
    BY <1>2
  <2> QED BY <1>1, <1>2, <2>1, <2>2, <2>3, <2>4 DEF TypeOK, OpType, PsrType
<1>4. SlotsInOrder
  BY <1>1, <1>2 DEF SlotsInOrder
<1>5. LatchesMatch /\ AbortsPending /\ DebtsMatch
  BY <1>2 DEF LatchesMatch, Served, Waiting, AbortsPending, DebtsMatch
<1>6. LinkKept /\ NothingStray
  BY <1>2 DEF LinkKept, Quiet, Events, NothingStray
<1>7. IInv
  BY <1>2, <1>3, <1>4, <1>5, <1>6 DEF IInv
<1>8. Order!Init
  BY <1>1, <1>2 DEF Order!Init, Order!Nothing, Order!Quiet, NextPC, InProgress, Quiet
<1> QED BY <1>7, <1>8

LEMMA StutterKeeps ==
    ASSUME IInv, UNCHANGED vars PROVE IInv' /\ UNCHANGED Order!vars
<1>1. /\ UNCHANGED <<fetch_pc, inflight, fd, de, state, op, psr, dabort>>
      /\ UNCHANGED <<fiqHeld, fiqDelay, resume, halted, label, owed, stray>>
  BY DEF vars, pipe, interlock, history
<1>2. TypeOK' /\ SlotsInOrder' /\ ~fiqHeld'
  BY <1>1 DEF IInv, TypeOK, SlotsInOrder
<1>3. LatchesMatch' /\ AbortsPending'
  BY <1>1 DEF IInv, LatchesMatch, AbortsPending, Waiting
<1>4. DebtsMatch'
  BY <1>1 DEF IInv, DebtsMatch, NoBase, LastItem
<1>5. LinkKept' /\ NothingStray' /\ (halted' => state' = "EXEC" /\ resume' = Front')
  BY <1>1 DEF IInv, LinkKept, NothingStray, Front
<1>6. NextPC' = NextPC /\ InProgress' = InProgress
  BY <1>1 DEF NextPC, InProgress
<1> QED BY <1>1, <1>2, <1>3, <1>4, <1>5, <1>6 DEF IInv, Order!vars
-----------------------------------------------------------------------------
(* The results.                                                            *)

(* The inductive invariant: it relates the slots, the substate, the        *)
(* latches of the instruction in progress and what it still has to write.  *)
LEMMA PipelineInvariant == ASSUME QuietInterrupts PROVE Spec => []IInv
<1>1. Init => IInv
  BY InitKeeps
<1>2. IInv /\ [Next]_vars => IInv'
  BY StepKeeps, StutterKeeps
<1> QED BY <1>1, <1>2, PTL DEF Spec

(* Whatever the program, the pipeline registers keep their types, and no   *)
(* FIQ is left held.                                                       *)
THEOREM PipelineTypes == ASSUME QuietInterrupts PROVE Spec => [](TypeOK /\ ~fiqHeld)
<1>1. IInv => TypeOK /\ ~fiqHeld
  BY DEF IInv
<1> QED BY <1>1, PipelineInvariant, PTL

(* Every instruction class is back in S_EXEC only after its last           *)
(* architectural write, and every exception entry writes its link: the one *)
(* write port never drops a write.                                         *)
THEOREM PortLosesNothing == ASSUME QuietInterrupts PROVE Spec => []NothingLost
<1>1. IInv => NothingLost
  BY DEF IInv, NothingLost, DebtsMatch, LinkKept
<1> QED BY <1>1, PipelineInvariant, PTL

(* No write is made that no instruction asked for, in the wrong bank or a  *)
(* second time.                                                            *)
THEOREM PortWritesNothingElse == ASSUME QuietInterrupts PROVE Spec => []NothingStray
<1>1. IInv => NothingStray
  BY DEF IInv
<1> QED BY <1>1, PipelineInvariant, PTL

(* The restart word of a save state is the first instruction that has not  *)
(* executed, and nothing of the ones before it is left to do.              *)
THEOREM RestartIsExact == ASSUME QuietInterrupts PROVE Spec => []ResumeExact
<1>1. IInv => ResumeExact
  BY NextPCIsFront DEF IInv, ResumeExact, Waiting, DebtsMatch
<1> QED BY <1>1, PipelineInvariant, PTL

(* The pipeline implements in-order execution: the slots, the substates,   *)
(* flushes, waits, exceptions and save-state halts are invisible in it.    *)
THEOREM PipelineInOrder == ASSUME QuietInterrupts PROVE Spec => OrderSpec
<1>1. Init => Order!Init
  BY InitKeeps
<1>2. IInv /\ [Next]_vars => [Order!Next]_(Order!vars)
  BY StepKeeps, StutterKeeps
<1> QED BY <1>1, <1>2, PipelineInvariant, PTL DEF Spec, OrderSpec, Order!Spec
===============================================================================
