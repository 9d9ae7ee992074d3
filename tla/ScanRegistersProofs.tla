------------------------ MODULE ScanRegistersProofs ------------------------
(***************************************************************************)
(* WordsLand and ReturnFormula for every set of register lists, when the   *)
(* debugger keeps to its protocol.  The invariant says that the adapter    *)
(* and the engine are where the debugger takes them to be: InStep for the  *)
(* words, PcInStep for the count of the PC.                                *)
(***************************************************************************)
EXTENDS ScanRegisters, WellFoundedInduction, TLAPS

KeepsProtocol ==
    /\ Waits = TRUE /\ ForcesAck = FALSE /\ Abandons = FALSE
    /\ SpeedWithoutW = FALSE /\ ReadsLoadedPc = FALSE /\ DropsBusy = FALSE

Switches ==
    /\ load \in BOOLEAN /\ force_user \in BOOLEAN /\ seen \in BOOLEAN
    /\ halted \in BOOLEAN /\ loaded \in BOOLEAN
    /\ active \in BOOLEAN /\ armed \in BOOLEAN /\ pending \in BOOLEAN /\ speed \in BOOLEAN

Types == Switches /\ advance \in Int /\ count \in Int

Phase == IF owed.nops = 0 THEN "active" ELSE "setup"

InStore ==
    /\ store = Phase /\ block = "idle"
    /\ owed.regs = {store_reg} /\ store_reg # 15 /\ owed.user = FALSE

InBlock ==
    /\ store = "idle" /\ block = Phase
    /\ load = (owed.op = "load") /\ force_user = owed.user
    /\ remaining = owed.regs /\ block_reg = debug_lowest_reg(owed.regs)

InTransfer ==
    /\ halted /\ ~active
    /\ owed = [op |-> owed.op, user |-> owed.user, regs |-> owed.regs, nops |-> owed.nops]
    /\ owed.op \in Transfers /\ owed.user \in BOOLEAN /\ owed.nops \in 0 .. 2
    /\ owed.regs \in SUBSET (0 .. 15) /\ owed.regs # {}
    /\ owed.nops > 0 => left = owed.nops
    /\ owed.op = "str" => InStore
    /\ owed.op # "str" => InBlock
    /\ owed.op = "store" /\ 15 \in owed.regs => ~loaded

InStep ==
    /\ script \in {"free", "transfer", "marked", "staged", "leaving"}
    /\ ~halted => script = "free" /\ ~active
    /\ armed = (script = "marked")
    /\ pending = (script = "staged")
    /\ speed => active
    /\ script # "transfer" => Idle
    /\ script = "transfer" => InTransfer

(* The words counted by the debugger and not yet by the adapter.           *)
Ahead == (IF active THEN IF speed THEN 3 ELSE 1 ELSE 0)
           + (IF script = "transfer" /\ owed.nops > 0 THEN 3 - owed.nops ELSE 0)

PcInStep ==
    /\ halted /\ seen => count = advance + Ahead
    /\ halted /\ ~seen => count = 0 /\ ~active /\ script = "free"
    /\ halted /\ ~loaded => cause # "redirected"

IInv == Types /\ InStep /\ PcInStep /\ WordsLand /\ ReturnFormula
-----------------------------------------------------------------------------
(* The lowest register of a list of one.                                   *)
LEMMA LowestOfOne == \A r : debug_lowest_reg({r}) = r
BY DEF debug_lowest_reg

(* The lowest register of a list is in it, and below the others.           *)
LEMMA LowestIn ==
    ASSUME NEW S \in SUBSET (0 .. 15), S # {}
    PROVE  debug_lowest_reg(S) \in S
<1> DEFINE Less == {p \in Nat \X Nat : p[1] < p[2]}
<1>1. S \subseteq Nat
  OBVIOUS
<1>2. IsWellFoundedOn(Less, Nat)
  BY NatLessThanWellFounded DEF OpToRel
<1>3. PICK r \in S : \A q \in S : ~(<<q, r>> \in Less)
  BY <1>1, <1>2, WFMin
<1>4. ASSUME NEW q \in S PROVE r <= q
  <2>1. <<q, r>> \in Nat \X Nat /\ ~(<<q, r>> \in Less)
    BY <1>1, <1>3
  <2> QED BY <2>1
<1> QED BY <1>4 DEF debug_lowest_reg

(* The parts of a word the steps look at.                                  *)
LEMMA WordShape ==
    ASSUME NEW w \in Words
    PROVE  /\ w.kind \in {"move", "memory"} \cup Transfers
           /\ w.user \in BOOLEAN /\ w.marked \in BOOLEAN
           /\ w.kind = "str" =>
                w.user = FALSE /\ \E r : w.list = {r} /\ r # 15
           /\ w.kind \in Transfers => w.list \in SUBSET (0 .. 15) /\ w.list # {}
<1>1. CASE w \in [kind : {"move", "memory"}, list : {{}}, user : {FALSE}, marked : BOOLEAN]
  BY <1>1 DEF Transfers
<1>2. CASE w \in [kind : {"load", "store"}, list : Lists, user : BOOLEAN, marked : BOOLEAN]
  BY <1>2, ListsAssumption DEF Transfers
<1>3. CASE w \in [kind : {"str"}, list : Singles, user : {FALSE}, marked : BOOLEAN]
  <2>1. PICK r \in (UNION Lists) \ {15} : w.list = {r}
    BY <1>3 DEF Singles
  <2> QED BY <1>3, <2>1, ListsAssumption DEF Transfers
<1> QED BY <1>1, <1>2, <1>3 DEF Words

(* What an edge with a word leaves typed.                                  *)
LEMMA ScannedTyped ==
    ASSUME Types, NEW w \in Words, Scanned(w)
    PROVE  /\ load' \in BOOLEAN /\ force_user' \in BOOLEAN /\ seen' \in BOOLEAN
           /\ halted' \in BOOLEAN
           /\ active' \in BOOLEAN /\ armed' \in BOOLEAN
           /\ pending' \in BOOLEAN /\ speed' \in BOOLEAN
           /\ advance' \in Int
<1>1. PICK retires \in {FALSE, active} :
        /\ Adapter(w) /\ Engine(w, retires)
        /\ advance' = Advanced(TRUE, retires) /\ seen' = halted
        /\ UNCHANGED halted
  BY DEF Scanned
<1>2. load' \in BOOLEAN /\ force_user' \in BOOLEAN
  BY <1>1, WordShape DEF Types, Switches, Adapter, Setup, Fill, Transfer, adapter
<1>3. active' \in BOOLEAN /\ armed' \in BOOLEAN /\ pending' \in BOOLEAN /\ speed' \in BOOLEAN
  BY <1>1, WordShape DEF Types, Switches, Engine, Executes, Stages, Takes
<1>4. advance' \in Int
  BY <1>1 DEF Types, Switches, Advanced
<1> QED BY <1>1, <1>2, <1>3, <1>4 DEF Types, Switches

(* No transfer begins and none is under way: the word is the engine's.     *)
LEMMA EngineWord ==
    ASSUME KeepsProtocol, Types, Idle, NEW w \in Words, Scanned(w), ~starts(w)
    PROVE  /\ UNCHANGED <<adapter, cause, halted>> /\ ~active
           /\ active' = (halted /\ ~pending /\ ~armed)
           /\ armed' = (IF halted /\ ~pending THEN ~armed /\ w.marked ELSE armed)
           /\ pending' = (pending \/ (halted /\ armed /\ w.kind # "move"))
           /\ speed' = speed
           /\ seen' = halted
           /\ advance' = IF halted /\ ~seen THEN 0 ELSE advance
           /\ moved' = Effect(IF ~halted \/ pending THEN "nothing"
                               ELSE IF ~armed THEN "execute"
                               ELSE IF w.kind # "move" THEN "stage" ELSE "nothing")
<1>1. ~active /\ ~consumes(w) /\ ~dbg_reg_we /\ ~completes
  BY DEF KeepsProtocol, Scanned, consumes, Idle, dbg_reg_we, completes
<1>2. /\ Adapter(w) /\ Engine(w, FALSE) /\ moved' = Moved(w)
      /\ advance' = Advanced(TRUE, FALSE) /\ seen' = halted
      /\ UNCHANGED <<halted, cause>>
  BY <1>1 DEF Scanned, dbg_pc_rebase, Types, Switches
<1>3. UNCHANGED adapter
  BY <1>1, <1>2 DEF Adapter, Idle
<1>4. /\ active' = (halted /\ ~pending /\ ~armed)
      /\ armed' = (IF halted /\ ~pending THEN ~armed /\ w.marked ELSE armed)
      /\ pending' = (pending \/ (halted /\ armed /\ w.kind # "move"))
      /\ speed' = speed
  BY <1>1, <1>2, WordShape DEF Engine, Executes, Stages, Takes, Types, Switches
<1>5. advance' = IF halted /\ ~seen THEN 0 ELSE advance
  BY <1>1, <1>2 DEF Advanced, dbg_pc_rebase
<1>6. moved' = Effect(IF ~halted \/ pending THEN "nothing"
                      ELSE IF ~armed THEN "execute"
                      ELSE IF w.kind # "move" THEN "stage" ELSE "nothing")
  BY <1>1, <1>2 DEF Moved, Idle, Executes, Stages, Takes
<1> QED BY <1>1, <1>2, <1>3, <1>4, <1>5, <1>6

(* A word of a transfer keeps the engine where it is.                      *)
LEMMA AdapterWord ==
    ASSUME KeepsProtocol, Types, NEW w \in Words, Scanned(w), consumes(w), ~active
    PROVE  /\ UNCHANGED <<engine, halted>> /\ Adapter(w)
           /\ moved' = Moved(w) /\ advance' = Advanced(TRUE, FALSE) /\ seen' = halted
           /\ cause' = IF dbg_pc_rebase /\ cause = "redirect" THEN "redirected" ELSE cause
<1>1. /\ Adapter(w) /\ Engine(w, FALSE) /\ moved' = Moved(w)
      /\ advance' = Advanced(TRUE, FALSE) /\ seen' = halted /\ UNCHANGED halted
      /\ cause' = IF dbg_pc_rebase /\ cause = "redirect" THEN "redirected" ELSE cause
  BY DEF Scanned, Types, Switches
<1>2. UNCHANGED engine
  BY <1>1 DEF Engine, Executes, Stages, Takes, Types, Switches, engine
<1> QED BY <1>1, <1>2
-----------------------------------------------------------------------------
(* A word for a running core changes nothing.                              *)
LEMMA PollKeeps ==
    ASSUME KeepsProtocol, IInv, NEW w \in Words, Poll(w) PROVE IInv'
<1>1. ~starts(w) /\ Idle
  BY DEF Poll, IInv, InStep, starts, ice_dbg_ack, KeepsProtocol
<1>2. /\ UNCHANGED <<adapter, cause, halted, host>> /\ ~halted
      /\ ~active' /\ armed' = armed /\ pending' = pending /\ speed' = speed
      /\ advance' = advance /\ seen' = FALSE
      /\ moved' = Nothing /\ wanted' = Nothing
  BY <1>1, EngineWord DEF Poll, IInv, InStep, Types, Switches, Nothing
<1>3. Types'
  BY <1>2, ScannedTyped DEF IInv, Types, Switches, host, Poll
<1>4. InStep'
  BY <1>2 DEF IInv, Types, Switches, InStep, Idle, adapter, host
<1>5. PcInStep'
  BY <1>2 DEF PcInStep
<1> QED BY <1>2, <1>3, <1>4, <1>5 DEF IInv, WordsLand, ReturnFormula

(* The next instruction goes to the engine, which has no other.            *)
LEMMA ExecuteKeeps ==
    ASSUME KeepsProtocol, IInv, NEW w \in Words, Execute(w) PROVE IInv'
<1>1. ~starts(w) /\ Idle /\ ~armed /\ ~pending
  BY DEF Execute, IInv, InStep, starts, Transfers
<1>2. /\ UNCHANGED <<adapter, cause, halted, owed, loaded>> /\ halted
      /\ active' /\ armed' = w.marked /\ ~pending' /\ speed' = speed /\ ~active
      /\ advance' = (IF ~seen THEN 0 ELSE advance) /\ seen' = TRUE
      /\ moved' = Effect("execute") /\ wanted' = Effect("execute")
      /\ count' = count + 1 /\ script' = IF w.marked THEN "marked" ELSE "free"
  BY <1>1, EngineWord, WordShape DEF Execute, IInv, InStep, Types, Switches, Counts
<1>3. Types'
  BY <1>2, ScannedTyped DEF IInv, Types, Switches, Execute
<1>5. InStep'
  <2>1. CASE w.marked
    BY <1>1, <1>2, <1>3, <2>1, WordShape DEF IInv, Types, Switches, InStep, Idle, adapter
  <2>2. CASE ~w.marked
    BY <1>1, <1>2, <1>3, <2>2, WordShape DEF IInv, Types, Switches, InStep, Idle, adapter
  <2> QED BY <2>1, <2>2
<1>4. PcInStep'
  BY <1>1, <1>2 DEF IInv, Types, Switches, InStep, PcInStep, Ahead, Execute
<1> QED BY <1>2, <1>3, <1>4, <1>5 DEF IInv, WordsLand, ReturnFormula

(* The word behind a mark is staged, or is the branch that leaves.         *)
LEMMA MarkedKeeps ==
    ASSUME KeepsProtocol, IInv, NEW w \in Words, Marked(w) PROVE IInv'
<1>1. ~starts(w) /\ Idle /\ armed /\ ~pending /\ halted
  BY DEF Marked, IInv, InStep, starts, Transfers, KeepsProtocol
<1>2. /\ UNCHANGED <<adapter, cause, halted, owed, count, loaded>>
      /\ ~active' /\ ~armed' /\ speed' = speed /\ ~active
      /\ pending' = (w.kind # "move")
      /\ advance' = (IF ~seen THEN 0 ELSE advance) /\ seen' = TRUE
      /\ moved' = (IF w.kind # "move" THEN Effect("stage") ELSE Nothing)
      /\ wanted' = moved'
      /\ script' = IF w.kind # "move" THEN "staged" ELSE "leaving"
  BY <1>1, EngineWord, WordShape DEF Marked, IInv, InStep, Types, Switches, KeepsProtocol, Nothing, Transfers
<1>3. Types'
  BY <1>2, ScannedTyped DEF IInv, Types, Switches, Marked
<1>4. InStep'
  <2>1. CASE w.kind = "move"
    BY <1>1, <1>2, <1>3, <2>1 DEF IInv, Types, Switches, InStep, Idle, adapter
  <2>2. CASE w.kind # "move"
    BY <1>1, <1>2, <1>3, <2>2 DEF IInv, Types, Switches, InStep, Idle, adapter
  <2> QED BY <2>1, <2>2
<1>5. PcInStep'
  BY <1>1, <1>2 DEF IInv, Types, Switches, InStep, PcInStep, Ahead
<1> QED BY <1>2, <1>3, <1>4, <1>5 DEF IInv, WordsLand, ReturnFormula

(* A transfer starts in the adapter with the list the debugger owes.       *)
LEMMA BeginKeeps ==
    ASSUME KeepsProtocol, IInv, NEW w \in Words, Begin(w) PROVE IInv'
<1>1. /\ halted /\ ~active /\ ~armed /\ ~pending /\ ~speed /\ Idle /\ Scanned(w)
      /\ starts(w) /\ consumes(w) /\ ~completes /\ ~dbg_reg_we
  BY DEF Begin, IInv, InStep, Types, Switches, Scanned, KeepsProtocol, starts, consumes, completes,
         ice_dbg_ack, Idle, dbg_reg_we
<1>2. /\ UNCHANGED <<engine, halted, cause, loaded>> /\ Setup(w)
      /\ advance' = (IF ~seen THEN 0 ELSE advance) /\ seen' = TRUE
      /\ moved' = Nothing /\ wanted' = Nothing
      /\ count' = count + 1 /\ script' = "transfer"
      /\ owed' = [op |-> w.kind, user |-> w.user, regs |-> w.list, nops |-> 2]
  <2>1. /\ UNCHANGED <<engine, halted>> /\ Adapter(w) /\ moved' = Moved(w)
        /\ advance' = Advanced(TRUE, FALSE) /\ seen' = TRUE /\ UNCHANGED cause
    BY <1>1, AdapterWord DEF IInv, Types, Switches, dbg_pc_rebase
  <2>2. Setup(w)
    BY <1>1, <2>1 DEF Adapter, Idle
  <2>3. advance' = (IF ~seen THEN 0 ELSE advance)
    BY <1>1, <2>1 DEF Advanced, dbg_pc_rebase
  <2>4. moved' = Nothing
    BY <1>1, <2>1 DEF Moved, Idle, Stages, Executes, Takes, Nothing
  <2> QED BY <2>1, <2>2, <2>3, <2>4 DEF Begin, Counts
<1>3. Types'
  BY <1>1, <1>2, ScannedTyped DEF IInv, Types, Switches, Begin
<1>7. /\ owed'.op = w.kind /\ owed'.user = w.user /\ owed'.regs = w.list /\ owed'.nops = 2
      /\ active' = FALSE /\ speed' = FALSE /\ armed' = FALSE /\ pending' = FALSE /\ halted'
      /\ w.list \in SUBSET (0 .. 15) /\ w.list # {}
      /\ w.kind \in Transfers /\ w.user \in BOOLEAN /\ loaded' = loaded /\ script = "free"
  <2>1. owed'.op = w.kind /\ owed'.user = w.user /\ owed'.regs = w.list /\ owed'.nops = 2
    BY <1>2
  <2>2. active' = FALSE /\ speed' = FALSE /\ armed' = FALSE /\ pending' = FALSE /\ halted'
    BY <1>1, <1>2 DEF engine, IInv, Types, Switches
  <2> QED BY <1>2, <2>1, <2>2, WordShape DEF Begin
<1>4. InTransfer'
  <2>1. CASE w.kind = "str"
    <3>1. PICK r : w.list = {r} /\ r # 15 /\ w.user = FALSE
      BY <2>1, WordShape
    <3>2. store' = "setup" /\ block' = "idle" /\ left' = 2 /\ store_reg' = r
      BY <1>1, <1>2, <2>1, <3>1, LowestOfOne DEF Setup, Idle
    <3> QED BY <1>2, <1>7, <2>1, <3>1, <3>2 DEF InTransfer, InStore, Phase
  <2>2. CASE w.kind # "str"
    <3>1. /\ block' = "setup" /\ store' = "idle" /\ left' = 2 /\ load' = (w.kind = "load")
          /\ force_user' = w.user /\ remaining' = w.list
          /\ block_reg' = debug_lowest_reg(w.list)
      BY <1>1, <1>2, <2>2 DEF Setup, Idle
    <3>2. w.kind = "store" /\ 15 \in w.list => ~loaded
      BY DEF Begin, KeepsProtocol
    <3> QED BY <1>2, <1>7, <2>2, <3>1, <3>2 DEF InTransfer, InBlock, Phase
  <2> QED BY <2>1, <2>2
<1>5. InStep'
  BY <1>2, <1>4, <1>7 DEF InStep
<1>6. PcInStep'
  <2>1. count = IF ~seen THEN 0 ELSE advance
    BY <1>1, <1>7 DEF IInv, Types, Switches, PcInStep, Ahead
  <2>2. Ahead' = 1
    BY <1>2, <1>7 DEF Ahead
  <2> QED BY <1>1, <1>2, <1>7, <2>1, <2>2 DEF IInv, Types, Switches, PcInStep
<1> QED BY <1>2, <1>3, <1>5, <1>6 DEF IInv, WordsLand, ReturnFormula

(* A word while a transfer is under way.                                   *)
LEMMA TransferWord ==
    ASSUME KeepsProtocol, IInv, NEW w \in Words, Scanned(w), script = "transfer"
    PROVE  /\ InTransfer /\ ~starts(w) /\ Adapter(w) /\ moved' = Moved(w)
           /\ active = FALSE /\ speed = FALSE /\ armed = FALSE /\ pending = FALSE
           /\ UNCHANGED <<engine, halted>> /\ seen /\ seen' = halted
           /\ advance' = (IF dbg_pc_rebase THEN 0
                           ELSE IF completes THEN advance + 3 ELSE advance)
           /\ cause' = IF dbg_pc_rebase /\ cause = "redirect" THEN "redirected" ELSE cause
<1>1. /\ InTransfer /\ active = FALSE /\ speed = FALSE /\ armed = FALSE /\ pending = FALSE
      /\ seen /\ halted
  BY DEF IInv, InStep, PcInStep, InTransfer, Types, Switches
<1>2. ~Idle
  BY <1>1 DEF InTransfer, InStore, InBlock, Phase, Idle
<1>3. ~starts(w) /\ consumes(w)
  BY <1>2 DEF starts, consumes
<1>4. /\ UNCHANGED <<engine, halted>> /\ Adapter(w)
      /\ moved' = Moved(w) /\ advance' = Advanced(TRUE, FALSE) /\ seen' = halted
      /\ cause' = IF dbg_pc_rebase /\ cause = "redirect" THEN "redirected" ELSE cause
  <2>1. Types /\ ~active
    BY <1>1 DEF IInv
  <2> QED BY <1>3, <2>1, AdapterWord
<1> QED BY <1>1, <1>3, <1>4 DEF Advanced

(* Adapter and debugger count the same pipeline NOPs.                      *)
LEMMA NopKeeps ==
    ASSUME KeepsProtocol, IInv, NEW w \in Words, Nop(w) PROVE IInv'
<1>1. /\ Scanned(w) /\ script = "transfer" /\ halted /\ owed.nops \in 1 .. 2
      /\ left = owed.nops /\ Phase = "setup"
  BY DEF Nop, IInv, InStep, InTransfer, Phase
<1>2. /\ ~dbg_reg_we /\ ~dbg_pc_rebase /\ (completes <=> owed.nops = 1)
      /\ block # "active" /\ store # "active"
  BY <1>1, TransferWord DEF dbg_reg_we, dbg_pc_rebase, completes, InTransfer, InStore, InBlock
<1>3. /\ owed'.op = owed.op /\ owed'.user = owed.user /\ owed'.regs = owed.regs
      /\ owed'.nops = owed.nops - 1
      /\ owed' = [op |-> owed'.op, user |-> owed'.user, regs |-> owed'.regs, nops |-> owed'.nops]
  BY <1>1, TransferWord DEF Nop, InTransfer
<1>4. /\ Fill /\ UNCHANGED <<engine, halted, cause, script, loaded>> /\ seen /\ seen' = TRUE
      /\ active = FALSE /\ speed = FALSE /\ armed = FALSE /\ pending = FALSE
      /\ advance' = (IF owed.nops = 1 THEN advance + 3 ELSE advance)
      /\ moved' = Nothing /\ wanted' = Nothing /\ count' = count + 1
  <2>1. Fill
    BY <1>1, <1>2, TransferWord DEF Adapter, consumes, Idle, InTransfer, InStore, InBlock
  <2>2. moved' = Nothing
    BY <1>1, <1>2, TransferWord
       DEF Moved, Stages, Executes, Takes, consumes, Idle, InTransfer, InStore, InBlock, Nothing
  <2> QED BY <1>1, <1>2, <2>1, <2>2, TransferWord DEF Nop, Counts
<1>5. Types'
  BY <1>1, <1>4, ScannedTyped DEF IInv, Types, Switches
<1>6. InTransfer'
  <2>1. InTransfer
    BY <1>1, TransferWord
  <2>2. left' = owed'.nops
    BY <1>1, <1>3, <1>4 DEF Fill
  <2>5. Phase' = IF completes THEN "active" ELSE "setup"
    <3>1. CASE owed.nops = 1
      <4>1. completes /\ owed'.nops = 0
        BY <1>2, <1>3, <3>1
      <4> QED BY <4>1 DEF Phase
    <3>2. CASE owed.nops = 2
      <4>1. ~completes /\ owed'.nops = 1
        BY <1>2, <1>3, <3>2
      <4> QED BY <4>1 DEF Phase
    <3> QED BY <1>1, <3>1, <3>2
  <2>6. UNCHANGED <<load, force_user, remaining, block_reg, store_reg>>
    BY <1>4 DEF Fill
  <2>3. CASE owed.op = "str"
    <3>2. InStore
      BY <2>1, <2>3 DEF InTransfer
    <3>3. store' = Phase' /\ block' = "idle"
      BY <1>1, <1>4, <2>5, <3>2 DEF InStore, Fill
    <3>1. InStore'
      BY <1>3, <2>6, <3>2, <3>3 DEF InStore
    <3> QED BY <1>1, <1>3, <1>4, <2>1, <2>2, <2>3, <3>1 DEF InTransfer, engine
  <2>4. CASE owed.op # "str"
    <3>2. InBlock
      BY <2>1, <2>4 DEF InTransfer
    <3>3. block' = Phase' /\ store' = "idle"
      BY <1>1, <1>4, <2>5, <3>2 DEF InBlock, Fill
    <3>1. InBlock'
      BY <1>3, <2>6, <3>2, <3>3 DEF InBlock
    <3> QED BY <1>1, <1>3, <1>4, <2>1, <2>2, <2>4, <3>1 DEF InTransfer, engine
  <2> QED BY <2>3, <2>4
<1>7. InStep'
  BY <1>1, <1>4, <1>6 DEF IInv, InStep, engine
<1>8. PcInStep'
  <2>1. Ahead = 3 - owed.nops /\ Ahead' = IF owed.nops = 1 THEN 0 ELSE 3 - (owed.nops - 1)
    BY <1>1, <1>3, <1>4 DEF Ahead, engine
  <2>2. count = advance + Ahead
    BY <1>1, <1>4 DEF IInv, PcInStep
  <2> QED BY <1>1, <1>4, <2>1, <2>2 DEF IInv, Types, Switches, PcInStep
<1> QED BY <1>4, <1>5, <1>7, <1>8 DEF IInv, WordsLand, ReturnFormula

(* A data word meets the register the debugger has next.                   *)
LEMMA DataKeeps ==
    ASSUME KeepsProtocol, IInv, NEW w \in Words, Data(w) PROVE IInv'
<1> DEFINE r == debug_lowest_reg(owed.regs)
           rest == owed.regs \ {r}
<1>1. /\ Scanned(w) /\ script = "transfer" /\ halted /\ owed.nops = 0 /\ Phase = "active"
      /\ InTransfer
  BY DEF Data, IInv, InStep, Phase
<1>2. /\ UNCHANGED <<engine, halted>> /\ seen /\ seen' = TRUE
      /\ active = FALSE /\ speed = FALSE /\ armed = FALSE /\ pending = FALSE
      /\ moved' = Moved(w) /\ ~completes
      /\ advance' = (IF dbg_pc_rebase THEN 0 ELSE advance)
      /\ cause' = IF dbg_pc_rebase /\ cause = "redirect" THEN "redirected" ELSE cause
  BY <1>1, TransferWord DEF InTransfer, InStore, InBlock, completes
<1>3. Transfer
  BY <1>1, TransferWord DEF Adapter, consumes, Idle, InTransfer, InStore, InBlock
<1>4. count = advance
  BY <1>1, <1>2 DEF IInv, PcInStep, Ahead, Types, Switches
<1>5. /\ dbg_reg_addr = r /\ dbg_reg_force_user = owed.user
      /\ dbg_reg_we = (owed.op = "load")
      /\ dbg_pc_rebase = (owed.op = "load" /\ r = 15)
      /\ dbg_block_capture_data = IF owed.op = "store" /\ r = 15
                                  THEN <<dbg_entry_r15, advance + Bias>> ELSE <<>>
  <2>1. CASE owed.op = "str"
    <3>1. InStore /\ r = store_reg
      BY <1>1, <2>1, LowestOfOne DEF InTransfer, InStore
    <3> QED BY <1>1, <2>1, <3>1 DEF InStore, dbg_reg_addr, dbg_reg_force_user, dbg_reg_we,
               dbg_pc_rebase, dbg_block_capture_data
  <2>2. CASE owed.op # "str"
    <3>1. InBlock /\ owed.op \in {"load", "store"} /\ owed.user \in BOOLEAN
      BY <1>1, <2>2 DEF InTransfer, Transfers
    <3> QED BY <1>1, <2>2, <3>1 DEF InBlock, dbg_reg_addr, dbg_reg_force_user, dbg_reg_we,
               dbg_pc_rebase, dbg_block_capture_data
  <2> QED BY <2>1, <2>2
<1>6. /\ moved' = [kind |-> IF owed.op = "load" THEN "write" ELSE "read", reg |-> r,
                   user |-> owed.user, r15 |-> dbg_block_capture_data]
      /\ moved' = wanted'
  <2>1. moved' = [kind |-> IF owed.op = "load" THEN "write" ELSE "read", reg |-> r,
                  user |-> owed.user, r15 |-> dbg_block_capture_data]
    BY <1>1, <1>2, <1>5 DEF Moved, InTransfer, InStore, InBlock
  <2>2. wanted' = [kind |-> IF owed.op = "load" THEN "write" ELSE "read", reg |-> r,
                   user |-> owed.user,
                   r15 |-> IF owed.op = "store" /\ r = 15
                           THEN <<IF loaded THEN "loaded" ELSE "entry", count + Bias>>
                           ELSE <<>>]
    BY DEF Data
  <2>3. owed.op = "store" /\ r = 15 => ~loaded /\ dbg_entry_r15 = "entry"
    BY <1>1, LowestIn DEF InTransfer, IInv, PcInStep, dbg_entry_r15
  <2> QED BY <1>4, <1>5, <2>1, <2>2, <2>3
<1>7. Types'
  BY <1>1, <1>2, ScannedTyped DEF IInv, Types, Switches, Data
<1>8. /\ script' = (IF rest = {} THEN "free" ELSE "transfer")
      /\ rest # {} => /\ owed' = [op |-> owed.op, user |-> owed.user, regs |-> rest, nops |-> 0]
                      /\ owed'.op = owed.op /\ owed'.user = owed.user
                      /\ owed'.regs = rest /\ owed'.nops = 0
  <2>1. /\ script' = (IF rest = {} THEN "free" ELSE "transfer")
        /\ rest # {} => owed' = [owed EXCEPT !.regs = rest]
    BY DEF Data
  <2> QED BY <1>1, <2>1 DEF InTransfer
<1>9. rest = {} => Idle'
  <2>1. CASE owed.op = "str"
    BY <1>1, <1>3, <2>1 DEF InTransfer, InStore, Transfer, Idle
  <2>2. CASE owed.op # "str"
    BY <1>1, <1>3, <2>2 DEF InTransfer, InBlock, Transfer, Idle
  <2> QED BY <2>1, <2>2
<1>10. ASSUME rest # {} PROVE InTransfer'
  <2>1. owed.op # "str"
    BY <1>1, <1>10, LowestOfOne DEF InTransfer, InStore
  <2>2. InBlock
    BY <1>1, <2>1 DEF InTransfer
  <2>3. /\ remaining' = rest /\ block' = "active" /\ store' = "idle"
        /\ block_reg' = debug_lowest_reg(rest) /\ UNCHANGED <<load, force_user>>
    BY <1>1, <1>3, <1>10, <2>2 DEF InBlock, Transfer
  <2>4. InBlock'
    BY <1>8, <1>10, <2>2, <2>3 DEF InBlock, Phase
  <2>5. owed.op = "store" /\ 15 \in rest => ~loaded'
    BY <1>1 DEF Data, InTransfer
  <2> QED BY <1>1, <1>2, <1>8, <1>10, <2>1, <2>4, <2>5 DEF InTransfer, engine
<1>11. InStep'
  BY <1>1, <1>2, <1>8, <1>9, <1>10 DEF IInv, InStep, engine
<1>12. PcInStep'
  <2>1. Ahead' = 0
    BY <1>1, <1>2, <1>8 DEF Ahead, engine
  <2>2. count' = IF dbg_pc_rebase THEN 0 ELSE count
    BY <1>5 DEF Data
  <2>3. ~loaded' => cause' # "redirected"
    BY <1>1, <1>2, <1>5 DEF Data, IInv, PcInStep
  <2> QED BY <1>1, <1>2, <1>4, <2>1, <2>2, <2>3 DEF PcInStep, IInv, Types, Switches
<1> QED BY <1>6, <1>7, <1>11, <1>12 DEF IInv, WordsLand, ReturnFormula
-----------------------------------------------------------------------------
(* RESTART finds the adapter idle.                                         *)
LEMMA RestartKeeps == ASSUME KeepsProtocol, IInv, Restart PROVE IInv'
<1>1. /\ halted /\ active = FALSE /\ speed = FALSE /\ script # "transfer" /\ Idle
      /\ armed = FALSE
  BY DEF Restart, KeepsProtocol, IInv, InStep, Types, Switches
<1>2. /\ UNCHANGED <<adapter, cause, loaded>> /\ script' = "free"
      /\ moved' = Nothing /\ wanted' = Nothing /\ seen' = TRUE
      /\ advance' = (IF ~seen THEN 0 ELSE advance) /\ owed' = NoTransfer
  BY <1>1 DEF Restart, Advanced
<1>3. Idle'
  BY <1>1, <1>2 DEF Idle, adapter
<1>4. CASE pending
  <2>1. /\ active' = TRUE /\ speed' = TRUE /\ pending' = FALSE /\ armed' = FALSE /\ halted'
        /\ count' = count + 3 /\ script = "staged" /\ UNCHANGED halted
    BY <1>1, <1>4 DEF Restart, IInv, InStep, Counts
  <2>2. Switches'
    BY <1>2, <2>1 DEF IInv, Types, Switches, adapter
  <2>4. Types'
    BY <1>2, <2>1, <2>2 DEF IInv, Types
  <2>5. InStep'
    BY <1>2, <1>3, <2>1 DEF InStep
  <2>3. PcInStep'
    BY <1>1, <1>2, <2>1 DEF IInv, Types, Switches, PcInStep, Ahead
  <2> QED BY <1>2, <2>3, <2>4, <2>5 DEF IInv, WordsLand, ReturnFormula
<1>5. CASE ~pending
  <2>1. /\ active' = FALSE /\ speed' = FALSE /\ pending' = FALSE /\ armed' = FALSE
        /\ halted' = FALSE /\ count' = count
    BY <1>1, <1>5 DEF Restart, IInv, InStep, Types, Switches
  <2>2. Switches'
    BY <1>2, <2>1 DEF IInv, Types, Switches, adapter
  <2>4. Types'
    BY <1>2, <2>1, <2>2 DEF IInv, Types
  <2>5. InStep'
    BY <1>2, <1>3, <2>1 DEF InStep
  <2> QED BY <1>2, <2>1, <2>4, <2>5 DEF IInv, PcInStep, WordsLand, ReturnFormula
<1> QED BY <1>4, <1>5

(* What retires is counted on both sides.                                  *)
LEMMA RetireKeeps == ASSUME KeepsProtocol, IInv, Retire PROVE IInv'
<1>1. /\ active = TRUE /\ halted /\ seen /\ script # "transfer"
  BY DEF Retire, IInv, Types, Switches, InStep, PcInStep, InTransfer
<1>2. /\ UNCHANGED <<adapter, halted, cause, armed, pending, host>>
      /\ active' = FALSE /\ speed' = FALSE /\ moved' = Nothing /\ wanted' = Nothing
      /\ advance' = advance + (IF speed THEN 3 ELSE 1) /\ seen' = TRUE
  BY <1>1 DEF Retire, Advanced
<1>6. Switches'
  BY <1>2 DEF IInv, Types, Switches, adapter, host
<1>3. Types'
  BY <1>2, <1>6 DEF IInv, Types, host
<1>4. InStep'
  BY <1>1, <1>2 DEF IInv, InStep, Idle, adapter, host
<1>5. PcInStep'
  BY <1>1, <1>2 DEF IInv, Types, Switches, PcInStep, Ahead, host
<1> QED BY <1>2, <1>3, <1>4, <1>5 DEF IInv, WordsLand, ReturnFormula

(* A session begins with nothing left of the one before.                   *)
LEMMA HaltKeeps == ASSUME KeepsProtocol, IInv, Halt PROVE IInv'
<1>1. /\ UNCHANGED <<adapter, engine, script, owed>> /\ halted' = TRUE
      /\ active = FALSE /\ script = "free" /\ seen' = FALSE /\ advance' = advance
      /\ count' = 0 /\ loaded' = FALSE /\ cause' \in Causes
      /\ moved' = Nothing /\ wanted' = Nothing
  BY DEF Halt, IInv, InStep, Types, Switches, Advanced
<1>5. Switches'
  BY <1>1 DEF IInv, Types, Switches, adapter, engine
<1>2. Types'
  BY <1>1, <1>5 DEF IInv, Types
<1>3. InStep'
  BY <1>1 DEF IInv, InStep, Idle, adapter, engine
<1>4. PcInStep'
  BY <1>1 DEF PcInStep, Causes, engine
<1> QED BY <1>1, <1>2, <1>3, <1>4 DEF IInv, WordsLand, ReturnFormula

(* DBGEN low and DBGnTRST leave no transfer and no session.                *)
LEMMA LeavesKeeps == ASSUME KeepsProtocol, IInv, Disabled \/ TapReset PROVE IInv'
<1>1. /\ Cleared /\ advance' = 0 /\ seen' \in BOOLEAN /\ halted' = FALSE
      /\ active' = FALSE /\ armed' = FALSE /\ pending' = FALSE /\ speed' = FALSE
      /\ script' = "free" /\ count' = 0 /\ loaded' = FALSE
      /\ moved' = Nothing /\ wanted' = Nothing
  BY DEF Disabled, TapReset, KeepsProtocol, IInv, InStep, Types, Switches, engine
<1>2. Switches'
  BY <1>1 DEF Switches, Cleared
<1>3. Types' /\ PcInStep'
  BY <1>1, <1>2 DEF Types, PcInStep
<1>4. InStep'
  BY <1>1 DEF InStep, Idle, Cleared
<1> QED BY <1>1, <1>3, <1>4 DEF IInv, WordsLand, ReturnFormula

(* Every step keeps the invariant.                                         *)
LEMMA InvariantStep == ASSUME KeepsProtocol, IInv, [Next]_vars PROVE IInv'
<1>1. ASSUME NEW w \in Words, Scan(w) PROVE IInv'
  BY <1>1, PollKeeps, ExecuteKeeps, BeginKeeps, NopKeeps, DataKeeps, MarkedKeeps DEF Scan
<1>2. ASSUME UNCHANGED vars PROVE IInv'
  BY <1>2 DEF vars, adapter, engine, host, IInv, Types, Switches, InStep, PcInStep, WordsLand,
     ReturnFormula, Idle, InTransfer, InStore, InBlock, Phase, Ahead
<1> QED BY <1>1, <1>2, RestartKeeps, RetireKeeps, HaltKeeps, LeavesKeeps DEF Next

(* The invariant holds in every state.                                     *)
LEMMA ScanInvariant == ASSUME KeepsProtocol PROVE Spec => []IInv
<1>1. Init => IInv
  <2> SUFFICES ASSUME Init PROVE IInv
    OBVIOUS
  <2>1. Switches
    BY DEF Init, Switches
  <2>2. Types /\ PcInStep /\ WordsLand /\ ReturnFormula
    BY <2>1 DEF Init, Types, PcInStep, WordsLand, ReturnFormula
  <2>3. InStep
    BY DEF Init, InStep, Idle
  <2> QED BY <2>2, <2>3 DEF IInv
<1>2. IInv /\ [Next]_vars => IInv'
  BY InvariantStep
<1> QED BY <1>1, <1>2, PTL DEF Spec

(* For all register lists, every word a debugger scans by its protocol has *)
(* the effect it was scanned for, and no other.                            *)
THEOREM ScannedWordsLand == ASSUME KeepsProtocol PROVE Spec => []WordsLand
<1>1. IInv => WordsLand
  BY DEF IInv
<1> QED BY <1>1, ScanInvariant, PTL

(* And a scanned r15 obeys the return formula, whatever the entry and the  *)
(* number of instructions.                                                 *)
THEOREM ScannedReturnFormula == ASSUME KeepsProtocol PROVE Spec => []ReturnFormula
<1>1. IInv => ReturnFormula
  BY DEF IInv
<1> QED BY <1>1, ScanInvariant, PTL
=============================================================================
