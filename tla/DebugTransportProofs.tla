------------------------ MODULE DebugTransportProofs ------------------------
(***************************************************************************)
(* The debugger's way in.                                                  *)
(*                                                                         *)
(* The TAP behind the step port is a scan path, for every width, code and  *)
(* set of kept bits: the cells on the way from TDI to TDO are a queue      *)
(* while a scan is open, an update reaches the selected register only,     *)
(* and each step has one answer.                                           *)
(*                                                                         *)
(* Both directions of the Debug Communications Channel are mailboxes, for  *)
(* every number of words, provided no exception and no halt falls on a c1  *)
(* transfer in Execute (the two runs that allow them are violations).      *)
(***************************************************************************)
EXTENDS DebugTap, DebugComms, SequenceTheorems, TLAPS

(* ------------------------------ Scan path ------------------------------ *)

LEMMA Widths ==
    /\ AddrBits \in Nat \ {0} /\ DataBits \in Nat \ {0} /\ IrBits \in Nat \ {0}
    /\ ScanBits \in Nat /\ ScanBits >= 2 /\ ScanBits <= SCAN_CHAIN2_WIDTH
    /\ SCAN_CHAIN2_WIDTH \in Nat /\ SCAN_CHAIN2_WIDTH = 1 + AddrBits + DataBits
BY WidthAssumption DEF SCAN_CHAIN2_WIDTH

(* A short vector is padded, a long one cut.                               *)
LEMMA Padded ==
    ASSUME NEW n \in Nat, NEW v \in Vector(n)
    PROVE  Wide(v) \in Vector(SCAN_CHAIN2_WIDTH)
BY Widths DEF Wide, Vector, Bit

LEMMA NextStateTyped ==
    \A s \in TapStates, tms \in BOOLEAN : next_state(s, tms) \in TapStates
BY DEF next_state, TapStates, Columns

LEMMA InstructionTyped ==
    ASSUME TypeOK, NEW tms \in BOOLEAN, NEW tdi \in Bit
    PROVE  Instruction(tms) \in Vector(IrBits) /\ ShiftIR(tdi) \in Vector(IrBits)
<1>1. Instruction(tms) \in Vector(IrBits)
  BY CodeAssumption DEF TypeOK, Instruction
<1>2. ShiftIR(tdi) \in Vector(IrBits)
  BY Widths, SMTT(30) DEF TypeOK, ShiftIR, Vector, One, Bit
<1> QED BY <1>1, <1>2

LEMMA ShiftTyped ==
    ASSUME TypeOK, NEW tdi \in Bit
    PROVE  ShiftDR(tdi) \in Vector(SCAN_CHAIN2_WIDTH)
<1>1. dr_shift_q \in [0 .. SCAN_CHAIN2_WIDTH - 1 -> Bit]
  BY DEF TypeOK, Vector
<1>2. \A n \in 1 .. SCAN_CHAIN2_WIDTH : /\ Down(n, tdi) \in Vector(SCAN_CHAIN2_WIDTH)
                                        /\ Up(n, tdi) \in Vector(SCAN_CHAIN2_WIDTH)
  BY <1>1, Widths DEF Down, Up, Vector, Bit
<1>3. Zero(SCAN_CHAIN2_WIDTH) \in Vector(SCAN_CHAIN2_WIDTH)
  BY DEF Zero, Vector, Bit
<1>4. {DataBits, ScanBits, DataBits + 1, SCAN_CHAIN2_WIDTH, 1} \subseteq 1 .. SCAN_CHAIN2_WIDTH
  BY Widths
<1> QED BY <1>2, <1>3, <1>4 DEF ShiftDR

LEMMA CaptureTyped ==
    ASSUME TypeOK, NEW data \in Vector(DataBits + 1)
    PROVE  Capture(data) \in Vector(SCAN_CHAIN2_WIDTH)
<1>1. One(ScanBits, ScanBits - 1) \in Vector(ScanBits)
  BY DEF One, Vector, Bit
<1>2. Zero(SCAN_CHAIN2_WIDTH) \in Vector(SCAN_CHAIN2_WIDTH)
  BY DEF Zero, Vector, Bit
<1> QED BY <1>1, <1>2, Padded, Widths, CodeAssumption DEF Capture, TypeOK

LEMMA AccessTyped ==
    ASSUME TypeOK
    PROVE  /\ scan_addr \in Addresses /\ Answered \in Vector(SCAN_CHAIN2_WIDTH)
           /\ scan_wdata \in Vector(DataBits)
           /\ \A a \in Addresses : Stored(a) \in Vector(DataBits)
<1>1. dr_shift_q \in [0 .. SCAN_CHAIN2_WIDTH - 1 -> Bit]
  BY DEF TypeOK, Vector
<1>2. scan_addr \in Addresses
  BY <1>1, Widths DEF scan_addr, Addresses, Vector
<1>3. scan_wdata \in Vector(DataBits)
  BY <1>1, Widths DEF scan_wdata, Vector
<1>4. \A a \in Addresses : Stored(a) \in Vector(DataBits)
  BY <1>3, Widths DEF Stored, Vector, Bit
<1>5. regs[scan_addr] \in [0 .. DataBits - 1 -> Bit]
  BY <1>2 DEF TypeOK, Vector
<1>6. Answered \in Vector(SCAN_CHAIN2_WIDTH)
  <2>1. ASSUME NEW i \in 0 .. SCAN_CHAIN2_WIDTH - 1 PROVE Answered[i] \in Bit
    <3>1. CASE i = 0
      BY <1>1, <3>1, Widths DEF Answered, Bit
    <3>2. CASE i \in 1 .. AddrBits
      BY <1>1, <3>2, Widths DEF Answered
    <3>3. CASE i > AddrBits
      <4>1. i - AddrBits - 1 \in 0 .. DataBits - 1
        BY <3>3, Widths
      <4>2. i \in DOMAIN dr_shift_q /\ i # 0 /\ i \notin 1 .. AddrBits
        BY <1>1, <3>3, Widths
      <4>3. Answered[i] = regs[scan_addr][i - AddrBits - 1]
        BY <4>2 DEF Answered
      <4> QED BY <1>5, <4>1, <4>3
    <3> QED BY <3>1, <3>2, <3>3, Widths
  <2>2. Answered = [i \in 0 .. SCAN_CHAIN2_WIDTH - 1 |-> Answered[i]]
    BY <1>1 DEF Answered
  <2> QED BY <2>1, <2>2 DEF Vector
<1> QED BY <1>2, <1>3, <1>4, <1>6

LEMMA TapTyped ==
    ASSUME TypeOK, NEW tms \in BOOLEAN, NEW tdi \in Bit, Tap(tms, tdi)
    PROVE  /\ tap_q' \in TapStates
           /\ ir_shift_q' \in Vector(IrBits) /\ ir_hold_q' \in Vector(IrBits)
           /\ dr_shift_q' \in Vector(SCAN_CHAIN2_WIDTH)
           /\ scan_n_q' \in Vector(ScanBits)
           /\ regs' \in [Addresses -> Vector(DataBits)]
           /\ \A a \in Addresses : \A i \in 0 .. DataBits - 1 :
                  regs'[a][i] = 1 => i \in Kept[a]
           /\ dbg_halted' \in BOOLEAN /\ replied' \in BOOLEAN
           /\ inject' = <<>> \/ inject' \in Vector(DataBits + 1)
<1>1. tap_q' \in TapStates
  BY NextStateTyped DEF Tap, TypeOK
<1>2. ir_shift_q' \in Vector(IrBits) /\ ir_hold_q' \in Vector(IrBits)
  BY InstructionTyped DEF Tap
<1>3. DataPath(tdi)
  BY DEF Tap
<1>4. dr_shift_q' \in Vector(SCAN_CHAIN2_WIDTH)
  BY <1>3, CaptureTyped, ShiftTyped, AccessTyped DEF DataPath, TypeOK
<1>5. scan_n_q' \in Vector(ScanBits)
  <2>1. Low(dr_shift_q, ScanBits) \in Vector(ScanBits)
    <3>1. dr_shift_q \in [0 .. SCAN_CHAIN2_WIDTH - 1 -> Bit]
      BY DEF TypeOK, Vector
    <3>2. 0 .. ScanBits - 1 \subseteq 0 .. SCAN_CHAIN2_WIDTH - 1
      BY Widths
    <3> QED BY <3>1, <3>2 DEF Low, Vector
  <2> QED BY <1>3, <2>1 DEF DataPath, TypeOK
<1>6. /\ regs' \in [Addresses -> Vector(DataBits)]
      /\ \A a \in Addresses : \A i \in 0 .. DataBits - 1 :
             regs'[a][i] = 1 => i \in Kept[a]
  <2>1. CASE scan_we
    <3>1. regs' = [regs EXCEPT ![scan_addr] = Stored(scan_addr)]
      BY <1>3, <2>1 DEF DataPath
    <3>2. \A i \in 0 .. DataBits - 1 :
             Stored(scan_addr)[i] = 1 => i \in Kept[scan_addr]
      BY DEF Stored
    <3> QED BY <3>1, <3>2, AccessTyped DEF TypeOK
  <2>2. CASE ~scan_we
    BY <1>3, <2>2 DEF DataPath, TypeOK
  <2> QED BY <2>1, <2>2
<1>7. dbg_halted' \in BOOLEAN /\ replied' \in BOOLEAN
  BY <1>3 DEF Tap, DataPath, TypeOK
<1>8. inject' = <<>> \/ inject' \in Vector(DataBits + 1)
  <2>1. Low(dr_shift_q, DataBits + 1) \in Vector(DataBits + 1)
    BY Widths DEF Low, Vector, TypeOK
  <2> QED BY <2>1 DEF Tap
<1> QED BY <1>1, <1>2, <1>4, <1>5, <1>6, <1>7, <1>8

LEMMA OutputTyped == TypeOK => DBGTDO \in Bit
<1> SUFFICES ASSUME TypeOK PROVE DBGTDO \in Bit
  OBVIOUS
<1>1. /\ dr_shift_q \in [0 .. SCAN_CHAIN2_WIDTH - 1 -> Bit]
      /\ ir_shift_q \in [0 .. IrBits - 1 -> Bit]
  BY DEF TypeOK, Vector
<1> QED BY <1>1, Widths DEF DBGTDO, Bit

LEMMA TypeInit == Init => TypeOK
<1> SUFFICES ASSUME Init PROVE TypeOK
  OBVIOUS
<1>1. \A n \in Nat : Zero(n) \in Vector(n)
  BY DEF Zero, Vector, Bit
<1>2. \A i \in 0 .. DataBits - 1 : Zero(DataBits)[i] # 1
  BY DEF Zero
<1> QED BY <1>1, <1>2, Widths, CodeAssumption DEF Init, TypeOK, TapStates, Bit

LEMMA TypeStep == TypeOK /\ [Next]_vars => TypeOK'
<1> SUFFICES ASSUME TypeOK, [Next]_vars PROVE TypeOK'
  OBVIOUS
<1>1. CASE Step
  <2>1. PICK tms \in BOOLEAN, rsp_ready \in BOOLEAN, tdi \in Bit :
          /\ Tap(tms, tdi) /\ Heard(rsp_ready)
          /\ response' = <<DBGTDO, tap_q \in {"SDR", "SIR"}>>
          /\ enabled' \in BOOLEAN
    BY <1>1 DEF Step
  <2>2. response' \in Bit \X BOOLEAN
    <3>1. (tap_q \in {"SDR", "SIR"}) \in BOOLEAN
      OBVIOUS
    <3> QED BY <2>1, <3>1, OutputTyped
  <2>3. heard' \in Bit
    BY <2>1 DEF Heard, TypeOK, Bit
  <2> QED BY <2>1, <2>2, <2>3, TapTyped DEF TypeOK
<1>2. CASE IdleEdge
  <2>1. PICK rsp_ready \in BOOLEAN :
          /\ response' = response \/ response' = <<>>
          /\ Heard(rsp_ready) /\ inject' = <<>>
          /\ enabled' \in BOOLEAN /\ UNCHANGED tap
    BY <1>2 DEF IdleEdge, Idle
  <2>2. dbg_halted' \in BOOLEAN
    BY <1>2 DEF IdleEdge, TypeOK
  <2>3. heard' \in Bit
    BY <2>1 DEF Heard, TypeOK, Bit
  <2> QED BY <2>1, <2>2, <2>3 DEF TypeOK, tap
<1>3. CASE DBGnTRST
  <2>1. \A n \in Nat : Zero(n) \in Vector(n)
    BY DEF Zero, Vector, Bit
  <2>2. \A i \in 0 .. DataBits - 1 : Zero(DataBits)[i] # 1
    BY DEF Zero
  <2> QED BY <1>3, <2>1, <2>2, Widths, CodeAssumption DEF DBGnTRST, TypeOK, TapStates
<1>4. CASE UNCHANGED vars
  BY <1>4 DEF vars, tap, TypeOK
<1> QED BY <1>1, <1>2, <1>3, <1>4 DEF Next

(* The TAP's registers keep their widths, and an EmbeddedICE register has   *)
(* nothing in the bits it does not store, for every width.                 *)
THEOREM TapTypes == Spec => []TypeOK
BY TypeInit, TypeStep, PTL DEF Spec

-----------------------------------------------------------------------------
(* Vectors and the words the debugger sees.                                *)

(* As Cells, of any register.                                              *)
Queue(v, n) == [k \in 1 .. n |-> v[n - k]]

LEMMA WordFacts ==
    ASSUME NEW n \in Nat, NEW v, \A i \in 0 .. n - 1 : v[i] \in Bit
    PROVE  /\ Word(v, n) \in [1 .. n -> Bit] /\ Word(v, n) \in Seq(Bit)
           /\ Len(Word(v, n)) = n
           /\ \A k \in 1 .. n : Word(v, n)[k] = v[k - 1]
<1>1. Word(v, n) \in [1 .. n -> Bit] /\ \A k \in 1 .. n : Word(v, n)[k] = v[k - 1]
  BY DEF Word
<1> QED BY <1>1

LEMMA QueueFacts ==
    ASSUME NEW n \in Nat, NEW v, \A i \in 0 .. n - 1 : v[i] \in Bit
    PROVE  /\ Queue(v, n) \in [1 .. n -> Bit] /\ Queue(v, n) \in Seq(Bit)
           /\ Len(Queue(v, n)) = n
           /\ \A k \in 1 .. n : Queue(v, n)[k] = v[n - k]
<1>1. Queue(v, n) \in [1 .. n -> Bit] /\ \A k \in 1 .. n : Queue(v, n)[k] = v[n - k]
  BY DEF Queue
<1> QED BY <1>1

LEMMA WordsTell ==
    ASSUME NEW n \in Nat, NEW v \in Vector(n), NEW w \in Vector(n)
    PROVE  Word(v, n) = Word(w, n) <=> v = w
<1> SUFFICES ASSUME Word(v, n) = Word(w, n) PROVE v = w
  OBVIOUS
<1>1. ASSUME NEW i \in 0 .. n - 1 PROVE v[i] = w[i]
  <2>1. i + 1 \in 1 .. n /\ (i + 1) - 1 = i
    OBVIOUS
  <2>2. Word(v, n)[i + 1] = v[i] /\ Word(w, n)[i + 1] = w[i]
    BY <2>1 DEF Word
  <2> QED BY <2>2
<1> QED BY <1>1 DEF Vector

LEMMA ChainsTell ==
    ASSUME NEW c \in Vector(ScanBits), NEW b \in {0, 1}
    PROVE  Word(c, ScanBits) = Path!Number(b) <=> c = One(ScanBits, b)
<1>1. One(ScanBits, b) \in Vector(ScanBits)
  BY DEF One, Vector, Bit
<1>2. Path!Number(b) = Word(One(ScanBits, b), ScanBits)
  BY Widths DEF Path!Number, Word, One
<1> QED BY <1>1, <1>2, Widths, WordsTell

LEMMA CodesTell ==
    ASSUME NEW h \in Vector(IrBits)
    PROVE  /\ Word(h, IrBits) = Word(IDCODE, IrBits) <=> h = IDCODE
           /\ Word(h, IrBits) = Word(SCAN_N, IrBits) <=> h = SCAN_N
           /\ Word(h, IrBits) = Word(INTEST, IrBits) <=> h = INTEST
BY Widths, WordsTell, CodeAssumption

(* The register a scan selects.                                            *)
DrKind ==
    CASE ir_hold_q = IDCODE -> "id"
      [] ir_hold_q = SCAN_N -> "scan_n"
      [] Chain(1) -> "chain1"
      [] Chain(2) -> "chain2"
      [] NoChain -> "zero"
      [] OTHER -> "bypass"

LEMMA SelectedNow ==
    ASSUME TypeOK
    PROVE  Path!Selected = IF OpenIR THEN "ir" ELSE DrKind
<1>1. ir_hold_q \in Vector(IrBits) /\ scan_n_q \in Vector(ScanBits)
  BY DEF TypeOK
<1>2. /\ InForce = Word(IDCODE, IrBits) <=> ir_hold_q = IDCODE
      /\ InForce = Word(SCAN_N, IrBits) <=> ir_hold_q = SCAN_N
      /\ InForce = Word(INTEST, IrBits) <=> ir_hold_q = INTEST
  BY <1>1, CodesTell DEF InForce
<1>3. /\ ChainInForce = Path!Number(0) <=> scan_n_q = One(ScanBits, 0)
      /\ ChainInForce = Path!Number(1) <=> scan_n_q = One(ScanBits, 1)
  BY <1>1, ChainsTell DEF ChainInForce
<1>4. Chain(1) <=> ir_hold_q = INTEST /\ scan_n_q = One(ScanBits, 0)
  BY DEF Chain
<1>5. Chain(2) <=> ir_hold_q = INTEST /\ scan_n_q = One(ScanBits, 1)
  BY DEF Chain
<1>6. One(ScanBits, 0) # One(ScanBits, 1)
  BY Widths DEF One
<1>7. SCAN_N # IDCODE /\ INTEST # SCAN_N /\ INTEST # IDCODE
  BY CodeAssumption
<1>8. CASE OpenIR
  BY <1>8 DEF Path!Selected
<1>9. CASE ~OpenIR /\ ir_hold_q \in {IDCODE, SCAN_N}
  BY <1>2, <1>4, <1>5, <1>7, <1>9 DEF Path!Selected, DrKind, NoChain
<1>10. CASE ~OpenIR /\ ir_hold_q = INTEST
  BY <1>2, <1>3, <1>4, <1>5, <1>6, <1>7, <1>10 DEF Path!Selected, DrKind, NoChain
<1>11. CASE ~OpenIR /\ ir_hold_q \notin {IDCODE, SCAN_N, INTEST}
  BY <1>2, <1>4, <1>5, <1>11 DEF Path!Selected, DrKind, NoChain
<1> QED BY <1>8, <1>9, <1>10, <1>11

LEMMA SelectedNext ==
    ASSUME TypeOK'
    PROVE  Path!Selected' = IF OpenIR' THEN "ir" ELSE DrKind'
<1>1. ir_hold_q' \in Vector(IrBits) /\ scan_n_q' \in Vector(ScanBits)
  BY DEF TypeOK
<1>2. /\ InForce' = Word(IDCODE, IrBits) <=> ir_hold_q' = IDCODE
      /\ InForce' = Word(SCAN_N, IrBits) <=> ir_hold_q' = SCAN_N
      /\ InForce' = Word(INTEST, IrBits) <=> ir_hold_q' = INTEST
  BY <1>1, CodesTell DEF InForce
<1>3. /\ ChainInForce' = Path!Number(0) <=> scan_n_q' = One(ScanBits, 0)
      /\ ChainInForce' = Path!Number(1) <=> scan_n_q' = One(ScanBits, 1)
  BY <1>1, ChainsTell DEF ChainInForce
<1>4. Chain(1)' <=> ir_hold_q' = INTEST /\ scan_n_q' = One(ScanBits, 0)
  BY DEF Chain
<1>5. Chain(2)' <=> ir_hold_q' = INTEST /\ scan_n_q' = One(ScanBits, 1)
  BY DEF Chain
<1>6. One(ScanBits, 0) # One(ScanBits, 1)
  BY Widths DEF One
<1>7. SCAN_N # IDCODE /\ INTEST # SCAN_N /\ INTEST # IDCODE
  BY CodeAssumption
<1>8. CASE OpenIR'
  BY <1>8 DEF Path!Selected
<1>9. CASE ~OpenIR' /\ ir_hold_q' \in {IDCODE, SCAN_N}
  BY <1>2, <1>4, <1>5, <1>7, <1>9 DEF Path!Selected, DrKind, NoChain
<1>10. CASE ~OpenIR' /\ ir_hold_q' = INTEST
  BY <1>2, <1>3, <1>4, <1>5, <1>6, <1>7, <1>10 DEF Path!Selected, DrKind, NoChain
<1>11. CASE ~OpenIR' /\ ir_hold_q' \notin {IDCODE, SCAN_N, INTEST}
  BY <1>2, <1>4, <1>5, <1>11 DEF Path!Selected, DrKind, NoChain
<1> QED BY <1>8, <1>9, <1>10, <1>11

-----------------------------------------------------------------------------
(* How the open register moves.                                            *)

(* A scan of a chain that does not exist reads zeros.                      *)
NoChainEmpty == OpenDR /\ NoChain => dr_shift_q[0] = 0

ScanInv == TypeOK /\ NoChainEmpty

(* The cells of a data register v under a selection.                       *)
Seen(kind, v) ==
    CASE kind = "id" -> Word(v, DataBits)
      [] kind = "scan_n" -> Word(v, ScanBits)
      [] kind = "chain1" -> Queue(v, DataBits + 1)
      [] kind = "chain2" -> Queue(v, SCAN_CHAIN2_WIDTH)
      [] kind \in {"zero", "bypass"} -> Word(v, 1)

Kinds == {"id", "scan_n", "chain1", "chain2", "zero", "bypass"}

LEMMA DrKindTyped == DrKind \in Kinds /\ DrKind' \in Kinds
BY DEF DrKind, Kinds

LEMMA ChainsApart == ~(Chain(1) /\ Chain(2)) /\ ~(Chain(1)' /\ Chain(2)')
<1>1. One(ScanBits, 0) # One(ScanBits, 1)
  BY Widths DEF One
<1> QED BY <1>1 DEF Chain

LEMMA KindMeans ==
    /\ DrKind = "id" <=> ir_hold_q = IDCODE
    /\ DrKind = "scan_n" <=> ir_hold_q = SCAN_N
    /\ DrKind = "chain1" <=> Chain(1)
    /\ DrKind = "chain2" <=> Chain(2)
    /\ DrKind = "zero" <=> NoChain
<1>1. SCAN_N # IDCODE /\ INTEST # SCAN_N /\ INTEST # IDCODE
  BY CodeAssumption
<1> QED BY <1>1, ChainsApart DEF DrKind, NoChain, Chain

LEMMA KindMeansNext ==
    /\ DrKind' = "id" <=> ir_hold_q' = IDCODE
    /\ DrKind' = "scan_n" <=> ir_hold_q' = SCAN_N
    /\ DrKind' = "chain1" <=> Chain(1)'
    /\ DrKind' = "chain2" <=> Chain(2)'
    /\ DrKind' = "zero" <=> NoChain'
<1>1. SCAN_N # IDCODE /\ INTEST # SCAN_N /\ INTEST # IDCODE
  BY CodeAssumption
<1> QED BY <1>1, ChainsApart DEF DrKind, NoChain, Chain

LEMMA SelectedSeen ==
    SelectedCells = Seen(DrKind, dr_shift_q) /\ SelectedCells' = Seen(DrKind', dr_shift_q')
<1>1. /\ Cells(DataBits + 1) = Queue(dr_shift_q, DataBits + 1)
      /\ Cells(SCAN_CHAIN2_WIDTH) = Queue(dr_shift_q, SCAN_CHAIN2_WIDTH)
      /\ Cells(DataBits + 1)' = Queue(dr_shift_q', DataBits + 1)
      /\ Cells(SCAN_CHAIN2_WIDTH)' = Queue(dr_shift_q', SCAN_CHAIN2_WIDTH)
  BY DEF Cells, Queue, SCAN_CHAIN2_WIDTH
<1>2. SelectedCells = Seen(DrKind, dr_shift_q)
  BY <1>1, KindMeans, DrKindTyped DEF SelectedCells, Seen, Kinds
<1>3. SelectedCells' = Seen(DrKind', dr_shift_q')
  BY <1>1, KindMeansNext, DrKindTyped DEF SelectedCells, Seen, Kinds
<1> QED BY <1>2, <1>3

(* Where a step leads.                                                     *)
LEMMA TapMoves ==
    ASSUME NEW tms \in BOOLEAN, NEW tdi \in Bit, Tap(tms, tdi), tap_q \in TapStates
    PROVE  /\ tap_q \in {"TLR", "RTI", "SDRS", "SIRS"} => ~OpenDR /\ ~OpenIR /\ ~OpenDR' /\ ~OpenIR'
           /\ tap_q = "CDR" => ~OpenDR /\ ~OpenIR /\ OpenDR' /\ ~OpenIR'
           /\ tap_q \in {"SDR", "E1DR", "PDR", "E2DR"} => OpenDR /\ ~OpenIR /\ OpenDR' /\ ~OpenIR'
           /\ tap_q = "UDR" => OpenDR /\ ~OpenIR /\ ~OpenDR' /\ ~OpenIR'
           /\ tap_q = "CIR" => ~OpenDR /\ ~OpenIR /\ ~OpenDR' /\ OpenIR'
           /\ tap_q \in {"SIR", "E1IR", "PIR", "E2IR"} => ~OpenDR /\ OpenIR /\ ~OpenDR' /\ OpenIR'
           /\ tap_q = "UIR" => ~OpenDR /\ OpenIR /\ ~OpenDR' /\ ~OpenIR'
           /\ tap_q \notin {"UIR", "TLR", "SIRS"} => ir_hold_q' = ir_hold_q
           /\ tap_q \in {"TLR", "SIRS"} => ir_hold_q' \in {ir_hold_q, IDCODE}
           /\ tap_q = "UIR" => ir_hold_q' = ir_shift_q
BY DEF Tap, next_state, OpenDR, OpenIR, Instruction, TapStates, Columns

LEMMA QueueShifts ==
    ASSUME NEW n \in Nat \ {0}, NEW s \in Seq(Bit), Len(s) = n,
           NEW t \in Seq(Bit), Len(t) = n, NEW b \in Bit, t[n] = b,
           \A k \in 1 .. n - 1 : t[k] = s[k + 1]
    PROVE  t = Append(Tail(s), b)
<1> DEFINE u == Append(Tail(s), b)
<1>1. s # <<>>
  OBVIOUS
<1>2. /\ Tail(s) \in Seq(Bit) /\ Len(Tail(s)) = n - 1
      /\ \A k \in 1 .. n - 1 : Tail(s)[k] = s[k + 1]
  BY <1>1, HeadTailProperties
<1>3. /\ u \in Seq(Bit) /\ Len(u) = n /\ u[n] = b
      /\ \A k \in 1 .. n - 1 : u[k] = Tail(s)[k]
  BY <1>2, AppendProperties
<1> HIDE DEF u
<1>4. \A k \in 1 .. n : t[k] = u[k]
  <2> SUFFICES ASSUME NEW k \in 1 .. n PROVE t[k] = u[k]
    OBVIOUS
  <2>1. k = n \/ k \in 1 .. n - 1
    OBVIOUS
  <2> QED BY <1>2, <1>3, <2>1
<1>5. t = u
  BY <1>3, <1>4, SeqEqual
<1> QED BY <1>5 DEF u

(* Toward the low end a word moves on; away from it, a queue.              *)
LEMMA DownShifts ==
    ASSUME TypeOK, NEW tdi \in Bit, NEW n \in 1 .. SCAN_CHAIN2_WIDTH
    PROVE  Word(Down(n, tdi), n) = Append(Tail(Word(dr_shift_q, n)), tdi)
<1>1. /\ dr_shift_q \in [0 .. SCAN_CHAIN2_WIDTH - 1 -> Bit]
      /\ n \in Nat \ {0} /\ 0 .. n - 1 \subseteq 0 .. SCAN_CHAIN2_WIDTH - 1
  BY Widths DEF TypeOK, Vector
<1>2. \A i \in 0 .. n - 1 : Down(n, tdi)[i] = IF i = n - 1 THEN tdi ELSE dr_shift_q[i + 1]
  BY <1>1 DEF Down
<1>3. \A i \in 0 .. n - 1 : dr_shift_q[i] \in Bit
  BY <1>1
<1>4. \A i \in 0 .. n - 1 : Down(n, tdi)[i] \in Bit
  BY <1>1, <1>2, Widths
<1> DEFINE s == Word(dr_shift_q, n)
           t == Word(Down(n, tdi), n)
<1>5. s \in Seq(Bit) /\ Len(s) = n /\ \A k \in 1 .. n : s[k] = dr_shift_q[k - 1]
  BY <1>1, <1>3, WordFacts
<1>6. t \in Seq(Bit) /\ Len(t) = n /\ \A k \in 1 .. n : t[k] = Down(n, tdi)[k - 1]
  BY <1>1, <1>4, WordFacts
<1> HIDE DEF s, t
<1>7. t[n] = tdi /\ \A k \in 1 .. n - 1 : t[k] = s[k + 1]
  BY <1>1, <1>2, <1>5, <1>6
<1>8. t = Append(Tail(s), tdi)
  BY <1>1, <1>5, <1>6, <1>7, QueueShifts
<1> QED BY <1>8 DEF s, t

LEMMA UpShifts ==
    ASSUME TypeOK, NEW tdi \in Bit, NEW n \in 1 .. SCAN_CHAIN2_WIDTH
    PROVE  Queue(Up(n, tdi), n) = Append(Tail(Queue(dr_shift_q, n)), tdi)
<1>1. /\ dr_shift_q \in [0 .. SCAN_CHAIN2_WIDTH - 1 -> Bit]
      /\ n \in Nat \ {0} /\ 0 .. n - 1 \subseteq 0 .. SCAN_CHAIN2_WIDTH - 1
  BY Widths DEF TypeOK, Vector
<1>2. \A i \in 0 .. n - 1 : Up(n, tdi)[i] = IF i = 0 THEN tdi ELSE dr_shift_q[i - 1]
  BY <1>1 DEF Up
<1>3. \A i \in 0 .. n - 1 : dr_shift_q[i] \in Bit
  BY <1>1
<1>4. \A i \in 0 .. n - 1 : Up(n, tdi)[i] \in Bit
  BY <1>1, <1>2, Widths
<1> DEFINE s == Queue(dr_shift_q, n)
           t == Queue(Up(n, tdi), n)
<1>5. s \in Seq(Bit) /\ Len(s) = n /\ \A k \in 1 .. n : s[k] = dr_shift_q[n - k]
  BY <1>1, <1>3, QueueFacts
<1>6. t \in Seq(Bit) /\ Len(t) = n /\ \A k \in 1 .. n : t[k] = Up(n, tdi)[n - k]
  BY <1>1, <1>4, QueueFacts
<1> HIDE DEF s, t
<1>7. t[n] = tdi
  BY <1>1, <1>2, <1>6
<1>7a. ASSUME NEW k \in 1 .. n - 1 PROVE t[k] = s[k + 1]
  <2>1. /\ n - k \in 0 .. n - 1 /\ n - k # 0 /\ (n - k) - 1 = n - (k + 1)
        /\ k \in 1 .. n /\ k + 1 \in 1 .. n
    BY <1>1
  <2> QED BY <1>2, <1>5, <1>6, <2>1
<1>8. t = Append(Tail(s), tdi)
  BY <1>1, <1>5, <1>6, <1>7, <1>7a, QueueShifts
<1> QED BY <1>8 DEF s, t

LEMMA ScanShifts ==
    ASSUME ScanInv, NEW tdi \in Bit
    PROVE  /\ DrKind # "zero" => Seen(DrKind, ShiftDR(tdi))
                                   = Append(Tail(Seen(DrKind, dr_shift_q)), tdi)
           /\ DrKind = "zero" => Seen(DrKind, ShiftDR(tdi)) = <<0>>
<1>1. TypeOK
  BY DEF ScanInv
<1>2. /\ DataBits \in 1 .. SCAN_CHAIN2_WIDTH /\ ScanBits \in 1 .. SCAN_CHAIN2_WIDTH
      /\ DataBits + 1 \in 1 .. SCAN_CHAIN2_WIDTH
      /\ SCAN_CHAIN2_WIDTH \in 1 .. SCAN_CHAIN2_WIDTH /\ 1 \in 1 .. SCAN_CHAIN2_WIDTH
  BY Widths
<1>3. DrKind \in Kinds
  BY DrKindTyped
<1>4. CASE DrKind = "id"
  <2>1. ShiftDR(tdi) = Down(DataBits, tdi)
    BY <1>4, KindMeans DEF ShiftDR
  <2> QED BY <1>1, <1>2, <1>4, <2>1, DownShifts DEF Seen
<1>5. CASE DrKind = "scan_n"
  <2>1. ShiftDR(tdi) = Down(ScanBits, tdi)
    BY <1>5, KindMeans DEF ShiftDR
  <2> QED BY <1>1, <1>2, <1>5, <2>1, DownShifts DEF Seen
<1>6. CASE DrKind = "chain1"
  <2>1. ShiftDR(tdi) = Up(DataBits + 1, tdi)
    BY <1>6, KindMeans DEF ShiftDR
  <2> QED BY <1>1, <1>2, <1>6, <2>1, UpShifts DEF Seen
<1>7. CASE DrKind = "chain2"
  <2>1. ShiftDR(tdi) = Up(SCAN_CHAIN2_WIDTH, tdi)
    BY <1>7, KindMeans DEF ShiftDR
  <2> QED BY <1>1, <1>2, <1>7, <2>1, UpShifts DEF Seen
<1>8. CASE DrKind = "bypass"
  <2>1. ShiftDR(tdi) = Down(1, tdi)
    BY <1>8, KindMeans DEF ShiftDR
  <2> QED BY <1>1, <1>2, <1>8, <2>1, DownShifts DEF Seen
<1>9. CASE DrKind = "zero"
  <2>1. ShiftDR(tdi) = Zero(SCAN_CHAIN2_WIDTH)
    BY <1>9, KindMeans DEF ShiftDR
  <2>2. Word(Zero(SCAN_CHAIN2_WIDTH), 1) = <<0>>
    BY Widths DEF Word, Zero
  <2> QED BY <1>9, <2>1, <2>2 DEF Seen
<1> QED BY <1>3, <1>4, <1>5, <1>6, <1>7, <1>8, <1>9 DEF Kinds

(* The bit at the output is the first of the queue.                        *)
LEMMA SeenHead ==
    ASSUME ScanInv
    PROVE  /\ Seen(DrKind, dr_shift_q) # <<>>
           /\ tap_q = "SDR" => Head(Seen(DrKind, dr_shift_q)) = DBGTDO
           /\ tap_q = "SDR" /\ DrKind = "zero" => Seen(DrKind, dr_shift_q) = <<0>>
<1>1. /\ dr_shift_q \in [0 .. SCAN_CHAIN2_WIDTH - 1 -> Bit]
      /\ tap_q = "SDR" /\ NoChain => dr_shift_q[0] = 0
  BY DEF ScanInv, TypeOK, Vector, NoChainEmpty, OpenDR
<1>2. \A n \in 1 .. SCAN_CHAIN2_WIDTH :
        /\ Word(dr_shift_q, n) # <<>> /\ Queue(dr_shift_q, n) # <<>>
        /\ Head(Word(dr_shift_q, n)) = dr_shift_q[0]
        /\ Head(Queue(dr_shift_q, n)) = dr_shift_q[n - 1]
  <2> SUFFICES ASSUME NEW n \in 1 .. SCAN_CHAIN2_WIDTH
               PROVE  /\ Word(dr_shift_q, n) # <<>> /\ Queue(dr_shift_q, n) # <<>>
                      /\ Head(Word(dr_shift_q, n)) = dr_shift_q[0]
                      /\ Head(Queue(dr_shift_q, n)) = dr_shift_q[n - 1]
    OBVIOUS
  <2>1. n \in Nat /\ 1 \in 1 .. n /\ \A i \in 0 .. n - 1 : dr_shift_q[i] \in Bit
    BY <1>1, Widths
  <2>2. /\ Word(dr_shift_q, n) \in Seq(Bit) /\ Len(Word(dr_shift_q, n)) = n
        /\ Word(dr_shift_q, n)[1] = dr_shift_q[0]
    BY <2>1, WordFacts
  <2>3. /\ Queue(dr_shift_q, n) \in Seq(Bit) /\ Len(Queue(dr_shift_q, n)) = n
        /\ Queue(dr_shift_q, n)[1] = dr_shift_q[n - 1]
    BY <2>1, QueueFacts
  <2> HIDE DEF Queue
  <2>4. Word(dr_shift_q, n) # <<>> /\ Queue(dr_shift_q, n) # <<>>
    BY <2>1, <2>2, <2>3
  <2> QED BY <2>2, <2>3, <2>4
<1>3. /\ DataBits \in 1 .. SCAN_CHAIN2_WIDTH /\ ScanBits \in 1 .. SCAN_CHAIN2_WIDTH
      /\ DataBits + 1 \in 1 .. SCAN_CHAIN2_WIDTH /\ (DataBits + 1) - 1 = DataBits
      /\ SCAN_CHAIN2_WIDTH \in 1 .. SCAN_CHAIN2_WIDTH /\ 1 \in 1 .. SCAN_CHAIN2_WIDTH
  BY Widths
<1>4. DrKind \in Kinds
  BY DrKindTyped
<1>5. Seen(DrKind, dr_shift_q) # <<>>
  BY <1>2, <1>3, <1>4 DEF Seen, Kinds
<1>6. ASSUME tap_q = "SDR" PROVE Head(Seen(DrKind, dr_shift_q)) = DBGTDO
  <2>1. CASE DrKind \in {"id", "scan_n", "bypass"}
    <3>1. DBGTDO = dr_shift_q[0]
      BY <1>6, <2>1, KindMeans DEF DBGTDO
    <3> QED BY <1>2, <1>3, <2>1, <3>1 DEF Seen
  <2>2. CASE DrKind = "chain1"
    <3>1. DBGTDO = dr_shift_q[DataBits]
      BY <1>6, <2>2, KindMeans DEF DBGTDO
    <3> QED BY <1>2, <1>3, <2>2, <3>1 DEF Seen
  <2>3. CASE DrKind = "chain2"
    <3>1. DBGTDO = dr_shift_q[SCAN_CHAIN2_WIDTH - 1]
      BY <1>6, <2>3, KindMeans DEF DBGTDO
    <3> QED BY <1>2, <1>3, <2>3, <3>1 DEF Seen
  <2>4. CASE DrKind = "zero"
    <3>1. DBGTDO = 0 /\ dr_shift_q[0] = 0
      BY <1>1, <1>6, <2>4, KindMeans DEF DBGTDO
    <3> QED BY <1>2, <1>3, <2>4, <3>1 DEF Seen
  <2> QED BY <1>4, <2>1, <2>2, <2>3, <2>4 DEF Kinds
<1>7. ASSUME tap_q = "SDR", DrKind = "zero"
      PROVE  Seen(DrKind, dr_shift_q) = <<0>>
  <2>1. dr_shift_q[0] = 0
    BY <1>1, <1>7, KindMeans
  <2> QED BY <1>7, <2>1 DEF Seen, Word
<1> QED BY <1>5, <1>6, <1>7

(* The host has heard the answer before a step is taken.                   *)
LEMMA StepAnswers ==
    ASSUME TypeOK, NEW rsp_ready \in BOOLEAN, enabled, slot_available(rsp_ready),
           Heard(rsp_ready), NEW b \in BOOLEAN, response' = <<DBGTDO, b>>,
           enabled' \in BOOLEAN, NEW a, a = IF b THEN DBGTDO ELSE 2
    PROVE  Path!Answers(a)
<1>1. Answer = 3 <=> response = <<>>
  <2>1. CASE response = <<>>
    BY <2>1 DEF Answer
  <2>2. CASE response \in Bit \X BOOLEAN
    <3>1. response # <<>> /\ response[1] \in Bit
      BY <2>2
    <3> QED BY <3>1 DEF Answer, Bit
  <2> QED BY <2>1, <2>2 DEF TypeOK
<1>2. heard' = IF Answer = 3 THEN heard ELSE 1 - heard
  BY <1>1 DEF Heard, Takes, slot_available
<1>3. Answer' = IF enabled' THEN a ELSE 3
  <2>1. response' # <<>> /\ response'[1] = DBGTDO /\ response'[2] = b
    OBVIOUS
  <2> QED BY <2>1 DEF Answer
<1> QED BY <1>2, <1>3 DEF Path!Answers, Path!NoAnswer

-----------------------------------------------------------------------------
(* Each step of the TAP is one of the scan path.                           *)

LEMMA RestStays ==
    ASSUME NEW tms \in BOOLEAN, NEW tdi \in Bit, Tap(tms, tdi), tap_q # "UDR",
           replied \in BOOLEAN
    PROVE  /\ scan_n_q' = scan_n_q /\ ChainInForce' = ChainInForce
           /\ Ice' = Ice /\ Injected' = <<>>
           /\ tap_q \notin {"CDR", "SDR"} =>
                dr_shift_q' = dr_shift_q /\ replied' = replied /\ Reply' = Reply
<1>1. scan_n_q' = scan_n_q /\ regs' = regs /\ inject' = <<>> /\ ~scan_re /\ ~scan_we
  BY DEF Tap, DataPath, scan_we, scan_re, ice_inject_we
<1>2. ASSUME tap_q \notin {"CDR", "SDR"}
      PROVE  dr_shift_q' = dr_shift_q
  BY <1>1, <1>2 DEF Tap, DataPath
<1>3. ASSUME tap_q \notin {"CDR", "SDR"}
      PROVE  replied' = replied
  BY <1>1, <1>3 DEF Tap, DataPath
<1>4. ChainInForce' = ChainInForce /\ Ice' = Ice /\ Injected' = <<>>
  BY <1>1 DEF ChainInForce, Ice, Injected
<1>5. ASSUME tap_q \notin {"CDR", "SDR"} PROVE Reply' = Reply
  BY <1>2, <1>3, <1>5 DEF Reply, Cells
<1> QED BY <1>1, <1>2, <1>3, <1>4, <1>5

LEMMA KindStays ==
    ASSUME ir_hold_q' = ir_hold_q, scan_n_q' = scan_n_q
    PROVE  DrKind' = DrKind
BY DEF DrKind, Chain, NoChain

LEMMA MoveRefines ==
    ASSUME ScanInv, NEW tms \in BOOLEAN, NEW tdi \in Bit, Tap(tms, tdi),
           tap_q \notin {"CDR", "SDR", "UDR", "CIR", "SIR", "UIR"},
           Path!Answers(Path!HighZ)
    PROVE  Path!Move
<1>1. TypeOK /\ replied \in BOOLEAN
  BY DEF ScanInv, TypeOK
<1>2. /\ ChainInForce' = ChainInForce /\ Ice' = Ice /\ Injected' = <<>>
      /\ Reply' = Reply /\ dr_shift_q' = dr_shift_q /\ scan_n_q' = scan_n_q
  BY <1>1, RestStays
<1>3. ir_shift_q' = ir_shift_q
  BY DEF Tap, ShiftIR
<1>4. CASE tap_q \in {"TLR", "RTI", "SDRS", "SIRS"}
  <2>1. ~OpenDR /\ ~OpenIR /\ ~OpenDR' /\ ~OpenIR' /\ ir_hold_q' \in {ir_hold_q, IDCODE}
    BY <1>1, <1>4, TapMoves DEF TypeOK
  <2>2. Line = <<>> /\ Line' = <<>>
    BY <2>1 DEF Line
  <2>3. InForce' = InForce \/ InForce' = Word(IDCODE, IrBits)
    BY <2>1 DEF InForce
  <2>4. OpenIR' = OpenIR
    BY <2>1 DEF OpenIR
  <2> QED BY <1>2, <2>2, <2>3, <2>4 DEF Path!Move
<1>5. CASE tap_q \in {"E1DR", "PDR", "E2DR"}
  <2>1. OpenDR /\ ~OpenIR /\ OpenDR' /\ ~OpenIR' /\ ir_hold_q' = ir_hold_q
    BY <1>1, <1>5, TapMoves DEF TypeOK
  <2>2. SelectedCells' = SelectedCells
    BY <1>2, <2>1, KindStays, SelectedSeen
  <2>3. Line' = Line /\ InForce' = InForce
    BY <2>1, <2>2 DEF Line, InForce
  <2>4. OpenIR' = OpenIR
    BY <2>1 DEF OpenIR
  <2> QED BY <1>2, <2>3, <2>4 DEF Path!Move
<1>6. CASE tap_q \in {"E1IR", "PIR", "E2IR"}
  <2>1. OpenIR /\ OpenIR' /\ ir_hold_q' = ir_hold_q
    BY <1>1, <1>6, TapMoves DEF TypeOK
  <2>2. Line' = Line /\ InForce' = InForce
    BY <1>3, <2>1 DEF Line, InForce
  <2>3. OpenIR' = OpenIR
    BY <2>1 DEF OpenIR
  <2> QED BY <1>2, <2>2, <2>3 DEF Path!Move
<1> QED BY <1>1, <1>4, <1>5, <1>6 DEF TypeOK, TapStates, Columns

LEMMA CaptureIrRefines ==
    ASSUME ScanInv, TypeOK', NEW tms \in BOOLEAN, NEW tdi \in Bit, Tap(tms, tdi),
           tap_q = "CIR", Path!Answers(Path!HighZ)
    PROVE  Path!Open
<1>1. TypeOK /\ replied \in BOOLEAN
  BY DEF ScanInv, TypeOK
<1>2. /\ ChainInForce' = ChainInForce /\ Ice' = Ice /\ Injected' = <<>>
      /\ Reply' = Reply
  BY <1>1, RestStays
<1>3. ~OpenDR /\ ~OpenIR /\ ~OpenDR' /\ OpenIR' /\ ir_hold_q' = ir_hold_q
  BY <1>1, TapMoves DEF TypeOK
<1>4. ir_shift_q' = One(IrBits, 0)
  BY DEF Tap, ShiftIR
<1>5. Line' = [k \in 1 .. IrBits |-> IF k = 1 THEN 1 ELSE 0]
  BY <1>3, <1>4, Widths DEF Line, Word, One
<1>6. Line' # <<>>
  <2>1. Line' \in [1 .. IrBits -> Bit]
    BY <1>5 DEF Bit
  <2>2. Len(Line') = IrBits /\ IrBits # 0
    BY <2>1, Widths
  <2> QED BY <2>2
<1>7. Path!Selected' = "ir"
  BY <1>3, SelectedNext
<1>8. Line = <<>> /\ InForce' = InForce
  BY <1>3 DEF Line, InForce
<1> QED BY <1>2, <1>5, <1>6, <1>7, <1>8 DEF Path!Open, Path!Captured

LEMMA ShiftIrRefines ==
    ASSUME ScanInv, NEW tms \in BOOLEAN, NEW tdi \in Bit, Tap(tms, tdi),
           tap_q = "SIR", Path!Answers(DBGTDO)
    PROVE  Path!Shift
<1>1. TypeOK /\ replied \in BOOLEAN /\ ir_shift_q \in [0 .. IrBits - 1 -> Bit]
  BY DEF ScanInv, TypeOK, Vector
<1>2. /\ ChainInForce' = ChainInForce /\ Ice' = Ice /\ Injected' = <<>>
      /\ Reply' = Reply
  BY <1>1, RestStays
<1>3. OpenIR /\ OpenIR' /\ ir_hold_q' = ir_hold_q
  BY <1>1, TapMoves DEF TypeOK
<1>4. ir_shift_q' = [i \in 0 .. IrBits - 1 |->
                       IF i = IrBits - 1 THEN tdi ELSE ir_shift_q[i + 1]]
  BY DEF Tap, ShiftIR
<1>5. Line = Word(ir_shift_q, IrBits) /\ Line' = Word(ir_shift_q', IrBits)
  BY <1>3 DEF Line
<1>6. /\ Line \in Seq(Bit) /\ Len(Line) = IrBits
      /\ \A k \in 1 .. IrBits : Line[k] = ir_shift_q[k - 1]
  BY <1>1, <1>5, Widths, WordFacts
<1>7. \A i \in 0 .. IrBits - 1 : ir_shift_q'[i] \in Bit
  BY <1>1, <1>4, Widths
<1>8. /\ Line' \in Seq(Bit) /\ Len(Line') = IrBits
      /\ \A k \in 1 .. IrBits : Line'[k] = ir_shift_q'[k - 1]
  BY <1>5, <1>7, Widths, WordFacts
<1>9. Line'[IrBits] = tdi /\ \A k \in 1 .. IrBits - 1 : Line'[k] = Line[k + 1]
  <2>1. Line'[IrBits] = tdi
    <3>1. IrBits \in 1 .. IrBits /\ IrBits - 1 \in 0 .. IrBits - 1
      BY Widths
    <3>2. ir_shift_q'[IrBits - 1] = tdi
      BY <1>4, <3>1
    <3> QED BY <1>8, <3>1, <3>2
  <2>2. ASSUME NEW k \in 1 .. IrBits - 1 PROVE Line'[k] = Line[k + 1]
    <3>1. /\ k \in 1 .. IrBits /\ k + 1 \in 1 .. IrBits /\ (k + 1) - 1 = (k - 1) + 1
          /\ k - 1 \in 0 .. IrBits - 1 /\ k - 1 # IrBits - 1
      BY Widths
    <3>2. ir_shift_q'[k - 1] = ir_shift_q[(k - 1) + 1]
      BY <1>4, <3>1
    <3> QED BY <1>6, <1>8, <3>1, <3>2
  <2> QED BY <2>1, <2>2
<1>10. Line' = Append(Tail(Line), tdi)
  BY <1>6, <1>8, <1>9, Widths, QueueShifts
<1>11. Line # <<>> /\ Head(Line) = DBGTDO
  <2>1. DBGTDO = ir_shift_q[0]
    BY DEF DBGTDO
  <2> QED BY <1>6, <2>1, Widths
<1>12. Path!Selected = "ir"
  BY <1>1, <1>3, SelectedNow
<1>13. InForce' = InForce
  BY <1>3 DEF InForce
<1> QED BY <1>2, <1>3, <1>10, <1>11, <1>12, <1>13 DEF Path!Shift, Path!Bit, Bit

LEMMA UpdateIrRefines ==
    ASSUME ScanInv, NEW tms \in BOOLEAN, NEW tdi \in Bit, Tap(tms, tdi),
           tap_q = "UIR", Path!Answers(Path!HighZ)
    PROVE  Path!Deliver
<1>1. TypeOK /\ replied \in BOOLEAN /\ ir_shift_q \in [0 .. IrBits - 1 -> Bit]
  BY DEF ScanInv, TypeOK, Vector
<1>2. /\ ChainInForce' = ChainInForce /\ Ice' = Ice /\ Injected' = <<>>
      /\ Reply' = Reply
  BY <1>1, RestStays
<1>3. OpenIR /\ ~OpenDR' /\ ~OpenIR' /\ ir_hold_q' = ir_shift_q
  BY <1>1, TapMoves DEF TypeOK
<1>4. Line = Word(ir_shift_q, IrBits) /\ Line' = <<>> /\ InForce' = Line
  BY <1>3 DEF Line, InForce
<1>5. Line # <<>>
  BY <1>1, <1>4, Widths, WordFacts
<1>6. Path!Selected = "ir"
  BY <1>1, <1>3, SelectedNow
<1> QED BY <1>2, <1>3, <1>4, <1>5, <1>6 DEF Path!Deliver

LEMMA SeenFacts ==
    ASSUME NEW v \in Vector(SCAN_CHAIN2_WIDTH), NEW n \in 1 .. SCAN_CHAIN2_WIDTH
    PROVE  /\ Word(v, n) \in [1 .. n -> Bit] /\ Word(v, n) # <<>>
           /\ Queue(v, n) \in [1 .. n -> Bit] /\ Queue(v, n) # <<>>
<1>1. n \in Nat /\ n # 0 /\ \A i \in 0 .. n - 1 : v[i] \in Bit
  BY Widths DEF Vector
<1>2. /\ Word(v, n) \in [1 .. n -> Bit] /\ Word(v, n) \in Seq(Bit)
      /\ Len(Word(v, n)) = n
  BY <1>1, WordFacts
<1>3. /\ Queue(v, n) \in [1 .. n -> Bit] /\ Queue(v, n) \in Seq(Bit)
      /\ Len(Queue(v, n)) = n
  BY <1>1, QueueFacts
<1> QED BY <1>1, <1>2, <1>3

LEMMA ReplyIsCells ==
    Reply = IF replied THEN Queue(dr_shift_q, SCAN_CHAIN2_WIDTH) ELSE <<>>
BY DEF Reply, Cells, Queue

LEMMA CaptureDrRefines ==
    ASSUME ScanInv, TypeOK', NEW tms \in BOOLEAN, NEW tdi \in Bit, Tap(tms, tdi),
           tap_q = "CDR", Path!Answers(Path!HighZ)
    PROVE  Path!Open
<1>1. TypeOK /\ replied \in BOOLEAN /\ dr_shift_q \in Vector(SCAN_CHAIN2_WIDTH)
  BY DEF ScanInv, TypeOK
<1>2. /\ ChainInForce' = ChainInForce /\ Ice' = Ice /\ Injected' = <<>>
      /\ scan_n_q' = scan_n_q
  BY <1>1, RestStays
<1>3. ~OpenDR /\ ~OpenIR /\ OpenDR' /\ ~OpenIR' /\ ir_hold_q' = ir_hold_q
  BY <1>1, TapMoves DEF TypeOK
<1>4. DrKind' = DrKind /\ DrKind \in Kinds
  BY <1>2, <1>3, KindStays, DrKindTyped
<1>5. Line = <<>> /\ Line' = Seen(DrKind, dr_shift_q') /\ InForce' = InForce
  BY <1>3, <1>4, SelectedSeen DEF Line, InForce
<1>6. Path!Selected' = DrKind
  BY <1>3, <1>4, SelectedNext
<1>7. OpenIR' = OpenIR
  BY <1>3 DEF OpenIR
<1>8. PICK data \in Vector(DataBits + 1) : dr_shift_q' = Capture(data)
  BY DEF Tap, DataPath, scan_re
<1>9. replied' = (replied /\ DrKind = "chain2")
  BY <1>1, KindMeans DEF Tap, DataPath, scan_re, scan_we
<1>10. dr_shift_q' \in Vector(SCAN_CHAIN2_WIDTH)
  BY DEF TypeOK
<1>11. /\ DataBits \in 1 .. SCAN_CHAIN2_WIDTH /\ ScanBits \in 1 .. SCAN_CHAIN2_WIDTH
       /\ DataBits + 1 \in 1 .. SCAN_CHAIN2_WIDTH
       /\ SCAN_CHAIN2_WIDTH \in 1 .. SCAN_CHAIN2_WIDTH /\ 1 \in 1 .. SCAN_CHAIN2_WIDTH
  BY Widths
<1>12. Line' # <<>>
  BY <1>4, <1>5, <1>10, <1>11, SeenFacts DEF Seen, Kinds
<1>13. Reply' = IF DrKind = "chain2" THEN Reply ELSE <<>>
  <2>1. CASE DrKind = "chain2"
    <3>1. dr_shift_q' = dr_shift_q
      BY <1>8, <2>1, KindMeans, ChainsApart DEF Capture
    <3>2. replied' = replied
      BY <1>1, <1>9, <2>1
    <3> QED BY <2>1, <3>1, <3>2 DEF Reply, Cells
  <2>2. CASE DrKind # "chain2"
    BY <1>9, <2>2 DEF Reply
  <2> QED BY <2>1, <2>2
<1>14. Path!Captured(Line')
  <2>1. CASE DrKind = "id"
    <3>1. dr_shift_q' = Wide(JTAG_IDCODE)
      BY <1>8, <2>1, KindMeans DEF Capture
    <3>2. \A i \in 0 .. DataBits - 1 : Wide(JTAG_IDCODE)[i] = JTAG_IDCODE[i]
      BY Widths, CodeAssumption DEF Wide, Vector
    <3>3. Line' = Word(JTAG_IDCODE, DataBits)
      <4>1. Line' = Word(Wide(JTAG_IDCODE), DataBits)
        BY <1>5, <2>1, <3>1 DEF Seen
      <4>2. \A k \in 1 .. DataBits : Wide(JTAG_IDCODE)[k - 1] = JTAG_IDCODE[k - 1]
        BY <3>2, Widths
      <4> QED BY <4>1, <4>2 DEF Word
    <3> QED BY <1>6, <2>1, <3>3 DEF Path!Captured
  <2>2. CASE DrKind = "scan_n"
    <3>1. dr_shift_q' = Wide(One(ScanBits, ScanBits - 1))
      BY <1>8, <2>2, KindMeans DEF Capture
    <3>2. \A i \in 0 .. ScanBits - 1 :
             Wide(One(ScanBits, ScanBits - 1))[i] = IF i = ScanBits - 1 THEN 1 ELSE 0
      BY Widths DEF Wide, One
    <3>3. Line' = [k \in 1 .. ScanBits |-> IF k = ScanBits THEN 1 ELSE 0]
      BY <1>5, <2>2, <3>1, <3>2, Widths DEF Seen, Word
    <3> QED BY <1>6, <2>2, <3>3 DEF Path!Captured
  <2>3. CASE DrKind = "chain1"
    <3>1. Line' \in [1 .. DataBits + 1 -> Bit]
      BY <1>5, <1>10, <1>11, <2>3, SeenFacts DEF Seen
    <3> QED BY <1>6, <2>3, <3>1 DEF Path!Captured, Path!Words, Path!Bit, Bit
  <2>4. CASE DrKind = "chain2"
    <3>1. Line' \in [1 .. SCAN_CHAIN2_WIDTH -> Bit]
      BY <1>5, <1>10, <1>11, <2>4, SeenFacts DEF Seen
    <3>2. Path!Chain2 = SCAN_CHAIN2_WIDTH
      BY DEF Path!Chain2, SCAN_CHAIN2_WIDTH
    <3>3. dr_shift_q' = dr_shift_q
      BY <1>8, <2>4, KindMeans, ChainsApart DEF Capture
    <3>4. Line' = Queue(dr_shift_q, SCAN_CHAIN2_WIDTH)
      BY <1>5, <2>4, <3>3 DEF Seen
    <3>5. Reply # <<>> => Line' = Reply
      BY <3>4, ReplyIsCells
    <3> QED BY <1>6, <2>4, <3>1, <3>2, <3>5 DEF Path!Captured, Path!Words, Path!Bit, Bit
  <2>5. CASE DrKind \in {"zero", "bypass"}
    <3>1. dr_shift_q' = Zero(SCAN_CHAIN2_WIDTH)
      BY <1>8, <2>5, KindMeans DEF Capture
    <3>2. Line' = <<0>>
      BY <1>5, <2>5, <3>1, Widths DEF Seen, Word, Zero
    <3> QED BY <1>6, <2>5, <3>2 DEF Path!Captured
  <2> QED BY <1>4, <2>1, <2>2, <2>3, <2>4, <2>5 DEF Kinds
<1>15. Path!Selected' # "ir"
  BY <1>4, <1>6 DEF Kinds
<1> QED BY <1>2, <1>5, <1>6, <1>7, <1>12, <1>13, <1>14, <1>15 DEF Path!Open

LEMMA ShiftDrRefines ==
    ASSUME ScanInv, NEW tms \in BOOLEAN, NEW tdi \in Bit, Tap(tms, tdi),
           tap_q = "SDR", Path!Answers(DBGTDO)
    PROVE  Path!Shift
<1>1. TypeOK /\ replied \in BOOLEAN
  BY DEF ScanInv, TypeOK
<1>2. /\ ChainInForce' = ChainInForce /\ Ice' = Ice /\ Injected' = <<>>
      /\ scan_n_q' = scan_n_q
  BY <1>1, RestStays
<1>3. OpenDR /\ ~OpenIR /\ OpenDR' /\ ~OpenIR' /\ ir_hold_q' = ir_hold_q
  BY <1>1, TapMoves DEF TypeOK
<1>4. DrKind' = DrKind /\ DrKind \in Kinds
  BY <1>2, <1>3, KindStays, DrKindTyped
<1>5. dr_shift_q' = ShiftDR(tdi) /\ ~replied'
  BY DEF Tap, DataPath, scan_re, scan_we
<1>6. /\ Line = Seen(DrKind, dr_shift_q) /\ Line' = Seen(DrKind, ShiftDR(tdi))
      /\ InForce' = InForce /\ Reply' = <<>>
  BY <1>3, <1>4, <1>5, SelectedSeen DEF Line, InForce, Reply
<1>7. Path!Selected = DrKind
  BY <1>1, <1>3, SelectedNow
<1>8. OpenIR' = OpenIR
  BY <1>3 DEF OpenIR
<1>9. Line # <<>> /\ Head(Line) = DBGTDO
  BY <1>6, SeenHead
<1>10. Line' = IF DrKind = "zero" THEN Line ELSE Append(Tail(Line), tdi)
  BY <1>6, SeenHead, ScanShifts
<1>11. DrKind # "ir"
  BY <1>4 DEF Kinds
<1> QED BY <1>2, <1>6, <1>7, <1>8, <1>9, <1>10, <1>11
        DEF Path!Shift, Path!Bit, Bit

(* Chain 2 at Update-DR: the fields of the queue are those of the register. *)
LEMMA LineFields ==
    ASSUME TypeOK, Line = Queue(dr_shift_q, SCAN_CHAIN2_WIDTH)
    PROVE  /\ Path!LineWrites <=> dr_shift_q[0] = 1
           /\ Path!LineAddr \in [1 .. AddrBits -> Bit]
           /\ Vec(Path!LineAddr) = scan_addr
           /\ Path!LineData = Word(scan_wdata, DataBits)
           /\ \A k \in 1 .. AddrBits : Path!LineAddr[k] = dr_shift_q[1 + AddrBits - k]
<1>1. /\ dr_shift_q \in [0 .. SCAN_CHAIN2_WIDTH - 1 -> Bit]
      /\ \A i \in 0 .. SCAN_CHAIN2_WIDTH - 1 : dr_shift_q[i] \in Bit
  BY DEF TypeOK, Vector
<1>2. /\ SCAN_CHAIN2_WIDTH = 1 + AddrBits + DataBits
      /\ AddrBits \in Nat \ {0} /\ DataBits \in Nat \ {0}
      /\ SCAN_CHAIN2_WIDTH \in Nat
  BY Widths
<1>3. /\ Line \in Seq(Bit) /\ Len(Line) = SCAN_CHAIN2_WIDTH
      /\ \A k \in 1 .. SCAN_CHAIN2_WIDTH : Line[k] = dr_shift_q[SCAN_CHAIN2_WIDTH - k]
  <2> DEFINE queue == Queue(dr_shift_q, SCAN_CHAIN2_WIDTH)
  <2>1. /\ queue \in Seq(Bit) /\ Len(queue) = SCAN_CHAIN2_WIDTH
        /\ \A k \in 1 .. SCAN_CHAIN2_WIDTH :
             queue[k] = dr_shift_q[SCAN_CHAIN2_WIDTH - k]
    BY <1>1, <1>2, QueueFacts
  <2>2. Line = queue
    OBVIOUS
  <2> HIDE DEF queue
  <2> QED BY <2>1, <2>2
<1>4. Path!Chain2 = SCAN_CHAIN2_WIDTH
  BY DEF Path!Chain2, SCAN_CHAIN2_WIDTH
<1>5. Path!LineWrites <=> dr_shift_q[0] = 1
  BY <1>2, <1>3, <1>4 DEF Path!LineWrites
<1> DEFINE addr == SubSeq(Line, DataBits + 1, DataBits + AddrBits)
<1>6. Path!LineAddr = addr
  BY DEF Path!LineAddr
<1>7. \A i \in DataBits + 1 .. DataBits + AddrBits : Line[i] \in Bit
  BY <1>2, <1>3
<1>8. /\ addr \in Seq(Bit) /\ Len(addr) = AddrBits
      /\ \A i \in 1 .. AddrBits : addr[i] = Line[DataBits + 1 + i - 1]
  <2>1. DataBits + 1 \in Int /\ DataBits + AddrBits \in Int
        /\ DataBits + 1 <= DataBits + AddrBits
        /\ (DataBits + AddrBits) - (DataBits + 1) + 1 = AddrBits
    BY <1>2
  <2> HIDE DEF addr
  <2>2. addr = SubSeq(Line, DataBits + 1, DataBits + AddrBits)
    BY DEF addr
  <2> QED BY <1>7, <2>1, <2>2, SubSeqProperties
<1> HIDE DEF addr
<1>9. \A k \in 1 .. AddrBits : addr[k] = dr_shift_q[1 + AddrBits - k]
  <2> SUFFICES ASSUME NEW k \in 1 .. AddrBits
               PROVE  addr[k] = dr_shift_q[1 + AddrBits - k]
    OBVIOUS
  <2>1. /\ DataBits + 1 + k - 1 = DataBits + k /\ DataBits + k \in 1 .. SCAN_CHAIN2_WIDTH
        /\ SCAN_CHAIN2_WIDTH - (DataBits + k) = 1 + AddrBits - k
    BY <1>2
  <2> QED BY <1>3, <1>8, <2>1
<1>10. addr \in [1 .. AddrBits -> Bit]
  BY <1>8
<1>11. Vec(addr) = scan_addr
  <2>1. \A i \in 0 .. AddrBits - 1 : addr[i + 1] = dr_shift_q[AddrBits - i]
    <3> SUFFICES ASSUME NEW i \in 0 .. AddrBits - 1
                 PROVE  addr[i + 1] = dr_shift_q[AddrBits - i]
      OBVIOUS
    <3>1. i + 1 \in 1 .. AddrBits /\ 1 + AddrBits - (i + 1) = AddrBits - i
      BY <1>2
    <3> QED BY <1>9, <3>1
  <2> QED BY <2>1 DEF Vec, scan_addr
<1>12. Path!LineData = Word(scan_wdata, DataBits)
  <2>1. ASSUME NEW k \in 1 .. DataBits
        PROVE  Line[DataBits + 1 - k] = scan_wdata[k - 1]
    <3>1. /\ DataBits + 1 - k \in 1 .. SCAN_CHAIN2_WIDTH /\ k - 1 \in 0 .. DataBits - 1
          /\ SCAN_CHAIN2_WIDTH - (DataBits + 1 - k) = 1 + AddrBits + (k - 1)
      BY <1>2
    <3> QED BY <1>3, <3>1 DEF scan_wdata
  <2> QED BY <2>1 DEF Path!LineData, Word
<1> QED BY <1>5, <1>6, <1>9, <1>10, <1>11, <1>12

(* A write: what reaches the register is what it keeps of the word.        *)
LEMMA WriteRefines ==
    ASSUME TypeOK, Line = Queue(dr_shift_q, SCAN_CHAIN2_WIDTH), dr_shift_q[0] = 1,
           regs' = [regs EXCEPT ![scan_addr] = Stored(scan_addr)], ~replied'
    PROVE  Path!Access
<1>1. /\ Path!LineWrites /\ Path!LineAddr \in [1 .. AddrBits -> Bit]
      /\ Vec(Path!LineAddr) = scan_addr /\ Path!LineData = Word(scan_wdata, DataBits)
  BY LineFields
<1>2. \A a \in [1 .. AddrBits -> Bit] : Vec(a) \in Addresses
  BY Widths DEF Vec, Addresses, Vector
<1>3. \A a, b \in [1 .. AddrBits -> Bit] : Vec(a) = Vec(b) => a = b
  <2> SUFFICES ASSUME NEW a \in [1 .. AddrBits -> Bit], NEW b \in [1 .. AddrBits -> Bit],
                      Vec(a) = Vec(b)
               PROVE  a = b
    OBVIOUS
  <2>1. ASSUME NEW k \in 1 .. AddrBits PROVE a[k] = b[k]
    <3>1. k - 1 \in 0 .. AddrBits - 1 /\ (k - 1) + 1 = k
      BY Widths
    <3>2. Vec(a)[k - 1] = a[k] /\ Vec(b)[k - 1] = b[k]
      BY <3>1 DEF Vec
    <3> QED BY <3>2
  <2>2. a = [k \in 1 .. AddrBits |-> a[k]] /\ b = [k \in 1 .. AddrBits |-> b[k]]
    OBVIOUS
  <2> QED BY <2>1, <2>2
<1>4. Path!Masked(Path!LineData, KeptCells[Path!LineAddr]) = Word(Stored(scan_addr), DataBits)
  <2>1. KeptCells[Path!LineAddr] = {i + 1 : i \in Kept[scan_addr]}
    BY <1>1 DEF KeptCells
  <2>2. DOMAIN Word(scan_wdata, DataBits) = 1 .. DataBits
    BY DEF Word
  <2>3. ASSUME NEW k \in 1 .. DataBits
        PROVE  (IF k \in {i + 1 : i \in Kept[scan_addr]}
                THEN Word(scan_wdata, DataBits)[k] ELSE 0) = Stored(scan_addr)[k - 1]
    <3>1. k - 1 \in 0 .. DataBits - 1
      BY Widths
    <3>2. Kept[scan_addr] \subseteq 0 .. DataBits - 1
      BY AccessTyped, CodeAssumption
    <3>3. k \in {i + 1 : i \in Kept[scan_addr]} <=> k - 1 \in Kept[scan_addr]
      BY <3>2, Widths
    <3> QED BY <3>1, <3>3 DEF Stored, Word
  <2> QED BY <1>1, <2>1, <2>2, <2>3 DEF Path!Masked, Word
<1>5. Ice' = [Ice EXCEPT ![Path!LineAddr] = Word(Stored(scan_addr), DataBits)]
  <2>1. ASSUME NEW a \in [1 .. AddrBits -> Bit]
        PROVE  regs'[Vec(a)] = IF a = Path!LineAddr THEN Stored(scan_addr) ELSE regs[Vec(a)]
    BY <1>1, <1>2, <1>3, <2>1 DEF TypeOK
  <2>2. Ice' = [a \in [1 .. AddrBits -> Bit] |-> Word(regs'[Vec(a)], DataBits)]
    BY DEF Ice, Vec, Word, Bit
  <2>3. Ice' = [a \in [1 .. AddrBits -> Bit] |->
                  IF a = Path!LineAddr THEN Word(Stored(scan_addr), DataBits)
                  ELSE Word(regs[Vec(a)], DataBits)]
    BY <2>1, <2>2
  <2>4. Ice = [a \in [1 .. AddrBits -> Bit] |-> Word(regs[Vec(a)], DataBits)]
    BY DEF Ice
  <2> QED BY <1>1, <2>3, <2>4
<1> QED BY <1>1, <1>4, <1>5 DEF Path!Access, Reply

(* A read: the answer queued is the register, its address and a zero.      *)
LEMMA ReadRefines ==
    ASSUME TypeOK, Line = Queue(dr_shift_q, SCAN_CHAIN2_WIDTH), dr_shift_q[0] # 1,
           dr_shift_q' = Answered, replied', regs' = regs
    PROVE  Path!Access
<1> DEFINE data == [k \in 1 .. DataBits |-> Ice[Path!LineAddr][DataBits + 1 - k]]
           addr == Path!LineAddr
           queue == Queue(Answered, SCAN_CHAIN2_WIDTH)
<1>1. /\ ~Path!LineWrites /\ addr \in [1 .. AddrBits -> Bit]
      /\ Vec(addr) = scan_addr
      /\ \A k \in 1 .. AddrBits : addr[k] = dr_shift_q[1 + AddrBits - k]
  BY LineFields
<1>2. /\ SCAN_CHAIN2_WIDTH = 1 + AddrBits + DataBits
      /\ AddrBits \in Nat \ {0} /\ DataBits \in Nat \ {0}
      /\ SCAN_CHAIN2_WIDTH \in Nat
  BY Widths
<1>3. /\ Answered \in [0 .. SCAN_CHAIN2_WIDTH - 1 -> Bit]
      /\ scan_addr \in Addresses /\ regs[scan_addr] \in [0 .. DataBits - 1 -> Bit]
      /\ DOMAIN dr_shift_q = 0 .. SCAN_CHAIN2_WIDTH - 1
  BY AccessTyped DEF TypeOK, Vector
<1>4. /\ queue \in Seq(Bit) /\ Len(queue) = SCAN_CHAIN2_WIDTH
      /\ \A k \in 1 .. SCAN_CHAIN2_WIDTH : queue[k] = Answered[SCAN_CHAIN2_WIDTH - k]
  BY <1>2, <1>3, QueueFacts
<1>5. /\ Answered[0] = 0
      /\ \A i \in 1 .. AddrBits : Answered[i] = dr_shift_q[i]
      /\ \A i \in 0 .. DataBits - 1 : Answered[1 + AddrBits + i] = regs[scan_addr][i]
  <2>1. Answered[0] = 0
    BY <1>2, <1>3 DEF Answered
  <2>2. \A i \in 1 .. AddrBits : Answered[i] = dr_shift_q[i]
    BY <1>2, <1>3 DEF Answered
  <2>3. ASSUME NEW i \in 0 .. DataBits - 1
        PROVE  Answered[1 + AddrBits + i] = regs[scan_addr][i]
    <3>1. /\ 1 + AddrBits + i \in DOMAIN dr_shift_q /\ 1 + AddrBits + i # 0
          /\ 1 + AddrBits + i \notin 1 .. AddrBits
          /\ (1 + AddrBits + i) - AddrBits - 1 = i
      BY <1>2, <1>3
    <3> QED BY <3>1 DEF Answered
  <2> QED BY <2>1, <2>2, <2>3
<1>6. \A k \in 1 .. DataBits : data[k] = regs[scan_addr][DataBits - k]
  <2> SUFFICES ASSUME NEW k \in 1 .. DataBits
               PROVE  data[k] = regs[scan_addr][DataBits - k]
    OBVIOUS
  <2>1. Ice[addr] = Word(regs[scan_addr], DataBits)
    BY <1>1 DEF Ice
  <2>2. DataBits + 1 - k \in 1 .. DataBits /\ (DataBits + 1 - k) - 1 = DataBits - k
    BY <1>2
  <2>3. Word(regs[scan_addr], DataBits)[DataBits + 1 - k] = regs[scan_addr][DataBits - k]
    BY <2>2 DEF Word
  <2> QED BY <2>1, <2>3
<1>7. data \in Seq(Bit) /\ Len(data) = DataBits
  <2>1. ASSUME NEW k \in 1 .. DataBits PROVE data[k] \in Bit
    <3>1. DataBits - k \in 0 .. DataBits - 1
      BY <1>2
    <3> HIDE DEF data
    <3> QED BY <1>3, <1>6, <3>1
  <2>2. data \in [1 .. DataBits -> Bit]
    BY <2>1
  <2> HIDE DEF data
  <2> QED BY <1>2, <2>2
<1>8. addr \in Seq(Bit) /\ Len(addr) = AddrBits
  BY <1>1, <1>2
<1>9. <<0>> \in Seq(Bit) /\ Len(<<0>>) = 1 /\ <<0>>[1] = 0
  BY DEF Bit
<1> HIDE DEF data, addr, queue
<1>10. /\ data \o addr \in Seq(Bit) /\ Len(data \o addr) = DataBits + AddrBits
       /\ \A i \in 1 .. DataBits + AddrBits :
             (data \o addr)[i] = IF i <= DataBits THEN data[i] ELSE addr[i - DataBits]
  BY <1>7, <1>8, ConcatProperties
<1> DEFINE both == data \o addr
           answer == both \o <<0>>
<1>11. both \in Seq(Bit) /\ Len(both) = DataBits + AddrBits
  BY <1>10
<1>12. \A i \in 1 .. DataBits + AddrBits :
         both[i] = IF i <= DataBits THEN data[i] ELSE addr[i - DataBits]
  BY <1>10
<1> HIDE DEF both
<1>13. /\ answer \in Seq(Bit) /\ Len(answer) = SCAN_CHAIN2_WIDTH
       /\ \A i \in 1 .. SCAN_CHAIN2_WIDTH :
            answer[i] = IF i <= DataBits + AddrBits THEN both[i]
                        ELSE <<0>>[i - (DataBits + AddrBits)]
  <2>1. /\ answer \in Seq(Bit) /\ Len(answer) = Len(both) + Len(<<0>>)
        /\ \A i \in 1 .. Len(both) + Len(<<0>>) :
            answer[i] = IF i <= Len(both) THEN both[i] ELSE <<0>>[i - Len(both)]
    BY <1>9, <1>11, ConcatProperties
  <2>2. Len(both) + Len(<<0>>) = SCAN_CHAIN2_WIDTH
    BY <1>2, <1>9, <1>11
  <2> QED BY <1>11, <2>1, <2>2
<1> HIDE DEF answer
<1>14. ASSUME NEW k \in 1 .. SCAN_CHAIN2_WIDTH PROVE queue[k] = answer[k]
  <2>1. queue[k] = Answered[SCAN_CHAIN2_WIDTH - k]
    BY <1>4
  <2>2. CASE k <= DataBits
    <3>1. /\ k \in 1 .. DataBits /\ k <= DataBits + AddrBits
          /\ DataBits - k \in 0 .. DataBits - 1
          /\ SCAN_CHAIN2_WIDTH - k = 1 + AddrBits + (DataBits - k)
      BY <1>2, <2>2
    <3>2. answer[k] = data[k]
      BY <1>2, <1>12, <1>13, <2>2, <3>1
    <3> QED BY <1>5, <1>6, <2>1, <3>1, <3>2
  <2>3. CASE DataBits < k /\ k <= DataBits + AddrBits
    <3>1. /\ k - DataBits \in 1 .. AddrBits
          /\ SCAN_CHAIN2_WIDTH - k = 1 + AddrBits - (k - DataBits)
          /\ SCAN_CHAIN2_WIDTH - k \in 1 .. AddrBits
      BY <1>2, <2>3
    <3>2. answer[k] = addr[k - DataBits]
      BY <1>2, <1>12, <1>13, <2>3
    <3>3. addr[k - DataBits] = dr_shift_q[1 + AddrBits - (k - DataBits)]
      BY <1>1, <3>1 DEF addr
    <3> QED BY <1>5, <2>1, <3>1, <3>2, <3>3
  <2>4. CASE k = SCAN_CHAIN2_WIDTH
    <3>1. /\ ~(k <= DataBits + AddrBits) /\ k - (DataBits + AddrBits) = 1
          /\ SCAN_CHAIN2_WIDTH - k = 0
      BY <1>2, <2>4
    <3>2. answer[k] = 0
      BY <1>9, <1>13, <3>1
    <3> QED BY <1>5, <2>1, <3>1, <3>2
  <2> QED BY <1>2, <2>2, <2>3, <2>4
<1>15. queue = answer
  BY <1>4, <1>13, <1>14, SeqEqual
<1>16. Reply' = queue
  BY DEF Reply, Cells, Queue, queue, SCAN_CHAIN2_WIDTH
<1>17. Reply' = data \o addr \o <<0>>
  BY <1>15, <1>16 DEF answer, both
<1>18. Ice' = Ice
  BY DEF Ice, Vec, Word, Bit
<1> QED BY <1>1, <1>17, <1>18 DEF Path!Access, data, addr

LEMMA UpdateDrRefines ==
    ASSUME ScanInv, NEW tms \in BOOLEAN, NEW tdi \in Bit, Tap(tms, tdi),
           tap_q = "UDR", Path!Answers(Path!HighZ)
    PROVE  Path!Deliver
<1>1. /\ TypeOK /\ replied \in BOOLEAN
      /\ dr_shift_q \in [0 .. SCAN_CHAIN2_WIDTH - 1 -> Bit]
      /\ dr_shift_q \in Vector(SCAN_CHAIN2_WIDTH)
  BY DEF ScanInv, TypeOK, Vector
<1>2. OpenDR /\ ~OpenIR /\ ~OpenDR' /\ ~OpenIR' /\ ir_hold_q' = ir_hold_q
  BY <1>1, TapMoves DEF TypeOK
<1>3. DrKind \in Kinds
  BY DrKindTyped
<1>4. /\ Line = Seen(DrKind, dr_shift_q) /\ Line' = <<>> /\ InForce' = InForce
  BY <1>2, SelectedSeen DEF Line, InForce
<1>5. Path!Selected = DrKind /\ DrKind # "ir"
  BY <1>1, <1>2, <1>3, SelectedNow DEF Kinds
<1>6. Line # <<>>
  BY <1>4, SeenHead
<1>7. ChainInForce' = IF DrKind = "scan_n" THEN Line ELSE ChainInForce
  <2>1. CASE DrKind = "scan_n"
    <3>1. scan_n_q' = Low(dr_shift_q, ScanBits)
      BY <2>1, KindMeans DEF Tap, DataPath
    <3>2. Word(Low(dr_shift_q, ScanBits), ScanBits) = Word(dr_shift_q, ScanBits)
      BY Widths DEF Word, Low
    <3> QED BY <1>4, <2>1, <3>1, <3>2 DEF ChainInForce, Seen
  <2>2. CASE DrKind # "scan_n"
    <3>1. scan_n_q' = scan_n_q
      BY <2>2, KindMeans DEF Tap, DataPath
    <3> QED BY <2>2, <3>1 DEF ChainInForce
  <2> QED BY <2>1, <2>2
<1>8. Injected' = IF DrKind = "chain1" THEN Line ELSE <<>>
  <2>1. CASE DrKind = "chain1"
    <3>1. inject' = Low(dr_shift_q, DataBits + 1)
      BY <2>1, KindMeans DEF Tap, ice_inject_we
    <3>2. inject' \in [0 .. DataBits -> Bit] /\ DataBits \in Nat
      BY <1>1, <3>1, Widths DEF Low
    <3>3. inject' # <<>>
      <4>1. 0 \in DOMAIN inject'
        BY <3>2
      <4>2. 0 \notin DOMAIN <<>>
        OBVIOUS
      <4> QED BY <4>1, <4>2
    <3>4. \A k \in 1 .. DataBits + 1 :
             Low(dr_shift_q, DataBits + 1)[DataBits + 1 - k] = dr_shift_q[DataBits + 1 - k]
      BY Widths DEF Low
    <3>5. Injected' = Queue(dr_shift_q, DataBits + 1)
      <4>1. Injected' = [k \in 1 .. DataBits + 1 |-> inject'[DataBits + 1 - k]]
        BY <3>3 DEF Injected
      <4>2. \A k \in 1 .. DataBits + 1 :
               inject'[DataBits + 1 - k] = dr_shift_q[DataBits + 1 - k]
        BY <3>1, <3>4
      <4>3. Queue(dr_shift_q, DataBits + 1)
              = [k \in 1 .. DataBits + 1 |-> dr_shift_q[DataBits + 1 - k]]
        BY <3>2 DEF Queue
      <4> QED BY <4>1, <4>2, <4>3
    <3> QED BY <1>4, <2>1, <3>5 DEF Seen
  <2>2. CASE DrKind # "chain1"
    BY <2>2, KindMeans DEF Tap, ice_inject_we, Injected
  <2> QED BY <2>1, <2>2
<1>9. CASE DrKind = "chain2"
  <2>1. Line = Queue(dr_shift_q, SCAN_CHAIN2_WIDTH)
    BY <1>4, <1>9 DEF Seen
  <2>2. Chain(2)
    BY <1>9, KindMeans
  <2>3. Path!Access
    <3>1. CASE dr_shift_q[0] = 1
      <4>1. /\ regs' = [regs EXCEPT ![scan_addr] = Stored(scan_addr)] /\ ~replied'
        BY <2>2, <3>1 DEF Tap, DataPath, scan_we, scan_re
      <4> QED BY <1>1, <2>1, <3>1, <4>1, WriteRefines
    <3>2. CASE dr_shift_q[0] # 1
      <4>1. dr_shift_q[0] = 0
        BY <1>1, <3>2, Widths DEF Bit
      <4>2. regs' = regs /\ dr_shift_q' = Answered /\ replied'
        BY <2>2, <4>1 DEF Tap, DataPath, scan_we, scan_re
      <4> QED BY <1>1, <2>1, <3>2, <4>2, ReadRefines
    <3> QED BY <3>1, <3>2
  <2> QED BY <1>2, <1>4, <1>5, <1>6, <1>7, <1>8, <1>9, <2>3 DEF Path!Deliver
<1>10. CASE DrKind # "chain2"
  <2>1. ~scan_we /\ ~scan_re
    BY <1>10, KindMeans DEF scan_we, scan_re
  <2>2. regs' = regs /\ dr_shift_q' = dr_shift_q /\ replied' = replied
    BY <1>1, <2>1 DEF Tap, DataPath
  <2>3. Ice' = Ice /\ Reply' = Reply
    BY <2>2 DEF Ice, Reply, Cells
  <2> QED BY <1>2, <1>4, <1>5, <1>6, <1>7, <1>8, <1>10, <2>3 DEF Path!Deliver
<1> QED BY <1>9, <1>10

-----------------------------------------------------------------------------
(* The steps together, and the other edges.                                *)

LEMMA NoChainInit == Init => NoChainEmpty
BY DEF Init, NoChainEmpty, OpenDR

LEMMA NoChainTap ==
    ASSUME ScanInv, NEW tms \in BOOLEAN, NEW tdi \in Bit, Tap(tms, tdi)
    PROVE  NoChainEmpty'
<1> SUFFICES ASSUME OpenDR', NoChain' PROVE dr_shift_q'[0] = 0
  BY DEF NoChainEmpty
<1>1. TypeOK /\ tap_q \in TapStates /\ replied \in BOOLEAN
  BY DEF ScanInv, TypeOK
<1>2. tap_q \in {"CDR", "SDR", "E1DR", "PDR", "E2DR"}
  BY <1>1, TapMoves DEF TapStates, Columns
<1>3. ir_hold_q' = ir_hold_q /\ scan_n_q' = scan_n_q
  BY <1>1, <1>2, TapMoves, RestStays
<1>4. NoChain /\ DrKind = "zero"
  BY <1>3, KindMeans DEF NoChain, Chain
<1>5. CASE tap_q = "CDR"
  <2>1. PICK data \in Vector(DataBits + 1) : dr_shift_q' = Capture(data)
    BY <1>5 DEF Tap, DataPath, scan_re
  <2>2. dr_shift_q' = Zero(SCAN_CHAIN2_WIDTH)
    BY <1>4, <2>1, KindMeans DEF Capture
  <2> QED BY <2>2, Widths DEF Zero
<1>6. CASE tap_q = "SDR"
  <2>1. dr_shift_q' = ShiftDR(tdi)
    BY <1>6 DEF Tap, DataPath, scan_re
  <2>2. dr_shift_q' = Zero(SCAN_CHAIN2_WIDTH)
    BY <1>4, <2>1, KindMeans DEF ShiftDR
  <2> QED BY <2>2, Widths DEF Zero
<1>7. CASE tap_q \in {"E1DR", "PDR", "E2DR"}
  <2>1. dr_shift_q' = dr_shift_q
    BY <1>1, <1>7, RestStays
  <2>2. OpenDR
    BY <1>7 DEF OpenDR
  <2> QED BY <1>4, <2>1, <2>2 DEF ScanInv, NoChainEmpty
<1> QED BY <1>2, <1>5, <1>6, <1>7

LEMMA ScanInvStep == ScanInv /\ [Next]_vars => ScanInv'
<1> SUFFICES ASSUME ScanInv, [Next]_vars PROVE NoChainEmpty'
  BY TypeStep DEF ScanInv
<1>1. CASE Step
  BY <1>1, NoChainTap DEF Step
<1>2. CASE IdleEdge
  BY <1>2 DEF IdleEdge, Idle, tap, ScanInv, NoChainEmpty, OpenDR, NoChain, Chain
<1>3. CASE DBGnTRST
  BY <1>3 DEF DBGnTRST, NoChainEmpty, OpenDR
<1>4. CASE UNCHANGED vars
  BY <1>4 DEF vars, tap, ScanInv, NoChainEmpty, OpenDR, NoChain, Chain
<1> QED BY <1>1, <1>2, <1>3, <1>4 DEF Next

LEMMA StepRefinesPath ==
    ASSUME ScanInv, TypeOK', Step
    PROVE  Path!Next
<1>1. PICK tms \in BOOLEAN, rsp_ready \in BOOLEAN, tdi \in Bit :
        /\ enabled /\ slot_available(rsp_ready) /\ Tap(tms, tdi) /\ Heard(rsp_ready)
        /\ response' = <<DBGTDO, tap_q \in {"SDR", "SIR"}>> /\ enabled' \in BOOLEAN
  BY DEF Step
<1>2. TypeOK /\ (tap_q \in {"SDR", "SIR"}) \in BOOLEAN
  BY DEF ScanInv
<1>3. tap_q \in {"SDR", "SIR"} => Path!Answers(DBGTDO)
  BY <1>1, <1>2, StepAnswers
<1>4. tap_q \notin {"SDR", "SIR"} => Path!Answers(Path!HighZ)
  <2>1. Path!HighZ = 2
    BY DEF Path!HighZ
  <2> QED BY <1>1, <1>2, <2>1, StepAnswers
<1>5. CASE tap_q = "CDR"
  BY <1>1, <1>4, <1>5, CaptureDrRefines DEF Path!Next
<1>6. CASE tap_q = "SDR"
  BY <1>1, <1>3, <1>6, ShiftDrRefines DEF Path!Next
<1>7. CASE tap_q = "UDR"
  BY <1>1, <1>4, <1>7, UpdateDrRefines DEF Path!Next
<1>8. CASE tap_q = "CIR"
  BY <1>1, <1>4, <1>8, CaptureIrRefines DEF Path!Next
<1>9. CASE tap_q = "SIR"
  BY <1>1, <1>3, <1>9, ShiftIrRefines DEF Path!Next
<1>10. CASE tap_q = "UIR"
  BY <1>1, <1>4, <1>10, UpdateIrRefines DEF Path!Next
<1>11. CASE tap_q \notin {"CDR", "SDR", "UDR", "CIR", "SIR", "UIR"}
  BY <1>1, <1>4, <1>11, MoveRefines DEF Path!Next
<1> QED BY <1>5, <1>6, <1>7, <1>8, <1>9, <1>10, <1>11

LEMMA TapMapped ==
    ASSUME UNCHANGED tap
    PROVE  UNCHANGED <<InForce, ChainInForce, Line, OpenIR, Reply, Ice>>
<1> USE DEF tap
<1>1. UNCHANGED <<InForce, ChainInForce, OpenIR>>
  BY DEF InForce, ChainInForce, OpenIR
<1>2. UNCHANGED <<Reply, Ice>>
  BY DEF Reply, Ice, Cells
<1>3. SelectedCells' = SelectedCells
  BY SelectedSeen, KindStays
<1>4. Line' = Line
  BY <1>3 DEF Line, OpenIR, OpenDR
<1> QED BY <1>1, <1>2, <1>4

LEMMA IdleRefines ==
    ASSUME TypeOK, IdleEdge
    PROVE  Path!Idle
<1>1. PICK rsp_ready \in BOOLEAN :
        /\ response' = IF enabled /\ ~slot_available(rsp_ready) THEN response ELSE <<>>
        /\ Heard(rsp_ready) /\ inject' = <<>> /\ enabled' \in BOOLEAN /\ UNCHANGED tap
  BY DEF IdleEdge, Idle
<1>2. UNCHANGED <<InForce, ChainInForce, Line, OpenIR, Reply, Ice>>
  BY <1>1, TapMapped
<1>3. Injected' = <<>>
  BY <1>1 DEF Injected
<1>4. \/ response = <<>>
      \/ response # <<>> /\ response[1] \in Bit /\ response[2] \in BOOLEAN
  BY DEF TypeOK
<1>5. \/ Answer' = (IF enabled' THEN Answer ELSE 3) /\ heard' = heard
      \/ Answer # 3 /\ Answer' = 3 /\ heard' = 1 - heard
  <2>1. CASE ~enabled \/ response = <<>>
    BY <1>1, <2>1 DEF Answer, Heard, Takes
  <2>2. CASE enabled /\ response # <<>> /\ rsp_ready
    BY <1>1, <1>4, <2>2 DEF Answer, Heard, Takes, slot_available, Bit
  <2>3. CASE enabled /\ response # <<>> /\ ~rsp_ready
    BY <1>1, <2>3 DEF Answer, Heard, Takes, slot_available
  <2> QED BY <2>1, <2>2, <2>3
<1> QED BY <1>1, <1>2, <1>3, <1>5 DEF Path!Idle, Path!NoAnswer

LEMMA ResetRegisters ==
    /\ Word(Zero(ScanBits), ScanBits) = Path!Zeros(ScanBits)
    /\ \A r : r = [a \in Addresses |-> Zero(DataBits)] =>
         [a \in [1 .. AddrBits -> Bit] |-> Word(r[Vec(a)], DataBits)]
           = [a \in [1 .. AddrBits -> Bit] |-> Path!Zeros(DataBits)]
<1>1. \A n \in Nat : Word(Zero(n), n) = Path!Zeros(n)
  BY DEF Word, Zero, Path!Zeros
<1>2. \A a \in [1 .. AddrBits -> Bit] : Vec(a) \in Addresses
  BY Widths DEF Vec, Addresses, Vector
<1> QED BY <1>1, <1>2, Widths

LEMMA InitRefines == Init => Path!Init
<1> SUFFICES ASSUME Init PROVE Path!Init
  OBVIOUS
<1>1. /\ InForce = Word(IDCODE, IrBits) /\ Line = <<>> /\ OpenIR = FALSE
      /\ Reply = <<>> /\ Injected = <<>> /\ Answer = 3
  BY DEF Init, InForce, Line, OpenIR, OpenDR, Reply, Injected, Answer
<1>2. ChainInForce = Path!Zeros(ScanBits)
  BY ResetRegisters DEF Init, ChainInForce
<1>3. Ice = [a \in [1 .. AddrBits -> Bit] |-> Path!Zeros(DataBits)]
  BY ResetRegisters DEF Init, Ice
<1> QED BY <1>1, <1>2, <1>3
        DEF Init, Path!Init, Path!NoAnswer, Path!Words, Path!Bit, Bit

LEMMA ResetRefines ==
    ASSUME DBGnTRST
    PROVE  Path!Reset
<1>1. /\ InForce' = Word(IDCODE, IrBits) /\ Line' = <<>> /\ OpenIR' = FALSE
      /\ Reply' = <<>> /\ Injected' = <<>> /\ Answer' = Answer
  BY DEF DBGnTRST, InForce, Line, OpenIR, OpenDR, Reply, Injected, Answer
<1>2. ChainInForce' = Path!Zeros(ScanBits)
  BY ResetRegisters DEF DBGnTRST, ChainInForce
<1>3. Ice' = [a \in [1 .. AddrBits -> Bit] |-> Word(regs'[Vec(a)], DataBits)]
  BY DEF Ice, Vec, Word, Bit
<1>4. Ice' = [a \in [1 .. AddrBits -> Bit] |-> Path!Zeros(DataBits)]
  BY <1>3, ResetRegisters DEF DBGnTRST
<1> QED BY <1>1, <1>2, <1>4
        DEF DBGnTRST, Path!Reset, Path!Words, Path!Bit, Bit

LEMMA NextRefines ==
    ScanInv /\ TypeOK' /\ [Next]_vars => [Path!Next]_(Path!vars)
<1> SUFFICES ASSUME ScanInv, TypeOK', [Next]_vars PROVE [Path!Next]_(Path!vars)
  OBVIOUS
<1>1. CASE Step
  BY <1>1, StepRefinesPath
<1>2. CASE IdleEdge
  BY <1>2, IdleRefines DEF Path!Next, ScanInv
<1>3. CASE DBGnTRST
  BY <1>3, ResetRefines DEF Path!Next
<1>4. CASE UNCHANGED vars
  <2>1. UNCHANGED <<InForce, ChainInForce, Line, OpenIR, Reply, Ice>>
    BY <1>4, TapMapped DEF vars
  <2>2. UNCHANGED <<Injected, Answer, enabled, heard>>
    BY <1>4 DEF vars, Injected, Answer
  <2> QED BY <2>1, <2>2 DEF Path!vars
<1> QED BY <1>1, <1>2, <1>3, <1>4 DEF Next

(* The TAP behind the step port is a scan path, for all widths, codes and   *)
(* kept bits.                                                              *)
THEOREM TapIsScanPath == Spec => ScanPathSpec
<1>1. Init => ScanInv
  BY TypeInit, NoChainInit DEF ScanInv
<1>2. ScanInv' => TypeOK'
  BY DEF ScanInv
<1> QED BY <1>1, <1>2, ScanInvStep, InitRefines, NextRefines, PTL
        DEF Spec, ScanPathSpec, Path!Spec

(* ---------------------- Communications channel ------------------------- *)

Filled(b) == IF b THEN 1 ELSE 0

(* Words under way: one in TX and one in the scan register; one in RX.     *)
WordsCounted ==
    /\ tx_put = tx_got + Filled(dcc_tx_full) + Filled(WordShifted)
    /\ dcc_tx_full => dcc_tx_data = tx_put
    /\ WordShifted => chain2.data = tx_got + 1
    /\ rx_put = rx_got + Filled(dcc_rx_full)
    /\ dcc_rx_full => dcc_rx_data = rx_put
    /\ tx_put <= MaxWords /\ rx_put <= MaxWords

(* What either end has seen of the other's flag still holds.               *)
SightsCurrent ==
    /\ ~seen_w => ~dcc_tx_full
    /\ seen_r => dcc_rx_full
    /\ may_write => ~dcc_rx_full
    /\ chain2.of = "status" /\ ~chain2.flag => ~dcc_rx_full

(* A transfer in Execute is one the program may make, and it can complete. *)
TransfersReady ==
    /\ insn = "mcr" => ~seen_w /\ tx_put < MaxWords
    /\ insn = "mrc" => seen_r
    /\ insn \in Transfers => ~halted
    /\ again \notin Transfers

CommsInv == CommsTypeOK /\ WordsCounted /\ SightsCurrent /\ TransfersReady

(* What one edge does on the processor side.                               *)
Sends(clken) ==
    /\ core_dcc_we(clken) /\ ~core_dcc_re(clken)
    /\ tx_put' = tx_put + 1 /\ seen_w' = TRUE
    /\ UNCHANGED <<seen_r, rx_got, rx_last, again>> /\ Follows(insn')
Consumes(clken) ==
    /\ core_dcc_re(clken) /\ ~core_dcc_we(clken)
    /\ rx_got' = rx_got + 1 /\ rx_last' = dcc_rx_data /\ seen_r' = FALSE
    /\ UNCHANGED <<seen_w, tx_put, again>> /\ Follows(insn')
Polls(clken) ==
    /\ ~core_dcc_we(clken) /\ ~core_dcc_re(clken)
    /\ seen_r' = dcc_rx_full /\ seen_w' = dcc_tx_full
    /\ UNCHANGED <<tx_put, rx_got, rx_last, again>> /\ Follows(insn')
Waits(clken) ==
    /\ ~core_dcc_we(clken) /\ ~core_dcc_re(clken)
    /\ UNCHANGED <<seen_r, seen_w, tx_put, rx_got, rx_last>>
    /\ \/ UNCHANGED <<insn, again>>
       \/ Follows(insn') /\ UNCHANGED again
       \/ insn' = "none" /\ again' \in {"none", "status"}
       \/ insn' = again /\ again' = "none"

LEMMA ProcessorCases ==
    ASSUME ~Interrupts, CommsInv, NEW clken \in BOOLEAN, Core(clken)
    PROVE  Sends(clken) \/ Consumes(clken) \/ Polls(clken) \/ Waits(clken)
<1> USE DEF core_dcc_we, core_dcc_re
<1>1. CASE ~(clken /\ ~halted)
  BY <1>1 DEF CommsInv, TransfersReady, Core, program, Transfers, Waits
<1>2. CASE clken /\ ~halted
  <2>1. CASE Complete
    <3>1. insn \in {"status", "mrc", "mcr"}
      BY <2>1 DEF CommsInv, CommsTypeOK, Complete, Transfers
    <3>2. CASE insn = "status"
      BY <2>1, <3>2 DEF Complete, Polls
    <3>3. CASE insn = "mrc"
      BY <1>2, <2>1, <3>3 DEF Complete, Consumes
    <3>4. CASE insn = "mcr"
      BY <1>2, <2>1, <3>4 DEF Complete, Sends
    <3> QED BY <3>1, <3>2, <3>3, <3>4
  <2>2. CASE Interrupted
    BY <2>2 DEF CommsInv, CommsTypeOK, Interrupted, Transfers, Waits
  <2>3. CASE Fetch
    BY <2>3 DEF Fetch, Waits
  <2> QED BY <1>2, <2>1, <2>2, <2>3 DEF Core
<1> QED BY <1>1, <1>2

LEMMA NoResponseType ==
    NoResponse \in [of : {"nothing", "status", "data"}, flag : BOOLEAN, data : 0 .. MaxWords]
BY WordsAssumption DEF NoResponse

LEMMA CommsInitInv == CommsInit => CommsInv
<1> SUFFICES ASSUME CommsInit PROVE CommsInv
  OBVIOUS
<1>1. ~WordShifted
  BY DEF CommsInit, WordShifted, NoResponse
<1>2. CommsTypeOK
  <2>1. chain2 \in [of : {"nothing", "status", "data"}, flag : BOOLEAN,
                      data : 0 .. MaxWords]
    BY NoResponseType DEF CommsInit
  <2>2. /\ dcc_tx_full \in BOOLEAN /\ dcc_tx_data \in 0 .. MaxWords
        /\ dcc_rx_full \in BOOLEAN /\ dcc_rx_data \in 0 .. MaxWords
    <3>1. dcc_tx_full = FALSE /\ dcc_tx_data = 0 /\ dcc_rx_full = FALSE /\ dcc_rx_data = 0
      BY DEF CommsInit
    <3>2. dcc_tx_data \in 0 .. MaxWords /\ dcc_rx_data \in 0 .. MaxWords
      BY <3>1, WordsAssumption
    <3>3. dcc_tx_full \in BOOLEAN /\ dcc_rx_full \in BOOLEAN
      BY <3>1
    <3> QED BY <3>2, <3>3
  <2>3. /\ insn \in Transfers \cup {"none", "status"}
        /\ again \in Transfers \cup {"none", "status"}
        /\ seen_r \in BOOLEAN /\ seen_w \in BOOLEAN /\ halted \in BOOLEAN
        /\ may_write \in BOOLEAN
    BY DEF CommsInit
  <2>4. /\ tx_put \in Nat /\ tx_got \in Nat /\ tx_last \in Nat
        /\ rx_put \in Nat /\ rx_got \in Nat /\ rx_last \in Nat
    BY DEF CommsInit
  <2> QED BY <2>1, <2>2, <2>3, <2>4 DEF CommsTypeOK
<1>3. WordsCounted
  BY WordsAssumption, <1>1 DEF CommsInit, WordsCounted, Filled
<1>4. SightsCurrent /\ TransfersReady
  BY DEF CommsInit, SightsCurrent, TransfersReady, NoResponse, Transfers
<1> QED BY <1>2, <1>3, <1>4 DEF CommsInv

(* What an access leaves in the scan register.                             *)
LEMMA ResponseStep ==
    ASSUME CommsTypeOK, NEW access \in Accesses, Debugger(access)
    PROVE  /\ chain2' \in [of : {"nothing", "status", "data"}, flag : BOOLEAN,
                             data : 0 .. MaxWords]
           /\ WordShifted' <=> (
               (access = "read" /\ dcc_tx_full) \/ (access = "none" /\ WordShifted))
           /\ may_write' \in BOOLEAN
<1>1. CASE access = "none"
  BY <1>1 DEF Debugger, host, CommsTypeOK, WordShifted
<1>2. CASE access = "write"
  <2>1. chain2' = NoResponse /\ may_write' = FALSE
    BY <1>2 DEF Debugger
  <2>2. ~WordShifted'
    BY <2>1 DEF WordShifted, NoResponse
  <2> QED BY <1>2, <2>1, <2>2, NoResponseType
<1>3. CASE access = "read"
  <2>1. chain2' = [of |-> "data", flag |-> dcc_tx_full, data |-> dcc_tx_data]
    BY <1>3 DEF Debugger
  <2>2. dcc_tx_full \in BOOLEAN
    BY DEF CommsTypeOK
  <2>3. WordShifted' <=> dcc_tx_full
    BY <2>1, <2>2 DEF WordShifted
  <2>4. may_write' \in BOOLEAN
    BY <1>3 DEF Debugger, SightOfR, CommsTypeOK
  <2>5. dcc_tx_data \in 0 .. MaxWords
    BY DEF CommsTypeOK
  <2>6. chain2' \in [of : {"nothing", "status", "data"}, flag : BOOLEAN,
                       data : 0 .. MaxWords]
    BY <2>1, <2>2, <2>5
  <2> QED BY <1>3, <2>3, <2>4, <2>6
<1>4. CASE access = "status"
  <2>1. chain2' = [of |-> "status", flag |-> dcc_rx_full, data |-> 0]
    BY <1>4 DEF Debugger
  <2>2. may_write' \in BOOLEAN
    BY <1>4 DEF Debugger, SightOfR, CommsTypeOK
  <2>3. ~WordShifted'
    BY <2>1 DEF WordShifted
  <2>4. chain2' \in [of : {"nothing", "status", "data"}, flag : BOOLEAN, data : 0 .. MaxWords]
    BY <2>1, WordsAssumption DEF CommsTypeOK
  <2> QED BY <1>4, <2>2, <2>3, <2>4
<1> QED BY <1>1, <1>2, <1>3, <1>4 DEF Accesses

(* What an access does to the counts.                                      *)
LEMMA CountStep ==
    ASSUME CommsTypeOK, NEW access \in Accesses, Debugger(access)
    PROVE  /\ tx_got' = tx_got + Filled(access # "none" /\ WordShifted)
           /\ tx_last' = IF access # "none" /\ WordShifted THEN chain2.data ELSE tx_last
           /\ rx_put' = rx_put + Filled(access = "write")
           /\ access = "write" => may_write /\ rx_put < MaxWords
<1>1. chain2.data \in 0 .. MaxWords
  BY DEF CommsTypeOK
<1> QED BY <1>1 DEF Debugger, host, ShiftOut, Filled, CommsTypeOK, Accesses

LEMMA CommsTypeStep ==
    ASSUME ~Interrupts, ~Halts, CommsInv, NEW clken \in BOOLEAN, NEW access \in Accesses,
           Edge(clken, access)
    PROVE  CommsTypeOK'
<1> USE WordsAssumption
<1>1. Sends(clken) \/ Consumes(clken) \/ Polls(clken) \/ Waits(clken)
  BY ProcessorCases DEF Edge
<1>2. dcc_tx_full' \in BOOLEAN /\ dcc_tx_data' \in 0 .. MaxWords
  BY DEF Edge, TxBuffer, core_dcc_we, CommsInv, CommsTypeOK, WordsCounted, TransfersReady
<1>3. dcc_rx_full' \in BOOLEAN /\ dcc_rx_data' \in 0 .. MaxWords
  BY CountStep DEF Edge, RxBuffer, CommsInv, CommsTypeOK, WordsCounted
<1>4. /\ insn' \in Transfers \cup {"none", "status"}
      /\ again' \in Transfers \cup {"none", "status"}
  BY <1>1 DEF CommsInv, CommsTypeOK, Sends, Consumes, Polls, Waits, Follows, Transfers
<1>5. seen_r' \in BOOLEAN /\ seen_w' \in BOOLEAN
  BY <1>1 DEF CommsInv, CommsTypeOK, Sends, Consumes, Polls, Waits
<1>6. tx_put' \in Nat /\ rx_got' \in Nat /\ rx_last' \in Nat
  BY <1>1 DEF CommsInv, CommsTypeOK, Sends, Consumes, Polls, Waits
<1>7. /\ chain2' \in [of : {"nothing", "status", "data"}, flag : BOOLEAN,
                        data : 0 .. MaxWords]
      /\ may_write' \in BOOLEAN
  BY ResponseStep DEF Edge, CommsInv
<1>8. tx_got' \in Nat /\ tx_last' \in Nat /\ rx_put' \in Nat
  <2>1. chain2.data \in Nat
    BY DEF CommsInv, CommsTypeOK
  <2> QED BY <2>1, CountStep DEF Edge, CommsInv, CommsTypeOK, Filled
<1>9. halted' \in BOOLEAN
  BY DEF Edge
<1> QED BY <1>2, <1>3, <1>4, <1>5, <1>6, <1>7, <1>8, <1>9 DEF CommsTypeOK

LEMMA CommsStepInv ==
    ASSUME ~Interrupts, ~Halts, CommsInv, NEW clken \in BOOLEAN, NEW access \in Accesses,
           Edge(clken, access)
    PROVE  CommsInv'
<1> USE WordsAssumption
<1>1. Sends(clken) \/ Consumes(clken) \/ Polls(clken) \/ Waits(clken)
  BY ProcessorCases DEF Edge
<1>2. CommsTypeOK'
  BY CommsTypeStep
<1> DEFINE Types == /\ tx_put \in Nat /\ tx_got \in Nat /\ rx_put \in Nat /\ rx_got \in Nat
                    /\ dcc_tx_full \in BOOLEAN /\ dcc_rx_full \in BOOLEAN
<1>13. Types
  BY DEF CommsInv, CommsTypeOK
<1>3. WordShifted' <=> (
               (access = "read" /\ dcc_tx_full) \/ (access = "none" /\ WordShifted))
  BY ResponseStep DEF Edge, CommsInv
<1>4. tx_got' = tx_got + Filled(access # "none" /\ WordShifted)
  BY CountStep DEF Edge, CommsInv
<1>5. tx_put' = tx_put + Filled(core_dcc_we(clken))
  BY <1>1 DEF Sends, Consumes, Polls, Waits, Filled, CommsInv, CommsTypeOK
<1>6. core_dcc_we(clken) => ~dcc_tx_full /\ tx_put < MaxWords
  BY DEF CommsInv, TransfersReady, SightsCurrent, core_dcc_we
<1>7. rx_got' = rx_got + Filled(core_dcc_re(clken))
  BY <1>1 DEF Sends, Consumes, Polls, Waits, Filled, CommsInv, CommsTypeOK
<1>8. core_dcc_re(clken) => dcc_rx_full
  BY DEF CommsInv, TransfersReady, SightsCurrent, core_dcc_re
<1>9. /\ rx_put' = rx_put + Filled(access = "write")
      /\ access = "write" => ~dcc_rx_full /\ rx_put < MaxWords
  BY CountStep DEF Edge, CommsInv, SightsCurrent
<1>10. WordsCounted'
  <2>1. tx_put' = tx_got' + Filled(dcc_tx_full') + Filled(WordShifted')
    <3>1. dcc_tx_full' <=> core_dcc_we(clken) \/ (dcc_tx_full /\ access # "read")
      BY DEF Edge, TxBuffer
    <3>2. tx_put = tx_got + Filled(dcc_tx_full) + Filled(WordShifted)
      BY DEF CommsInv, WordsCounted
    <3>3. WordShifted \in BOOLEAN /\ WordShifted' \in BOOLEAN
      BY <1>2 DEF WordShifted, CommsInv, CommsTypeOK
    <3>4. Filled(WordShifted') = Filled(access = "read" /\ dcc_tx_full)
                              + Filled(access = "none" /\ WordShifted)
      BY <1>3, <3>3 DEF Filled
    <3>5. Filled(dcc_tx_full') = Filled(core_dcc_we(clken)) + Filled(dcc_tx_full /\ access # "read")
      BY <1>6, <3>1 DEF Filled
    <3>6. Filled(WordShifted) = Filled(access # "none" /\ WordShifted)
                             + Filled(access = "none" /\ WordShifted)
      BY DEF Filled
    <3>7. Filled(dcc_tx_full) = Filled(access = "read" /\ dcc_tx_full)
                             + Filled(dcc_tx_full /\ access # "read")
      BY DEF Filled
    <3> QED BY <1>4, <1>5, <1>13, <3>2, <3>4, <3>5, <3>6, <3>7 DEF Filled
  <2>2. dcc_tx_full' => dcc_tx_data' = tx_put'
    BY <1>5 DEF Edge, TxBuffer, Filled, CommsInv, CommsTypeOK, WordsCounted
  <2>3. WordShifted' => chain2'.data = tx_got' + 1
    <3>1. CASE access = "none"
      BY <1>3, <1>4, <1>13, <3>1 DEF Edge, Debugger, host, Filled, CommsInv, WordsCounted
    <3>2. CASE access = "read"
      <4>1. WordShifted' => chain2'.data = dcc_tx_data /\ dcc_tx_full
        BY <1>3, <3>2 DEF Edge, Debugger, host
      <4> QED BY <1>4, <3>2, <4>1 DEF Filled, CommsInv, CommsTypeOK, WordsCounted
    <3> QED BY <1>3, <3>1, <3>2 DEF Accesses
  <2>4. rx_put' = rx_got' + Filled(dcc_rx_full')
    <3>1. dcc_rx_full' <=> access = "write" \/ (dcc_rx_full /\ ~core_dcc_re(clken))
      BY DEF Edge, RxBuffer
    <3>2. rx_put = rx_got + Filled(dcc_rx_full)
      BY DEF CommsInv, WordsCounted
    <3> QED BY <1>7, <1>8, <1>9, <3>1, <3>2, <1>13 DEF Filled
  <2>5. dcc_rx_full' => dcc_rx_data' = rx_put'
    BY <1>9 DEF Edge, RxBuffer, Filled, CommsInv, CommsTypeOK, WordsCounted
  <2>6. tx_put' <= MaxWords /\ rx_put' <= MaxWords
    BY <1>5, <1>6, <1>9 DEF Filled, CommsInv, CommsTypeOK, WordsCounted
  <2> QED BY <2>1, <2>2, <2>3, <2>4, <2>5, <2>6 DEF WordsCounted
<1>11. SightsCurrent'
  <2>1. ~seen_w' => ~dcc_tx_full'
    BY <1>1 DEF Edge, TxBuffer, Sends, Consumes, Polls, Waits, CommsInv, CommsTypeOK, SightsCurrent
  <2>2. seen_r' => dcc_rx_full'
    BY <1>1 DEF Edge, RxBuffer, Sends, Consumes, Polls, Waits, CommsInv, CommsTypeOK, SightsCurrent
  <2>3. /\ may_write' => ~dcc_rx_full'
        /\ chain2'.of = "status" /\ ~chain2'.flag => ~dcc_rx_full'
    <3>1. dcc_rx_full' => access = "write" \/ dcc_rx_full
      BY DEF Edge, RxBuffer
    <3>2. CASE access = "none"
      BY <3>1, <3>2 DEF Edge, Debugger, host, CommsInv, SightsCurrent
    <3>3. CASE access = "write"
      BY <3>3 DEF Edge, Debugger, NoResponse
    <3>4. CASE access = "read"
      <4>1. chain2'.of = "data"
        BY <3>4 DEF Edge, Debugger
      <4>2. may_write' = SightOfR
        BY <3>4 DEF Edge, Debugger
      <4>3. SightOfR => ~dcc_rx_full
        BY DEF SightOfR, CommsInv, SightsCurrent
      <4>4. dcc_rx_full' => dcc_rx_full
        BY <3>1, <3>4
      <4> QED BY <4>1, <4>2, <4>3, <4>4
    <3>5. CASE access = "status"
      <4>1. chain2' = [of |-> "status", flag |-> dcc_rx_full, data |-> 0]
        BY <3>5 DEF Edge, Debugger
      <4>2. chain2'.flag = dcc_rx_full
        BY <4>1
      <4>3. may_write' = SightOfR
        BY <3>5 DEF Edge, Debugger
      <4>4. SightOfR => ~dcc_rx_full
        BY DEF SightOfR, CommsInv, SightsCurrent
      <4>5. dcc_rx_full' => dcc_rx_full
        BY <3>1, <3>5
      <4>6. may_write' => ~dcc_rx_full'
        BY <4>3, <4>4, <4>5
      <4>7. ~chain2'.flag => ~dcc_rx_full'
        BY <4>2, <4>5
      <4> QED BY <4>6, <4>7
    <3> QED BY <3>2, <3>3, <3>4, <3>5 DEF Accesses
  <2> QED BY <2>1, <2>2, <2>3 DEF SightsCurrent
<1>12. TransfersReady'
  <2>1. insn' = "mcr" => ~seen_w' /\ tx_put' < MaxWords
    BY <1>1 DEF Sends, Consumes, Polls, Waits, Follows, Transfers, core_dcc_we, core_dcc_re,
       CommsInv, CommsTypeOK, TransfersReady
  <2>2. insn' = "mrc" => seen_r'
    BY <1>1 DEF Sends, Consumes, Polls, Waits, Follows, Transfers, core_dcc_we, core_dcc_re,
       CommsInv, CommsTypeOK, TransfersReady
  <2>3. insn' \in Transfers => ~halted'
    BY DEF Edge
  <2>4. again' \notin Transfers
    BY <1>1 DEF Sends, Consumes, Polls, Waits, CommsInv, TransfersReady, Transfers
  <2> QED BY <2>1, <2>2, <2>3, <2>4 DEF TransfersReady
<1> QED BY <1>2, <1>10, <1>11, <1>12 DEF CommsInv

(* The counts and sights are invariant, whatever the two ends interleave.  *)
THEOREM CommsInvariant == ASSUME ~Interrupts, ~Halts PROVE CommsSpec => []CommsInv
<1>1. CommsInv /\ [CommsNext]_comms_vars => CommsInv'
  <2>1. ASSUME CommsInv, CommsNext PROVE CommsInv'
    BY <2>1, CommsStepInv DEF CommsNext
  <2>2. ASSUME CommsInv, UNCHANGED comms_vars PROVE CommsInv'
    BY <2>2 DEF comms_vars, dcc, program, host, CommsInv, CommsTypeOK, WordsCounted, SightsCurrent,
       TransfersReady, WordShifted
  <2> QED BY <2>1, <2>2
<1> QED BY CommsInitInv, <1>1, PTL DEF CommsSpec

(* The channel's registers and counts stay within their types.             *)
THEOREM CommsTypes == ASSUME ~Interrupts, ~Halts PROVE CommsSpec => []CommsTypeOK
BY CommsInvariant, PTL DEF CommsInv

LEMMA TxStep ==
    ASSUME ~Interrupts, ~Halts, CommsInv, NEW clken \in BOOLEAN, NEW access \in Accesses,
           Edge(clken, access)
    PROVE  Tx!Next \/ UNCHANGED Tx!vars
<1>1. Sends(clken) \/ Consumes(clken) \/ Polls(clken) \/ Waits(clken)
  BY ProcessorCases DEF Edge
<1>2. tx_put' = IF core_dcc_we(clken) THEN tx_put + 1 ELSE tx_put
  BY <1>1 DEF Sends, Consumes, Polls, Waits
<1>3. core_dcc_we(clken) => ~dcc_tx_full
  BY DEF CommsInv, TransfersReady, SightsCurrent, core_dcc_we
<1>4. IF access # "none" /\ WordShifted
        THEN tx_got' = tx_got + 1 /\ tx_last' = tx_got'
        ELSE UNCHANGED <<tx_got, tx_last>>
  BY CountStep DEF Edge, Filled, CommsInv, CommsTypeOK, WordsCounted
<1> QED BY <1>2, <1>3, <1>4 DEF CommsInv, CommsTypeOK, WordsCounted, Filled,
        Tx!Next, Tx!Send, Tx!Receive, Tx!Exchange, Tx!vars

(* Processor to debugger: each word once, in order, at most two under way. *)
THEOREM TxIsMailbox == ASSUME ~Interrupts, ~Halts PROVE CommsSpec => TxDelivery
<1>1. CommsInit => Tx!Init
  BY DEF CommsInit, Tx!Init
<1>2. CommsInv /\ [CommsNext]_comms_vars => [Tx!Next]_Tx!vars
  <2>1. ASSUME CommsInv, CommsNext PROVE Tx!Next \/ UNCHANGED Tx!vars
    BY <2>1, TxStep DEF CommsNext
  <2>2. UNCHANGED comms_vars => UNCHANGED Tx!vars
    BY DEF comms_vars, program, host, Tx!vars
  <2> QED BY <2>1, <2>2
<1> QED BY CommsInvariant, <1>1, <1>2, PTL DEF CommsSpec, TxDelivery, Tx!Spec

LEMMA RxStep ==
    ASSUME ~Interrupts, ~Halts, CommsInv, NEW clken \in BOOLEAN, NEW access \in Accesses,
           Edge(clken, access)
    PROVE  Rx!Next \/ UNCHANGED Rx!vars
<1>1. Sends(clken) \/ Consumes(clken) \/ Polls(clken) \/ Waits(clken)
  BY ProcessorCases DEF Edge
<1>2. IF core_dcc_re(clken) THEN rx_got' = rx_got + 1 /\ rx_last' = dcc_rx_data
                            ELSE UNCHANGED <<rx_got, rx_last>>
  BY <1>1 DEF Sends, Consumes, Polls, Waits
<1>3. core_dcc_re(clken) => dcc_rx_full
  BY DEF CommsInv, TransfersReady, SightsCurrent, core_dcc_re
<1>4. /\ rx_put' = IF access = "write" THEN rx_put + 1 ELSE rx_put
      /\ access = "write" => ~dcc_rx_full
  BY CountStep DEF Edge, Filled, CommsInv, CommsTypeOK, SightsCurrent
<1> QED BY <1>2, <1>3, <1>4 DEF CommsInv, CommsTypeOK, WordsCounted, Filled,
        Rx!Next, Rx!Send, Rx!Receive, Rx!Exchange, Rx!vars

(* Debugger to processor: each word once, in order, one at a time.         *)
THEOREM RxIsMailbox == ASSUME ~Interrupts, ~Halts PROVE CommsSpec => RxDelivery
<1>1. CommsInit => Rx!Init
  BY DEF CommsInit, Rx!Init
<1>2. CommsInv /\ [CommsNext]_comms_vars => [Rx!Next]_Rx!vars
  <2>1. ASSUME CommsInv, CommsNext PROVE Rx!Next \/ UNCHANGED Rx!vars
    BY <2>1, RxStep DEF CommsNext
  <2>2. UNCHANGED comms_vars => UNCHANGED Rx!vars
    BY DEF comms_vars, program, host, Rx!vars
  <2> QED BY <2>1, <2>2
<1> QED BY CommsInvariant, <1>1, <1>2, PTL DEF CommsSpec, RxDelivery, Rx!Spec
=============================================================================
