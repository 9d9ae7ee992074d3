----------------------------- MODULE DebugTap -----------------------------
(***************************************************************************)
(* The debugger's way in: the synchronous step port, the JTAG TAP behind   *)
(* it, and the EmbeddedICE registers at the end of scan chain 2.           *)
(*                                                                         *)
(* A step is a rising CLK edge.  The port accepts a STEP when its one-     *)
(* entry response buffer is free or being emptied, and the TAP advances on *)
(* accepted steps only.  Registers are functions from bit positions, as    *)
(* the vectors of the code; the widths are parameters.  The live registers *)
(* of chain 2 (status, comms channel) are modelled elsewhere.              *)
(***************************************************************************)
EXTENDS Integers, Sequences

CONSTANTS AddrBits, DataBits, ScanBits, IrBits,  \* 5, 32, 4 and 4 in the code
          SCAN_N, RESTART, INTEST, IDCODE,       \* instruction codes
          JTAG_IDCODE,                           \* a word of DataBits bits
          Kept  \* bits each EmbeddedICE register stores; {}: a reserved one

Bit == {0, 1}
Vector(n) == [0 .. n - 1 -> Bit]
SCAN_CHAIN2_WIDTH == 1 + AddrBits + DataBits
Addresses == Vector(AddrBits)

ASSUME WidthAssumption ==
    /\ AddrBits \in Nat \ {0} /\ DataBits \in Nat \ {0}
    /\ IrBits \in Nat \ {0} /\ ScanBits \in 2 .. SCAN_CHAIN2_WIDTH
ASSUME CodeAssumption ==
    /\ {SCAN_N, RESTART, INTEST, IDCODE} \subseteq Vector(IrBits)
    /\ SCAN_N # IDCODE /\ INTEST \notin {SCAN_N, IDCODE}
    /\ JTAG_IDCODE \in Vector(DataBits)
    /\ Kept \in [Addresses -> SUBSET (0 .. DataBits - 1)]

Columns == {"CDR", "SDR", "E1DR", "PDR", "E2DR", "UDR"}
TapStates == {"TLR", "RTI", "SDRS", "SIRS", "CIR", "SIR", "E1IR", "PIR",
              "E2IR", "UIR"} \cup Columns

VARIABLES tap_q, ir_shift_q, ir_hold_q, dr_shift_q, scan_n_q,
          regs,      \* EmbeddedICE registers
          enabled,   \* PORT_ENABLE and DBGEN, one policy signal
          response,  \* response_*_q: <<>>, or <<tdo, output enable>>
          inject,    \* chain-1 word of the Update-DR just done, or <<>>
          dbg_halted,  \* ICE holds the core in debug state
          replied,   \* dr_shift_q is the answer of a chain-2 read
          heard      \* parity of the responses the host took

tap == <<tap_q, ir_shift_q, ir_hold_q, dr_shift_q, scan_n_q, regs, replied>>
vars == <<tap, enabled, response, inject, dbg_halted, heard>>

Zero(n) == [i \in 0 .. n - 1 |-> 0]
One(n, at) == [i \in 0 .. n - 1 |-> IF i = at THEN 1 ELSE 0]
Low(v, n) == [i \in 0 .. n - 1 |-> v[i]]
Wide(f) == [i \in 0 .. SCAN_CHAIN2_WIDTH - 1 |->
               IF i \in DOMAIN f THEN f[i] ELSE 0]

Init ==
    /\ tap_q = "TLR" /\ ir_hold_q = IDCODE /\ ir_shift_q = Zero(IrBits)
    /\ dr_shift_q = Zero(SCAN_CHAIN2_WIDTH) /\ scan_n_q = Zero(ScanBits)
    /\ regs = [a \in Addresses |-> Zero(DataBits)]
    /\ enabled = TRUE /\ response = <<>> /\ inject = <<>>
    /\ dbg_halted = FALSE /\ replied = FALSE /\ heard = 0
-----------------------------------------------------------------------------
(* The 1149.1 state table.                                                 *)
next_state(s, tms) ==
    CASE s = "TLR"  -> IF tms THEN "TLR"  ELSE "RTI"
      [] s = "RTI"  -> IF tms THEN "SDRS" ELSE "RTI"
      [] s = "SDRS" -> IF tms THEN "SIRS" ELSE "CDR"
      [] s \in {"CDR", "SDR"} -> IF tms THEN "E1DR" ELSE "SDR"
      [] s = "E1DR" -> IF tms THEN "UDR"  ELSE "PDR"
      [] s = "PDR"  -> IF tms THEN "E2DR" ELSE "PDR"
      [] s = "E2DR" -> IF tms THEN "UDR"  ELSE "SDR"
      [] s \in {"UDR", "UIR"} -> IF tms THEN "SDRS" ELSE "RTI"
      [] s = "SIRS" -> IF tms THEN "TLR"  ELSE "CIR"
      [] s \in {"CIR", "SIR"} -> IF tms THEN "E1IR" ELSE "SIR"
      [] s = "E1IR" -> IF tms THEN "UIR"  ELSE "PIR"
      [] s = "PIR"  -> IF tms THEN "E2IR" ELSE "PIR"
      [] s = "E2IR" -> IF tms THEN "UIR"  ELSE "SIR"

Chain(n) == ir_hold_q = INTEST /\ scan_n_q = One(ScanBits, n - 1)
NoChain == ir_hold_q = INTEST /\ ~Chain(1) /\ ~Chain(2)

(* The instruction in force: latched at Update-IR, reloaded on the way to  *)
(* Test-Logic-Reset.                                                       *)
Instruction(tms) ==
    CASE tap_q = "UIR" -> ir_shift_q
      [] next_state(tap_q, tms) = "TLR" -> IDCODE
      [] OTHER -> ir_hold_q

ShiftIR(tdi) ==
    CASE tap_q = "CIR" -> One(IrBits, 0)
      [] tap_q = "SIR" -> [i \in 0 .. IrBits - 1 |->
                              IF i = IrBits - 1 THEN tdi ELSE ir_shift_q[i + 1]]
      [] OTHER -> ir_shift_q

(* Capture-DR: chain 1 samples the core; chain 2 keeps what it holds.      *)
Capture(data) ==
    CASE ir_hold_q = IDCODE -> Wide(JTAG_IDCODE)
      [] ir_hold_q = SCAN_N -> Wide(One(ScanBits, ScanBits - 1))
      [] Chain(1) -> Wide(data)
      [] Chain(2) -> dr_shift_q
      [] OTHER -> Zero(SCAN_CHAIN2_WIDTH)

(* Toward bit 0 over the low n bits, or away from it.                      *)
Down(n, tdi) == [i \in DOMAIN dr_shift_q |->
                    IF i = n - 1 THEN tdi
                    ELSE IF i < n THEN dr_shift_q[i + 1] ELSE 0]
Up(n, tdi) == [i \in DOMAIN dr_shift_q |->
                    IF i = 0 THEN tdi
                    ELSE IF i < n THEN dr_shift_q[i - 1] ELSE 0]

(* Mutant of ShiftDR: chain 1 shifts over the width of chain 2.            *)
ShiftsWide(tdi) ==
    CASE ir_hold_q = IDCODE -> Down(DataBits, tdi)
      [] ir_hold_q = SCAN_N -> Down(ScanBits, tdi)
      [] Chain(1) -> Down(DataBits + 1, tdi)
      [] Chain(2) -> Up(SCAN_CHAIN2_WIDTH, tdi)
      [] NoChain -> Zero(SCAN_CHAIN2_WIDTH)
      [] OTHER -> Down(1, tdi)

ShiftDR(tdi) ==
    CASE ir_hold_q = IDCODE -> Down(DataBits, tdi)
      [] ir_hold_q = SCAN_N -> Down(ScanBits, tdi)
      [] Chain(1) -> Up(DataBits + 1, tdi)
      [] Chain(2) -> Up(SCAN_CHAIN2_WIDTH, tdi)
      [] NoChain -> Zero(SCAN_CHAIN2_WIDTH)
      [] OTHER -> Down(1, tdi)

(* Fields of chain 2: write bit, address from its top bit, data.           *)
scan_addr == [i \in 0 .. AddrBits - 1 |-> dr_shift_q[AddrBits - i]]
scan_wdata == [i \in 0 .. DataBits - 1 |-> dr_shift_q[1 + AddrBits + i]]
Answered == [i \in DOMAIN dr_shift_q |->
                CASE i = 0 -> 0
                  [] i \in 1 .. AddrBits -> dr_shift_q[i]
                  [] OTHER -> regs[scan_addr][i - AddrBits - 1]]

scan_we == tap_q = "UDR" /\ Chain(2) /\ dr_shift_q[0] = 1
scan_re == tap_q = "UDR" /\ Chain(2) /\ dr_shift_q[0] = 0

(* A register keeps the bits it has; a reserved one ignores writes.        *)
Stored(a) == [i \in 0 .. DataBits - 1 |-> IF i \in Kept[a] THEN scan_wdata[i] ELSE 0]

DataPath(tdi) ==
    /\ \/ tap_q = "CDR" /\ \E data \in Vector(DataBits + 1) :
             /\ ~Chain(1) => data = Zero(DataBits + 1)
             /\ dr_shift_q' = Capture(data)
       \/ tap_q = "SDR" /\ dr_shift_q' = ShiftDR(tdi)
       \/ scan_re /\ dr_shift_q' = Answered
       \/ tap_q \notin {"CDR", "SDR"} /\ ~scan_re /\ UNCHANGED dr_shift_q
    /\ scan_n_q' = IF tap_q = "UDR" /\ ir_hold_q = SCAN_N
                   THEN Low(dr_shift_q, ScanBits) ELSE scan_n_q
    /\ regs' = IF scan_we THEN [regs EXCEPT ![scan_addr] = Stored(scan_addr)]
                          ELSE regs
    /\ replied' = \/ scan_re
                  \/ /\ replied /\ tap_q # "SDR" /\ ~scan_we
                     /\ tap_q = "CDR" => Chain(2)

ice_inject_we == tap_q = "UDR" /\ Chain(1)
tap_restart_req == tap_q = "UIR" /\ ir_shift_q = RESTART

DBGTDO ==
    CASE tap_q = "SIR" -> ir_shift_q[0]
      [] tap_q = "SDR" /\ Chain(1) -> dr_shift_q[DataBits]
      [] tap_q = "SDR" /\ Chain(2) -> dr_shift_q[SCAN_CHAIN2_WIDTH - 1]
      [] tap_q = "SDR" /\ NoChain -> 0
      [] OTHER -> dr_shift_q[0]

(* One enabled TAP clock.                                                  *)
Tap(tms, tdi) ==
    /\ tap_q' = next_state(tap_q, tms)
    /\ ir_hold_q' = Instruction(tms) /\ ir_shift_q' = ShiftIR(tdi)
    /\ DataPath(tdi)
    /\ inject' = IF ice_inject_we THEN Low(dr_shift_q, DataBits + 1) ELSE <<>>
    /\ \E CLKEN \in BOOLEAN : dbg_halted' = (dbg_halted /\ ~(tap_restart_req /\ CLKEN))
-----------------------------------------------------------------------------
(* Mutant of slot_available: the port takes a step with its buffer full.   *)
AlwaysAvailable(rsp_ready) == rsp_ready \in BOOLEAN

slot_available(rsp_ready) == response = <<>> \/ rsp_ready

Takes(rsp_ready) == enabled /\ response # <<>> /\ rsp_ready
Heard(rsp_ready) == heard' = IF Takes(rsp_ready) THEN 1 - heard ELSE heard

(* An accepted step: the response is the output before the TAP moves.      *)
Step ==
    \E tms, rsp_ready \in BOOLEAN, tdi \in Bit :
        /\ enabled /\ slot_available(rsp_ready)
        /\ Tap(tms, tdi)
        /\ response' = <<DBGTDO, tap_q \in {"SDR", "SIR"}>>
        /\ Heard(rsp_ready)
        /\ enabled' \in BOOLEAN

(* An edge with no step. The disabled port clears its buffer.              *)
Idle ==
    \E rsp_ready \in BOOLEAN :
        /\ response' = IF enabled /\ ~slot_available(rsp_ready) THEN response
                                                               ELSE <<>>
        /\ Heard(rsp_ready)
        /\ inject' = <<>>
        /\ enabled' \in BOOLEAN
        /\ UNCHANGED tap

(* The halt machine enters debug state on an edge of its own choice, and   *)
(* leaves it if debug is disabled.                                         *)
IdleEdge ==
    /\ Idle
    /\ \/ dbg_halted' = (dbg_halted /\ enabled)
       \/ enabled /\ dbg_halted' = TRUE

(* DBGnTRST clears the TAP and EmbeddedICE, and not the port.              *)
DBGnTRST ==
    /\ tap_q' = "TLR" /\ ir_hold_q' = IDCODE /\ ir_shift_q' = Zero(IrBits)
    /\ dr_shift_q' = Zero(SCAN_CHAIN2_WIDTH) /\ scan_n_q' = Zero(ScanBits)
    /\ regs' = [a \in Addresses |-> Zero(DataBits)]
    /\ inject' = <<>> /\ dbg_halted' = FALSE /\ replied' = FALSE
    /\ UNCHANGED <<enabled, response, heard>>

Next == Step \/ IdleEdge \/ DBGnTRST

Spec == Init /\ [][Next]_vars
-----------------------------------------------------------------------------
(* Type correctness: the TAP's registers, the EmbeddedICE registers with   *)
(* nothing in the bits they do not store, and the port's buffer.           *)
TypeOK ==
    /\ tap_q \in TapStates
    /\ ir_shift_q \in Vector(IrBits) /\ ir_hold_q \in Vector(IrBits)
    /\ dr_shift_q \in Vector(SCAN_CHAIN2_WIDTH) /\ scan_n_q \in Vector(ScanBits)
    /\ regs \in [Addresses -> Vector(DataBits)]
    /\ \A a \in Addresses : \A i \in 0 .. DataBits - 1 :
           regs[a][i] = 1 => i \in Kept[a]
    /\ response = <<>> \/ response \in Bit \X BOOLEAN
    /\ enabled \in BOOLEAN /\ dbg_halted \in BOOLEAN /\ replied \in BOOLEAN
    /\ inject = <<>> \/ inject \in Vector(DataBits + 1)
    /\ heard \in Bit

(* The cells of a register as the debugger sees them, first out first.     *)
Word(v, n) == [k \in 1 .. n |-> v[k - 1]]
Cells(n) == [k \in 1 .. n |-> dr_shift_q[n - k]]
OpenDR == tap_q \in {"SDR", "E1DR", "PDR", "E2DR", "UDR"}
OpenIR == tap_q \in {"SIR", "E1IR", "PIR", "E2IR", "UIR"}

(* The cells of the register that a data scan selects.                     *)
SelectedCells ==
    CASE ir_hold_q = IDCODE -> Word(dr_shift_q, DataBits)
      [] ir_hold_q = SCAN_N -> Word(dr_shift_q, ScanBits)
      [] Chain(1) -> Cells(DataBits + 1)
      [] Chain(2) -> Cells(SCAN_CHAIN2_WIDTH)
      [] OTHER -> Word(dr_shift_q, 1)

Line == IF OpenIR THEN Word(ir_shift_q, IrBits)
        ELSE IF OpenDR THEN SelectedCells ELSE <<>>

Vec(w) == [i \in 0 .. AddrBits - 1 |-> w[i + 1]]

InForce == Word(ir_hold_q, IrBits)
ChainInForce == Word(scan_n_q, ScanBits)
Reply == IF replied THEN Cells(SCAN_CHAIN2_WIDTH) ELSE <<>>
Ice == [a \in [1 .. AddrBits -> Bit] |-> Word(regs[Vec(a)], DataBits)]
Injected == IF inject = <<>> THEN <<>>
            ELSE [k \in 1 .. DataBits + 1 |-> inject[DataBits + 1 - k]]
Answer == IF ~enabled \/ response = <<>> THEN 3
          ELSE IF response[2] THEN response[1] ELSE 2
KeptCells == [a \in [1 .. AddrBits -> Bit] |-> {i + 1 : i \in Kept[Vec(a)]}]

Path == INSTANCE ScanPath WITH
    ir <- InForce, chain <- ChainInForce, line <- Line, opcodes <- OpenIR,
    reply <- Reply, ice <- Ice, inject <- Injected, answer <- Answer,
    SCAN_N <- Word(SCAN_N, IrBits), RESTART <- Word(RESTART, IrBits),
    INTEST <- Word(INTEST, IrBits), IDCODE <- Word(IDCODE, IrBits),
    IdCode <- Word(JTAG_IDCODE, DataBits), Kept <- KeptCells

(* The scan transport: whatever mixture of pauses, refused steps, resets   *)
(* and loss of enable, each open scan is a queue, updates deliver what the *)
(* queue holds, a chain-2 read is answered by the next scan of the chain,  *)
(* and every accepted step is answered once.                               *)
ScanPathSpec == Path!Spec

(* The core leaves debug state by RESTART on the edge that enters          *)
(* Run-Test/Idle.                                                          *)
RestartEntersIdle ==
    [][dbg_halted /\ ~dbg_halted' /\ enabled /\ tap_q' # "TLR"
         => tap_q' = "RTI"]_vars

(* RESTART latched on the way to Run-Test/Idle takes the core out of debug *)
(* state.                                                                  *)
RestartTaken ==
    [][dbg_halted /\ tap_q = "UIR" /\ ir_shift_q = RESTART /\ tap_q' = "RTI"
         => ~dbg_halted']_vars
=============================================================================
