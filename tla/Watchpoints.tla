----------------------------- MODULE Watchpoints ----------------------------
(* The two watchpoint units of EmbeddedICE-RT                                *)
(* (src/rtl/debug/arm7tdmis_ice_rt.sv, lines 326-545): the watch pipeline,   *)
(* which keeps the address phase of a transfer until its data is there, the  *)
(* masked comparators, RANGE and CHAIN coupling, and the outputs for halt    *)
(* mode and monitor mode. The debugger reprograms the units over chain 2,    *)
(* one register at a time, while the program runs.                           *)
(*                                                                           *)
(* A word is the set of its bits that are 1. Two address bits and one data   *)
(* bit in each half word are enough for ranges, exclusions and the half of a *)
(* Thumb fetch; control fields are bits with their names.                    *)
(*                                                                           *)
(* A step is a CLK edge. Memory and core put a transfer's data on RDATA or   *)
(* WDATA on the enabled edge that ends it; before, and on the other bus,     *)
(* there may be anything. The debugger sets the comparator-disable bit       *)
(* before it changes a unit, and clears it when it is done.                  *)
EXTENDS Integers, FiniteSets

CONSTANTS AddrBits, LaneBit,   \* address bits; the one that selects a half
          BigEnd,              \* CFGBIGEND
          BusTransfers,        \* what the program does on the bus
          Configurations,      \* what the debugger programs: see Units
          OtherData,           \* values on the bus that no transfer uses
          ControlLast          \* the debugger writes WP1's control value last

Halves == {"low", "high"}
LowControl == {"nTRANS", "nOPC", "HALFWORD", "nRW"}
HighControl == {"EXTERN", "CHAIN", "RANGE"}
Units == {0, 1}
UnitRegisters == {"addr_val", "addr_mask", "data_val", "data_mask", "ctrl_val", "ctrl_mask"}
UnitValues == [addr_val : SUBSET AddrBits, addr_mask : SUBSET AddrBits,
               data_val : SUBSET Halves, data_mask : SUBSET Halves,
               ctrl_val : SUBSET (LowControl \cup HighControl \cup {"ENABLE"}),
               ctrl_mask : SUBSET (LowControl \cup HighControl)]
TransferValues == [valid : BOOLEAN, addr : SUBSET AddrBits, control : SUBSET LowControl,
                   data : SUBSET Halves, extern : SUBSET Units,
                   brk : BOOLEAN]

ASSUME WatchAssumption ==
         /\ LaneBit \in AddrBits
         /\ {BigEnd, ControlLast} \subseteq BOOLEAN
         /\ OtherData \subseteq SUBSET Halves
         /\ BusTransfers \subseteq TransferValues
         /\ \A c \in Configurations : c.wp \in [Units -> UnitValues] /\ c.monitor \in BOOLEAN

VARIABLES wp,            \* registers of the two units
          disabled,      \* Debug Control bit 5
          monitor,       \* Debug Control bit 4
          watch_q,       \* address phase of the transfer in its data phase
          break_q,       \* watch_break_q
          data_write_q,  \* ice_data_write_q
          chainout_q,
          transfer,      \* the transfer in its data phase, complete
          target, todo,  \* what the debugger programs, and the registers left
          hit            \* history: how the data of the last transfer at WP1's
                         \* address compared, and that WP1 is still the same

units == <<wp, disabled, monitor>>
pipeline == <<watch_q, break_q, data_write_q, chainout_q>>
debugger == <<target, todo>>
watch_vars == <<units, pipeline, transfer, debugger, hit>>

NoUnit == [r \in UnitRegisters |-> {}]
Idle == [valid |-> FALSE, addr |-> {}, control |-> {}, data |-> {}, extern |-> {},
         brk |-> FALSE]
Latch(t) == [valid |-> t.valid, addr |-> t.addr, control |-> t.control, extern |-> t.extern]

WatchInit ==
  /\ wp = [u \in Units |-> NoUnit] /\ disabled = FALSE /\ monitor = FALSE
  /\ watch_q = Latch(Idle) /\ break_q = FALSE /\ data_write_q = FALSE /\ chainout_q = FALSE
  /\ transfer = Idle
  /\ target = [wp |-> wp, monitor |-> FALSE] /\ todo = {}
  /\ hit = [matched |-> FALSE, current |-> TRUE]

-----------------------------------------------------------------------------
(* Comparators. in has the inputs of the edge: CLKEN, next (the transfer in  *)
(* its address phase, with DBGBREAK and DBGEXT), RDATA and WDATA.            *)

masked_match(value, mask, input, bits) ==
  \A b \in bits : (b \in value <=> b \in input) \/ b \in mask

(* Mutants, here and below. AddressPhaseData: by the direction of the next   *)
(* transfer. MasksRangeOnly: CHAIN is forgotten. ChainKept: the latch keeps  *)
(* its value when WP1 is reprogrammed.                                       *)
AddressPhaseData(in) == IF "nRW" \in in.next.control THEN in.wdata ELSE in.rdata
watch_data(in) == IF data_write_q THEN in.wdata ELSE in.rdata

thumb_opcode_data == "nOPC" \notin watch_q.control /\ "HALFWORD" \in watch_q.control
\* A Thumb fetch compares the half that its address selects.
lanes == IF ~thumb_opcode_data THEN Halves
         ELSE IF (LaneBit \in watch_q.addr) # BigEnd THEN {"high"} ELSE {"low"}

addr_match(u) == masked_match(wp[u].addr_val, wp[u].addr_mask, watch_q.addr, AddrBits)
data_match(u, in) == masked_match(wp[u].data_val, wp[u].data_mask, watch_data(in), lanes)
control_match(u, input, bits) == masked_match(wp[u].ctrl_val, wp[u].ctrl_mask, input, bits)
External(u) == IF u \in watch_q.extern THEN {"EXTERN"} ELSE {}

wp1_addr_low_match == addr_match(1) /\ control_match(1, watch_q.control, LowControl)
wp1_data_high_match(in) == data_match(1, in) /\ control_match(1, External(1), HighControl)
wp1_rangeout(in) == watch_q.valid /\ wp1_addr_low_match /\ wp1_data_high_match(in)

wp0_control_in(in) ==
  watch_q.control \cup External(0) \cup (IF chainout_q THEN {"CHAIN"} ELSE {})
                  \cup (IF wp1_rangeout(in) THEN {"RANGE"} ELSE {})
wp0_rangeout(in) ==
  /\ watch_q.valid
  /\ addr_match(0)
  /\ data_match(0, in)
  /\ control_match(0, wp0_control_in(in), LowControl \cup HighControl)

comparators_enabled == ~disabled
rangeouts(in) == {u \in Units : IF u = 0 THEN wp0_rangeout(in) ELSE wp1_rangeout(in)}
enabled_wp_match(in) ==
  comparators_enabled /\ \E u \in rangeouts(in) : "ENABLE" \in wp[u].ctrl_val

(* A unit that compares data, or RANGE or CHAIN, has no monitor-mode match.  *)
MasksRangeOnly(u) == wp[u].data_mask = Halves /\ "RANGE" \in wp[u].ctrl_mask
monitor_supported(u) == wp[u].data_mask = Halves /\ {"RANGE", "CHAIN"} \subseteq wp[u].ctrl_mask
monitor_match(u) ==
  /\ comparators_enabled /\ watch_q.valid
  /\ "ENABLE" \in wp[u].ctrl_val
  /\ monitor_supported(u)
  /\ addr_match(u)
  /\ control_match(u, watch_q.control \cup External(u), LowControl \cup {"EXTERN"})
monitor_enabled_wp_match == \E u \in Units : monitor_match(u)

external_break_match == watch_q.valid /\ break_q
is_data == "nOPC" \in watch_q.control

breakpoint_fetch(in) ==
  /\ ~is_data
  /\ IF monitor THEN monitor_enabled_wp_match ELSE enabled_wp_match(in) \/ external_break_match
watchpoint_halt(in) == ~monitor /\ is_data /\ (enabled_wp_match(in) \/ external_break_match)
monitor_data_abort == monitor /\ is_data /\ monitor_enabled_wp_match
DBGRNG(in) == IF comparators_enabled THEN rangeouts(in) ELSE {}

ChainKept(in, writes) ==
  IF in.clken /\ watch_q.valid /\ wp1_addr_low_match THEN wp1_data_high_match(in) ELSE chainout_q

ChainNext(in, writes) ==
  IF <<1, "ctrl_val">> \in writes THEN FALSE
  ELSE IF in.clken /\ watch_q.valid /\ wp1_addr_low_match THEN wp1_data_high_match(in)
  ELSE chainout_q

-----------------------------------------------------------------------------
(* What a comparison is, said of the complete transfer: no bit outside the   *)
(* mask differs.                                                             *)

Differ(a, b) == (a \ b) \cup (b \ a)
ThumbFetch(t) == t.control \cap {"nOPC", "HALFWORD"} = {"HALFWORD"}
Compared(t) ==
  {h \in Halves : ThumbFetch(t) => (h = "high" <=> (LaneBit \in t.addr) # BigEnd)}
SameAddress(u, t) == Differ(wp[u].addr_val, t.addr) \subseteq wp[u].addr_mask
SameData(u, t) == Differ(wp[u].data_val, t.data) \cap Compared(t) \subseteq wp[u].data_mask
SameControl(u, input, bits) ==
  Differ(wp[u].ctrl_val, input) \cap bits \subseteq wp[u].ctrl_mask
AllControl == LowControl \cup HighControl

SecondMatches(t) == SameAddress(1, t) /\ SameData(1, t)
                    /\ SameControl(1, t.control \cup External(1), AllControl)
FirstMatches(t) ==
  /\ SameAddress(0, t) /\ SameData(0, t)
  /\ LET coupled == (IF chainout_q THEN {"CHAIN"} ELSE {})
                     \cup (IF SecondMatches(t) THEN {"RANGE"} ELSE {})
     IN  SameControl(0, t.control \cup External(0) \cup coupled, AllControl)
Matching(t) == {u \in Units : IF u = 0 THEN FirstMatches(t) ELSE SecondMatches(t)}

(* The history: a transfer at WP1's address with WP1's low control bits sets *)
(* it, and a write that changes WP1 makes it old.                            *)
HistoryNext(in, writes) ==
  LET ends == in.clken /\ transfer.valid /\ SameAddress(1, transfer) /\ SameControl(1, transfer.control, LowControl)
      changed == \E r \in UnitRegisters : <<1, r>> \in writes
  IN  [matched |-> IF ends THEN SameData(1, transfer) /\ SameControl(1, External(1), HighControl)
                   ELSE hit.matched,
       current |-> (ends \/ hit.current) /\ ~changed]

-----------------------------------------------------------------------------
(* The watch pipeline.                                                       *)
LatchEdge(in) ==
  IF in.clken
    THEN watch_q' = Latch(in.next) /\ break_q' = in.next.brk /\ data_write_q' = ("nRW" \in in.next.control)
    ELSE UNCHANGED <<watch_q, break_q, data_write_q>>

(* The edge. writes are the registers that chain 2 updates on it.            *)
WatchEdge(in, writes) ==
  /\ chainout_q' = ChainNext(in, writes)
  /\ hit' = HistoryNext(in, writes)
  /\ LatchEdge(in)
  /\ transfer' = IF in.clken THEN in.next ELSE transfer

(* The data of a transfer is on its bus when the transfer ends.              *)
WatchInputs ==
  {[clken |-> FALSE, next |-> Idle, rdata |-> {}, wdata |-> {}]}
  \cup {[clken |-> TRUE, next |-> t,
         rdata |-> IF "nRW" \in transfer.control THEN other ELSE transfer.data,
         wdata |-> IF "nRW" \in transfer.control THEN transfer.data ELSE other]
       : t \in BusTransfers, other \in OtherData}

EndsTransfer(in) == in.clken /\ transfer.valid

WatchClock == \E in \in WatchInputs : WatchEdge(in, {}) /\ UNCHANGED <<units, debugger>>

(* Debug Control: bit 5 holds the comparators off while units change.        *)
ToWrite(c) ==
  LET changed == {w \in Units \X UnitRegisters : wp[w[1]][w[2]] # c.wp[w[1]][w[2]]}
  IN  changed \cup (IF \E w \in changed : w[1] = 1 THEN {<<1, "ctrl_val">>} ELSE {})
Disable ==
  /\ todo = {} /\ ~disabled
  /\ \E c \in Configurations : target' = c /\ todo' = ToWrite(c)
  /\ disabled' = TRUE
  /\ \E in \in WatchInputs : WatchEdge(in, {})
  /\ UNCHANGED <<wp, monitor>>

WriteUnit ==
  /\ \E w \in todo :
       /\ ControlLast /\ w = <<1, "ctrl_val">> => \A v \in todo : v[1] = 1 => v = w
       /\ wp' = [wp EXCEPT ![w[1]][w[2]] = target.wp[w[1]][w[2]]]
       /\ todo' = todo \ {w}
       /\ \E in \in WatchInputs : WatchEdge(in, {w})
  /\ UNCHANGED <<disabled, monitor, target>>

Enable ==
  /\ todo = {} /\ disabled
  /\ disabled' = FALSE /\ monitor' = target.monitor
  /\ \E in \in WatchInputs : WatchEdge(in, {})
  /\ UNCHANGED <<wp, debugger>>

WatchNext == WatchClock \/ Disable \/ WriteUnit \/ Enable

WatchSpec == WatchInit /\ [][WatchNext]_watch_vars

-----------------------------------------------------------------------------
WatchTypeOK ==
  /\ wp \in [Units -> UnitValues] /\ disabled \in BOOLEAN /\ monitor \in BOOLEAN
  /\ {break_q, data_write_q, chainout_q} \subseteq BOOLEAN
  /\ transfer \in TransferValues /\ watch_q = Latch(transfer)
  /\ target \in [wp : [Units -> UnitValues], monitor : BOOLEAN]
  /\ todo \subseteq Units \X UnitRegisters
  /\ hit \in [matched : BOOLEAN, current : BOOLEAN]

(* CHAINOUT, when WP0 may look at it, says that the last transfer at WP1's   *)
(* address and control also had its data, for the WP1 that is programmed     *)
(* now: no match from before a reconfiguration is left (ice_rt 462-473).     *)
ChainFresh == chainout_q /\ ~disabled => hit.matched /\ hit.current

(* When a transfer ends, DBGRNG names the units that match all of it: its    *)
(* own address, control and DBGEXT with its own data, whatever wait states   *)
(* it took, whatever the other bus and the other half carry, and whatever    *)
(* transfer already has its address phase. While the debugger is between two *)
(* configurations it names none (ice_rt 326-357 and 485-490, top 268-276).   *)
(* CHAINOUT, the memory between transfers, is of this configuration too.     *)
ComparesTransfer ==
  /\ ChainFresh
  /\ \A in \in WatchInputs : EndsTransfer(in) => DBGRNG(in) = IF disabled THEN {} ELSE Matching(transfer)

(* The program stops, or aborts, on a transfer for the reasons the debugger  *)
(* programmed: in halt mode an enabled unit matched it or DBGBREAK was high  *)
(* in its own address phase; in monitor mode an enabled unit that compares   *)
(* neither data nor RANGE nor CHAIN matched it. A fetch is marked, a data    *)
(* access stops or aborts, never both (ice_rt 502-545).                      *)
StopsProgram ==
  \A in \in WatchInputs : EndsTransfer(in) =>
    LET enabled == {u \in Units : "ENABLE" \in wp[u].ctrl_val}
        plain == {u \in enabled : wp[u].data_mask = Halves
                                  /\ wp[u].ctrl_mask \cap {"RANGE", "CHAIN"} = {"RANGE", "CHAIN"}}
        matching == IF disabled THEN {} ELSE Matching(transfer)
        stops == IF monitor THEN matching \cap plain # {}
                 ELSE matching \cap enabled # {} \/ transfer.brk
        fetch == "nOPC" \notin transfer.control
    IN  /\ breakpoint_fetch(in) <=> stops /\ fetch
        /\ watchpoint_halt(in) <=> stops /\ ~fetch /\ ~monitor
        /\ monitor_data_abort <=> stops /\ ~fetch /\ monitor

=============================================================================
