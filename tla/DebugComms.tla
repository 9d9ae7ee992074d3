----------------------------- MODULE DebugComms -----------------------------
(***************************************************************************)
(* The Debug Communications Channel: one TX and one RX word between the    *)
(* processor's CP14 instructions and the debugger's accesses to            *)
(* EmbeddedICE registers 4 and 5 through scan chain 2.                     *)
(*                                                                         *)
(* A step is a rising CLK edge.  CLKEN enables the processor side; an      *)
(* access of the debugger commits on the edge that leaves Update-DR, with  *)
(* or without CLKEN.  Chain 2 is pipelined: a read leaves its response in  *)
(* the scan register, and the next access shifts it out while its own      *)
(* command, chosen before, is shifted in.                                  *)
(*                                                                         *)
(* Both ends follow the handshake: the program reads c0 before it uses c1, *)
(* the debugger writes only after a status read that showed R clear.  The  *)
(* words are numbered; tx_* and rx_* count what the two ends sent and got. *)
(***************************************************************************)
EXTENDS Naturals

CONSTANTS MaxWords,    \* bound on the words of each direction
          Interrupts,  \* may an exception be taken on the edge of a c1 transfer?
          Halts        \* may the core be frozen with a c1 transfer in Execute?

ASSUME WordsAssumption == MaxWords \in Nat
ASSUME EventsAssumption == Interrupts \in BOOLEAN /\ Halts \in BOOLEAN

VARIABLES dcc_tx_full, dcc_tx_data, dcc_rx_full, dcc_rx_data,
          insn,     \* CP14 instruction in Execute, or "none"
          again,    \* instruction an exception was taken on, to run again
          seen_r, seen_w,  \* what the program last saw in c0
          halted,   \* ICE holds the core: core_clken is low
          chain2,   \* chain-2 scan register after the last access
          may_write,  \* the debugger has seen R clear since its last write
          tx_put, tx_got, tx_last, rx_put, rx_got, rx_last

dcc == <<dcc_tx_full, dcc_tx_data, dcc_rx_full, dcc_rx_data>>
program == <<insn, again, seen_r, seen_w, tx_put, rx_got, rx_last>>
host == <<chain2, may_write, rx_put, tx_got, tx_last>>
comms_vars == <<dcc, program, halted, host>>

Transfers == {"mrc", "mcr"}
NoResponse == [of |-> "nothing", flag |-> FALSE, data |-> 0]

CommsInit ==
    /\ dcc_tx_full = FALSE /\ dcc_tx_data = 0
    /\ dcc_rx_full = FALSE /\ dcc_rx_data = 0
    /\ insn = "none" /\ again = "none" /\ seen_r = FALSE /\ seen_w = TRUE
    /\ halted = FALSE /\ chain2 = NoResponse /\ may_write = FALSE
    /\ tx_put = 0 /\ tx_got = 0 /\ tx_last = 0
    /\ rx_put = 0 /\ rx_got = 0 /\ rx_last = 0
-----------------------------------------------------------------------------
(* Request lines. core_dcc_we and core_dcc_re look at the instruction in   *)
(* Execute only, not at whether it completes on this edge.                 *)
core_dcc_we(clken) == clken /\ insn = "mcr"

(* Mutant of core_dcc_re: a read does not consume.                         *)
ReadsKeep(clken) == FALSE

core_dcc_re(clken) == clken /\ insn = "mrc"

(* Mutants of TxBuffer: consumption wins over production; the data         *)
(* register is loaded on every enabled edge.                               *)
ConsumerWins(clken, access) ==
    /\ dcc_tx_full' = (access # "read" /\ (dcc_tx_full \/ core_dcc_we(clken)))
    /\ dcc_tx_data' = IF core_dcc_we(clken) THEN tx_put + 1 ELSE dcc_tx_data

LoadsAlways(clken, access) ==
    /\ dcc_tx_full' = (core_dcc_we(clken) \/ (dcc_tx_full /\ access # "read"))
    /\ dcc_tx_data' = IF clken THEN tx_put + 1 ELSE dcc_tx_data

(* The two buffers. A new word wins over a consumption on the same edge.   *)
TxBuffer(clken, access) ==
    /\ dcc_tx_full' = (core_dcc_we(clken) \/ (dcc_tx_full /\ access # "read"))
    /\ dcc_tx_data' = IF core_dcc_we(clken) THEN tx_put + 1 ELSE dcc_tx_data

RxBuffer(clken, access) ==
    /\ dcc_rx_full' = (access = "write" \/ (dcc_rx_full /\ ~core_dcc_re(clken)))
    /\ dcc_rx_data' = IF access = "write" THEN rx_put + 1 ELSE dcc_rx_data

(* What the program may fetch next, given what it will have seen in c0.    *)
Follows(next) ==
    \/ next \in {"none", "status"}
    \/ next = "mrc" /\ seen_r'
    \/ next = "mcr" /\ ~seen_w' /\ tx_put' < MaxWords

(* A CP14 instruction completes: MRC c0, MRC c1 or MCR c1.                 *)
Complete ==
    /\ insn # "none"
    /\ CASE insn = "status" ->
              /\ seen_r' = dcc_rx_full /\ seen_w' = dcc_tx_full
              /\ UNCHANGED <<tx_put, rx_got, rx_last>>
         [] insn = "mrc" ->
              /\ seen_r' = FALSE
              /\ rx_got' = rx_got + 1 /\ rx_last' = dcc_rx_data
              /\ UNCHANGED <<seen_w, tx_put>>
         [] insn = "mcr" ->
              /\ seen_w' = TRUE
              /\ tx_put' = tx_put + 1
              /\ UNCHANGED <<seen_r, rx_got, rx_last>>
    /\ Follows(insn')
    /\ UNCHANGED again

(* An exception is taken on the instruction's edge: it will run again.     *)
Interrupted ==
    /\ insn # "none"
    /\ insn \in Transfers => Interrupts
    /\ again' = insn /\ insn' = "none"
    /\ UNCHANGED <<seen_r, seen_w, tx_put, rx_got, rx_last>>

(* No CP14 instruction in Execute: a handler runs, or the program goes on. *)
Fetch ==
    /\ insn = "none"
    /\ UNCHANGED <<seen_r, seen_w, tx_put, rx_got, rx_last>>
    /\ IF again # "none"
       THEN \/ insn' = again /\ again' = "none"
            \/ UNCHANGED <<insn, again>>
       ELSE Follows(insn') /\ UNCHANGED again

Core(clken) == IF clken /\ ~halted THEN Complete \/ Interrupted \/ Fetch
                                   ELSE UNCHANGED program

(* The scan register holds a TX word and its W bit.                        *)
WordShifted == chain2.of = "data" /\ chain2.flag

(* An access shifts the previous response out. A data response carries W   *)
(* in its address field; a status response shows R.                        *)
ShiftOut ==
    /\ tx_got' = IF WordShifted THEN tx_got + 1 ELSE tx_got
    /\ tx_last' = IF WordShifted THEN chain2.data ELSE tx_last

SightOfR == IF chain2.of = "status" THEN ~chain2.flag ELSE may_write

(* One chain-2 access of the debugger. A read leaves its response in the   *)
(* scan register.                                                          *)
Debugger(access) ==
    \/ access = "none" /\ UNCHANGED host
    \/ /\ access = "write" /\ may_write /\ rx_put < MaxWords
       /\ ShiftOut
       /\ rx_put' = rx_put + 1 /\ may_write' = FALSE /\ chain2' = NoResponse
    \/ /\ access = "read"
       /\ ShiftOut
       /\ chain2' = [of |-> "data", flag |-> dcc_tx_full, data |-> dcc_tx_data]
       /\ may_write' = SightOfR /\ UNCHANGED rx_put
    \/ /\ access = "status"
       /\ ShiftOut
       /\ chain2' = [of |-> "status", flag |-> dcc_rx_full, data |-> 0]
       /\ may_write' = SightOfR /\ UNCHANGED rx_put

Accesses == {"none", "status", "read", "write"}

Edge(clken, access) ==
    /\ TxBuffer(clken, access) /\ RxBuffer(clken, access)
    /\ Core(clken)
    /\ Debugger(access)
    /\ halted' \in BOOLEAN
    /\ halted' /\ insn' \in Transfers => Halts

CommsNext == \E clken \in BOOLEAN, access \in Accesses : Edge(clken, access)

CommsSpec == CommsInit /\ [][CommsNext]_comms_vars

(* The debugger keeps reading the data register.                           *)
FairSpec == CommsSpec /\ WF_comms_vars(\E clken \in BOOLEAN : Edge(clken, "read"))
-----------------------------------------------------------------------------
(* Type invariant.                                                         *)
CommsTypeOK ==
    /\ dcc_tx_full \in BOOLEAN /\ dcc_tx_data \in 0 .. MaxWords
    /\ dcc_rx_full \in BOOLEAN /\ dcc_rx_data \in 0 .. MaxWords
    /\ insn \in Transfers \cup {"none", "status"}
    /\ again \in Transfers \cup {"none", "status"}
    /\ seen_r \in BOOLEAN /\ seen_w \in BOOLEAN /\ halted \in BOOLEAN
    /\ chain2 \in [of : {"nothing", "status", "data"}, flag : BOOLEAN,
                   data : 0 .. MaxWords]
    /\ may_write \in BOOLEAN
    /\ tx_put \in Nat /\ tx_got \in Nat /\ tx_last \in Nat
    /\ rx_put \in Nat /\ rx_got \in Nat /\ rx_last \in Nat

(* Processor to debugger. The scan register holds a second word.           *)
Tx == INSTANCE Mailbox WITH Capacity <- 2, put <- tx_put, got <- tx_got, last <- tx_last

(* Debugger to processor.                                                  *)
Rx == INSTANCE Mailbox WITH Capacity <- 1, put <- rx_put, got <- rx_got, last <- rx_last

(* docs/DEBUG.md, CP14 DCC: each word the program writes to c1 reaches the *)
(* debugger once and in order, whatever the two ends do on the same edge.  *)
TxDelivery == Tx!Spec

(* Each word the debugger deposits is consumed by one MRC c1, in order.    *)
RxDelivery == Rx!Spec

(* A word written to c1 reaches a debugger that keeps reading.             *)
TxArrives == \A n \in 1 .. MaxWords : tx_put = n ~> tx_got >= n
=============================================================================
