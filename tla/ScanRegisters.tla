--------------------------- MODULE ScanRegisters ---------------------------
(***************************************************************************)
(* The registers and the PC through scan chain 1.  The words a debugger    *)
(* scans are instructions for the core, or, when the adapter in the top    *)
(* level recognises a block transfer, the transfer, its two pipeline NOPs  *)
(* and then one data word for each register.  The adapter shares the chain *)
(* with the EmbeddedICE instruction engine and knows of debug state only   *)
(* through DBGACK.                                                         *)
(*                                                                         *)
(* A step is a CLK edge on which something happens.  A scan is one step,   *)
(* the edge of its Update-DR: nothing the capture reads changes while the  *)
(* word is shifted.  Register contents are left out, and so is Thumb       *)
(* state; addresses count ARM words from the r15 of the entry.             *)
(*                                                                         *)
(* The debugger is part of the model: script, owed, count and loaded say   *)
(* where it is in its protocol, wanted what the last word was scanned for. *)
(***************************************************************************)
EXTENDS Integers

CONSTANTS Lists,          \* register lists the debugger transfers
          MaxCount,       \* bound on the words it counts in one session
          ForcesAck,      \* Debug Control bit 0
          Waits,          \* does it wait for a scanned instruction to retire?
          Abandons,       \* may it RESTART in the middle of a transfer?
          SpeedWithoutW,  \* may a system-speed block transfer have W clear?
          ReadsLoadedPc,  \* may it read r15 after loading it?
          DropsBusy       \* may DBGEN fall while the engine is occupied?

ASSUME ListsAssumption == \A l \in Lists : l # {} /\ l \subseteq 0 .. 15
ASSUME BoundAssumption == MaxCount \in Nat
ASSUME DebuggerAssumption ==
    {ForcesAck, Waits, Abandons, SpeedWithoutW, ReadsLoadedPc, DropsBusy}
        \subseteq BOOLEAN

VARIABLES
    block, store,   \* dbg_block_*, dbg_store_*: "idle", "setup" or "active"
    left,           \* dbg_*_setup_left_q
    load, force_user, remaining, block_reg, store_reg,
    advance,        \* dbg_pc_advance_q
    seen,           \* dbg_session_seen_q
    halted, cause,  \* in_debug_halt; what the core halted for, "redirected"
                    \* when a loaded PC has cancelled the redirect
    active, armed, pending, speed,  \* inject_active_q, system_speed_*_q
    moved,          \* what the last scanned word did
    script, owed, count, loaded, wanted

adapter == <<block, store, left, load, force_user, remaining, block_reg, store_reg>>
engine == <<active, armed, pending, speed>>
host == <<script, owed, count, loaded>>
vars == <<adapter, advance, seen, halted, cause, engine, moved, host, wanted>>

Causes == {"request", "breakpoint", "exception", "redirect"}

(* Block transfers without writeback, and STR Rd,[r15].                    *)
Transfers == {"load", "store", "str"}

(* "move" is a word that is no memory access, "memory" one that is but not *)
(* in a form the adapter takes: LDR, or LDM and STM with writeback.        *)
Singles == {{r} : r \in (UNION Lists) \ {15}}
Words ==
    [kind : {"move", "memory"}, list : {{}}, user : {FALSE}, marked : BOOLEAN]
      \cup [kind : {"load", "store"}, list : Lists, user : BOOLEAN, marked : BOOLEAN]
      \cup [kind : {"str"}, list : Singles, user : {FALSE}, marked : BOOLEAN]

Effect(kind) == [kind |-> kind, reg |-> 0, user |-> FALSE, r15 |-> <<>>]
Nothing == Effect("nothing")
NoTransfer == [op |-> "none", user |-> FALSE, regs |-> {}, nops |-> 0]

debug_lowest_reg(mask) == CHOOSE r \in mask : \A q \in mask : r <= q

Init ==
    /\ block = "idle" /\ store = "idle" /\ left = 0
    /\ load = FALSE /\ force_user = FALSE
    /\ remaining = {} /\ block_reg = 0 /\ store_reg = 0
    /\ advance = 0 /\ seen = FALSE /\ halted = FALSE /\ cause = "request"
    /\ active = FALSE /\ armed = FALSE /\ pending = FALSE /\ speed = FALSE
    /\ moved = Nothing /\ wanted = Nothing
    /\ script = "free" /\ owed = NoTransfer /\ count = 0 /\ loaded = FALSE
-----------------------------------------------------------------------------
(* The adapter.                                                            *)
ice_dbg_ack == ForcesAck \/ (halted /\ ~speed)
Idle == block = "idle" /\ store = "idle"

(* Mutant of starts: a core that runs is taken for one in debug state.     *)
StartsRunning(w) == Idle /\ ~w.marked /\ w.kind \in Transfers

starts(w) == ice_dbg_ack /\ Idle /\ ~w.marked /\ w.kind \in Transfers
consumes(w) == starts(w) \/ ~Idle
completes == left = 1 /\ (block = "setup" \/ store = "setup")

dbg_reg_we == block = "active" /\ load
dbg_reg_addr == IF store = "active" THEN store_reg ELSE block_reg

(* Mutant of dbg_reg_force_user: S of an earlier block holds for the STR.  *)
StaleForceUser == force_user

dbg_reg_force_user == store # "active" /\ force_user
dbg_pc_rebase == dbg_reg_we /\ dbg_reg_addr = 15

(* The r15 of a captured block: every entry has its next instruction there *)
(* plus two words, a breakpoint another one.  A loaded PC moves the fetch  *)
(* and cancels a pending redirect, but not the address in Execute.         *)
dbg_entry_r15 == IF cause = "redirected" THEN "redirected" ELSE "entry"
Bias == IF cause = "breakpoint" THEN 1 ELSE 0
dbg_block_capture_data ==
    IF block = "active" /\ ~load /\ block_reg = 15
    THEN <<dbg_entry_r15, advance + Bias>> ELSE <<>>

Setup(w) ==
    IF w.kind = "str"
    THEN /\ store' = "setup" /\ left' = 2 /\ store_reg' = debug_lowest_reg(w.list)
         /\ UNCHANGED <<block, load, force_user, remaining, block_reg>>
    ELSE /\ block' = "setup" /\ left' = 2 /\ load' = (w.kind = "load")
         /\ force_user' = w.user /\ remaining' = w.list
         /\ block_reg' = debug_lowest_reg(w.list)
         /\ UNCHANGED <<store, store_reg>>

(* A pipeline NOP behind the transfer; the last one opens the data phase.  *)
Fill ==
    /\ left' = left - 1
    /\ block' = IF block = "setup" /\ completes THEN "active" ELSE block
    /\ store' = IF store = "setup" /\ completes THEN "active" ELSE store
    /\ UNCHANGED <<load, force_user, remaining, block_reg, store_reg>>

(* A data word.                                                            *)
Transfer ==
    LET after == remaining \ {block_reg}
    IN IF block = "active"
       THEN /\ remaining' = after
            /\ block' = IF after = {} THEN "idle" ELSE block
            /\ block_reg' = IF after = {} THEN block_reg ELSE debug_lowest_reg(after)
            /\ UNCHANGED <<store, left, load, force_user, store_reg>>
       ELSE /\ store' = "idle"
            /\ UNCHANGED <<block, left, load, force_user, remaining, block_reg, store_reg>>

Adapter(w) ==
    \/ starts(w) /\ Setup(w)
    \/ (block = "setup" \/ store = "setup") /\ Fill
    \/ (block = "active" \/ store = "active") /\ Transfer
    \/ ~consumes(w) /\ UNCHANGED adapter

Cleared ==
    /\ block' = "idle" /\ store' = "idle" /\ left' = 0
    /\ load' = FALSE /\ force_user' = FALSE
    /\ remaining' = {} /\ block_reg' = 0 /\ store_reg' = 0
-----------------------------------------------------------------------------
(* Mutant of Advanced: the count is carried from one session to the next.  *)
CarriedOver(scans, retires) ==
    IF scans /\ dbg_pc_rebase THEN 0
    ELSE IF scans /\ completes THEN advance + 3
    ELSE IF retires THEN advance + IF speed THEN 3 ELSE 1
    ELSE advance

(* The PC advance of the session after an edge.                            *)
Advanced(scans, retires) ==
    IF (halted /\ ~seen) \/ (scans /\ dbg_pc_rebase) THEN 0
    ELSE IF scans /\ completes THEN advance + 3
    ELSE IF retires THEN advance + IF speed THEN 3 ELSE 1
    ELSE advance

(* The engine: a word the adapter leaves is executed, staged for RESTART,  *)
(* or dropped.                                                             *)
Takes(w) == ~consumes(w) /\ halted /\ ~active /\ ~pending
Stages(w) == Takes(w) /\ armed /\ w.kind # "move"
Executes(w) == Takes(w) /\ ~armed

Engine(w, retires) ==
    /\ active' = (Executes(w) \/ (active /\ ~retires))
    /\ armed' = IF Takes(w) THEN Executes(w) /\ w.marked ELSE armed
    /\ pending' = (pending \/ Stages(w))
    /\ speed' = (speed /\ ~retires)

Moved(w) ==
    IF block = "active" \/ store = "active"
    THEN [kind |-> IF dbg_reg_we THEN "write" ELSE "read", reg |-> dbg_reg_addr,
          user |-> dbg_reg_force_user, r15 |-> dbg_block_capture_data]
    ELSE Effect(IF Stages(w) THEN "stage" ELSE IF Executes(w) THEN "execute" ELSE "nothing")

(* The Update-DR of a word on chain 1.                                     *)
Scanned(w) ==
    \E retires \in {FALSE, active} :
        /\ Waits => ~active
        /\ Adapter(w) /\ Engine(w, retires) /\ moved' = Moved(w)
        /\ advance' = Advanced(TRUE, retires) /\ seen' = halted
        /\ cause' = IF dbg_pc_rebase /\ cause = "redirect" THEN "redirected" ELSE cause
        /\ UNCHANGED halted
-----------------------------------------------------------------------------
(* The debugger's protocol.                                                *)
Counts(n) == count + n <= MaxCount /\ count' = count + n

(* The core runs: a word for it is no use.                                 *)
Poll(w) ==
    /\ ~halted /\ Scanned(w)
    /\ wanted' = Nothing /\ UNCHANGED host

(* An instruction at debug speed.  Bit 33 marks the next word.             *)
Execute(w) ==
    /\ halted /\ script = "free" /\ w.kind = "move" /\ Scanned(w)
    /\ wanted' = Effect("execute") /\ Counts(1)
    /\ script' = IF w.marked THEN "marked" ELSE "free"
    /\ UNCHANGED <<owed, loaded>>

Begin(w) ==
    /\ halted /\ script = "free" /\ ~w.marked /\ w.kind \in Transfers
    /\ w.kind = "store" /\ 15 \in w.list /\ loaded => ReadsLoadedPc
    /\ Scanned(w)
    /\ owed' = [op |-> w.kind, user |-> w.user, regs |-> w.list, nops |-> 2]
    /\ wanted' = Nothing /\ Counts(1)
    /\ script' = "transfer" /\ UNCHANGED loaded

Nop(w) ==
    /\ halted /\ script = "transfer" /\ owed.nops > 0
    /\ w.kind = "move" /\ ~w.marked /\ Scanned(w)
    /\ owed' = [owed EXCEPT !.nops = @ - 1]
    /\ wanted' = Nothing /\ Counts(1) /\ UNCHANGED <<script, loaded>>

(* A data word has any bits.                                               *)
Data(w) ==
    LET r == debug_lowest_reg(owed.regs)
        rest == owed.regs \ {r}
    IN /\ halted /\ script = "transfer" /\ owed.nops = 0 /\ Scanned(w)
       /\ wanted' = [kind |-> IF owed.op = "load" THEN "write" ELSE "read",
                     reg |-> r, user |-> owed.user,
                     r15 |-> IF owed.op = "store" /\ r = 15
                             THEN <<IF loaded THEN "loaded" ELSE "entry", count + Bias>>
                             ELSE <<>>]
       /\ owed' = IF rest = {} THEN NoTransfer ELSE [owed EXCEPT !.regs = rest]
       /\ script' = IF rest = {} THEN "free" ELSE "transfer"
       /\ loaded' = (loaded \/ (owed.op = "load" /\ r = 15))
       /\ count' = IF owed.op = "load" /\ r = 15 THEN 0 ELSE count

(* The word behind a mark: an access for system speed, or the branch of    *)
(* the exit sequence.                                                      *)
Marked(w) ==
    /\ halted /\ script = "marked" /\ ~w.marked
    /\ \/ /\ w.kind = "memory" \/ (SpeedWithoutW /\ w.kind \in {"load", "store"})
          /\ wanted' = Effect("stage") /\ script' = "staged"
       \/ w.kind = "move" /\ wanted' = Nothing /\ script' = "leaving"
    /\ Scanned(w) /\ UNCHANGED <<owed, count, loaded>>

(* RESTART runs the staged access, or the program.                         *)
Restart ==
    /\ halted /\ (Waits => ~active)
    /\ script \in {"free", "staged", "leaving"} \/ Abandons
    /\ IF pending /\ ~active
       THEN active' = TRUE /\ speed' = TRUE /\ pending' = FALSE /\ UNCHANGED <<halted, armed>>
       ELSE /\ halted' = (pending \/ speed) /\ armed' = (armed /\ (active \/ pending))
            /\ UNCHANGED <<active, speed, pending>>
    /\ IF script = "staged" THEN Counts(3) ELSE UNCHANGED count
    /\ script' = "free" /\ owed' = NoTransfer
    /\ advance' = Advanced(FALSE, FALSE) /\ seen' = halted
    /\ moved' = Nothing /\ wanted' = Nothing
    /\ UNCHANGED <<adapter, cause, loaded>>
-----------------------------------------------------------------------------
Retire ==
    /\ active /\ active' = FALSE /\ speed' = FALSE
    /\ advance' = Advanced(FALSE, TRUE) /\ seen' = halted
    /\ moved' = Nothing /\ wanted' = Nothing
    /\ UNCHANGED <<adapter, halted, cause, armed, pending, host>>

(* The core stops; a session begins.                                       *)
Halt ==
    /\ ~halted /\ halted' = TRUE /\ cause' \in Causes
    /\ advance' = Advanced(FALSE, FALSE) /\ seen' = halted
    /\ count' = 0 /\ loaded' = FALSE
    /\ moved' = Nothing /\ wanted' = Nothing
    /\ UNCHANGED <<adapter, engine, script, owed>>

(* DBGEN is low, and stays so for an enabled edge.                         *)
Disabled ==
    /\ armed \/ pending \/ active => DropsBusy
    /\ Cleared
    /\ advance' = 0 /\ seen' = halted /\ halted' = FALSE
    /\ script' = "free" /\ owed' = NoTransfer /\ count' = 0 /\ loaded' = FALSE
    /\ moved' = Nothing /\ wanted' = Nothing
    /\ UNCHANGED <<cause, engine>>

(* DBGnTRST.                                                               *)
TapReset ==
    /\ Cleared /\ advance' = 0 /\ seen' = FALSE /\ halted' = FALSE
    /\ active' = FALSE /\ armed' = FALSE /\ pending' = FALSE /\ speed' = FALSE
    /\ script' = "free" /\ owed' = NoTransfer /\ count' = 0 /\ loaded' = FALSE
    /\ moved' = Nothing /\ wanted' = Nothing /\ UNCHANGED cause

Scan(w) == Poll(w) \/ Execute(w) \/ Begin(w) \/ Nop(w) \/ Data(w) \/ Marked(w)
Next == (\E w \in Words : Scan(w)) \/ Restart \/ Retire \/ Halt \/ Disabled \/ TapReset

Spec == Init /\ [][Next]_vars
-----------------------------------------------------------------------------
(* Every word has the effect it was scanned for and no other: an           *)
(* instruction is executed, an access staged, a data word moves to or from *)
(* the next register of the list in the bank the S bit says, and a running *)
(* program's registers are left alone; whatever sessions, mode bits,       *)
(* resets and drops of DBGEN came before.  docs/DEBUG.md:422.              *)
WordsLand == <<moved.kind, moved.reg, moved.user>> = <<wanted.kind, wanted.reg, wanted.user>>

(* A scanned r15 is ahead of the entry by one word for each instruction    *)
(* executed or consumed, three for one at system speed, and one for a      *)
(* breakpoint: the return formula of docs/DEBUG.md:495.                    *)
ReturnFormula == moved.r15 = wanted.r15
=============================================================================
