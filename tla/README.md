# A TLA+ model of arm7tdmi-sv

This directory holds TLA+ specifications of the ARM7TDMI-S reimplementation in
this repository and of the Python programs that validate and release it, the
configurations that model-check them with TLC, and proofs that TLAPS checks. The
reference is the RTL under `rtl/` and the programs under `scripts/` and
`verification/`; the documents under `docs/` and the comments are used only for what
they promise, and where the code does otherwise the disagreement is written down
below.

Paths here are relative to the repository. `core.sv` stands for
`rtl/core/arm7tdmis_core_pipelined.sv`, `ice_rt.sv`, `jtag_tap.sv`, `psr.sv`, and so
on for `rtl/*/arm7tdmis_<name>.sv`, `top.sv` for `rtl/top/arm7tdmis_top.sv` and
`mister.sv` for `rtl/top/arm7tdmi_mister.sv`.

## The system

### The hardware

The processor is one clock domain. A step of every model is a rising CLK edge (or,
where a component is driven from outside, a change of an input between edges).
CLKEN (CPU_CE at the MiSTer port) stops the core on any edge without stopping the
debug logic, and that is where most of the difficulty comes from: many registers
advance with CLKEN, some do not, and events that last one cycle cross between them.

| Component | State it keeps | Operations | Module |
|---|---|---|---|
| MiSTer bridge (`mister.sv`) | the captured request, its store data, a buffered answer, the save-state halt | capture, store-data capture, buffered or direct answer, snapshot, resume, reset | `MemBridge` |
| Execution pipeline (`core.sv`) | word in flight, F and D slots, execute substate, interlocks, save-state restart word | every substate, every redirect, exception selection, link, the register write port | `CorePipeline` |
| Arithmetic in Execute (`core.sv`, `alu.sv`, `shifter.sv`, `multiplier.sv`, `condition.sv`) | registers and flags, `mull_*_q`, `dp_shift_*_q`, the busy countdown | 16 ALU operations, 5 shifts, 6 multiplications, 15 conditions | `Datapath`, `ArithmeticUnit` |
| Status registers (`psr.sv`) | CPSR, five SPSRs | MSR, flag writes, BX, entry, return, image words 31-36 | `Psr` |
| Register file (`regfile.sv`) | 31 words | core port, debug-scan port, state port, each through the bank index | `RegisterFile` |
| The two on one clock (`core.sv`) | the mode a block transfer began in | entry with its link, return, LDM/STM with S, LDM PC^ with writeback, import | `ProcessorState` |
| Comms channel (`ice_rt.sv`, `jtag_tap.sv`) | TX and RX word and their full bits, the chain-2 response | MRC/MCR p14, debugger reads and writes of registers 4 and 5 | `DebugComms` |
| TAP and step port (`jtag_tap.sv`, `sync_debug_port.sv`) | TAP state, instruction and data scan registers, one-entry response buffer | step, capture, shift, update, reset, disable | `DebugTap` |
| Halt machine (`ice_rt.sv`, `core.sv`, `top.sv`) | halt request and debug state, resume permission, scan-instruction engine, saved fetch, retained interrupt | halt by breakpoint, watchpoint or DBGRQ, scan an instruction, system speed, move the PC, restart | `DebugHalt` |
| Watchpoint units (`ice_rt.sv`) | six registers each, the watch pipeline, the chain latch | compare a transfer, chain, range, reprogram | `Watchpoints` |
| Scan of registers and PC (`top.sv`, `ice_rt.sv`) | transfer under way, registers left, PC advance | start, NOP, data word, execute, stage, RESTART, retire, entry, DBGEN low, TAP reset | `ScanRegisters` |
| Load/store lanes (`core.sv`, `mister.sv`) | the memory | align, extend, rotate, swap, byte enables | `MemoryLanes` |
| Register lists of LDM/STM (`core.sv`) | none of its own | | control only, in `CorePipeline` |
| Decoders (`decode/*.sv`) | none | class of an ARM word, micro-operation of a Thumb word | `Decoders` |
| Reset synchroniser, ETM adapter, bus adapters | a few flops | | not modelled yet |

How they meet:

- The pipeline issues an address phase on every enabled edge and ends the data phase
  of the one before. `MemBridge` stands between it and a memory that may stall; it
  knows of the core only that it chooses address phases.
- The pipeline drives the PSR and the register file with one request per edge.
  Instructions and exceptions share the one write port, so which of them wins is
  a property of the pipeline, and what each write does is a property of the files.
- The halt machine freezes the pipeline through its clock enable, tags fetches,
  replaces the decoded instruction with a scanned one and takes the vector fetch as
  the sign that an exception has been entered. It is modelled together with the slots
  it acts on, in `DebugHalt`.
- The TAP moves only on accepted steps of the port. Update-DR writes the registers
  that the watchpoint units and the comms channel read, with or without CLKEN.
- The comms channel is written by the instruction in Execute, whether or not that
  instruction completes on this edge.

### The validation programs

A release of the core is an archive of reports, and the reports come from some
twenty command-line programs that one runner starts in order. They share no memory:
they meet in the working tree, in git and in the files under `reports/generated/`.

| Component | State it keeps | Operations | Module |
|---|---|---|---|
| Regression runner (`regression_harness.py`) | `regression.json`, rewritten after each phase | start, one phase after the other, failure, interrupt, end | `ReleaseEvidence` |
| Report-writing tools (18 programs) | one report each, and files it lists by hash | announce, wipe, measure, ask git, hash, report or fail | `EvidenceTools` |
| Release gate (`release_evidence.py`) | the archive named after the commit | one validator per report, one section of `_validated_files` per kind | `EvidenceGate`, `ReleaseEvidence` |
| Campaigns (`soak_harness.py`, `random_events.py`, `constrained_random.py`) | seed list, results, report, logs | run a seed, fail, minimize, conclude | `SeedCampaign` |
| Encoding reference (`functional_coverage.py`) | class counts, covered bins | enumerate ARM rows and Thumb words, compare totals and required bins | `Decoders`, `ReferenceOracles` |
| Memory oracle (`constrained_random.py`) | predicted memory and load results | emit a load, emit a store | `MemoryLanes`, `ReferenceOracles` |

What is hard here is that nothing is atomic: the tree may be edited, committed or
reverted while a tool runs, a tool may be started by hand between two phases or after
them, any program may be killed, and a report stays on disk after the run it speaks of.

### Hazards

What is hard to test, and what the properties are for, is listed with its source
line under `hazards` in `PROJECT.json`. The main kinds: an interrupt on the last
edge of a multicycle instruction; a value latched before a stall, a redirect or a
halt and used after it; one-cycle pulses that a gated machine may miss; accesses of
debugger and program to one buffer on one edge; a save state taken anywhere; a report
that outlives the state of the tree it was taken on; two texts that split one space
of encodings.

## The modules

**MemChannel, MemBridge.** `MemChannel` is the promise: a transfer is issued when
nothing is owed, served once with its own address and data, and answered once.
`MemBridge` has every register of the bridge (`request_*_q`, `response_*_q`,
`state_halted_q`) under the names of the code. The core is any master that issues
address phases on enabled edges; the target is any memory that stalls and fails.
Transfers carry a number as history so that a lost or repeated one is seen.
`ChannelSpec` is the refinement: what the bridge owes and what it holds for the core
are read off its registers. Byte enables and sideband bits are not in the module.

**ProgramOrder, CorePipeline.** `CorePipeline` has the word in flight, `fd_q`, `de_q`,
`state_q` with its 17 substates, and the latches that a multicycle instruction leaves
behind. An action is one substate's enabled edge: transition, register writes and
their priority, redirect, exception selection with its link, and the advance of the
three slots, as one step. An instruction is its class, drawn when Execute first reads
it; written values are left out, but not which register of which bank is written.
`ProgramOrder` executes instructions one at a time and takes exceptions between them
with exact links. `OrderSpec` maps the pipeline to it: its program counter is the
oldest instruction not yet executed.

**Datapath, Arithmetic, ArithmeticUnit.** `Datapath` translates the four combinational
blocks at a parametric word size. `ArithmeticUnit` is Execute around them, with the
latches that outlive `de_q`. `Arithmetic` says the same results by integer
arithmetic on signed and unsigned values (sums, quotients and remainders, not bits).
A condition is a relation of the flags or its opposite, a shift by n is n shifts by
one, a logical result the word that has the right bits.
`ArithmeticSpec` is the refinement, and it fails if a latch is read late or early.
The word has four bits and the shift amount three, so that amounts below, at and
above the word size occur; in the code they are 32 and 8, with the same relation.

**Psr; BankedRegisters, RegisterFile.** `Psr` has CPSR and the SPSRs with everything
that may reach them on one edge: one request of the instruction and one exception.
`RegisterFile` has 31 words behind `bank_index` and the three write ports;
`BankedRegisters` has one cell per architectural register. The refinement reads the
file through the code's own index.

**ProcessorState** puts the two on one clock, through the core's choice of bank: the
registers of the current mode, of User for LDM/STM with S, and, one edge after LDM
PC^ has restored CPSR, of the mode the transfer began in (`BlockReturn`,
`BaseWriteback`). `BanksPrivate` says which registers one edge may change.

**Mailbox, DebugComms.** Two words, two full bits, the instruction in Execute, the
halt and the pipelined chain-2 response. `Mailbox` is a bounded in-order queue, used
twice: from processor to debugger with two places (buffer and scan register), and
back with one. Words are numbered. Both ends follow the handshake the documents
ask for; the debugger's command of an access is chosen before its response is seen.

**ScanPath, DebugTap.** The port's buffer, the 16 TAP states, both scan registers and
the chain-2 registers, bits as bits, widths as parameters. `ScanPath` sees an open
scan as a queue of cells, an update as the delivery of that queue, and one answer per
accepted step. Registers 1, 4 and 5 of EmbeddedICE are live views and are modelled
in other modules.

**DebugHalt.** The halt machine, breakpoint tags, the scan-instruction and
system-speed engine, the saved fetch (`halt_response_*`), the retained IRQ and the
wait for the vector, composed with fetch, decode and an Execute of one or three
cycles. The program is a fixed loop, so that "where should it go on" is a history
variable. Monitor mode, INTDIS, FIQ beside IRQ and aborts are left out.

**ScanRegisters.** The debugger reads and writes registers by scanning LDM, STM or STR
through chain 1; an adapter in `top.sv` takes those words from the engine that would
execute them, counts two pipeline NOPs and then moves one register per word. The
module has the adapter's registers (`block`, `store`, `left`, `remaining`, ... for the
`dbg_block_*` and `dbg_store_*` pairs of setup and active bits), the PC advance, the
engine's four bits, the halt and its cause, and the debugger: `script`, `owed`, `count`
say what it believes, `wanted` what the last word was for. A step is the edge of an
Update-DR, a retirement, RESTART, an entry, a fall of DBGEN or a reset of the TAP.
`WordsLand` and `ReturnFormula` compare belief and effect.

**Watchpoints.** Both comparators with masks over a few named bits, the watch
pipeline, chain and range, the stop and abort outputs. The debugger changes from one
configuration to another one register per edge while the program runs.

**EvidenceTools, EvidenceGate, ReleaseEvidence.** `EvidenceTools` describes each tool
by how it treats its report (the record at the top of the module): when it asks git,
when it hashes and what, whether it announces itself, empties its directory, leaves
files that its report lists by hash, and what its failure leaves behind.
`EvidenceGate` has one operator per validator and per section of `_validated_files`.
`ReleaseEvidence` adds the developer, the runner, tools by hand, interrupts, kills and
the archive. A commit is identified with its tree, one command runs at a time, what a
tool measured is "all" or "part" of what the release asks, and the phases that leave
only a log are one phase ("checks").

**SeedCampaign.** The three programs share one skeleton (list the seeds, run the
simulator, stop at the first failure, report) and differ in when they write, in what a
failure leaves and in the generator. The simulator is deterministic in the seed,
except that a slow run may or may not meet its timeout. `minimize` is modelled bit by
bit, with every execution it makes. Seeds have `Bits` bits; both generators have full
period at any width.

**Decoders, MemoryLanes, ReferenceOracles.** `Decoders` has both sides of one
question: the classifiers of `functional_coverage.py` and the two RTL decoders, down to
the fields on which the reference tells two operations apart. A word is
its bits, an ARM row bits 27:20 and 7:4 with the register fields beside them.
`MemoryLanes` has the load and store oracle of `constrained_random.py` beside the core's
`load_value` and the byte enables; a byte is known only by whether it is
negative, and lanes a read leaves open carry anything. `ReferenceOracles` runs the
enumeration and then the random program.

**Validation** joins the oracles and the campaigns in one specification: a behaviour
follows one of them.

Modules named `MC*` give the constants finite values. Operators that a comment calls
a mutant are plausible bugs of the definition that follows them; they are not used by
the specification, and each breaks the property paired with it in `PROJECT.json`.

## The runs

`tlc -workers 2 -config X.cfg M`, with the pairs of `PROJECT.json`. Every run ends in
less than three minutes on two cores.

| Run | What it asks | Bounds, and why they are enough |
|---|---|---|
| `MCMemBridge` | The bridge is a one-outstanding channel; a snapshot is quiescent; transfers end; a held STATE_REQUEST is granted | 2 addresses, 2 values, numbers modulo 2: with one transfer outstanding, a mix-up is between a transfer and the next one |
| `MCCorePipeline` | In-order execution with exact links; no write lost or stray; exact restart address | All classes, exceptions and aborts; 8 halfword addresses, more than the three slots and a fetch span; a multiplication waits for at most 2. Interrupts in the ten substates that write no register on their last edge (see below) |
| `MCDebugComms` | Exactly once, in order, both ways; a word arrives at a debugger that keeps reading | 3 words each way, one more than any stage holds; no exception or halt on a c1 transfer (see below) |
| `MCProcessorState` | An SPSR holds the interrupted context; User is confined; one write, one architectural register; an edge changes no other mode's bank | Three modes with two entries, so that entries nest; r14, which all modes bank; two values; operands of two modes and one of no mode |
| `MCArithmeticUnit` | Results, conditions, double words and cycle counts | Two instructions of 37 forms on 3 registers of 4 bits: the second is decoded, and then executed, behind the first one's latches |
| `MCDebugTap` | Open scans are queues, updates arrive, each step has its answer | Registers of 1+1+2, 2 and 2 bits: a shift path with ends and a middle |
| `MCDebugHalt` | The program goes on where it should; breakpoints stop it; sessions end clean; scanned instructions run once and retire | Loop of a load, an ALU instruction and a jump, and a handler; breakpoint on the ALU instruction or none; interrupts at the edges that complete an instruction or fall inside one (see below) |
| `MCScanRegisters` | Every scanned word has the effect it was scanned for; r15 is the entry plus N + 3S | Lists of one register, of two in two banks, and one that ends in r15; eight words to a session, more than the longest transfer; all causes of entry (see below) |
| `MCWatchpoints` | Verdicts are those of one whole transfer under one whole configuration | 2 address bits, a data bit per half word, 5 transfers and idle, 3 configurations that use chain, range, a Thumb half and monitor mode |
| `MCPipeLongMultiply` | A disagreement: see below | Three classes |
| `MCReleaseEvidence` | What is archived under a commit attests it; a full archive is complete; an undisturbed release is accepted | Two trees that differ in RTL only, so that hashes of own files do not help; two edits, regressions and commands and one mishap: a mix-up is between one regression and the next, with an edit and a rerun between; each tool is followed on its own, with coverage |
| `MCValidation` | Decoders and reference agree; coverage closes; the memory oracle agrees with the lanes; accepted campaigns are earned; verdicts stand; reproducers reproduce; campaigns end | All 4096 ARM rows and 65536 Thumb words; operand fields from 0, 1 and 15 (zero, ordinary, PC); one word of four different bytes and any program of transfers on it; two campaigns of two to four two-bit seeds, one more than the generators have |

Deadlock is not checked where the model stops by a bound: `MCArithmeticUnit` stops
after its instructions, `MCReleaseEvidence` and `MCValidation` when their edits,
commands and campaigns are used up.

Several properties are conjunctions of what one asks of one mechanism:
`FlagsDecide` (conditions after a comparison, double-word carry chains), `SessionEnds`
(no scanned word crosses into the program, no interrupt of the program into debug state), `WaitsEnd` (halts and scanned
instructions end), `ComparesTransfer` (verdict and chain of one whole transfer),
`OrderSpec` (order, links, targets). `MCCorePipeline` and the others leave type
correctness to the proofs and to `TypeOK`, which most modules keep.

## Fairness

- `MemBridge`: CLK runs (the store-data capture and the resume are not put off); the
  target accepts what is advertised, whether or not CPU_CE is high then; CPU_CE is high
  again and again, whether or not the target is ready then; and, strongly, the core
  meets an instruction boundary if it can again and again. That target and enable are
  independent is `docs/INTEGRATION.md`, line 56, so the assumption is made
  of each alone and never of both on one edge; that every instruction ends is the core's.
- `CorePipeline`: weak fairness of the next step. CLKEN comes back and the save-state
  host lets go. It is used only for `HeldFiqServed`, which no run of the project checks.
- `DebugComms`: the debugger keeps reading register 5 and CLK runs. Nothing is assumed
  of the program or of CLKEN.
- `DebugHalt`: enabled edges keep coming on which the debugger and its scans leave the
  core alone. Nothing is assumed of nIRQ, DBGRQ or watchpoints.

- `SeedCampaign`, in `Validation`: weak fairness of the campaign's next step. Every
  execution of the simulator has a timeout (`subprocess.run(..., timeout=...)`), so a
  seed passes, fails or times out. Nothing is assumed about starting a campaign.
- `ReleaseEvidence` has none: a release may be abandoned at any point.

The other modules have safety properties only.

## Where code and documents disagree

A run that passes states what the code does keep. Where it does not, an environment
constant leaves the case out, and setting that constant brings it back: TLC then
finds a behaviour that violates the property named. The clearest one is a run of the
project; the others are reproduced by changing
constants of a passing configuration, as the table says.

Pipeline, starting from `MCPipeLongMultiply.cfg` (its `Kinds` and `VectorKinds` are
{"alu", "msr"} and one class; `IrqStates` is every substate):

| Class, other changes | Property | What the code does |
|---|---|---|
| `mull` (the run itself) | `NothingLost` | core.sv:1974: the exception link outranks the S_MULL_HI write (also S_DP_SHIFT and the LDM base). An IRQ on the last edge of UMULL leaves RdHi unwritten for good. Against the comment at core.sv:1129-1132. |
| `load` | `NothingLost` | core.sv:1948: on the edge that completes an LDR (SWP, MRC, LDC) the load's write outranks the link, so the exception mode's r14 is not written. Against docs/EXCEPTIONS.md:50, 59. |
| `loadpc` | `VectorTaken` | core.sv:2103: the redirect of LDR pc outranks the vector; the mode changes and fetching continues at the loaded address. Against docs/EXCEPTIONS.md:56. |
| `ldmpc` | `InterruptLink` | core.sv:1660: LDM with the PC flushes before its last cycle, and an interrupt there links to the flushed successor. Against docs/EXCEPTIONS.md:61. |
| `undef` | `UndefinedPrecise` | core.sv:1462: S_UNDEF_WAIT is an ordinary boundary; an interrupt there skips the Undefined instruction. Against docs/EXCEPTIONS.md:92. |
| `load`; `AbortedKinds` {"load"}, quiet `IrqStates` | `NothingStray` | core.sv:1391: a failed fetch whose word decodes as a transfer takes the abort and makes the transfer's accesses and writes too. Against docs/EXCEPTIONS.md:123. |
| `store`; `FiqWithAbort`, quiet `IrqStates` | `AbortVectorUntouched` | core.sv:1496: the retained FIQ is entered one cycle after the first instruction at the abort vector has run, which then runs again. Against core.sv:1479. |
| the same | `HeldFiqKept` | core.sv:1482: the retained FIQ is no word of a save state, and a resume clears it. Against docs/EXCEPTIONS.md:148. |

Quiet `IrqStates` is `MCQuietStates`. `MCCorePipeline` restricts interrupts to those
substates and, with `AbortedKinds`, the word of a failed fetch to the classes that
finish in Execute; everything else is free there.

Comms channel, from `MCDebugComms.cfg`:

| Change | Property | What the code does |
|---|---|---|
| `Interrupts` | `RxDelivery` | core.sv:1296: an interrupted MRC c1 clears R without returning the word; the debugger overwrites it. Against docs/DEBUG.md:516. |
| `Halts` | `TxDelivery` | top.sv:280: the request of a frozen MCR c1 fills TX on every enabled edge of the undivided CLKEN. Against docs/DEBUG.md:515, 530. |

Status registers, `MCProcessorState.cfg` with `MsrWithEntry`: `SavedContext` fails. psr.sv:252: MSR
SPSR on the edge of an entry to its own mode overwrites the saved CPSR, against
docs/EXCEPTIONS.md:51 and the comment at psr.sv:232.

TAP, `MCDebugTap.cfg` as it is: `RestartEntersIdle` fails, since jtag_tap.sv:308 restarts
on leaving Update-IR wherever TMS goes (docs/DEBUG.md:197 says on entering
Run-Test/Idle); `RestartTaken` fails, since ice_rt.sv:568 looks at that one-cycle pulse
under CLKEN only (the comment at ice_rt.sv:561 says it cannot be hidden).

Halt machine, from `MCDebugHalt.cfg`:

| Change | Property | What the code does |
|---|---|---|
| `Kind` MCNoLoad, `Breakable` MCNone, `IrqEdges` MCAnyEdge | `ExecutesInOrder` | core.sv:1375: an IRQ retained at a refill bubble is linked from the flushed slot. Against docs/DEBUG.md:274. |
| `Kind` MCTwoLoads, `Breakable` MCNone | `ExecutesInOrder` | core.sv:1375: a retained IRQ fires on the first cycle of a load, whose data cycle then swallows the vector fetch. Against core.sv:1364. |
| none | `ExceptionHalts` | ice_rt.sv:772: while the halt waits for the vector, the breakpoint stop holds the core before it. Against ice_rt.sv:581. |
| `Breakable` MCLoad | `BreakpointStops` | ice_rt.sv:775: a pending interrupt lifts the stop, and a load's first cycle is no boundary: the load runs. Against docs/DEBUG.md:191. |
| `StalledHalts`, no interrupts | `ExecutesInOrder` | core.sv:210: the fetch caught by a halt is sampled in a wait state. Against core.sv:189. |
| `FlushesSaved`, `Breakable` MCJump, no interrupts | `ExecutesInOrder` | core.sv:216: a redirect leaves the saved word, which is latched as the target's. Against core.sv:189. |
| `MovesOn`, no interrupts | `BreakpointStops` | ice_rt.sv:593: the permission to pass a breakpoint passes another one. Against ice_rt.sv:595. |
| `DropsBusy`, no interrupts | `SessionEnds` | ice_rt.sv:724: DBGEN low leaves a scanned word or mark behind. Against ice_rt.sv:763. |

"No interrupts" is `IrqEdges` MCNever.

Scan of registers and PC, from `MCScanRegisters.cfg`:

| Change | Property | What the code does |
|---|---|---|
| `ForcesAck` TRUE | `WordsLand` | top.sv:424: DBGACK forced by Debug Control bit 0 passes for debug state. A transfer scanned at a running core writes registers under the program, and a half-finished one waits for the first words of the next session. |
| `Abandons` TRUE | `WordsLand` | top.sv:456: only DBGEN and DBGnTRST clear a transfer. After a RESTART in the middle of one, the next session's first words are taken for its data. |
| `SpeedWithoutW` TRUE | `WordsLand` | top.sv:424: the adapter does not look at the mark of the word before, so LDM or STM without writeback behind a mark is taken for a register scan and never staged. Against docs/DEBUG.md:474, which stages the load or store that follows the mark. |
| `Waits` FALSE | `WordsLand` | ice_rt.sv:727: a word that arrives while an instruction runs is dropped without a sign. |
| `DropsBusy` TRUE | `WordsLand` | ice_rt.sv:724: DBGEN low leaves a mark or staged word behind for the next session. |
| `ReadsLoadedPc` TRUE | `ReturnFormula` | top.sv:525, 558: a load of r15 zeroes the count, and a read still starts from the address the session was entered at. Against docs/DEBUG.md:499, "Loading r15 rebases this count". |

Watchpoints, `MCWatchpoints.cfg` with `ControlLast`
FALSE: `ComparesTransfer` fails in its part `ChainFresh`. ice_rt.sv:458 clears the chain latch only when WP1's control
value is written, so the debugger has to write that last; docs/DEBUG.md:142 says the
latch resets on programming changes.

Read, and not run as a disagreement:

- docs/MULTIPLY.md:44 gives MLA 1 + m cycles; the multiplier's header and the code take
  one more. `CyclesExact` states the code's.
- release_evidence.py:2 says it packages validated evidence of one commit; the QEMU,
  compiler and Quartus-option reports are archived on presence, with no
  commit in them (`UnboundFiles`). `ArchivedAttested` speaks of the tools in `Bound`.
- A tool that asks git at its end (formal, coverage, CDC, TRM, AC timing, traceability)
  stamps a run clean that began on a dirty tree which was reverted meanwhile.
  `Attests` therefore binds the end of those runs, and both ends of none but those
  that ask at the start and hash at the end, as its definition says.
- The gate accepts a quick regression; an archive of one is not a release-grade
  one, and `FullIsComplete` speaks of full ones.
- `make clean` removes the simulator binaries that two reports list by hash. The runner
  cleans first, so it does no harm in order; started by hand it makes the gate refuse.
- A constrained-random campaign of two seeds started by hand replaces the release
  report under the same name; `ValidConstrainedRandom` is what notices.
- soak_harness.py:60 documents its seeds as nonrepeating: they repeat beyond 2^16 - 1, and
  the gate refuses such a report (`Complete` counts distinct seeds).
  random_events.py:116 does not return when asked for more than 2^31 - 1 seeds; `Announce`
  asks for no more than there are.

## What is proved

The proofs hold for every value of the constants that the named assumptions allow.
They live in modules of their own that extend the component's.

- **MemBridgeProofs.** The invariant `IInv` joins the types, one outstanding request,
  the agreement of bridge and core, who owns store data, and quiescent snapshots. None
  is inductive alone: a snapshot is quiescent because the capture looks at a bridge
  that agrees with the core, and they agree because there is one request at most.
  From it `BridgeTypes`, `SnapshotsAreQuiescent`, `CoreAndBridgeAgree`, and
  `BridgeImplementsChannel`, the refinement of `MemChannel`, step by step.
- **DebugTransportProofs.** Of the TAP: `TapTypes` and `TapIsScanPath`, the refinement of
  `ScanPath`, for any widths, distinct instruction codes and kept bits. The queue of an open
  scan is the same register read in one order or the other: least significant bit first, or
  for the chains the other way round (`DownShifts`, `UpShifts`); which cells belong to it
  depends on the instruction and the chain in force, and neither changes while a scan is open
  (`KindStays`). The types are not enough: a scan of a chain that does not exist reads zeros, on the wire too,
  only because the register was cleared at its capture (`NoChainEmpty`). One lemma
  per controller state that does something, and one for those that do nothing.
  Of the communications channel, assuming no exception and no halt on a c1 transfer:
  `CommsInv` counts the words in each place (`WordsCounted`), says that what an end has seen
  of a full bit is still so (`SightsCurrent`), and that a transfer in Execute is one the
  handshake allows (`TransfersReady`). From it `TxIsMailbox` and `RxIsMailbox`.
- **CorePipelineProofs.** Assuming `QuietInterrupts`: interrupts are accepted in the quiet
  substates, no FIQ shares an edge with a failed response, and the word after a failed fetch
  finishes in Execute. Each case left out is a row of the pipeline's disagreement table, where
  the properties fail. For any classes of instructions, vectors and program size:
  `PipelineTypes`, `PortLosesNothing` and `PortWritesNothingElse` (every owed write is
  committed, and no other), `RestartIsExact` (where an exception or a halt resumes) and
  `PipelineInOrder` (the refinement of `ProgramOrder`). The inductive invariant has four
  parts besides the types. `SlotsInOrder`: Fetch, Decode and Execute hold consecutive addresses of
  one stream, or bubbles behind a redirect. `LatchesMatch`: the substate, the latched instruction
  and the mode belong together. `AbortsPending`: where a failed response may be remembered.
  `DebtsMatch`: what is still owed in each substate. Neither
  the ledger nor the order is inductive without the others: a beat writes what is owed
  because the latches say which beat it is, and an exception links to the right address
  because the slots are consecutive. The proof follows the code: what any edge
  does to slots, ledger and the rest (`EdgeAdvance`, `EdgeSlots`, `EdgeCommit`,
  `EdgeRest`), what an exception does (`EdgeException`, `ExceptionStep`), what the beginning of an
  instruction does (`BeginStep`), then one lemma per substate.
- **ProcessorStateProofs.** Of the status registers: types and legal mode are inductive
  together, because a return and a masked write need the type of the word they read;
  `PsrLegalMode`, `PsrSavedContext` (if no MSR SPSR shares its edge with an entry to its
  mode) and `PsrUserConfined`. Of the register file: the bank index is one to one on architectural registers and
  the image's index agrees with it; hence `RegistersAreBanked`, the refinement of
  `BankedRegisters`. The composition keeps to both specifications at once
  (`ProcessorParts`); `PrivateBanks` adds what neither file says alone, which mode's
  registers an edge may change.
  Of the arithmetic unit, at every word size: `UnitTypes`, `TimedByTable` (`CyclesExact`),
  `FlagsAreNumbers` (`FlagsDecide`) and `ArithmeticIsKept` (`ArithmeticSpec`). `CyclesLeft` says what each substate knows of the
  cycles to come; `CountIsNeed` is the fact about numbers behind it, that looking at the
  bytes of Rs for zeros and ones counts the bytes its signed value needs. `AdderMeans`
  reads the adder's result and flags as numbers, from which comparisons and, by the
  carry between two sums (`ChainMeans`), double words follow. Powers of two, the word with given
  bits and the multiplier's m are recursive functions and minima; `FirstFailure`, the principle of
  the least element, takes the place of the library's induction theorem.
  The refinement of `Arithmetic` rests on one lemma per block. `ShifterShifts`: one more in the
  amount is one more single shift, for each shift and on both sides of the word size
  (`LeftStep`, `RightStep`, `SignStep`, `RotateStep`), so any amount is as many. `AluKeepsPromise`: the
  result is the exact value cut to a word and the flags are what it exceeds (`ExactIs`), or the only word
  with the right bits (`SameBits`). `LongProduct` and `ShortProduct`: the product of the sign-extended
  words is that of the numbers, modulo the width kept. Then the steps: `WillHold` changes
  once, on the edge that ends `S_EXEC` (`ProcessingStep`, `MultiplyingStep`, `AccumulatingStep`), and the
  later cycles write what it says already (`LaterCycles`). That is not inductive without `UnitInv`, which
  says that a high word is only ever waiting for a long form.
- **ScanRegistersProofs.** `ScannedWordsLand` and `ScannedReturnFormula`, assuming
  `KeepsProtocol` (the six switches above as in the run). `InStep` says that adapter and
  engine are where the debugger takes them to be: what is owed is what remains, in the
  same order and bank, the mark and the staged word are those of the script, and a
  running core has no transfer. `PcInStep` says that the two counts differ by the
  instruction that runs and the NOPs already scanned. Neither property is inductive: a
  word lands right only if the words before it left the adapter in step.
- **IceRtProofs.** The halt machine and the watchpoint units, which share no state.
  Of the halt machine: `HaltTypes`, `HaltInOrder`, `HaltStops`, `HaltEnds` and `HaltHolds`, for
  any program, vector, sets of breakpoints and behaviour of debugger and inputs within
  `SafeUse`. Its clauses are the rows of the halt machine's disagreement table turned round,
  besides `ExceptionHalts`, which is liveness: no interrupt in the bubble behind a jump, no
  two transfers in a row and no breakpoint on one if there are interrupts at all
  (`Interruptible`), `FlushesSaved`, `StalledHalts`, `MovesOn`, `DropsBusy` as in the run. One
  clause says that no program runs off its end.
  None of the properties is inductive: an instruction is the one due only because the slots
  behind it are. `HaltInv` says, besides types: the slots hold a stretch of the program that
  begins with the instruction due, in one of four shapes or that of a transfer (`Stream`); the
  saved fetch is the one in flight, and nothing will flush it (`SavedIsFetch`); a scanned
  instruction is offered, in Decode, in Execute or in its access, with a drained pipeline
  (`Phases`, `Waiting`); a retained interrupt waits for the end of a transfer, or at an
  instruction it can interrupt, and the halt waits with it (`Retained`); tags are those
  of the breakpoints while DBGEN has been high (`Tags`); and what holds the core at a
  breakpoint, or may be passed once, is the instruction due (`Resume`). The stream speaks
  only of a pipeline the debugger has not scanned into since it loaded the PC (`Clean`).
  A step stands still, moves a scanned instruction, moves the program, or loads
  the PC; what each does is one lemma (`StayStep`, `InjectStep`, `MoveCore` with
  `EnterStep`, `RedirectStep` and `AdvanceShape`, `LoadStep`), what the halt machine does
  meanwhile another (`StayIce`, `MoveIce`), and each part of the invariant is kept over these.
  Of the watchpoint units: `VerdictsOfOneTransfer` and `StopsAsProgrammed`, assuming
  `ControlLast`. The invariant: the watch pipeline holds the address phase of the transfer on
  the bus; units change only while the comparators are off; and a set chain latch is
  either as new as WP1 or about to be cleared, because WP1's control value is still to be
  written. The rest is that a masked comparison is a statement about the bits that differ.
- **ValidationProofs.** Of the oracles: `MemoryMatchesOracle` and `LoadsMatchOracle` for any
  bytes, any number of words and any program of transfers, in both endiannesses, and
  `OraclesAlwaysAgree` for the regression as a whole. The argument is one lemma per access, by
  cases on size and lane, that the merged write and the aligned read are those of the oracle;
  the invariant is that the two memories are equal and made of bytes.
  Of the campaigns: `ReleaseAcceptsEarned` and `CampaignVerdictStands`, for any width of a
  seed and any simulator. `CampaignInv` says what a run knows of its seeds (`RunOK`: its
  results are those of the first seeds of its list, all distinct unless a soak has outrun
  its generator, all passed while it goes on, each with its log), what any report on disk says
  (`ReportOK`: its results are the simulator's, whichever campaign left it), and what a
  campaign that passed leaves (`PassedOK`). The property about reports does not follow from
  itself: a report is true later because how a seed behaves is fixed when it is first run,
  and its seeds are distinct because the list they are taken from is.
  That is `SeedsAreDrawn`, for every width: the lists of both generators are nonzero and repeat
  only after a period. The n-th state is the first plus S(n) e, cut to a seed, where S(n)
  is the sum of the powers of the multiplier below n and e is odd (`StateIsSum`). Two equal
  states make some S(n) a multiple of 2^w, and as the multiplier is one more than a
  multiple of four, so is n (`SumMultiple`): S(2 j) is S(j) times twice an odd number. So the
  first 2^w states differ (`FullPeriod`). The list of the soak finds its seeds
  among the first 2 n + 1 states because zero never follows zero (`EnoughStates`), that of the
  events within one period, where zero comes at most once (`PeriodStates`). What
  is left of `SeedsAssumption` is that the set of seeds is as large as constrained_random.py needs.
  `SoakReproduces` (`ReproducerReproduces`): `ReproducerInv` says that the seed `minimize` has so
  far is a reproducer already, of the failure in the run's last result, and that a report's
  reproducer stays one. Each bit it tries then only needs `ClearedBits`: clearing one bit of a
  number sets no other and makes it no greater. Behind that is how powers of two add and what
  they divide; `PowersAdd` reads them as numbers of subsets, which the library's theorems about
  finite sets count, so no induction is needed.
  Of the encodings: `ArmRowsAlike` (`ArmRowsAgree`). The run tries three numbers in each
  register field; the theorem needs only that these three are among them and so holds of all
  sixteen, of every word of the 4096 rows with the condition AL. A word can only have the
  class of its row or trap (`RowClassOf`), and `Executed` gives the word of each class that does not
  trap and whose bin the row covers (`ExecutedClass`, `ExecutedBin`).
- **ReleaseEvidenceProofs.** For any trees, tools and bounds, `ArchivesAttest`. The
  inductive part (`StampInv`) says of every report and running job that a
  clean stamp names the tree it was taken on; `GateAttests` then shows that what the
  gate compares (commit, dirty flag, hashes) leaves no other tree. For `FullIsComplete`,
  `RunnerInv` says what the runner has behind it and what is left, and `CoverageInv` that there is
  no smaller coverage report. For `HonestAccepted`, `CalmInv` says that every phase which
  passed undisturbed has left a report of this commit with its files in place: inductive because
  the phases are taken in order, so that `make clean`, the one phase that removes another's
  files, has no report to spoil (`CleanComesFirst`).

Only model-checked: all liveness (reasoning about fairness needs ENABLED, which the
installed provers do not support); the pipeline outside `QuietInterrupts`; and of the oracles `ThumbWordsAgree` and `CoverageCloses`. These
two depend on no constant: the run looks at all 65536 Thumb words, all 4096 rows and every
policy word, so that a proof would say no more than it does.

## What is not modelled

The shared packages are tables. The port without debug pins is wiring. The board
projects are examples. The testbenches are read for what they promise. The checkers of
Quartus reports and of the SoC ROM, the mutation harness and the tool installers
read or fetch finished files and keep no state.
Inside modelled components, `PROJECT.json` says under each what is left out; the main
omissions are operand values in `CorePipeline`, r15 as an operand and interrupts in
`ArithmeticUnit`, monitor mode and aborts in `DebugHalt`, the c2 status bit and
DBGnTRST in `DebugComms`, register contents and Thumb state in `ScanRegisters`, the control fields the reference does not tell apart in
`Decoders`, and, in the programs, everything a tool measures. The components are modelled apart: what one assumes of
another (one request per edge, an answer on the next enabled edge) is stated in its
header.

## Plan

Done, in this order: the bridge and its proofs; the pipeline; the comms channel and its
proofs; status registers and register file with theirs; TAP, halt machine; arithmetic;
watchpoints; the release process and its proofs; campaigns; decoders and memory lanes
beside the Python oracles, with the proof for the lanes; status registers and register
file composed; the scan of registers and PC with its proofs; the proofs of the pipeline; the
rest of the release process's; those of the campaigns; that of the TAP; those of the halt
machine; those of the arithmetic unit, its refinement last; the reproducer's; that of the ARM rows;
the full period of the seed generators.

Next, model:

1. `BlockTransfer`: register lists, addresses and base values of core.sv as operators,
   against a definition of the accesses an instruction means.
2. The Wishbone and enable/done adapters as refinements of `MemChannel`, beside the
   bridge; the reset synchroniser and the ETM adapter.
3. FIQ beside IRQ, and monitor mode, in `DebugHalt`.

Next, prove:

1. That the adapters implement `MemChannel`, and the addresses of `BlockTransfer`, once they are
   modelled. Of what the runs check now, only what "What is proved" leaves to them is left.
