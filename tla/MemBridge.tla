------------------------------- MODULE MemBridge -------------------------------
(***************************************************************************)
(* The one-outstanding request/response bridge of                          *)
(* rtl/top/arm7tdmi_mister.sv, with the save-state halt that shares its    *)
(* clock enable.  The raw core is address/data pipelined: on every enabled *)
(* edge it ends one data phase and samples the next address phase.  The    *)
(* core here chooses its address phases freely (core_pipelined's bus mux), *)
(* the target is a memory that may stall and may fail a transfer, CPU_CE   *)
(* stops the core on any edge, and the host raises STATE_REQUEST at will.  *)
(*                                                                         *)
(* One step of the model is one posedge of CLK, or a change of an input.   *)
(***************************************************************************)
EXTENDS Naturals

CONSTANTS
  Addr,          \* word addresses
  Data,          \* word contents
  NoData,        \* the canonical WDATA of a read (zero in the RTL)
  NTags,         \* transfers are numbered modulo NTags (a ghost)
  None           \* the core is in no memory data phase

ASSUME NoDataAssumption == NoData \in Data
ASSUME NTagsAssumption == NTags \in Nat \ {0}
Tag == 0 .. NTags - 1
NextTag(n) == (n + 1) % NTags
Transfer == [tag: Tag, addr: Addr, write: BOOLEAN, data: Data]
Answer == [req: Transfer, data: Data, error: BOOLEAN]
ASSUME NoneAssumption == None \notin Transfer /\ None \notin Answer

VARIABLES
  request_valid_q, request_addr_q, request_write_q,   \* the captured address phase
  request_wdata_q, request_wdata_valid_q,             \* its store data, one edge later
  response_valid_q, response_data_q, response_error_q, \* an answer the core has not taken
  state_halted_q, STATE_REQUEST,                      \* save-state halt and its request
  core_phase,    \* the data phase the core is in: a Transfer, or None
  core_seen,     \* the last answer the core sampled, or None
  tag,           \* ghost: the number of the last transfer
  mem            \* the target's storage

request  == <<request_valid_q, request_addr_q, request_write_q,
              request_wdata_q, request_wdata_valid_q>>
response == <<response_valid_q, response_data_q, response_error_q>>
halt     == <<state_halted_q, STATE_REQUEST>>
core     == <<core_phase, core_seen, tag>>
vars     == <<request, response, halt, core, mem>>

TypeOK ==
  /\ request_valid_q \in BOOLEAN /\ request_write_q \in BOOLEAN
  /\ request_addr_q \in Addr
  /\ request_wdata_q \in Data /\ request_wdata_valid_q \in BOOLEAN
  /\ response_valid_q \in BOOLEAN /\ response_error_q \in BOOLEAN
  /\ response_data_q \in Data
  /\ state_halted_q \in BOOLEAN /\ STATE_REQUEST \in BOOLEAN
  /\ core_phase \in Transfer \cup {None}
  /\ core_seen \in Answer \cup {None}
  /\ tag \in Tag
  /\ mem \in [Addr -> Data]

Init ==
  /\ request_valid_q = FALSE /\ request_addr_q \in Addr /\ request_write_q = FALSE
  /\ request_wdata_q = NoData /\ request_wdata_valid_q = FALSE
  /\ response_valid_q = FALSE /\ response_data_q = NoData /\ response_error_q = FALSE
  /\ state_halted_q = FALSE /\ STATE_REQUEST = FALSE
  /\ core_phase = None /\ core_seen = None /\ tag = 0
  /\ mem \in [Addr -> Data]

-----------------------------------------------------------------------------
(* The wires.  ready, ce: MEM_READY and CPU_CE on this edge.               *)

request_ready == request_valid_q /\ (request_write_q => request_wdata_valid_q)
memory_accept(ready) == request_ready /\ ready
bus_waiting == request_valid_q \/ response_valid_q
\* Mutant: a buffered answer does not release the core.
LiveAnswerOnly(ready) == memory_accept(ready)
response_available(ready) == response_valid_q \/ memory_accept(ready)

core_clken(ce, ready) ==
  /\ ce
  /\ ~state_halted_q
  /\ bus_waiting => response_available(ready)

\* What the core samples on an enabled edge that ends a data phase.
core_rdata(reply) == IF response_valid_q THEN response_data_q ELSE reply.data
\* Mutant: the abort is taken from the live MEM_ERROR of another edge.
LiveAbort(ready, reply) == bus_waiting /\ response_available(ready) /\ reply.error
core_abort(ready, reply) ==
  /\ bus_waiting
  /\ response_available(ready)
  /\ IF response_valid_q THEN response_error_q ELSE reply.error

-----------------------------------------------------------------------------
(* The target: MEM_RDATA and MEM_ERROR mean something on an accepting edge *)

Replies ==
  {r \in [data: Data, error: BOOLEAN] :
     ~r.error /\ ~request_write_q => r.data = mem[request_addr_q]}

TargetStores(ready, reply) ==
  mem' = IF memory_accept(ready) /\ request_write_q /\ ~reply.error
           THEN [mem EXCEPT ![request_addr_q] = request_wdata_q]
           ELSE mem

-----------------------------------------------------------------------------
(* Edges on which the core is stopped.                                     *)

\* The store data of the address phase captured on the preceding enabled edge.
CaptureWriteData ==
  /\ request_valid_q /\ request_write_q /\ ~request_wdata_valid_q
  /\ request_wdata_q' = IF core_phase = None THEN NoData ELSE core_phase.data
  /\ request_wdata_valid_q' = TRUE
  /\ UNCHANGED <<request_valid_q, request_addr_q, request_write_q,
                 response, halt, core, mem>>

\* The target completes while the core cannot advance: retain its answer.
BufferAnswer(ce) ==
  /\ memory_accept(TRUE)
  /\ ~core_clken(ce, TRUE)
  /\ request_valid_q' = FALSE
  /\ request_wdata_valid_q' = FALSE
  /\ \E reply \in Replies :
       /\ response_data_q' = reply.data
       /\ response_error_q' = reply.error
       /\ TargetStores(TRUE, reply)
  /\ response_valid_q' = TRUE
  /\ UNCHANGED <<request_addr_q, request_write_q, request_wdata_q, halt, core>>

-----------------------------------------------------------------------------
(* An enabled edge: the core ends its data phase, if it is in one, and its *)
(* next address phase (raw_active or idle) is sampled.  boundary is the    *)
(* core's STATE_BOUNDARY; the edge that captures the state samples none.   *)

\* Mutant: the snapshot waits for an idle bus.
IdleCapture(boundary) ==
  STATE_REQUEST /\ ~state_halted_q /\ boundary /\ ~bus_waiting

state_capture(boundary) == STATE_REQUEST /\ ~state_halted_q /\ boundary

\* Mutant: idle cycles sample the bus as well.
SampleAlways(ready, reply) ==
  core_seen' = [req |-> core_phase, data |-> core_rdata(reply),
                error |-> core_abort(ready, reply)]

SampleAnswer(ready, reply) ==
  core_seen' = IF core_phase = None
                 THEN core_seen
                 ELSE [req |-> core_phase, data |-> core_rdata(reply),
                       error |-> core_abort(ready, reply)]

\* Mutant: the address phase of the capturing edge is sent to the target.
SampleWhileCapturing(boundary, phase) ==
  IF phase = None
    THEN /\ request_valid_q' = FALSE
         /\ request_wdata_valid_q' = FALSE
         /\ core_phase' = None
         /\ UNCHANGED <<request_addr_q, request_write_q, request_wdata_q, tag>>
    ELSE /\ request_valid_q' = TRUE
         /\ request_addr_q' = phase.addr
         /\ request_write_q' = phase.write
         /\ request_wdata_q' = NoData
         /\ request_wdata_valid_q' = ~phase.write
         /\ tag' = NextTag(tag)
         /\ core_phase' = IF state_capture(boundary) THEN None ELSE phase

SampleAddressPhase(boundary, phase) ==
  IF phase = None \/ state_capture(boundary)
    THEN /\ request_valid_q' = FALSE
         /\ request_wdata_valid_q' = FALSE
         /\ core_phase' = None
         /\ UNCHANGED <<request_addr_q, request_write_q, request_wdata_q, tag>>
    ELSE /\ request_valid_q' = TRUE
         /\ request_addr_q' = phase.addr
         /\ request_write_q' = phase.write
         /\ request_wdata_q' = NoData
         /\ request_wdata_valid_q' = ~phase.write
         /\ tag' = NextTag(tag)
         /\ core_phase' = phase

\* The address phases the core may be driving: WDATA follows in the data phase.
RawPhases ==
  {p \in Transfer : p.tag = NextTag(tag) /\ (~p.write => p.data = NoData)} \cup {None}

CoreEdge(ready, boundary, phase) ==
  /\ core_clken(TRUE, ready)
  /\ \E reply \in Replies :
       /\ SampleAnswer(ready, reply)
       /\ TargetStores(ready, reply)
  /\ SampleAddressPhase(boundary, phase)
  /\ response_valid_q' = FALSE
  /\ state_halted_q' = state_capture(boundary)
  /\ UNCHANGED <<response_data_q, response_error_q, STATE_REQUEST>>

-----------------------------------------------------------------------------
(* state_resume: the core drops its pipeline and refetches.                *)
Resume ==
  /\ state_halted_q /\ ~STATE_REQUEST
  /\ state_halted_q' = FALSE
  /\ UNCHANGED <<request, response, STATE_REQUEST, core, mem>>

HostToggles ==
  /\ STATE_REQUEST' = ~STATE_REQUEST
  /\ UNCHANGED <<request, response, state_halted_q, core, mem>>

\* RESET_N clears the wrapper and the core together; the target keeps its data.
Reset ==
  /\ request_valid_q' = FALSE /\ request_addr_q' \in Addr /\ request_write_q' = FALSE
  /\ request_wdata_q' = NoData /\ request_wdata_valid_q' = FALSE
  /\ response_valid_q' = FALSE /\ response_data_q' = NoData /\ response_error_q' = FALSE
  /\ state_halted_q' = FALSE
  /\ core_phase' = None /\ core_seen' = None
  /\ UNCHANGED <<STATE_REQUEST, tag, mem>>

AnyCoreEdge(ready, boundary) == \E phase \in RawPhases : CoreEdge(ready, boundary, phase)

Next ==
  \/ CaptureWriteData
  \/ \E ce \in BOOLEAN : BufferAnswer(ce)
  \/ \E ready, boundary \in BOOLEAN : AnyCoreEdge(ready, boundary)
  \/ Resume
  \/ HostToggles
  \/ Reset

Spec == Init /\ [][Next]_vars

-----------------------------------------------------------------------------
(* Fairness.  CLK runs; CPU_CE is high again and again whether or not the  *)
(* target is ready on the same edge; the target accepts what is advertised *)
(* sooner or later whether or not CPU_CE is high; and the core reaches an  *)
(* instruction boundary again and again.                                   *)

TargetAccepts ==
  /\ request_ready
  /\ \/ \E ce \in BOOLEAN : BufferAnswer(ce)
     \/ \E boundary \in BOOLEAN : AnyCoreEdge(TRUE, boundary)

CpuEnabled == \E boundary \in BOOLEAN : AnyCoreEdge(FALSE, boundary)

BoundaryReached == \E ready \in BOOLEAN : AnyCoreEdge(ready, TRUE)

Fairness ==
  /\ WF_vars(CaptureWriteData)
  /\ WF_vars(Resume)
  /\ WF_vars(TargetAccepts)
  /\ WF_vars(CpuEnabled)
  /\ SF_vars(BoundaryReached)

FairSpec == Spec /\ Fairness

-----------------------------------------------------------------------------
(* Properties.                                                             *)

\* A request waiting for the target and an answer waiting for the core never
\* coexist, so no answer is overwritten (mister.sv:267-290).
OneOutstanding == ~(request_valid_q /\ response_valid_q)

\* The bridge owes an answer exactly when the core is in a data phase, and the
\* captured request is that data phase's (mister.sv:284-318): neither side ever
\* waits for a transfer the other one does not know of.
BridgeMatchesCore ==
  /\ bus_waiting <=> core_phase # None
  /\ core_phase # None =>
       /\ core_phase.tag = tag
       /\ core_phase.addr = request_addr_q
       /\ core_phase.write = request_write_q
       /\ response_valid_q \/ request_wdata_valid_q =>
            core_phase.data = request_wdata_q

\* A read needs no data phase before it is advertised, and nothing but a
\* waiting request has store data (mister.sv:257-271, 290, 316).
WriteDataOwned ==
  /\ request_wdata_valid_q => request_valid_q
  /\ request_valid_q /\ ~request_write_q => request_wdata_valid_q

\* While STATE_READY is high no transfer is in progress on either side of the
\* bridge, so the snapshot misses none (mister.sv:212-229, 293-300).
QuiescentSnapshot ==
  state_halted_q => ~request_valid_q /\ ~response_valid_q /\ core_phase = None

IInv == TypeOK /\ OneOutstanding /\ BridgeMatchesCore /\ WriteDataOwned
          /\ QuiescentSnapshot

\* The transfer the bridge's own registers describe.
BridgeTransfer ==
  [tag |-> tag, addr |-> request_addr_q, write |-> request_write_q,
   data |-> IF request_valid_q /\ ~request_wdata_valid_q
              THEN core_phase.data ELSE request_wdata_q]

BridgeOwes == IF request_valid_q THEN BridgeTransfer ELSE None

BridgeAnswer ==
  IF response_valid_q
    THEN [req |-> BridgeTransfer, data |-> response_data_q, error |-> response_error_q]
    ELSE None

Channel == INSTANCE MemChannel WITH
  owed <- BridgeOwes, answer <- BridgeAnswer, seen <- core_seen

\* The bridge implements a one-outstanding channel: each transfer the core
\* issues is served once, with its own address, direction and store data, and
\* the core takes that transfer's own answer once (mister.sv:201-320).
ChannelSpec == Channel!Spec

\* Whatever CPU_CE and MEM_READY do on their own, every transfer ends
\* (mister.sv:234-235): a target that is ready only while the core is stopped,
\* and a core enabled only while the target is busy, still meet.
TransferCompletes ==
  \A t \in Tag : (core_phase # None /\ tag = t) ~> (core_phase = None \/ tag # t)

\* A STATE_REQUEST that is held is granted (mister.sv:215-229).
SnapshotGranted == STATE_REQUEST ~> (state_halted_q \/ ~STATE_REQUEST)
=============================================================================
