---------------------------- MODULE MemBridgeProofs ----------------------------
(***************************************************************************)
(* The bridge of MemBridge is correct for every memory, every word size    *)
(* and every numbering of transfers.  IInv is inductive: it joins          *)
(* the type invariant, the agreement of the bridge with the core and the   *)
(* snapshot's quiescence, because each needs the others one step earlier.  *)
(***************************************************************************)
EXTENDS MemBridge, TLAPS

LEMMA NextTagType == \A n \in Tag : NextTag(n) \in Tag
  BY NTagsAssumption, SMT DEF Tag, NextTag

LEMMA InitIInv == Init => IInv
  <1> SUFFICES ASSUME Init PROVE IInv
    OBVIOUS
  <1>1. tag \in Tag
    BY NTagsAssumption, SMT DEF Init, Tag
  <1> QED
    BY <1>1, NoDataAssumption
    DEF Init, IInv, TypeOK, OneOutstanding, BridgeMatchesCore, WriteDataOwned,
          QuiescentSnapshot, bus_waiting

LEMMA CaptureWriteDataIInv == IInv /\ CaptureWriteData => IInv'
  <1> SUFFICES ASSUME IInv, CaptureWriteData PROVE IInv'
    OBVIOUS
  <1> USE DEF IInv, CaptureWriteData, response, halt, core
  <1>1. TypeOK'
    BY NoDataAssumption DEF TypeOK, Transfer
  <1>2. OneOutstanding' /\ WriteDataOwned' /\ QuiescentSnapshot'
    BY DEF OneOutstanding, WriteDataOwned, QuiescentSnapshot
  <1>3. BridgeMatchesCore'
    BY DEF BridgeMatchesCore, bus_waiting, OneOutstanding
  <1> QED
    BY <1>1, <1>2, <1>3

LEMMA BufferAnswerIInv ==
  ASSUME IInv, NEW ce \in BOOLEAN, BufferAnswer(ce) PROVE IInv'
  <1> USE DEF IInv, BufferAnswer, halt, core
  <1>1. TypeOK'
    BY DEF TypeOK, Replies, TargetStores
  <1>2. OneOutstanding' /\ WriteDataOwned'
    BY DEF OneOutstanding, WriteDataOwned
  <1>3. BridgeMatchesCore' /\ QuiescentSnapshot'
    BY DEF BridgeMatchesCore, QuiescentSnapshot, bus_waiting, memory_accept,
           request_ready, WriteDataOwned
  <1> QED
    BY <1>1, <1>2, <1>3

LEMMA CoreEdgeIInv ==
  ASSUME IInv, NEW ready \in BOOLEAN, NEW boundary \in BOOLEAN,
         NEW phase \in RawPhases, CoreEdge(ready, boundary, phase)
  PROVE  IInv'
  <1>1. PICK reply \in Replies :
          SampleAnswer(ready, reply) /\ TargetStores(ready, reply)
    BY DEF CoreEdge
  <1>2. reply.data \in Data /\ reply.error \in BOOLEAN
    BY <1>1 DEF Replies
  <1>3. core_seen' \in Answer \cup {None}
    BY <1>1, <1>2 DEF SampleAnswer, core_rdata, core_abort, IInv, TypeOK, Answer,
       bus_waiting, response_available, memory_accept, request_ready
  <1>4. mem' \in [Addr -> Data]
    BY <1>1 DEF TargetStores, IInv, TypeOK
  <1>5. /\ response_valid_q' = FALSE
        /\ state_halted_q' = state_capture(boundary)
        /\ UNCHANGED <<response_data_q, response_error_q, STATE_REQUEST>>
    BY DEF CoreEdge
  <1>6. CASE phase = None \/ state_capture(boundary)
    <2>1. /\ request_valid_q' = FALSE /\ request_wdata_valid_q' = FALSE
          /\ core_phase' = None
          /\ UNCHANGED <<request_addr_q, request_write_q, request_wdata_q, tag>>
      BY <1>6 DEF CoreEdge, SampleAddressPhase
    <2>2. state_halted_q' \in BOOLEAN
      BY <1>5 DEF state_capture
    <2>3. TypeOK'
      BY <1>3, <1>4, <1>5, <2>1, <2>2 DEF IInv, TypeOK
    <2> QED
      BY <1>5, <2>1, <2>3
      DEF IInv, OneOutstanding, BridgeMatchesCore, WriteDataOwned,
          QuiescentSnapshot, bus_waiting
  <1>7. CASE ~(phase = None \/ state_capture(boundary))
    <2>1. /\ request_valid_q' = TRUE /\ core_phase' = phase /\ tag' = NextTag(tag)
          /\ request_addr_q' = phase.addr /\ request_write_q' = phase.write
          /\ request_wdata_q' = NoData /\ request_wdata_valid_q' = ~phase.write
      BY <1>7 DEF CoreEdge, SampleAddressPhase
    <2>2. /\ phase \in Transfer /\ phase.tag = NextTag(tag)
          /\ ~phase.write => phase.data = NoData
      BY <1>7 DEF RawPhases
    <2>3. TypeOK'
      BY <1>3, <1>4, <1>5, <2>1, <2>2, NextTagType, NoDataAssumption
      DEF IInv, TypeOK, state_capture, Transfer
    <2>4. phase # None
      BY <1>7
    <2> QED
      BY <1>5, <1>7, <2>1, <2>2, <2>3, <2>4
      DEF IInv, OneOutstanding, BridgeMatchesCore, WriteDataOwned,
          QuiescentSnapshot, bus_waiting, Transfer
  <1> QED
    BY <1>6, <1>7

LEMMA OtherStepsIInv == IInv /\ (Resume \/ HostToggles \/ Reset) => IInv'
  <1> SUFFICES ASSUME IInv, Resume \/ HostToggles \/ Reset PROVE IInv'
    OBVIOUS
  <1> USE DEF IInv, TypeOK, OneOutstanding, BridgeMatchesCore, WriteDataOwned,
              QuiescentSnapshot, bus_waiting, request, response, core
  <1>1. CASE Resume
    BY <1>1 DEF Resume
  <1>2. CASE HostToggles
    BY <1>2 DEF HostToggles
  <1>3. CASE Reset
    BY <1>3, NoDataAssumption DEF Reset
  <1> QED
    BY <1>1, <1>2, <1>3

LEMMA NextIInv == IInv /\ [Next]_vars => IInv'
  <1> SUFFICES ASSUME IInv, [Next]_vars PROVE IInv'
    OBVIOUS
  <1>1. CASE CaptureWriteData
    BY <1>1, CaptureWriteDataIInv
  <1>2. ASSUME NEW ce \in BOOLEAN, BufferAnswer(ce) PROVE IInv'
    BY <1>2, BufferAnswerIInv
  <1>3. ASSUME NEW ready \in BOOLEAN, NEW boundary \in BOOLEAN,
               AnyCoreEdge(ready, boundary)
        PROVE  IInv'
    BY <1>3, CoreEdgeIInv DEF AnyCoreEdge
  <1>4. CASE Resume \/ HostToggles \/ Reset
    BY <1>4, OtherStepsIInv
  <1>5. CASE UNCHANGED vars
    BY <1>5 DEF vars, request, response, halt, core, IInv, TypeOK, OneOutstanding,
       BridgeMatchesCore, WriteDataOwned, QuiescentSnapshot, bus_waiting
  <1> QED
    BY <1>1, <1>2, <1>3, <1>4, <1>5 DEF Next

\* The bridge's inductive invariant holds in every reachable state, whatever
\* CPU_CE, the target, the host and reset do.
THEOREM BridgeInvariant == Spec => []IInv
  BY InitIInv, NextIInv, PTL DEF Spec

\* The registers stay within their types (mister.sv:241-320).
THEOREM BridgeTypes == Spec => []TypeOK
  <1>1. IInv => TypeOK
    BY DEF IInv
  <1> QED
    BY <1>1, BridgeInvariant, PTL

\* A snapshot never holds a transfer in progress (mister.sv:212-229, 293-300).
THEOREM SnapshotsAreQuiescent == Spec => []QuiescentSnapshot
  <1>1. IInv => QuiescentSnapshot
    BY DEF IInv
  <1> QED
    BY <1>1, BridgeInvariant, PTL

\* The core and the bridge agree on what is owed (mister.sv:284-318).
THEOREM CoreAndBridgeAgree == Spec => []BridgeMatchesCore
  <1>1. IInv => BridgeMatchesCore
    BY DEF IInv
  <1> QED
    BY <1>1, BridgeInvariant, PTL

-----------------------------------------------------------------------------
(* Refinement: every step of the bridge is a step of the channel, or none. *)
(* Under IInv the bridge's registers describe the very transfer the core   *)
(* is in, so the mapping can be read off the core's data phase.            *)

Mapped ==
  /\ BridgeOwes = IF request_valid_q THEN core_phase ELSE None
  /\ BridgeAnswer =
       IF response_valid_q
         THEN [req |-> core_phase, data |-> response_data_q, error |-> response_error_q]
         ELSE None

LEMMA Mapping == IInv => Mapped
  <1> SUFFICES ASSUME IInv PROVE Mapped
    OBVIOUS
  <1>1. CASE core_phase = None
    BY <1>1 DEF IInv, BridgeMatchesCore, bus_waiting, Mapped, BridgeOwes, BridgeAnswer
  <1>2. CASE core_phase # None
    <2>1. core_phase \in Transfer
      BY <1>2 DEF IInv, TypeOK
    <2>2. core_phase.data = BridgeTransfer.data
      BY <1>2 DEF IInv, BridgeMatchesCore, WriteDataOwned, bus_waiting, BridgeTransfer
    <2>3. BridgeTransfer = core_phase
      BY <1>2, <2>1, <2>2 DEF IInv, BridgeMatchesCore, BridgeTransfer, Transfer
    <2> QED
      BY <2>3 DEF Mapped, BridgeOwes, BridgeAnswer
  <1> QED
    BY <1>1, <1>2

LEMMA InitChannel == Init => Channel!Init
  BY NTagsAssumption DEF Init, Channel!Init, BridgeOwes, BridgeAnswer, Channel!Tag

\* What a good or a failed reply of the target means to the channel.
LEMMA ReplyIsAnswer ==
  ASSUME IInv, request_valid_q, NEW reply \in Replies
  PROVE  [req |-> core_phase, data |-> reply.data, error |-> reply.error]
           \in Channel!Answers(core_phase)
  <1>1. core_phase \in Transfer /\ core_phase.addr = request_addr_q
        /\ core_phase.write = request_write_q
    BY DEF IInv, TypeOK, BridgeMatchesCore, bus_waiting
  <1> QED
    BY <1>1 DEF Replies, Channel!Answers, Channel!Answer, Channel!Transfer,
       Transfer, Tag, Channel!Tag

LEMMA StoreIsEffect ==
  ASSUME IInv, NEW ready \in BOOLEAN, memory_accept(ready), NEW reply \in Replies,
         TargetStores(ready, reply)
  PROVE  mem' = Channel!Effect([req |-> core_phase, data |-> reply.data,
                                error |-> reply.error])
  BY DEF IInv, TypeOK, BridgeMatchesCore, bus_waiting, memory_accept, request_ready,
     TargetStores, Channel!Effect

\* An enabled edge starts the core's next transfer, or none.
LEMMA EdgeStarts ==
  ASSUME IInv, IInv', Mapped',
         NEW ready \in BOOLEAN, NEW boundary \in BOOLEAN,
         NEW phase \in RawPhases, CoreEdge(ready, boundary, phase)
  PROVE  Channel!Start /\ BridgeAnswer' = None
  <1>1. BridgeAnswer' = None /\ SampleAddressPhase(boundary, phase)
    BY DEF CoreEdge, Mapped
  <1>2. CASE phase = None \/ state_capture(boundary)
    BY <1>1, <1>2 DEF SampleAddressPhase, Mapped, Channel!Start
  <1>3. CASE ~(phase = None \/ state_capture(boundary))
    <2>1. BridgeOwes' = phase /\ tag' = NextTag(tag)
      BY <1>1, <1>3 DEF SampleAddressPhase, Mapped
    <2>2. phase \in Transfer /\ phase.tag = NextTag(tag)
      BY <1>3 DEF RawPhases
    <2> QED
      BY <1>1, <2>1, <2>2 DEF Channel!Start, Channel!NextTag, NextTag, Channel!Transfer,
         Transfer, Channel!Tag, Tag
  <1> QED
    BY <1>2, <1>3

LEMMA CoreEdgeRefines ==
  ASSUME IInv, IInv', Mapped, Mapped',
         NEW ready \in BOOLEAN, NEW boundary \in BOOLEAN,
         NEW phase \in RawPhases, CoreEdge(ready, boundary, phase)
  PROVE  Channel!Next
  <1>1. PICK reply \in Replies :
          SampleAnswer(ready, reply) /\ TargetStores(ready, reply)
    BY DEF CoreEdge
  <1>2. Channel!Start /\ BridgeAnswer' = None
    BY EdgeStarts
  <1>3. bus_waiting => response_available(ready)
    BY DEF CoreEdge, core_clken
  <1>4. CASE ~bus_waiting
    <2>1. core_phase = None /\ ~request_valid_q /\ ~response_valid_q
      BY <1>4 DEF IInv, BridgeMatchesCore, bus_waiting
    <2>2. UNCHANGED <<mem, core_seen>>
      BY <1>1, <2>1 DEF SampleAnswer, TargetStores, memory_accept, request_ready
    <2> QED
      BY <1>2, <2>1, <2>2 DEF Mapped, Channel!Next, Channel!Issue
  <1>5. CASE response_valid_q
    <2>1. ~request_valid_q /\ core_phase # None /\ core_phase \in Transfer
      BY <1>5 DEF IInv, TypeOK, OneOutstanding, BridgeMatchesCore, bus_waiting
    <2>2. core_seen' = BridgeAnswer
      BY <1>1, <1>5, <2>1 DEF SampleAnswer, core_rdata, core_abort, Mapped,
         bus_waiting, response_available, IInv, TypeOK
    <2>3. BridgeAnswer # None
      BY <1>5, <2>1, NoneAssumption DEF Mapped, Answer, IInv, TypeOK
    <2>4. UNCHANGED mem
      BY <1>1, <2>1 DEF TargetStores, memory_accept, request_ready
    <2> QED
      BY <1>2, <2>2, <2>3, <2>4 DEF Channel!Next, Channel!Take
  <1>6. CASE request_valid_q /\ ~response_valid_q
    <2>1. memory_accept(ready) /\ bus_waiting
      BY <1>3, <1>6 DEF bus_waiting, response_available
    <2>2. core_phase # None
      BY <2>1 DEF IInv, BridgeMatchesCore
    <2>3. core_seen' = [req |-> core_phase, data |-> reply.data, error |-> reply.error]
      BY <1>1, <1>6, <2>1, <2>2
      DEF SampleAnswer, core_rdata, core_abort, response_available, Replies
    <2>4. core_seen' \in Channel!Answers(core_phase)
      BY <1>6, <2>3, ReplyIsAnswer
    <2>5. mem' = Channel!Effect(core_seen')
      BY <1>1, <2>1, <2>3, StoreIsEffect
    <2> QED
      BY <1>2, <1>6, <2>2, <2>4, <2>5 DEF Mapped, Channel!Next, Channel!ServeAndTake
  <1> QED
    BY <1>4, <1>5, <1>6 DEF bus_waiting

LEMMA BufferAnswerRefines ==
  ASSUME IInv, Mapped, Mapped', NEW ce \in BOOLEAN, BufferAnswer(ce)
  PROVE  Channel!Next
  <1>1. PICK reply \in Replies :
          /\ response_data_q' = reply.data /\ response_error_q' = reply.error
          /\ TargetStores(TRUE, reply)
    BY DEF BufferAnswer
  <1>2. /\ memory_accept(TRUE) /\ request_valid_q
        /\ ~request_valid_q' /\ response_valid_q'
        /\ UNCHANGED <<core_phase, core_seen, tag>>
    BY DEF BufferAnswer, memory_accept, request_ready, core
  <1>3. core_phase # None
    BY <1>2 DEF IInv, BridgeMatchesCore, bus_waiting
  <1>4. /\ BridgeOwes = core_phase /\ BridgeOwes' = None
        /\ BridgeAnswer' = [req |-> core_phase, data |-> reply.data,
                            error |-> reply.error]
    BY <1>1, <1>2 DEF Mapped
  <1>5. BridgeAnswer' \in Channel!Answers(core_phase)
    BY <1>2, <1>4, ReplyIsAnswer
  <1>6. mem' = Channel!Effect(BridgeAnswer')
    BY <1>1, <1>2, <1>4, StoreIsEffect
  <1> QED
    BY <1>2, <1>3, <1>4, <1>5, <1>6 DEF Channel!Next, Channel!Serve

LEMMA StutterRefines ==
  ASSUME Mapped, Mapped',
         UNCHANGED <<request_valid_q, response, core, mem>>
  PROVE  UNCHANGED Channel!chan
  BY DEF Mapped, response, core, Channel!chan

LEMMA StepRefines ==
  IInv /\ IInv' /\ Mapped /\ Mapped' /\ [Next]_vars => [Channel!Next]_(Channel!chan)
  <1> SUFFICES ASSUME IInv, IInv', Mapped, Mapped', [Next]_vars
               PROVE  [Channel!Next]_(Channel!chan)
    OBVIOUS
  <1>1. CASE CaptureWriteData
    BY <1>1, StutterRefines DEF CaptureWriteData
  <1>2. ASSUME NEW ce \in BOOLEAN, BufferAnswer(ce) PROVE Channel!Next
    BY <1>2, BufferAnswerRefines
  <1>3. ASSUME NEW ready \in BOOLEAN, NEW boundary \in BOOLEAN,
               AnyCoreEdge(ready, boundary)
        PROVE  Channel!Next
    BY <1>3, CoreEdgeRefines DEF AnyCoreEdge
  <1>4. CASE Resume
    BY <1>4, StutterRefines DEF Resume, request
  <1>5. CASE HostToggles
    BY <1>5, StutterRefines DEF HostToggles, request
  <1>6. CASE Reset
    BY <1>6 DEF Reset, Mapped, Channel!Next, Channel!Abandon
  <1>7. CASE UNCHANGED vars
    BY <1>7, StutterRefines DEF vars, request
  <1> QED
    BY <1>1, <1>2, <1>3, <1>4, <1>5, <1>6, <1>7 DEF Next

\* The bridge serves each transfer of the core once, in order, with its own
\* address and data, and hands the core that transfer's own answer once.
THEOREM BridgeImplementsChannel == Spec => ChannelSpec
  BY InitChannel, InitIInv, NextIInv, Mapping, StepRefines, PTL
  DEF Spec, ChannelSpec, Channel!Spec
=============================================================================
