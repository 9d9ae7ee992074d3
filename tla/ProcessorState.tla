--------------------------- MODULE ProcessorState ---------------------------
(***************************************************************************)
(* The status registers (Psr) and the register file (RegisterFile) on the  *)
(* clock they share.  The core picks the bank of its write port from the   *)
(* mode, the exception entered and, in the last state of a block transfer, *)
(* the mode the transfer began in: an LDM that loads PC^ restores the CPSR *)
(* one edge before its base is written back.                               *)
(***************************************************************************)
EXTENDS Psr, RegisterFile

CONSTANT Asked  \* status requests of the instructions

ASSUME AskedAssumption ==
    14 \in RegNums /\ NoRequest \in Asked /\ Asked \subseteq Requests

VARIABLE blockMode  \* block_mode_q in S_BLOCK_WB, "none" in other states

stateVars == <<cpsr, spsr, ready, saved, regs, request, blockMode>>

ProcessorInit == Init /\ FileInit /\ blockMode = "none"
-----------------------------------------------------------------------------
(* Mutant of RegisterMode: the base goes to the bank of the restored mode. *)
RestoredMode(e) == IF e # "none" THEN ModeOf[e] ELSE cpsr.m

(* regfile_mode_eff.                                                       *)
RegisterMode(e) ==
    IF e # "none" THEN ModeOf[e]
    ELSE IF blockMode # "none" THEN blockMode ELSE cpsr.m

NoWrite == UNCHANGED regs /\ request' = Nothing

(* An edge of Execute without an exception.  Only LDM and STM with S reach *)
(* the User bank from another mode, and they ask nothing of the status.    *)
Instruction(q) ==
    /\ blockMode = "none" /\ Edge("none", q) /\ UNCHANGED blockMode
    /\ \/ NoWrite
       \/ \E r \in RegNums \cup {15}, user \in BOOLEAN, v \in Values :
            (user => q = NoRequest) /\ Write(r, RegisterMode("none"), user, v)

(* The last word of LDM {.., PC}^ with writeback: the PC is loaded, the    *)
(* CPSR restored and the mode kept.                                        *)
BlockReturn ==
    /\ blockMode = "none" /\ Edge("none", [kind |-> "restore"])
    /\ NoWrite /\ blockMode' = cpsr.m

BlockWriteback(r, v) ==
    /\ blockMode # "none" /\ Edge("none", NoRequest)
    /\ Write(r, RegisterMode("none"), FALSE, v) /\ blockMode' = "none"

(* An exception owns the write port for its link.  (A load's result comes  *)
(* before it in the multiplexer; CorePipeline has the edges they share.)   *)
Entry(e, q, v) ==
    /\ blockMode # "none" => q = NoRequest
    /\ Edge(e, q) /\ blockMode' = "none"
    /\ Write(14, RegisterMode(e), FALSE, v)

(* The save-state host: the image has registers first, then the status.    *)
HostStep ==
    /\ blockMode = "none" /\ UNCHANGED blockMode
    /\ \/ (Host \/ \E w \in Words : ImportCpsr(w)) /\ NoWrite
       \/ \E m \in Banked, w \in Words : ImportSpsr(m, w) /\ NoWrite
       \/ \E i \in InUse \cup {30}, v \in Values :
            ready /\ StateWrite(i, v) /\ UNCHANGED <<cpsr, spsr, ready, saved>>

ProcessorNext ==
    \/ \E q \in Asked : Instruction(q)
    \/ BlockReturn
    \/ \E r \in RegNums, v \in Values : BlockWriteback(r, v)
    \/ \E e \in Events, q \in Asked, v \in Values : Entry(e, q, v)
    \/ HostStep

ProcessorSpec == ProcessorInit /\ [][ProcessorNext]_stateVars
-----------------------------------------------------------------------------
Changed(n) == regs'[bank_index(n[1], n[2])] # regs[bank_index(n[1], n[2])]

(* Two programs in different modes do not see each other's banked          *)
(* registers: an edge changes registers of the mode the instruction began  *)
(* in or of the User bank, and an exception the link of the mode it enters *)
(* alone.  "a banked r13/r14 base is updated in the exception bank rather  *)
(* than the newly restored destination bank".                              *)
BanksPrivate ==
    [][~ready => \A n \in Registers : Changed(n) =>
         \/ n[2] \in {"usr", IF blockMode # "none" THEN blockMode ELSE cpsr.m}
         \/ n = <<14, cpsr'.m>> /\ cpsr'.i /\ ~cpsr'.t]_stateVars
=============================================================================
