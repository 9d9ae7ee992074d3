--------------------------- MODULE MCCorePipeline ---------------------------
EXTENDS CorePipeline

(* Vectors of the six events, in halfwords of the small address space.     *)
MCVector == [dabt |-> 4, fiq |-> 2, irq |-> 2, pabt |-> 4, undef |-> 4, swi |-> 4]

MCKinds == AllKinds

(* The substates whose last edge writes no register, and the ones that     *)
(* never lead back to EXEC.                                                *)
MCQuietStates == {"EXEC", "DDATA", "BLOCK_DATA", "SWP_RDATA", "SWP_WDATA",
                  "MULL_ACC", "MUL_BUSY", "CP_WAIT", "CP_MCR_DATA", "CP_MRC_DATA"}

(* Every substate.                                                         *)
MCAllStates == States

(* Classes that finish in EXEC.                                            *)
MCSingle == Single \cup {"swi", "undef"}
=============================================================================
