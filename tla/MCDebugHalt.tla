---------------------------- MODULE MCDebugHalt ----------------------------
(***************************************************************************)
(* A loop of a load, an ALU instruction and the jump back, and an          *)
(* interrupt handler of one instruction.  The other positions are fetched  *)
(* behind the jump and never executed.                                     *)
(***************************************************************************)
EXTENDS DebugHalt

MCKind == [p \in 0 .. 7 |->
             CASE p = 0 -> "load" [] p \in {1, 3} -> "alu" [] p = 2 -> "jump"
               [] OTHER -> "return"]
MCNoLoad == [MCKind EXCEPT ![0] = "alu"]
MCVector == 4
MCTwoLoads == [MCKind EXCEPT ![1] = "load"]
MCNone == {{}}
MCBreakable == {{}, {1}}
MCLoad == {{0}}
MCJump == {{2}}
MCCompleted == {"boundary", "within"}
MCAnyEdge == {"boundary", "bubble", "within"}
MCNever == {}
=============================================================================
