-------------------------- MODULE MCScanRegisters --------------------------
(***************************************************************************)
(* A single register, a list that ends in r15 and one across the banks.    *)
(***************************************************************************)
EXTENDS ScanRegisters

MCLists == {{1}, {0, 15}, {8, 14}}
=============================================================================
