------------------------------ MODULE Mailbox ------------------------------
(***************************************************************************)
(* What one direction of the Debug Communications Channel promises: the    *)
(* words the sender puts in reach the receiver once each and in order.     *)
(* Words are numbered by the sender from 1.                                *)
(***************************************************************************)
EXTENDS Naturals

CONSTANT Capacity   \* words that may be under way

VARIABLES put,   \* words sent
          got,   \* words received
          last   \* the last word received

vars == <<put, got, last>>

Init == put = 0 /\ got = 0 /\ last = 0

Send == put < got + Capacity /\ put' = put + 1 /\ UNCHANGED <<got, last>>
Receive == got < put /\ got' = got + 1 /\ last' = got' /\ UNCHANGED put

(* The two ends may act on one edge, on different words.                   *)
Exchange == /\ got < put /\ put < got + 1 + Capacity
            /\ put' = put + 1 /\ got' = got + 1 /\ last' = got'

Next == Send \/ Receive \/ Exchange

Spec == Init /\ [][Next]_vars
=============================================================================
