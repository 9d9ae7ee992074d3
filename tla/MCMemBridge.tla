----------------------------- MODULE MCMemBridge -----------------------------
(* MemBridge for TLC: two words, two values, transfers numbered modulo 2.  *)
EXTENDS MemBridge
CONSTANTS a1, a2
=============================================================================
