------------------------- MODULE MCValidation -------------------------------
\* A word of four different bytes and one word to store over it; register
\* fields that are zero, ordinary or r15.  Seeds of two bits: four seeds are
\* one more than the generators have, and on the way to them both pass zero.
EXTENDS Validation, TLC
CONSTANTS a0, a1, a2, a3, v0, v1, v2, v3, zero, ones
MCByte == {a0, a1, a2, a3, v0, v1, v2, v3, zero, ones}
MCNegative == {a0, a2, v0, v3, ones}
MCInitialWords == 0 :> (0 :> a0 @@ 1 :> a1 @@ 2 :> a2 @@ 3 :> a3)
MCValues == {0 :> v0 @@ 1 :> v1 @@ 2 :> v2 @@ 3 :> v3}
MCFields == {0, 1, 15}
=============================================================================
