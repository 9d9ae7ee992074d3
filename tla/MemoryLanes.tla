----------------------------- MODULE MemoryLanes -----------------------------
(***************************************************************************)
(* Loads, stores and swaps of every size, address and endianness, computed   *)
(* twice: by the core and the memory behind it (byte lanes of RDATA and      *)
(* WDATA, byte enables), and by the memory oracle of constrained_random.py,   *)
(* which knows words and shifts.  The random-policy campaign runs generated  *)
(* programs on both and compares what was loaded and what is stored.         *)
(*                                                                          *)
(* A word is its four bytes, lane 0 the least significant.  A byte is an     *)
(* element of a set; only its sign is known.                                 *)
(***************************************************************************)
EXTENDS Naturals

CONSTANTS
  Byte,           \* bytes
  Negative,       \* those with bit 7 set
  Zero, Ones,     \* the bytes 00 and FF
  Words,          \* words of data memory: 8 in the campaign
  InitialWords,   \* what the program first stores there
  Values          \* words it stores later

Word == [0 .. 3 -> Byte]

ASSUME BytesAssumption == Zero \in Byte /\ Ones \in Byte /\ Negative \subseteq Byte
ASSUME WordsAssumption ==
  Words \in Nat \ {0} /\ InitialWords \in [0 .. Words - 1 -> Word] /\ Values \subseteq Word

VARIABLES
  big,       \* CFGBIGEND
  words,     \* the oracle's data_words
  mem,       \* the words of the memory
  expected,  \* what the oracle says the last load gave
  loaded     \* what the core wrote to the register

vars == <<big, words, mem, expected, loaded>>

Addresses == 0 .. 4 * Words - 1
Low(a) == a % 4
Index(a) == a \div 4

LoadKinds == {"word", "byte", "signed_byte", "half", "signed_half"}
StoreKinds == {"word", "byte", "half"}

\* The generator emits aligned halfwords, and aligned words when it stores.
LoadAligned(kind, a) == kind \in {"half", "signed_half"} => a % 2 = 0
StoreAligned(kind, a) ==
  /\ kind = "half" => a % 2 = 0
  /\ kind = "word" => a % 4 = 0
-----------------------------------------------------------------------------
(* The oracle.                                                               *)

\* rotate_right by 8 * n.
RotateRight(w, n) == [i \in 0 .. 3 |-> w[(i + n) % 4]]

\* The upper bytes of an extended value whose top byte is b.
Extension(b, signed) == IF signed /\ b \in Negative THEN Ones ELSE Zero

ByteLane(low, bigEndian) == IF bigEndian THEN 3 - low ELSE low
HighHalf(low, bigEndian) == IF bigEndian THEN low < 2 ELSE low >= 2

\* Mutant of LoadMemory: the rotation is by lane, as for a byte.
RotateByLane(w, low, kind, bigEndian) ==
  RotateRight(w, ByteLane(low, bigEndian))

LoadMemory(w, low, kind, bigEndian) ==
  IF kind = "word" THEN RotateRight(w, low)
  ELSE IF kind \in {"byte", "signed_byte"}
  THEN LET b == w[ByteLane(low, bigEndian)]
       IN  [i \in 0 .. 3 |-> IF i = 0 THEN b
                             ELSE Extension(b, kind = "signed_byte")]
  ELSE LET base == IF HighHalf(low, bigEndian) THEN 2 ELSE 0
       IN  [i \in 0 .. 3 |-> IF i < 2 THEN w[base + i]
                             ELSE Extension(w[base + 1], kind = "signed_half")]

StoreMemory(w, low, kind, v, bigEndian) ==
  IF kind = "word" THEN v
  ELSE IF kind = "byte"
  THEN [w EXCEPT ![ByteLane(low, bigEndian)] = v[0]]
  ELSE LET base == IF HighHalf(low, bigEndian) THEN 2 ELSE 0
       IN  [w EXCEPT ![base] = v[0], ![base + 1] = v[1]]
-----------------------------------------------------------------------------
(* The memory: a lane is transferred if its byte enable is set.              *)

\* Mutant of ByteEnable: the halfword lanes do not follow the endianness.
LittleHalves(size, low, bigEndian) ==
  CASE size = "byte" -> {ByteLane(low, bigEndian)}
    [] size = "half" -> IF low >= 2 THEN {2, 3} ELSE {0, 1}
    [] size = "word" -> 0 .. 3

ByteEnable(size, low, bigEndian) ==
  CASE size = "byte" -> {IF bigEndian THEN 3 - low ELSE low}
    [] size = "half" -> IF (low >= 2) # bigEndian THEN {2, 3} ELSE {0, 1}
    [] size = "word" -> 0 .. 3

\* RDATA: the lanes that are not enabled carry anything; the memory of the
\* test bench leaves them zero.
ReadData(w, size, low, bigEndian, junk) ==
  [i \in 0 .. 3 |-> IF i \in ByteEnable(size, low, bigEndian) THEN w[i] ELSE junk]

Merge(w, size, low, bigEndian, wdata) ==
  [i \in 0 .. 3 |-> IF i \in ByteEnable(size, low, bigEndian) THEN wdata[i] ELSE w[i]]
-----------------------------------------------------------------------------
(* The core.                                                                 *)

SizeOf(kind) ==
  IF kind \in {"byte", "signed_byte"} THEN "byte"
  ELSE IF kind \in {"half", "signed_half"} THEN "half" ELSE "word"

\* rotate_word_for_address.
RotateWordForAddress(d, low) ==
  CASE low = 0 -> d
    [] low = 1 -> [i \in 0 .. 3 |-> IF i = 3 THEN d[0] ELSE d[i + 1]]
    [] low = 2 -> [i \in 0 .. 3 |-> IF i < 2 THEN d[i + 2] ELSE d[i - 2]]
    [] low = 3 -> [i \in 0 .. 3 |-> IF i = 0 THEN d[3] ELSE d[i - 1]]

\* load_value, from RDATA and the low address bits.
LoadValue(d, low, kind, bigEndian) ==
  LET raw     == d[IF bigEndian THEN 3 - low ELSE low]
      high    == IF bigEndian THEN low < 2 ELSE low >= 2
      halfTop == IF high THEN d[3] ELSE d[1]
      halfLow == IF high THEN d[2] ELSE d[0]
      Fill(b, signed) == IF signed /\ b \in Negative THEN Ones ELSE Zero
  IN  CASE SizeOf(kind) = "half" ->
             [i \in 0 .. 3 |-> IF i = 0 THEN halfLow ELSE IF i = 1 THEN halfTop
                               ELSE Fill(halfTop, kind = "signed_half")]
        [] SizeOf(kind) = "byte" ->
             [i \in 0 .. 3 |-> IF i = 0 THEN raw ELSE Fill(raw, kind = "signed_byte")]
        [] SizeOf(kind) = "word" -> RotateWordForAddress(d, low)

\* store_wdata: the byte in every lane, the halfword in both halves.
StoreData(v, kind) ==
  CASE kind = "half" -> [i \in 0 .. 3 |-> v[i % 2]]
    [] kind = "byte" -> [i \in 0 .. 3 |-> v[0]]
    [] kind = "word" -> v
-----------------------------------------------------------------------------
Init ==
  /\ big \in BOOLEAN
  /\ words = InitialWords /\ mem = InitialWords
  /\ expected = InitialWords[0] /\ loaded = InitialWords[0]

\* emit_load of the generator, and the load it emits.
EmitLoad(kind, a, junk) ==
  /\ LoadAligned(kind, a)
  /\ expected' = LoadMemory(words[Index(a)], Low(a), kind, big)
  /\ loaded' = LoadValue(ReadData(mem[Index(a)], SizeOf(kind), Low(a), big, junk),
                         Low(a), kind, big)
  /\ UNCHANGED <<big, words, mem>>

\* emit_store of the generator, and the store it emits.
EmitStore(kind, a, v) ==
  /\ StoreAligned(kind, a)
  /\ words' = [words EXCEPT ![Index(a)] = StoreMemory(@, Low(a), kind, v, big)]
  /\ mem' = [mem EXCEPT ![Index(a)] = Merge(@, kind, Low(a), big, StoreData(v, kind))]
  /\ UNCHANGED <<big, expected, loaded>>

\* SWP and SWPB read and write one address with the bus locked.  The generator
\* emits none; the oracle is extended to them by the core's own rule, "SWP uses
\* the LDR rule for its read half and the STR rule (aligned store, low address
\* bits ignored by memory) for write".
SwapLowForStore(kind, a) == IF kind = "word" THEN 0 ELSE Low(a)

Swap(kind, a, v, junk) ==
  /\ expected' = LoadMemory(words[Index(a)], Low(a), kind, big)
  /\ words' = [words EXCEPT
       ![Index(a)] = StoreMemory(@, SwapLowForStore(kind, a), kind, v, big)]
  /\ loaded' = LET d == ReadData(mem[Index(a)], kind, Low(a), big, junk)
               IN  LoadValue(d, Low(a), kind, big)
  /\ mem' = [mem EXCEPT ![Index(a)] = Merge(@, kind, Low(a), big, StoreData(v, kind))]
  /\ UNCHANGED big

Next ==
  \/ \E kind \in LoadKinds, a \in Addresses, junk \in Byte : EmitLoad(kind, a, junk)
  \/ \E kind \in StoreKinds, a \in Addresses, v \in Values : EmitStore(kind, a, v)
  \/ \E kind \in {"word", "byte"}, a \in Addresses, v \in Values, junk \in Byte :
       Swap(kind, a, v, junk)

Spec == Init /\ [][Next]_vars
-----------------------------------------------------------------------------
\* The variables stay in their sets.
TypeOK ==
  /\ big \in BOOLEAN
  /\ words \in [0 .. Words - 1 -> Word] /\ mem \in [0 .. Words - 1 -> Word]
  /\ expected \in Word /\ loaded \in Word

\* After any program the memory holds what the oracle expects, in both
\* endiannesses.
MemoriesAgree == mem = words

\* The core loads what the oracle expects, whatever lanes a read leaves open
\* and whatever was stored before.
LoadsAgree == loaded = expected
==============================================================================
