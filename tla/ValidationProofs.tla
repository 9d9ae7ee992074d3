-------------------------- MODULE ValidationProofs ---------------------------
(***************************************************************************)
(* The memory oracle: core and oracle agree for every set of bytes, every    *)
(* size of memory and every program.  The lemmas compare one load and one    *)
(* store for each low address and endianness, the theorems lift them to      *)
(* programs, on their own and in the regression.                             *)
(*                                                                          *)
(* The seeds: the generators of the soak and of the random events have full   *)
(* period for every width of a seed, so that their lists repeat no seed.      *)
(*                                                                          *)
(* The campaigns: what a run knows of its seeds while it goes (RunOK), what  *)
(* a report says whoever left it (ReportOK), and what a campaign that passed *)
(* leaves (PassedOK), for every width of a seed and every simulator; and that *)
(* the seed minimize has so far reproduces the failure (ReproducerInv), which *)
(* rests on the bits of a number: that clearing one sets no other.            *)
(*                                                                          *)
(* The encodings: the ARM decoder and the reference agree on each row, for    *)
(* every number in the register fields.                                      *)
(***************************************************************************)
EXTENDS Validation, FiniteSetTheorems, WellFoundedInduction, TLAPS

LEMMA LaneSet == 0 .. 3 = {0, 1, 2, 3}
OBVIOUS

LEMMA LowRange == \A a \in Addresses : Low(a) \in 0 .. 3 /\ Index(a) \in 0 .. Words - 1
BY WordsAssumption DEF Addresses, Low, Index

\* Halves are aligned by the generator.
LEMMA HalfLow ==
  ASSUME NEW a \in Addresses, a % 2 = 0
  PROVE  Low(a) \in {0, 2}
BY WordsAssumption DEF Addresses, Low

-----------------------------------------------------------------------------
\* A word load rotates by the low address in either account.
LEMMA WordLoadEquals ==
  ASSUME NEW w \in Word, NEW low \in 0 .. 3, NEW b \in BOOLEAN, NEW junk \in Byte
  PROVE  LoadValue(ReadData(w, "word", low, b, junk), low, "word", b)
           = LoadMemory(w, low, "word", b)
<1>1. ReadData(w, "word", low, b, junk) = w
  BY DEF ReadData, ByteEnable, Word
<1>2. RotateWordForAddress(w, low) = RotateRight(w, low)
  <2>1. CASE low = 0
    BY <2>1 DEF RotateWordForAddress, RotateRight, Word
  <2>2. CASE low = 1
    BY <2>2 DEF RotateWordForAddress, RotateRight, Word
  <2>3. CASE low = 2
    BY <2>3 DEF RotateWordForAddress, RotateRight, Word
  <2>4. CASE low = 3
    BY <2>4 DEF RotateWordForAddress, RotateRight, Word
  <2> QED BY <2>1, <2>2, <2>3, <2>4, LaneSet
<1> QED BY <1>1, <1>2 DEF LoadValue, LoadMemory, SizeOf

\* A byte load reads an enabled lane, the oracle's.
LEMMA ByteLoadEquals ==
  ASSUME NEW w \in Word, NEW low \in 0 .. 3, NEW b \in BOOLEAN, NEW junk \in Byte,
         NEW kind \in {"byte", "signed_byte"}
  PROVE  LoadValue(ReadData(w, "byte", low, b, junk), low, kind, b)
           = LoadMemory(w, low, kind, b)
<1>1. ByteLane(low, b) \in 0 .. 3 /\ ByteEnable("byte", low, b) = {ByteLane(low, b)}
  BY DEF ByteLane, ByteEnable
<1>2. ReadData(w, "byte", low, b, junk)[ByteLane(low, b)] = w[ByteLane(low, b)]
  BY <1>1 DEF ReadData
<1>3. SizeOf(kind) = "byte"
  BY DEF SizeOf
<1> QED BY <1>2, <1>3 DEF LoadValue, LoadMemory, ByteLane, Extension

\* A halfword load reads two enabled lanes, the oracle's.
LEMMA HalfLoadEquals ==
  ASSUME NEW w \in Word, NEW low \in {0, 2}, NEW b \in BOOLEAN, NEW junk \in Byte,
         NEW kind \in {"half", "signed_half"}
  PROVE  LoadValue(ReadData(w, "half", low, b, junk), low, kind, b)
           = LoadMemory(w, low, kind, b)
<1> DEFINE d == ReadData(w, "half", low, b, junk)
           base == IF HighHalf(low, b) THEN 2 ELSE 0
<1>1. base \in {0, 2} /\ ByteEnable("half", low, b) = {base, base + 1}
  BY DEF HighHalf, ByteEnable
<1>2. d[base] = w[base] /\ d[base + 1] = w[base + 1]
  BY <1>1 DEF ReadData
<1>3. SizeOf(kind) = "half"
  BY DEF SizeOf
<1>4. HighHalf(low, b) = (IF b THEN low < 2 ELSE low >= 2)
  BY DEF HighHalf
<1>5. CASE HighHalf(low, b)
  <2>1. d[2] = w[2] /\ d[3] = w[3]
    BY <1>2, <1>5
  <2>2. LoadValue(d, low, kind, b)
          = [i \in 0 .. 3 |-> IF i = 0 THEN w[2] ELSE IF i = 1 THEN w[3]
                              ELSE Extension(w[3], kind = "signed_half")]
    BY <1>3, <1>4, <1>5, <2>1 DEF LoadValue, Extension
  <2>3. LoadMemory(w, low, kind, b)
          = [i \in 0 .. 3 |-> IF i < 2 THEN w[2 + i]
                              ELSE Extension(w[3], kind = "signed_half")]
    BY <1>5 DEF LoadMemory
  <2> QED BY <2>2, <2>3, LaneSet
<1>6. CASE ~HighHalf(low, b)
  <2>1. d[0] = w[0] /\ d[1] = w[1]
    BY <1>2, <1>6
  <2>2. LoadValue(d, low, kind, b)
          = [i \in 0 .. 3 |-> IF i = 0 THEN w[0] ELSE IF i = 1 THEN w[1]
                              ELSE Extension(w[1], kind = "signed_half")]
    BY <1>3, <1>4, <1>6, <2>1 DEF LoadValue, Extension
  <2>3. LoadMemory(w, low, kind, b)
          = [i \in 0 .. 3 |-> IF i < 2 THEN w[0 + i]
                              ELSE Extension(w[1], kind = "signed_half")]
    BY <1>6 DEF LoadMemory
  <2> QED BY <2>2, <2>3, LaneSet
<1> QED BY <1>5, <1>6

\* A store changes the same lanes to the same bytes.
LEMMA WordStoreEquals ==
  ASSUME NEW w \in Word, NEW low \in 0 .. 3, NEW any \in 0 .. 3, NEW b \in BOOLEAN,
         NEW v \in Word
  PROVE  Merge(w, "word", low, b, StoreData(v, "word")) = StoreMemory(w, any, "word", v, b)
BY DEF Merge, ByteEnable, StoreData, StoreMemory, Word

LEMMA ByteStoreEquals ==
  ASSUME NEW w \in Word, NEW low \in 0 .. 3, NEW b \in BOOLEAN, NEW v \in Word
  PROVE  Merge(w, "byte", low, b, StoreData(v, "byte")) = StoreMemory(w, low, "byte", v, b)
<1>1. ByteLane(low, b) \in 0 .. 3 /\ ByteEnable("byte", low, b) = {ByteLane(low, b)}
  BY DEF ByteLane, ByteEnable
<1> QED BY <1>1 DEF Merge, StoreData, StoreMemory, Word

LEMMA HalfStoreEquals ==
  ASSUME NEW w \in Word, NEW low \in {0, 2}, NEW b \in BOOLEAN, NEW v \in Word
  PROVE  Merge(w, "half", low, b, StoreData(v, "half")) = StoreMemory(w, low, "half", v, b)
<1> DEFINE base == IF HighHalf(low, b) THEN 2 ELSE 0
<1>1. base \in {0, 2} /\ ByteEnable("half", low, b) = {base, base + 1}
  BY DEF HighHalf, ByteEnable
<1>2. StoreMemory(w, low, "half", v, b) = [w EXCEPT ![base] = v[0], ![base + 1] = v[1]]
  BY DEF StoreMemory
<1>3. CASE base = 0
  BY <1>1, <1>2, <1>3 DEF Merge, StoreData, Word
<1>4. CASE base = 2
  BY <1>1, <1>2, <1>4 DEF Merge, StoreData, Word
<1> QED BY <1>1, <1>3, <1>4

-----------------------------------------------------------------------------
\* The results are words.
LEMMA LoadTyped ==
  ASSUME NEW w \in Word, NEW low \in 0 .. 3, NEW b \in BOOLEAN,
         NEW kind \in LoadKinds, kind \in {"half", "signed_half"} => low \in {0, 2}
  PROVE  LoadMemory(w, low, kind, b) \in Word
<1>1. CASE kind = "word"
  BY <1>1 DEF LoadMemory, RotateRight, Word
<1>2. CASE kind \in {"byte", "signed_byte"}
  <2>1. ByteLane(low, b) \in 0 .. 3
    BY DEF ByteLane
  <2> QED BY <1>2, <2>1, BytesAssumption DEF LoadMemory, Extension, Word
<1>3. CASE kind \in {"half", "signed_half"}
  BY <1>3, BytesAssumption DEF LoadMemory, Extension, Word
<1> QED BY <1>1, <1>2, <1>3 DEF LoadKinds

LEMMA StoreTyped ==
  ASSUME NEW w \in Word, NEW low \in 0 .. 3, NEW b \in BOOLEAN, NEW v \in Word,
         NEW kind \in StoreKinds
  PROVE  StoreMemory(w, low, kind, v, b) \in Word
<1>1. w[0] \in Byte /\ w[1] \in Byte /\ w[2] \in Byte /\ w[3] \in Byte
      /\ v[0] \in Byte /\ v[1] \in Byte
  BY DEF Word
<1> QED BY <1>1 DEF StoreMemory, StoreKinds, Word, ByteLane

\* One load of any kind.
LEMMA LoadEquals ==
  ASSUME NEW w \in Word, NEW a \in Addresses, NEW b \in BOOLEAN, NEW junk \in Byte,
         NEW kind \in LoadKinds, LoadAligned(kind, a)
  PROVE  LoadValue(ReadData(w, SizeOf(kind), Low(a), b, junk), Low(a), kind, b)
           = LoadMemory(w, Low(a), kind, b)
<1>1. Low(a) \in 0 .. 3
  BY LowRange
<1>2. CASE kind = "word"
  BY <1>1, <1>2, WordLoadEquals DEF SizeOf
<1>3. CASE kind \in {"byte", "signed_byte"}
  BY <1>1, <1>3, ByteLoadEquals DEF SizeOf
<1>4. CASE kind \in {"half", "signed_half"}
  <2>1. Low(a) \in {0, 2}
    BY <1>4, HalfLow DEF LoadAligned
  <2>2. SizeOf(kind) = "half"
    BY <1>4 DEF SizeOf
  <2> QED BY <1>4, <2>1, <2>2, HalfLoadEquals
<1> QED BY <1>2, <1>3, <1>4 DEF LoadKinds

\* What the theorems rest on: types and agreement together.
Agree == TypeOK /\ MemoriesAgree /\ LoadsAgree

LEMMA AgreeInit == Init => Agree
BY WordsAssumption DEF Init, Agree, TypeOK, MemoriesAgree, LoadsAgree

LEMMA AgreeStep == Agree /\ [Next]_vars => Agree'
<1> SUFFICES ASSUME Agree, [Next]_vars PROVE Agree'
  OBVIOUS
<1>t. /\ big \in BOOLEAN /\ mem = words /\ loaded = expected
      /\ words \in [0 .. Words - 1 -> Word] /\ expected \in Word
  BY DEF Agree, TypeOK, MemoriesAgree, LoadsAgree
<1>1. ASSUME NEW kind \in LoadKinds, NEW a \in Addresses, NEW junk \in Byte,
             EmitLoad(kind, a, junk)
      PROVE  Agree'
  <2>1. words[Index(a)] \in Word /\ Low(a) \in 0 .. 3
    BY <1>t, LowRange
  <2>2. loaded' = expected'
    BY <1>t, <1>1, <2>1, LoadEquals DEF EmitLoad
  <2>3. kind \in {"half", "signed_half"} => Low(a) \in {0, 2}
    BY <1>1, HalfLow DEF EmitLoad, LoadAligned
  <2>4. expected' \in Word
    BY <1>t, <1>1, <2>1, <2>3, LoadTyped DEF EmitLoad
  <2> QED BY <1>t, <1>1, <2>2, <2>4
          DEF EmitLoad, Agree, TypeOK, MemoriesAgree, LoadsAgree
<1>2. ASSUME NEW kind \in StoreKinds, NEW a \in Addresses, NEW v \in Values,
             EmitStore(kind, a, v)
      PROVE  Agree'
  <2>1. words[Index(a)] \in Word /\ Low(a) \in 0 .. 3 /\ v \in Word
        /\ Index(a) \in 0 .. Words - 1
    BY <1>t, LowRange, WordsAssumption
  <2>2. Merge(words[Index(a)], kind, Low(a), big, StoreData(v, kind))
          = StoreMemory(words[Index(a)], Low(a), kind, v, big)
    <3>1. CASE kind = "word"
      BY <1>t, <2>1, <3>1, WordStoreEquals
    <3>2. CASE kind = "byte"
      BY <1>t, <2>1, <3>2, ByteStoreEquals
    <3>3. CASE kind = "half"
      <4>1. Low(a) \in {0, 2}
        BY <1>2, <3>3, HalfLow DEF EmitStore, StoreAligned
      <4> QED BY <1>t, <2>1, <3>3, <4>1, HalfStoreEquals
    <3> QED BY <3>1, <3>2, <3>3 DEF StoreKinds
  <2>3. mem' = words'
    BY <1>t, <1>2, <2>2 DEF EmitStore
  <2>4. words' \in [0 .. Words - 1 -> Word]
    BY <1>t, <1>2, <2>1, StoreTyped DEF EmitStore
  <2> QED BY <1>t, <1>2, <2>3, <2>4
          DEF EmitStore, Agree, TypeOK, MemoriesAgree, LoadsAgree
<1>3. ASSUME NEW kind \in {"word", "byte"}, NEW a \in Addresses, NEW v \in Values,
             NEW junk \in Byte, Swap(kind, a, v, junk)
      PROVE  Agree'
  <2>1. words[Index(a)] \in Word /\ Low(a) \in 0 .. 3 /\ v \in Word
        /\ Index(a) \in 0 .. Words - 1 /\ SwapLowForStore(kind, a) \in 0 .. 3
    BY <1>t, LowRange, WordsAssumption DEF SwapLowForStore
  <2>2. kind \in LoadKinds /\ kind \in StoreKinds /\ LoadAligned(kind, a)
        /\ SizeOf(kind) = kind
    BY DEF LoadKinds, StoreKinds, LoadAligned, SizeOf
  <2>3. loaded' = expected'
    BY <1>t, <1>3, <2>1, <2>2, LoadEquals DEF Swap
  <2>4. expected' \in Word
    BY <1>t, <1>3, <2>1, <2>2, LoadTyped DEF Swap
  <2>5. Merge(words[Index(a)], kind, Low(a), big, StoreData(v, kind))
          = StoreMemory(words[Index(a)], SwapLowForStore(kind, a), kind, v, big)
    <3>1. CASE kind = "word"
      BY <1>t, <2>1, <3>1, WordStoreEquals
    <3>2. CASE kind = "byte"
      BY <1>t, <2>1, <3>2, ByteStoreEquals DEF SwapLowForStore
    <3> QED BY <3>1, <3>2
  <2>6. mem' = words'
    BY <1>t, <1>3, <2>5 DEF Swap
  <2>7. words' \in [0 .. Words - 1 -> Word]
    BY <1>t, <1>3, <2>1, <2>2, StoreTyped DEF Swap
  <2> QED BY <1>t, <1>3, <2>3, <2>4, <2>6, <2>7
          DEF Swap, Agree, TypeOK, MemoriesAgree, LoadsAgree
<1>4. CASE UNCHANGED vars
  BY <1>4 DEF vars, Agree, TypeOK, MemoriesAgree, LoadsAgree
<1> QED BY <1>1, <1>2, <1>3, <1>4 DEF Next

\* For any bytes, memory and program, the memory beside the core holds the
\* words of constrained_random.py's oracle.
THEOREM MemoryMatchesOracle == Spec => []MemoriesAgree
<1>1. Agree => MemoriesAgree
  BY DEF Agree
<1> QED BY <1>1, AgreeInit, AgreeStep, PTL DEF Spec

\* For any bytes, memory and program, every load and the load half of every
\* swap gives the core what the oracle expects, whatever a read leaves on the
\* lanes that are not enabled.
THEOREM LoadsMatchOracle == Spec => []LoadsAgree
<1>1. Agree => LoadsAgree
  BY DEF Agree
<1> QED BY <1>1, AgreeInit, AgreeStep, PTL DEF Spec

-----------------------------------------------------------------------------
(* The powers of two, from the subsets they count: no recursion is needed.    *)
\* As many subsets as a power of two counts.
LEMMA SubsetsCounted ==
  ASSUME NEW a \in Int, NEW b \in Int, NEW n \in Nat, b - a + 1 = n
  PROVE  /\ IsFiniteSet(a .. b) /\ IsFiniteSet(SUBSET (a .. b))
         /\ Cardinality(SUBSET (a .. b)) = 2 ^ n
         /\ Cardinality(SUBSET (a .. b)) \in Nat
<1>1. IsFiniteSet(a .. b) /\ Cardinality(a .. b) = IF a > b THEN 0 ELSE b - a + 1
  BY FS_Interval, Zenon
<1>2. Cardinality(a .. b) = n
  BY <1>1
<1>3. IsFiniteSet(SUBSET (a .. b)) /\ Cardinality(SUBSET (a .. b)) = 2 ^ Cardinality(a .. b)
  BY <1>1, FS_SUBSET, Zenon
<1>4. Cardinality(SUBSET (a .. b)) \in Nat
  BY <1>3, FS_CardinalityType, Zenon
<1> QED BY <1>1, <1>2, <1>3, <1>4, Zenon

\* Exponents add: a set in two parts has a subset for each pair of subsets.
LEMMA PowersAdd ==
  ASSUME NEW m \in Nat, NEW n \in Nat
  PROVE  2 ^ m \in Nat /\ 2 ^ n \in Nat /\ 2 ^ (m + n) = 2 ^ m * 2 ^ n
<1> DEFINE A == 1 .. m
           B == m + 1 .. m + n
           C == 1 .. m + n
           PA == SUBSET A
           PB == SUBSET B
           PC == SUBSET C
           split == [T \in PC |-> <<T \cap A, T \cap B>>]
<1>1. /\ IsFiniteSet(PA) /\ Cardinality(PA) = 2 ^ m /\ Cardinality(PA) \in Nat
      /\ IsFiniteSet(PB) /\ Cardinality(PB) = 2 ^ n /\ Cardinality(PB) \in Nat
      /\ IsFiniteSet(PC) /\ Cardinality(PC) = 2 ^ (m + n)
  <2>1. /\ 1 \in Int /\ m \in Int /\ m + 1 \in Int /\ m + n \in Int /\ m + n \in Nat
        /\ m - 1 + 1 = m /\ (m + n) - (m + 1) + 1 = n /\ (m + n) - 1 + 1 = m + n
    OBVIOUS
  <2> QED BY <2>1, SubsetsCounted, Zenon
<1>2. C = A \cup B /\ A \cap B = {}
  OBVIOUS
<1> HIDE DEF A, B, C
<1>3. split \in [PC -> PA \X PB]
  <2>1. \A T \in PC : T \cap A \in PA /\ T \cap B \in PB
    OBVIOUS
  <2> HIDE DEF PA, PB, PC
  <2> QED BY <2>1
<1>4. \A T, U \in PC : split[T] = split[U] => T = U
  <2> SUFFICES ASSUME NEW T \in PC, NEW U \in PC, split[T] = split[U]
               PROVE  T = U
    OBVIOUS
  <2>1. T \cap A = U \cap A /\ T \cap B = U \cap B
    OBVIOUS
  <2> QED BY <1>2, <2>1
<1>5. \A p \in PA \X PB : \E T \in PC : split[T] = p
  <2>1. ASSUME NEW K \in PA, NEW L \in PB
        PROVE  \E T \in PC : split[T] = <<K, L>>
    <3>1. K \cup L \in PC /\ (K \cup L) \cap A = K /\ (K \cup L) \cap B = L
      BY <1>2
    <3> QED BY <3>1
  <2> HIDE DEF PA, PB, PC, split
  <2> QED BY <2>1
<1>6. ExistsBijection(PC, PA \X PB)
  <2> HIDE DEF split, PA, PB, PC
  <2>1. split \in Injection(PC, PA \X PB)
    <3>1. DOMAIN split = PC
      BY <1>3
    <3> QED BY <1>3, <1>4, <3>1, Zenon DEF Injection, IsInjective
  <2>2. split \in Surjection(PC, PA \X PB)
    BY <1>3, <1>5, Zenon DEF Surjection
  <2> QED BY <2>1, <2>2, Zenon DEF ExistsBijection, Bijection
<1> HIDE DEF split, PA, PB, PC
<1>7. Cardinality(PA \X PB) = Cardinality(PC)
  BY <1>1, <1>6, FS_Bijection, Zenon
<1>8. Cardinality(PA \X PB) = Cardinality(PA) * Cardinality(PB)
  BY <1>1, FS_Product, Zenon
<1> QED BY <1>1, <1>7, <1>8, Zenon

LEMMA PowerPositive ==
  ASSUME NEW n \in Nat
  PROVE  2 ^ n \in Nat /\ 2 ^ n # 0
<1> DEFINE P == SUBSET (1 .. n)
<1>1. 1 \in Int /\ n \in Int /\ n - 1 + 1 = n
  OBVIOUS
<1>2. IsFiniteSet(P) /\ Cardinality(P) = 2 ^ n /\ Cardinality(P) \in Nat
  BY <1>1, SubsetsCounted, Zenon
<1>3. P # {}
  OBVIOUS
<1> HIDE DEF P
<1>4. Cardinality(P) # 0
  BY <1>2, <1>3, FS_EmptySet, Zenon
<1> QED BY <1>2, <1>4, Zenon

LEMMA PowerOfOne == 2 ^ 1 = 2
<1>1. IsFiniteSet({{}}) /\ Cardinality({{}}) = 1
  BY FS_Singleton, Zenon
<1>2. {1 .. 1} \cup {{}} = SUBSET (1 .. 1) /\ 1 .. 1 \notin {{}}
  BY 1 .. 1 = {1}
<1>3. Cardinality({{}} \cup {1 .. 1}) = 1 + 1
  BY <1>1, <1>2, FS_AddElement, Zenon
<1>4. {{}} \cup {1 .. 1} = SUBSET (1 .. 1)
  BY <1>2, Zenon
<1>5. Cardinality(SUBSET (1 .. 1)) = 2 ^ 1
  BY SubsetsCounted, 1 \in Int, 1 \in Nat, 1 - 1 + 1 = 1, Zenon
<1>6. 2 ^ 1 = 1 + 1
  BY <1>3, <1>4, <1>5, Zenon
<1> QED BY <1>6

LEMMA SmallPowers ==
  2 ^ 0 = 1 /\ 2 ^ 1 = 2 /\ 2 ^ 2 = 4 /\ 2 ^ 3 = 8 /\ 2 ^ 4 = 16 /\ 2 ^ 5 = 32
<1>0. 2 ^ 0 = 1
  <2>1. 0 + 0 = 0 /\ 0 \in Nat
    OBVIOUS
  <2>2. 2 ^ 0 \in Nat /\ 2 ^ (0 + 0) = 2 ^ 0 * 2 ^ 0 /\ 2 ^ 0 # 0
    BY <2>1, PowersAdd, PowerPositive, Zenon
  <2>3. \A p \in Nat : p = p * p /\ p # 0 => p = 1
    OBVIOUS
  <2> QED BY <2>1, <2>2, <2>3, Zenon
<1>1. ASSUME NEW n \in Nat PROVE 2 ^ (n + 1) = 2 ^ n * 2
  BY PowersAdd, PowerOfOne, 1 \in Nat, Zenon
<1>2. 2 ^ (1 + 1) = 2 * 2
  BY <1>1, PowerOfOne, 1 \in Nat, Zenon
<1>3. 2 ^ 2 = 4
  BY <1>2, 1 + 1 = 2, 2 * 2 = 4, Zenon
<1>4. 2 ^ (2 + 1) = 4 * 2
  BY <1>1, <1>3, 2 \in Nat, Zenon
<1>5. 2 ^ 3 = 8
  BY <1>4, 2 + 1 = 3, 4 * 2 = 8, Zenon
<1>6. 2 ^ (3 + 1) = 8 * 2
  BY <1>1, <1>5, 3 \in Nat, Zenon
<1>7. 2 ^ 4 = 16
  BY <1>6, 3 + 1 = 4, 8 * 2 = 16, Zenon
<1>8. 2 ^ (4 + 1) = 16 * 2
  BY <1>1, <1>7, 4 \in Nat, Zenon
<1>9. 2 ^ 5 = 32
  BY <1>8, 4 + 1 = 5, 16 * 2 = 32, Zenon
<1> QED BY <1>0, PowerOfOne, <1>3, <1>5, <1>7, <1>9, Zenon

-----------------------------------------------------------------------------
(* The generators have full period.  The n-th state is First + S(n) * e, cut  *)
(* to a seed, where S(n) is the sum of the powers of the multiplier below n   *)
(* and e is odd; as the multiplier is one more than a multiple of four, S(n)  *)
(* is a multiple of a power of two only if n is.                             *)

LEMMA LeastNumber ==
  ASSUME NEW S, S \subseteq Nat, S # {}
  PROVE  \E x \in S : \A y \in S : ~(y < x)
<1>1. IsWellFoundedOn(OpToRel(<, Nat), Nat)
  BY NatLessThanWellFounded
<1>2. \E x \in S : \A y \in S : <<y, x>> \notin OpToRel(<, Nat)
  BY <1>1, WFMin
<1> QED BY <1>2 DEF OpToRel

\* What holds of 0 and of n + 1 whenever it holds of n has no first failure.
LEMMA FirstFailure ==
  ASSUME NEW S, 0 \in S, \A n \in Nat : n \in S => n + 1 \in S
  PROVE  \A n \in Nat : n \in S
<1> SUFFICES ASSUME Nat \ S # {} PROVE FALSE
  OBVIOUS
<1> PICK x \in Nat \ S : \A y \in Nat \ S : ~(y < x)
  BY LeastNumber
<1>1. x # 0 /\ x - 1 \in Nat /\ x - 1 < x /\ (x - 1) + 1 = x
  OBVIOUS
<1>2. x - 1 \in S
  BY <1>1
<1> QED BY <1>1, <1>2

\* A sequence with a given first element and step.
Stepped(f, N, S, a, G) ==
  f \in [0 .. N -> S] /\ f[0] = a /\ \A i \in 1 .. N : f[i] = G[f[i - 1]]

LEMMA SteppedExists ==
  ASSUME NEW S, NEW a \in S, NEW G \in [S -> S]
  PROVE  \A N \in Nat : \E f : Stepped(f, N, S, a, G)
<1> DEFINE Good == {N \in Nat : \E f : Stepped(f, N, S, a, G)}
<1>1. 0 \in Good
  <2> DEFINE f == [i \in 0 .. 0 |-> a]
  <2>1. Stepped(f, 0, S, a, G)
    BY DEF Stepped
  <2> QED BY <2>1
<1>2. ASSUME NEW n \in Nat, n \in Good PROVE n + 1 \in Good
  <2> PICK f : Stepped(f, n, S, a, G)
    BY <1>2
  <2> DEFINE g == [i \in 0 .. n + 1 |-> IF i = n + 1 THEN G[f[n]] ELSE f[i]]
  <2>1. f[n] \in S /\ G[f[n]] \in S
    BY DEF Stepped
  <2>2. g \in [0 .. n + 1 -> S] /\ g[0] = a
    BY <2>1 DEF Stepped
  <2>3. ASSUME NEW i \in 1 .. n + 1 PROVE g[i] = G[g[i - 1]]
    <3>1. CASE i = n + 1
      BY <3>1
    <3>2. CASE i \in 1 .. n
      BY <3>2 DEF Stepped
    <3> QED BY <3>1, <3>2
  <2> HIDE DEF g
  <2>4. Stepped(g, n + 1, S, a, G)
    BY <2>2, <2>3 DEF Stepped
  <2> QED BY <2>4
<1> HIDE DEF Good
<1>3. \A n \in Nat : n \in Good
  BY <1>1, <1>2, FirstFailure
<1> QED BY <1>3 DEF Good

\* The sums of the powers of a.
Sums(S, a, N) ==
  S \in [0 .. N -> Nat] /\ S[0] = 0 /\ \A i \in 1 .. N : S[i] = a * S[i - 1] + 1

LEMMA SumsExist ==
  ASSUME NEW a \in Nat, NEW N \in Nat
  PROVE  \E S : Sums(S, a, N)
<1> DEFINE G == [r \in Nat |-> a * r + 1]
<1>1. G \in [Nat -> Nat] /\ \A r \in Nat : G[r] = a * r + 1
  OBVIOUS
<1> HIDE DEF G
<1>2. PICK f : Stepped(f, N, Nat, 0, G)
  BY <1>1, SteppedExists
<1>3. \A i \in 1 .. N : f[i - 1] \in Nat
  BY <1>2 DEF Stepped
<1>4. \A i \in 1 .. N : f[i] = a * f[i - 1] + 1
  BY <1>1, <1>2, <1>3 DEF Stepped
<1>5. Sums(f, a, N)
  BY <1>2, <1>4 DEF Stepped, Sums
<1> QED BY <1>5

\* S(m + n) = S(m) * a ^ n + S(n).
LEMMA SumAdds ==
  ASSUME NEW a \in Nat, NEW N \in Nat, NEW S, Sums(S, a, N), NEW n \in 0 .. N
  PROVE  \A m \in Nat : m + n <= N => S[m + n] = S[m] * ((a - 1) * S[n] + 1) + S[n]
<1> DEFINE p == (a - 1) * S[n] + 1
           Good == {m \in Nat : m + n <= N => S[m + n] = S[m] * p + S[n]}
<1>1. \A i \in 0 .. N : S[i] \in Nat
  BY DEF Sums
<1>2. p \in Int /\ p + S[n] = a * S[n] + 1
  BY <1>1
<1> HIDE DEF p
<1>3. 0 \in Good
  BY <1>1, <1>2 DEF Sums
<1>4. ASSUME NEW m \in Nat, m \in Good PROVE m + 1 \in Good
  <2> SUFFICES ASSUME (m + 1) + n <= N
               PROVE  S[(m + 1) + n] = S[m + 1] * p + S[n]
    OBVIOUS
  <2>1. m + 1 \in 1 .. N /\ (m + 1) + n \in 1 .. N /\ (m + 1) - 1 = m /\ ((m + 1) + n) - 1 = m + n
        /\ m \in 0 .. N /\ m + n \in 0 .. N
    OBVIOUS
  <2>2. S[m + 1] = a * S[m] + 1 /\ S[(m + 1) + n] = a * S[m + n] + 1
    BY <2>1 DEF Sums
  <2>3. S[m + n] = S[m] * p + S[n]
    BY <1>4
  <2> DEFINE s == S[m]
             t == S[n]
  <2>4. s \in Nat /\ t \in Nat
    BY <1>1, <2>1
  <2> HIDE DEF s, t
  <2>5. a * (s * p + t) + 1 = (a * s + 1) * p + t
    BY <1>2, <2>4 DEF t
  <2> QED BY <2>2, <2>3, <2>5 DEF s, t
<1> HIDE DEF Good
<1>5. \A m \in Nat : m \in Good
  BY <1>3, <1>4, FirstFailure
<1> QED BY <1>5 DEF Good, p

\* An odd multiplier makes the sums odd and even by turns.
LEMMA SumParity ==
  ASSUME NEW b \in Nat, NEW N \in Nat, NEW S, Sums(S, 4 * b + 1, N)
  PROVE  \A n \in 0 .. N : S[n] % 2 = n % 2
<1> DEFINE Good == {n \in Nat : n <= N => S[n] % 2 = n % 2}
<1>1. 0 \in Good
  BY DEF Sums
<1>2. ASSUME NEW n \in Nat, n \in Good PROVE n + 1 \in Good
  <2> SUFFICES ASSUME n + 1 <= N PROVE S[n + 1] % 2 = (n + 1) % 2
    OBVIOUS
  <2>1. n + 1 \in 1 .. N /\ (n + 1) - 1 = n /\ n \in 0 .. N
    OBVIOUS
  <2>2. S[n + 1] = (4 * b + 1) * S[n] + 1 /\ S[n] \in Nat
    BY <2>1 DEF Sums
  <2>3. S[n] % 2 = n % 2
    BY <1>2
  <2> DEFINE s == S[n]
             k == b * s
  <2>4. k \in Nat /\ s \in Nat /\ S[n + 1] = 4 * k + s + 1
    BY <2>2
  <2> HIDE DEF s, k
  <2>5. s % 2 = n % 2
    BY <2>3 DEF s
  <2> QED BY <2>4, <2>5
<1> HIDE DEF Good
<1>3. \A n \in Nat : n \in Good
  BY <1>1, <1>2, FirstFailure
<1> QED BY <1>3 DEF Good

-----------------------------------------------------------------------------
Multiple(x, d) == \E k \in Int : x = k * d

LEMMA PowerDoubles ==
  ASSUME NEW n \in Nat
  PROVE  2 ^ (n + 1) = 2 ^ n * 2 /\ 2 ^ n \in Nat /\ 2 ^ n # 0
BY PowersAdd, PowerPositive, PowerOfOne, 1 \in Nat, Zenon

\* An odd factor does not help to reach a power of two.
LEMMA OddCancels ==
  ASSUME NEW o \in Int, o % 2 = 1
  PROVE  \A w \in Nat : \A y \in Int : Multiple(o * y, 2 ^ w) => Multiple(y, 2 ^ w)
<1> DEFINE Good == {w \in Nat : \A y \in Int : Multiple(o * y, 2 ^ w) => Multiple(y, 2 ^ w)}
<1>1. 0 \in Good
  <2>1. \A y \in Int : Multiple(y, 1)
    BY DEF Multiple
  <2> QED BY <2>1, SmallPowers, Zenon
<1>2. ASSUME NEW w \in Nat, w \in Good PROVE w + 1 \in Good
  <2> SUFFICES ASSUME NEW y \in Int, Multiple(o * y, 2 ^ (w + 1))
               PROVE  Multiple(y, 2 ^ (w + 1))
    OBVIOUS
  <2> DEFINE p == 2 ^ w
  <2>1. p \in Nat /\ p # 0 /\ 2 ^ (w + 1) = p * 2
    BY PowerDoubles, Zenon
  <2>2. \A z \in Int : Multiple(o * z, p) => Multiple(z, p)
    BY <1>2
  <2> HIDE DEF p
  <2>3. PICK k \in Int : o * y = k * (p * 2)
    BY <2>1 DEF Multiple
  <2>4. PICK z \in Int : y = 2 * z
    <3>1. PICK h \in Int : o = 2 * h + 1
      <4>1. o = 2 * (o \div 2) + 1 /\ o \div 2 \in Int
        OBVIOUS
      <4> QED BY <4>1
    <3>2. y = 2 * (k * p - h * y) /\ k * p - h * y \in Int
      <4>1. o * y = 2 * (h * y) + y
        BY <3>1
      <4>2. k * (p * 2) = 2 * (k * p)
        BY <2>1
      <4>3. k * p \in Int /\ h * y \in Int
        BY <2>1
      <4> DEFINE u == k * p
                 v == h * y
      <4>4. 2 * v + y = 2 * u /\ u \in Int /\ v \in Int
        BY <2>3, <4>1, <4>2, <4>3
      <4> HIDE DEF u, v
      <4>5. y = 2 * (u - v) /\ u - v \in Int
        BY <4>4
      <4> QED BY <4>5 DEF u, v
    <3> QED BY <3>2
  <2>5. o * z = k * p
    <3>1. o * y = 2 * (o * z) /\ k * (p * 2) = 2 * (k * p)
      BY <2>1, <2>4
    <3>2. o * z \in Int /\ k * p \in Int
      BY <2>1
    <3> QED BY <2>3, <3>1, <3>2
  <2>6. PICK l \in Int : z = l * p
    BY <2>2, <2>5 DEF Multiple
  <2>7. y = l * (p * 2)
    BY <2>1, <2>4, <2>6
  <2> QED BY <2>1, <2>7 DEF Multiple
<1> HIDE DEF Good
<1>3. \A w \in Nat : w \in Good
  BY <1>1, <1>2, FirstFailure
<1> QED BY <1>3 DEF Good

\* A sum is a multiple of a power of two only if its number is.
LEMMA SumMultiple ==
  ASSUME NEW b \in Nat, NEW N \in Nat, NEW S, Sums(S, 4 * b + 1, N)
  PROVE  \A w \in Nat : \A k \in 0 .. N : Multiple(S[k], 2 ^ w) => Multiple(k, 2 ^ w)
<1> DEFINE Good == {w \in Nat : \A k \in 0 .. N : Multiple(S[k], 2 ^ w) => Multiple(k, 2 ^ w)}
<1>1. 0 \in Good
  <2>1. \A k \in 0 .. N : Multiple(k, 1)
    BY DEF Multiple
  <2> QED BY <2>1, SmallPowers, Zenon
<1>2. ASSUME NEW w \in Nat, w \in Good PROVE w + 1 \in Good
  <2> SUFFICES ASSUME NEW k \in 0 .. N, Multiple(S[k], 2 ^ (w + 1))
               PROVE  Multiple(k, 2 ^ (w + 1))
    OBVIOUS
  <2> DEFINE p == 2 ^ w
  <2>1. p \in Nat /\ p # 0 /\ 2 ^ (w + 1) = p * 2
    BY PowerDoubles, Zenon
  <2>2. \A j \in 0 .. N : Multiple(S[j], p) => Multiple(j, p)
    BY <1>2
  <2>3. \A o \in Int : o % 2 = 1 => \A y \in Int : Multiple(o * y, p) => Multiple(y, p)
    BY OddCancels, Zenon
  <2> HIDE DEF p
  <2>4. PICK t \in Int : S[k] = t * (p * 2)
    BY <2>1 DEF Multiple
  <2>5. PICK j \in Nat : k = 2 * j
    <3>1. S[k] % 2 = 0
      <4> DEFINE u == t * p
      <4>1. u \in Int /\ S[k] = 2 * u
        BY <2>1, <2>4
      <4> HIDE DEF u
      <4> QED BY <4>1
    <3>2. k % 2 = 0
      BY <3>1, SumParity
    <3>3. k = 2 * (k \div 2) /\ k \div 2 \in Nat
      BY <3>2
    <3> QED BY <3>3
  <2>6. j \in 0 .. N /\ j + j <= N /\ j + j = k
    BY <2>5
  <2> DEFINE s == S[j]
             o == 2 * (b * s) + 1
  <2>7. s \in Nat
    BY <2>6 DEF Sums
  <2>8. o \in Int /\ o % 2 = 1
    <3>1. b * s \in Nat
      BY <2>7
    <3> QED BY <3>1
  <2>9. S[k] = 2 * (o * s)
    <3>1. S[j + j] = s * (((4 * b + 1) - 1) * s + 1) + s
      BY <2>6, SumAdds, 4 * b + 1 \in Nat
    <3>2. s * (((4 * b + 1) - 1) * s + 1) + s = 2 * ((2 * (b * s) + 1) * s)
      <4> HIDE DEF s
      <4> QED BY <2>7
    <3> QED BY <2>6, <3>1, <3>2
  <2> HIDE DEF o
  <2>10. o * s = t * p
    <3>1. o * s \in Int /\ t * p \in Int /\ t * (p * 2) = 2 * (t * p)
      BY <2>1, <2>7, <2>8
    <3> QED BY <2>4, <2>9, <3>1
  <2>11. Multiple(s, p)
    <3>1. Multiple(o * s, p)
      BY <2>10 DEF Multiple
    <3> QED BY <2>3, <2>7, <2>8, <3>1
  <2>12. PICK l \in Int : j = l * p
    BY <2>2, <2>6, <2>11 DEF Multiple
  <2>13. k = l * (p * 2)
    BY <2>1, <2>5, <2>12
  <2> QED BY <2>1, <2>13 DEF Multiple
<1> HIDE DEF Good
<1>3. \A w \in Nat : w \in Good
  BY <1>1, <1>2, FirstFailure
<1> QED BY <1>3 DEF Good

-----------------------------------------------------------------------------
LEMMA ModulusEven ==
  /\ Modulus \in Nat /\ Modulus >= 2
  /\ \E h \in Nat : Modulus = 2 * h /\ h >= 1
<1>1. Bits - 1 \in Nat /\ (Bits - 1) + 1 = Bits
  BY BitsAssumption
<1>2. 2 ^ ((Bits - 1) + 1) = 2 ^ (Bits - 1) * 2 /\ 2 ^ (Bits - 1) \in Nat /\ 2 ^ (Bits - 1) # 0
  BY <1>1, PowerDoubles, Zenon
<1> DEFINE h == 2 ^ (Bits - 1)
<1>3. h \in Nat /\ h # 0 /\ Modulus = h * 2
  BY <1>1, <1>2, Zenon DEF Modulus
<1> HIDE DEF h
<1>4. h >= 1 /\ Modulus = 2 * h
  BY <1>3
<1> QED BY <1>3, <1>4

LEMMA FirstSeed ==
  ASSUME NEW base \in Nat
  PROVE  First(base) \in 1 .. Modulus - 1
<1>1. Modulus \in Nat /\ Modulus >= 2
  BY ModulusEven
<1>2. base % Modulus \in 0 .. Modulus - 1
  BY <1>1
<1> QED BY <1>1, <1>2 DEF First

\* The states of a generator.
States(state, a, c, base, last) ==
  /\ state \in [0 .. last -> 0 .. Modulus - 1]
  /\ state[0] = First(base)
  /\ \A i \in 1 .. last : state[i] = (state[i - 1] * a + c) % Modulus

LEMMA LcgStates ==
  ASSUME NEW a \in Nat, NEW c \in Nat, NEW base \in Nat, NEW last \in Nat
  PROVE  States(Lcg(a, c, base, last), a, c, base, last)
<1> DEFINE R == 0 .. Modulus - 1
           G == [r \in R |-> (r * a + c) % Modulus]
           state == CHOOSE f : f = [i \in 0 .. last |-> IF i = 0 THEN First(base)
                                                       ELSE (f[i - 1] * a + c) % Modulus]
<1>1. Modulus \in Nat /\ Modulus >= 2
  BY ModulusEven
<1>2. G \in [R -> R] /\ \A r \in R : G[r] = (r * a + c) % Modulus
  <2>1. \A r \in R : (r * a + c) % Modulus \in R
    <3> SUFFICES ASSUME NEW r \in R PROVE (r * a + c) % Modulus \in R
      OBVIOUS
    <3> DEFINE x == r * a + c
    <3>1. x \in Int
      BY <1>1
    <3> HIDE DEF x
    <3>2. x % Modulus \in R
      BY <1>1, <3>1
    <3> QED BY <3>2 DEF x
  <2> QED BY <2>1
<1>3. First(base) \in R
  BY FirstSeed
<1> HIDE DEF G
<1>4. PICK f : Stepped(f, last, R, First(base), G)
  BY <1>2, <1>3, SteppedExists
<1>5. ASSUME NEW i \in 1 .. last PROVE f[i] = (f[i - 1] * a + c) % Modulus
  <2>1. i - 1 \in 0 .. last /\ f[i] = G[f[i - 1]] /\ f[i - 1] \in R
    BY <1>4 DEF Stepped
  <2> QED BY <1>2, <2>1
<1>6. f \in [0 .. last -> R] /\ f[0] = First(base)
  BY <1>4 DEF Stepped
<1>7. f = [i \in 0 .. last |-> IF i = 0 THEN First(base) ELSE (f[i - 1] * a + c) % Modulus]
  BY <1>5, <1>6
<1>8. state = [i \in 0 .. last |-> IF i = 0 THEN First(base) ELSE (state[i - 1] * a + c) % Modulus]
  BY <1>7, Zenon
<1>9. Lcg(a, c, base, last) = state
  BY DEF Lcg
<1> HIDE DEF state
<1>10. state[0] = First(base) /\ \A i \in 1 .. last : state[i] = (state[i - 1] * a + c) % Modulus
  BY <1>8
<1> DEFINE Good == {n \in Nat : n <= last => state[n] \in R}
<1>11. 0 \in Good
  BY <1>3, <1>10
<1>12. ASSUME NEW n \in Nat, n \in Good PROVE n + 1 \in Good
  <2> SUFFICES ASSUME n + 1 <= last PROVE state[n + 1] \in R
    OBVIOUS
  <2>1. n + 1 \in 1 .. last /\ (n + 1) - 1 = n /\ state[n] \in R
    BY <1>12
  <2>2. state[n + 1] = G[state[n]]
    BY <1>2, <1>10, <2>1
  <2> QED BY <1>2, <2>1, <2>2
<1> HIDE DEF Good
<1>13. \A n \in Nat : n \in Good
  BY <1>11, <1>12, FirstFailure
<1>14. \A i \in 0 .. last : state[i] \in R
  BY <1>13 DEF Good
<1>15. state \in [0 .. last -> R]
  BY <1>8, <1>14
<1> QED BY <1>9, <1>10, <1>15 DEF States

\* The n-th state is the first one and S(n) times e, cut to a seed.
LEMMA StateIsSum ==
  ASSUME NEW a \in Nat, NEW c \in Nat, NEW base \in Nat, NEW last \in Nat,
         NEW state, States(state, a, c, base, last), NEW S, Sums(S, a, last)
  PROVE  \A n \in 0 .. last :
           Multiple(First(base) + S[n] * ((a - 1) * First(base) + c) - state[n], Modulus)
<1> DEFINE x == First(base)
           e == (a - 1) * x + c
           Good == {n \in Nat : n <= last => Multiple(x + S[n] * e - state[n], Modulus)}
<1>1. x \in Nat /\ Modulus \in Nat /\ Modulus >= 2
  BY FirstSeed, ModulusEven
<1>2. e \in Int /\ x + e = a * x + c
  BY <1>1
<1>3. \A i \in 0 .. last : S[i] \in Nat /\ state[i] \in Nat
  BY <1>1 DEF Sums, States
<1> HIDE DEF x, e
<1>4. 0 \in Good
  <2>1. x + S[0] * e - state[0] = 0 * Modulus
    BY <1>1, <1>2 DEF Sums, States, x
  <2> QED BY <2>1 DEF Multiple
<1>5. ASSUME NEW n \in Nat, n \in Good PROVE n + 1 \in Good
  <2> SUFFICES ASSUME n + 1 <= last
               PROVE  Multiple(x + S[n + 1] * e - state[n + 1], Modulus)
    OBVIOUS
  <2>1. n + 1 \in 1 .. last /\ (n + 1) - 1 = n /\ n \in 0 .. last
    OBVIOUS
  <2> DEFINE s == S[n]
             r == state[n]
             y == r * a + c
             q == y \div Modulus
             u == state[n + 1]
  <2>2. S[n + 1] = a * s + 1 /\ u = y % Modulus
    BY <2>1 DEF Sums, States
  <2>3. s \in Nat /\ r \in Nat
    BY <1>3, <2>1
  <2>4. PICK k \in Int : x + s * e - r = k * Modulus
    BY <1>5 DEF Multiple
  <2> HIDE DEF s, r
  <2>5. y \in Int
    BY <2>3
  <2>6. q \in Int /\ y = q * Modulus + u /\ u \in Int
    <3> HIDE DEF y, u
    <3> QED BY <1>1, <2>2, <2>5
  <2> HIDE DEF q, u
  <2>7. x + (a * s + 1) * e - u = (a * k + q) * Modulus
    <3>1. a * (x + s * e - r) = a * (k * Modulus)
      BY <2>4
    <3>2. a * (x + s * e - r) = a * x + a * (s * e) - a * r
      BY <1>1, <1>2, <2>3
    <3>3. (a * s + 1) * e = a * (s * e) + e
      BY <1>2, <2>3
    <3>4. a * r + c = q * Modulus + u
      BY <2>3, <2>6
    <3>5. (a * k + q) * Modulus = a * (k * Modulus) + q * Modulus
      BY <1>1, <2>4, <2>6
    <3> DEFINE ax == a * x
               ase == a * (s * e)
               ar == a * r
               qm == q * Modulus
               akm == a * (k * Modulus)
               large == (a * s + 1) * e
               fin == (a * k + q) * Modulus
    <3>6. ax \in Int /\ ase \in Int /\ ar \in Int /\ qm \in Int /\ akm \in Int
      BY <1>1, <1>2, <2>3, <2>4, <2>6
    <3>7. ax + ase - ar = akm /\ large = ase + e /\ ar + c = qm + u /\ fin = akm + qm /\ x + e = ax + c
      BY <1>2, <3>1, <3>2, <3>3, <3>4, <3>5
    <3> HIDE DEF ax, ase, ar, qm, akm, large, fin
    <3>8. x + large - u = fin
      BY <1>1, <1>2, <2>6, <3>6, <3>7
    <3> QED BY <3>8 DEF large, fin
  <2>8. a * k + q \in Int
    BY <2>4, <2>6
  <2> QED BY <2>2, <2>7, <2>8 DEF Multiple, u
<1> HIDE DEF Good
<1>6. \A n \in Nat : n \in Good
  BY <1>4, <1>5, FirstFailure
<1> QED BY <1>6 DEF Good, x, e

\* A state does not come back within a period.
LEMMA FullPeriod ==
  ASSUME NEW b \in Nat, NEW h \in Nat, NEW base \in Nat, NEW last \in Nat,
         NEW state, States(state, 4 * b + 1, 2 * h + 1, base, last)
  PROVE  \A i, j \in 0 .. last : i < j /\ j - i < Modulus => state[i] # state[j]
<1> SUFFICES ASSUME NEW i \in 0 .. last, NEW j \in 0 .. last, i < j, j - i < Modulus,
                    state[i] = state[j]
             PROVE  FALSE
  OBVIOUS
<1> DEFINE a == 4 * b + 1
           c == 2 * h + 1
           x == First(base)
           e == (a - 1) * x + c
           k == j - i
<1>1. a \in Nat /\ c \in Nat /\ k \in Nat /\ k \in 0 .. last /\ k + i = j /\ k < Modulus /\ k # 0
  OBVIOUS
<1>2. x \in Nat /\ Modulus \in Nat /\ Modulus >= 2
  BY FirstSeed, ModulusEven
<1>3. PICK S : Sums(S, a, last)
  BY <1>1, SumsExist
<1>4. \A n \in 0 .. last : Multiple(x + S[n] * e - state[n], Modulus)
  BY <1>1, <1>3, StateIsSum
<1>5. \A n \in 0 .. last : S[n] \in Nat /\ state[n] \in Int
  <2>1. S \in [0 .. last -> Nat] /\ state \in [0 .. last -> 0 .. Modulus - 1]
    BY <1>3, Zenon DEF Sums, States
  <2> QED BY <1>2, <2>1
<1>6. e \in Int /\ e % 2 = 1
  <2>1. e = 2 * (2 * (b * x) + h) + 1 /\ b * x \in Nat
    BY <1>2
  <2> DEFINE u == b * x
  <2> HIDE DEF u, e
  <2>2. u \in Nat /\ e = 2 * (2 * u + h) + 1
    BY <2>1 DEF u
  <2> QED BY <2>2
<1> DEFINE s == S[i]
           t == S[k]
           p == (a - 1) * s + 1
<1>7. s \in Nat /\ t \in Nat /\ S[j] = t * p + s
  <2>1. S[k + i] = S[k] * ((a - 1) * S[i] + 1) + S[i]
    BY <1>1, <1>3, SumAdds
  <2> QED BY <1>1, <1>5, <2>1
<1>8. p \in Int /\ p % 2 = 1
  <2>1. p = 2 * (2 * (b * s)) + 1 /\ b * s \in Nat
    BY <1>7
  <2> DEFINE u == b * s
  <2> HIDE DEF u, p
  <2>2. u \in Nat /\ p = 2 * (2 * u) + 1
    BY <2>1 DEF u
  <2> QED BY <2>2
<1>9. PICK m \in Int : x + s * e - state[i] = m * Modulus
  BY <1>4 DEF Multiple
<1>10. PICK n \in Int : x + S[j] * e - state[j] = n * Modulus
  BY <1>4 DEF Multiple
<1> HIDE DEF x, e, s, t, p, k, a, c
<1>11. e * (p * t) = (n - m) * Modulus
  <2> DEFINE g == state[i]
             se == s * e
             large == (t * p + s) * e
             mm == m * Modulus
             nm == n * Modulus
             z == e * (p * t)
             d == (n - m) * Modulus
  <2>1. g \in Int /\ se \in Int /\ mm \in Int /\ nm \in Int /\ z \in Int
    BY <1>2, <1>5, <1>6, <1>7, <1>8
  <2>2. x + se - g = mm /\ x + large - g = nm /\ large = z + se /\ d = nm - mm
    BY <1>2, <1>6, <1>7, <1>8, <1>9, <1>10
  <2> HIDE DEF g, se, large, mm, nm, z, d
  <2>3. z = d
    BY <1>2, <2>1, <2>2
  <2> QED BY <2>3 DEF z, d
<1>12. Multiple(t, Modulus)
  <2>1. Bits \in Nat /\ Modulus = 2 ^ Bits
    BY BitsAssumption DEF Modulus
  <2>2. p * t \in Int /\ t \in Int /\ n - m \in Int
    BY <1>7, <1>8
  <2>3. Multiple(e * (p * t), Modulus)
    BY <1>11, <2>2 DEF Multiple
  <2>4. Multiple(p * t, Modulus)
    BY <1>6, <2>1, <2>2, <2>3, OddCancels, Zenon
  <2> QED BY <1>8, <2>1, <2>2, <2>4, OddCancels, Zenon
<1>13. Multiple(k, Modulus)
  <2>1. Bits \in Nat /\ Modulus = 2 ^ Bits
    BY BitsAssumption DEF Modulus
  <2>2. Sums(S, 4 * b + 1, last)
    BY <1>3 DEF a
  <2>3. \A w \in Nat : \A l \in 0 .. last : Multiple(S[l], 2 ^ w) => Multiple(l, 2 ^ w)
    BY <2>2, SumMultiple, Zenon
  <2> QED BY <1>1, <1>12, <2>1, <2>3, Zenon DEF t
<1>14. PICK q \in Int : k = q * Modulus
  BY <1>13 DEF Multiple
<1>15. q >= 1 => q * Modulus >= Modulus
  BY <1>2
<1>16. q <= 0 => q * Modulus <= 0
  BY <1>2
<1> QED BY <1>1, <1>2, <1>14, <1>15, <1>16

\* The k-th of a set of numbers is there if the set has as many.
LEMMA KthFacts ==
  ASSUME NEW N \in Nat, NEW W, W \subseteq 0 .. N, NEW k \in Nat, k # 0, k <= Cardinality(W)
  PROVE  /\ Kth(W, k) \in W
         /\ Cardinality({m \in W : m <= Kth(W, k)}) = k
<1> DEFINE Upto(i) == {m \in W : m <= i}
           C(i) == Cardinality(Upto(i))
           X == {i \in 0 .. N : C(i) >= k}
<1>1. IsFiniteSet(W) /\ W \subseteq Nat
  <2>1. IsFiniteSet(0 .. N)
    BY FS_Interval, 0 \in Int, N \in Int, Zenon
  <2>2. W \in SUBSET (0 .. N)
    OBVIOUS
  <2>3. IsFiniteSet(W)
    BY <2>1, <2>2, FS_Subset, Zenon
  <2> QED BY <2>3
<1>2. \A i : IsFiniteSet(Upto(i)) /\ C(i) \in Nat
  <2> SUFFICES ASSUME NEW i PROVE IsFiniteSet(Upto(i)) /\ C(i) \in Nat
    OBVIOUS
  <2>1. Upto(i) \in SUBSET W
    OBVIOUS
  <2>2. IsFiniteSet(Upto(i))
    BY <1>1, <2>1, FS_Subset, Zenon
  <2> QED BY <2>2, FS_CardinalityType, Zenon
<1>3. N \in X
  <2>1. \A m \in W : m <= N
    OBVIOUS
  <2>2. Upto(N) = W
    BY <2>1, Zenon
  <2> QED BY <2>2
<1> HIDE DEF X
<1>4. PICK i \in X : \A j \in X : ~(j < i)
  <2>1. X \subseteq Nat /\ X # {}
    BY <1>3 DEF X
  <2> QED BY <2>1, LeastNumber
<1>5. i \in 0 .. N /\ C(i) >= k
  BY <1>4 DEF X
<1>6. C(i - 1) < k
  <2>1. CASE i = 0
    <3>1. \A m \in W : ~(m <= i - 1)
      BY <1>1, <2>1
    <3>2. Upto(i - 1) = {}
      BY <3>1, Zenon
    <3>3. C(i - 1) = 0
      BY <3>2, FS_EmptySet, Zenon
    <3> QED BY <3>3
  <2>2. CASE i # 0
    <3>1. i - 1 \in 0 .. N /\ i - 1 < i
      BY <1>5, <2>2
    <3>2. i - 1 \notin X
      BY <1>4, <3>1
    <3>3. ~(C(i - 1) >= k)
      BY <3>1, <3>2 DEF X
    <3>4. C(i - 1) \in Nat
      BY <1>2
    <3> HIDE DEF C
    <3> QED BY <3>3, <3>4
  <2> QED BY <2>1, <2>2
<1>7. i \in W
  <2> SUFFICES ASSUME i \notin W PROVE FALSE
    OBVIOUS
  <2>1. \A m \in W : m <= i <=> m <= i - 1
    BY <1>1, <1>5
  <2>2. Upto(i) = Upto(i - 1)
    BY <2>1, Zenon
  <2>3. C(i) = C(i - 1) /\ C(i) \in Nat
    BY <1>2, <2>2
  <2> HIDE DEF C
  <2> QED BY <1>5, <1>6, <2>3
<1>8. C(i) = k
  <2>1. Upto(i) = Upto(i - 1) \cup {i}
    <3>1. \A m \in W : m <= i <=> m <= i - 1 \/ m = i
      BY <1>1, <1>5
    <3> QED BY <1>7, <3>1, Zenon
  <2>2. i \notin Upto(i - 1)
    BY <1>5
  <2>3. C(i) = C(i - 1) + 1
    BY <1>2, <2>1, <2>2, FS_AddElement
  <2>4. C(i - 1) \in Nat
    BY <1>2
  <2> HIDE DEF C
  <2> QED BY <1>5, <1>6, <2>3, <2>4
<1>9. \E n \in W : Cardinality({m \in W : m <= n}) = k
  BY <1>7, <1>8
<1> QED BY <1>9 DEF Kth

\* So a list of the states with numbers in a set of k or more.
LEMMA Listed ==
  ASSUME NEW N \in Nat, NEW W, W \subseteq 0 .. N, NEW count \in Nat, count <= Cardinality(W)
  PROVE  /\ \A k \in 1 .. count : Kth(W, k) \in W
         /\ \A k, l \in 1 .. count : k # l => Kth(W, k) # Kth(W, l)
<1>1. ASSUME NEW k \in 1 .. count
      PROVE  Kth(W, k) \in W /\ Cardinality({m \in W : m <= Kth(W, k)}) = k
  <2>1. Cardinality(W) \in Nat
    <3>1. W \in SUBSET (0 .. N) /\ 0 \in Int /\ N \in Int
      OBVIOUS
    <3> QED BY <3>1, FS_Interval, FS_Subset, FS_CardinalityType, Zenon
  <2>2. k \in Nat /\ k # 0 /\ k <= Cardinality(W)
    BY <2>1
  <2> QED BY <2>2, KthFacts, Zenon
<1> QED BY <1>1, Zenon

\* Two zeros never follow each other, so at least every second state is a seed.
LEMMA EnoughStates ==
  ASSUME NEW a \in Nat, NEW h \in Nat, NEW base \in Nat, NEW count \in Nat,
         NEW state, States(state, a, 2 * h + 1, base, 2 * count)
  PROVE  Cardinality({i \in 0 .. 2 * count : state[i] # 0}) >= count
<1> DEFINE N == 2 * count
           I == 0 .. N
           W == {i \in I : state[i] # 0}
           Z == {i \in 0 .. N - 1 : state[i] = 0}
           f == [i \in Z |-> i + 1]
<1>1. Modulus \in Nat /\ Modulus >= 2 /\ \E g \in Nat : Modulus = 2 * g /\ g >= 1
  BY ModulusEven
<1>2. N \in Nat
  OBVIOUS
<1>3. ASSUME NEW i \in Z PROVE i + 1 \in W
  <2>1. i + 1 \in 1 .. N /\ (i + 1) - 1 = i
    OBVIOUS
  <2>2. state[i + 1] = (state[i] * a + (2 * h + 1)) % Modulus
    BY <2>1 DEF States
  <2>3. state[i] * a + (2 * h + 1) = 2 * h + 1
    <3>1. state[i] = 0 /\ 0 * a = 0
      OBVIOUS
    <3> QED BY <3>1
  <2>4. state[i + 1] # 0
    <3> SUFFICES ASSUME (2 * h + 1) % Modulus = 0 PROVE FALSE
      BY <2>2, <2>3
    <3> PICK g \in Nat : Modulus = 2 * g /\ g >= 1
      BY <1>1
    <3> DEFINE q == (2 * h + 1) \div Modulus
    <3>1. q \in Int /\ 2 * h + 1 = q * Modulus + 0
      <4> DEFINE y == 2 * h + 1
      <4>1. y \in Int
        OBVIOUS
      <4> HIDE DEF y
      <4>2. y \div Modulus \in Int /\ y = (y \div Modulus) * Modulus + (y % Modulus)
        BY <1>1, <4>1
      <4> QED BY <4>2 DEF y
    <3> DEFINE u == q * g
    <3>2. u \in Int /\ 2 * h + 1 = 2 * u
      BY <3>1
    <3> HIDE DEF u
    <3> QED BY <3>2
  <2> QED BY <2>1, <2>4
<1>4. IsFiniteSet(I) /\ Cardinality(I) = N + 1
  <2>1. 0 \in Int /\ N \in Int /\ ~(0 > N) /\ N - 0 + 1 = N + 1
    OBVIOUS
  <2>2. IsFiniteSet(0 .. N) /\ Cardinality(0 .. N) = IF 0 > N THEN 0 ELSE N - 0 + 1
    BY <2>1, FS_Interval, Zenon
  <2> QED BY <2>1, <2>2
<1>5. W \subseteq I /\ Z \subseteq I /\ I \subseteq (W \cup Z) \cup {N}
  OBVIOUS
<1>6. f \in [Z -> W] /\ \A i, j \in Z : f[i] = f[j] => i = j
  BY <1>3
<1> HIDE DEF W, Z, I, f, N
<1>7. IsFiniteSet(W) /\ IsFiniteSet(Z)
  BY <1>4, <1>5, FS_Subset, Zenon
<1>8. Cardinality(Z) <= Cardinality(W)
  <2>1. f \in Injection(Z, W)
    <3>1. DOMAIN f = Z
      BY <1>6
    <3> QED BY <1>6, <3>1, Zenon DEF Injection, IsInjective
  <2> QED BY <1>7, <2>1, FS_Injection, Zenon
<1>9. Cardinality(I) <= Cardinality(W) + Cardinality(Z) + 1
  <2> DEFINE A == W \cup Z
             B == A \cup {N}
  <2>1. /\ IsFiniteSet(A)
        /\ Cardinality(A) = Cardinality(W) + Cardinality(Z) - Cardinality(W \cap Z)
    BY <1>7, FS_Union, Zenon
  <2>2. IsFiniteSet(W \cap Z)
    <3>1. W \cap Z \in SUBSET W
      OBVIOUS
    <3> QED BY <1>7, <3>1, FS_Subset, Zenon
  <2>3. IsFiniteSet(B) /\ Cardinality(B) = IF N \in A THEN Cardinality(A) ELSE Cardinality(A) + 1
    BY <2>1, FS_AddElement, Zenon
  <2>4. Cardinality(I) <= Cardinality(B)
    <3>1. I \in SUBSET B
      BY <1>5
    <3> QED BY <2>3, <3>1, FS_Subset, Zenon
  <2>5. /\ Cardinality(W) \in Nat /\ Cardinality(Z) \in Nat /\ Cardinality(W \cap Z) \in Nat
        /\ Cardinality(A) \in Nat /\ Cardinality(B) \in Nat /\ Cardinality(I) \in Nat
    BY <1>4, <1>7, <2>1, <2>2, <2>3, FS_CardinalityType, Zenon
  <2> DEFINE ca == Cardinality(A)
             cb == Cardinality(B)
             ci == Cardinality(I)
             cw == Cardinality(W)
             cz == Cardinality(Z)
             cm == Cardinality(W \cap Z)
  <2>6. ca = cw + cz - cm /\ (cb = ca \/ cb = ca + 1) /\ ci <= cb
        /\ cw \in Nat /\ cz \in Nat /\ cm \in Nat /\ ca \in Nat /\ cb \in Nat /\ ci \in Nat
    BY <2>1, <2>3, <2>4, <2>5, Zenon
  <2> HIDE DEF ca, cb, ci, cw, cz, cm
  <2>7. ci <= cw + cz + 1
    BY <2>6
  <2> QED BY <2>7 DEF ci, cw, cz
<1>10. Cardinality(W) \in Nat /\ Cardinality(Z) \in Nat
  BY <1>7, FS_CardinalityType, Zenon
<1> DEFINE w == Cardinality(W)
           z == Cardinality(Z)
<1>11. w \in Nat /\ z \in Nat /\ z <= w /\ 2 * count + 1 <= w + z + 1
  BY <1>4, <1>8, <1>9, <1>10 DEF N
<1> HIDE DEF w, z
<1>12. w >= count
  BY <1>11
<1> QED BY <1>12 DEF w, W, I, N

\* Within a period at most one state is no seed.
LEMMA PeriodStates ==
  ASSUME NEW last \in Nat, Modulus - 1 <= last, NEW state,
         \A i, j \in 0 .. last : i < j /\ j - i < Modulus => state[i] # state[j]
  PROVE  Cardinality({i \in 0 .. Modulus - 1 : state[i] # 0}) >= Modulus - 1
<1> DEFINE I == 0 .. Modulus - 1
           W == {i \in I : state[i] # 0}
<1>1. Modulus \in Nat /\ Modulus >= 2
  BY ModulusEven
<1>2. IsFiniteSet(I) /\ Cardinality(I) = Modulus
  <2>1. 0 \in Int /\ Modulus - 1 \in Int /\ ~(0 > Modulus - 1) /\ (Modulus - 1) - 0 + 1 = Modulus
    BY <1>1
  <2>2. IsFiniteSet(0 .. Modulus - 1)
        /\ Cardinality(0 .. Modulus - 1) = IF 0 > Modulus - 1 THEN 0 ELSE (Modulus - 1) - 0 + 1
    BY <2>1, FS_Interval, Zenon
  <2> QED BY <2>1, <2>2
<1>3. \A i, j \in I : state[i] = 0 /\ state[j] = 0 => i = j
  <2> SUFFICES ASSUME NEW i \in I, NEW j \in I, state[i] = 0, state[j] = 0, i < j \/ j < i
               PROVE  FALSE
    BY <1>1
  <2>1. i \in 0 .. last /\ j \in 0 .. last /\ i - j < Modulus /\ j - i < Modulus
    BY <1>1
  <2> QED BY <2>1
<1>4. \E z : I \ {z} \subseteq W
  <2>1. CASE \E z \in I : state[z] = 0
    BY <1>3, <2>1
  <2>2. CASE ~ \E z \in I : state[z] = 0
    BY <2>2
  <2> QED BY <2>1, <2>2
<1>5. PICK z : I \ {z} \subseteq W
  BY <1>4
<1>6. W \subseteq I
  OBVIOUS
<1> HIDE DEF I, W
<1>7. IsFiniteSet(W)
  BY <1>2, <1>6, FS_Subset, Zenon
<1>8. /\ IsFiniteSet(I \ {z})
      /\ Cardinality(I \ {z}) = IF z \in I THEN Cardinality(I) - 1 ELSE Cardinality(I)
  BY <1>2, FS_RemoveElement, Zenon
<1>9. Cardinality(I \ {z}) <= Cardinality(W) /\ Cardinality(W) \in Nat
  <2>1. I \ {z} \in SUBSET W
    BY <1>5
  <2> QED BY <1>7, <2>1, FS_Subset, FS_CardinalityType, Zenon
<1>10. Cardinality(W) >= Modulus - 1
  BY <1>1, <1>2, <1>8, <1>9
<1> QED BY <1>10 DEF W, I

\* 25173 = 4 * 6293 + 1, 1664525 = 4 * 416131 + 1; both increments are odd.
LEMMA SoakDraws ==
  ASSUME NEW base \in Nat, NEW count \in Nat
  PROVE  Draws(SoakSeeds(base, count), count)
<1> DEFINE N == 2 * count
           e == 6293
           o == 6924
           a == 25173
           c == 13849
           state == Lcg(a, c, base, N)
           W == {i \in 0 .. N : state[i] # 0}
           list == SoakSeeds(base, count)
<1>0. e \in Nat /\ o \in Nat /\ a \in Nat /\ c \in Nat /\ a = 4 * e + 1 /\ c = 2 * o + 1
  BY SMT
<1>2. list = [k \in 1 .. count |-> state[Kth(W, k)]]
  BY SMT DEF SoakSeeds
<1> HIDE DEF e, o, a, c
<1>1. States(state, 4 * e + 1, 2 * o + 1, base, N)
  <2>1. N \in Nat
    OBVIOUS
  <2> HIDE DEF N
  <2> QED BY <1>0, <2>1, LcgStates, Zenon
<1> HIDE DEF state, list
<1>3. N \in Nat /\ W \subseteq 0 .. N /\ count <= Cardinality(W)
  <2>1. 4 * e + 1 \in Nat /\ o \in Nat
    BY <1>0
  <2>2. Cardinality(W) >= count
    <3>1. States(state, 4 * e + 1, 2 * o + 1, base, 2 * count)
      BY <1>1
    <3>2. Cardinality({i \in 0 .. 2 * count : state[i] # 0}) >= count
      <4> HIDE DEF N, W
      <4> QED BY <2>1, <3>1, EnoughStates, SMT
    <3> QED BY <3>2
  <2>3. IsFiniteSet(W)
    <3>1. W \in SUBSET (0 .. N) /\ 0 \in Int /\ N \in Int
      OBVIOUS
    <3> QED BY <3>1, FS_Interval, FS_Subset, Zenon
  <2>4. Cardinality(W) \in Nat
    BY <2>3, FS_CardinalityType, Zenon
  <2> DEFINE w == Cardinality(W)
  <2>5. w \in Nat /\ w >= count
    BY <2>2, <2>4
  <2> HIDE DEF w
  <2>6. count <= w
    BY <2>5
  <2> QED BY <2>6 DEF w
<1>4. \A i, j \in 0 .. N : i < j /\ j - i < Modulus => state[i] # state[j]
  <2>1. N \in Nat
    OBVIOUS
  <2> HIDE DEF N
  <2> QED BY <1>0, <1>1, <2>1, FullPeriod, Zenon
<1>5. Modulus \in Nat /\ Modulus >= 2
  BY ModulusEven
<1>6. \A i \in W : i \in 0 .. N /\ state[i] \in Seeds \ {0}
  <2>1. \A i \in 0 .. N : state[i] \in 0 .. Modulus - 1
    BY <1>1, Zenon DEF States
  <2>2. 0 .. Modulus - 1 \subseteq Seeds
    BY <1>5 DEF Seeds
  <2> QED BY <2>1, <2>2
<1>7. /\ \A k \in 1 .. count : Kth(W, k) \in W
      /\ \A k, l \in 1 .. count : k # l => Kth(W, k) # Kth(W, l)
  <2> HIDE DEF W, N
  <2> QED BY <1>3, Listed, Zenon
<1>8. list \in [1 .. count -> Seeds \ {0}]
  BY <1>2, <1>6, <1>7
<1>9. ASSUME count < Modulus, NEW k \in 1 .. count
      PROVE  Kth(W, k) < Modulus
  <2> DEFINE p == Kth(W, k)
             V == {i \in 0 .. Modulus - 1 : state[i] # 0}
             U == {m \in W : m <= p}
  <2>1. p \in W /\ Cardinality(U) = k
    <3>1. k \in Nat /\ k # 0
      OBVIOUS
    <3>2. k <= Cardinality(W)
      <4>1. IsFiniteSet(W)
        <5>1. W \in SUBSET (0 .. N) /\ 0 \in Int /\ N \in Int
          OBVIOUS
        <5> QED BY <5>1, FS_Interval, FS_Subset, Zenon
      <4>2. Cardinality(W) \in Nat
        BY <4>1, FS_CardinalityType, Zenon
      <4> HIDE DEF W
      <4> QED BY <1>3, <4>2
    <3> HIDE DEF W, N
    <3> QED BY <1>3, <3>1, <3>2, KthFacts, Zenon
  <2>2. SUFFICES ASSUME p >= Modulus PROVE FALSE
    BY <1>5, <1>6, <2>1
  <2>3. p \in 0 .. N /\ Modulus - 1 <= N
    BY <1>5, <1>6, <2>1, <2>2
  <2>4. Cardinality(V) >= Modulus - 1
    <3>1. N \in Nat
      OBVIOUS
    <3> HIDE DEF N
    <3> QED BY <1>4, <2>3, <3>1, PeriodStates, Zenon
  <2>5. V \cup {p} \subseteq U /\ p \notin V
    BY <1>5, <2>1, <2>2, <2>3
  <2>6. IsFiniteSet(V) /\ IsFiniteSet(U)
    <3>1. V \in SUBSET (0 .. N) /\ U \in SUBSET (0 .. N) /\ 0 \in Int /\ N \in Int
      BY <1>5, <2>3
    <3> QED BY <3>1, FS_Interval, FS_Subset, Zenon
  <2> HIDE DEF V, U, p, W
  <2>7. IsFiniteSet(V \cup {p}) /\ Cardinality(V \cup {p}) = Cardinality(V) + 1
    BY <2>5, <2>6, FS_AddElement, Zenon
  <2>8. Cardinality(V \cup {p}) <= Cardinality(U)
    <3>1. V \cup {p} \in SUBSET U
      BY <2>5
    <3> QED BY <2>6, <3>1, FS_Subset, Zenon
  <2>9. Cardinality(V) \in Nat
    BY <2>6, FS_CardinalityType, Zenon
  <2>10. k >= Modulus
    BY <1>5, <2>1, <2>4, <2>7, <2>8, <2>9
  <2> QED BY <1>5, <1>9, <2>10
<1>10. ASSUME count < Modulus, NEW k \in 1 .. count, NEW l \in 1 .. count, k # l
       PROVE  list[k] # list[l]
  <2> DEFINE p == Kth(W, k)
             q == Kth(W, l)
  <2>1. p \in 0 .. N /\ q \in 0 .. N /\ p # q /\ p < Modulus /\ q < Modulus
    BY <1>6, <1>7, <1>9, <1>10
  <2>2. list[k] = state[p] /\ list[l] = state[q]
    BY <1>2
  <2> HIDE DEF p, q
  <2>3. p < q \/ q < p
    BY <2>1
  <2>4. p - q < Modulus /\ q - p < Modulus
    BY <1>5, <2>1
  <2> QED BY <1>4, <2>1, <2>2, <2>3, <2>4
<1> QED BY <1>8, <1>10 DEF Draws, list

LEMMA EventDraws ==
  ASSUME NEW base \in Nat, NEW count \in Nat, count < Modulus
  PROVE  Draws(EventSeeds(base, count), count)
<1> DEFINE N == Modulus - 1
           e == 416131
           o == 506952111
           a == 1664525
           c == 1013904223
           state == Lcg(a, c, base, N)
           W == {i \in 0 .. N : state[i] # 0}
           fresh == {i \in 0 .. N : state[i] # 0 /\ \A j \in 0 .. i - 1 : state[j] # state[i]}
           list == EventSeeds(base, count)
<1>1. Modulus \in Nat /\ Modulus >= 2 /\ N \in Nat
  BY ModulusEven
<1>0. e \in Nat /\ o \in Nat /\ a \in Nat /\ c \in Nat /\ a = 4 * e + 1 /\ c = 2 * o + 1
  BY SMT
<1>3. list = [k \in 1 .. count |-> state[Kth(fresh, k)]]
  BY SMT DEF EventSeeds
<1> HIDE DEF e, o, a, c
<1>2. States(state, 4 * e + 1, 2 * o + 1, base, N)
  <2> HIDE DEF N
  <2> QED BY <1>0, <1>1, LcgStates, Zenon
<1> HIDE DEF state, list
<1>4. \A i, j \in 0 .. N : i < j => state[i] # state[j]
  <2>2. \A i, j \in 0 .. N : i < j /\ j - i < Modulus => state[i] # state[j]
    <3> HIDE DEF N
    <3> QED BY <1>0, <1>1, <1>2, FullPeriod, SMTT(60)
  <2>3. \A i, j \in 0 .. N : j - i < Modulus
    BY <1>1
  <2> QED BY <2>2, <2>3, Zenon
<1>5. fresh = W
  <2>1. ASSUME NEW i \in 0 .. N, NEW j \in 0 .. i - 1
        PROVE  state[j] # state[i]
    <3>1. j \in 0 .. N /\ j < i
      BY <1>1
    <3> HIDE DEF N
    <3> QED BY <1>4, <3>1
  <2> QED BY <2>1, Zenon
<1>6. count <= Cardinality(W) /\ W \subseteq 0 .. N
  <2>1. Cardinality(W) >= Modulus - 1
    <3>1. \A i, j \in 0 .. N : i < j /\ j - i < Modulus => state[i] # state[j]
      BY <1>4, Zenon
    <3>2. Modulus - 1 <= N
      BY <1>1
    <3> QED BY <1>1, <3>1, <3>2, PeriodStates, Zenon
  <2>2. W \subseteq 0 .. N
    OBVIOUS
  <2>3. IsFiniteSet(W)
    <3>1. W \in SUBSET (0 .. N) /\ 0 \in Int /\ N \in Int
      BY <1>1
    <3> QED BY <3>1, FS_Interval, FS_Subset, Zenon
  <2>4. Cardinality(W) \in Nat
    BY <2>3, FS_CardinalityType, Zenon
  <2> HIDE DEF W
  <2>5. count <= Cardinality(W)
    BY <1>1, <2>1, <2>4
  <2> QED BY <2>2, <2>5
<1>7. \A i \in W : i \in 0 .. N /\ state[i] \in Seeds \ {0}
  <2>1. \A i \in 0 .. N : state[i] \in 0 .. Modulus - 1
    BY <1>2, Zenon DEF States
  <2>2. 0 .. Modulus - 1 \subseteq Seeds
    BY <1>1 DEF Seeds
  <2> QED BY <2>1, <2>2
<1>8. list = [k \in 1 .. count |-> state[Kth(W, k)]]
  BY <1>3, <1>5, Zenon
<1> HIDE DEF W, fresh, N
<1>9. /\ \A k \in 1 .. count : Kth(W, k) \in W
      /\ \A k, l \in 1 .. count : k # l => Kth(W, k) # Kth(W, l)
  BY <1>1, <1>6, Listed, Zenon
<1>10. list \in [1 .. count -> Seeds \ {0}]
  BY <1>7, <1>8, <1>9
<1>11. ASSUME NEW k \in 1 .. count, NEW l \in 1 .. count, k # l
       PROVE  list[k] # list[l]
  <2> DEFINE p == Kth(W, k)
             q == Kth(W, l)
  <2>1. p \in 0 .. N /\ q \in 0 .. N /\ p # q
    BY <1>7, <1>9, <1>11
  <2>2. list[k] = state[p] /\ list[l] = state[q]
    BY <1>8
  <2> HIDE DEF p, q
  <2>3. p < q \/ q < p
    BY <1>1, <2>1
  <2> QED BY <1>4, <2>1, <2>2, <2>3
<1> QED BY <1>10, <1>11 DEF Draws, list

\* For every width of a seed, every base and every number asked for, the lists
\* of soak and random events are seeds and not zero, and no seed comes twice as
\* long as there are enough of them: both generators have full period.
THEOREM SeedsAreDrawn ==
  ASSUME NEW base \in Nat, NEW count \in Nat
  PROVE  /\ Draws(SoakSeeds(base, count), count)
         /\ count < Modulus => Draws(EventSeeds(base, count), count)
BY SoakDraws, EventDraws, Zenon

-----------------------------------------------------------------------------
(* The campaigns.  What a list of results says is true of the simulator as    *)
(* it has behaved, and stays so: how a seed behaves is fixed when it first    *)
(* runs.                                                                     *)

Prints == Signatures \cup {"pass", "thin", "timeout"}
Entry == [seed: Seeds, output: Prints]

\* The simulator, as m has it, prints these results.
Shown(entries, m) == \A i \in 1 .. Len(entries) :
  m[entries[i].seed] \in Behaviours
  /\ entries[i].output \in Outputs(m[entries[i].seed])

NoZeros(entries) == \A i \in 1 .. Len(entries) : entries[i].seed # 0

Distinct(entries) == \A i, j \in 1 .. Len(entries) :
  i # j => entries[i].seed # entries[j].seed

Logged(entries, disk) ==
  \A i \in 1 .. Len(entries) : disk[entries[i].seed] = entries[i].output

\* No seed is taken twice: always so but for a soak longer than the period.
Few(asked) == harness = "random" \/ asked < Modulus

RunType == [asked: Nat, seeds: Seq(Seeds), instructions: {64, 256},
            grade: BOOLEAN, entries: Seq(Entry)]

\* The results so far are those of the first seeds of a list that Draws.
RunOK ==
  /\ run \in RunType
  /\ Len(run.seeds) = run.asked /\ Len(run.entries) <= run.asked
  /\ harness = "events" => run.asked < Modulus
  /\ harness # "random" => \A i \in 1 .. run.asked : run.seeds[i] # 0
  /\ Few(run.asked) =>
       \A i, j \in 1 .. run.asked : i # j => run.seeds[i] # run.seeds[j]
  /\ run.grade = (run.asked >= Release /\ run.instructions >= 256)
  /\ \A i \in 1 .. Len(run.entries) : run.entries[i].seed = run.seeds[i]
  /\ Shown(run.entries, says)
  /\ phase = "running" => AllPassed(run.entries)
  /\ harness # "soak" => Logged(run.entries, logs)

ReportOK ==
  /\ report.entries \in Seq(Entry)
  /\ Shown(report.entries, says)
  /\ harness # "random" => NoZeros(report.entries)

\* What a campaign that passed has left.
PassedOK ==
  /\ report # NoReport /\ phase = "idle"
  /\ report.status = "passed" /\ report.failure = NoFailure
  /\ report.asked \in Nat /\ Len(report.entries) = report.asked
  /\ AllPassed(report.entries) /\ Covered(report.entries)
  /\ report.grade = (report.asked >= Release /\ report.instructions >= 256)
  /\ Few(report.asked) => Distinct(report.entries)
  /\ harness # "soak" => Logged(report.entries, logs)

CampaignInv ==
  /\ harness \in {"soak", "events", "random"}
  /\ says \in [Seeds -> Behaviours \cup {"unknown"}]
  /\ logs \in [Seeds -> Prints \cup {"none"}]
  /\ phase # "idle" => RunOK
  /\ report # NoReport => ReportOK
  /\ verdict = "passed" => PassedOK
  /\ verdict = "failed" =>
       phase = "idle" /\ report # NoReport /\ report.status = "failed"

LEMMA SignatureFacts ==
  /\ "unknown" \notin Behaviours
  /\ \A b \in Behaviours : Outputs(b) \subseteq Prints
  /\ "pass" \notin Signatures /\ "thin" \notin Signatures
BY SignaturesAssumption DEF Behaviours, Outputs, Prints

\* One execution: its output is one of the seed's, and what was known stays.
LEMMA ExecuteFacts ==
  ASSUME says \in [Seeds -> Behaviours \cup {"unknown"}],
         NEW s \in Seeds, NEW out, Execute(s, out)
  PROVE  /\ says' \in [Seeds -> Behaviours \cup {"unknown"}]
         /\ says'[s] \in Behaviours /\ out \in Outputs(says'[s]) /\ out \in Prints
         /\ \A x \in Seeds : says[x] \in Behaviours => says'[x] = says[x]
<1>1. PICK b \in Behaviours :
        /\ says[s] \in {"unknown", b} /\ out \in Outputs(b)
        /\ says' = [says EXCEPT ![s] = b]
  BY DEF Execute
<1> QED BY <1>1, SignatureFacts

\* So results that were shown are shown still.
LEMMA ShownStays ==
  ASSUME NEW m \in [Seeds -> Behaviours \cup {"unknown"}],
         NEW n \in [Seeds -> Behaviours \cup {"unknown"}],
         \A x \in Seeds : m[x] \in Behaviours => n[x] = m[x],
         NEW entries \in Seq(Entry), Shown(entries, m)
  PROVE  Shown(entries, n)
<1>1. ASSUME NEW i \in 1 .. Len(entries)
      PROVE  entries[i].seed \in Seeds
  <2>1. entries[i] \in Entry
    OBVIOUS
  <2> QED BY <2>1 DEF Entry
<1> QED BY <1>1 DEF Shown

\* The results of a run carry over to the report that is written of it.
LEMMA WrittenFacts ==
  ASSUME NEW status, NEW r \in RunType
  PROVE  LET w == Written(status, r)
         IN  /\ w.status = status /\ w.asked = r.asked /\ w.grade = r.grade
             /\ w.instructions = r.instructions /\ w.entries = r.entries
             /\ w.failure = NoFailure
BY DEF Written, RunType

LEMMA RunNoZeros ==
  ASSUME RunOK, harness # "random"
  PROVE  NoZeros(run.entries)
BY DEF RunOK, NoZeros, RunType

LEMMA RunDistinct ==
  ASSUME RunOK, Few(run.asked)
  PROVE  Distinct(run.entries)
BY DEF RunOK, Distinct, RunType

LEMMA CampaignInitKeeps == CampaignInit => CampaignInv
<1> SUFFICES ASSUME CampaignInit PROVE CampaignInv
  OBVIOUS
<1> QED BY DEF CampaignInit, CampaignInv

\* A campaign is announced.
LEMMA AnnounceKeeps ==
  ASSUME CampaignInv, NEW asked \in Asks, NEW base \in Bases,
         NEW instructions \in {64, 256}, Announce(asked, base, instructions)
  PROVE  CampaignInv'
<1> DEFINE list == SeedList(base, asked)
<1>1. asked \in Nat /\ asked # 0 /\ base \in Nat
  BY AsksAssumption
<1>2. /\ list \in [1 .. asked -> Seeds]
      /\ harness # "random" => \A i \in 1 .. asked : list[i] # 0
      /\ Few(asked) => \A i, j \in 1 .. asked : i # j => list[i] # list[j]
  <2>1. CASE harness = "soak"
    <3>1. list = SoakSeeds(base, asked)
      BY <2>1 DEF SeedList
    <3>2. Draws(SoakSeeds(base, asked), asked)
      BY <1>1, SoakDraws, Zenon
    <3> HIDE DEF list
    <3>3. Draws(list, asked)
      BY <3>1, <3>2
    <3> QED BY <2>1, <3>3 DEF Draws, Few
  <2>2. CASE harness = "events"
    <3>1. asked < Modulus
      BY <2>2 DEF Announce
    <3>2. list = EventSeeds(base, asked)
      BY <2>2 DEF SeedList
    <3>3. Draws(EventSeeds(base, asked), asked)
      BY <1>1, <3>1, EventDraws, Zenon
    <3> HIDE DEF list
    <3>4. Draws(list, asked)
      BY <3>2, <3>3
    <3> QED BY <2>2, <3>4 DEF Draws, Few
  <2>3. CASE harness = "random"
    <3>1. list = [i \in 1 .. asked |-> base + i - 1]
      BY <2>3 DEF SeedList
    <3>2. \A i \in 1 .. asked : base + i - 1 \in Seeds
      BY SeedsAssumption
    <3> HIDE DEF list
    <3>3. list \in [1 .. asked -> Seeds]
      BY <3>1, <3>2
    <3>4. \A i, j \in 1 .. asked : i # j => list[i] # list[j]
      BY <1>1, <3>1
    <3> QED BY <2>3, <3>3, <3>4
  <2> QED BY <2>1, <2>2, <2>3 DEF CampaignInv
<1> HIDE DEF list
<1>3. run' = [asked |-> asked, seeds |-> list, instructions |-> instructions,
              grade |-> asked >= Release /\ instructions >= 256,
              entries |-> <<>>]
  BY DEF Announce, list
<1>4. list \in Seq(Seeds) /\ Len(list) = asked
  BY <1>1, <1>2
<1>5. /\ run'.asked = asked /\ run'.seeds = list /\ run'.entries = <<>>
      /\ run'.instructions = instructions
      /\ run'.grade = (asked >= Release /\ instructions >= 256)
  BY <1>3
<1>6. run' \in RunType
  <2>1. (asked >= Release /\ instructions >= 256) \in BOOLEAN
    OBVIOUS
  <2>2. <<>> \in Seq(Entry)
    OBVIOUS
  <2> QED BY <1>1, <1>3, <1>4, <2>1, <2>2 DEF RunType
<1>7. /\ phase' = "running" /\ verdict' = "none"
      /\ UNCHANGED <<harness, says>>
      /\ harness = "events" => asked < Modulus
  BY DEF Announce
<1>8. RunOK'
  BY <1>1, <1>2, <1>4, <1>5, <1>6, <1>7
  DEF RunOK, Few, Shown, AllPassed, Logged
<1>9. report' # NoReport => ReportOK'
  <2>1. CASE harness = "events"
    <3>1. report' = report
      BY <2>1 DEF Announce
    <3> QED BY <1>7, <3>1 DEF CampaignInv, ReportOK
  <2>2. CASE harness # "events"
    <3>1. report' = Written("running", run')
      BY <2>2 DEF Announce
    <3>2. report'.entries = <<>>
      BY <1>5, <3>1 DEF Written
    <3> QED BY <3>2 DEF ReportOK, Shown, NoZeros
  <2> QED BY <2>1, <2>2
<1>10. logs' \in [Seeds -> Prints \cup {"none"}]
  <2>1. logs' = logs \/ logs' = [s \in Seeds |-> "none"]
    BY DEF Announce
  <2> QED BY <2>1 DEF CampaignInv
<1> QED BY <1>7, <1>8, <1>9, <1>10 DEF CampaignInv

LEMMA RunUpdate ==
  ASSUME NEW r \in RunType, NEW es \in Seq(Entry), NEW q,
         q = [r EXCEPT !.entries = es]
  PROVE  /\ q \in RunType /\ q.entries = es /\ q.asked = r.asked
         /\ q.seeds = r.seeds /\ q.grade = r.grade
         /\ q.instructions = r.instructions
BY DEF RunType

\* A result joins the results so far.
LEMMA RecordKeeps ==
  ASSUME CampaignInv, MoreSeeds, NEW out, Execute(Current, out),
         run' = Recorded(out), harness' = harness,
         harness = "soak" \/ logs' = [logs EXCEPT ![Current] = out],
         phase' = "running" => Passed(out)
  PROVE  /\ RunOK' /\ run'.entries # <<>>
         /\ run'.entries[Len(run'.entries)] = [seed |-> Current, output |-> out]
         /\ says' \in [Seeds -> Behaviours \cup {"unknown"}]
         /\ \A x \in Seeds : says[x] \in Behaviours => says'[x] = says[x]
         /\ out \in Prints /\ Current \in Seeds
<1> DEFINE n == Len(run.entries)
           entry == [seed |-> Current, output |-> out]
           all == Append(run.entries, entry)
<1>1. RunOK /\ run \in RunType /\ phase = "running" /\ n < run.asked
  BY DEF CampaignInv, MoreSeeds, RunOK
<1>2. /\ run.seeds \in Seq(Seeds) /\ run.entries \in Seq(Entry) /\ run.asked \in Nat
      /\ Len(run.seeds) = run.asked /\ n \in Nat
  BY <1>1 DEF RunType, RunOK
<1>3. Current = run.seeds[n + 1] /\ Current \in Seeds
  BY <1>1, <1>2 DEF Current
<1>4. /\ says' \in [Seeds -> Behaviours \cup {"unknown"}]
      /\ says'[Current] \in Behaviours /\ out \in Outputs(says'[Current])
      /\ out \in Prints
      /\ \A x \in Seeds : says[x] \in Behaviours => says'[x] = says[x]
  BY <1>3, ExecuteFacts DEF CampaignInv
<1>5. entry \in Entry /\ entry.seed = Current /\ entry.output = out
  BY <1>3, <1>4 DEF Entry
<1>6. run' = [run EXCEPT !.entries = all]
  BY DEF Recorded
<1> HIDE DEF entry
<1>6a. all \in Seq(Entry)
  BY <1>2, <1>5
<1> HIDE DEF all
<1>7. /\ run'.entries = all
      /\ run'.asked = run.asked /\ run'.seeds = run.seeds
      /\ run'.grade = run.grade /\ run'.instructions = run.instructions
      /\ run' \in RunType
  BY <1>1, <1>6, <1>6a, RunUpdate
<1>7a. /\ harness = "events" => run'.asked < Modulus
       /\ harness # "random" => \A i \in 1 .. run'.asked : run'.seeds[i] # 0
       /\ Few(run'.asked) =>
            \A i, j \in 1 .. run'.asked : i # j => run'.seeds[i] # run'.seeds[j]
       /\ run'.grade = (run'.asked >= Release /\ run'.instructions >= 256)
  BY <1>1, <1>7 DEF RunOK
<1>8. /\ Len(run'.entries) = n + 1
      /\ \A i \in 1 .. n : run'.entries[i] = run.entries[i]
      /\ run'.entries[n + 1] = entry
      /\ run'.entries # <<>>
  BY <1>2, <1>5, <1>7 DEF all
<1>9. \A i \in 1 .. n + 1 : i \in 1 .. n \/ i = n + 1
  BY <1>2
<1>10. \A i \in 1 .. n : run.entries[i].seed \in Seeds
                         /\ run.entries[i].seed = run.seeds[i]
  <2>1. ASSUME NEW i \in 1 .. n PROVE run.entries[i].seed \in Seeds
    <3>1. run.entries[i] \in Entry
      BY <1>2
    <3> QED BY <3>1 DEF Entry
  <2> QED BY <1>1, <2>1 DEF RunOK
<1>11. \A i \in 1 .. Len(run'.entries) : run'.entries[i].seed = run'.seeds[i]
  BY <1>3, <1>5, <1>7, <1>8, <1>9, <1>10
<1>12. Shown(run.entries, says)
  BY <1>1 DEF RunOK
<1>13. Shown(run'.entries, says')
  <2>1. ASSUME NEW i \in 1 .. n + 1
        PROVE  says'[run'.entries[i].seed] \in Behaviours
               /\ run'.entries[i].output \in Outputs(says'[run'.entries[i].seed])
    <3>1. CASE i \in 1 .. n
      BY <1>4, <1>8, <1>10, <1>12, <3>1 DEF Shown
    <3>2. CASE i = n + 1
      BY <1>4, <1>5, <1>8, <3>2
    <3> QED BY <1>9, <3>1, <3>2
  <2> QED BY <1>8, <2>1 DEF Shown
<1>14. phase' = "running" => AllPassed(run.entries)'
  <2>1. SUFFICES ASSUME Passed(out)
                 PROVE  AllPassed(run.entries)'
    OBVIOUS
  <2>2. AllPassed(run.entries) /\ DOMAIN run.entries = 1 .. n
    BY <1>1, <1>2 DEF RunOK
  <2>3. DOMAIN run'.entries = 1 .. n + 1
    BY <1>2, <1>5, <1>7 DEF all
  <2>4. ASSUME NEW i \in 1 .. n + 1
        PROVE  Passed(run.entries[i].output)'
    <3>1. CASE i \in 1 .. n
      BY <1>8, <2>2, <3>1 DEF AllPassed, Passed
    <3>2. CASE i = n + 1
      BY <1>5, <1>8, <2>1, <3>2 DEF Passed
    <3> QED BY <1>9, <3>1, <3>2
  <2> QED BY <2>3, <2>4 DEF AllPassed
<1>15. harness # "soak" => Logged(run'.entries, logs')
  <2> SUFFICES ASSUME harness # "soak" PROVE Logged(run'.entries, logs')
    OBVIOUS
  <2>1. Few(run.asked)
    BY <1>1 DEF RunOK, CampaignInv, Few
  <2>2. logs' = [logs EXCEPT ![Current] = out] /\ logs \in [Seeds -> Prints \cup {"none"}]
    BY DEF CampaignInv
  <2>3. \A i \in 1 .. n : run.entries[i].seed # Current
    BY <1>1, <1>2, <1>3, <1>10, <2>1 DEF RunOK
  <2>4. ASSUME NEW i \in 1 .. n + 1
        PROVE  logs'[run'.entries[i].seed] = run'.entries[i].output
    <3>1. CASE i \in 1 .. n
      <4>1. logs'[run.entries[i].seed] = logs[run.entries[i].seed]
        BY <1>10, <2>2, <2>3, <3>1
      <4> QED BY <1>1, <1>8, <3>1, <4>1 DEF RunOK, Logged
    <3>2. CASE i = n + 1
      BY <1>3, <1>5, <1>8, <2>2, <3>2
    <3> QED BY <1>9, <3>1, <3>2
  <2> QED BY <1>8, <2>4 DEF Logged
<1>16. Len(run'.entries) <= run'.asked
  BY <1>1, <1>2, <1>7, <1>8
<1>17. RunOK'
  BY <1>1, <1>2, <1>7, <1>11, <1>13, <1>14, <1>15, <1>16, <1>7a DEF RunOK, Few
<1> QED BY <1>3, <1>4, <1>8, <1>17 DEF entry

\* A report that is left alone speaks the truth still.
LEMMA ReportStays ==
  ASSUME report # NoReport => ReportOK,
         says \in [Seeds -> Behaviours \cup {"unknown"}],
         says' \in [Seeds -> Behaviours \cup {"unknown"}],
         \A x \in Seeds : says[x] \in Behaviours => says'[x] = says[x],
         report' = report, harness' = harness
  PROVE  report' # NoReport => ReportOK'
<1> SUFFICES ASSUME report # NoReport PROVE ReportOK'
  OBVIOUS
<1>1. report.entries \in Seq(Entry) /\ Shown(report.entries, says)
  BY DEF ReportOK
<1>2. Shown(report.entries, says')
  BY <1>1, ShownStays
<1> QED BY <1>1, <1>2 DEF ReportOK

\* A report that is written of a run.
LEMMA ReportWritten ==
  ASSUME RunOK, NEW p, p.entries = run.entries
  PROVE  /\ p.entries \in Seq(Entry) /\ Shown(p.entries, says)
         /\ harness # "random" => NoZeros(p.entries)
BY RunNoZeros DEF RunOK, RunType

LEMMA LogsTyped ==
  ASSUME CampaignInv, NEW out \in Prints, logs' = [logs EXCEPT ![Current] = out]
  PROVE  logs' \in [Seeds -> Prints \cup {"none"}]
BY DEF CampaignInv

\* A seed passed, or failed and the campaign goes on to minimize or report.
LEMMA SeedKeeps ==
  ASSUME CampaignInv, NEW out,
         SeedPasses(out) \/ SoakSeedFails(out) \/ EventSeedFails(out)
  PROVE  CampaignInv'
<1>1. /\ MoreSeeds /\ Execute(Current, out) /\ run' = Recorded(out)
      /\ harness' = harness
      /\ harness = "soak" \/ logs' = [logs EXCEPT ![Current] = out]
      /\ logs' = logs \/ logs' = [logs EXCEPT ![Current] = out]
      /\ phase' = "running" => Passed(out)
      /\ report' = report \/ report' = Written("running", run')
      /\ verdict' = verdict
  BY DEF SeedPasses, SoakSeedFails, EventSeedFails
<1>2. /\ RunOK' /\ says' \in [Seeds -> Behaviours \cup {"unknown"}]
      /\ \A x \in Seeds : says[x] \in Behaviours => says'[x] = says[x]
      /\ out \in Prints
  BY <1>1, RecordKeeps
<1>3. logs' \in [Seeds -> Prints \cup {"none"}]
  BY <1>1, <1>2, LogsTyped DEF CampaignInv
<1>4. report' # NoReport => ReportOK'
  <2>1. CASE report' = report
    BY <1>1, <1>2, <2>1, ReportStays DEF CampaignInv
  <2>2. CASE report' = Written("running", run')
    <3>1. report'.entries = run'.entries
      BY <2>2 DEF Written
    <3>2. run'.entries \in Seq(Entry) /\ Shown(run'.entries, says')
          /\ (harness # "random" => NoZeros(run'.entries))
      <4>1. RunOK' => run'.entries \in Seq(Entry) /\ Shown(run'.entries, says')
        BY DEF RunOK, RunType
      <4>2. harness' # "random" => NoZeros(run'.entries)
        BY <1>2 DEF RunOK, RunType, NoZeros
      <4> QED BY <1>1, <1>2, <4>1, <4>2
    <3> QED BY <1>1, <3>1, <3>2 DEF ReportOK
  <2> QED BY <1>1, <2>1, <2>2
<1>5. verdict' # "passed" /\ verdict' # "failed"
  BY <1>1 DEF CampaignInv, PassedOK, MoreSeeds
<1> QED BY <1>1, <1>2, <1>3, <1>4, <1>5 DEF CampaignInv

\* Nothing but what the simulator is known to do changes.
LEMMA RunStays ==
  ASSUME RunOK,
         says \in [Seeds -> Behaviours \cup {"unknown"}],
         says' \in [Seeds -> Behaviours \cup {"unknown"}],
         \A x \in Seeds : says[x] \in Behaviours => says'[x] = says[x],
         UNCHANGED <<run, harness, logs, phase>>
  PROVE  RunOK'
<1>1. run.entries \in Seq(Entry) /\ Shown(run.entries, says)
  BY DEF RunOK, RunType
<1>2. Shown(run.entries, says')
  BY <1>1, ShownStays
<1> QED BY <1>2 DEF RunOK, AllPassed, Passed, Few

\* minimize tries a bit: all it leaves in the model is what it learns.
LEMMA TryBitKeeps ==
  ASSUME CampaignInv, TryBit
  PROVE  CampaignInv'
<1> DEFINE candidate == ClearBit(search.seed, search.bit - 1)
<1>1. /\ phase = "minimizing"
      /\ UNCHANGED <<harness, phase, run, report, logs, verdict, campaigns>>
      /\ says' = says \/ \E out : Execute(candidate, out)
  BY DEF TryBit
<1> HIDE DEF candidate
<1>2. /\ says' \in [Seeds -> Behaviours \cup {"unknown"}]
      /\ \A x \in Seeds : says[x] \in Behaviours => says'[x] = says[x]
  <2>1. CASE says' = says
    BY <2>1 DEF CampaignInv
  <2>2. CASE \E out : Execute(candidate, out)
    <3>1. PICK b \in Behaviours : /\ says[candidate] \in {"unknown", b}
                                  /\ says' = [says EXCEPT ![candidate] = b]
      BY <2>2 DEF Execute
    <3> QED BY <3>1, SignatureFacts DEF CampaignInv
  <2> QED BY <1>1, <2>1, <2>2
<1>3. RunOK'
  BY <1>1, <1>2, RunStays DEF CampaignInv
<1>4. report' # NoReport => ReportOK'
  BY <1>1, <1>2, ReportStays DEF CampaignInv
<1>5. verdict' # "passed" /\ verdict' # "failed"
  BY <1>1 DEF CampaignInv, PassedOK
<1> QED BY <1>1, <1>2, <1>3, <1>4, <1>5 DEF CampaignInv

\* A run that ends with a report of its results.
LEMMA ReportKeeps ==
  ASSUME CampaignInv, phase # "idle", NEW status, Return(status),
         status = "failed" \/ (status = "passed" /\ PassedOK'),
         report' # NoReport, report'.status = status,
         report'.entries = run.entries,
         UNCHANGED <<harness, says, logs>>
  PROVE  CampaignInv'
<1>1. phase' = "idle" /\ verdict' = status
  BY DEF Return
<1>2. RunOK
  BY DEF CampaignInv
<1>3. run.entries \in Seq(Entry) /\ Shown(run.entries, says)
  BY <1>2 DEF RunOK, RunType
<1>4. harness # "random" => NoZeros(run.entries)
  BY <1>2, RunNoZeros
<1>5. ReportOK'
  BY <1>3, <1>4 DEF ReportOK
<1> QED BY <1>1, <1>5 DEF CampaignInv

\* A reproducer was found.
LEMMA ReproduceKeeps ==
  ASSUME CampaignInv, Reproduce
  PROVE  CampaignInv'
<1>1. /\ phase # "idle" /\ Return("failed") /\ report'.status = "failed"
      /\ report'.entries = run.entries
      /\ UNCHANGED <<harness, says, logs>>
  BY DEF Reproduce, Written
<1>2. report' # NoReport
  BY <1>1 DEF NoReport
<1> QED BY <1>1, <1>2, ReportKeeps

\* A constrained-random seed failed.
LEMMA RandomSeedFailsKeeps ==
  ASSUME CampaignInv, NEW out, RandomSeedFails(out)
  PROVE  CampaignInv'
<1>1. /\ MoreSeeds /\ Execute(Current, out) /\ report' = Written("failed", run)
      /\ Return("failed") /\ UNCHANGED <<harness, logs>>
  BY DEF RandomSeedFails
<1>2. RunOK /\ run \in RunType
  BY <1>1 DEF MoreSeeds, CampaignInv, RunOK
<1>3. Current \in Seeds
  BY <1>1, <1>2 DEF MoreSeeds, Current, RunOK, RunType
<1>4. /\ says' \in [Seeds -> Behaviours \cup {"unknown"}]
      /\ \A x \in Seeds : says[x] \in Behaviours => says'[x] = says[x]
  BY <1>1, <1>3, ExecuteFacts DEF CampaignInv
<1>5. phase' = "idle" /\ verdict' = "failed"
  BY <1>1 DEF Return
<1>6. report'.entries = run.entries /\ report'.status = "failed"
  BY <1>1, <1>2 DEF Written
<1>7. run.entries \in Seq(Entry) /\ Shown(run.entries, says)
  BY <1>2 DEF RunOK, RunType
<1>8. Shown(run.entries, says')
  BY <1>4, <1>7, ShownStays DEF CampaignInv
<1>9. ReportOK'
  BY <1>1, <1>2, <1>6, <1>7, <1>8, RunNoZeros DEF ReportOK
<1>10. report' # NoReport
  BY <1>6 DEF NoReport
<1>11. logs' \in [Seeds -> Prints \cup {"none"}]
       /\ harness' \in {"soak", "events", "random"}
  BY <1>1 DEF CampaignInv
<1> QED BY <1>4, <1>5, <1>6, <1>9, <1>10, <1>11 DEF CampaignInv

\* A campaign reports its end.
LEMMA ConcludeKeeps ==
  ASSUME CampaignInv, Conclude
  PROVE  CampaignInv'
<1> DEFINE status == Verdict(run)
<1>1. /\ phase # "idle" /\ Return(status) /\ report' = Written(status, run)
      /\ UNCHANGED <<harness, says, logs>>
  BY DEF Conclude
<1>2. /\ status \in {"passed", "failed"}
      /\ status = "passed" => /\ Len(run.entries) = run.asked
                              /\ AllPassed(run.entries) /\ Covered(run.entries)
  BY DEF Verdict
<1> HIDE DEF status
<1>3. RunOK /\ run \in RunType
  BY <1>1 DEF CampaignInv, RunOK
<1>4. /\ report'.status = status /\ report'.entries = run.entries
      /\ report'.asked = run.asked /\ report'.grade = run.grade
      /\ report'.instructions = run.instructions
      /\ report'.failure = NoFailure
  BY <1>1, <1>3, WrittenFacts
<1>5. report' # NoReport
  BY <1>2, <1>4 DEF NoReport
<1>6. ASSUME status = "passed" PROVE PassedOK'
  <2>1. Len(run.entries) = run.asked /\ AllPassed(run.entries) /\ Covered(run.entries)
    BY <1>2, <1>6
  <2>2. phase' = "idle" /\ run.asked \in Nat
    BY <1>1, <1>3 DEF Return, RunType
  <2>3. Few(run.asked) => Distinct(run.entries)
    BY <1>3, RunDistinct
  <2>4. /\ run.grade = (run.asked >= Release /\ run.instructions >= 256)
        /\ harness # "soak" => Logged(run.entries, logs)
    BY <1>3 DEF RunOK
  <2>5. AllPassed(report.entries)' /\ Covered(report.entries)'
    BY <1>1, <1>4, <2>1 DEF AllPassed, Covered, Passed
  <2> QED BY <1>1, <1>4, <1>5, <1>6, <2>1, <2>2, <2>3, <2>4, <2>5
          DEF PassedOK, Few
<1> QED BY <1>1, <1>2, <1>4, <1>5, <1>6, ReportKeeps

\* A campaign that is cut short leaves its report as it is.
LEMMA AbandonKeeps ==
  ASSUME CampaignInv, Abandon
  PROVE  CampaignInv'
<1>1. /\ phase' = "idle" /\ verdict' = "none"
      /\ UNCHANGED <<harness, says, report, logs>>
  BY DEF Abandon, Return
<1> QED BY <1>1 DEF CampaignInv, ReportOK

LEMMA IdleKeeps ==
  ASSUME CampaignInv, UNCHANGED campaignVars
  PROVE  CampaignInv'
<1>1. UNCHANGED <<harness, says, phase, run, report, logs, verdict>>
  BY DEF campaignVars
<1>2. RunOK => RunOK'
  BY <1>1 DEF RunOK, AllPassed, Passed, Few
<1>3. PassedOK => PassedOK'
  BY <1>1 DEF PassedOK, AllPassed, Passed, Covered, Few
<1> QED BY <1>1, <1>2, <1>3 DEF CampaignInv, ReportOK

LEMMA CampaignStepKeeps ==
  ASSUME CampaignInv, [CampaignNext]_campaignVars
  PROVE  CampaignInv'
<1>1. CASE \E asked \in Asks, base \in Bases, instructions \in {64, 256} :
             Announce(asked, base, instructions)
  BY <1>1, AnnounceKeeps
<1>2. CASE \E out \in Signatures \cup {"pass", "thin", "timeout"} :
             SeedPasses(out) \/ SoakSeedFails(out) \/ EventSeedFails(out)
             \/ RandomSeedFails(out)
  BY <1>2, SeedKeeps, RandomSeedFailsKeeps
<1>3. CASE TryBit
  BY <1>3, TryBitKeeps
<1>4. CASE Reproduce
  BY <1>4, ReproduceKeeps
<1>5. CASE Conclude
  BY <1>5, ConcludeKeeps
<1>6. CASE Abandon
  BY <1>6, AbandonKeeps
<1>7. CASE UNCHANGED campaignVars
  BY <1>7, IdleKeeps
<1> QED BY <1>1, <1>2, <1>3, <1>4, <1>5, <1>6, <1>7 DEF CampaignNext, Progress

-----------------------------------------------------------------------------
\* Distinct results have as many seeds as there are results.
LEMMA SeedsCounted ==
  ASSUME NEW r, r.entries \in Seq(Entry), Distinct(r.entries)
  PROVE  Cardinality(SeedsOf(r)) = Len(r.entries)
<1> DEFINE n == Len(r.entries)
           seed == [i \in 1 .. n |-> r.entries[i].seed]
<1>1. n \in Nat /\ DOMAIN r.entries = 1 .. n
  OBVIOUS
<1>2. SeedsOf(r) = {seed[i] : i \in 1 .. n}
  BY <1>1 DEF SeedsOf, EntriesOf
<1>3. \A i, j \in 1 .. n : i # j => seed[i] # seed[j]
  BY DEF Distinct
<1>4. seed \in [1 .. n -> SeedsOf(r)]
  BY <1>2
<1>5. seed \in Bijection(1 .. n, SeedsOf(r))
  BY <1>2, <1>3, <1>4 DEF Bijection, Injection, Surjection, IsInjective
<1>6. ExistsBijection(1 .. n, SeedsOf(r))
  BY <1>5 DEF ExistsBijection
<1>7. IsFiniteSet(1 .. n) /\ Cardinality(1 .. n) = n
  BY <1>1, FS_Interval
<1> QED BY <1>6, <1>7, FS_Bijection

\* A result that is accepted was seen by a simulator that prints it still.
LEMMA PassesEarned ==
  ASSUME NEW entries \in Seq(Entry), Shown(entries, says), NEW i \in 1 .. Len(entries),
         Passed(entries[i].output)
  PROVE  LET e == entries[i]
         IN  /\ "pass" \in Outputs(says[e.seed])
                \/ (says[e.seed] = "thin" /\ harness = "random")
             /\ e.output = "pass" => "pass" \in Outputs(says[e.seed])
<1>1. entries[i].output \in Outputs(says[entries[i].seed])
  BY DEF Shown
<1>2. \A b : "thin" \in Outputs(b) => b = "thin"
  BY DEF Outputs
<1> QED BY <1>1, <1>2 DEF Passed

LEMMA EarnedFromInv == CampaignInv => AcceptedIsEarned
<1> SUFFICES ASSUME CampaignInv, NEW grade \in BOOLEAN, Accepted(grade)
             PROVE  /\ Cardinality(SeedsOf(report)) >= (IF grade THEN Release ELSE 2)
                    /\ harness # "random" => 0 \notin SeedsOf(report)
                    /\ \A s \in SeedsOf(report) :
                         "pass" \in Outputs(says[s])
                         \/ (says[s] = "thin" /\ harness = "random")
                    /\ \E s \in SeedsOf(report) : "pass" \in Outputs(says[s])
  BY DEF AcceptedIsEarned
<1> DEFINE n == Len(report.entries)
           least == IF grade THEN Release ELSE 2
<1>1. /\ report.entries \in Seq(Entry) /\ Shown(report.entries, says)
      /\ harness # "random" => NoZeros(report.entries)
      /\ harness \in {"soak", "events", "random"}
  BY DEF Accepted, CampaignInv, ReportOK
<1>2. DOMAIN report.entries = 1 .. n /\ n \in Nat
  BY <1>1
<1>3. /\ Complete(report, least)
      /\ harness = "random" => Covered(report.entries)
  BY <1>1 DEF Accepted, AcceptedSoak, AcceptedEvents, AcceptedRandom
<1>4. /\ report.asked >= least /\ n = report.asked
      /\ Cardinality(SeedsOf(report)) = n /\ AllPassed(report.entries)
  BY <1>3 DEF Complete
<1>5. SeedsOf(report) = {report.entries[i].seed : i \in 1 .. n}
  BY <1>2 DEF SeedsOf, EntriesOf
<1>6. ASSUME NEW i \in 1 .. n
      PROVE  /\ "pass" \in Outputs(says[report.entries[i].seed])
                \/ (says[report.entries[i].seed] = "thin" /\ harness = "random")
             /\ report.entries[i].output = "pass"
                  => "pass" \in Outputs(says[report.entries[i].seed])
  <2>1. Passed(report.entries[i].output)
    BY <1>2, <1>4 DEF AllPassed
  <2> QED BY <1>1, <2>1, PassesEarned
<1>7. \E i \in 1 .. n : report.entries[i].output = "pass"
  <2>1. CASE harness = "random"
    BY <1>2, <1>3, <2>1 DEF Covered
  <2>2. CASE harness # "random"
    <3>1. 1 \in 1 .. n
      BY <1>2, <1>4, BitsAssumption
    <3>2. Passed(report.entries[1].output)
      BY <1>2, <1>4, <3>1 DEF AllPassed
    <3> QED BY <2>2, <3>1, <3>2 DEF Passed
  <2> QED BY <2>1, <2>2
<1>8. harness # "random" => 0 \notin SeedsOf(report)
  BY <1>1, <1>5 DEF NoZeros
<1>9. Cardinality(SeedsOf(report)) >= least
  BY <1>4
<1> QED BY <1>5, <1>6, <1>7, <1>8, <1>9

LEMMA VerdictFromInv == CampaignInv => VerdictStands
<1> SUFFICES ASSUME CampaignInv PROVE VerdictStands
  OBVIOUS
<1>1. ASSUME verdict = "passed", report.asked \in Release .. Modulus - 1,
             report.instructions = 256
      PROVE  Accepted(TRUE)
  <2>1. PassedOK /\ ReportOK /\ harness \in {"soak", "events", "random"}
    BY <1>1 DEF CampaignInv, PassedOK
  <2>2. Modulus \in Nat /\ Release \in Nat
    BY BitsAssumption DEF Modulus
  <2>3. report.asked \in Nat /\ report.asked >= Release /\ report.asked < Modulus
    BY <1>1, <2>2
  <2>4. Distinct(report.entries)
    BY <2>1, <2>3 DEF PassedOK, Few
  <2>5. Complete(report, Release)
    BY <2>1, <2>3, <2>4, SeedsCounted DEF PassedOK, ReportOK, Complete
  <2>6. DOMAIN report.entries = 1 .. Len(report.entries)
    BY <2>1 DEF ReportOK
  <2>7. harness # "soak" => LogsMatch(report)
    BY <2>1, <2>6 DEF PassedOK, LogsMatch, Logged, EntriesOf
  <2>8. harness = "events" => \A e \in EntriesOf(report) : e.output = "pass"
    BY <2>1, <2>6 DEF PassedOK, AllPassed, Passed, EntriesOf
  <2>9. harness = "random" => AcceptedRandom(report, TRUE)
    <3>1. report.grade = (report.asked >= Release /\ report.instructions >= 256)
      BY <2>1 DEF PassedOK
    <3>2. report.instructions >= 256
      BY <1>1
    <3>3. report.grade = TRUE
      BY <2>3, <3>1, <3>2
    <3>4. Covered(report.entries)
      BY <2>1 DEF PassedOK
    <3> QED BY <2>5, <2>7, <3>2, <3>3, <3>4 DEF AcceptedRandom
  <2> QED BY <2>1, <2>5, <2>7, <2>8, <2>9
          DEF PassedOK, Accepted, AcceptedSoak, AcceptedEvents
<1>2. ASSUME verdict = "failed", NEW grade \in BOOLEAN
      PROVE  ~Accepted(grade)
  <2>1. report.status = "failed" /\ harness \in {"soak", "events", "random"}
    BY <1>2 DEF CampaignInv
  <2>2. \A least : ~Complete(report, least)
    BY <2>1 DEF Complete
  <2> QED BY <2>1, <2>2
          DEF Accepted, AcceptedSoak, AcceptedEvents, AcceptedRandom
<1> QED BY <1>1, <1>2 DEF VerdictStands

-----------------------------------------------------------------------------
(* Quotient and remainder are the only numbers that divide a number.         *)
LEMMA Divided ==
  ASSUME NEW n \in Int, NEW d \in Nat, d # 0
  PROVE  /\ n \div d \in Int /\ n % d \in 0 .. d - 1
         /\ n = (n \div d) * d + (n % d)
OBVIOUS

LEMMA DividedOnce ==
  ASSUME NEW n \in Int, NEW d \in Nat, d # 0, NEW k \in Int, NEW r \in 0 .. d - 1,
         n = k * d + r
  PROVE  n \div d = k
<1> DEFINE q == n \div d
           s == n % d
<1>1. q \in Int /\ s \in 0 .. d - 1 /\ n = q * d + s
  BY Divided
<1> HIDE DEF q, s
<1>2. (k - q) * d = s - r
  BY <1>1
<1>3. k - q >= 1 => (k - q) * d >= d
  BY <1>1
<1>4. q - k >= 1 => (q - k) * d >= d
  BY <1>1
<1>5. (q - k) * d = r - s
  BY <1>1
<1>6. q = k
  BY <1>1, <1>2, <1>3, <1>4, <1>5
<1> QED BY <1>6 DEF q

\* A bit of a lower weight is left alone when a higher one is taken away.
LEMMA LowerBitStays ==
  ASSUME NEW s \in Nat, NEW w \in Nat, w # 0, NEW k \in Nat
  PROVE  ((s - w * (2 * k)) \div w) % 2 = (s \div w) % 2
<1> DEFINE q == s \div w
           r == s % w
<1>1. q \in Int /\ r \in 0 .. w - 1 /\ s = q * w + r
  BY Divided
<1> HIDE DEF q, r
<1>2. s - w * (2 * k) = (q - 2 * k) * w + r
  BY <1>1
<1>3. (s - w * (2 * k)) \div w = q - 2 * k
  BY <1>1, <1>2, DividedOnce
<1>4. (q - 2 * k) % 2 = q % 2
  BY <1>1
<1> QED BY <1>3, <1>4 DEF q

\* And a bit of a higher weight when one that is set is taken away: there is
\* nothing to borrow.
LEMMA HigherBitStays ==
  ASSUME NEW s \in Nat, NEW w \in Nat, w # 0, NEW k \in Nat, k # 0,
         (s \div w) % 2 = 1
  PROVE  (s - w) \div (w * (2 * k)) = s \div (w * (2 * k))
<1> DEFINE v == w * (2 * k)
           q == s \div v
           r == s % v
<1>1. v \in Nat /\ v # 0
  BY w * (2 * k) >= 1
<1>2. q \in Int /\ r \in 0 .. v - 1 /\ s = q * v + r
  <2> HIDE DEF v
  <2> QED BY <1>1, Divided
<1> HIDE DEF q, r
<1>3. r >= w
  <2>1. SUFFICES ASSUME r < w PROVE FALSE
    BY <1>1, <1>2
  <2>2. s = (q * (2 * k)) * w + r
    BY <1>2
  <2>3. r \in 0 .. w - 1 /\ q * (2 * k) \in Int
    BY <1>1, <1>2, <2>1
  <2>4. s \div w = q * (2 * k)
    BY <2>2, <2>3, DividedOnce
  <2>5. (2 * (q * k)) % 2 = 0
    <3>1. \A i \in Int : (2 * i) % 2 = 0
      OBVIOUS
    <3> QED BY <1>2, <3>1, q * k \in Int
  <2> QED BY <1>2, <2>4, <2>5
<1> HIDE DEF v
<1>4. s - w = q * v + (r - w) /\ r - w \in 0 .. v - 1
  BY <1>1, <1>2, <1>3
<1>5. (s - w) \div v = q
  BY <1>1, <1>2, <1>4, DividedOnce
<1> QED BY <1>5 DEF q, v

\* Clearing one bit sets no other, and leaves a number no greater.
LEMMA ClearedBits ==
  ASSUME NEW s \in Nat, NEW c \in Nat
  PROVE  /\ ClearBit(s, c) \in Nat /\ ClearBit(s, c) <= s
         /\ \A b \in Nat : ClearBit(s, b) = s
                             => ClearBit(ClearBit(s, c), b) = ClearBit(s, c)
<1> DEFINE set(x, b) == (x \div (2 ^ b)) % 2 = 1
<1>1. \A b \in Nat : 2 ^ b \in Nat /\ 2 ^ b # 0
  BY PowerPositive
<1>2. \A x \in Nat, b \in Nat : ClearBit(x, b) = x <=> ~set(x, b)
  BY <1>1 DEF ClearBit
<1>3. CASE ~set(s, c)
  <2>1. ClearBit(s, c) = s
    BY <1>2, <1>3
  <2> QED BY <2>1
<1>4. CASE set(s, c)
  <2> DEFINE t == s - 2 ^ c
             w == 2 ^ c
  <2>1. ClearBit(s, c) = t
    BY <1>4 DEF ClearBit
  <2>2. t \in Nat /\ t <= s
    <3>1. w \in Nat /\ w # 0 /\ (s \div w) % 2 = 1
      BY <1>1, <1>4
    <3> HIDE DEF w
    <3>2. s >= w
      <4>1. SUFFICES ASSUME s < w PROVE FALSE
        BY <3>1
      <4>2. s = 0 * w + s /\ s \in 0 .. w - 1
        BY <3>1, <4>1
      <4>3. s \div w = 0
        BY <3>1, <4>2, DividedOnce
      <4> QED BY <3>1, <4>3
    <3>3. s - w \in Nat /\ s - w <= s
      BY <3>1, <3>2
    <3> QED BY <3>3 DEF w
  <2>3. ASSUME NEW b \in Nat, ~set(s, b) PROVE ~set(t, b)
    <3>1. b # c
      BY <1>4, <2>3
    <3>2. CASE b < c
      <4> DEFINE v == 2 ^ b
                 k == 2 ^ (c - b - 1)
      <4>1. v \in Nat /\ v # 0 /\ k \in Nat
        BY <1>1, <3>2, c - b - 1 \in Nat
      <4>2. w = v * (2 * k)
        <5>1. /\ b \in Nat /\ 1 \in Nat /\ c - b - 1 \in Nat /\ c - b \in Nat
              /\ b + (c - b) = c /\ 1 + (c - b - 1) = c - b
          BY <3>2
        <5>2. 2 ^ (b + (c - b)) = 2 ^ b * 2 ^ (c - b)
          BY <5>1, PowersAdd, Zenon
        <5>3. 2 ^ (1 + (c - b - 1)) = 2 ^ 1 * 2 ^ (c - b - 1)
          BY <5>1, PowersAdd, Zenon
        <5> QED BY <5>1, <5>2, <5>3, PowerOfOne, Zenon
      <4> HIDE DEF v, k
      <4>3. ((s - v * (2 * k)) \div v) % 2 = (s \div v) % 2
        BY <4>1, LowerBitStays
      <4>4. (t \div v) % 2 = (s \div v) % 2
        BY <4>2, <4>3, Zenon
      <4> QED BY <2>3, <4>4 DEF v
    <3>3. CASE b > c
      <4> DEFINE v == 2 ^ b
                 k == 2 ^ (b - c - 1)
      <4>1. w \in Nat /\ w # 0 /\ k \in Nat /\ k # 0 /\ (s \div w) % 2 = 1
        BY <1>1, <1>4, <3>3, b - c - 1 \in Nat
      <4>2. v = w * (2 * k)
        <5>1. /\ c \in Nat /\ 1 \in Nat /\ b - c - 1 \in Nat /\ b - c \in Nat
              /\ c + (b - c) = b /\ 1 + (b - c - 1) = b - c
          BY <3>3
        <5>2. 2 ^ (c + (b - c)) = 2 ^ c * 2 ^ (b - c)
          BY <5>1, PowersAdd, Zenon
        <5>3. 2 ^ (1 + (b - c - 1)) = 2 ^ 1 * 2 ^ (b - c - 1)
          BY <5>1, PowersAdd, Zenon
        <5> QED BY <5>1, <5>2, <5>3, PowerOfOne, Zenon
      <4>3. (s - w) \div (w * (2 * k)) = s \div (w * (2 * k))
        <5> HIDE DEF w, k
        <5> QED BY <4>1, HigherBitStays
      <4>4. t \div v = s \div v
        BY <4>2, <4>3, Zenon
      <4> QED BY <2>3, <4>4, Zenon
    <3> QED BY <3>1, <3>2, <3>3
  <2> HIDE DEF t, set
  <2> QED BY <1>2, <2>1, <2>2, <2>3
<1> QED BY <1>3, <1>4

-----------------------------------------------------------------------------
(* The reproducer: what minimize has so far is one already, and what it       *)
(* tries next is one if it fails in the same way.                             *)

\* A seed that is not zero, without a bit of its own, that shows the failure.
Reproduces(f, m) ==
  /\ f.failing \in Seeds /\ f.minimized \in Seeds
  /\ f.minimized # 0 /\ f.minimized <= f.failing
  /\ \A b \in 0 .. Bits - 1 : ClearBit(f.failing, b) = f.failing
                                => ClearBit(f.minimized, b) = f.minimized
  /\ m[f.failing] \in Behaviours /\ f.signature \in Outputs(m[f.failing])
  /\ m[f.minimized] \in Behaviours /\ f.signature \in Outputs(m[f.minimized])

\* What Reproduce would write.
Found == [signature |-> FailingOutput,
          failing |-> run.entries[Len(run.entries)].seed,
          minimized |-> search.seed]

SearchType == [bit: Nat, seed: Nat]

ReproducerInv ==
  /\ search \in SearchType
  /\ phase = "minimizing" => search.bit \in 0 .. Bits /\ Reproduces(Found, says)
  /\ report # NoReport /\ report.failure # NoFailure
       => Reproduces(report.failure, says)

\* What is true of a reproducer stays true.
LEMMA ReproducesStill ==
  ASSUME NEW f, NEW m, NEW n, Reproduces(f, m),
         \A x \in Seeds : m[x] \in Behaviours => n[x] = m[x]
  PROVE  Reproduces(f, n)
BY DEF Reproduces

LEMMA ModulusNatural == Modulus \in Nat /\ \A s \in Seeds : s \in Nat
BY BitsAssumption DEF Modulus, Seeds

LEMMA CurrentSeed ==
  ASSUME CampaignInv, MoreSeeds
  PROVE  Current \in Seeds
BY DEF CampaignInv, MoreSeeds, RunOK, RunType, Current

LEMMA ReproducerInitially == CampaignInit => ReproducerInv
BY DEF CampaignInit, ReproducerInv, SearchType, NoSearch

\* Outside the search, with the report left alone or without a failure.
LEMMA ReproducerElsewhere ==
  ASSUME ReproducerInv,
         \A x \in Seeds : says[x] \in Behaviours => says'[x] = says[x],
         phase' # "minimizing", search' \in {search, NoSearch},
         report' = report \/ report'.failure = NoFailure
  PROVE  ReproducerInv'
<1>1. search' \in SearchType
  BY DEF ReproducerInv, SearchType, NoSearch
<1> QED BY <1>1, ReproducesStill DEF ReproducerInv

\* The soak turns to minimize: the failing seed is its own first reproducer.
LEMMA SoakSeedFailsReproduces ==
  ASSUME CampaignInv, ReproducerInv, NEW out, SoakSeedFails(out)
  PROVE  ReproducerInv'
<1>1. /\ harness = "soak" /\ MoreSeeds /\ Execute(Current, out)
      /\ run' = Recorded(out) /\ harness' = harness
      /\ phase' = "minimizing" /\ report' = report
      /\ search' = [bit |-> Bits, seed |-> Current]
  BY DEF SoakSeedFails
<1>2. /\ run'.entries[Len(run'.entries)] = [seed |-> Current, output |-> out]
      /\ \A x \in Seeds : says[x] \in Behaviours => says'[x] = says[x]
      /\ Current \in Seeds
  BY <1>1, RecordKeeps
<1>3. says'[Current] \in Behaviours /\ out \in Outputs(says'[Current])
  BY <1>1, <1>2, ExecuteFacts DEF CampaignInv
<1>4. Current # 0
  <2>1. RunOK
    BY <1>1 DEF CampaignInv, MoreSeeds
  <2> QED BY <1>1, <2>1 DEF RunOK, RunType, MoreSeeds, Current
<1>5. /\ Found'.signature = out /\ Found'.failing = Current
      /\ Found'.minimized = Current
  BY <1>1, <1>2 DEF Found, FailingOutput
<1>6. Current <= Current
  BY <1>2, ModulusNatural DEF Seeds
<1>7. Reproduces(Found, says)'
  BY <1>2, <1>3, <1>4, <1>5, <1>6 DEF Reproduces
<1>8. search'.bit \in 0 .. Bits /\ search' \in SearchType
  BY <1>1, <1>2, BitsAssumption, ModulusNatural DEF SearchType
<1>9. report # NoReport /\ report.failure # NoFailure
        => Reproduces(report.failure, says')
  BY <1>2, ReproducesStill DEF ReproducerInv
<1> QED BY <1>1, <1>7, <1>8, <1>9 DEF ReproducerInv

\* A bit is tried.
LEMMA TryBitReproduces ==
  ASSUME CampaignInv, ReproducerInv, TryBit
  PROVE  ReproducerInv'
<1> DEFINE candidate == ClearBit(search.seed, search.bit - 1)
<1>1. /\ phase = "minimizing" /\ phase' = phase /\ run' = run /\ report' = report
      /\ search.bit \in 0 .. Bits /\ search.bit > 0
      /\ Reproduces(Found, says)
  BY DEF TryBit, ReproducerInv
<1>2. search.bit - 1 \in 0 .. Bits /\ search.bit - 1 \in Nat
  BY <1>1, BitsAssumption
<1>3. search.seed \in Seeds /\ Found.minimized = search.seed
  BY <1>1 DEF Reproduces, Found
<1>4. search.seed \in Nat /\ Modulus \in Nat
  BY <1>3, ModulusNatural DEF Seeds
<1>5. /\ candidate \in Seeds /\ candidate <= search.seed
      /\ \A b \in Nat : ClearBit(search.seed, b) = search.seed
                          => ClearBit(candidate, b) = candidate
  <2>1. /\ candidate \in Nat /\ candidate <= search.seed
        /\ \A b \in Nat : ClearBit(search.seed, b) = search.seed
                            => ClearBit(candidate, b) = candidate
    BY <1>2, <1>4, ClearedBits
  <2> HIDE DEF candidate
  <2>2. candidate \in Seeds
    BY <1>3, <1>4, <2>1 DEF Seeds
  <2> QED BY <2>1, <2>2
<1>6. \/ candidate = 0 /\ search' = [search EXCEPT !.bit = @ - 1] /\ says' = says
      \/ /\ candidate # 0
         /\ \E out \in Signatures \cup {"pass", "timeout"} :
              /\ Execute(candidate, out)
              /\ search' = [bit |-> search.bit - 1,
                            seed |-> IF StillFails(out, FailingOutput)
                                     THEN candidate ELSE search.seed]
  BY DEF TryBit
<1> HIDE DEF candidate
<1>7. \A x \in Seeds : says[x] \in Behaviours => says'[x] = says[x]
  BY <1>5, <1>6, ExecuteFacts DEF CampaignInv
<1>8. Reproduces(Found, says')
  BY <1>1, <1>7, ReproducesStill
<1>9. Found'.failing = Found.failing /\ Found'.signature = Found.signature
      /\ Found'.minimized = search'.seed
  BY <1>1 DEF Found, FailingOutput
<1>10. /\ search'.bit \in 0 .. Bits /\ Reproduces(Found, says)'
       /\ search' \in SearchType
  <2>1. ASSUME search' = [bit |-> search.bit - 1, seed |-> search.seed]
        PROVE  /\ search'.bit \in 0 .. Bits /\ Reproduces(Found, says)'
               /\ search' \in SearchType
    BY <1>2, <1>3, <1>4, <1>8, <1>9, <2>1 DEF Reproduces, SearchType
  <2>2. CASE candidate = 0
    <3>1. search' = [bit |-> search.bit - 1, seed |-> search.seed]
      BY <1>6, <2>2 DEF ReproducerInv, SearchType
    <3> QED BY <2>1, <3>1
  <2>3. CASE candidate # 0
    <3>1. PICK out \in Signatures \cup {"pass", "timeout"} :
            /\ Execute(candidate, out)
            /\ search' = [bit |-> search.bit - 1,
                          seed |-> IF StillFails(out, FailingOutput)
                                   THEN candidate ELSE search.seed]
      BY <1>6, <2>3
    <3>2. search'.bit = search.bit - 1
      BY <3>1
    <3>3. CASE ~StillFails(out, FailingOutput)
      BY <2>1, <3>1, <3>3
    <3>4. CASE StillFails(out, FailingOutput)
      <4>1. search'.seed = candidate /\ out = Found.signature
        BY <3>1, <3>4 DEF StillFails, Found
      <4>2. says'[candidate] \in Behaviours /\ out \in Outputs(says'[candidate])
        BY <1>5, <3>1, ExecuteFacts DEF CampaignInv
      <4>3. \A b \in 0 .. Bits - 1 : b \in Nat
        BY BitsAssumption
      <4>4. /\ Found.failing \in Seeds /\ Found.failing \in Nat
            /\ search.seed <= Found.failing /\ candidate \in Nat
            /\ \A b \in 0 .. Bits - 1 : ClearBit(Found.failing, b) = Found.failing
                                          => ClearBit(candidate, b) = candidate
        BY <1>1, <1>3, <1>4, <1>5, <4>3 DEF Reproduces, Seeds
      <4>5. candidate <= Found.failing
        BY <1>4, <1>5, <4>4
      <4>6. search' \in SearchType
        BY <1>2, <3>1, <3>4, <4>4 DEF SearchType
      <4> QED BY <1>2, <1>5, <1>8, <1>9, <2>3, <3>2, <4>1, <4>2, <4>4, <4>5, <4>6
              DEF Reproduces
    <3> QED BY <3>3, <3>4
  <2> QED BY <2>2, <2>3
<1>11. report # NoReport /\ report.failure # NoFailure
         => Reproduces(report.failure, says')
  BY <1>7, ReproducesStill DEF ReproducerInv
<1> QED BY <1>1, <1>10, <1>11 DEF ReproducerInv

\* The reproducer is reported.
LEMMA ReproduceReproduces ==
  ASSUME CampaignInv, ReproducerInv, Reproduce
  PROVE  ReproducerInv'
<1>1. /\ phase = "minimizing" /\ phase' = "idle" /\ says' = says
      /\ report'.failure = Found
  BY DEF Reproduce, Return, Written, Found
<1>1a. search' \in SearchType
  BY DEF Reproduce, Return, NoSearch, SearchType
<1>2. Reproduces(Found, says)
  BY <1>1 DEF ReproducerInv
<1> QED BY <1>1, <1>1a, <1>2 DEF ReproducerInv

LEMMA ReproducerStep ==
  ASSUME CampaignInv, ReproducerInv, [CampaignNext]_campaignVars
  PROVE  ReproducerInv'
<1>1. CASE \E asked \in Asks, base \in Bases, instructions \in {64, 256} :
             Announce(asked, base, instructions)
  <2>1. /\ phase' = "running" /\ says' = says /\ search' = search
        /\ report' = report \/ report' = Written("running", run')
    BY <1>1 DEF Announce
  <2>2. Written("running", run').failure = NoFailure
    BY DEF Written
  <2> QED BY <2>1, <2>2, ReproducerElsewhere
<1>2. ASSUME NEW out, SeedPasses(out) \/ EventSeedFails(out)
      PROVE  ReproducerInv'
  <2>1. /\ MoreSeeds /\ Execute(Current, out)
        /\ phase' \in {"running", "reporting"} /\ search' = search
        /\ report' = report \/ report' = Written("running", run')
    BY <1>2 DEF SeedPasses, EventSeedFails, MoreSeeds
  <2>2. \A x \in Seeds : says[x] \in Behaviours => says'[x] = says[x]
    BY <2>1, CurrentSeed, ExecuteFacts DEF CampaignInv
  <2>3. Written("running", run').failure = NoFailure
    BY DEF Written
  <2> QED BY <2>1, <2>2, <2>3, ReproducerElsewhere
<1>3. ASSUME NEW out, RandomSeedFails(out)
      PROVE  ReproducerInv'
  <2>1. /\ MoreSeeds /\ Execute(Current, out) /\ phase' = "idle"
        /\ search' = NoSearch /\ report' = Written("failed", run)
    BY <1>3 DEF RandomSeedFails, Return
  <2>2. \A x \in Seeds : says[x] \in Behaviours => says'[x] = says[x]
    BY <2>1, CurrentSeed, ExecuteFacts DEF CampaignInv
  <2>3. Written("failed", run).failure = NoFailure
    BY DEF Written
  <2> QED BY <2>1, <2>2, <2>3, ReproducerElsewhere
<1>4. CASE Conclude
  <2>1. /\ phase' = "idle" /\ says' = says /\ search' = NoSearch
        /\ report' = Written(Verdict(run), run)
    BY <1>4 DEF Conclude, Return
  <2>2. Written(Verdict(run), run).failure = NoFailure
    BY DEF Written
  <2> QED BY <2>1, <2>2, ReproducerElsewhere
<1>5. CASE Abandon
  <2>1. phase' = "idle" /\ says' = says /\ search' = NoSearch /\ report' = report
    BY <1>5 DEF Abandon, Return
  <2> QED BY <2>1, ReproducerElsewhere
<1>6. CASE UNCHANGED campaignVars
  BY <1>6 DEF campaignVars, ReproducerInv, Found, FailingOutput
<1> QED BY <1>1, <1>2, <1>3, <1>4, <1>5, <1>6, SoakSeedFailsReproduces,
           TryBitReproduces, ReproduceReproduces DEF CampaignNext, Progress

LEMMA ReproducerFromInv == ReproducerInv => ReproducerReproduces
BY DEF ReproducerInv, ReproducerReproduces, Reproduces

-----------------------------------------------------------------------------
(* The ARM rows: the class the decoder gives a word beside the class of its   *)
(* row, for all sixteen numbers in each register field (the run tries three),  *)
(* and a word of each row the reference allocates that executes.              *)

LEMMA BitsOfRow ==
  ASSUME NEW n \in Nat
  PROVE  /\ Bit(n, 0) <=> n % 2 = 1
         /\ Bit(n, 1) <=> (n \div 2) % 2 = 1
         /\ Bit(n, 2) <=> (n \div 4) % 2 = 1
         /\ Bit(n, 3) <=> (n \div 8) % 2 = 1
         /\ Bit(n, 4) <=> (n \div 16) % 2 = 1
         /\ Bit(n, 5) <=> (n \div 32) % 2 = 1
         /\ Slice(n, 4, 3) = (n \div 8) % 4
         /\ Slice(n, 4, 1) = (n \div 2) % 16
         /\ Slice(n, 2, 1) = (n \div 2) % 4
<1>1. 4 - 3 + 1 = 2 /\ 4 - 1 + 1 = 4 /\ 2 - 1 + 1 = 2 /\ n \div 1 = n
  OBVIOUS
<1> QED BY <1>1, SmallPowers, Zenon DEF Bit, Slice

\* The rows of the multiplies and extra transfers, and the miscellaneous ones.
LEMMA RowPatterns ==
  ASSUME NEW hi \in 0 .. 255, NEW lo \in 0 .. 15
  PROVE  /\ Bit(lo, 3) /\ Bit(lo, 0) <=> lo \in {9, 11, 13, 15}
         /\ hi \div 32 = 0 =>
              (Slice(hi, 4, 3) = 2 /\ hi % 2 = 0 <=> hi \in {16, 18, 20, 22})
<1>1. /\ (lo \div 8) % 2 = 1 /\ lo % 2 = 1 <=> lo \in {9, 11, 13, 15}
      /\ hi \div 32 = 0 =>
           ((hi \div 8) % 4 = 2 /\ hi % 2 = 0 <=> hi \in {16, 18, 20, 22})
  OBVIOUS
<1> QED BY <1>1, BitsOfRow, hi \in Nat, lo \in Nat, Zenon

\* Outside data processing both read the same bits.
LEMMA UpperRows ==
  ASSUME NEW hi \in 0 .. 255, NEW lo, NEW w, w.hi = hi, w.lo = lo,
         hi \div 32 \in 2 .. 7
  PROVE  RowClass(w) = ArmClass(hi, lo)
BY DEF RowClass, ArmClass, CoprocessorRow

LEMMA RowClassOf ==
  ASSUME NEW hi \in 0 .. 255, NEW lo \in 0 .. 15, NEW w \in RowWords(hi, lo)
  PROVE  RowClass(w) \in {ArmClass(hi, lo), "undef"}
<1>1. w.hi = hi /\ w.lo = lo /\ hi \in Nat /\ lo \in Nat
  BY DEF RowWords
<1>2. hi \div 32 \in 0 .. 7
  OBVIOUS
<1>3. CASE hi \div 32 = 0
  <2>1. RowClass(w) = Allocation(w)
    BY <1>1, <1>3 DEF RowClass
  <2>2. ArmClass(hi, lo) = IF Bit(lo, 3) /\ Bit(lo, 0) THEN MultiplyOrTransfer(hi, lo)
                         ELSE IF hi \in {16, 18, 20, 22} THEN Miscellaneous(hi, lo)
                         ELSE "dp"
    BY <1>3 DEF ArmClass
  <2>3. /\ Bit(lo, 3) /\ Bit(lo, 0) <=> lo \in {9, 11, 13, 15}
        /\ Slice(hi, 4, 3) = 2 /\ hi % 2 = 0 <=> hi \in {16, 18, 20, 22}
    BY <1>3, RowPatterns, ZenonT(60)
  <2> QED BY <1>1, <1>3, <2>1, <2>2, <2>3
      DEF Allocation, MultiplyOrTransfer, Miscellaneous, IsSwap, IsExtraTransfer
<1>4. CASE hi \div 32 = 1
  BY <1>1, <1>4 DEF RowClass, ArmClass
<1>5. CASE hi \div 32 \in 2 .. 7
  BY <1>1, <1>5, UpperRows
<1> QED BY <1>2, <1>3, <1>4, <1>5

\* A word of each class that does not trap, where the row has one.
Executed(hi, lo, c) ==
  CASE c = "bx"  -> Encoding(hi, lo, 15, 15, 15, 15)
    [] c = "msr" -> Encoding(hi, lo, 15, 15, 0, 0)
    [] c = "mrs" -> Encoding(hi, lo, 15, 0, 0, 0)
    [] c = "dp"  -> Encoding(hi, lo, 0, 0, 0, 0)
    [] OTHER     -> Encoding(hi, lo, 1, 0, 0, 0)

LEMMA ClassKinds ==
  ASSUME NEW hi \in 0 .. 255, NEW lo \in 0 .. 15
  PROVE  ArmClass(hi, lo) \in ArmClasses
<1>1. hi \div 32 \in 0 .. 7
  OBVIOUS
<1> QED BY <1>1 DEF ArmClass, ArmClasses, MultiplyOrTransfer, Miscellaneous, CoprocessorRow

\* What the class of a row says of its bits.
RowsOf(hi, lo, c) ==
  /\ c = "bx" => hi = 18 /\ lo = 1
  /\ c = "mrs" => hi \in {16, 20} /\ lo = 0
  /\ c = "msr" => (hi \in {18, 22} /\ lo = 0) \/ hi \in {50, 54}
  /\ c = "mul" => hi \in 0 .. 3 /\ lo = 9
  /\ c = "mull" => hi \in 8 .. 15 /\ lo = 9
  /\ c = "swp" => hi \in {16, 20} /\ lo = 9
  /\ c = "ldrh_strh" => /\ hi \div 32 = 0
                        /\ lo = 11 \/ (lo \in {13, 15} /\ hi % 2 = 1)
  /\ c = "dp" => \/ hi \div 32 = 0 /\ lo \notin {9, 11, 13, 15}
                    /\ hi \notin {16, 18, 20, 22}
                 \/ hi \div 32 = 1 /\ hi \notin {48, 50, 52, 54}
  /\ c \in {"ldr_str", "ldm_stm", "branch", "ldc_stc", "swi", "mcr_mrc", "cdp"}
       => hi \div 32 \in 2 .. 7

LEMMA RowsOfClass ==
  ASSUME NEW hi \in 0 .. 255, NEW lo \in 0 .. 15
  PROVE  RowsOf(hi, lo, ArmClass(hi, lo))
<1>1. hi \div 32 \in 0 .. 7
  OBVIOUS
<1>3. CASE hi \div 32 = 0
  <2>1. ArmClass(hi, lo) = IF lo \in {9, 11, 13, 15} THEN MultiplyOrTransfer(hi, lo)
                         ELSE IF hi \in {16, 18, 20, 22} THEN Miscellaneous(hi, lo)
                         ELSE "dp"
    <3>1. Bit(lo, 3) /\ Bit(lo, 0) <=> lo \in {9, 11, 13, 15}
      BY RowPatterns, Zenon
    <3> QED BY <1>3, <3>1 DEF ArmClass
  <2> QED BY <1>3, <2>1 DEF RowsOf, MultiplyOrTransfer, Miscellaneous
<1>4. CASE hi \div 32 = 1
  BY <1>4 DEF RowsOf, ArmClass
<1>5. CASE hi \div 32 \in 2 .. 7
  BY <1>5 DEF RowsOf, ArmClass, CoprocessorRow
<1> QED BY <1>1, <1>3, <1>4, <1>5

LEMMA ExecutedFields ==
  ASSUME NEW hi, NEW lo, NEW c, NEW w, w = Executed(hi, lo, c)
  PROVE  /\ w.hi = hi /\ w.lo = lo
         /\ w.rn = IF c \in {"bx", "msr", "mrs"} THEN 15 ELSE IF c = "dp" THEN 0 ELSE 1
         /\ w.rd = IF c \in {"bx", "msr"} THEN 15 ELSE 0
         /\ w.rs = IF c = "bx" THEN 15 ELSE 0
         /\ w.rm = IF c = "bx" THEN 15 ELSE 0
         /\ {0, 1, 15} \subseteq Fields => w \in RowWords(hi, lo)
BY DEF Executed, Encoding, RowWords

LEMMA ExecutedClass ==
  ASSUME NEW hi \in 0 .. 255, NEW lo \in 0 .. 15, NEW c, c = ArmClass(hi, lo),
         c # "undef", NEW w, w = Executed(hi, lo, c)
  PROVE  DecodedClass(w) = c
<1>0. RowsOf(hi, lo, c)
  BY RowsOfClass
<1>1. /\ w.hi = hi /\ w.lo = lo
      /\ w.rn = IF c \in {"bx", "msr", "mrs"} THEN 15 ELSE IF c = "dp" THEN 0 ELSE 1
      /\ w.rd = IF c \in {"bx", "msr"} THEN 15 ELSE 0
      /\ w.rs = IF c = "bx" THEN 15 ELSE 0
      /\ w.rm = IF c = "bx" THEN 15 ELSE 0
  BY ExecutedFields
<1>2. c \in ArmClasses
  BY ClassKinds
<1>5. RowClass(w) = c
  <2>1. CASE hi \div 32 = 0
    <3>1. RowClass(w) = Allocation(w)
      BY <1>1, <2>1 DEF RowClass
    <3>2. /\ c = "bx" => hi = 18 /\ lo = 1
          /\ c = "mrs" => hi \in {16, 20} /\ lo = 0
          /\ c = "msr" => (hi \in {18, 22} /\ lo = 0) \/ hi \in {50, 54}
          /\ c = "mul" => hi \in 0 .. 3 /\ lo = 9
          /\ c = "mull" => hi \in 8 .. 15 /\ lo = 9
          /\ c = "swp" => hi \in {16, 20} /\ lo = 9
          /\ c = "ldrh_strh" => lo = 11 \/ (lo \in {13, 15} /\ hi % 2 = 1)
          /\ c = "dp" => lo \notin {9, 11, 13, 15} /\ hi \notin {16, 18, 20, 22}
          /\ c \notin {"ldr_str", "ldm_stm", "branch", "ldc_stc", "swi", "mcr_mrc", "cdp"}
      BY <1>0, <2>1 DEF RowsOf
    <3>3. c \in {"bx", "mrs", "msr", "mul", "mull", "swp", "ldrh_strh", "dp"}
      BY <1>2, <3>2 DEF ArmClasses
    <3>4. /\ Bit(lo, 3) /\ Bit(lo, 0) <=> lo \in {9, 11, 13, 15}
          /\ Slice(hi, 4, 3) = 2 /\ hi % 2 = 0 <=> hi \in {16, 18, 20, 22}
      BY <2>1, RowPatterns, ZenonT(60)
    <3> QED BY <1>1, <2>1, <3>1, <3>2, <3>3, <3>4
            DEF Allocation, IsSwap, IsExtraTransfer
  <2>2. CASE hi \div 32 = 1
    <3>1. c = IF hi \in {48, 52} THEN "undef"
              ELSE IF hi \in {50, 54} THEN "msr" ELSE "dp"
      BY <2>2 DEF ArmClass
    <3>2. RowClass(w) = IF hi \in {50, 54} THEN IF w.rd = 15 THEN "msr" ELSE "undef"
                        ELSE IF hi \in {48, 52} THEN "undef" ELSE "dp"
      BY <1>1, <2>2 DEF RowClass
    <3> QED BY <1>1, <3>1, <3>2
  <2>3. CASE hi \div 32 \in 2 .. 7
    BY <1>1, <2>3, UpperRows
  <2>4. hi \div 32 \in 0 .. 7
    OBVIOUS
  <2> QED BY <2>1, <2>2, <2>3, <2>4
<1>7. ~OperandTrap(c, w)
  <2> QED BY <1>1, <1>2 DEF OperandTrap, BaseClash, ArmClasses
<1> QED BY <1>5, <1>7 DEF DecodedClass

\* And the operation it is executed as is one its row covers.
LEMMA ExecutedBin ==
  ASSUME NEW hi \in 0 .. 255, NEW lo \in 0 .. 15, NEW c, c = ArmClass(hi, lo),
         c # "undef", NEW w, w = Executed(hi, lo, c)
  PROVE  DecodedBin(w) \in ArmBins(hi, lo)
<1>0. RowsOf(hi, lo, c)
  BY RowsOfClass
<1>1. /\ w.hi = hi /\ w.lo = lo
      /\ c # "bx" => w.rs = 0
  BY ExecutedFields
<1>2. c \in ArmClasses
  BY ClassKinds
<1>3. DecodedClass(w) = c
  BY ExecutedClass, SMTT(60)
<1>4. hi \in Nat /\ lo \in Nat
  OBVIOUS
<1>5a. hi \div 32 \in {0, 1} => (Bit(hi, 5) <=> hi \div 32 = 1)
  <2>1. hi \div 32 \in {0, 1} => ((hi \div 32) % 2 = 1 <=> hi \div 32 = 1)
    OBVIOUS
  <2> QED BY <1>4, <2>1, BitsOfRow, Zenon
<1>5. CASE c \notin {"dp", "mrs", "msr", "mul", "mull", "ldrh_strh"}
  <2>1. DecodedBin(w) = <<"class", c>>
    BY <1>3, <1>5 DEF DecodedBin
  <2>2. <<"class", c>> \in ArmBins(hi, lo)
    BY DEF ArmBins
  <2> QED BY <2>1, <2>2
<1>6. CASE c = "dp"
  <2>1. /\ hi \div 32 \in {0, 1}
        /\ hi \div 32 = 0 => lo \notin {9, 11, 13, 15}
    BY <1>0, <1>6 DEF RowsOf
  <2>2. Bit(hi, 5) <=> hi \div 32 = 1
    BY <1>5a, <2>1
  <2>2a. hi \div 32 # 1 => ~(Bit(lo, 0) /\ Bit(lo, 3))
    BY <2>1, RowPatterns
  <2>3. DecodedBin(w) = ShifterBin(hi, lo)
    BY <1>1, <1>3, <1>6, <2>1, <2>2, <2>2a DEF DecodedBin, ShifterBin
  <2>4. ShifterBin(hi, lo) \in ArmBins(hi, lo)
    BY <1>6 DEF ArmBins
  <2> QED BY <2>3, <2>4
<1>7. CASE c \in {"mrs", "msr"}
  <2>1. hi \in {16, 18, 20, 22, 50, 54}
    BY <1>0, <1>7 DEF RowsOf
  <2>2. hi \div 32 \in {0, 1}
    BY <2>1
  <2>3. Bit(hi, 5) <=> hi \div 32 = 1
    BY <1>5a, <2>2
  <2> QED BY <1>1, <1>3, <1>7, <2>3 DEF DecodedBin, ArmBins
<1>8. CASE c = "mul"
  BY <1>1, <1>3, <1>8 DEF DecodedBin, ArmBins
<1>9. CASE c = "mull"
  <2>1. /\ Slice(hi, 2, 1) \in 0 .. 3
        /\ Bit(hi, 2) <=> Slice(hi, 2, 1) \in {2, 3}
        /\ Bit(hi, 1) <=> Slice(hi, 2, 1) \in {1, 3}
    <3>1. /\ (hi \div 2) % 4 \in 0 .. 3
          /\ (hi \div 4) % 2 = 1 <=> (hi \div 2) % 4 \in {2, 3}
          /\ (hi \div 2) % 2 = 1 <=> (hi \div 2) % 4 \in {1, 3}
      OBVIOUS
    <3> QED BY <1>4, <3>1, BitsOfRow, Zenon
  <2> QED BY <1>1, <1>3, <1>9, <2>1 DEF DecodedBin, ArmBins
<1>10. CASE c = "ldrh_strh"
  <2>1. lo \in {11, 13, 15} /\ (lo # 11 => Bit(hi, 0))
    <3>1. lo = 11 \/ (lo \in {13, 15} /\ hi % 2 = 1)
      BY <1>0, <1>10 DEF RowsOf
    <3>2. Bit(hi, 0) <=> hi % 2 = 1
      BY <1>4, BitsOfRow, Zenon
    <3> QED BY <3>1, <3>2
  <2>2. /\ Slice(lo, 2, 1) = IF lo = 11 THEN 1 ELSE IF lo = 13 THEN 2 ELSE 3
        /\ Bit(lo, 2) <=> lo # 11
        /\ Bit(lo, 1) <=> lo # 13
    <3>1. /\ (lo \div 2) % 4 = IF lo = 11 THEN 1 ELSE IF lo = 13 THEN 2 ELSE 3
          /\ (lo \div 4) % 2 = 1 <=> lo # 11
          /\ (lo \div 2) % 2 = 1 <=> lo # 13
      BY <2>1
    <3> QED BY <1>4, <3>1, BitsOfRow, Zenon
  <2>3. DecodedBin(w) = <<"extra", IF ~Bit(hi, 0) THEN "strh"
                          ELSE IF lo = 11 THEN "ldrh"
                          ELSE IF lo = 15 THEN "ldrsh" ELSE "ldrsb">>
    BY <1>1, <1>3, <1>10, <2>1, <2>2 DEF DecodedBin
  <2>4. <<"extra", IF lo = 11 THEN IF Bit(hi, 0) THEN "ldrh" ELSE "strh"
                   ELSE IF lo = 13 THEN "ldrsb" ELSE "ldrsh">> \in ArmBins(hi, lo)
    BY <1>10, <2>1, <2>2 DEF ArmBins
  <2> QED BY <2>1, <2>3, <2>4
<1> QED BY <1>5, <1>6, <1>7, <1>8, <1>9, <1>10

\* Whatever the register fields of a word of the row.
LEMMA RowsAgree ==
  ASSUME NEW hi \in 0 .. 255, NEW lo \in 0 .. 15
  PROVE  LET class == ArmClass(hi, lo)
             live  == {w \in RowWords(hi, lo) : DecodedClass(w) # "undef"}
         IN  /\ \A w \in live : DecodedClass(w) = class
             /\ class # "undef" => \E w \in live : DecodedBin(w) \in ArmBins(hi, lo)
<1> DEFINE class == ArmClass(hi, lo)
           live == {w \in RowWords(hi, lo) : DecodedClass(w) # "undef"}
<1>1. ASSUME NEW w \in live PROVE DecodedClass(w) = class
  <2>1. RowClass(w) \in {class, "undef"}
    BY RowClassOf
  <2>2. DecodedClass(w) \in {RowClass(w), "undef"}
    BY DEF DecodedClass
  <2> QED BY <2>1, <2>2
<1>2. ASSUME class # "undef"
      PROVE  \E w \in live : DecodedBin(w) \in ArmBins(hi, lo)
  <2> DEFINE word == Executed(hi, lo, class)
  <2>1. word \in RowWords(hi, lo)
    BY ExecutedFields, FieldsAssumption
  <2>2. DecodedClass(word) = class
    BY <1>2, ExecutedClass
  <2>3. DecodedBin(word) \in ArmBins(hi, lo)
    BY <1>2, ExecutedBin
  <2> HIDE DEF word, class
  <2> QED BY <1>2, <2>1, <2>2, <2>3
<1> QED BY <1>1, <1>2

\* The rows in order.
LEMMA CountedRounds ==
  ASSUME at \in Nat, [ValidationNext]_allVars
  PROVE  at' \in Nat
BY DEF ValidationNext, OracleStep, CampaignStep, allVars, oracleVars, enumVars,
       OracleNext, EnumerateArm, EnumerateThumb, ReportCoverage, RandomCampaign

LEMMA RowsFromRound == at \in Nat => ArmRowsAgree
<1> SUFFICES ASSUME at \in Nat, at < 256
             PROVE  \A lo \in Lows :
                      LET class == ArmClass(at, lo)
                          live  == {w \in RowWords(at, lo) : DecodedClass(w) # "undef"}
                      IN  /\ \A w \in live : DecodedClass(w) = class
                          /\ class # "undef" => \E w \in live : DecodedBin(w) \in ArmBins(at, lo)
  BY DEF ArmRowsAgree
<1>1. at \in 0 .. 255
  OBVIOUS
<1> QED BY <1>1, RowsAgree DEF Lows

-----------------------------------------------------------------------------
(* The same for the whole of the validation.                                 *)

LEMMA ValidationInitKeeps == ValidationInit => CampaignInv
BY CampaignInitKeeps DEF ValidationInit

LEMMA ValidationStepKeeps ==
  ASSUME CampaignInv, [ValidationNext]_allVars
  PROVE  CampaignInv'
<1>1. [CampaignNext]_campaignVars
  BY DEF ValidationNext, OracleStep, CampaignStep, allVars
<1> QED BY <1>1, CampaignStepKeeps

\* What release_evidence.py accepts of a campaign is a campaign of the size it
\* asks for, over distinct seeds that the simulator passes: for every width of
\* a seed, every demand, and whatever the simulator does on a seed.
THEOREM ReleaseAcceptsEarned == ValidationSpec => []AcceptedIsEarned
<1>1. ValidationSpec => []CampaignInv
  BY ValidationInitKeeps, ValidationStepKeeps, PTL DEF ValidationSpec
<1> QED BY <1>1, EarnedFromInv, PTL

\* The programs and release_evidence.py agree on the last campaign: it accepts
\* a full one that passed and nothing after one that failed.
THEOREM CampaignVerdictStands == ValidationSpec => []VerdictStands
<1>1. ValidationSpec => []CampaignInv
  BY ValidationInitKeeps, ValidationStepKeeps, PTL DEF ValidationSpec
<1> QED BY <1>1, VerdictFromInv, PTL

\* The reproducer a soak leaves is a seed, not zero and with no bit that the
\* failing seed has not, on which the simulator fails in the way that was
\* seen: for every width of a seed and whatever the simulator does.
THEOREM SoakReproduces == ValidationSpec => []ReproducerReproduces
<1>1. ValidationInit => CampaignInv /\ ReproducerInv
  BY ValidationInitKeeps, ReproducerInitially DEF ValidationInit
<1>2. (CampaignInv /\ ReproducerInv) /\ [ValidationNext]_allVars
        => (CampaignInv /\ ReproducerInv)'
  <2> SUFFICES ASSUME CampaignInv, ReproducerInv, [ValidationNext]_allVars
               PROVE  (CampaignInv /\ ReproducerInv)'
    OBVIOUS
  <2>1. [CampaignNext]_campaignVars
    BY DEF ValidationNext, OracleStep, CampaignStep, allVars
  <2> QED BY <2>1, ValidationStepKeeps, ReproducerStep
<1> QED BY <1>1, <1>2, ReproducerFromInv, PTL DEF ValidationSpec

LEMMA ValidationAgreeInit == ValidationInit => Agree
BY AgreeInit DEF ValidationInit, OracleInit

LEMMA ValidationAgreeStep ==
  ASSUME Agree, [ValidationNext]_allVars
  PROVE  Agree'
<1>1. [Next]_vars
  BY DEF ValidationNext, OracleStep, CampaignStep, allVars, oracleVars, vars,
         OracleNext, EnumerateArm, EnumerateThumb, ReportCoverage, RandomCampaign
<1> QED BY <1>1, AgreeStep

\* In the regression, whatever the coverage phase before it made of the
\* decoder: the random programs find the memory and the loaded register as
\* the memory oracle predicted them.
THEOREM OraclesAlwaysAgree == ValidationSpec => []OraclesAgree
<1>1. ValidationSpec => []Agree
  BY ValidationAgreeInit, ValidationAgreeStep, PTL DEF ValidationSpec
<1>2. Agree => OraclesAgree
  BY DEF Agree, OraclesAgree
<1> QED BY <1>1, <1>2, PTL

\* The decoder and the reference allocate each of the 4096 ARM rows alike,
\* whatever the register fields of a word: it has the class of its row or
\* traps, and a row the reference allocates has a word that executes, as an
\* operation the reference counts as covered.
THEOREM ArmRowsAlike == ValidationSpec => []ArmRowsAgree
<1>1. ValidationInit => at \in Nat
  BY DEF ValidationInit, OracleInit
<1>2. at \in Nat /\ [ValidationNext]_allVars => (at \in Nat)'
  BY CountedRounds
<1> QED BY <1>1, <1>2, RowsFromRound, PTL DEF ValidationSpec

==============================================================================
