------------------------ MODULE ProcessorStateProofs ------------------------
(***************************************************************************)
(* The register file implements the architecture's banked registers.  The  *)
(* composition takes only steps of its two parts, so every theorem of the  *)
(* status registers and of the register file holds of it.  What neither    *)
(* part says alone, that modes keep their registers to themselves, follows *)
(* from the bank a write reaches and from the mode being one that has a    *)
(* bank.  The last part is the arithmetic unit that reads and writes them: *)
(* what its adder computes, how long its multiplier takes, and that        *)
(* together they implement the arithmetic of numbers.                      *)
(***************************************************************************)
EXTENDS ProcessorState, ArithmeticUnit, TLAPS, WellFoundedInduction
-----------------------------------------------------------------------------
(* The status registers, for every choice of modes, exceptions and MSR     *)
(* operands.  LegalMode is inductive with the types, SavedContext relative *)
(* to them; an MSR SPSR that shares its edge with an entry to the same     *)
(* mode refutes it, so its theorem excludes that case.                     *)

Stored == Psrs(Modes \cup {"invalid"})

IInv == TypeOK /\ LegalMode

LEMMA ModeFacts ==
    /\ "svc" \in Modes /\ "usr" \notin Banked
    /\ "invalid" \notin Modes /\ "unknown" \notin Modes
    /\ Zero \in Stored /\ NoWord \in Psrs(Modes \cup {"unknown"})
<1>1. /\ "svc" \in Modes /\ "usr" \notin Banked
      /\ "invalid" \notin Modes /\ "unknown" \notin Modes
  BY ModesAssumption DEF Modes
<1>2. Zero \in Stored
  BY DEF Zero, Stored, Psrs
<1>3. NoWord \in Psrs(Modes \cup {"unknown"})
  BY DEF NoWord, Zero, Psrs
<1> QED BY <1>1, <1>2, <1>3

(* A legal status word stays one under a field mask.                       *)
LEMMA MaskedType ==
    ASSUME NEW old \in Stored, NEW c \in BOOLEAN, NEW f \in BOOLEAN,
           NEW word \in Words, NEW allow_t \in BOOLEAN
    PROVE  /\ Masked(old, c, f, word, allow_t) \in Stored
           /\ old.m \in Modes => Masked(old, c, f, word, allow_t).m \in Modes
<1>1. word \in Stored
  BY WordsAssumption DEF Stored
<1> QED BY <1>1 DEF Masked, Stored, Psrs

LEMMA EnteredType ==
    ASSUME IInv, NEW e \in Events
    PROVE  /\ Entered(e) \in Stored /\ Entered(e).m = ModeOf[e]
           /\ Entered(e).i = TRUE /\ Entered(e).t = FALSE /\ ModeOf[e] \in Banked
<1>1. ModeOf[e] \in Banked
  BY EventsAssumption
<1>2. cpsr \in Stored
  BY DEF IInv, TypeOK, Stored
<1> QED BY <1>1, <1>2 DEF Entered, Stored, Psrs, Modes

LEMMA RequestKinds ==
    ASSUME NEW q \in Requests
    PROVE  \/ q = NoRequest /\ q.kind = "none"
           \/ q.kind = "restore"
           \/ q.kind = "bx" /\ q.t \in BOOLEAN
           \/ q.kind = "flags" /\ q.value \in {0, 1}
           \/ q.kind \in {"cpsr", "spsr"} /\ q.c \in BOOLEAN /\ q.f \in BOOLEAN /\ q.word \in Words
BY DEF Requests, NoRequest, Msrs

LEMMA RequestedType ==
    ASSUME IInv, NEW q \in Requests
    PROVE  Requested(q) \in Stored /\ Requested(q).m \in Modes
<1>1. cpsr \in Stored /\ cpsr.m \in Modes
  BY DEF IInv, TypeOK, LegalMode, Stored
<1>2. CASE q.kind = "cpsr"
  <2>1. q.c \in BOOLEAN /\ q.f \in BOOLEAN /\ q.word \in Words
    BY <1>2, RequestKinds
  <2>2. (q.c /\ cpsr.m # "usr") \in BOOLEAN
    OBVIOUS
  <2>3. MsrCpsr(q) \in Stored /\ MsrCpsr(q).m \in Modes
    BY <1>1, <2>1, <2>2, MaskedType DEF MsrCpsr
  <2> QED BY <1>2, <2>3 DEF Requested
<1>3. CASE q.kind = "restore"
  <2>1. CurrentSpsr \in Stored
    BY ModeFacts DEF CurrentSpsr, IInv, TypeOK, Stored
  <2>2. Restored \in Stored /\ Restored.m \in Modes
    BY <1>1, <2>1 DEF Restored
  <2> QED BY <1>3, <2>2 DEF Requested
<1>4. CASE q.kind = "bx"
  <2>1. q.t \in BOOLEAN
    BY <1>4, RequestKinds
  <2>2. Requested(q) = [cpsr EXCEPT !.t = q.t]
    BY <1>4 DEF Requested
  <2> QED BY <1>1, <2>1, <2>2 DEF Stored, Psrs
<1>5. CASE q.kind = "flags"
  <2>1. q.value \in {0, 1}
    BY <1>5, RequestKinds
  <2>2. Requested(q) = [cpsr EXCEPT !.flags = q.value]
    BY <1>5 DEF Requested
  <2> QED BY <1>1, <2>1, <2>2 DEF Stored, Psrs
<1>6. CASE q.kind \in {"none", "spsr"}
  BY <1>1, <1>6 DEF Requested
<1> QED BY <1>2, <1>3, <1>4, <1>5, <1>6, RequestKinds

LEMMA EdgeTypes ==
    ASSUME IInv, NEW e \in Events \cup {"none"}, NEW q \in Requests, Edge(e, q)
    PROVE  IInv'
<1>1. cpsr \in Stored /\ cpsr.m \in Modes
  BY DEF IInv, TypeOK, LegalMode, Stored
<1>2. cpsr' \in Stored /\ cpsr'.m \in Modes
  BY EnteredType, RequestedType DEF Edge, Modes
<1>3. spsr' \in [Banked -> Stored]
  <2>1. SUFFICES ASSUME NEW m \in Banked PROVE SpsrAfter(e, q)[m] \in Stored
    BY DEF Edge, SpsrAfter
  <2>2. spsr[m] \in Stored
    BY DEF IInv, TypeOK, Stored
  <2>3. q.kind = "spsr" => Masked(spsr[m], q.c, q.f, q.word, TRUE) \in Stored
    BY <2>2, MaskedType, RequestKinds
  <2> QED BY <1>1, <2>2, <2>3 DEF SpsrAfter, SavesCpsr
<1>4. saved' \in [Banked -> Psrs(Modes \cup {"unknown"})]
  <2>1. cpsr \in Psrs(Modes \cup {"unknown"})
    BY <1>1 DEF Stored, Psrs
  <2> QED BY <2>1, ModeFacts DEF Edge, IInv, TypeOK
<1>5. ready' \in BOOLEAN
  BY DEF Edge, IInv, TypeOK
<1> QED BY <1>2, <1>3, <1>4, <1>5 DEF IInv, TypeOK, LegalMode, Stored

LEMMA HostTypes ==
    ASSUME IInv,
           \/ Host
           \/ \E w \in Words : ImportCpsr(w)
           \/ \E m \in Banked, w \in Words : ImportSpsr(m, w)
    PROVE  IInv'
<1>1. Words \subseteq Stored
  BY WordsAssumption DEF Stored
<1>2. CASE Host
  BY <1>2 DEF Host, IInv, TypeOK, LegalMode
<1>3. ASSUME NEW w \in Words, ImportCpsr(w) PROVE IInv'
  BY <1>1, <1>3 DEF ImportCpsr, IInv, TypeOK, LegalMode, Stored
<1>4. ASSUME NEW m \in Banked, NEW w \in Words, ImportSpsr(m, w) PROVE IInv'
  <2>1. saved' \in [Banked -> Psrs(Modes \cup {"unknown"})]
    BY <1>4, ModeFacts DEF ImportSpsr, IInv, TypeOK
  <2>2. spsr' \in [Banked -> Stored]
    BY <1>1, <1>4 DEF ImportSpsr, IInv, TypeOK, Stored
  <2> QED BY <1>4, <2>1, <2>2 DEF ImportSpsr, IInv, TypeOK, LegalMode, Stored
<1> QED BY <1>2, <1>3, <1>4

LEMMA InitTypes == Init => IInv
<1> SUFFICES ASSUME Init PROVE IInv
  OBVIOUS
<1>1. cpsr \in Stored /\ cpsr.m \in Modes
  BY ModeFacts DEF Init, Zero, Stored, Psrs
<1>2. /\ spsr \in [Banked -> Stored] /\ ready \in BOOLEAN
      /\ saved \in [Banked -> Psrs(Modes \cup {"unknown"})]
  BY ModeFacts DEF Init
<1> QED BY <1>1, <1>2 DEF IInv, TypeOK, LegalMode, Stored

(* Types and the legal mode are inductive together: an exception return    *)
(* and a field write need the type of the word they read.                  *)
THEOREM PsrInvariant == Spec => []IInv
<1>1. IInv /\ [Next]_vars => IInv'
  <2>1. ASSUME IInv, Next PROVE IInv'
    BY <2>1, EdgeTypes, HostTypes DEF Next
  <2>2. IInv /\ UNCHANGED vars => IInv'
    BY DEF vars, IInv, TypeOK, LegalMode
  <2> QED BY <2>1, <2>2
<1> QED BY InitTypes, <1>1, PTL DEF Spec

(* The status registers stay within their types.                           *)
THEOREM PsrTypes == Spec => []TypeOK
BY PsrInvariant, PTL DEF IInv

(* The register-bank selector never sees an invalid mode.                  *)
THEOREM PsrLegalMode == Spec => []LegalMode
BY PsrInvariant, PTL DEF IInv

LEMMA SavedStep ==
    ASSUME ~MsrWithEntry, IInv, SavedContext, [Next]_vars
    PROVE  SavedContext'
<1>1. ASSUME NEW e \in Events \cup {"none"}, NEW q \in Requests, Edge(e, q)
      PROVE  SavedContext'
  <2>1. SUFFICES ASSUME NEW m \in Banked, saved'[m] # NoWord
                 PROVE  spsr'[m] = saved'[m]
    BY DEF SavedContext
  <2>2. /\ spsr' = SpsrAfter(e, q)
        /\ saved'[m] = IF Enters(e, m) THEN cpsr
                       ELSE IF q.kind = "spsr" /\ m = cpsr.m THEN NoWord ELSE saved[m]
        /\ ~(q.kind = "spsr" /\ Enters(e, cpsr.m))
    BY <1>1 DEF Edge
  <2> QED BY <2>1, <2>2 DEF SpsrAfter, SavesCpsr, SavedContext
<1>2. ASSUME NEW m \in Banked, NEW w \in Words, ImportSpsr(m, w) PROVE SavedContext'
  <2>1. SUFFICES ASSUME NEW n \in Banked, saved'[n] # NoWord
                 PROVE  spsr'[n] = saved'[n]
    BY DEF SavedContext
  <2>2. /\ spsr' = [spsr EXCEPT ![m] = w]
        /\ saved' = [saved EXCEPT ![m] = NoWord]
    BY <1>2 DEF ImportSpsr
  <2>3. saved[n] # NoWord => spsr[n] = saved[n]
    BY DEF SavedContext
  <2>4. spsr \in [Banked -> Stored] /\ saved \in [Banked -> Psrs(Modes \cup {"unknown"})]
    BY DEF IInv, TypeOK, Stored
  <2>5. m # n /\ saved'[n] = saved[n] /\ spsr'[n] = spsr[n]
    BY <2>1, <2>2, <2>4
  <2> QED BY <2>1, <2>3, <2>5
<1>3. UNCHANGED <<spsr, saved>> => SavedContext'
  BY DEF SavedContext
<1> QED BY <1>1, <1>2, <1>3 DEF Next, Host, ImportCpsr, vars

(* However exceptions nest, a handler finds the status it has to restore.  *)
THEOREM PsrSavedContext == ASSUME ~MsrWithEntry PROVE Spec => []SavedContext
<1>1. Init => SavedContext
  BY DEF Init, SavedContext
<1> QED BY <1>1, PsrInvariant, SavedStep, PTL DEF Spec

LEMMA UserStep ==
    ASSUME IInv, Next, ~ready, cpsr.m = "usr"
    PROVE  \/ cpsr'.m = "usr" /\ cpsr'.i = cpsr.i /\ cpsr'.f = cpsr.f
           \/ cpsr'.m \in Banked /\ spsr'[cpsr'.m] = cpsr /\ cpsr'.i /\ ~cpsr'.t
<1>1. cpsr \in Stored
  BY DEF IInv, TypeOK, Stored
<1>2. ASSUME NEW e \in Events, NEW q \in Requests, Edge(e, q), e # "none"
      PROVE  cpsr'.m \in Banked /\ spsr'[cpsr'.m] = cpsr /\ cpsr'.i /\ ~cpsr'.t
  <2>1. cpsr' = Entered(e) /\ spsr' = SpsrAfter(e, q)
    BY <1>2 DEF Edge
  <2>2. cpsr'.m = ModeOf[e] /\ ModeOf[e] \in Banked /\ cpsr'.i = TRUE /\ cpsr'.t = FALSE
    BY <2>1, EnteredType
  <2>3. SpsrAfter(e, q)[ModeOf[e]] = cpsr
    BY <1>2, <2>2, ModeFacts DEF SpsrAfter, SavesCpsr, Enters
  <2> QED BY <2>1, <2>2, <2>3
<1>3. ASSUME NEW q \in Requests, Edge("none", q)
      PROVE  cpsr'.m = "usr" /\ cpsr'.i = cpsr.i /\ cpsr'.f = cpsr.f
  <2>1. cpsr' = Requested(q)
    BY <1>3 DEF Edge
  <2>2. CASE q.kind = "cpsr"
    BY <2>1, <2>2 DEF Requested, MsrCpsr, Masked
  <2>3. CASE q.kind = "restore"
    <3>1. Restored = cpsr
      BY ModeFacts DEF Restored, CurrentSpsr, Zero
    <3> QED BY <2>1, <2>3, <3>1 DEF Requested
  <2>4. CASE q.kind = "bx"
    BY <1>1, <2>1, <2>4 DEF Requested, Stored, Psrs
  <2>5. CASE q.kind = "flags"
    BY <1>1, <2>1, <2>5 DEF Requested, Stored, Psrs
  <2>6. CASE q.kind \in {"none", "spsr"}
    BY <2>1, <2>6 DEF Requested
  <2> QED BY <2>2, <2>3, <2>4, <2>5, <2>6, RequestKinds
<1>4. Host => cpsr' = cpsr
  BY DEF Host
<1> QED BY <1>2, <1>3, <1>4 DEF Next, ImportCpsr, ImportSpsr

(* A User program leaves its mode only through an exception.               *)
THEOREM PsrUserConfined == Spec => UserConfined
<1>1. IInv /\ [Next]_vars =>
        [~ready /\ cpsr.m = "usr" =>
           \/ cpsr'.m = "usr" /\ cpsr'.i = cpsr.i /\ cpsr'.f = cpsr.f
           \/ cpsr'.m \in Banked /\ spsr'[cpsr'.m] = cpsr /\ cpsr'.i /\ ~cpsr'.t]_vars
  BY UserStep
<1> QED BY PsrInvariant, <1>1, PTL DEF Spec, UserConfined
-----------------------------------------------------------------------------
(* The register file, for every set of register numbers and values: the    *)
(* bank index is one-to-one on registers, and the image's index agrees.    *)
File == [n \in Registers |-> regs[bank_index(n[1], n[2])]]

LEMMA BankRange ==
    ASSUME NEW r \in 0 .. 14, NEW m \in BankModes
    PROVE  bank_index(r, m) \in Physical /\ bank_index(r, m) # 15
<1>1. CASE r <= 12
  BY <1>1 DEF bank_index, Physical
<1>2. CASE r > 12
  <2>1. r \in {13, 14}
    BY <1>2
  <2>2. bank_index(r, m) \in {r, r + 8, r + 10, r + 12, r + 14, r + 16}
    BY <1>2 DEF bank_index
  <2> QED BY <2>1, <2>2 DEF Physical
<1> QED BY <1>1, <1>2

LEMMA RegistersFacts ==
    ASSUME NEW n \in Registers
    PROVE  /\ n = <<n[1], n[2]>> /\ n[1] \in RegNums /\ n[1] \in 0 .. 14
           /\ n[2] \in BankModes /\ n[2] # "sys"
           /\ n[1] <= 7 => n[2] = "usr"
           /\ n[1] <= 12 => n[2] \in {"usr", "fiq"}
           /\ bank_index(n[1], n[2]) \in Physical /\ bank_index(n[1], n[2]) # 15
<1>1. /\ n = <<n[1], n[2]>> /\ n[1] \in RegNums /\ n[2] \in BankModes
      /\ n[2] = "usr" \/ (n[2] = "fiq" /\ n[1] >= 8) \/ (n[2] # "sys" /\ n[1] >= 13)
  BY DEF Registers
<1>2. n[1] \in 0 .. 14
  BY <1>1, RegNumsAssumption
<1>3. /\ n[2] # "sys" /\ n[1] <= 7 => n[2] = "usr"
      /\ n[1] <= 12 => n[2] \in {"usr", "fiq"}
  BY <1>1, <1>2
<1>4. bank_index(n[1], n[2]) \in Physical /\ bank_index(n[1], n[2]) # 15
  BY <1>1, <1>2, BankRange
<1> QED BY <1>1, <1>2, <1>3, <1>4

(* No two registers share a physical word.                                 *)
LEMMA OneToOne ==
    ASSUME NEW n \in Registers, NEW k \in Registers,
           bank_index(n[1], n[2]) = bank_index(k[1], k[2])
    PROVE  n = k
<1>1. n[1] \in 0 .. 14 /\ k[1] \in 0 .. 14
  BY RegistersFacts
<1>2. n[1] = k[1] /\ n[2] = k[2]
  BY <1>1, RegistersFacts DEF bank_index, BankModes
<1> QED BY <1>2, RegistersFacts

(* A register and a mode name the register whose word they reach.          *)
LEMMA NameReaches ==
    ASSUME NEW r \in RegNums, NEW m \in BankModes
    PROVE  /\ Architecture!Name(r, m) \in Registers
           /\ bank_index(Architecture!Name(r, m)[1], Architecture!Name(r, m)[2]) = bank_index(r, m)
<1>1. r \in 0 .. 14
  BY RegNumsAssumption
<1>2. Architecture!Name(r, m) = <<r, Architecture!Bank(r, m)>>
  BY DEF Architecture!Name
<1>3. Architecture!Bank(r, m) \in BankModes
  BY DEF Architecture!Bank, BankModes
<1>4. Architecture!Name(r, m) \in Registers
  BY <1>1, <1>2, <1>3 DEF Registers, Architecture!Bank, BankModes
<1>5. bank_index(r, Architecture!Bank(r, m)) = bank_index(r, m)
  BY <1>1 DEF bank_index, Architecture!Bank, BankModes
<1> QED BY <1>2, <1>4, <1>5

LEMMA NamesAreRegisters == Architecture!Names = Registers
<1>1. ASSUME NEW n \in Architecture!Names PROVE n \in Registers
  BY <1>1, NameReaches DEF Architecture!Names
<1>2. ASSUME NEW n \in Registers PROVE n \in Architecture!Names
  <2>1. n[1] \in 0 .. 14
    BY RegistersFacts
  <2>2. Architecture!Bank(n[1], n[2]) = n[2]
    BY <2>1, RegistersFacts DEF Architecture!Bank
  <2>3. n = Architecture!Name(n[1], n[2])
    BY <2>2, RegistersFacts DEF Architecture!Name
  <2> QED BY <2>3, RegistersFacts DEF Architecture!Names
<1> QED BY <1>1, <1>2

(* A word of the image reaches the register the schema gives it.           *)
LEMMA SchemaReaches ==
    ASSUME NEW i \in InUse
    PROVE  /\ i \in 0 .. 29 /\ Schema[i] \in Registers
           /\ bank_index(Schema[i][1], Schema[i][2]) = state_physical_index(i)
<1>1. PICK r \in RegNums, m \in BankModes : state_physical_index(i) = bank_index(r, m)
  BY DEF InUse
<1>2. i \in 0 .. 29 /\ r \in 0 .. 14
  BY RegNumsAssumption DEF InUse
<1> DEFINE b == Architecture!Bank(r, m)
<1>3. Architecture!Name(r, m) = <<r, b>> /\ <<r, b>> \in Registers
      /\ bank_index(r, b) = state_physical_index(i)
  BY <1>1, NameReaches DEF Architecture!Name
<1>4. Schema[i] = <<r, b>>
  <2>1. b \in BankModes /\ b # "sys" /\ (r <= 7 => b = "usr") /\ (r <= 12 => b \in {"usr", "fiq"})
    BY <1>3, RegistersFacts
  <2>2. CASE i \in 0 .. 14
    BY <1>2, <1>3, <2>1, <2>2 DEF Schema, bank_index, state_physical_index, BankModes
  <2>3. CASE i \in 15 .. 21
    BY <1>2, <1>3, <2>1, <2>3 DEF Schema, bank_index, state_physical_index, BankModes
  <2>4. CASE i \in 22 .. 29
    BY <1>2, <1>3, <2>1, <2>4 DEF Schema, bank_index, state_physical_index, BankModes
  <2> QED BY <1>2, <2>2, <2>3, <2>4
<1> QED BY <1>2, <1>3, <1>4

LEMMA FileInitTypes == FileInit => FileTypes
BY ValuesAssumption DEF FileInit, FileTypes

LEMMA FileStepTypes == FileTypes /\ [FileNext]_fileVars => FileTypes'
<1> SUFFICES ASSUME FileTypes, [FileNext]_fileVars PROVE FileTypes'
  OBVIOUS
<1>1. ASSUME NEW r \in RegNums \cup {15}, NEW mode \in BankModes, NEW user \in BOOLEAN,
             NEW v \in Values, Write(r, mode, user, v)
      PROVE  FileTypes'
  <2>1. CASE r = 15
    BY <1>1, <2>1 DEF Write, FileTypes
  <2>2. CASE r # 15
    <3>1. regs' \in [Physical -> Values]
      BY <1>1, <2>2 DEF Write, FileTypes
    <3> QED BY <1>1, <2>2, <3>1 DEF Write, FileTypes
  <2> QED BY <2>1, <2>2
<1>2. ASSUME NEW i \in InUse \cup {30}, NEW v \in Values, StateWrite(i, v) PROVE FileTypes'
  <2>1. CASE i >= 30
    BY <1>2, <2>1 DEF StateWrite, FileTypes
  <2>2. CASE ~(i >= 30)
    <3>1. i \in 0 .. 29
      BY <2>2 DEF InUse
    <3>2. regs' \in [Physical -> Values]
      BY <1>2, <2>2 DEF StateWrite, FileTypes
    <3> QED BY <1>2, <2>2, <3>1, <3>2 DEF StateWrite, FileTypes
  <2> QED BY <2>1, <2>2
<1>3. CASE Reset
  BY <1>3, ValuesAssumption DEF Reset, FileTypes
<1>4. CASE UNCHANGED fileVars
  BY <1>4 DEF fileVars, FileTypes
<1> QED BY <1>1, <1>2, <1>3, <1>4 DEF FileNext

(* The registers hold values of their type.                                *)
THEOREM RegisterTypes == FileSpec => []FileTypes
BY FileInitTypes, FileStepTypes, PTL DEF FileSpec

(* Changing one physical word changes the register it belongs to, no other.*)
LEMMA OneRegister ==
    ASSUME FileTypes, NEW n \in Registers, NEW v \in Values,
           regs' = [regs EXCEPT ![bank_index(n[1], n[2])] = v]
    PROVE  File' = [File EXCEPT ![n] = v]
<1>1. ASSUME NEW k \in Registers
      PROVE  regs'[bank_index(k[1], k[2])] =
               IF k = n THEN v ELSE regs[bank_index(k[1], k[2])]
  <2>1. regs \in [Physical -> Values]
    BY DEF FileTypes
  <2>2. bank_index(n[1], n[2]) \in Physical /\ bank_index(k[1], k[2]) \in Physical
    BY RegistersFacts
  <2>3. bank_index(k[1], k[2]) = bank_index(n[1], n[2]) => k = n
    BY OneToOne
  <2> QED BY <2>1, <2>2, <2>3
<1>2. File' = [k \in Registers |-> regs'[bank_index(k[1], k[2])]]
  BY DEF File, Registers
<1> QED BY <1>1, <1>2 DEF File

LEMMA WriteImplements ==
    ASSUME FileTypes, NEW r \in RegNums \cup {15}, NEW mode \in BankModes, NEW user \in BOOLEAN,
           NEW v \in Values, Write(r, mode, user, v)
    PROVE  Architecture!Next
<1>1. CASE r = 15
  BY <1>1 DEF Write, Architecture!Next, Architecture!Nothing, Nothing, Registers
<1>2. CASE r # 15
  <2> DEFINE m == effective_mode(mode, user)
             n == Architecture!Name(r, m)
  <2>1. r \in RegNums /\ m \in BankModes
    BY <1>2 DEF effective_mode, BankModes
  <2>2. n \in Registers /\ bank_index(n[1], n[2]) = bank_index(r, m)
    BY <2>1, NameReaches
  <2>3. /\ regs' = [regs EXCEPT ![bank_index(n[1], n[2])] = v]
        /\ request' = [kind |-> "write", reg |-> r, mode |-> mode, user |-> user, value |-> v]
    BY <1>2, <2>2 DEF Write
  <2>4. File' = [File EXCEPT ![n] = v]
    BY <2>2, <2>3, OneRegister
  <2>5. Architecture!Target(request') = n
    BY <2>3 DEF Architecture!Target, effective_mode
  <2>6. request'.kind = "write" /\ request'.value = v
    BY <2>3
  <2>7. n \in DOMAIN File
    BY <2>2 DEF File
  <2> HIDE DEF n, m
  <2> QED BY <2>4, <2>5, <2>6, <2>7 DEF Architecture!Next, File
<1> QED BY <1>1, <1>2

LEMMA StateWriteImplements ==
    ASSUME FileTypes, NEW i \in InUse \cup {30}, NEW v \in Values, StateWrite(i, v)
    PROVE  Architecture!Next
<1>1. CASE i >= 30
  BY <1>1 DEF StateWrite, Architecture!Next, Architecture!Nothing, Nothing, Registers
<1>2. CASE ~(i >= 30)
  <2>1. i \in InUse
    BY <1>2
  <2>2. Schema[i] \in Registers
        /\ bank_index(Schema[i][1], Schema[i][2]) = state_physical_index(i)
    BY <2>1, SchemaReaches
  <2>3. /\ regs' = [regs EXCEPT ![bank_index(Schema[i][1], Schema[i][2])] = v]
        /\ request' = [kind |-> "import", index |-> i, value |-> v]
    BY <1>2, <2>2 DEF StateWrite
  <2>4. File' = [File EXCEPT ![Schema[i]] = v]
    BY <2>2, <2>3, OneRegister
  <2>5. Architecture!Target(request') = Schema[i] /\ request'.kind = "import" /\ request'.value = v
    BY <2>3 DEF Architecture!Target
  <2>6. Schema[i] \in DOMAIN File
    BY <2>2 DEF File
  <2> QED BY <2>4, <2>5, <2>6 DEF Architecture!Next, File
<1> QED BY <1>1, <1>2

LEMMA ClearedFile ==
    ASSUME regs = [p \in Physical |-> ResetValue]
    PROVE  File = [n \in Registers |-> ResetValue]
BY RegistersFacts DEF File

(* Every write reaches exactly the architectural register it names.        *)
THEOREM RegistersAreBanked == FileSpec => BankedRegistersSpec
<1>1. FileInit => Architecture!Init
  <2> SUFFICES ASSUME FileInit PROVE Architecture!Init
    OBVIOUS
  <2>1. File = [n \in Registers |-> ResetValue]
    BY ClearedFile DEF FileInit
  <2>2. File = [n \in Architecture!Names |-> ResetValue]
    BY <2>1, NamesAreRegisters
  <2> QED BY <2>2, ValuesAssumption DEF FileInit, Architecture!Init, Architecture!Cleared, Architecture!Nothing,
       Nothing, File
<1>2. FileTypes /\ Reset => Architecture!Next
  <2> SUFFICES ASSUME FileTypes, Reset PROVE Architecture!Next
    OBVIOUS
  <2>1. File' = [n \in Registers |-> ResetValue]
    BY RegistersFacts DEF File, Reset, Registers
  <2>2. File' = [n \in Architecture!Names |-> ResetValue]
    BY <2>1, NamesAreRegisters
  <2> QED BY <2>2, ValuesAssumption DEF Reset, Architecture!Next, Architecture!Cleared, Architecture!Nothing,
       Nothing, File
<1>3. FileTypes /\ [FileNext]_fileVars => [Architecture!Next]_<<File, request>>
  <2>1. UNCHANGED fileVars => UNCHANGED <<File, request>>
    BY DEF fileVars, File, Registers
  <2> QED BY <1>2, <2>1, WriteImplements, StateWriteImplements DEF FileNext
<1> QED BY RegisterTypes, <1>1, <1>3, PTL DEF FileSpec, BankedRegistersSpec, Architecture!Spec, File
-----------------------------------------------------------------------------
(* The composition.                                                        *)

ModeHeld == blockMode \in BankModes \cup {"none"}

LEMMA BankedModes ==
    /\ Modes \subseteq BankModes
    /\ \A e \in Events : ModeOf[e] \in BankModes \ {"usr", "sys"}
BY ModesAssumption, EventsAssumption DEF Modes, BankModes

(* Every write of a step reaches a bank.                                   *)
LEMMA WriteMode ==
    ASSUME LegalMode, ModeHeld, NEW e \in Events \cup {"none"}
    PROVE  RegisterMode(e) \in BankModes
BY BankedModes DEF RegisterMode, LegalMode, ModeHeld

LEMMA AskedRequests ==
    /\ Asked \subseteq Requests /\ NoRequest \in Requests
    /\ [kind |-> "restore"] \in Requests /\ 14 \in RegNums
BY AskedAssumption DEF Requests

LEMMA PsrStep == ProcessorNext => [Next]_vars
<1>1. ASSUME NEW q \in Asked, Instruction(q) PROVE Next
  BY <1>1, AskedRequests DEF Instruction, Next
<1>2. ASSUME BlockReturn PROVE Next
  BY <1>2, AskedRequests DEF BlockReturn, Next
<1>3. ASSUME NEW r \in RegNums, NEW v \in Values, BlockWriteback(r, v) PROVE Next
  BY <1>3, AskedRequests DEF BlockWriteback, Next
<1>4. ASSUME NEW e \in Events, NEW q \in Asked, NEW v \in Values, Entry(e, q, v) PROVE Next
  BY <1>4, AskedRequests DEF Entry, Next
<1>5. ASSUME HostStep PROVE [Next]_vars
  BY <1>5 DEF HostStep, Next, vars
<1> QED BY <1>1, <1>2, <1>3, <1>4, <1>5 DEF ProcessorNext

(* A step without a write clears the request of the one before.            *)
LEMMA FileStep ==
    ASSUME LegalMode, ModeHeld, ProcessorNext
    PROVE  \/ NoWrite
           \/ \E r \in RegNums \cup {15}, mode \in BankModes, user \in BOOLEAN, v \in Values :
                Write(r, mode, user, v)
           \/ \E i \in InUse \cup {30}, v \in Values : ready /\ StateWrite(i, v)
<1>1. ASSUME NEW q \in Asked, Instruction(q)
      PROVE  NoWrite \/ \E r \in RegNums \cup {15}, mode \in BankModes, user \in BOOLEAN,
                           v \in Values : Write(r, mode, user, v)
  BY <1>1, WriteMode DEF Instruction
<1>2. ASSUME NEW r \in RegNums, NEW v \in Values, BlockWriteback(r, v)
      PROVE  \E mode \in BankModes, user \in BOOLEAN : Write(r, mode, user, v)
  BY <1>2, WriteMode DEF BlockWriteback
<1>3. ASSUME NEW e \in Events, NEW q \in Asked, NEW v \in Values, Entry(e, q, v)
      PROVE  \E mode \in BankModes, user \in BOOLEAN : Write(14, mode, user, v)
  BY <1>3, WriteMode DEF Entry
<1> QED BY <1>1, <1>2, <1>3, AskedRequests DEF ProcessorNext, BlockReturn, HostStep

LEMMA HeldStep == ASSUME LegalMode, ModeHeld, [ProcessorNext]_stateVars PROVE ModeHeld'
BY BankedModes DEF LegalMode, ModeHeld, ProcessorNext, Instruction, BlockReturn,
     BlockWriteback, Entry, HostStep, stateVars

LEMMA ProcessorModes == ProcessorSpec => Spec /\ []ModeHeld
<1>1. ProcessorInit => Init /\ ModeHeld
  BY DEF ProcessorInit, ModeHeld
<1>2. [ProcessorNext]_stateVars => [Next]_vars
  BY PsrStep DEF stateVars, vars
<1>3. ProcessorSpec => Spec
  BY <1>1, <1>2, PTL DEF ProcessorSpec, Spec
<1>4. LegalMode /\ ModeHeld /\ [ProcessorNext]_stateVars => ModeHeld'
  BY HeldStep
<1> QED BY <1>1, <1>3, <1>4, PsrLegalMode, PTL DEF ProcessorSpec

LEMMA ProcessorFile == LegalMode /\ ModeHeld /\ [ProcessorNext]_stateVars => [FileNext]_fileVars
<1>1. NoWrite => Write(15, "usr", FALSE, ResetValue)
  BY DEF NoWrite, Write
<1>2. "usr" \in BankModes /\ FALSE \in BOOLEAN /\ ResetValue \in Values
  BY ValuesAssumption DEF BankModes
<1>3. NoWrite => FileNext
  BY <1>1, <1>2 DEF FileNext
<1>4. UNCHANGED stateVars => UNCHANGED fileVars
  BY DEF stateVars, fileVars
<1> QED BY <1>3, <1>4, FileStep DEF FileNext

(* The composition implements its status registers and, as RegisterFile    *)
(* does alone, the banked registers of the architecture.                   *)
THEOREM ProcessorParts == ProcessorSpec => Spec /\ FileSpec /\ BankedRegistersSpec
<1>1. ProcessorInit => FileInit
  BY DEF ProcessorInit
<1>2. ProcessorSpec => FileSpec
  BY <1>1, ProcessorModes, PsrLegalMode, ProcessorFile, PTL DEF ProcessorSpec, FileSpec
<1> QED BY <1>2, ProcessorModes, RegistersAreBanked, PTL

(* A write changes the register it names, in its mode's bank or User's.    *)
LEMMA ChangedRegister ==
    ASSUME FileTypes, NEW r \in RegNums \cup {15}, NEW mode \in BankModes, NEW user \in BOOLEAN,
           NEW v \in Values, Write(r, mode, user, v), NEW n \in Registers, Changed(n)
    PROVE  /\ n[2] \in {"usr", mode}
           /\ n = Architecture!Name(r, effective_mode(mode, user))
<1> DEFINE m == effective_mode(mode, user)
           k == Architecture!Name(r, m)
<1>1. regs \in [Physical -> Values] /\ bank_index(n[1], n[2]) \in Physical
  BY RegistersFacts DEF FileTypes
<1>2. r # 15
  BY <1>1 DEF Write, Changed
<1>3. r \in RegNums /\ r \in 0 .. 14 /\ m \in BankModes /\ m \in {"usr", mode}
  BY <1>2, RegNumsAssumption DEF effective_mode, BankModes
<1>4. regs' = [regs EXCEPT ![bank_index(r, m)] = v]
  BY <1>2 DEF Write
<1>5. bank_index(n[1], n[2]) = bank_index(r, m)
  BY <1>1, <1>4 DEF Changed
<1>6. k \in Registers /\ bank_index(k[1], k[2]) = bank_index(r, m)
  BY <1>3, NameReaches
<1>7. n = k
  BY <1>5, <1>6, OneToOne
<1>8. n[2] = Architecture!Bank(r, m)
  BY <1>7 DEF Architecture!Name
<1>9. Architecture!Bank(r, m) \in {"usr", m}
  BY <1>3 DEF Architecture!Bank
<1>10. n[2] \in {"usr", mode}
  BY <1>3, <1>8, <1>9
<1> QED BY <1>7, <1>10

Owner == IF blockMode # "none" THEN blockMode ELSE cpsr.m

LEMMA PrivateStep ==
    ASSUME IInv, FileTypes, ModeHeld, ProcessorNext, ~ready, NEW n \in Registers, Changed(n)
    PROVE  n[2] \in {"usr", Owner} \/ (n = <<14, cpsr'.m>> /\ cpsr'.i /\ ~cpsr'.t)
<1>1. ~NoWrite
  BY DEF NoWrite, Changed
<1>2. LegalMode /\ RegisterMode("none") = Owner /\ Owner \in BankModes
  BY WriteMode DEF IInv, RegisterMode, Owner
<1>3. ASSUME NEW q \in Asked, Instruction(q) PROVE n[2] \in {"usr", Owner}
  <2>1. PICK r \in RegNums \cup {15}, user \in BOOLEAN, v \in Values :
          Write(r, Owner, user, v)
    BY <1>1, <1>2, <1>3 DEF Instruction
  <2> QED BY <1>2, <2>1, ChangedRegister, Zenon
<1>4. ASSUME NEW r \in RegNums, NEW v \in Values, BlockWriteback(r, v)
      PROVE  n[2] \in {"usr", Owner}
  <2>1. Write(r, Owner, FALSE, v)
    BY <1>2, <1>4 DEF BlockWriteback
  <2>2. r \in RegNums \cup {15} /\ FALSE \in BOOLEAN
    OBVIOUS
  <2> QED BY <1>2, <2>1, <2>2, ChangedRegister, Zenon
<1>5. ASSUME NEW e \in Events, NEW q \in Asked, NEW v \in Values, Entry(e, q, v)
      PROVE  n = <<14, cpsr'.m>> /\ cpsr'.i /\ ~cpsr'.t
  <2>1. e # "none" /\ ModeOf[e] \in BankModes /\ ModeOf[e] # "sys"
    BY BankedModes, EventsAssumption DEF ModeOf
  <2>2. PICK r \in RegNums \cup {15} : r = 14
    BY AskedRequests
  <2>3. PICK m \in BankModes : m = ModeOf[e]
    BY <2>1
  <2>4. Write(r, m, FALSE, v) /\ cpsr' = Entered(e)
    BY <1>5, <2>1, <2>2, <2>3 DEF Entry, RegisterMode, Edge
  <2>5. FALSE \in BOOLEAN
    OBVIOUS
  <2>6. n = Architecture!Name(r, effective_mode(m, FALSE))
    BY <2>4, <2>5, ChangedRegister, Zenon
  <2>7. n = <<14, ModeOf[e]>>
    BY <2>1, <2>2, <2>3, <2>6 DEF Architecture!Name, Architecture!Bank, effective_mode
  <2> QED BY <2>4, <2>7, EnteredType
<1>6. ~BlockReturn /\ ~HostStep
  BY <1>1 DEF BlockReturn, HostStep
<1> QED BY <1>3, <1>4, <1>5, <1>6 DEF ProcessorNext

(* For every set of modes, exceptions, operands and registers, no edge     *)
(* changes a register of a mode that is neither left nor entered.          *)
THEOREM PrivateBanks == ProcessorSpec => BanksPrivate
<1>1. IInv /\ FileTypes /\ ModeHeld /\ [ProcessorNext]_stateVars =>
        [~ready => \A n \in Registers : Changed(n) =>
           \/ n[2] \in {"usr", IF blockMode # "none" THEN blockMode ELSE cpsr.m}
           \/ n = <<14, cpsr'.m>> /\ cpsr'.i /\ ~cpsr'.t]_stateVars
  BY PrivateStep DEF Owner
<1> QED BY <1>1, ProcessorParts, ProcessorModes, PsrInvariant, RegisterTypes, PTL
     DEF ProcessorSpec, BanksPrivate
-----------------------------------------------------------------------------
(* The arithmetic unit, for every word size, set of registers and set of   *)
(* instructions.  Powers of two, partial words and the multiplier's m are  *)
(* defined by recursion or by a minimum, so the facts about them start     *)
(* from the least element of a set of naturals: what holds of 0 and of     *)
(* n + 1 whenever it holds of n has no first failure.                      *)

LEMMA LeastNumber ==
    ASSUME NEW S, S \subseteq Nat, S # {}
    PROVE  \E x \in S : \A y \in S : ~(y < x)
<1>1. IsWellFoundedOn(OpToRel(<, Nat), Nat)
  BY NatLessThanWellFounded
<1>2. \E x \in S : \A y \in S : <<y, x>> \notin OpToRel(<, Nat)
  BY <1>1, WFMin
<1> QED
  BY <1>2 DEF OpToRel

LEMMA FirstFailure ==
    ASSUME NEW S, 0 \in S, \A n \in Nat : n \in S => n + 1 \in S
    PROVE  \A n \in Nat : n \in S
<1> SUFFICES ASSUME Nat \ S # {} PROVE FALSE
  OBVIOUS
<1> PICK x \in Nat \ S : \A y \in Nat \ S : ~(y < x)
  BY LeastNumber
<1>1. x # 0 /\ x - 1 \in Nat /\ x - 1 < x
  OBVIOUS
<1>2. x - 1 \in S
  BY <1>1
<1>3. (x - 1) + 1 = x
  OBVIOUS
<1> QED
  BY <1>1, <1>2, <1>3

(* A function on 0 .. N defined by recursion on its argument exists.         *)
Recursion(S, a, G) ==
  \A N \in Nat : \E f \in [0 .. N -> S] :
    f[0] = a /\ \A i \in 1 .. N : f[i] = G[<<i, f[i - 1]>>]

LEMMA PrimitiveRecursion ==
    \A S : \A a \in S : \A G \in [Nat \X S -> S] : Recursion(S, a, G)
<1> TAKE S
<1> TAKE a \in S
<1> TAKE G \in [Nat \X S -> S]
<1> DEFINE Good == {N \in Nat : \E f \in [0 .. N -> S] :
                      f[0] = a /\ \A i \in 1 .. N : f[i] = G[<<i, f[i - 1]>>]}
<1>1. 0 \in Good
  <2> DEFINE f == [i \in 0 .. 0 |-> a]
  <2>1. f \in [0 .. 0 -> S] /\ f[0] = a /\ \A i \in 1 .. 0 : f[i] = G[<<i, f[i - 1]>>]
    OBVIOUS
  <2> QED
    BY <2>1
<1>2. ASSUME NEW n \in Nat, n \in Good PROVE n + 1 \in Good
  <2> PICK f \in [0 .. n -> S] :
             f[0] = a /\ \A i \in 1 .. n : f[i] = G[<<i, f[i - 1]>>]
    BY <1>2
  <2> DEFINE g == [i \in 0 .. n + 1 |-> IF i = n + 1 THEN G[<<n + 1, f[n]>>] ELSE f[i]]
  <2>1. f[n] \in S /\ G[<<n + 1, f[n]>>] \in S
    OBVIOUS
  <2>2. g \in [0 .. n + 1 -> S] /\ g[0] = a
    BY <2>1
  <2>3. ASSUME NEW i \in 1 .. n + 1 PROVE g[i] = G[<<i, g[i - 1]>>]
    <3>1. CASE i = n + 1
      BY <3>1
    <3>2. CASE i \in 1 .. n
      BY <3>2
    <3> QED
      BY <3>1, <3>2
  <2> HIDE DEF g
  <2>4. \E h \in [0 .. n + 1 -> S] :
          h[0] = a /\ \A i \in 1 .. n + 1 : h[i] = G[<<i, h[i - 1]>>]
    BY <2>2, <2>3
  <2> QED
    BY <2>4
<1> HIDE DEF Good
<1>3. \A n \in Nat : n \in Good
  BY <1>1, <1>2, FirstFailure
<1> QED
  BY <1>3 DEF Good, Recursion

LEMMA PowerUnfolds ==
    Power = [i \in 0 .. WordSize |-> IF i = 0 THEN 1 ELSE 2 * Power[i - 1]]
<1> PICK G \in [Nat \X Nat -> Nat] : \A i, r \in Nat : G[<<i, r>>] = 2 * r
  <2> DEFINE D == [p \in Nat \X Nat |-> 2 * p[2]]
  <2>1. D \in [Nat \X Nat -> Nat] /\ \A i, r \in Nat : D[<<i, r>>] = 2 * r
    OBVIOUS
  <2> QED
    BY <2>1
<1>1. WordSize \in Nat
  BY WordSizeAssumption
<1>2. PICK f \in [0 .. WordSize -> Nat] :
             f[0] = 1 /\ \A i \in 1 .. WordSize : f[i] = G[<<i, f[i - 1]>>]
  <2>1. 1 \in Nat
    OBVIOUS
  <2>2. Recursion(Nat, 1, G)
    BY <2>1, PrimitiveRecursion
  <2> QED
    BY <2>2, <1>1 DEF Recursion
<1>3. ASSUME NEW i \in 1 .. WordSize PROVE f[i] = 2 * f[i - 1]
  <2>1. i - 1 \in 0 .. WordSize /\ i \in Nat
    BY <1>1
  <2>2. G[<<i, f[i - 1]>>] = 2 * f[i - 1]
    BY <2>1
  <2> QED
    BY <2>2, <1>2
<1>4. f = [i \in 0 .. WordSize |-> IF i = 0 THEN 1 ELSE 2 * f[i - 1]]
  BY <1>1, <1>2, <1>3
<1> QED
  BY <1>4, Zenon DEF Power

LEMMA PowerFacts ==
    /\ Power[0] = 1
    /\ \A i \in 0 .. WordSize : Power[i] \in Nat /\ Power[i] >= 1
    /\ \A i \in 1 .. WordSize : Power[i] = 2 * Power[i - 1]
<1>1. WordSize \in Nat
  BY WordSizeAssumption
<1>2. Power[0] = 1
  BY <1>1, PowerUnfolds
<1>3. \A i \in 1 .. WordSize : Power[i] = 2 * Power[i - 1]
  BY <1>1, PowerUnfolds
<1> DEFINE S == {n \in Nat : n <= WordSize => Power[n] \in Nat /\ Power[n] >= 1}
<1>4. 0 \in S
  BY <1>2
<1>5. ASSUME NEW n \in Nat, n \in S PROVE n + 1 \in S
  <2>1. CASE n + 1 <= WordSize
    <3>1. n + 1 \in 1 .. WordSize /\ (n + 1) - 1 = n
      BY <2>1, <1>1
    <3>2. Power[n + 1] = 2 * Power[n]
      BY <3>1, <1>3
    <3>3. Power[n] \in Nat /\ Power[n] >= 1
      BY <2>1, <1>1, <1>5
    <3> QED
      BY <3>2, <3>3
  <2>2. CASE ~(n + 1 <= WordSize)
    BY <2>2
  <2> QED
    BY <2>1, <2>2
<1>6. \A n \in Nat : n \in S
  <2> HIDE DEF S
  <2> QED
    BY <1>4, <1>5, FirstFailure
<1> QED
  BY <1>1, <1>2, <1>3, <1>6

LEMMA PowerAdds ==
    ASSUME NEW i \in Nat, NEW j \in Nat, i + j <= WordSize
    PROVE  Power[i + j] = Power[i] * Power[j]
<1>1. WordSize \in Nat
  BY WordSizeAssumption
<1> DEFINE S == {n \in Nat : i + n <= WordSize => Power[i + n] = Power[i] * Power[n]}
<1>2. 0 \in S
  <2>1. i + 0 = i
    OBVIOUS
  <2>2. CASE i <= WordSize
    <3>1. Power[i] \in Nat
      BY <2>2, <1>1, PowerFacts
    <3> QED
      BY <2>1, <3>1, PowerFacts
  <2>3. CASE ~(i <= WordSize)
    BY <2>3, <2>1
  <2> QED
    BY <2>2, <2>3
<1>3. ASSUME NEW n \in Nat, n \in S PROVE n + 1 \in S
  <2>1. CASE i + (n + 1) <= WordSize
    <3>1. /\ i \in 0 .. WordSize /\ n \in 0 .. WordSize
          /\ n + 1 \in 1 .. WordSize /\ (n + 1) - 1 = n
          /\ i + (n + 1) \in 1 .. WordSize /\ i + (n + 1) - 1 = i + n /\ i + n <= WordSize
      BY <2>1, <1>1
    <3>2. Power[i + (n + 1)] = 2 * Power[i + n] /\ Power[n + 1] = 2 * Power[n]
      BY <3>1, PowerFacts
    <3>3. Power[i + n] = Power[i] * Power[n]
      BY <3>1, <1>3
    <3>4. Power[i] \in Nat /\ Power[n] \in Nat
      BY <3>1, PowerFacts
    <3>5. 2 * (Power[i] * Power[n]) = Power[i] * (2 * Power[n])
      BY <3>4
    <3> QED
      BY <3>2, <3>3, <3>5
  <2>2. CASE ~(i + (n + 1) <= WordSize)
    BY <2>2
  <2> QED
    BY <2>1, <2>2
<1>4. \A n \in Nat : n \in S
  <2> HIDE DEF S
  <2> QED
    BY <1>2, <1>3, FirstFailure
<1> QED
  BY <1>4

(* The halves of the words: what the top bit is worth.                       *)
Half == Power[WordSize - 1]

LEMMA ModulusFacts ==
    /\ WordSize \in Nat /\ WordSize >= 4 /\ WordSize - 1 \in 0 .. WordSize
    /\ Half \in Nat /\ Half >= 1
    /\ Modulus = 2 * Half /\ Modulus \in Nat /\ Modulus >= 2
<1>1. WordSize \in Nat /\ WordSize >= 4
  BY WordSizeAssumption
<1>2. WordSize - 1 \in 0 .. WordSize /\ WordSize \in 1 .. WordSize
  BY <1>1
<1> QED
  BY <1>1, <1>2, PowerFacts DEF Half, Modulus

(* Quotient and remainder are the only numbers that divide a number.         *)
LEMMA Division ==
    ASSUME NEW n \in Int, NEW d \in Nat, d >= 1
    PROVE  /\ n \div d \in Int /\ n % d \in 0 .. d - 1
           /\ n = (n \div d) * d + (n % d)
OBVIOUS

LEMMA Remainder ==
    ASSUME NEW n \in Int, NEW d \in Nat, d >= 1
    PROVE  n % d \in 0 .. d - 1
OBVIOUS

LEMMA DivisionUnique ==
    ASSUME NEW n \in Int, NEW d \in Nat, d >= 1, NEW k \in Int, NEW r \in 0 .. d - 1,
           n = k * d + r
    PROVE  n \div d = k /\ n % d = r
<1> DEFINE q == n \div d
           s == n % d
<1>1. q \in Int /\ s \in 0 .. d - 1 /\ n = q * d + s
  BY Division
<1> HIDE DEF q, s
<1>2. (k - q) * d = s - r
  BY <1>1
<1>3. ~(k - q >= 1)
  <2>1. ASSUME k - q >= 1 PROVE (k - q) * d >= d
    BY <2>1, <1>1
  <2> QED
    BY <2>1, <1>1, <1>2
<1>4. ~(q - k >= 1)
  <2>1. ASSUME q - k >= 1 PROVE (q - k) * d >= d
    BY <2>1, <1>1
  <2>2. (q - k) * d = r - s
    BY <1>1
  <2> QED
    BY <2>1, <2>2, <1>1
<1>5. q = k
  BY <1>1, <1>3, <1>4
<1>6. s = r
  BY <1>1, <1>5
<1> QED
  BY <1>5, <1>6 DEF q, s

LEMMA QuotientNatural ==
    ASSUME NEW n \in Nat, NEW d \in Nat, d >= 1
    PROVE  n \div d \in Nat /\ n \div d <= n
<1> DEFINE q == n \div d
<1>1. q \in Int /\ n % d \in 0 .. d - 1 /\ n = q * d + (n % d)
  BY Division
<1> HIDE DEF q
<1>2. q >= 0
  <2>1. ASSUME q <= -1 PROVE q * d <= -d
    BY <2>1, <1>1
  <2> QED
    BY <2>1, <1>1
<1>3. q * d >= q
  BY <1>1, <1>2
<1> QED
  BY <1>1, <1>2, <1>3 DEF q

LEMMA QuotientBelow ==
    ASSUME NEW n \in Nat, NEW d \in Nat, d >= 1, NEW k \in Nat, n < k * d
    PROVE  n \div d < k
<1> DEFINE q == n \div d
<1>1. q \in Nat /\ n % d \in 0 .. d - 1 /\ n = q * d + (n % d)
  <2>1. n \div d \in Nat
    BY QuotientNatural
  <2>2. n \div d \in Int /\ n % d \in 0 .. d - 1 /\ n = (n \div d) * d + (n % d)
    BY Division
  <2> QED
    BY <2>1, <2>2
<1> HIDE DEF q
<1>2. ASSUME q >= k PROVE q * d >= k * d
  BY <1>2, <1>1
<1> QED
  BY <1>1, <1>2 DEF q

LEMMA BitIsFlag ==
    ASSUME NEW x \in Nat, NEW i \in 0 .. WordSize
    PROVE  Bit(x, i) \in Flag
<1>1. Power[i] \in Nat /\ Power[i] >= 1
  BY PowerFacts
<1>2. x \div Power[i] \in Nat
  BY <1>1, QuotientNatural
<1> QED
  BY <1>2 DEF Bit, Flag

LEMMA TopOfWord ==
    ASSUME NEW x \in Word
    PROVE  Top(x) = IF x >= Half THEN 1 ELSE 0
<1>1. x \in Nat /\ x < 2 * Half
  BY ModulusFacts DEF Word
<1>2. CASE x >= Half
  <2>1. x \div Half = 1
    <3>1. x = 1 * Half + (x - Half) /\ x - Half \in 0 .. Half - 1
      BY <1>1, <1>2, ModulusFacts
    <3> QED
      BY <3>1, <1>1, ModulusFacts, DivisionUnique
  <2> QED
    BY <2>1, <1>2 DEF Top, Bit, Half
<1>3. CASE x < Half
  <2>1. x \div Half = 0
    <3>1. x = 0 * Half + x /\ x \in 0 .. Half - 1
      BY <1>1, <1>3, ModulusFacts
    <3> QED
      BY <3>1, <1>1, ModulusFacts, DivisionUnique
  <2> QED
    BY <2>1, <1>1, <1>3, ModulusFacts DEF Top, Bit, Half
<1> QED
  BY <1>1, <1>2, <1>3, ModulusFacts

(* A word is rotated out of its two parts.                                   *)
LEMMA ShiftedLeft ==
    ASSUME NEW x \in Nat, NEW t \in Nat, t >= 1, NEW l \in Nat, l >= 1
    PROVE  (x * l) % (t * l) = (x % t) * l
<1>1. x \div t \in Int /\ x % t \in 0 .. t - 1 /\ x = (x \div t) * t + (x % t)
  BY Division
<1> DEFINE q == x \div t
           r == x % t
<1> HIDE DEF q, r
<1>2. q \in Int /\ r \in 0 .. t - 1 /\ x = q * t + r
  BY <1>1 DEF q, r
<1>3. x * l = q * (t * l) + r * l
  BY <1>2
<1>4. r * l \in 0 .. (t * l) - 1
  <2>1. r * l \in Nat /\ r * l <= (t - 1) * l /\ (t - 1) * l = t * l - l
    BY <1>2
  <2>2. t * l \in Nat
    OBVIOUS
  <2> QED
    BY <2>1, <2>2
<1>5. x * l \in Int /\ t * l \in Nat /\ t * l >= 1
  <2>1. t * l >= l
    OBVIOUS
  <2> QED
    BY <2>1
<1>6. (x * l) % (t * l) = r * l
  BY <1>2, <1>3, <1>4, <1>5, DivisionUnique
<1> QED
  BY <1>6 DEF r

LEMMA ShifterTypes ==
    ASSUME NEW op \in ShiftOps, NEW amount \in Nat, NEW x \in Word, NEW c \in Flag
    PROVE  Shifter(op, amount, x, c) \in [result : Word, carry : Flag]
<1> DEFINE turn == amount % WordSize
           left == (WordSize - turn) % WordSize
<1>1. /\ WordSize \in Nat /\ WordSize >= 4 /\ x \in Nat
      /\ Modulus \in Nat /\ Modulus >= 2 /\ Half \in Nat /\ Modulus = 2 * Half /\ x < Modulus
  BY ModulusFacts DEF Word
<1>2. \A r \in Nat, f \in Flag : r < Modulus => [result |-> r, carry |-> f] \in [result : Word, carry : Flag]
  BY <1>1 DEF Word
<1>3. \A i \in 0 .. WordSize : Bit(x, i) \in Flag /\ Power[i] \in Nat /\ Power[i] >= 1 /\ x \div Power[i] \in Nat
                                /\ x \div Power[i] <= x
  BY <1>1, BitIsFlag, PowerFacts, QuotientNatural
<1>4. turn \in 0 .. WordSize - 1 /\ left \in 0 .. WordSize - 1 /\ (turn # 0 => left = WordSize - turn)
  <2>1. turn \in 0 .. WordSize - 1
    BY <1>1
  <2>2. WordSize - turn \in 1 .. WordSize
    BY <1>1, <2>1
  <2> HIDE DEF turn
  <2> QED
    BY <1>1, <2>1, <2>2
<1>5. Top(x) \in {0, 1} /\ Top(x) = Bit(x, WordSize - 1) /\ Top(x) = IF x >= Half THEN 1 ELSE 0
  BY <1>1, <1>3, TopOfWord DEF Top, Flag
<1> HIDE DEF turn, left
<1>6. CASE op = "RRX"
  <2>1. c * Half + (x \div 2) \in Nat /\ c * Half + (x \div 2) < Modulus
    BY <1>1 DEF Flag
  <2> QED
    BY <1>1, <1>2, <1>3, <1>6, <2>1 DEF Shifter, Half
<1>7. CASE op # "RRX" /\ amount = 0
  BY <1>1, <1>2, <1>7 DEF Shifter
<1>8. CASE op = "LSL" /\ amount # 0
  <2>1. CASE amount < WordSize
    <3>1. amount \in 1 .. WordSize - 1 /\ amount # WordSize /\ ~(amount > WordSize)
      BY <1>1, <1>8, <2>1
    <3>2. (x * Power[amount]) % Modulus \in Nat /\ (x * Power[amount]) % Modulus < Modulus
      <4> DEFINE y == x * Power[amount]
      <4>1. y \in Int
        BY <1>1, <1>3, <3>1
      <4> HIDE DEF y
      <4>2. y % Modulus \in 0 .. Modulus - 1
        BY <1>1, <4>1, Division
      <4> QED
        BY <1>1, <4>2 DEF y
    <3>3. Bit(x, left) \in Flag
      BY <1>1, <1>3, <1>4
    <3>4. Shifter(op, amount, x, c) = [result |-> (x * Power[amount]) % Modulus, carry |-> Bit(x, left)]
      BY <1>8, <3>1 DEF Shifter, turn, left
    <3> QED
      BY <1>2, <3>2, <3>3, <3>4
  <2>2. CASE amount = WordSize
    BY <1>1, <1>2, <1>3, <1>8, <2>2 DEF Shifter
  <2>3. CASE amount > WordSize
    BY <1>1, <1>2, <1>8, <2>3 DEF Shifter, Flag
  <2> QED
    BY <1>1, <2>1, <2>2, <2>3
<1>9. CASE op = "LSR" /\ amount # 0
  <2>1. CASE amount < WordSize
    <3>1. amount \in 1 .. WordSize - 1 /\ amount # WordSize /\ ~(amount > WordSize)
          /\ amount - 1 \in 0 .. WordSize /\ amount \in 0 .. WordSize
      BY <1>1, <1>9, <2>1
    <3>2. Shifter(op, amount, x, c) = [result |-> x \div Power[amount], carry |-> Bit(x, amount - 1)]
      BY <1>9, <3>1 DEF Shifter
    <3> QED
      BY <1>1, <1>2, <1>3, <3>1, <3>2
  <2>2. CASE amount = WordSize
    BY <1>1, <1>2, <1>5, <1>9, <2>2 DEF Shifter, Flag
  <2>3. CASE amount > WordSize
    BY <1>1, <1>2, <1>9, <2>3 DEF Shifter, Flag
  <2> QED
    BY <1>1, <2>1, <2>2, <2>3
<1>10. CASE op = "ASR" /\ amount # 0
  <2>1. CASE amount < WordSize
    <3>1. amount \in 1 .. WordSize - 1 /\ ~(amount >= WordSize) /\ WordSize - amount \in 1 .. WordSize
          /\ amount - 1 \in 0 .. WordSize /\ amount \in 0 .. WordSize /\ WordSize = (WordSize - amount) + amount
      BY <1>1, <1>10, <2>1
    <3>2. Modulus = Power[WordSize - amount] * Power[amount]
      BY <3>1, PowerAdds DEF Modulus
    <3>3. x \div Power[amount] < Power[WordSize - amount]
      BY <1>1, <1>3, <3>1, <3>2, QuotientBelow
    <3>4. Power[WordSize - amount] <= Modulus
      BY <1>1, <1>3, <3>1, <3>2
    <3>5. /\ x \div Power[amount] + Top(x) * (Modulus - Power[WordSize - amount]) \in Nat
          /\ x \div Power[amount] + Top(x) * (Modulus - Power[WordSize - amount]) < Modulus
      BY <1>1, <1>3, <1>5, <3>1, <3>3, <3>4
    <3>6. Shifter(op, amount, x, c) =
            [result |-> x \div Power[amount] + Top(x) * (Modulus - Power[WordSize - amount]),
             carry |-> Bit(x, amount - 1)]
      BY <1>10, <3>1 DEF Shifter
    <3> QED
      BY <1>2, <1>3, <3>1, <3>5, <3>6
  <2>2. CASE amount >= WordSize
    <3>1. Top(x) * Ones \in Nat /\ Top(x) * Ones < Modulus
      BY <1>1, <1>5 DEF Ones
    <3>2. Shifter(op, amount, x, c) = [result |-> Top(x) * Ones, carry |-> Top(x)]
      BY <1>1, <1>10, <2>2 DEF Shifter
    <3> QED
      BY <1>2, <1>5, <3>1, <3>2 DEF Flag
  <2> QED
    BY <1>1, <2>1, <2>2
<1>11. CASE op = "ROR" /\ amount # 0
  <2>1. CASE turn = 0
    BY <1>1, <1>2, <1>5, <1>11, <2>1 DEF Shifter, turn, Flag
  <2>2. CASE turn # 0
    <3>1. turn \in 1 .. WordSize - 1 /\ left = WordSize - turn /\ left \in 1 .. WordSize
          /\ turn - 1 \in 0 .. WordSize /\ turn \in 0 .. WordSize /\ WordSize = turn + left
          /\ left \in 0 .. WordSize
      BY <1>1, <1>4, <2>2
    <3> DEFINE T == Power[turn]
               L == Power[left]
    <3>2. T \in Nat /\ T >= 1 /\ L \in Nat /\ L >= 1
      BY <1>3, <3>1
    <3>3. Modulus = T * L
      BY <3>1, PowerAdds DEF Modulus
    <3>4. x \div T < L
      <4>1. x < L * T
        BY <1>1, <3>2, <3>3
      <4> HIDE DEF T, L
      <4> QED
        BY <1>1, <3>2, <4>1, QuotientBelow
    <3>5. (x * L) % Modulus = (x % T) * L
      <4> HIDE DEF T, L
      <4>0. x \in Nat
        BY <1>1
      <4>1. (x * L) % (T * L) = (x % T) * L
        BY <4>0, <3>2, ShiftedLeft
      <4> QED
        BY <3>3, <4>1
    <3>6. x \div T \in Nat /\ x % T \in 0 .. T - 1
      <4>1. x \div T \in Nat
        BY <1>3, <3>1
      <4> HIDE DEF T
      <4> QED
        BY <1>1, <3>2, <4>1, Division
    <3>7. (x % T) * L \in Nat /\ (x % T) * L <= T * L - L
      <4> DEFINE r == x % T
      <4>1. r \in Nat /\ T - 1 - r \in Nat
        BY <3>2, <3>6
      <4> HIDE DEF r, T, L
      <4>2. r * L \in Nat /\ (T - 1 - r) * L \in Nat
        BY <4>1, <3>2
      <4>3. (T - 1 - r) * L = T * L - L - r * L
        BY <4>1, <3>2
      <4>4. T * L \in Nat
        BY <3>2
      <4> QED
        BY <3>2, <4>1, <4>2, <4>3, <4>4 DEF r
    <3>8. Shifter(op, amount, x, c) =
            [result |-> (x \div T) + ((x * L) % Modulus), carry |-> Bit(x, turn - 1)]
      <4>1. amount > 0
        BY <1>11
      <4> QED
        BY <1>11, <2>2, <4>1 DEF Shifter, turn, left
    <3>9. (x \div T) + ((x * L) % Modulus) \in Nat /\ (x \div T) + ((x * L) % Modulus) < Modulus
      <4> HIDE DEF T, L
      <4> QED
        BY <1>1, <3>2, <3>3, <3>4, <3>5, <3>6, <3>7
    <3> HIDE DEF T, L
    <3> QED
      BY <1>2, <1>3, <3>1, <3>8, <3>9
  <2> QED
    BY <2>1, <2>2
<1> QED
  BY <1>6, <1>7, <1>8, <1>9, <1>10, <1>11 DEF ShiftOps

(* The sums WordOf is made of.                                               *)
Low(bits) ==
  CHOOSE f : f = [n \in 0 .. WordSize |-> IF n = 0 THEN 0
                    ELSE f[n - 1] + (IF n - 1 \in bits THEN Power[n - 1] ELSE 0)]

LEMMA LowSums ==
    ASSUME NEW bits
    PROVE  /\ WordOf(bits) = Low(bits)[WordSize] /\ Low(bits)[0] = 0
           /\ \A i \in 1 .. WordSize :
                Low(bits)[i] = Low(bits)[i - 1] + (IF i - 1 \in bits THEN Power[i - 1] ELSE 0)
<1>1. WordSize \in Nat
  BY WordSizeAssumption
<1> DEFINE low == Low(bits)
<1>2. WordOf(bits) = low[WordSize]
  BY DEF WordOf, Low
<1> PICK G \in [Nat \X Nat -> Nat] :
           \A i \in 1 .. WordSize, r \in Nat :
             G[<<i, r>>] = r + (IF i - 1 \in bits THEN Power[i - 1] ELSE 0)
  <2> DEFINE D == [p \in Nat \X Nat |->
                     IF p[1] \in 1 .. WordSize /\ p[1] - 1 \in bits THEN p[2] + Power[p[1] - 1] ELSE p[2]]
  <2>1. \A i \in 1 .. WordSize : i - 1 \in 0 .. WordSize /\ i \in Nat
    BY <1>1
  <2>2. D \in [Nat \X Nat -> Nat]
    BY <1>1, <2>1, PowerFacts
  <2>3. \A i \in 1 .. WordSize, r \in Nat : D[<<i, r>>] = r + (IF i - 1 \in bits THEN Power[i - 1] ELSE 0)
    BY <2>1
  <2> HIDE DEF D
  <2> QED
    BY <2>2, <2>3
<1>3. PICK f \in [0 .. WordSize -> Nat] :
             f[0] = 0 /\ \A i \in 1 .. WordSize : f[i] = G[<<i, f[i - 1]>>]
  <2>1. 0 \in Nat
    OBVIOUS
  <2>2. Recursion(Nat, 0, G)
    BY <2>1, PrimitiveRecursion
  <2> QED
    BY <2>2, <1>1 DEF Recursion
<1>4. ASSUME NEW i \in 1 .. WordSize
      PROVE  f[i] = f[i - 1] + (IF i - 1 \in bits THEN Power[i - 1] ELSE 0)
  <2>1. i - 1 \in 0 .. WordSize /\ i \in Nat
    BY <1>1
  <2>2. f[i - 1] \in Nat
    BY <2>1
  <2> QED
    BY <2>2, <1>3
<1>5. f = [n \in 0 .. WordSize |-> IF n = 0 THEN 0
             ELSE f[n - 1] + (IF n - 1 \in bits THEN Power[n - 1] ELSE 0)]
  BY <1>1, <1>3, <1>4
<1>6. low = [n \in 0 .. WordSize |-> IF n = 0 THEN 0
               ELSE low[n - 1] + (IF n - 1 \in bits THEN Power[n - 1] ELSE 0)]
  BY <1>5, Zenon DEF Low
<1> HIDE DEF low
<1>7. low[0] = 0 /\ \A i \in 1 .. WordSize : low[i] = low[i - 1] + (IF i - 1 \in bits THEN Power[i - 1] ELSE 0)
  BY <1>1, <1>6
<1> QED
  BY <1>2, <1>7 DEF low

(* A bit does not see what is added above it.                                *)
LEMMA BitBelow ==
    ASSUME NEW x \in Nat, NEW i \in Nat, NEW n \in Nat, i < n, n <= WordSize
    PROVE  Bit(x + Power[n], i) = Bit(x, i)
<1>1. WordSize \in Nat
  BY WordSizeAssumption
<1>2. /\ i \in 0 .. WordSize /\ n - i \in 1 .. WordSize /\ (n - i) - 1 \in 0 .. WordSize
      /\ n - i \in Nat /\ i + (n - i) = n /\ (n - i) - 1 \in Nat
  BY <1>1
<1> DEFINE p == Power[i]
           k == Power[(n - i) - 1]
<1>3. p \in Nat /\ p >= 1 /\ k \in Nat /\ Power[n - i] = 2 * k
  BY <1>2, PowerFacts
<1>4. Power[n] = p * (2 * k)
  <2> DEFINE j == n - i
  <2>1. j \in Nat /\ i + j = n /\ i + j <= WordSize
    BY <1>2
  <2> HIDE DEF j
  <2>2. Power[i + j] = Power[i] * Power[j]
    BY <2>1, PowerAdds
  <2> QED
    BY <2>1, <2>2, <1>3 DEF j
<1> DEFINE q == x \div p
           r == x % p
<1>5. q \in Nat /\ r \in 0 .. p - 1 /\ x = q * p + r
  <2> HIDE DEF p
  <2>1. x \in Int /\ x \in Nat
    OBVIOUS
  <2>2. x \div p \in Int /\ x % p \in 0 .. p - 1 /\ x = (x \div p) * p + (x % p)
    BY <1>3, <2>1, Division, Zenon
  <2>3. x \div p \in Nat
    BY <1>3, <2>1, QuotientNatural, Zenon
  <2> QED
    BY <2>2, <2>3
<1> HIDE DEF p, k, q, r
<1>6. x + Power[n] = (q + 2 * k) * p + r /\ q + 2 * k \in Int /\ x + Power[n] \in Int
  BY <1>3, <1>4, <1>5
<1>7. (x + Power[n]) \div p = q + 2 * k
  BY <1>3, <1>5, <1>6, DivisionUnique, Zenon
<1>8. (q + 2 * k) % 2 = q % 2
  BY <1>3, <1>5
<1> QED
  BY <1>7, <1>8 DEF Bit, p, q

(* WordOf is the word of these bits.                                         *)
LEMMA WordOfBits ==
    ASSUME NEW bits
    PROVE  /\ WordOf(bits) \in Word
           /\ \A i \in 0 .. WordSize - 1 : Bit(WordOf(bits), i) = IF i \in bits THEN 1 ELSE 0
<1>1. WordSize \in Nat
  BY WordSizeAssumption
<1> DEFINE low == Low(bits)
<1>2. /\ WordOf(bits) = low[WordSize] /\ low[0] = 0
      /\ \A i \in 1 .. WordSize : low[i] = low[i - 1] + (IF i - 1 \in bits THEN Power[i - 1] ELSE 0)
  BY LowSums
<1> HIDE DEF low
<1> DEFINE S == {n \in Nat : n <= WordSize =>
                   /\ low[n] \in Nat /\ low[n] < Power[n]
                   /\ \A i \in 0 .. n - 1 : Bit(low[n], i) = IF i \in bits THEN 1 ELSE 0}
<1>7. 0 \in S
  BY <1>1, <1>2, PowerFacts
<1>8. ASSUME NEW n \in Nat, n \in S PROVE n + 1 \in S
  <2>1. CASE n + 1 <= WordSize
    <3>1. n + 1 \in 1 .. WordSize /\ (n + 1) - 1 = n /\ n \in 0 .. WordSize /\ n <= WordSize
      BY <2>1, <1>1
    <3>2. Power[n + 1] = 2 * Power[n] /\ Power[n] \in Nat /\ Power[n] >= 1
      BY <3>1, PowerFacts
    <3> DEFINE x == low[n]
               b == IF n \in bits THEN 1 ELSE 0
    <3>3. low[n + 1] = IF n \in bits THEN x + Power[n] ELSE x
      <4>1. low[n + 1] = x + (IF n \in bits THEN Power[n] ELSE 0)
        BY <3>1, <1>2
      <4>2. x \in Nat
        BY <3>1, <1>8
      <4> HIDE DEF x
      <4> QED
        BY <4>1, <4>2
    <3>4. x \in Nat /\ x < Power[n] /\ \A i \in 0 .. n - 1 : Bit(x, i) = IF i \in bits THEN 1 ELSE 0
      BY <3>1, <1>8
    <3> HIDE DEF x
    <3>5. low[n + 1] \in Nat /\ low[n + 1] < Power[n + 1]
      BY <3>2, <3>3, <3>4
    <3>6. Bit(low[n + 1], n) = b
      <4>1. /\ low[n + 1] = b * Power[n] + x /\ x \in 0 .. Power[n] - 1 /\ b \in Int
            /\ low[n + 1] \in Int /\ Power[n] \in Nat /\ Power[n] >= 1 /\ b % 2 = b
        BY <3>2, <3>3, <3>4
      <4> HIDE DEF b
      <4>2. low[n + 1] \div Power[n] = b
        BY <4>1, DivisionUnique, Zenon
      <4> QED
        BY <4>1, <4>2 DEF Bit
    <3>7. ASSUME NEW i \in 0 .. n - 1 PROVE Bit(low[n + 1], i) = IF i \in bits THEN 1 ELSE 0
      <4>1. i \in Nat /\ i < n
        OBVIOUS
      <4>2. Bit(x + Power[n], i) = Bit(x, i)
        BY <3>1, <3>4, <4>1, BitBelow
      <4> QED
        BY <3>3, <3>4, <4>2
    <3>8. ASSUME NEW i \in 0 .. (n + 1) - 1 PROVE Bit(low[n + 1], i) = IF i \in bits THEN 1 ELSE 0
      <4>1. CASE i = n
        BY <3>6, <4>1
      <4>2. CASE i \in 0 .. n - 1
        BY <3>7, <4>2
      <4> QED
        BY <4>1, <4>2
    <3> QED
      BY <3>5, <3>8
  <2>2. CASE ~(n + 1 <= WordSize)
    BY <2>2
  <2> QED
    BY <2>1, <2>2
<1>9. \A n \in Nat : n \in S
  <2> HIDE DEF S
  <2> QED
    BY <1>7, <1>8, FirstFailure
<1>10. WordSize \in S
  BY <1>1, <1>9
<1> QED
  BY <1>1, <1>2, <1>10, ModulusFacts DEF Word, Modulus

LEMMA SumRange ==
    ASSUME NEW op, NEW a \in Word, NEW b \in Word, NEW c \in Flag
    PROVE  /\ AdderA(op, a, b) \in Word /\ AdderB(op, a, b) \in Word /\ AdderCarry(op, c) \in Flag
           /\ SumExt(op, a, b, c) \in Nat /\ SumExt(op, a, b, c) < 2 * Modulus
<1>1. AdderA(op, a, b) \in Word
  BY DEF AdderA
<1>2. AdderB(op, a, b) \in Word
  BY ModulusFacts DEF AdderB, Word, Ones
<1>3. AdderCarry(op, c) \in Flag
  BY DEF AdderCarry, Flag
<1> QED
  BY <1>1, <1>2, <1>3, ModulusFacts DEF SumExt, Word, Flag

LEMMA AluResultIsWord ==
    ASSUME NEW op \in AluOps, NEW a \in Word, NEW b \in Word, NEW c \in Flag
    PROVE  AluResult(op, a, b, c) \in Word
<1>1. CASE op \in Arithmetics
  <2> DEFINE sum == SumExt(op, a, b, c)
  <2>1. sum \in Int
    BY SumRange
  <2> HIDE DEF sum
  <2>2. sum % Modulus \in Word
    BY <2>1, ModulusFacts, Division DEF Word
  <2>3. AluResult(op, a, b, c) = sum % Modulus
    BY <1>1 DEF AluResult, sum, Arithmetics, Subtracts, UsesCarry
  <2> QED
    BY <2>2, <2>3
<1>2. CASE op \in {"AND", "TST", "EOR", "TEQ", "ORR", "BIC"}
  BY <1>2, WordOfBits DEF AluResult, Arithmetics, Subtracts, UsesCarry
<1>3. CASE op = "MOV"
  BY <1>3 DEF AluResult, Arithmetics, Subtracts, UsesCarry
<1>4. CASE op = "MVN"
  BY <1>4, ModulusFacts DEF AluResult, Arithmetics, Subtracts, UsesCarry, Word, Ones
<1> QED
  BY <1>1, <1>2, <1>3, <1>4 DEF AluOps

LEMMA AluFlagsTypes ==
    ASSUME NEW op \in AluOps, NEW a \in Word, NEW b \in Word, NEW f \in Flags, NEW carry \in Flag
    PROVE  AluFlags(op, a, b, f, carry) \in Flags
<1>1. f.c \in Flag /\ f.v \in Flag
  BY DEF Flags
<1> DEFINE result == AluResult(op, a, b, f.c)
           sum == SumExt(op, a, b, f.c)
<1>2. Top(result) \in Flag
  <2>1. result \in Word
    BY <1>1, AluResultIsWord
  <2> HIDE DEF result
  <2> QED
    BY <2>1, ModulusFacts, BitIsFlag DEF Top, Word
<1>3. sum \in Nat /\ sum < 2 * Modulus
  BY <1>1, SumRange
<1>4. sum \div Modulus \in Flag
  <2> HIDE DEF sum
  <2>1. sum \div Modulus \in Nat /\ sum \div Modulus < 2
    BY <1>3, ModulusFacts, QuotientNatural, QuotientBelow
  <2> QED
    BY <2>1 DEF Flag
<1>5. Overflow(op, a, b, f.c) \in Flag
  <2>1. \A x \in Nat : Top(x) \in Nat
    BY ModulusFacts, BitIsFlag DEF Top, Flag
  <2>2. AdderA(op, a, b) \in Nat /\ AdderB(op, a, b) \in Nat
    <3>1. AdderA(op, a, b) \in Word /\ AdderB(op, a, b) \in Word
      BY <1>1, SumRange
    <3> QED
      BY <3>1, ModulusFacts DEF Word
  <2> DEFINE top == Top(sum) + Top(AdderA(op, a, b)) + Top(AdderB(op, a, b))
  <2>3. top \in Nat
    BY <1>3, <2>1, <2>2
  <2>4. Overflow(op, a, b, f.c) = (sum \div Modulus + (top % 2)) % 2
    BY DEF Overflow
  <2>5. sum \div Modulus \in Nat
    BY <1>4 DEF Flag
  <2> HIDE DEF top, sum
  <2>6. (sum \div Modulus + (top % 2)) % 2 \in {0, 1}
    BY <2>3, <2>5
  <2> QED
    BY <2>4, <2>6 DEF Flag
<1> HIDE DEF result, sum
<1>6. AluFlags(op, a, b, f, carry) =
        [n |-> Top(result), z |-> IF result = 0 THEN 1 ELSE 0,
         c |-> IF op \in Arithmetics THEN sum \div Modulus ELSE carry,
         v |-> IF op \in Arithmetics THEN Overflow(op, a, b, f.c) ELSE f.v]
  BY DEF AluFlags, result, sum
<1> QED
  BY <1>1, <1>2, <1>4, <1>5, <1>6 DEF Flags, Flag

DoubleWord == 0 .. Modulus * Modulus - 1

LEMMA DoubleWordHalves ==
    ASSUME NEW d \in DoubleWord
    PROVE  d \div Modulus \in Word /\ d % Modulus \in Word
<1>1. Modulus \in Nat /\ Modulus >= 1
  BY ModulusFacts
<1>2. d \in Nat /\ d < Modulus * Modulus
  BY <1>1 DEF DoubleWord
<1>3. d \div Modulus \in Nat /\ d \div Modulus < Modulus
  <2>1. d \div Modulus \in Nat
    BY <1>1, <1>2, QuotientNatural
  <2>2. d \div Modulus < Modulus
    BY <1>1, <1>2, QuotientBelow
  <2> QED
    BY <2>1, <2>2
<1>4. d % Modulus \in 0 .. Modulus - 1
  BY <1>1, <1>2, Division
<1> QED
  BY <1>1, <1>3, <1>4 DEF Word

LEMMA ProductIsDoubleWord ==
    ASSUME NEW signed \in BOOLEAN, NEW a \in Word, NEW b \in Word, NEW acc \in Nat
    PROVE  Product(signed, a, b, acc) \in DoubleWord
<1>1. \A x \in Word : Extended(x, signed) \in Int
  <2>1. \A x \in Word : Top(x) \in {0, 1}
    BY ModulusFacts, TopOfWord
  <2>2. Modulus * Modulus \in Nat
    BY ModulusFacts
  <2> QED
    BY <2>1, <2>2, ModulusFacts DEF Extended, Word
<1> DEFINE n == Extended(a, signed) * Extended(b, signed) + acc
           d == Modulus * Modulus
<1>2. n \in Int
  BY <1>1
<1>3. d \in Nat /\ d >= 1
  BY ModulusFacts
<1> HIDE DEF n, d
<1>4. n % d \in 0 .. d - 1
  BY <1>2, <1>3, Division
<1> QED
  BY <1>4 DEF Product, DoubleWord, n, d

LEMMA ProductFlagsTypes ==
    ASSUME NEW long \in BOOLEAN, NEW d \in DoubleWord, NEW f \in Flags
    PROVE  ProductFlags(long, d, f) \in Flags
<1>1. d \in Nat /\ d \div Modulus \in Nat /\ WordSize - 1 \in 0 .. WordSize
  BY DoubleWordHalves, ModulusFacts DEF DoubleWord, Word
<1>2. Top(d) \in Flag /\ Top(d \div Modulus) \in Flag
  BY <1>1, BitIsFlag DEF Top
<1> QED
  BY <1>2 DEF ProductFlags, Flags, Flag

Byte == WordSize \div 4

(* A quarter of the word, and the numbers that fit in k of them.              *)
LEMMA ByteFacts ==
    ASSUME NEW k \in 1 .. 3
    PROVE  /\ k * Byte \in 0 .. WordSize /\ (4 - k) * Byte \in 0 .. WordSize
           /\ Power[k * Byte] \in Nat /\ Power[k * Byte] >= 1 /\ Power[k * Byte] <= Half
           /\ Power[(4 - k) * Byte] \in Nat /\ Power[(4 - k) * Byte] >= 2
           /\ Modulus = Power[(4 - k) * Byte] * Power[k * Byte]
           /\ Power[4 * Byte] = Modulus
<1>1. Byte \in Nat /\ Byte >= 1 /\ WordSize = 4 * Byte
  BY WordSizeAssumption DEF Byte
<1> HIDE DEF Byte
<1>2. /\ k * Byte \in 0 .. WordSize - 1 /\ (4 - k) * Byte \in 1 .. WordSize
      /\ (4 - k) * Byte + k * Byte = WordSize
  <2>1. k = 1 \/ k = 2 \/ k = 3
    OBVIOUS
  <2> QED
    BY <1>1, <2>1
<1> DEFINE m == k * Byte
           n == (4 - k) * Byte
<1> HIDE DEF m, n
<1>3. m \in 0 .. WordSize - 1 /\ n \in 1 .. WordSize /\ n + m = WordSize /\ m \in Nat /\ n \in Nat
  BY <1>1, <1>2 DEF m, n
<1>4. Power[m] \in Nat /\ Power[m] >= 1 /\ Power[n] \in Nat
  BY <1>1, <1>3, PowerFacts
<1>5. Power[n] >= 2
  <2>1. Power[n] = 2 * Power[n - 1] /\ n - 1 \in 0 .. WordSize
    BY <1>1, <1>3, PowerFacts
  <2> QED
    BY <2>1, PowerFacts
<1>6. Modulus = Power[n] * Power[m]
  BY <1>3, PowerAdds DEF Modulus
<1>7. Power[m] <= Half
  <2> DEFINE j == WordSize - 1 - m
  <2>1. j \in Nat /\ j \in 0 .. WordSize /\ m + j = WordSize - 1 /\ m + j <= WordSize
    BY <1>1, <1>3
  <2> HIDE DEF j
  <2>2. Half = Power[m] * Power[j]
    BY <2>1, <1>3, PowerAdds DEF Half
  <2>3. Power[j] \in Nat /\ Power[j] >= 1
    BY <2>1, PowerFacts
  <2> QED
    BY <1>4, <2>2, <2>3
<1> QED
  BY <1>1, <1>3, <1>4, <1>5, <1>6, <1>7 DEF m, n, Modulus

(* What is left of Rs above a byte is all zeros or all ones exactly when the *)
(* bytes below it hold its signed value.                                     *)
LEMMA BytesHold ==
    ASSUME NEW x \in Word, NEW k \in 1 .. 3
    PROVE  LET signed == IF Top(x) = 1 THEN x - Modulus ELSE x
               P == Power[k * Byte]
           IN x \div P \in {0, Power[(4 - k) * Byte] - 1} <=> (signed >= -P /\ signed < P)
<1> DEFINE P == Power[k * Byte]
           Q == Power[(4 - k) * Byte]
           q == x \div P
           signed == IF Top(x) = 1 THEN x - Modulus ELSE x
<1>1. /\ P \in Nat /\ P >= 1 /\ P <= Half /\ Q \in Nat /\ Q >= 2 /\ Modulus = Q * P
      /\ Half \in Nat /\ Modulus = 2 * Half /\ x \in Nat /\ x < Modulus
      /\ signed = IF x >= Half THEN x - Modulus ELSE x
  BY ByteFacts, ModulusFacts, TopOfWord DEF Word
<1> HIDE DEF P, Q, signed
<1>2. q \in Nat /\ x % P \in 0 .. P - 1 /\ x = q * P + (x % P)
  <2>1. x \in Nat
    BY <1>1
  <2>2. x \div P \in Nat
    BY <1>1, <2>1, QuotientNatural
  <2>3. x % P \in 0 .. P - 1 /\ x = (x \div P) * P + (x % P)
    BY <1>1, <2>1, Division
  <2> QED
    BY <2>2, <2>3
<1>3. q < Q
  <2>1. x < Q * P
    BY <1>1
  <2> QED
    BY <1>1, <2>1, QuotientBelow
<1> HIDE DEF q
<1>4. q = 0 <=> x < P
  <2>1. q >= 1 => q * P >= P
    BY <1>1, <1>2
  <2>2. q = 0 => q * P = 0
    BY <1>1, <1>2
  <2> QED
    BY <1>1, <1>2, <2>1, <2>2
<1>5. q = Q - 1 <=> x >= Modulus - P
  <2>1. q = Q - 1 => q * P = Q * P - P
    BY <1>1, <1>2
  <2>2. q <= Q - 2 => q * P <= Q * P - 2 * P
    <3>1. q <= Q - 2 => (Q - 2 - q) * P >= 0
      BY <1>1, <1>2
    <3>2. (Q - 2 - q) * P = Q * P - 2 * P - q * P
      BY <1>1, <1>2
    <3> QED
      BY <1>1, <1>2, <3>1, <3>2
  <2> QED
    BY <1>1, <1>2, <1>3, <2>1, <2>2
<1>6. CASE x >= Half
  <2>1. q # 0
    BY <1>1, <1>4, <1>6
  <2> QED
    BY <1>1, <1>5, <1>6, <2>1 DEF P, Q, q, signed
<1>7. CASE x < Half
  <2>1. q # Q - 1
    BY <1>1, <1>5, <1>7
  <2> QED
    BY <1>1, <1>4, <1>7, <2>1 DEF P, Q, q, signed
<1> QED
  BY <1>1, <1>6, <1>7

LEMMA CountIsNeed ==
    ASSUME NEW x \in Word
    PROVE  CycleCount(x) = Needs(x) /\ CycleCount(x) \in 1 .. 4
<1> DEFINE signed == IF Top(x) = 1 THEN x - Modulus ELSE x
           counts == {k \in 1 .. 3 : x \div Power[k * Byte] \in {0, Power[(4 - k) * Byte] - 1}} \cup {4}
           needs == {k \in 1 .. 4 : signed >= -Power[k * Byte] /\ signed < Power[k * Byte]}
<1>1. CycleCount(x) = Min(counts) /\ Needs(x) = Min(needs)
  BY DEF CycleCount, Needs, Byte
<1>2. \A k \in 1 .. 3 : k \in counts <=> k \in needs
  BY BytesHold
<1>3. 4 \in counts /\ 4 \in needs
  <2>1. Power[4 * Byte] = Modulus
    BY ByteFacts
  <2>2. signed >= -Modulus /\ signed < Modulus
    BY ModulusFacts DEF Word
  <2> QED
    BY <2>1, <2>2
<1>4. counts = needs
  <2>1. counts \subseteq 1 .. 4 /\ needs \subseteq 1 .. 4
    OBVIOUS
  <2>2. \A k \in 1 .. 4 : k = 4 \/ k \in 1 .. 3
    OBVIOUS
  <2> HIDE DEF counts, needs
  <2>3. ASSUME NEW k PROVE k \in counts <=> k \in needs
    BY <1>2, <1>3, <2>1, <2>2
  <2> QED
    BY <2>3
<1>5. Min(counts) \in 1 .. 4
  <2>1. counts \subseteq Nat /\ counts # {} /\ counts \subseteq 1 .. 4
    BY <1>3
  <2> HIDE DEF counts
  <2>2. \E k \in counts : \A l \in counts : ~(l < k)
    BY <2>1, LeastNumber
  <2>3. \E k \in counts : \A l \in counts : k <= l
    BY <2>1, <2>2
  <2>4. Min(counts) \in counts
    BY <2>3 DEF Min
  <2> QED
    BY <2>1, <2>4
<1> QED
  BY <1>1, <1>4, <1>5

(* What the substates say of the cycles left: one for a latched shift and    *)
(* for a high word, the busy counter and the high word behind it, and for an *)
(* accumulating long form what its latched Rs will load into the counter. A  *)
(* high word waits only for a long form.                                     *)
CyclesLeft ==
  /\ state_q = "S_EXEC" => due = 0
  /\ state_q \in {"S_DP_SHIFT", "S_MULL_HI"} => due = 1
  /\ state_q = "S_MUL_BUSY" => remaining >= 1 /\ due = IF mul_active THEN remaining + 1 ELSE remaining
  /\ state_q = "S_MULL_ACC" => mul_active /\ due = 2 + CycleCount(mull_q.op_b)
  /\ state_q = "S_MULL_HI" => mul_active

UnitInv == UnitTypeOK /\ CyclesLeft

LEMMA DecodedTypes ==
    ASSUME dec \in Instructions
    PROVE  /\ dec.class \in {"DP", "MUL", "MULL"} /\ dec.op \in AluOps /\ dec.s \in BOOLEAN
           /\ dec.rn \in Regs /\ dec.rd \in Regs /\ dec.rm \in Regs /\ dec.rs \in Regs
           /\ dec.shift \in ShiftOps /\ dec.amount \in 0 .. WordSize /\ dec.use_rs \in BOOLEAN
           /\ dec.accumulate \in BOOLEAN /\ dec.signed \in BOOLEAN /\ dec.cond \in Conditions
BY InstructionAssumption

LEMMA OperandTypes ==
    ASSUME UnitTypeOK
    PROVE  /\ ra_data \in Word /\ rb_data \in Word /\ rc_data \in Word
           /\ shifter \in [result : Word, carry : Flag]
           /\ alu_result \in Word /\ alu_flags_merged \in Flags
           /\ product \in DoubleWord /\ result_lo \in Word /\ result_hi \in Word
           /\ cycle_count \in 1 .. 4
<1>1. gpr \in [Regs -> Word] /\ flags \in Flags /\ flags.c \in Flag
  BY DEF UnitTypeOK, Flags
<1>2. dec \in Instructions
  BY DEF UnitTypeOK
<1>3. /\ mull_q.rdhi \in Regs /\ mull_q.acc_lo \in Word /\ mull_q.op_a \in Word
      /\ mull_q.op_b \in Word /\ mull_q.signed \in BOOLEAN
  BY DEF UnitTypeOK
<1>4. ra_data \in Word /\ rb_data \in Word /\ rc_data \in Word
  BY <1>1, <1>2, <1>3, DecodedTypes DEF ra_data, rb_data, rc_data
<1>5. shifter \in [result : Word, carry : Flag]
  <2> DEFINE amount == IF dec.use_rs THEN rc_data % Power[AmountBits] ELSE dec.amount
  <2>1. rc_data % Power[AmountBits] \in Nat
    <3>1. AmountBits \in 0 .. WordSize
      BY WordSizeAssumption
    <3>2. Power[AmountBits] \in Nat /\ Power[AmountBits] >= 1
      BY <3>1, PowerFacts
    <3>3. rc_data \in Nat
      BY <1>4, ModulusFacts DEF Word
    <3>4. rc_data % Power[AmountBits] \in 0 .. Power[AmountBits] - 1
      BY <3>2, <3>3, Remainder
    <3> QED
      BY <3>2, <3>4
  <2>2. amount \in Nat
    BY <1>2, <2>1, DecodedTypes
  <2>3. shifter = Shifter(dec.shift, amount, rb_data, flags.c)
    BY DEF shifter
  <2> HIDE DEF amount
  <2> QED
    BY <1>1, <1>2, <1>4, <2>2, <2>3, DecodedTypes, ShifterTypes
<1>6. shifter.result \in Word /\ shifter.carry \in Flag
  BY <1>5
<1>7. alu_result \in Word /\ alu_flags_merged \in Flags
  BY <1>1, <1>2, <1>4, <1>6, DecodedTypes, AluResultIsWord, AluFlagsTypes DEF alu_result, alu_flags_merged
<1>8. product \in DoubleWord
  <2>1. CASE state_q = "S_MULL_ACC"
    <3> DEFINE acc == ra_data * Modulus + mull_q.acc_lo
    <3>1. acc \in Nat
      BY <1>3, <1>4, ModulusFacts DEF Word
    <3>2. product = Product(mull_q.signed, mull_q.op_a, mull_q.op_b, acc)
      BY <2>1 DEF product
    <3> HIDE DEF acc
    <3> QED
      BY <1>3, <3>1, <3>2, ProductIsDoubleWord
  <2>2. CASE state_q # "S_MULL_ACC"
    <3> DEFINE acc == IF dec.accumulate THEN ra_data ELSE 0
               signed == dec.signed /\ dec.class = "MULL"
    <3>1. acc \in Nat /\ signed \in BOOLEAN
      BY <1>4, ModulusFacts DEF Word
    <3>2. product = Product(signed, rb_data, rc_data, acc)
      BY <2>2 DEF product
    <3> HIDE DEF acc, signed
    <3> QED
      BY <1>4, <3>1, <3>2, ProductIsDoubleWord
  <2> QED
    BY <2>1, <2>2
<1>9. result_lo \in Word /\ result_hi \in Word
  BY <1>8, DoubleWordHalves DEF result_lo, result_hi
<1>10. cycle_count \in 1 .. 4
  BY <1>3, <1>4, CountIsNeed DEF cycle_count
<1> QED
  BY <1>4, <1>5, <1>7, <1>8, <1>9, <1>10

(* The timing table, case by case.                                           *)
LEMMA CyclesOf ==
    /\ ~passes_cond => Cycles = 1
    /\ dp_fires => Cycles = IF dec.use_rs THEN 2 ELSE 1
    /\ instr_is_mul => Cycles = 1 + Needs(rc_data) + (IF dec.accumulate THEN 1 ELSE 0)
    /\ mull_take_cycle => Cycles = 2 + Needs(rc_data)
    /\ mull_accum_take_cycle => Cycles = 3 + Needs(rc_data)
<1> DEFINE needs == Needs(rc_data)
<1> HIDE DEF needs
<1>1. Cycles = CASE ~passes_cond -> 1
                 [] dp_fires -> IF dec.use_rs THEN 2 ELSE 1
                 [] instr_is_mul -> 1 + needs + (IF dec.accumulate THEN 1 ELSE 0)
                 [] mull_take_cycle -> 2 + needs
                 [] mull_accum_take_cycle -> 3 + needs
  BY DEF Cycles, needs
<1>2. ~passes_cond => Cycles = 1
  BY <1>1 DEF dp_fires, instr_is_mul, mull_take_cycle, mull_accum_take_cycle
<1>3. dp_fires => Cycles = IF dec.use_rs THEN 2 ELSE 1
  BY <1>1 DEF dp_fires, instr_is_mul, mull_take_cycle, mull_accum_take_cycle
<1>4. instr_is_mul => Cycles = 1 + needs + (IF dec.accumulate THEN 1 ELSE 0)
  BY <1>1 DEF dp_fires, instr_is_mul, mull_take_cycle, mull_accum_take_cycle
<1>5. mull_take_cycle => Cycles = 2 + needs
  BY <1>1 DEF dp_fires, instr_is_mul, mull_take_cycle, mull_accum_take_cycle
<1>6. mull_accum_take_cycle => Cycles = 3 + needs
  BY <1>1 DEF dp_fires, instr_is_mul, mull_take_cycle, mull_accum_take_cycle
<1> QED
  BY <1>2, <1>3, <1>4, <1>5, <1>6 DEF needs

LEMMA DecodeTypes ==
    ASSUME UnitTypeOK, Decode
    PROVE  executed' \in 0 .. MaxInstructions /\ dec' \in Instructions
BY BoundAssumption DEF UnitTypeOK, Decode

LEMMA UnitInitial ==
    UnitInit => UnitInv
<1> SUFFICES ASSUME UnitInit PROVE UnitInv
  OBVIOUS
<1>1. AnyReg \in Regs
  BY DecodedTypes DEF UnitInit, AnyReg
<1>2. 0 \in Word /\ 0 \in Flag
  BY ModulusFacts DEF Word, Flag
<1>3. /\ NoShift \in [rd : Regs, result : Word, flags : Flags, writes : BOOLEAN, flags_we : BOOLEAN]
      /\ NoMull \in [rdhi : Regs, rdlo : Regs, result_hi : Word, acc_lo : Word,
                     op_a : Word, op_b : Word, signed : BOOLEAN, s : BOOLEAN]
  BY <1>1, <1>2 DEF NoShift, NoMull, Flags
<1>4. gpr \in [Regs -> Word] /\ flags \in Flags
  BY StartAssumption DEF UnitInit
<1>5. UnitTypeOK
  <2>1. executed \in 0 .. MaxInstructions
    BY BoundAssumption DEF UnitInit
  <2>2. remaining \in 0 .. 5 /\ due \in 0 .. 6
    BY DEF UnitInit
  <2>3. dec \in Instructions /\ state_q \in States /\ mul_active \in BOOLEAN
    BY DEF UnitInit, States
  <2> QED
    BY <1>3, <1>4, <2>1, <2>2, <2>3, Zenon DEF UnitInit, UnitTypeOK
<1> QED
  BY <1>5 DEF UnitInit, UnitInv, CyclesLeft

LEMMA SkipStep ==
    ASSUME UnitInv, Skip PROVE UnitInv'
<1>1. due' = 0
  BY CyclesOf DEF Skip, Decode
<1>2. executed' \in 0 .. MaxInstructions /\ dec' \in Instructions
  BY DecodeTypes DEF UnitInv, Skip
<1> QED
  BY <1>1, <1>2 DEF UnitInv, UnitTypeOK, CyclesLeft, Skip

LEMMA DataProcessingStep ==
    ASSUME UnitInv, DataProcessing PROVE UnitInv'
<1>1. due' = 0
  BY CyclesOf DEF DataProcessing, Decode, dp_shift_take_cycle
<1>2. executed' \in 0 .. MaxInstructions /\ dec' \in Instructions
  BY DecodeTypes DEF UnitInv, DataProcessing
<1>3. alu_result \in Word /\ alu_flags_merged \in Flags
  BY OperandTypes DEF UnitInv
<1>4. gpr' \in [Regs -> Word] /\ flags' \in Flags
  BY <1>3 DEF UnitInv, UnitTypeOK, DataProcessing
<1>5. state_q = "S_EXEC" /\ state_q' = "S_EXEC"
  BY DEF DataProcessing, dp_fires, passes_cond
<1> QED
  BY <1>1, <1>2, <1>4, <1>5 DEF UnitInv, UnitTypeOK, CyclesLeft, DataProcessing

LEMMA ShiftByRegisterStep ==
    ASSUME UnitInv, ShiftByRegister PROVE UnitInv'
<1>1. due' = 1
  BY CyclesOf DEF ShiftByRegister, Decode, dp_shift_take_cycle
<1>2. executed' \in 0 .. MaxInstructions /\ dec' \in Instructions
  BY DecodeTypes DEF UnitInv, ShiftByRegister
<1>3. alu_result \in Word /\ alu_flags_merged \in Flags
  BY OperandTypes DEF UnitInv
<1>4. shift_q' \in [rd : Regs, result : Word, flags : Flags, writes : BOOLEAN, flags_we : BOOLEAN]
  <2>1. dec.rd \in Regs /\ dec.s \in BOOLEAN
    BY DecodedTypes DEF UnitInv, UnitTypeOK
  <2> QED
    BY <1>3, <2>1 DEF ShiftByRegister
<1>5. state_q' = "S_DP_SHIFT"
  BY DEF ShiftByRegister
<1> QED
  BY <1>1, <1>2, <1>4, <1>5 DEF UnitInv, UnitTypeOK, CyclesLeft, ShiftByRegister, States

LEMMA ShiftCommitStep ==
    ASSUME UnitInv, ShiftCommit PROVE UnitInv'
<1>1. due = 1 /\ due' = 0 /\ state_q' = "S_EXEC"
  BY DEF UnitInv, CyclesLeft, ShiftCommit
<1>2. gpr' \in [Regs -> Word] /\ flags' \in Flags
  BY DEF UnitInv, UnitTypeOK, ShiftCommit
<1> QED
  BY <1>1, <1>2 DEF UnitInv, UnitTypeOK, CyclesLeft, ShiftCommit, States

LEMMA MultiplyStep ==
    ASSUME UnitInv, Multiply PROVE UnitInv'
<1>1. executed' \in 0 .. MaxInstructions /\ dec' \in Instructions
  BY DecodeTypes DEF UnitInv, Multiply
<1>2. /\ result_lo \in Word /\ result_hi \in Word /\ product \in DoubleWord
      /\ cycle_count \in 1 .. 4 /\ rc_data \in Word
  BY OperandTypes DEF UnitInv
<1>3. dec.rn \in Regs /\ dec.rd \in Regs /\ dec.accumulate \in BOOLEAN
  BY DecodedTypes DEF UnitInv, UnitTypeOK
<1>4. gpr' \in [Regs -> Word]
  BY <1>2, <1>3 DEF UnitInv, UnitTypeOK, Multiply
<1>5. flags' \in Flags
  <2>1. (~instr_is_mul) \in BOOLEAN
    OBVIOUS
  <2>2. ProductFlags(~instr_is_mul, product, flags) \in Flags
    BY <1>2, <2>1, ProductFlagsTypes DEF UnitInv, UnitTypeOK
  <2> QED
    BY <2>2 DEF UnitInv, UnitTypeOK, Multiply
<1>6. mull_q' \in [rdhi : Regs, rdlo : Regs, result_hi : Word, acc_lo : Word,
                   op_a : Word, op_b : Word, signed : BOOLEAN, s : BOOLEAN]
  BY <1>2, <1>3 DEF UnitInv, UnitTypeOK, Multiply
<1>7. state_q = "S_EXEC" /\ state_q' = "S_MUL_BUSY" /\ passes_cond
  BY DEF Multiply, mul_take_busy, instr_is_mul, mull_take_cycle, passes_cond
<1>8. cycle_count = Needs(rc_data)
  BY <1>2, <1>7, CountIsNeed DEF cycle_count
<1>9. /\ remaining' \in 1 .. 5 /\ mul_active' \in BOOLEAN
      /\ due' = IF mul_active' THEN remaining' + 1 ELSE remaining'
  <2>1. CASE instr_is_mul
    <3>1. Cycles = 1 + Needs(rc_data) + (IF dec.accumulate THEN 1 ELSE 0)
      BY <2>1, CyclesOf
    <3>2. ~mul_active' /\ mul_active' \in BOOLEAN
      BY <2>1 DEF instr_is_mul, Multiply
    <3>3. due' = Cycles - 1 /\ remaining' = IF dec.accumulate THEN cycle_count + 1 ELSE cycle_count
      BY DEF Multiply, Decode
    <3>4. CASE dec.accumulate
      BY <1>2, <1>8, <3>1, <3>2, <3>3, <3>4
    <3>5. CASE ~dec.accumulate
      BY <1>2, <1>8, <3>1, <3>2, <3>3, <3>5
    <3> QED
      BY <3>4, <3>5
  <2>2. CASE mull_take_cycle
    <3>1. Cycles = 2 + Needs(rc_data)
      BY <2>2, CyclesOf
    <3>2. mul_active' = TRUE /\ ~dec.accumulate
      BY <2>2 DEF mull_take_cycle, Multiply
    <3>3. due' = Cycles - 1 /\ remaining' = IF dec.accumulate THEN cycle_count + 1 ELSE cycle_count
      BY DEF Multiply, Decode
    <3> QED
      BY <1>2, <1>8, <3>1, <3>2, <3>3
  <2> QED
    BY <2>1, <2>2 DEF Multiply, mul_take_busy
<1>10. due' \in 0 .. 6 /\ remaining' \in 0 .. 5
  <2>1. remaining' \in 1 .. 5 /\ (due' = remaining' + 1 \/ due' = remaining')
    BY <1>9, Zenon
  <2> QED
    BY <2>1
<1> QED
  BY <1>1, <1>4, <1>5, <1>6, <1>7, <1>9, <1>10 DEF UnitInv, UnitTypeOK, CyclesLeft, Multiply, States

LEMMA MultiplyAccumulateStep ==
    ASSUME UnitInv, MultiplyAccumulate PROVE UnitInv'
<1>1. executed' \in 0 .. MaxInstructions /\ dec' \in Instructions
  BY DecodeTypes DEF UnitInv, MultiplyAccumulate
<1>2. ra_data \in Word /\ rb_data \in Word /\ rc_data \in Word
  BY OperandTypes DEF UnitInv
<1>3. dec.rn \in Regs /\ dec.rd \in Regs /\ dec.signed \in BOOLEAN /\ dec.s \in BOOLEAN
  BY DecodedTypes DEF UnitInv, UnitTypeOK
<1>4. /\ mull_q' \in [rdhi : Regs, rdlo : Regs, result_hi : Word, acc_lo : Word,
                      op_a : Word, op_b : Word, signed : BOOLEAN, s : BOOLEAN]
      /\ mull_q'.op_b = rc_data
  BY <1>2, <1>3 DEF UnitInv, UnitTypeOK, MultiplyAccumulate
<1>5. due' = 2 + CycleCount(mull_q'.op_b) /\ due' \in 0 .. 6
  <2>1. Cycles = 3 + Needs(rc_data)
    BY CyclesOf DEF MultiplyAccumulate
  <2>2. due' = Cycles - 1
    BY DEF MultiplyAccumulate, Decode
  <2>3. CycleCount(rc_data) = Needs(rc_data) /\ CycleCount(rc_data) \in 1 .. 4
    BY <1>2, CountIsNeed
  <2> QED
    BY <1>4, <2>1, <2>2, <2>3
<1>6. state_q' = "S_MULL_ACC" /\ mul_active' = TRUE
  BY DEF MultiplyAccumulate
<1> QED
  BY <1>1, <1>4, <1>5, <1>6 DEF UnitInv, UnitTypeOK, CyclesLeft, MultiplyAccumulate, States

LEMMA AccumulateHighStep ==
    ASSUME UnitInv, AccumulateHigh PROVE UnitInv'
<1>1. /\ result_lo \in Word /\ result_hi \in Word /\ product \in DoubleWord
      /\ cycle_count \in 1 .. 4
  BY OperandTypes DEF UnitInv
<1>2. mull_q.rdlo \in Regs /\ mull_q.s \in BOOLEAN
  BY DEF UnitInv, UnitTypeOK
<1>3. gpr' \in [Regs -> Word]
  BY <1>1, <1>2 DEF UnitInv, UnitTypeOK, AccumulateHigh
<1>4. flags' \in Flags
  <2>1. ProductFlags(TRUE, product, flags) \in Flags
    BY <1>1, ProductFlagsTypes DEF UnitInv, UnitTypeOK
  <2> QED
    BY <2>1 DEF UnitInv, UnitTypeOK, AccumulateHigh
<1>5. mull_q' \in [rdhi : Regs, rdlo : Regs, result_hi : Word, acc_lo : Word,
                   op_a : Word, op_b : Word, signed : BOOLEAN, s : BOOLEAN]
  BY <1>1 DEF UnitInv, UnitTypeOK, AccumulateHigh
<1>6. /\ state_q' = "S_MUL_BUSY" /\ mul_active /\ mul_active' = mul_active
      /\ due = 2 + cycle_count /\ due' = due - 1 /\ remaining' = cycle_count
  BY DEF UnitInv, CyclesLeft, AccumulateHigh, cycle_count
<1>7. due' = remaining' + 1 /\ remaining' >= 1 /\ due' \in 0 .. 6 /\ remaining' \in 0 .. 5
  BY <1>1, <1>6
<1>8. CyclesLeft'
  BY <1>6, <1>7 DEF CyclesLeft
<1> QED
  BY <1>3, <1>4, <1>5, <1>6, <1>7, <1>8 DEF UnitInv, UnitTypeOK, AccumulateHigh, States

LEMMA BusyStep ==
    ASSUME UnitInv, Busy PROVE UnitInv'
<1>1. /\ remaining \in 1 .. 5 /\ mul_active \in BOOLEAN /\ due \in 0 .. 6
      /\ due = IF mul_active THEN remaining + 1 ELSE remaining
  BY DEF UnitInv, UnitTypeOK, CyclesLeft, Busy
<1>2. remaining' = remaining - 1 /\ due' = due - 1 /\ mul_active' = mul_active
  BY <1>1 DEF Busy
<1>3. state_q' \in States /\ CyclesLeft'
  BY <1>1, <1>2 DEF Busy, States, CyclesLeft
<1>4. due' \in 0 .. 6 /\ remaining' \in 0 .. 5
  BY <1>1, <1>2
<1> QED
  BY <1>3, <1>4 DEF UnitInv, UnitTypeOK, Busy

LEMMA WriteHighStep ==
    ASSUME UnitInv, WriteHigh PROVE UnitInv'
<1>1. due = 1 /\ due' = 0 /\ state_q' = "S_EXEC"
  BY DEF UnitInv, CyclesLeft, WriteHigh
<1>2. gpr' \in [Regs -> Word]
  BY DEF UnitInv, UnitTypeOK, WriteHigh
<1> QED
  BY <1>1, <1>2 DEF UnitInv, UnitTypeOK, CyclesLeft, WriteHigh, States

LEMMA UnitInductive ==
    ASSUME UnitInv, [UnitNext]_unit_vars
    PROVE  UnitInv'
<1>1. CASE UnitNext
  BY <1>1, SkipStep, DataProcessingStep, ShiftByRegisterStep, ShiftCommitStep, MultiplyStep,
     MultiplyAccumulateStep, AccumulateHighStep, BusyStep, WriteHighStep DEF UnitNext
<1>2. CASE UNCHANGED unit_vars
  BY <1>2 DEF unit_vars, UnitInv, UnitTypeOK, CyclesLeft
<1> QED
  BY <1>1, <1>2

(* For every word size that is a multiple of four the registers of the unit  *)
(* keep their types: no result is wider than a word, no counter runs past    *)
(* what it can hold.                                                         *)
THEOREM UnitTypes == UnitSpec => []UnitTypeOK
<1>1. UnitInv => UnitTypeOK
  BY DEF UnitInv
<1> QED
  BY <1>1, UnitInitial, UnitInductive, PTL DEF UnitSpec

(* For every word size Execute is ready exactly when the cycles of the       *)
(* timing table have passed, and the early termination that looks at the     *)
(* bytes of Rs for zeros and ones counts the bytes its signed value needs.   *)
THEOREM TimedByTable == UnitSpec => []CyclesExact
<1>1. UnitInv => CyclesExact
  <2> SUFFICES ASSUME UnitInv PROVE CyclesExact
    OBVIOUS
  <2>1. CycleCount(mull_q.op_b) \in 1 .. 4
    BY CountIsNeed DEF UnitInv, UnitTypeOK
  <2> QED
    BY <2>1 DEF UnitInv, UnitTypeOK, CyclesLeft, CyclesExact, States
<1> QED
  BY <1>1, UnitInitial, UnitInductive, PTL DEF UnitSpec

LEMMA SignedIs ==
    \A x \in Word : Signed(x) = IF x >= Half THEN x - Modulus ELSE x
<1>1. Modulus \div 2 = Half
  BY ModulusFacts
<1> QED
  BY <1>1 DEF Signed

(* A number of one bit more than a word: its carry and its top bit.          *)
LEMMA SumSplits ==
    ASSUME NEW s \in Nat, s < 2 * Modulus
    PROVE  /\ s \div Modulus = IF s >= Modulus THEN 1 ELSE 0
           /\ s % Modulus = IF s >= Modulus THEN s - Modulus ELSE s
           /\ s % Modulus \in Word
           /\ Top(s) = IF s % Modulus >= Half THEN 1 ELSE 0
<1>1. /\ Half \in Nat /\ Half >= 1 /\ Modulus = 2 * Half /\ Modulus \in Nat /\ Modulus >= 1
  BY ModulusFacts
<1>2. \A k \in 0 .. 1, r \in 0 .. Modulus - 1 : s = k * Modulus + r => s \div Modulus = k /\ s % Modulus = r
  BY <1>1, DivisionUnique
<1>3. \A k \in 0 .. 3, r \in 0 .. Half - 1 : s = k * Half + r => s \div Half = k
  BY <1>1, DivisionUnique
<1>4. Top(s) = (s \div Half) % 2
  BY DEF Top, Bit, Half
<1>5. CASE s >= Modulus
  <2>1. s \div Modulus = 1 /\ s % Modulus = s - Modulus
    <3>1. s = 1 * Modulus + (s - Modulus) /\ s - Modulus \in 0 .. Modulus - 1
      BY <1>1, <1>5
    <3> QED
      BY <1>2, <3>1
  <2>2. Top(s) = IF s - Modulus >= Half THEN 1 ELSE 0
    <3>1. CASE s - Modulus >= Half
      <4>1. s = 3 * Half + (s - 3 * Half) /\ s - 3 * Half \in 0 .. Half - 1
        BY <1>1, <3>1
      <4>2. s \div Half = 3
        BY <1>3, <4>1
      <4> QED
        BY <1>4, <3>1, <4>2
    <3>2. CASE ~(s - Modulus >= Half)
      <4>1. s = 2 * Half + (s - 2 * Half) /\ s - 2 * Half \in 0 .. Half - 1
        BY <1>1, <1>5, <3>2
      <4>2. s \div Half = 2
        BY <1>3, <4>1
      <4> QED
        BY <1>4, <3>2, <4>2
    <3> QED
      BY <3>1, <3>2
  <2> QED
    BY <1>1, <1>5, <2>1, <2>2 DEF Word
<1>6. CASE s < Modulus
  <2>1. s \div Modulus = 0 /\ s % Modulus = s
    <3>1. s = 0 * Modulus + s /\ s \in 0 .. Modulus - 1
      BY <1>1, <1>6
    <3> QED
      BY <1>2, <3>1
  <2>2. s \in Word
    BY <1>1, <1>6 DEF Word
  <2> QED
    BY <1>1, <1>6, <2>1, <2>2, TopOfWord
<1> QED
  BY <1>1, <1>5, <1>6

(* What the adder's four outputs mean, as numbers: the result and the carry  *)
(* are the sum, and overflow says that the signed sum is another.            *)
LEMMA AdderMeans ==
    ASSUME NEW op \in Arithmetics, NEW a \in Word, NEW b \in Word, NEW f \in Flags, NEW s \in Flag
    PROVE  LET A == AdderA(op, a, b)
               B == AdderB(op, a, b)
               cin == AdderCarry(op, f.c)
               R == AluResult(op, a, b, f.c)
               g == AluFlags(op, a, b, f, s)
           IN /\ A \in Word /\ B \in Word /\ cin \in Flag /\ R \in Word
              /\ g.n \in Flag /\ g.z \in Flag /\ g.c \in Flag /\ g.v \in Flag
              /\ A + B + cin = R + g.c * Modulus
              /\ g.n = 1 <=> Signed(R) < 0
              /\ g.z = 1 <=> R = 0
              /\ g.v = 0 <=> Signed(R) = Signed(A) + Signed(B) + cin
<1> DEFINE A == AdderA(op, a, b)
           B == AdderB(op, a, b)
           cin == AdderCarry(op, f.c)
           R == AluResult(op, a, b, f.c)
           g == AluFlags(op, a, b, f, s)
           sum == SumExt(op, a, b, f.c)
<1>1. /\ Half \in Nat /\ Half >= 1 /\ Modulus = 2 * Half /\ Modulus \in Nat /\ Modulus >= 1
  BY ModulusFacts
<1>2. f.c \in Flag
  BY DEF Flags
<1>3. A \in Word /\ B \in Word /\ cin \in Flag /\ sum \in Nat /\ sum < 2 * Modulus /\ sum = A + B + cin
  BY <1>2, SumRange DEF SumExt
<1>4. R = sum % Modulus
  BY DEF AluResult, Arithmetics, Subtracts, UsesCarry
<1>5. /\ g.n = Top(R) /\ g.z = (IF R = 0 THEN 1 ELSE 0)
      /\ g.c = sum \div Modulus
      /\ g.v = (sum \div Modulus + ((Top(sum) + Top(A) + Top(B)) % 2)) % 2
  BY DEF AluFlags, Overflow
<1> HIDE DEF A, B, cin, R, g, sum
<1>6. /\ g.c = IF sum >= Modulus THEN 1 ELSE 0
      /\ R = IF sum >= Modulus THEN sum - Modulus ELSE sum
      /\ R \in Word
      /\ Top(sum) = IF R >= Half THEN 1 ELSE 0
  BY <1>3, <1>4, <1>5, SumSplits
<1>7. /\ Top(A) = IF A >= Half THEN 1 ELSE 0
      /\ Top(B) = IF B >= Half THEN 1 ELSE 0
      /\ Top(R) = IF R >= Half THEN 1 ELSE 0
  BY <1>3, <1>6, TopOfWord
<1>8. /\ Signed(A) = IF A >= Half THEN A - Modulus ELSE A
      /\ Signed(B) = IF B >= Half THEN B - Modulus ELSE B
      /\ Signed(R) = IF R >= Half THEN R - Modulus ELSE R
  BY <1>3, <1>6, SignedIs
<1>9. A \in Nat /\ B \in Nat /\ R \in Nat /\ A < Modulus /\ B < Modulus /\ R < Modulus /\ cin \in {0, 1}
  BY <1>1, <1>3, <1>6 DEF Word, Flag
<1>10. g.v = (g.c + ((Top(sum) + Top(A) + Top(B)) % 2)) % 2
  BY <1>5
<1>11. g.v \in {0, 1} /\ (g.v = 0 <=> Signed(R) = Signed(A) + Signed(B) + cin)
  BY <1>1, <1>3, <1>6, <1>7, <1>8, <1>9, <1>10
<1>12. g.n \in {0, 1} /\ (g.n = 1 <=> Signed(R) < 0)
  BY <1>1, <1>5, <1>7, <1>8, <1>9
<1>13. g.z \in {0, 1} /\ (g.z = 1 <=> R = 0) /\ g.c \in {0, 1} /\ A + B + cin = R + g.c * Modulus
  BY <1>1, <1>3, <1>5, <1>6, <1>9
<1> QED
  BY <1>3, <1>6, <1>11, <1>12, <1>13 DEF Flag, A, B, cin, R, g

LEMMA Complement ==
    ASSUME NEW b \in Word
    PROVE  Ones - b \in Word /\ Signed(Ones - b) = -1 - Signed(b)
<1>1. /\ Half \in Nat /\ Half >= 1 /\ Modulus = 2 * Half /\ b \in Nat /\ b < Modulus
      /\ Ones - b = Modulus - 1 - b
  BY ModulusFacts DEF Word, Ones
<1>2. Ones - b \in Word
  BY <1>1 DEF Word
<1>3. /\ Signed(b) = IF b >= Half THEN b - Modulus ELSE b
      /\ Signed(Ones - b) = IF Ones - b >= Half THEN Ones - b - Modulus ELSE Ones - b
  BY <1>2, SignedIs
<1> QED
  BY <1>1, <1>2, <1>3

(* The conditions after CMP.                                                 *)
LEMMA CompareMeans ==
    ASSUME NEW a \in Word, NEW b \in Word, NEW f \in Flags, NEW s \in Flag
    PROVE  LET g == AluFlags("CMP", a, b, f, s)
           IN /\ g.n \in Flag /\ g.z \in Flag /\ g.c \in Flag /\ g.v \in Flag
              /\ g.z = 1 <=> a = b
              /\ g.c = 1 <=> a >= b
              /\ g.n = g.v <=> Signed(a) >= Signed(b)
              /\ Signed(a) = Signed(b) <=> a = b
<1> DEFINE g == AluFlags("CMP", a, b, f, s)
           R == AluResult("CMP", a, b, f.c)
<1>1. /\ Half \in Nat /\ Half >= 1 /\ Modulus = 2 * Half /\ Modulus \in Nat
      /\ a \in Nat /\ a < Modulus /\ b \in Nat /\ b < Modulus
  BY ModulusFacts DEF Word
<1>2. AdderA("CMP", a, b) = a /\ AdderB("CMP", a, b) = Ones - b /\ AdderCarry("CMP", f.c) = 1
  BY DEF AdderA, AdderB, AdderCarry, Reversed, Subtracts, UsesCarry
<1>3. "CMP" \in Arithmetics
  BY DEF Arithmetics, Subtracts
<1>4. /\ R \in Word
      /\ g.n \in Flag /\ g.z \in Flag /\ g.c \in Flag /\ g.v \in Flag
      /\ a + (Ones - b) + 1 = R + g.c * Modulus
      /\ g.n = 1 <=> Signed(R) < 0
      /\ g.z = 1 <=> R = 0
      /\ g.v = 0 <=> Signed(R) = Signed(a) + Signed(Ones - b) + 1
  BY <1>2, <1>3, AdderMeans
<1> HIDE DEF g, R
<1>5. /\ Signed(a) = IF a >= Half THEN a - Modulus ELSE a
      /\ Signed(b) = IF b >= Half THEN b - Modulus ELSE b
      /\ Signed(R) = IF R >= Half THEN R - Modulus ELSE R
  BY <1>4, SignedIs
<1>6. Signed(Ones - b) = -1 - Signed(b)
  BY Complement
<1>7. /\ R \in Nat /\ R < Modulus /\ g.n \in {0, 1} /\ g.c \in {0, 1} /\ g.v \in {0, 1} /\ g.z \in {0, 1}
      /\ a - b + Modulus = R + g.c * Modulus
      /\ g.v = 0 <=> Signed(R) = Signed(a) - Signed(b)
  BY <1>1, <1>4, <1>5, <1>6 DEF Word, Flag, Ones
<1> DEFINE n == g.n
           z == g.z
           c == g.c
           v == g.v
<1>8. /\ n \in {0, 1} /\ c \in {0, 1} /\ v \in {0, 1} /\ z \in {0, 1}
      /\ c = 1 => R = a - b
      /\ c = 0 => R = a - b + Modulus
      /\ n = 1 <=> Signed(R) < 0
      /\ z = 1 <=> R = 0
      /\ v = 0 <=> Signed(R) = Signed(a) - Signed(b)
  BY <1>1, <1>4, <1>7
<1> HIDE DEF n, z, c, v
<1>9. (z = 1 <=> a = b) /\ (c = 1 <=> a >= b) /\ (n = v <=> Signed(a) >= Signed(b))
  BY <1>1, <1>5, <1>7, <1>8
<1>10. Signed(a) = Signed(b) <=> a = b
  BY <1>1, <1>5
<1> QED
  BY <1>4, <1>9, <1>10 DEF g, n, z, c, v

LEMMA ComparisonsDecided ==
    ASSUME UnitTypeOK
    PROVE  CompareDecides
<1> SUFFICES ASSUME dec.op = "CMP" PROVE CompareDecides
  BY DEF CompareDecides
<1> DEFINE a == ra_data
           b == shifter.result
           g == alu_flags_merged
<1>1. a \in Word /\ b \in Word /\ shifter.carry \in Flag /\ flags \in Flags
  BY OperandTypes DEF UnitTypeOK
<1>2. g = AluFlags("CMP", a, b, flags, shifter.carry)
  BY DEF alu_flags_merged
<1> HIDE DEF a, b, g
<1>3. /\ g.n \in Flag /\ g.z \in Flag /\ g.c \in Flag /\ g.v \in Flag
      /\ g.z = 1 <=> a = b
      /\ g.c = 1 <=> a >= b
      /\ g.n = g.v <=> Signed(a) >= Signed(b)
      /\ Signed(a) = Signed(b) <=> a = b
  BY <1>1, <1>2, CompareMeans
<1>4. a \in Nat /\ b \in Nat /\ Signed(a) \in Int /\ Signed(b) \in Int
  BY <1>1, SignedIs, ModulusFacts DEF Word
<1>5. /\ ConditionPass("EQ", g) <=> a = b
      /\ ConditionPass("NE", g) <=> a # b
      /\ ConditionPass("CS", g) <=> a >= b
      /\ ConditionPass("CC", g) <=> a < b
      /\ ConditionPass("HI", g) <=> a > b
      /\ ConditionPass("LS", g) <=> a <= b
  BY <1>3, <1>4 DEF ConditionPass, Flag
<1>6. /\ ConditionPass("GE", g) <=> Signed(a) >= Signed(b)
      /\ ConditionPass("LT", g) <=> Signed(a) < Signed(b)
      /\ ConditionPass("GT", g) <=> Signed(a) > Signed(b)
      /\ ConditionPass("LE", g) <=> Signed(a) <= Signed(b)
  BY <1>3, <1>4 DEF ConditionPass, Flag
<1> QED
  BY <1>5, <1>6 DEF CompareDecides, a, b, g

Double == Modulus * Modulus
SignedOfDouble(d) == IF d >= Double \div 2 THEN d - Double ELSE d

LEMMA DoubleFacts ==
    /\ Double \in Nat /\ Double >= 1 /\ Double \div 2 = Half * Modulus
    /\ \A h, l \in Word : /\ h * Modulus + l \in 0 .. Double - 1
                          /\ SignedOfDouble(h * Modulus + l) = Signed(h) * Modulus + l
<1>1. /\ Half \in Nat /\ Half >= 1 /\ Modulus = 2 * Half /\ Modulus \in Nat /\ Modulus >= 1
  BY ModulusFacts
<1>2. Double \in Nat /\ Double >= 1 /\ Double = 2 * (Half * Modulus) /\ Half * Modulus \in Nat
  BY <1>1 DEF Double
<1>3. Double \div 2 = Half * Modulus
  BY <1>2
<1>4. ASSUME NEW h \in Word, NEW l \in Word
      PROVE  /\ h * Modulus + l \in 0 .. Double - 1
             /\ SignedOfDouble(h * Modulus + l) = Signed(h) * Modulus + l
  <2>1. h \in Nat /\ h < Modulus /\ l \in Nat /\ l < Modulus /\ Signed(h) = IF h >= Half THEN h - Modulus ELSE h
    BY <1>1, SignedIs DEF Word
  <2> DEFINE high == h * Modulus
  <2>2. high \in Nat /\ high <= Double - Modulus
    <3>1. (Modulus - 1 - h) * Modulus >= 0 /\ (Modulus - 1 - h) * Modulus = Double - Modulus - high
      BY <1>1, <2>1 DEF Double
    <3> QED
      BY <1>1, <1>2, <2>1, <3>1
  <2>3. h >= Half => high >= Half * Modulus
    <3>1. h >= Half => (h - Half) * Modulus >= 0 /\ (h - Half) * Modulus = high - Half * Modulus
      BY <1>1, <2>1
    <3> QED
      BY <1>2, <2>2, <3>1
  <2>4. h < Half => high <= Half * Modulus - Modulus
    <3>1. h < Half => (Half - 1 - h) * Modulus >= 0 /\ (Half - 1 - h) * Modulus = Half * Modulus - Modulus - high
      BY <1>1, <2>1
    <3> QED
      BY <1>1, <1>2, <2>2, <3>1
  <2>5. (h - Modulus) * Modulus = high - Double
    BY <1>1, <2>1 DEF Double
  <2> HIDE DEF high
  <2>6. high + l \in 0 .. Double - 1
    BY <1>1, <1>2, <2>1, <2>2
  <2>7. SignedOfDouble(high + l) = IF h >= Half THEN (high + l) - Double ELSE high + l
    <3>1. high + l >= Half * Modulus <=> h >= Half
      BY <1>1, <1>2, <2>1, <2>2, <2>3, <2>4
    <3>2. SignedOfDouble(high + l) = IF high + l >= Half * Modulus THEN (high + l) - Double ELSE high + l
      BY <1>3, Zenon DEF SignedOfDouble
    <3> QED
      BY <3>1, <3>2, Zenon
  <2>8. high + l = h * Modulus + l
    BY DEF high
  <2>9. Signed(h) * Modulus + l = IF h >= Half THEN (high + l) - Double ELSE high + l
    <3>1. CASE h >= Half
      <4>1. Signed(h) * Modulus = high - Double
        BY <2>1, <2>5, <3>1
      <4> QED
        BY <1>2, <2>1, <2>2, <3>1, <4>1
    <3>2. CASE ~(h >= Half)
      <4>1. Signed(h) * Modulus = high
        BY <2>1, <3>2 DEF high
      <4> QED
        BY <3>2, <4>1
    <3> QED
      BY <3>1, <3>2
  <2> QED
    BY <2>6, <2>7, <2>8, <2>9
<1> QED
  BY <1>2, <1>3, <1>4

(* What a chain of two instructions computes of two double words.            *)
ExactOf(op, x, y) ==
  CASE op = "ADD" -> x + y
    [] op = "SUB" -> x - y
    [] op = "RSB" -> y - x

ChainExact(op, a, b, f, t, p, s) ==
  LET R1 == AluResult(op, a, b, f.c)
      g1 == AluFlags(op, a, b, f, t)
      R2 == AluResult(Chained[op], p, s, g1.c)
      g2 == AluFlags(Chained[op], p, s, g1, 0)
      x == p * Modulus + a
      y == s * Modulus + b
      value == R2 * Modulus + R1
  IN /\ value = ExactOf(op, x, y) % Double
     /\ g2.c = 1 <=> IF op = "ADD" THEN x + y >= Double ELSE ExactOf(op, x, y) >= 0
     /\ g2.v = 1 <=> SignedOfDouble(value) # ExactOf(op, SignedOfDouble(x), SignedOfDouble(y))

LEMMA ChainMeans ==
    ASSUME NEW op \in {"ADD", "SUB", "RSB"},
           NEW a \in Word, NEW b \in Word, NEW f \in Flags, NEW t \in Flag,
           NEW p \in Word, NEW s \in Word
    PROVE  ChainExact(op, a, b, f, t, p, s)
<1> DEFINE R1 == AluResult(op, a, b, f.c)
           g1 == AluFlags(op, a, b, f, t)
           up == Chained[op]
           R2 == AluResult(up, p, s, g1.c)
           g2 == AluFlags(up, p, s, g1, 0)
           A1 == AdderA(op, a, b)
           B1 == AdderB(op, a, b)
           A2 == AdderA(up, p, s)
           B2 == AdderB(up, p, s)
           cin == AdderCarry(op, f.c)
           x == p * Modulus + a
           y == s * Modulus + b
           value == R2 * Modulus + R1
           sx == Signed(p) * Modulus + a
           sy == Signed(s) * Modulus + b
           add == op = "ADD"
           exact == ExactOf(op, x, y)
           sexact == ExactOf(op, sx, sy)
<1>1. /\ op \in Arithmetics /\ op \in AluOps /\ up \in Arithmetics
      /\ AdderCarry(up, g1.c) = g1.c /\ cin = IF add THEN 0 ELSE 1
  <2>1. up = CASE op = "ADD" -> "ADC" [] op = "SUB" -> "SBC" [] op = "RSB" -> "RSC"
    BY DEF Chained
  <2> HIDE DEF g1, up
  <2> QED
    BY <2>1 DEF Arithmetics, AluOps, Subtracts, UsesCarry, AdderCarry
<1>2. /\ op = "ADD" => A1 = a /\ B1 = b /\ A2 = p /\ B2 = s
      /\ op = "SUB" => A1 = a /\ B1 = Ones - b /\ A2 = p /\ B2 = Ones - s
      /\ op = "RSB" => A1 = b /\ B1 = Ones - a /\ A2 = s /\ B2 = Ones - p
  BY DEF Chained, AdderA, AdderB, Reversed, Subtracts
<1>3. g1 \in Flags /\ 0 \in Flag
  BY <1>1, AluFlagsTypes DEF Flag
<1>4. /\ A1 \in Word /\ B1 \in Word /\ cin \in Flag /\ R1 \in Word /\ g1.c \in Flag
      /\ A1 + B1 + cin = R1 + g1.c * Modulus
  BY <1>1, AdderMeans
<1>5. /\ A2 \in Word /\ B2 \in Word /\ R2 \in Word /\ g2.c \in Flag /\ g2.v \in Flag
      /\ A2 + B2 + g1.c = R2 + g2.c * Modulus
      /\ g2.v = 0 <=> Signed(R2) = Signed(A2) + Signed(B2) + g1.c
  <2> HIDE DEF g1, up
  <2> QED
    BY <1>1, <1>3, AdderMeans
<1> HIDE DEF R1, g1, up, R2, g2, A1, B1, A2, B2, cin
<1> DEFINE c1 == g1.c
           c2 == g2.c
           v == g2.v
           T == Signed(A2) + Signed(B2) + c1
<1>6. /\ c1 \in Flag /\ c2 \in Flag /\ v \in Flag
      /\ A1 + B1 + cin = R1 + c1 * Modulus /\ A2 + B2 + c1 = R2 + c2 * Modulus
  BY <1>4, <1>5
<1>7. /\ (A2 * Modulus + A1) + (B2 * Modulus + B1) + cin = value + c2 * Double
      /\ (Signed(A2) * Modulus + A1) + (Signed(B2) * Modulus + B1) + cin = T * Modulus + R1
  <2> HIDE DEF c1, c2, value, T
  <2>1. /\ Modulus \in Nat /\ A1 \in Nat /\ B1 \in Nat /\ R1 \in Nat
        /\ A2 \in Nat /\ B2 \in Nat /\ R2 \in Nat /\ cin \in Nat /\ c1 \in Nat /\ c2 \in Nat
        /\ Signed(A2) \in Int /\ Signed(B2) \in Int
    BY <1>4, <1>5, <1>6, SignedIs, ModulusFacts DEF Word, Flag
  <2>2. (A2 + B2 + c1) * Modulus = R2 * Modulus + c2 * Double
    <3>1. (R2 + c2 * Modulus) * Modulus = R2 * Modulus + c2 * (Modulus * Modulus)
      BY <2>1
    <3> QED
      BY <1>6, <3>1 DEF Double
  <2>3. /\ (A2 + B2 + c1) * Modulus = A2 * Modulus + B2 * Modulus + c1 * Modulus
        /\ (Signed(A2) + Signed(B2) + c1) * Modulus
             = Signed(A2) * Modulus + Signed(B2) * Modulus + c1 * Modulus
    BY <2>1
  <2> DEFINE mA == A2 * Modulus
             mB == B2 * Modulus
             mR == R2 * Modulus
             mc == c1 * Modulus
             md == c2 * Double
             nA == Signed(A2) * Modulus
             nB == Signed(B2) * Modulus
             nT == (Signed(A2) + Signed(B2) + c1) * Modulus
  <2>4. /\ mA \in Int /\ mB \in Int /\ mR \in Int /\ mc \in Int /\ md \in Int /\ nA \in Int /\ nB \in Int
        /\ mA + mB + mc = mR + md /\ nT = nA + nB + mc /\ A1 + B1 + cin = R1 + mc
    BY <1>6, <2>1, <2>2, <2>3 DEF Double
  <2> HIDE DEF mA, mB, mR, mc, md, nA, nB, nT
  <2>5. (mA + A1) + (mB + B1) + cin = (mR + R1) + md /\ (nA + A1) + (nB + B1) + cin = nT + R1
    BY <2>1, <2>4
  <2> QED
    BY <2>5 DEF mA, mB, mR, md, nA, nB, nT, value, T
<1>8. /\ p \in Nat /\ s \in Nat /\ a \in Nat /\ b \in Nat /\ Modulus \in Nat /\ Modulus >= 1
      /\ Signed(p) \in Int /\ Signed(s) \in Int /\ Ones = Modulus - 1
      /\ Signed(Ones - p) = -1 - Signed(p) /\ Signed(Ones - s) = -1 - Signed(s)
  BY ModulusFacts, SignedIs, Complement DEF Word, Ones
<1>9. /\ x \in Int /\ y \in Int /\ sx \in Int /\ sy \in Int
      /\ (Ones - s) * Modulus + (Ones - b) = Double - 1 - y
      /\ (Ones - p) * Modulus + (Ones - a) = Double - 1 - x
      /\ (-1 - Signed(s)) * Modulus + (Ones - b) = -1 - sy
      /\ (-1 - Signed(p)) * Modulus + (Ones - a) = -1 - sx
  BY <1>8 DEF Double
<1>10. /\ (A2 * Modulus + A1) + (B2 * Modulus + B1) + cin = exact + (IF add THEN 0 ELSE Double)
       /\ (Signed(A2) * Modulus + A1) + (Signed(B2) * Modulus + B1) + cin = sexact
  <2>1. CASE op = "ADD"
    BY <1>1, <1>2, <1>9, <2>1 DEF ExactOf
  <2>2. CASE op = "SUB"
    <3>1. A2 * Modulus + A1 = x /\ B2 * Modulus + B1 = Double - 1 - y
      BY <1>2, <1>9, <2>2
    <3>2. Signed(A2) * Modulus + A1 = sx /\ Signed(B2) * Modulus + B1 = -1 - sy
      BY <1>2, <1>8, <1>9, <2>2
    <3>3. exact = x - y /\ sexact = sx - sy /\ cin = 1 /\ ~add
      BY <1>1, <2>2 DEF ExactOf
    <3>4. x \in Int /\ y \in Int /\ sx \in Int /\ sy \in Int /\ Double \in Int
      BY <1>9, DoubleFacts
    <3> HIDE DEF x, y, sx, sy, exact, sexact, add
    <3> QED
      BY <3>1, <3>2, <3>3, <3>4
  <2>3. CASE op = "RSB"
    <3>1. A2 * Modulus + A1 = y /\ B2 * Modulus + B1 = Double - 1 - x
      BY <1>2, <1>9, <2>3
    <3>2. Signed(A2) * Modulus + A1 = sy /\ Signed(B2) * Modulus + B1 = -1 - sx
      BY <1>2, <1>8, <1>9, <2>3
    <3>3. exact = y - x /\ sexact = sy - sx /\ cin = 1 /\ ~add
      BY <1>1, <2>3 DEF ExactOf
    <3>4. x \in Int /\ y \in Int /\ sx \in Int /\ sy \in Int /\ Double \in Int
      BY <1>9, DoubleFacts
    <3> HIDE DEF x, y, sx, sy, exact, sexact, add
    <3> QED
      BY <3>1, <3>2, <3>3, <3>4
  <2> QED
    BY <2>1, <2>2, <2>3
<1>11. exact \in Int /\ Double \in Nat /\ Double >= 1 /\ value \in 0 .. Double - 1
  BY <1>4, <1>5, <1>9, DoubleFacts DEF ExactOf
<1>12. /\ SignedOfDouble(value) = Signed(R2) * Modulus + R1
       /\ SignedOfDouble(x) = sx /\ SignedOfDouble(y) = sy
  BY <1>4, <1>5, DoubleFacts
<1> HIDE DEF c1, c2, v, T, value, exact, sexact, x, y, sx, sy
<1>13. exact = (IF add THEN c2 ELSE c2 - 1) * Double + value
  BY <1>6, <1>7, <1>10, <1>11 DEF Flag
<1>14. exact % Double = value
  <2>1. (IF add THEN c2 ELSE c2 - 1) \in Int
    BY <1>6 DEF Flag
  <2> QED
    BY <1>11, <1>13, <2>1, DivisionUnique
<1>15. c2 = 1 <=> IF add THEN exact >= Double ELSE exact >= 0
  BY <1>6, <1>11, <1>13 DEF Flag
<1>16. v = 1 <=> Signed(R2) * Modulus + R1 # sexact
  <2> DEFINE S == Signed(R2)
  <2>1. /\ S \in Int /\ T \in Int /\ R1 \in Int /\ sexact = T * Modulus + R1
        /\ v = 0 <=> S = T
    <3>1. Signed(A2) \in Int /\ Signed(B2) \in Int /\ Signed(R2) \in Int /\ R1 \in Int /\ c1 \in Int
      BY <1>4, <1>5, <1>6, <1>8, SignedIs, ModulusFacts DEF Word, Flag
    <3> QED
      BY <1>5, <1>7, <1>10, <3>1 DEF T, v, c1
  <2> HIDE DEF S
  <2>2. S * Modulus + R1 = T * Modulus + R1 <=> S = T
    <3>1. (S - T) * Modulus = S * Modulus - T * Modulus
      BY <1>8, <2>1
    <3>2. S # T => (S - T) * Modulus # 0
      BY <1>8, <2>1
    <3> QED
      BY <1>8, <2>1, <3>1, <3>2
  <2> QED
    BY <1>6, <2>1, <2>2 DEF S, Flag
<1>17. add => exact = x + y
  BY DEF exact, ExactOf
<1> QED
  BY <1>12, <1>14, <1>15, <1>16, <1>17
     DEF ChainExact, R1, g1, up, R2, g2, c1, c2, v, value, exact, sexact, x, y, sx, sy

LEMMA ChainsDecided ==
    ASSUME UnitTypeOK
    PROVE  DoubleWords
<1> SUFFICES ASSUME dec.op \in DOMAIN Chained, NEW r \in Regs, NEW q \in Regs
             PROVE  ChainExact(dec.op, ra_data, shifter.result, flags, shifter.carry, gpr[r], gpr[q])
  BY DEF DoubleWords, ChainExact, ExactOf, Double, SignedOfDouble, alu_result, alu_flags_merged
<1>1. dec.op \in {"ADD", "SUB", "RSB"}
  BY DEF Chained
<1>2. /\ ra_data \in Word /\ shifter.result \in Word /\ shifter.carry \in Flag
      /\ gpr[r] \in Word /\ gpr[q] \in Word /\ flags \in Flags
  BY OperandTypes DEF UnitTypeOK
<1> QED
  BY <1>1, <1>2, ChainMeans

(* For every word size a condition after CMP is the comparison of the        *)
(* unsigned or signed values it compares, and an addition or subtraction     *)
(* followed by its form with carry computes a double word, carry and         *)
(* overflow included, whatever the registers hold.                           *)
THEOREM FlagsAreNumbers == UnitSpec => []FlagsDecide
<1>1. UnitInv => FlagsDecide
  BY ComparisonsDecided, ChainsDecided DEF UnitInv, FlagsDecide
<1> QED
  BY <1>1, UnitInitial, UnitInductive, PTL DEF UnitSpec

-----------------------------------------------------------------------------
(* The unit implements the arithmetic of numbers: its blocks first, then its  *)
(* steps.                                                                    *)

(* The operators of the abstract specification that are those of the        *)
(* datapath.                                                                *)
LEMMA PromiseWords ==
    /\ Promise!Power = Power
    /\ Promise!Modulus = Modulus
    /\ \A x \in Word : Promise!Signed(x) = Signed(x)
    /\ \A x : \A i : Promise!Bit(x, i) = Bit(x, i)
<1>1. Promise!Power = Power
  BY Zenon DEF Power, Promise!Power
<1>2. Promise!Modulus = Modulus
  BY <1>1 DEF Modulus, Promise!Modulus
<1>3. \A x : \A i : Promise!Bit(x, i) = Bit(x, i)
  BY <1>1 DEF Bit, Promise!Bit
<1>4. ASSUME NEW x \in Word PROVE Promise!Signed(x) = Signed(x)
  BY <1>2, SignedIs, ModulusFacts DEF Promise!Signed, Word
<1> QED
  BY <1>1, <1>2, <1>3, <1>4

(* Dividing twice.                                                           *)
DividedTwice(x, t, l) ==
  /\ (x \div t) \div l = x \div (t * l)
  /\ x % (t * l) = (x % t) + ((x \div t) % l) * t
  /\ (x % (t * l)) \div t = (x \div t) % l
  /\ (x % (t * l)) % t = x % t

LEMMA QuotientTwice ==
    ASSUME NEW x \in Nat, NEW t \in Nat, t >= 1, NEW l \in Nat, l >= 1
    PROVE  DividedTwice(x, t, l)
<1> DEFINE q == x \div t
           r == x % t
           p == q \div l
           s == q % l
<1>1. q \in Nat /\ r \in 0 .. t - 1 /\ x = q * t + r
  <2>1. x \div t \in Int /\ x % t \in 0 .. t - 1 /\ x = (x \div t) * t + (x % t)
    BY Division
  <2>2. x \div t \in Nat
    BY QuotientNatural
  <2> QED
    BY <2>1, <2>2
<1>2. p \in Int /\ s \in 0 .. l - 1 /\ q = p * l + s
  <2> HIDE DEF q
  <2> QED
    BY <1>1, Division
<1> HIDE DEF q, r, p, s
<1>3. x = p * (t * l) + (r + s * t)
  BY <1>1, <1>2
<1>4. r + s * t \in 0 .. (t * l) - 1
  <2>1. s * t \in Nat /\ s * t <= (l - 1) * t /\ (l - 1) * t = t * l - t
    BY <1>2
  <2>2. t * l \in Nat
    OBVIOUS
  <2> QED
    BY <2>1, <2>2, <1>1
<1>5. t * l \in Nat /\ t * l >= 1
  <2>1. t * l >= l
    OBVIOUS
  <2> QED
    BY <2>1
<1>6. x \div (t * l) = p /\ x % (t * l) = r + s * t
  BY <1>2, <1>3, <1>4, <1>5, DivisionUnique
<1>7. (r + s * t) \div t = s /\ (r + s * t) % t = r
  <2>1. r + s * t = s * t + r /\ r + s * t \in Int /\ s \in Int
    BY <1>1, <1>2, <1>4
  <2> QED
    BY <2>1, <1>1, DivisionUnique
<1> QED
  BY <1>6, <1>7 DEF DividedTwice, q, r, p, s

(* What the bits of a number are worth.                                      *)
LEMMA NextBit ==
    ASSUME NEW x \in Nat, NEW i \in Nat, i < WordSize
    PROVE  /\ x \div Power[i + 1] = (x \div Power[i]) \div 2
           /\ x % Power[i + 1] = (x % Power[i]) + Bit(x, i) * Power[i]
           /\ (x % Power[i + 1]) \div Power[i] = Bit(x, i)
           /\ x % Power[i] \in 0 .. Power[i] - 1 /\ x \div Power[i] \in Nat
           /\ Bit(x, i) \in Flag /\ Power[i] \in Nat /\ Power[i] >= 1
           /\ x \div Power[i] = 2 * (x \div Power[i + 1]) + Bit(x, i)
<1>1. i \in 0 .. WordSize /\ i + 1 \in 1 .. WordSize /\ (i + 1) - 1 = i
  BY WordSizeAssumption
<1>2. Power[i] \in Nat /\ Power[i] >= 1 /\ Power[i + 1] = 2 * Power[i]
  BY <1>1, PowerFacts
<1> DEFINE t == Power[i]
<1>3. t \in Nat /\ t >= 1 /\ Power[i + 1] = t * 2
  BY <1>2
<1>4. Bit(x, i) = (x \div t) % 2
  BY DEF Bit
<1> HIDE DEF t
<1>5. /\ (x \div t) \div 2 = x \div (t * 2)
      /\ x % (t * 2) = (x % t) + ((x \div t) % 2) * t
      /\ (x % (t * 2)) \div t = (x \div t) % 2
  <2>1. DividedTwice(x, t, 2)
    <3>1. 2 \in Nat /\ 2 >= 1 /\ x \in Nat
      OBVIOUS
    <3> QED
      BY <1>3, <3>1, QuotientTwice, Zenon
  <2> QED
    BY <2>1 DEF DividedTwice
<1>6. x % t \in 0 .. t - 1 /\ x \div t \in Nat
  <2>1. x \in Int /\ t \in Nat /\ t >= 1
    BY <1>3
  <2>2. x % t \in 0 .. t - 1
    BY <2>1, Remainder, Zenon
  <2>3. x \div t \in Nat
    BY <2>1, QuotientNatural, Zenon
  <2> QED
    BY <2>2, <2>3
<1>7. x \div t = 2 * ((x \div t) \div 2) + ((x \div t) % 2) /\ (x \div t) % 2 \in {0, 1}
  BY <1>6
<1>8. /\ x \div Power[i + 1] = (x \div t) \div 2
      /\ x % Power[i + 1] = (x % t) + Bit(x, i) * t
      /\ (x % Power[i + 1]) \div t = Bit(x, i)
  BY <1>3, <1>4, <1>5
<1>9. /\ Bit(x, i) \in Flag
      /\ x \div t = 2 * (x \div Power[i + 1]) + Bit(x, i)
  BY <1>4, <1>7, <1>8 DEF Flag
<1> QED
  BY <1>3, <1>6, <1>8, <1>9, Zenon DEF t

Out(r, k) == [result |-> r, carry |-> k]

LEMMA OneShift ==
    ASSUME NEW r \in Word, NEW k \in Flag
    PROVE  /\ Promise!ShiftByOne("LSL", Out(r, k)) = Out((2 * r) % Modulus, Top(r))
           /\ Promise!ShiftByOne("LSR", Out(r, k)) = Out(r \div 2, r % 2)
           /\ Promise!ShiftByOne("ASR", Out(r, k)) = Out(r \div 2 + Top(r) * Half, r % 2)
           /\ Promise!ShiftByOne("ROR", Out(r, k)) = Out(r \div 2 + (r % 2) * Half, r % 2)
           /\ Promise!ShiftByOne("RRX", Out(r, k)) = Out(r \div 2 + k * Half, r % 2)
<1>1. Modulus \div 2 = Half /\ r \div 2 \in Nat /\ r \in Nat
  BY ModulusFacts DEF Word
<1>2. Out(r, k).result = r /\ Out(r, k).carry = k
  BY DEF Out
<1>3. Promise!Modulus = Modulus /\ Promise!Bit(r, WordSize - 1) = Top(r)
  BY PromiseWords, Zenon DEF Top
<1>4. 0 * Half = 0
  BY ModulusFacts
<1> DEFINE h == r \div 2
           l == r % 2
           t == Top(r)
           d == (2 * r) % Modulus
           out == Out(r, k)
<1>5. /\ Promise!ShiftByOne("LSL", out) = Out(d, t)
      /\ Promise!ShiftByOne("LSR", out) = Out(h + 0 * Half, l)
      /\ Promise!ShiftByOne("ASR", out) = Out(h + t * Half, l)
      /\ Promise!ShiftByOne("ROR", out) = Out(h + l * Half, l)
      /\ Promise!ShiftByOne("RRX", out) = Out(h + k * Half, l)
  <2>1. out.result = r /\ out.carry = k /\ Modulus \div 2 = Half
    BY <1>1, <1>2
  <2> HIDE DEF out
  <2> QED
    BY <2>1, <1>3 DEF Promise!ShiftByOne, Promise!Unsigned, Out
<1>6. h + 0 * Half = h
  BY <1>1, <1>4
<1> HIDE DEF h, l, t, d, out
<1>7. /\ Promise!ShiftByOne("LSL", out) = Out(d, t)
      /\ Promise!ShiftByOne("LSR", out) = Out(h, l)
      /\ Promise!ShiftByOne("ASR", out) = Out(h + t * Half, l)
      /\ Promise!ShiftByOne("ROR", out) = Out(h + l * Half, l)
      /\ Promise!ShiftByOne("RRX", out) = Out(h + k * Half, l)
  BY <1>5, <1>6, Zenon
<1> QED
  BY <1>7, Zenon DEF h, l, t, d, out

(* The shifter's outputs without its special cases.                          *)
LEMMA LeftOut ==
    ASSUME NEW x \in Word, NEW c \in Flag, NEW n \in Nat
    PROVE  Shifter("LSL", n, x, c) =
             IF n < WordSize
               THEN Out((x % Power[WordSize - n]) * Power[n], IF n = 0 THEN c ELSE Bit(x, WordSize - n))
               ELSE Out(0, IF n = WordSize THEN Bit(x, 0) ELSE 0)
<1>1. /\ WordSize \in Nat /\ WordSize >= 4 /\ x \in Nat /\ x < Modulus
      /\ Modulus \in Nat /\ Modulus >= 1 /\ Modulus = Power[WordSize]
  BY ModulusFacts DEF Word, Modulus
<1>2. CASE n = 0
  <2>1. x % Modulus = x
    <3>1. x = 0 * Modulus + x /\ x \in 0 .. Modulus - 1 /\ 0 \in Int /\ x \in Int
      BY <1>1
    <3> QED
      BY <1>1, <3>1, DivisionUnique
  <2>2. WordSize - n = WordSize /\ n < WordSize
    BY <1>1, <1>2
  <2>3. (x % Power[WordSize - n]) * Power[n] = x
    <3>1. Power[n] = 1
      BY <1>2, PowerFacts
    <3>2. x % Power[WordSize - n] = x
      BY <2>1, <2>2, <1>1
    <3> QED
      BY <1>1, <3>1, <3>2
  <2>4. Shifter("LSL", n, x, c) = Out(x, c)
    BY <1>1, <1>2 DEF Shifter, Out
  <2> QED
    BY <1>2, <2>2, <2>3, <2>4
<1>3. CASE n # 0 /\ n < WordSize
  <2>1. n \in 1 .. WordSize - 1 /\ WordSize - n \in 1 .. WordSize - 1 /\ ~(n > WordSize) /\ n # WordSize
        /\ n \in 0 .. WordSize /\ WordSize - n \in 0 .. WordSize /\ (WordSize - n) + n = WordSize
    BY <1>1, <1>3, SMTT(30)
  <2>2. n % WordSize = n
    <3>1. n = 0 * WordSize + n /\ n \in 0 .. WordSize - 1 /\ 0 \in Int /\ n \in Int /\ WordSize \in Nat /\ WordSize >= 1
      BY <1>1, <2>1
    <3> QED
      BY <3>1, DivisionUnique
  <2>3. (WordSize - n) % WordSize = WordSize - n
    <3>1. WordSize - n = 0 * WordSize + (WordSize - n) /\ WordSize - n \in 0 .. WordSize - 1 /\ 0 \in Int
          /\ WordSize - n \in Int /\ WordSize \in Nat /\ WordSize >= 1
      BY <1>1, <2>1
    <3> QED
      BY <3>1, DivisionUnique
  <2>4. Shifter("LSL", n, x, c) = Out((x * Power[n]) % Modulus, Bit(x, WordSize - n))
    BY <1>3, <2>1, <2>2, <2>3 DEF Shifter, Out
  <2>5. (x * Power[n]) % Modulus = (x % Power[WordSize - n]) * Power[n]
    <3> DEFINE l == Power[n]
               t == Power[WordSize - n]
    <3>1. Modulus = t * l
      BY <2>1, PowerAdds DEF Modulus
    <3>2. l \in Nat /\ l >= 1 /\ t \in Nat /\ t >= 1
      BY <2>1, PowerFacts
    <3> HIDE DEF l, t
    <3>3. (x * l) % (t * l) = (x % t) * l
      BY <1>1, <3>2, ShiftedLeft, ZenonT(60)
    <3> QED
      BY <3>1, <3>3 DEF l, t
  <2> QED
    BY <1>3, <2>4, <2>5
<1>4. CASE n = WordSize
  BY <1>1, <1>4 DEF Shifter, Out
<1>5. CASE n > WordSize
  BY <1>1, <1>5 DEF Shifter, Out
<1> QED
  BY <1>1, <1>2, <1>3, <1>4, <1>5

LEMMA LeftStep ==
    ASSUME NEW x \in Word, NEW c \in Flag, NEW n \in Nat
    PROVE  Promise!ShiftByOne("LSL", Shifter("LSL", n, x, c)) = Shifter("LSL", n + 1, x, c)
<1>1. /\ WordSize \in Nat /\ WordSize >= 4 /\ x \in Nat /\ x < Modulus
      /\ Modulus \in Nat /\ Modulus >= 1 /\ Modulus = Power[WordSize]
  BY ModulusFacts DEF Word, Modulus
<1> DEFINE s == Shifter("LSL", n, x, c)
<1>2. s \in [result : Word, carry : Flag]
  BY ShifterTypes DEF ShiftOps
<1>3. s = Out(s.result, s.carry) /\ s.result \in Word /\ s.carry \in Flag
  BY <1>2 DEF Out
<1>4. Promise!ShiftByOne("LSL", s) = Out((2 * s.result) % Modulus, Top(s.result))
  <2> HIDE DEF s
  <2>1. Promise!ShiftByOne("LSL", Out(s.result, s.carry)) = Out((2 * s.result) % Modulus, Top(s.result))
    BY <1>3, OneShift, Zenon
  <2> QED
    BY <2>1, <1>3, Zenon
<1>5. CASE n < WordSize
  <2>1. n + 1 <= WordSize /\ n \in 0 .. WordSize /\ WordSize - n \in 1 .. WordSize /\ n + 1 \in 1 .. WordSize
        /\ WordSize - (n + 1) \in 0 .. WordSize /\ (WordSize - n) - 1 = WordSize - (n + 1) /\ (n + 1) - 1 = n
        /\ WordSize - (n + 1) \in Nat /\ WordSize - (n + 1) < WordSize
        /\ (WordSize - (n + 1)) + 1 = WordSize - n /\ (WordSize - (n + 1)) + n = WordSize - 1
        /\ (WordSize - (n + 1)) + (n + 1) = WordSize /\ WordSize - n \in Nat /\ n + 1 \in Nat
    BY <1>1, <1>5
  <2> DEFINE i == WordSize - (n + 1)
             t == Power[i]
             p == Power[n]
             b == Bit(x, i)
             r == x % t
  <2>2. t \in Nat /\ t >= 1 /\ p \in Nat /\ p >= 1 /\ Power[n + 1] = 2 * p /\ Power[WordSize - n] = 2 * t
    BY <2>1, PowerFacts
  <2>3. Half = t * p /\ Modulus = t * (2 * p)
    <3>1. Half = t * p
      BY <2>1, PowerAdds DEF Half
    <3>2. Modulus = Power[i] * Power[n + 1]
      BY <2>1, PowerAdds DEF Modulus
    <3> QED
      BY <3>1, <3>2, <2>2
  <2>4. x % Power[WordSize - n] = r + b * t /\ r \in 0 .. t - 1 /\ b \in {0, 1}
    <3>1. x % Power[i + 1] = (x % Power[i]) + Bit(x, i) * Power[i] /\ x % Power[i] \in 0 .. Power[i] - 1
          /\ Bit(x, i) \in Flag
      BY <1>1, <2>1, NextBit
    <3> QED
      BY <3>1, <2>1 DEF Flag
  <2>5. s.result = (r + b * t) * p
    <3>1. s = Out((x % Power[WordSize - n]) * p, IF n = 0 THEN c ELSE Bit(x, WordSize - n))
      BY <1>5, LeftOut
    <3>2. s.result = (x % Power[WordSize - n]) * p
      <4> HIDE DEF s, p
      <4> QED
        BY <3>1 DEF Out
    <3> QED
      BY <2>4, <3>2
  <2> HIDE DEF s, i, t, p, b, r
  <2>6. r * p \in Nat /\ r * p < t * p
    <3>1. r \in Nat /\ t - 1 - r \in Nat
      BY <2>2, <2>4
    <3>2. (t - 1 - r) * p \in Nat /\ (t - 1 - r) * p = t * p - p - r * p /\ t * p \in Nat /\ r * p \in Nat
      BY <2>2, <3>1
    <3> QED
      BY <2>2, <3>2
  <2>7. s.result = r * p + b * Half
    <3>1. (r + b * t) * p = r * p + b * (t * p)
      BY <2>2, <2>4
    <3> QED
      BY <2>3, <2>5, <3>1
  <2>8. Top(s.result) = b
    <3>1. s.result >= Half <=> b = 1
      BY <2>3, <2>4, <2>6, <2>7, ModulusFacts
    <3> QED
      BY <3>1, <1>3, <2>4, TopOfWord
  <2>9. (2 * s.result) % Modulus = r * (2 * p)
    <3> DEFINE y == r * p
    <3>0. y \in Nat /\ y < Half /\ s.result = y + b * Half
      BY <2>3, <2>6, <2>7
    <3>3. r * (2 * p) = 2 * y
      BY <2>2, <2>4
    <3> HIDE DEF y
    <3>1. 2 * s.result = b * Modulus + 2 * y /\ 2 * y \in 0 .. Modulus - 1 /\ b \in Int
      BY <2>4, <3>0, ModulusFacts
    <3>2. (2 * s.result) % Modulus = 2 * y
      <4>1. 2 * s.result \in Int
        BY <1>3, ModulusFacts DEF Word
      <4> QED
        BY <1>1, <3>1, <4>1, DivisionUnique, Zenon
    <3> QED
      BY <3>2, <3>3
  <2>10. Promise!ShiftByOne("LSL", s) = Out(r * (2 * p), b)
    BY <1>4, <2>8, <2>9
  <2>11. CASE n + 1 < WordSize
    <3>1. Shifter("LSL", n + 1, x, c) = Out((x % Power[WordSize - (n + 1)]) * Power[n + 1], Bit(x, WordSize - (n + 1)))
      <4>1. n + 1 # 0
        OBVIOUS
      <4> QED
        BY <2>1, <2>11, <4>1, LeftOut
    <3>2. (x % Power[WordSize - (n + 1)]) * Power[n + 1] = r * (2 * p) /\ Bit(x, WordSize - (n + 1)) = b
      BY <2>2 DEF r, t, i, b
    <3> QED
      BY <2>10, <3>1, <3>2 DEF s
  <2>12. CASE n + 1 = WordSize
    <3>1. Shifter("LSL", n + 1, x, c) = Out(0, Bit(x, 0))
      <4>1. ~(n + 1 < WordSize)
        BY <2>12, <1>1
      <4> QED
        BY <2>1, <2>12, <4>1, LeftOut
    <3>2. i = 0 /\ t = 1
      BY <1>1, <2>12, PowerFacts DEF i, t
    <3>3. r = 0 /\ b = Bit(x, 0)
      BY <3>2, <2>4 DEF b
    <3>4. r * (2 * p) = 0
      BY <3>3, <2>2
    <3> QED
      BY <2>10, <3>1, <3>3, <3>4 DEF s
  <2> QED
    BY <1>1, <2>1, <2>11, <2>12
<1>6. CASE n >= WordSize
  <2>1. ~(n < WordSize) /\ ~(n + 1 < WordSize) /\ n + 1 # WordSize /\ n + 1 \in Nat
    BY <1>1, <1>6
  <2>2. s.result = 0
    <3>1. s = Out(0, IF n = WordSize THEN Bit(x, 0) ELSE 0)
      BY <2>1, LeftOut
    <3> HIDE DEF s
    <3> QED
      BY <3>1 DEF Out
  <2>3. Shifter("LSL", n + 1, x, c) = Out(0, 0)
    BY <2>1, LeftOut
  <2>4. Top(0) = 0 /\ (2 * 0) % Modulus = 0
    <3>1. 0 \in Word /\ ~(0 >= Half)
      BY ModulusFacts DEF Word
    <3>2. Top(0) = 0
      BY <3>1, TopOfWord
    <3>3. 0 = 0 * Modulus + 0 /\ 0 \in 0 .. Modulus - 1 /\ 2 * 0 = 0
      BY <1>1
    <3>4. 0 % Modulus = 0
      BY <1>1, <3>3, DivisionUnique
    <3> QED
      BY <3>2, <3>3, <3>4
  <2> QED
    BY <1>4, <2>2, <2>3, <2>4
<1> QED
  BY <1>1, <1>5, <1>6

LEMMA OutTypes ==
    ASSUME NEW op \in ShiftOps, NEW x \in Word, NEW c \in Flag, NEW n \in Nat, NEW r, NEW k,
           Shifter(op, n, x, c) = Out(r, k)
    PROVE  r \in Word /\ k \in Flag
<1>1. Out(r, k) \in [result : Word, carry : Flag]
  BY ShifterTypes
<1> QED
  BY <1>1 DEF Out

LEMMA RightOut ==
    ASSUME NEW x \in Word, NEW c \in Flag, NEW n \in Nat
    PROVE  Shifter("LSR", n, x, c) =
             IF n <= WordSize THEN Out(x \div Power[n], IF n = 0 THEN c ELSE Bit(x, n - 1)) ELSE Out(0, 0)
<1>1. /\ WordSize \in Nat /\ WordSize >= 4 /\ x \in Nat /\ x < Modulus
      /\ Modulus \in Nat /\ Modulus >= 1 /\ Modulus = Power[WordSize]
  BY ModulusFacts DEF Word, Modulus
<1>2. CASE n = 0
  <2>1. x \div Power[n] = x
    BY <1>1, <1>2, PowerFacts
  <2>2. Shifter("LSR", n, x, c) = Out(x, c)
    BY <1>1, <1>2 DEF Shifter, Out
  <2> QED
    BY <1>1, <1>2, <2>1, <2>2
<1>3. CASE n # 0 /\ n < WordSize
  <2>1. n \in 1 .. WordSize - 1 /\ ~(n > WordSize) /\ n # WordSize /\ n <= WordSize
    BY <1>1, <1>3
  <2>2. Shifter("LSR", n, x, c) = Out(x \div Power[n], Bit(x, n - 1))
    BY <1>3, <2>1 DEF Shifter, Out
  <2> QED
    BY <1>3, <2>1, <2>2
<1>4. CASE n = WordSize
  <2>1. x \div Modulus = 0
    <3>1. x = 0 * Modulus + x /\ x \in 0 .. Modulus - 1 /\ 0 \in Int /\ x \in Int
      BY <1>1
    <3> QED
      BY <1>1, <3>1, DivisionUnique
  <2>2. Shifter("LSR", n, x, c) = Out(0, Bit(x, n - 1))
    BY <1>1, <1>4 DEF Shifter, Out, Top
  <2> QED
    BY <1>1, <1>4, <2>1, <2>2
<1>5. CASE n > WordSize
  BY <1>1, <1>5 DEF Shifter, Out
<1> QED
  BY <1>1, <1>2, <1>3, <1>4, <1>5

LEMMA RightStep ==
    ASSUME NEW x \in Word, NEW c \in Flag, NEW n \in Nat
    PROVE  Promise!ShiftByOne("LSR", Shifter("LSR", n, x, c)) = Shifter("LSR", n + 1, x, c)
<1>1. WordSize \in Nat /\ WordSize >= 4 /\ x \in Nat
  BY ModulusFacts DEF Word
<1>2. "LSR" \in ShiftOps
  BY DEF ShiftOps
<1>3. CASE n < WordSize
  <2>1. n <= WordSize /\ n + 1 <= WordSize /\ n + 1 \in Nat /\ n + 1 # 0 /\ (n + 1) - 1 = n
    BY <1>1, <1>3
  <2> DEFINE r == x \div Power[n]
             k == IF n = 0 THEN c ELSE Bit(x, n - 1)
  <2>2. Shifter("LSR", n, x, c) = Out(r, k)
    BY <2>1, RightOut
  <2>3. Shifter("LSR", n + 1, x, c) = Out(x \div Power[n + 1], Bit(x, n))
    BY <2>1, RightOut
  <2>4. x \div Power[n + 1] = r \div 2 /\ Bit(x, n) = r % 2
    BY <1>1, <1>3, NextBit DEF Bit
  <2> HIDE DEF r, k
  <2>5. Promise!ShiftByOne("LSR", Shifter("LSR", n, x, c)) = Out(r \div 2, r % 2)
    <3>1. r \in Word /\ k \in Flag
      BY <1>2, <2>2, OutTypes
    <3>2. Promise!ShiftByOne("LSR", Out(r, k)) = Out(r \div 2, r % 2)
      BY <3>1, OneShift, Zenon
    <3> QED
      BY <3>1, <3>2, <2>2
  <2> QED
    BY <2>3, <2>4, <2>5
<1>4. CASE n >= WordSize
  <2>1. ~(n + 1 <= WordSize) /\ n + 1 \in Nat
    BY <1>1, <1>4
  <2>2. Shifter("LSR", n + 1, x, c) = Out(0, 0)
    BY <2>1, RightOut
  <2> DEFINE k == IF n = WordSize THEN Top(x) ELSE 0
  <2>3. Shifter("LSR", n, x, c) = Out(0, k)
    <3>1. CASE n = WordSize
      BY <1>1, <3>1 DEF Shifter, Out
    <3>2. CASE n > WordSize
      BY <1>1, <3>2 DEF Shifter, Out
    <3> QED
      BY <1>1, <1>4, <3>1, <3>2
  <2> HIDE DEF k
  <2>4. Promise!ShiftByOne("LSR", Shifter("LSR", n, x, c)) = Out(0 \div 2, 0 % 2)
    <3>1. 0 \in Word /\ k \in Flag
      BY <1>2, <2>3, OutTypes
    <3>2. Promise!ShiftByOne("LSR", Out(0, k)) = Out(0 \div 2, 0 % 2)
      BY <3>1, OneShift, Zenon
    <3> QED
      BY <3>2, <2>3
  <2>5. 0 \div 2 = 0 /\ 0 % 2 = 0
    OBVIOUS
  <2> QED
    BY <2>2, <2>4, <2>5
<1> QED
  BY <1>1, <1>3, <1>4

LEMMA SignOut ==
    ASSUME NEW x \in Word, NEW c \in Flag, NEW n \in Nat
    PROVE  Shifter("ASR", n, x, c) =
             IF n < WordSize
               THEN Out(x \div Power[n] + Top(x) * (Modulus - Power[WordSize - n]), IF n = 0 THEN c ELSE Bit(x, n - 1))
               ELSE Out(Top(x) * Ones, Top(x))
<1>1. /\ WordSize \in Nat /\ WordSize >= 4 /\ x \in Nat /\ x < Modulus
      /\ Modulus \in Nat /\ Modulus >= 1 /\ Modulus = Power[WordSize]
  BY ModulusFacts DEF Word, Modulus
<1>2. CASE n = 0
  <2>1. x \div Power[n] = x /\ Power[WordSize - n] = Modulus
    BY <1>1, <1>2, PowerFacts
  <2>2. Shifter("ASR", n, x, c) = Out(x, c)
    BY <1>1, <1>2 DEF Shifter, Out
  <2>3. x + Top(x) * (Modulus - Modulus) = x
    <3>1. Top(x) \in Int
      BY TopOfWord
    <3> QED
      BY <1>1, <3>1
  <2> QED
    BY <1>1, <1>2, <2>1, <2>2, <2>3
<1>3. CASE n # 0 /\ n < WordSize
  <2>1. n \in 1 .. WordSize - 1 /\ ~(n >= WordSize)
    BY <1>1, <1>3
  <2>2. Shifter("ASR", n, x, c) = Out(x \div Power[n] + Top(x) * (Modulus - Power[WordSize - n]), Bit(x, n - 1))
    BY <1>3, <2>1 DEF Shifter, Out
  <2> QED
    BY <1>3, <2>2
<1>4. CASE n >= WordSize
  BY <1>1, <1>4 DEF Shifter, Out
<1> QED
  BY <1>1, <1>2, <1>3, <1>4

LEMMA SignStep ==
    ASSUME NEW x \in Word, NEW c \in Flag, NEW n \in Nat
    PROVE  Promise!ShiftByOne("ASR", Shifter("ASR", n, x, c)) = Shifter("ASR", n + 1, x, c)
<1>1. /\ WordSize \in Nat /\ WordSize >= 4 /\ x \in Nat /\ x < Modulus
      /\ Modulus \in Nat /\ Modulus >= 1 /\ Modulus = 2 * Half /\ Half \in Nat /\ Half >= 1
  BY ModulusFacts DEF Word
<1>2. "ASR" \in ShiftOps
  BY DEF ShiftOps
<1> DEFINE T == Top(x)
<1>3. T \in {0, 1} /\ (T = 1 <=> x >= Half)
  BY TopOfWord
<1>4. CASE n < WordSize
  <2>1. n + 1 <= WordSize /\ n + 1 \in Nat /\ n + 1 # 0 /\ (n + 1) - 1 = n
        /\ n \in 0 .. WordSize /\ WordSize - n \in 1 .. WordSize
        /\ WordSize - (n + 1) \in Nat /\ WordSize - (n + 1) \in 0 .. WordSize
        /\ (WordSize - n) - 1 = WordSize - (n + 1) /\ (WordSize - (n + 1)) + n = WordSize - 1
    BY <1>1, <1>4
  <2> DEFINE p == Power[n]
             t == Power[WordSize - (n + 1)]
             q == x \div Power[n]
             e == x \div Power[n + 1]
             b == Bit(x, n)
             r == q + T * (Modulus - 2 * t)
             k == IF n = 0 THEN c ELSE Bit(x, n - 1)
  <2>2. Power[WordSize - n] = 2 * t /\ t \in Nat /\ t >= 1 /\ p \in Nat /\ p >= 1
    BY <2>1, PowerFacts
  <2>3. Half = t * p
    <3> DEFINE i == WordSize - (n + 1)
    <3>1. i \in Nat /\ i + n = WordSize - 1 /\ i + n <= WordSize
      BY <2>1, <1>1
    <3> HIDE DEF i
    <3>2. Power[i + n] = Power[i] * Power[n]
      BY <3>1, PowerAdds
    <3> QED
      BY <3>1, <3>2 DEF Half, i
  <2>4. q = 2 * e + b /\ b \in {0, 1} /\ q \in Nat /\ e \in Nat
    <3>1. q = 2 * e + b /\ b \in Flag /\ q \in Nat /\ e = q \div 2
      BY <1>1, <1>4, NextBit
    <3> HIDE DEF q, e, b
    <3> QED
      BY <3>1 DEF Flag
  <2>5. Shifter("ASR", n, x, c) = Out(r, k)
    <3>1. Shifter("ASR", n, x, c) = Out(q + T * (Modulus - Power[WordSize - n]), k)
      BY <1>4, SignOut
    <3> QED
      BY <2>2, <3>1
  <2>6. Shifter("ASR", n + 1, x, c) = Out(e + T * (Modulus - t), b)
    <3>1. CASE n + 1 < WordSize
      BY <2>1, <3>1, SignOut
    <3>2. CASE n + 1 = WordSize
      <4>1. ~(n + 1 < WordSize)
        BY <1>1, <3>2
      <4>2. Shifter("ASR", n + 1, x, c) = Out(T * Ones, T)
        BY <2>1, <4>1, SignOut
      <4>3. n = WordSize - 1 /\ b = T
        BY <1>1, <2>1, <3>2 DEF Top
      <4>4. t = 1
        <5>1. WordSize - (n + 1) = 0
          BY <1>1, <3>2
        <5> QED
          BY <5>1, PowerFacts
      <4>5. e = 0
        <5>1. x = 0 * Modulus + x /\ x \in 0 .. Modulus - 1 /\ 0 \in Int /\ x \in Int
          BY <1>1
        <5>2. x \div Modulus = 0
          BY <1>1, <5>1, DivisionUnique
        <5> QED
          BY <3>2, <5>2 DEF Modulus
      <4>6. e + T * (Modulus - t) = T * Ones
        <5> HIDE DEF e, T, t
        <5> QED
          BY <1>1, <1>3, <4>4, <4>5 DEF Ones
      <4> QED
        BY <4>2, <4>3, <4>6
    <3> QED
      BY <1>1, <2>1, <3>1, <3>2
  <2>7. r \in Word /\ Promise!ShiftByOne("ASR", Shifter("ASR", n, x, c)) = Out(r \div 2 + Top(r) * Half, r % 2)
    <3> HIDE DEF r, k
    <3>1. r \in Word /\ k \in Flag
      BY <1>2, <2>5, OutTypes
    <3>2. Promise!ShiftByOne("ASR", Out(r, k)) = Out(r \div 2 + Top(r) * Half, r % 2)
      BY <3>1, OneShift, Zenon
    <3> QED
      BY <3>1, <3>2, <2>5
  <2>8. t <= Half /\ (T = 1 => q >= t) /\ (T = 0 => q < Half)
    <3>1. t <= t * p
      BY <2>2
    <3>2. ASSUME T = 1 PROVE q >= t
      <4>1. ~(x < t * p)
        BY <1>1, <1>3, <2>2, <2>3, <3>2
      <4>2. ASSUME q < t PROVE FALSE
        <5>1. x % p \in 0 .. p - 1 /\ x = q * p + (x % p)
          <6>1. x % p \in 0 .. p - 1 /\ x = (x \div p) * p + (x % p)
            <7>1. x \in Int /\ p \in Nat /\ p >= 1
              BY <1>1, <2>2
            <7> HIDE DEF p
            <7> QED
              BY <7>1, Division, Zenon
          <6> QED
            BY <6>1
        <5> DEFINE m == x % p
        <5>2. m \in 0 .. p - 1 /\ x = q * p + m
          BY <5>1
        <5>3. t - 1 - q \in Nat
          BY <2>2, <2>4, <4>2
        <5> HIDE DEF q, m, p, t
        <5>4. (t - 1 - q) * p \in Nat /\ (t - 1 - q) * p = t * p - p - q * p /\ t * p \in Nat /\ q * p \in Nat
          BY <2>2, <2>4, <5>3
        <5> QED
          BY <1>1, <2>2, <4>1, <5>2, <5>4
      <4> QED
        BY <2>2, <2>4, <4>2
    <3>3. ASSUME T = 0 PROVE q < Half
      <4>1. q <= x
        BY <1>1, <2>2, QuotientNatural
      <4> QED
        BY <1>1, <1>3, <2>4, <3>3, <4>1
    <3> QED
      BY <2>3, <3>1, <3>2, <3>3
  <2> HIDE DEF p, t, q, e, b, T
  <2>9. Top(r) = T
    <3>1. r >= Half <=> T = 1
      BY <1>1, <1>3, <2>2, <2>4, <2>8
    <3> HIDE DEF r
    <3> QED
      BY <1>3, <2>7, <3>1, TopOfWord
  <2>10. r = 2 * (e + T * (Half - t)) + b
    BY <1>1, <1>3, <2>2, <2>4
  <2>11. r \div 2 = e + T * (Half - t) /\ r % 2 = b
    <3> DEFINE y == e + T * (Half - t)
    <3>1. y \in Int
      BY <1>1, <1>3, <2>2, <2>4
    <3>2. r = 2 * y + b
      BY <2>10
    <3> HIDE DEF y, r
    <3>3. r \div 2 = y /\ r % 2 = b
      BY <2>4, <3>1, <3>2
    <3> QED
      BY <3>3 DEF y
  <2>12. e + T * (Half - t) + T * Half = e + T * (Modulus - t)
    BY <1>1, <1>3, <2>2, <2>4
  <2> HIDE DEF r
  <2>13. r \div 2 + Top(r) * Half = e + T * (Modulus - t)
    BY <2>9, <2>11, <2>12
  <2> QED
    BY <2>6, <2>7, <2>11, <2>13
<1>5. CASE n >= WordSize
  <2>1. ~(n < WordSize) /\ ~(n + 1 < WordSize) /\ n + 1 \in Nat
    BY <1>1, <1>5
  <2> DEFINE r == T * Ones
  <2>2. Shifter("ASR", n, x, c) = Out(r, T) /\ Shifter("ASR", n + 1, x, c) = Out(r, T)
    BY <2>1, SignOut
  <2>3. r \in Word /\ Promise!ShiftByOne("ASR", Shifter("ASR", n, x, c)) = Out(r \div 2 + Top(r) * Half, r % 2)
    <3> HIDE DEF r, T
    <3>1. r \in Word /\ T \in Flag
      BY <1>2, <2>2, OutTypes
    <3>2. Promise!ShiftByOne("ASR", Out(r, T)) = Out(r \div 2 + Top(r) * Half, r % 2)
      BY <3>1, OneShift, Zenon
    <3> QED
      BY <3>1, <3>2, <2>2
  <2> HIDE DEF T
  <2>4. r = 2 * (T * (Half - 1)) + T
    BY <1>1, <1>3 DEF Ones
  <2>5. r >= Half <=> T = 1
    BY <1>1, <1>3, <2>4
  <2>6. r \div 2 = T * (Half - 1) /\ r % 2 = T
    <3> DEFINE y == T * (Half - 1)
    <3>1. y \in Int /\ r = 2 * y + T
      BY <1>1, <1>3, <2>4
    <3> HIDE DEF y, r
    <3>2. r \div 2 = y /\ r % 2 = T
      BY <1>3, <3>1
    <3> QED
      BY <3>2 DEF y
  <2>7. Top(r) = T
    <3> HIDE DEF r
    <3> QED
      BY <1>3, <2>3, <2>5, TopOfWord
  <2>8. T * (Half - 1) + T * Half = r
    BY <1>1, <1>3, <2>4
  <2> HIDE DEF r
  <2> QED
    BY <2>2, <2>3, <2>6, <2>7, <2>8
<1> QED
  BY <1>1, <1>4, <1>5

Rotated(x, t) == x \div Power[t] + (x % Power[t]) * Power[WordSize - t]

LEMMA RotatedEnds ==
    ASSUME NEW x \in Word
    PROVE  Rotated(x, 0) = x /\ Rotated(x, WordSize) = x
<1>1. /\ WordSize \in Nat /\ WordSize >= 4 /\ x \in Nat /\ x < Modulus
      /\ Modulus \in Nat /\ Modulus >= 1 /\ Modulus = Power[WordSize]
      /\ WordSize - 0 = WordSize /\ WordSize - WordSize = 0
  BY ModulusFacts DEF Word, Modulus
<1>2. Power[0] = 1
  BY PowerFacts
<1>3. x \div 1 = x /\ x % 1 = 0 /\ 0 * Modulus = 0 /\ x * 1 = x /\ x + 0 = x /\ 0 + x = x
  BY <1>1
<1>4. x \div Modulus = 0 /\ x % Modulus = x
  <2>1. x = 0 * Modulus + x /\ x \in 0 .. Modulus - 1 /\ 0 \in Int /\ x \in Int
    BY <1>1
  <2> QED
    BY <1>1, <2>1, DivisionUnique
<1>5. Rotated(x, 0) = x
  BY <1>1, <1>2, <1>3 DEF Rotated
<1>6. Rotated(x, WordSize) = x
  BY <1>1, <1>2, <1>3, <1>4 DEF Rotated
<1> QED
  BY <1>5, <1>6

LEMMA RotatedByOne ==
    ASSUME NEW x \in Word, NEW t \in Nat, t < WordSize
    PROVE  /\ Rotated(x, t) % 2 = Bit(x, t)
           /\ Rotated(x, t) \div 2 + Bit(x, t) * Half = Rotated(x, t + 1)
<1>1. /\ WordSize \in Nat /\ WordSize >= 4 /\ x \in Nat
  BY ModulusFacts DEF Word
<1>2. /\ t \in 0 .. WordSize /\ WordSize - t \in 1 .. WordSize /\ (WordSize - t) - 1 = WordSize - (t + 1)
      /\ WordSize - (t + 1) \in Nat /\ WordSize - (t + 1) \in 0 .. WordSize /\ t + (WordSize - (t + 1)) = WordSize - 1
  BY <1>1
<1> DEFINE p == Power[t]
           l == Power[WordSize - (t + 1)]
           q == x \div Power[t]
           e == x \div Power[t + 1]
           r == x % Power[t]
           b == Bit(x, t)
<1>3. Power[WordSize - t] = 2 * l /\ l \in Nat /\ l >= 1 /\ p \in Nat /\ p >= 1
  BY <1>2, PowerFacts
<1>4. Half = p * l
  <2> DEFINE i == WordSize - (t + 1)
  <2>1. i \in Nat /\ t + i = WordSize - 1 /\ t + i <= WordSize
    BY <1>2, <1>1
  <2> HIDE DEF i
  <2>2. Power[t + i] = Power[t] * Power[i]
    BY <2>1, PowerAdds
  <2> QED
    BY <2>1, <2>2 DEF Half, i
<1>5. /\ q = 2 * e + b /\ b \in Flag /\ q \in Nat /\ e = q \div 2
      /\ x % Power[t + 1] = r + b * p /\ r \in 0 .. p - 1
  BY <1>1, NextBit
<1>6. Rotated(x, t) = q + r * (2 * l)
  BY <1>3 DEF Rotated
<1>7. Rotated(x, t + 1) = e + (r + b * p) * l
  BY <1>5 DEF Rotated
<1> HIDE DEF p, l, q, e, r, b
<1>8. q \in Nat /\ e \in Nat /\ b \in {0, 1} /\ r \in Nat
  BY <1>3, <1>5 DEF Flag
<1>9. (r + b * p) * l = r * l + b * Half /\ r * (2 * l) = 2 * (r * l) /\ r * l \in Nat /\ Half \in Nat
  <2>1. (r + b * p) * l = r * l + b * (p * l) /\ r * (2 * l) = 2 * (r * l) /\ r * l \in Nat /\ p * l \in Nat
    BY <1>3, <1>8
  <2> QED
    BY <2>1, <1>4
<1> DEFINE y == r * l
           z == Rotated(x, t)
<1>10. y \in Nat /\ z = q + 2 * y /\ Rotated(x, t + 1) = e + (y + b * Half)
  BY <1>6, <1>7, <1>9
<1> HIDE DEF y, z
<1>11. z = 2 * (e + y) + b
  BY <1>5, <1>8, <1>10
<1>12. z \div 2 = e + y /\ z % 2 = b
  BY <1>8, <1>10, <1>11
<1>13. z \div 2 + b * Half = Rotated(x, t + 1)
  <2> DEFINE w == b * Half
  <2>1. w \in Nat
    BY <1>8, <1>9
  <2> HIDE DEF w
  <2>2. e + y + w = e + (y + w)
    BY <1>8, <1>10, <2>1
  <2> QED
    BY <1>10, <1>12, <2>2 DEF w
<1> QED
  BY <1>12, <1>13 DEF z, b

LEMMA RotateOut ==
    ASSUME NEW x \in Word, NEW c \in Flag, NEW n \in Nat
    PROVE  Shifter("ROR", n, x, c) =
             Out(Rotated(x, n % WordSize),
                 IF n = 0 THEN c ELSE IF n % WordSize = 0 THEN Top(x) ELSE Bit(x, (n % WordSize) - 1))
<1>1. /\ WordSize \in Nat /\ WordSize >= 4 /\ x \in Nat
  BY ModulusFacts DEF Word
<1> DEFINE turn == n % WordSize
           left == (WordSize - turn) % WordSize
<1>2. turn \in 0 .. WordSize - 1
  BY <1>1
<1>3. n = 0 => turn = 0
  BY <1>1
<1>4. left \in 0 .. WordSize - 1 /\ (turn # 0 => left = WordSize - turn)
  <2>1. WordSize - turn \in 1 .. WordSize
    BY <1>1, <1>2
  <2> HIDE DEF turn
  <2> QED
    BY <1>1, <1>2, <2>1
<1>5. CASE n = 0
  BY <1>1, <1>3, <1>5, RotatedEnds DEF Shifter, Out
<1>6. CASE n # 0 /\ turn = 0
  <2>1. Shifter("ROR", n, x, c) = Out(x, Top(x))
    BY <1>1, <1>6 DEF Shifter, Out
  <2> QED
    BY <1>6, <2>1, RotatedEnds
<1>7. CASE n # 0 /\ turn # 0
  <2> HIDE DEF turn, left
  <2>1. turn \in Nat /\ left \in Nat /\ turn + left = WordSize /\ left = WordSize - turn
        /\ turn \in 0 .. WordSize /\ left \in 0 .. WordSize
    BY <1>1, <1>2, <1>4, <1>7
  <2>2. Shifter("ROR", n, x, c) = Out((x \div Power[turn]) + ((x * Power[left]) % Modulus), Bit(x, turn - 1))
    BY <1>1, <1>7 DEF Shifter, Out, turn, left
  <2> DEFINE t == Power[turn]
             l == Power[left]
  <2>3. t \in Nat /\ t >= 1 /\ l \in Nat /\ l >= 1
    BY <2>1, PowerFacts
  <2>4. Modulus = t * l
    BY <2>1, PowerAdds DEF Modulus
  <2>5. (x * l) % (t * l) = (x % t) * l
    <3> HIDE DEF t, l
    <3> QED
      BY <1>1, <2>3, ShiftedLeft
  <2>6. (x * l) % Modulus = (x % t) * l
    <3> HIDE DEF t, l
    <3> QED
      BY <2>4, <2>5
  <2>7. Rotated(x, turn) = (x \div Power[turn]) + ((x * Power[left]) % Modulus)
    BY <2>1, <2>6 DEF Rotated
  <2> QED
    BY <1>7, <2>2, <2>7 DEF turn
<1> QED
  BY <1>5, <1>6, <1>7

LEMMA RotateStep ==
    ASSUME NEW x \in Word, NEW c \in Flag, NEW n \in Nat
    PROVE  Promise!ShiftByOne("ROR", Shifter("ROR", n, x, c)) = Shifter("ROR", n + 1, x, c)
<1>1. /\ WordSize \in Nat /\ WordSize >= 4 /\ x \in Nat
  BY ModulusFacts DEF Word
<1>2. "ROR" \in ShiftOps
  BY DEF ShiftOps
<1> DEFINE t == n % WordSize
           r == Rotated(x, t)
           k == IF n = 0 THEN c ELSE IF t = 0 THEN Top(x) ELSE Bit(x, t - 1)
<1>3. t \in 0 .. WordSize - 1 /\ n = (n \div WordSize) * WordSize + t /\ n \div WordSize \in Int
  BY <1>1, Division
<1>4. Shifter("ROR", n, x, c) = Out(r, k)
  BY RotateOut
<1>5. Promise!ShiftByOne("ROR", Shifter("ROR", n, x, c)) = Out(r \div 2 + (r % 2) * Half, r % 2)
  <2> HIDE DEF r, k
  <2>1. r \in Word /\ k \in Flag
    BY <1>2, <1>4, OutTypes
  <2>2. Promise!ShiftByOne("ROR", Out(r, k)) = Out(r \div 2 + (r % 2) * Half, r % 2)
    BY <2>1, OneShift, Zenon
  <2> QED
    BY <1>4, <2>2
<1> DEFINE m == n + 1
           u == m % WordSize
<1>6. u = IF t + 1 = WordSize THEN 0 ELSE t + 1
  <2> DEFINE q == n \div WordSize
  <2>0. q \in Int /\ n = q * WordSize + t
    BY <1>3
  <2> HIDE DEF t, q
  <2>1. CASE t + 1 = WordSize
    <3>1. m = (q + 1) * WordSize + 0 /\ 0 \in 0 .. WordSize - 1 /\ q + 1 \in Int /\ m \in Int
      BY <1>1, <1>3, <2>0, <2>1
    <3> QED
      BY <1>1, <2>1, <3>1, DivisionUnique
  <2>2. CASE t + 1 # WordSize
    <3>1. m = q * WordSize + (t + 1) /\ t + 1 \in 0 .. WordSize - 1 /\ m \in Int
      BY <1>1, <1>3, <2>0, <2>2
    <3> QED
      <4>1. WordSize \in Nat /\ WordSize >= 1 /\ q \in Int
        BY <1>1, <2>0
      <4>2. m % WordSize = t + 1
        BY <3>1, <4>1, DivisionUnique, Zenon
      <4> QED
        BY <2>2, <4>2
  <2> QED
    BY <2>1, <2>2
<1>7. Shifter("ROR", m, x, c) = Out(Rotated(x, u), IF u = 0 THEN Top(x) ELSE Bit(x, u - 1))
  <2>1. m \in Nat /\ m # 0
    OBVIOUS
  <2> HIDE DEF m
  <2> QED
    BY <2>1, RotateOut
<1> HIDE DEF t, u
<1>8. r % 2 = Bit(x, t) /\ r \div 2 + Bit(x, t) * Half = Rotated(x, t + 1)
  <2>1. t \in Nat /\ t < WordSize
    BY <1>1, <1>3
  <2> QED
    BY <2>1, RotatedByOne
<1>9. Rotated(x, u) = Rotated(x, t + 1) /\ Bit(x, t) = IF u = 0 THEN Top(x) ELSE Bit(x, u - 1)
  <2>1. CASE t + 1 = WordSize
    <3>1. t = WordSize - 1 /\ u = 0
      BY <1>1, <1>3, <1>6, <2>1
    <3> QED
      BY <2>1, <3>1, RotatedEnds DEF Top
  <2>2. CASE t + 1 # WordSize
    <3>1. u = t + 1 /\ u # 0 /\ u - 1 = t
      BY <1>1, <1>3, <1>6, <2>2
    <3> QED
      BY <3>1
  <2> QED
    BY <2>1, <2>2
<1> QED
  BY <1>5, <1>7, <1>8, <1>9

LEMMA OneShiftTypes ==
    ASSUME NEW op \in ShiftOps, NEW s \in [result : Word, carry : Flag]
    PROVE  Promise!ShiftByOne(op, s) \in [result : Word, carry : Flag]
<1> DEFINE r == s.result
           k == s.carry
<1>1. /\ Half \in Nat /\ Half >= 1 /\ Modulus = 2 * Half /\ Modulus \in Nat /\ Modulus >= 1
      /\ r \in Nat /\ r < Modulus /\ r \in Word /\ k \in Flag /\ s = Out(r, k)
  BY ModulusFacts DEF Word, Out
<1> HIDE DEF r, k
<1>2. k \in {0, 1} /\ Top(r) \in {0, 1} /\ r % 2 \in {0, 1} /\ r \div 2 \in Nat /\ r \div 2 < Half
  BY <1>1, TopOfWord DEF Flag
<1>3. (2 * r) % Modulus \in 0 .. Modulus - 1
  <2>1. 2 * r \in Int
    BY <1>1
  <2> QED
    BY <1>1, <2>1, Remainder, Zenon
<1>4. \A b \in {0, 1} : r \div 2 + b * Half \in Word
  BY <1>1, <1>2 DEF Word
<1>5. \A w \in Word, b \in Flag : Out(w, b) \in [result : Word, carry : Flag]
  BY DEF Out
<1>6. /\ (2 * r) % Modulus \in Word /\ r \div 2 \in Word /\ Top(r) \in Flag /\ r % 2 \in Flag
      /\ r \div 2 + Top(r) * Half \in Word /\ r \div 2 + (r % 2) * Half \in Word
      /\ r \div 2 + k * Half \in Word
  BY <1>1, <1>2, <1>3, <1>4 DEF Word, Flag
<1> DEFINE d == (2 * r) % Modulus
           h == r \div 2
           l == r % 2
           t == Top(r)
           signed == r \div 2 + Top(r) * Half
           turned == r \div 2 + (r % 2) * Half
           carried == r \div 2 + k * Half
<1>7. /\ Promise!ShiftByOne("LSL", Out(r, k)) = Out(d, t)
      /\ Promise!ShiftByOne("LSR", Out(r, k)) = Out(h, l)
      /\ Promise!ShiftByOne("ASR", Out(r, k)) = Out(signed, l)
      /\ Promise!ShiftByOne("ROR", Out(r, k)) = Out(turned, l)
      /\ Promise!ShiftByOne("RRX", Out(r, k)) = Out(carried, l)
  BY <1>1, OneShift, Zenon
<1>8. d \in Word /\ h \in Word /\ t \in Flag /\ l \in Flag /\ signed \in Word /\ turned \in Word /\ carried \in Word
  BY <1>6
<1> HIDE DEF d, h, l, t, signed, turned, carried
<1> QED
  BY <1>1, <1>5, <1>7, <1>8 DEF ShiftOps

(* The function that the abstract specification shifts by.                   *)
After(op, N, x, c) ==
  CHOOSE f : f = [n \in 0 .. N |-> IF n = 0 THEN Out(x, c) ELSE Promise!ShiftByOne(op, f[n - 1])]

LEMMA ShiftedUnfolds ==
    ASSUME NEW op \in ShiftOps, NEW N \in Nat, NEW x \in Word, NEW c \in Flag
    PROVE  /\ Promise!Shifted(op, N, x, c) = After(op, N, x, c)[N]
           /\ After(op, N, x, c)[0] = Out(x, c)
           /\ \A n \in 1 .. N : After(op, N, x, c)[n] = Promise!ShiftByOne(op, After(op, N, x, c)[n - 1])
<1> DEFINE after == After(op, N, x, c)
           State == [result : Word, carry : Flag]
<1>1. Promise!Shifted(op, N, x, c) = after[N]
  BY Zenon DEF Promise!Shifted, After, Out
<1> HIDE DEF State
<1> PICK G \in [Nat \X State -> State] : \A i \in Nat, s \in State : G[<<i, s>>] = Promise!ShiftByOne(op, s)
  <2>1. \A s \in State : Promise!ShiftByOne(op, s) \in State
    BY OneShiftTypes DEF State
  <2> DEFINE D == [p \in Nat \X State |-> Promise!ShiftByOne(op, p[2])]
  <2>2. D \in [Nat \X State -> State] /\ \A i \in Nat, s \in State : D[<<i, s>>] = Promise!ShiftByOne(op, s)
    BY <2>1
  <2> QED
    BY <2>2
<1>2. Out(x, c) \in State
  BY DEF Out, State
<1>3. PICK f \in [0 .. N -> State] : f[0] = Out(x, c) /\ \A i \in 1 .. N : f[i] = G[<<i, f[i - 1]>>]
  <2>1. Recursion(State, Out(x, c), G)
    BY <1>2, PrimitiveRecursion
  <2> QED
    BY <2>1 DEF Recursion
<1>4. f = [n \in 0 .. N |-> IF n = 0 THEN Out(x, c) ELSE Promise!ShiftByOne(op, f[n - 1])]
  <2>1. \A i \in 1 .. N : i - 1 \in 0 .. N /\ i \in Nat
    OBVIOUS
  <2>2. \A i \in 1 .. N : f[i] = Promise!ShiftByOne(op, f[i - 1])
    BY <1>3, <2>1
  <2> QED
    BY <1>3, <2>2
<1>5. after = [n \in 0 .. N |-> IF n = 0 THEN Out(x, c) ELSE Promise!ShiftByOne(op, after[n - 1])]
  BY <1>4, Zenon DEF After
<1> HIDE DEF after
<1>6. after[0] = Out(x, c) /\ \A n \in 1 .. N : after[n] = Promise!ShiftByOne(op, after[n - 1])
  BY <1>5
<1> QED
  BY <1>1, <1>6 DEF after

LEMMA FirstShift ==
    ASSUME NEW op \in ShiftOps, op # "RRX", NEW x \in Word, NEW c \in Flag
    PROVE  Shifter(op, 0, x, c) = Out(x, c)
<1>1. WordSize \in Nat /\ WordSize >= 4
  BY ModulusFacts
<1>2. ASSUME NEW n \in Nat, n = 0 PROVE Shifter(op, n, x, c) = Out(x, c)
  <2>1. CASE op = "LSL"
    BY <1>1, <1>2, <2>1 DEF Shifter, Out
  <2>2. CASE op = "LSR"
    BY <1>1, <1>2, <2>2 DEF Shifter, Out
  <2>3. CASE op = "ASR"
    BY <1>1, <1>2, <2>3 DEF Shifter, Out
  <2>4. CASE op = "ROR"
    BY <1>1, <1>2, <2>4 DEF Shifter, Out
  <2> QED
    BY <2>1, <2>2, <2>3, <2>4 DEF ShiftOps
<1> QED
  BY <1>2

(* For every amount the shifter does what as many shifts by one do; RRX is   *)
(* one step.                                                                 *)
LEMMA ShifterShifts ==
    ASSUME NEW op \in ShiftOps, NEW N \in Nat, NEW x \in Word, NEW c \in Flag
    PROVE  Promise!Shifted(op, IF op = "RRX" THEN 1 ELSE N, x, c) = Shifter(op, N, x, c)
<1>1. CASE op = "RRX"
  <2> DEFINE after == After(op, 1, x, c)
  <2>0. 1 \in Nat
    OBVIOUS
  <2>1. /\ Promise!Shifted(op, 1, x, c) = after[1]
        /\ after[0] = Out(x, c)
        /\ \A n \in 1 .. 1 : after[n] = Promise!ShiftByOne(op, after[n - 1])
    BY <2>0, ShiftedUnfolds, Zenon
  <2> HIDE DEF after
  <2>2. Promise!Shifted("RRX", 1, x, c) = Promise!ShiftByOne("RRX", Out(x, c))
    <3>1. 1 \in 1 .. 1 /\ 1 - 1 = 0
      OBVIOUS
    <3>2. after[1] = Promise!ShiftByOne(op, after[0])
      BY <2>1, <3>1
    <3> QED
      BY <1>1, <2>1, <3>2
  <2>3. Promise!ShiftByOne("RRX", Out(x, c)) = Out(x \div 2 + c * Half, x % 2)
    BY OneShift, Zenon
  <2>4. Shifter("RRX", N, x, c) = Out(c * Half + x \div 2, Bit(x, 0))
    BY DEF Shifter, Out, Half
  <2>5. Bit(x, 0) = x % 2 /\ c * Half + x \div 2 = x \div 2 + c * Half
    <3>1. x \in Nat /\ Half \in Nat /\ c \in {0, 1} /\ Power[0] = 1
      BY ModulusFacts, PowerFacts DEF Word, Flag
    <3> QED
      BY <3>1 DEF Bit
  <2> QED
    BY <1>1, <2>2, <2>3, <2>4, <2>5
<1>2. CASE op # "RRX"
  <2> DEFINE after == After(op, N, x, c)
             S == {n \in Nat : n <= N => after[n] = Shifter(op, n, x, c)}
  <2>1. /\ Promise!Shifted(op, N, x, c) = after[N]
        /\ after[0] = Out(x, c)
        /\ \A n \in 1 .. N : after[n] = Promise!ShiftByOne(op, after[n - 1])
    BY ShiftedUnfolds
  <2> HIDE DEF after
  <2>2. 0 \in S
    BY <1>2, <2>1, FirstShift
  <2>3. ASSUME NEW n \in Nat, n \in S PROVE n + 1 \in S
    <3>1. CASE n + 1 <= N
      <4>1. after[n + 1] = Promise!ShiftByOne(op, after[n])
        <5>1. n + 1 \in 1 .. N /\ (n + 1) - 1 = n
          BY <3>1
        <5> QED
          BY <2>1, <5>1
      <4>2. after[n] = Shifter(op, n, x, c)
        BY <2>3, <3>1
      <4>3. Promise!ShiftByOne(op, Shifter(op, n, x, c)) = Shifter(op, n + 1, x, c)
        <5>1. CASE op = "LSL"
          BY <5>1, LeftStep
        <5>2. CASE op = "LSR"
          BY <5>2, RightStep
        <5>3. CASE op = "ASR"
          BY <5>3, SignStep
        <5>4. CASE op = "ROR"
          BY <5>4, RotateStep
        <5> QED
          BY <1>2, <5>1, <5>2, <5>3, <5>4 DEF ShiftOps
      <4> QED
        BY <4>1, <4>2, <4>3
    <3>2. CASE ~(n + 1 <= N)
      BY <3>2
    <3> QED
      BY <3>1, <3>2
  <2>4. \A n \in Nat : n \in S
    <3> HIDE DEF S
    <3> QED
      BY <2>2, <2>3, FirstFailure
  <2>5. after[N] = Shifter(op, N, x, c)
    BY <2>4
  <2> QED
    BY <1>2, <2>1, <2>5
<1> QED
  BY <1>1, <1>2

(* A word is its bits.                                                       *)
LEMMA SameBits ==
    ASSUME NEW x \in Word, NEW y \in Word, \A i \in 0 .. WordSize - 1 : Bit(x, i) = Bit(y, i)
    PROVE  x = y
<1>1. /\ WordSize \in Nat /\ x \in Nat /\ y \in Nat /\ x < Modulus /\ y < Modulus
      /\ Modulus \in Nat /\ Modulus >= 1 /\ Modulus = Power[WordSize]
  BY ModulusFacts DEF Word, Modulus
<1> DEFINE S == {n \in Nat : n <= WordSize => x % Power[n] = y % Power[n]}
<1>2. 0 \in S
  <2>1. x % 1 = 0 /\ y % 1 = 0
    BY <1>1
  <2> QED
    BY <2>1, PowerFacts
<1>3. ASSUME NEW n \in Nat, n \in S PROVE n + 1 \in S
  <2>1. CASE n + 1 <= WordSize
    <3>1. n < WordSize /\ n <= WordSize /\ n \in 0 .. WordSize - 1
      BY <1>1, <2>1
    <3>2. x % Power[n + 1] = (x % Power[n]) + Bit(x, n) * Power[n]
      BY <1>1, <3>1, NextBit
    <3>3. y % Power[n + 1] = (y % Power[n]) + Bit(y, n) * Power[n]
      BY <1>1, <3>1, NextBit
    <3>4. x % Power[n] = y % Power[n] /\ Bit(x, n) = Bit(y, n)
      BY <1>3, <3>1
    <3> QED
      BY <3>2, <3>3, <3>4
  <2>2. CASE ~(n + 1 <= WordSize)
    BY <2>2
  <2> QED
    BY <2>1, <2>2
<1>4. \A n \in Nat : n \in S
  <2> HIDE DEF S
  <2> QED
    BY <1>2, <1>3, FirstFailure
<1>5. x % Modulus = y % Modulus
  BY <1>1, <1>4
<1>6. x % Modulus = x
  <2>1. x = 0 * Modulus + x /\ x \in 0 .. Modulus - 1 /\ 0 \in Int /\ x \in Int
    BY <1>1
  <2> QED
    BY <1>1, <2>1, DivisionUnique
<1>7. y % Modulus = y
  <2>1. y = 0 * Modulus + y /\ y \in 0 .. Modulus - 1 /\ 0 \in Int /\ y \in Int
    BY <1>1
  <2> QED
    BY <1>1, <2>1, DivisionUnique
<1> QED
  BY <1>5, <1>6, <1>7

LEMMA BitsComplement ==
    ASSUME NEW b \in Word, NEW i \in Nat, i < WordSize
    PROVE  Bit(Ones - b, i) = 1 - Bit(b, i)
<1>1. /\ WordSize \in Nat /\ b \in Nat /\ b < Modulus /\ Modulus \in Nat /\ Modulus >= 1
      /\ Ones - b = Modulus - 1 - b
  BY ModulusFacts DEF Word, Ones
<1>2. /\ i \in 0 .. WordSize /\ WordSize - i \in 1 .. WordSize /\ (WordSize - i) - 1 \in 0 .. WordSize
      /\ WordSize - i \in Nat /\ i + (WordSize - i) = WordSize
  BY <1>1
<1> DEFINE p == Power[i]
           k == Power[(WordSize - i) - 1]
           q == b \div p
           r == b % p
           w == Ones - b
<1>3. p \in Nat /\ p >= 1 /\ k \in Nat /\ Power[WordSize - i] = 2 * k
  BY <1>2, PowerFacts
<1>4. Modulus = (2 * k) * p
  <2> DEFINE j == WordSize - i
  <2>1. j \in Nat /\ i + j = WordSize /\ i + j <= WordSize
    BY <1>2
  <2> HIDE DEF j
  <2>2. Power[i + j] = Power[i] * Power[j]
    BY <2>1, PowerAdds
  <2>3. Modulus = p * (2 * k)
    BY <2>1, <2>2, <1>3 DEF j, Modulus
  <2> QED
    BY <2>3, <1>3
<1>5. q \in Int /\ r \in 0 .. p - 1 /\ b = q * p + r
  <2> HIDE DEF p
  <2>1. b \in Int
    BY <1>1
  <2> QED
    BY <1>3, <2>1, Division, Zenon
<1>6. q % 2 \in {0, 1} /\ Bit(b, i) = q % 2
  <2>1. Bit(b, i) = q % 2
    BY DEF Bit
  <2> HIDE DEF q
  <2> QED
    BY <1>5, <2>1
<1>7. Bit(w, i) = (w \div p) % 2
  BY DEF Bit
<1>8. w = Modulus - 1 - b
  BY <1>1
<1> HIDE DEF p, k, q, r, w
<1>9. w = (2 * k - 1 - q) * p + (p - 1 - r) /\ p - 1 - r \in 0 .. p - 1 /\ 2 * k - 1 - q \in Int /\ w \in Int
  BY <1>1, <1>3, <1>4, <1>5, <1>8
<1>10. w \div p = 2 * k - 1 - q
  BY <1>3, <1>9, DivisionUnique, Zenon
<1>11. (2 * k - 1 - q) % 2 = 1 - (q % 2)
  BY <1>3, <1>5
<1> QED
  BY <1>6, <1>7, <1>10, <1>11 DEF w

Logicals == AluOps \ Arithmetics

LEMMA LogicalBits ==
    ASSUME NEW op \in Logicals, NEW a \in Word, NEW b \in Word, NEW c, NEW i \in 0 .. WordSize - 1
    PROVE  Bit(AluResult(op, a, b, c), i) = Promise!Logical(op, Bit(a, i), Bit(b, i))
<1>1. WordSize \in Nat /\ a \in Nat /\ b \in Nat /\ i \in 0 .. WordSize /\ i \in Nat /\ i < WordSize
  BY ModulusFacts DEF Word
<1>2. Bit(a, i) \in {0, 1} /\ Bit(b, i) \in {0, 1}
  BY <1>1, BitIsFlag DEF Flag
<1>3. (i \in BitsOf(a) <=> Bit(a, i) = 1) /\ (i \in BitsOf(b) <=> Bit(b, i) = 1)
  BY DEF BitsOf
<1>4. op \notin Arithmetics /\ op \in {"AND", "EOR", "TST", "TEQ", "ORR", "MOV", "BIC", "MVN"}
  BY DEF Logicals, AluOps
<1> DEFINE x == Bit(a, i)
           y == Bit(b, i)
<1>5. \A bits : Bit(WordOf(bits), i) = IF i \in bits THEN 1 ELSE 0
  BY WordOfBits
<1>6. CASE op \in {"AND", "TST"}
  <2>1. AluResult(op, a, b, c) = WordOf(BitsOf(a) \cap BitsOf(b))
    BY <1>4, <1>6 DEF AluResult
  <2>2. Promise!Logical(op, x, y) = IF x = 1 /\ y = 1 THEN 1 ELSE 0
    BY <1>6 DEF Promise!Logical, Promise!One
  <2> QED
    BY <1>3, <1>5, <2>1, <2>2
<1>7. CASE op \in {"EOR", "TEQ"}
  <2>1. AluResult(op, a, b, c) = WordOf((BitsOf(a) \cup BitsOf(b)) \ (BitsOf(a) \cap BitsOf(b)))
    BY <1>4, <1>7 DEF AluResult
  <2>2. Promise!Logical(op, x, y) = IF x # y THEN 1 ELSE 0
    BY <1>7 DEF Promise!Logical, Promise!One
  <2> QED
    BY <1>2, <1>3, <1>5, <2>1, <2>2
<1>8. CASE op = "ORR"
  <2>1. AluResult(op, a, b, c) = WordOf(BitsOf(a) \cup BitsOf(b))
    BY <1>4, <1>8 DEF AluResult
  <2>2. Promise!Logical(op, x, y) = IF x = 1 \/ y = 1 THEN 1 ELSE 0
    BY <1>8 DEF Promise!Logical, Promise!One
  <2> QED
    BY <1>3, <1>5, <2>1, <2>2
<1>9. CASE op = "BIC"
  <2>1. AluResult(op, a, b, c) = WordOf(BitsOf(a) \ BitsOf(b))
    BY <1>4, <1>9 DEF AluResult
  <2>2. Promise!Logical(op, x, y) = IF x = 1 /\ y = 0 THEN 1 ELSE 0
    BY <1>9 DEF Promise!Logical, Promise!One
  <2> QED
    BY <1>2, <1>3, <1>5, <2>1, <2>2
<1>10. CASE op = "MOV"
  <2>1. AluResult(op, a, b, c) = b
    BY <1>4, <1>10 DEF AluResult
  <2>2. Promise!Logical(op, x, y) = y
    BY <1>10 DEF Promise!Logical
  <2> QED
    BY <2>1, <2>2
<1>11. CASE op = "MVN"
  <2>1. AluResult(op, a, b, c) = Ones - b
    BY <1>4, <1>11 DEF AluResult
  <2>2. Promise!Logical(op, x, y) = 1 - y
    BY <1>11 DEF Promise!Logical
  <2> QED
    BY <1>1, <2>1, <2>2, BitsComplement
<1> QED
  BY <1>4, <1>6, <1>7, <1>8, <1>9, <1>10, <1>11

LEMMA PromiseClasses ==
    /\ Promise!Adds \cup Promise!Subtracts = Arithmetics
    /\ Promise!Subtracts = Subtracts
    /\ \A op \in Promise!Adds : op \notin Subtracts
BY DEF Promise!Adds, Promise!Subtracts, Arithmetics, Subtracts, UsesCarry

LEMMA LogicalMeans ==
    ASSUME NEW op \in Logicals, NEW a \in Word, NEW b \in Word, NEW c \in Flag
    PROVE  Promise!Result(op, a, b, c) = AluResult(op, a, b, c)
<1> DEFINE w == AluResult(op, a, b, c)
           Right(word) == \A i \in 0 .. WordSize - 1 : Bit(word, i) = Promise!Logical(op, Bit(a, i), Bit(b, i))
<1>1. w \in Word
  BY AluResultIsWord DEF Logicals
<1>2. Right(w)
  BY LogicalBits
<1>3. \A v \in Word : Right(v) => v = w
  BY <1>1, <1>2, SameBits
<1>4. Promise!Result(op, a, b, c) = CHOOSE v \in Word : Right(v)
  <2>1. op \notin Promise!Adds \cup Promise!Subtracts
    BY PromiseClasses DEF Logicals
  <2>2. Promise!Modulus = Modulus /\ \A x : \A i : Promise!Bit(x, i) = Bit(x, i)
    BY PromiseWords, Zenon
  <2> QED
    BY <2>1, <2>2 DEF Promise!Result, Word
<1> HIDE DEF w, Right
<1>5. (CHOOSE v \in Word : Right(v)) = w
  BY <1>1, <1>2, <1>3, Zenon
<1> QED
  BY <1>4, <1>5 DEF w

LEMMA ExactSums ==
    ASSUME NEW op \in Arithmetics, NEW c \in Flag, NEW x \in Int, NEW y \in Int
    PROVE  /\ op \in Promise!Adds => Promise!Exact(op, x, y, c) = x + y + AdderCarry(op, c)
           /\ op \in Subtracts \ Reversed => Promise!Exact(op, x, y, c) = x - y - 1 + AdderCarry(op, c)
           /\ op \in Reversed => Promise!Exact(op, x, y, c) = y - x - 1 + AdderCarry(op, c)
<1>1. c \in {0, 1}
  BY DEF Flag
<1>2. CASE op \in {"ADD", "CMN", "ADC"}
  BY <1>1, <1>2 DEF Promise!Adds, Promise!Exact, AdderCarry, Subtracts, UsesCarry, Reversed
<1>3. CASE op \in {"SUB", "CMP", "SBC"}
  BY <1>1, <1>3 DEF Promise!Adds, Promise!Exact, AdderCarry, Subtracts, UsesCarry, Reversed
<1>4. CASE op \in {"RSB", "RSC"}
  BY <1>1, <1>4 DEF Promise!Adds, Promise!Exact, AdderCarry, Subtracts, UsesCarry, Reversed
<1> QED
  BY <1>2, <1>3, <1>4 DEF Arithmetics, Subtracts, UsesCarry

(* The exact value beside the word, the carry and the overflow of the adder. *)
ExactMeans(op, a, b, f, s) ==
  LET exact == Promise!Exact(op, a, b, f.c)
      R == AluResult(op, a, b, f.c)
      g == AluFlags(op, a, b, f, s)
  IN /\ exact \in Int
     /\ exact % Modulus = R
     /\ op \in Subtracts => (g.c = 1 <=> exact >= 0)
     /\ op \notin Subtracts => (g.c = 1 <=> exact >= Modulus)
     /\ g.v = 0 <=> Signed(R) = Promise!Exact(op, Signed(a), Signed(b), f.c)

LEMMA ExactIs ==
    ASSUME NEW op \in Arithmetics, NEW a \in Word, NEW b \in Word, NEW f \in Flags, NEW s \in Flag
    PROVE  ExactMeans(op, a, b, f, s)
<1> DEFINE R == AluResult(op, a, b, f.c)
           g == AluFlags(op, a, b, f, s)
           k == AdderCarry(op, f.c)
           A == AdderA(op, a, b)
           B == AdderB(op, a, b)
           E == Promise!Exact(op, a, b, f.c)
           D == Promise!Exact(op, Signed(a), Signed(b), f.c)
           c == g.c
           v == g.v
<1>1. /\ Half \in Nat /\ Half >= 1 /\ Modulus = 2 * Half /\ Modulus \in Nat /\ Modulus >= 1
      /\ a \in Nat /\ a < Modulus /\ b \in Nat /\ b < Modulus /\ Ones = Modulus - 1
  BY ModulusFacts DEF Word, Ones
<1>2. f.c \in Flag
  BY DEF Flags
<1>3. /\ k \in {0, 1} /\ R \in Word /\ c \in {0, 1} /\ v \in {0, 1}
      /\ A + B + k = R + c * Modulus
      /\ v = 0 <=> Signed(R) = Signed(A) + Signed(B) + k
  <2>1. /\ k \in Flag /\ R \in Word /\ c \in Flag /\ v \in Flag
        /\ A + B + k = R + c * Modulus
        /\ v = 0 <=> Signed(R) = Signed(A) + Signed(B) + k
    BY AdderMeans
  <2> HIDE DEF R, g, k, A, B, c, v
  <2> QED
    BY <2>1 DEF Flag
<1>4. Signed(a) \in Int /\ Signed(b) \in Int /\ Signed(R) \in Int
  BY <1>1, <1>3, SignedIs, ModulusFacts DEF Word
<1>5. Signed(Ones - a) = -1 - Signed(a) /\ Signed(Ones - b) = -1 - Signed(b)
  BY Complement
<1> HIDE DEF R, g, k, c, v
<1>6. R \in Nat /\ R < Modulus /\ R \in 0 .. Modulus - 1
  BY <1>1, <1>3 DEF Word
<1>7. CASE op \in Promise!Adds
  <2>1. A = a /\ B = b /\ op \notin Subtracts
    BY <1>7 DEF Promise!Adds, AdderA, AdderB, Reversed, Subtracts
  <2>2. E = a + b + k /\ D = Signed(a) + Signed(b) + k
    <3>1. a \in Int /\ b \in Int
      BY <1>1
    <3> QED
      BY <1>2, <1>4, <1>7, <3>1, ExactSums DEF k
  <2> HIDE DEF A, B, E, D
  <2>3. E = c * Modulus + R /\ E \in Int
    BY <1>1, <1>3, <1>6, <2>1, <2>2
  <2>4. E % Modulus = R
    <3>1. c \in Int
      BY <1>3
    <3> QED
      BY <1>1, <1>6, <2>3, <3>1, DivisionUnique, Zenon
  <2>5. c = 1 <=> E >= Modulus
    BY <1>1, <1>3, <1>6, <2>3
  <2>6. v = 0 <=> Signed(R) = D
    BY <1>3, <2>1, <2>2
  <2> QED
    BY <2>1, <2>3, <2>4, <2>5, <2>6 DEF ExactMeans, E, D, R, g, c, v
<1>8. CASE op \in Subtracts \ Reversed
  <2>1. A = a /\ B = Ones - b
    BY <1>8 DEF AdderA, AdderB
  <2>2. E = a - b - 1 + k /\ D = Signed(a) - Signed(b) - 1 + k
    <3>1. a \in Int /\ b \in Int
      BY <1>1
    <3> QED
      BY <1>2, <1>4, <1>8, <3>1, ExactSums DEF k
  <2> HIDE DEF A, B, E, D
  <2>3. E = (c - 1) * Modulus + R /\ E \in Int /\ c - 1 \in Int
    BY <1>1, <1>3, <1>6, <2>1, <2>2
  <2>4. E % Modulus = R
    BY <1>1, <1>6, <2>3, DivisionUnique, Zenon
  <2>5. c = 1 <=> E >= 0
    BY <1>1, <1>3, <1>6, <2>3
  <2>6. v = 0 <=> Signed(R) = D
    BY <1>3, <1>4, <1>5, <2>1, <2>2
  <2> QED
    BY <1>8, <2>3, <2>4, <2>5, <2>6 DEF ExactMeans, E, D, R, g, c, v
<1>9. CASE op \in Reversed
  <2>1. A = b /\ B = Ones - a /\ op \in Subtracts
    BY <1>9 DEF AdderA, AdderB, Reversed, Subtracts
  <2>2. E = b - a - 1 + k /\ D = Signed(b) - Signed(a) - 1 + k
    <3>1. a \in Int /\ b \in Int
      BY <1>1
    <3> QED
      BY <1>2, <1>4, <1>9, <3>1, ExactSums DEF k
  <2> HIDE DEF A, B, E, D
  <2>3. E = (c - 1) * Modulus + R /\ E \in Int /\ c - 1 \in Int
    BY <1>1, <1>3, <1>6, <2>1, <2>2
  <2>4. E % Modulus = R
    BY <1>1, <1>6, <2>3, DivisionUnique, Zenon
  <2>5. c = 1 <=> E >= 0
    BY <1>1, <1>3, <1>6, <2>3
  <2>6. v = 0 <=> Signed(R) = D
    BY <1>3, <1>4, <1>5, <2>1, <2>2
  <2> QED
    BY <2>1, <2>3, <2>4, <2>5, <2>6 DEF ExactMeans, E, D, R, g, c, v
<1> QED
  BY <1>7, <1>8, <1>9 DEF Promise!Adds, Arithmetics, Subtracts, UsesCarry, Reversed

(* Every operation of the ALU gives the result and the flags that its exact  *)
(* value or its bits call for.                                               *)
LEMMA AluKeepsPromise ==
    ASSUME NEW op \in AluOps, NEW a \in Word, NEW b \in Word, NEW f \in Flags, NEW s \in Flag
    PROVE  /\ Promise!Result(op, a, b, f.c) = AluResult(op, a, b, f.c)
           /\ Promise!Flags(op, a, b, f, s) = AluFlags(op, a, b, f, s)
<1> DEFINE R == AluResult(op, a, b, f.c)
           g == AluFlags(op, a, b, f, s)
           E == Promise!Exact(op, a, b, f.c)
           D == Promise!Exact(op, Signed(a), Signed(b), f.c)
<1>1. f.c \in Flag /\ f.v \in Flag
  BY DEF Flags
<1>2. R \in Word /\ g \in Flags
  BY <1>1, AluResultIsWord, AluFlagsTypes
<1>3. /\ g = [n |-> g.n, z |-> g.z, c |-> g.c, v |-> g.v]
      /\ g.n \in {0, 1} /\ g.z \in {0, 1} /\ g.c \in {0, 1} /\ g.v \in {0, 1}
  <2> HIDE DEF g
  <2> QED
    BY <1>2 DEF Flags, Flag
<1>4. (g.z = 1 <=> R = 0) /\ (g.n = 1 <=> Signed(R) < 0)
  <2>1. g.n = Top(R) /\ g.z = IF R = 0 THEN 1 ELSE 0
    BY DEF AluFlags
  <2> HIDE DEF R, g
  <2>2. Top(R) = IF R >= Half THEN 1 ELSE 0
    BY <1>2, TopOfWord
  <2>3. Signed(R) = IF R >= Half THEN R - Modulus ELSE R
    BY <1>2, SignedIs
  <2> QED
    BY <1>2, <2>1, <2>2, <2>3, ModulusFacts DEF Word
<1>5. Promise!Result(op, a, b, f.c) = R
  <2>1. CASE op \in Arithmetics
    <3>1. E % Modulus = R
      BY <2>1, ExactIs DEF ExactMeans
    <3>2. Promise!Result(op, a, b, f.c) = E % Modulus
      BY <2>1, PromiseClasses, PromiseWords DEF Promise!Result, Promise!Unsigned
    <3> QED
      BY <3>1, <3>2
  <2>2. CASE op \notin Arithmetics
    BY <1>1, <2>2, LogicalMeans DEF Logicals
  <2> QED
    BY <2>1, <2>2
<1>6. Promise!Flags(op, a, b, f, s) =
        [n |-> IF Signed(R) < 0 THEN 1 ELSE 0, z |-> IF R = 0 THEN 1 ELSE 0,
         c |-> IF op \in Subtracts THEN IF E >= 0 THEN 1 ELSE 0
               ELSE IF op \in Arithmetics THEN IF E >= Modulus THEN 1 ELSE 0 ELSE s,
         v |-> IF op \in Arithmetics THEN IF Signed(R) # D THEN 1 ELSE 0 ELSE f.v]
  <2>1. Promise!Signed(R) = Signed(R) /\ Promise!Signed(a) = Signed(a) /\ Promise!Signed(b) = Signed(b)
        /\ Promise!Modulus = Modulus
    BY <1>2, PromiseWords, Zenon
  <2>2. /\ op \in Promise!Subtracts <=> op \in Subtracts
        /\ op \in Promise!Adds <=> op \in Arithmetics /\ op \notin Subtracts
        /\ op \in Promise!Adds \cup Promise!Subtracts <=> op \in Arithmetics
    BY PromiseClasses
  <2>3. op \in Subtracts => op \in Arithmetics
    BY DEF Arithmetics
  <2> HIDE DEF R, E, D
  <2>4. Promise!Flags(op, a, b, f, s) =
          [n |-> Promise!One(Promise!Signed(R) < 0), z |-> Promise!One(R = 0),
           c |-> CASE op \in Promise!Adds -> Promise!One(E >= Promise!Modulus)
                   [] op \in Promise!Subtracts -> Promise!One(E >= 0)
                   [] OTHER -> s,
           v |-> IF op \in Promise!Adds \cup Promise!Subtracts
                   THEN Promise!One(Promise!Signed(R) # Promise!Exact(op, Promise!Signed(a), Promise!Signed(b), f.c))
                   ELSE f.v]
    BY <1>5, Zenon DEF Promise!Flags, E
  <2> QED
    BY <2>1, <2>2, <2>3, <2>4 DEF Promise!One, D
<1>7. CASE op \in Arithmetics
  <2>1. /\ op \in Subtracts => (g.c = 1 <=> E >= 0)
        /\ op \notin Subtracts => (g.c = 1 <=> E >= Modulus)
        /\ g.v = 0 <=> Signed(R) = D
    BY <1>7, ExactIs DEF ExactMeans
  <2> HIDE DEF R, E, D, g
  <2>2. /\ g.n = IF Signed(R) < 0 THEN 1 ELSE 0
        /\ g.z = IF R = 0 THEN 1 ELSE 0
        /\ g.c = IF op \in Subtracts THEN IF E >= 0 THEN 1 ELSE 0 ELSE IF E >= Modulus THEN 1 ELSE 0
        /\ g.v = IF Signed(R) # D THEN 1 ELSE 0
    BY <1>3, <1>4, <2>1
  <2>3. Promise!Flags(op, a, b, f, s) = g
    BY <1>3, <1>6, <1>7, <2>2
  <2> QED
    BY <1>5, <2>3 DEF R, g
<1>8. CASE op \notin Arithmetics
  <2>1. g.c = s /\ g.v = f.v
    BY <1>8 DEF AluFlags
  <2>2. op \notin Subtracts
    BY <1>8 DEF Arithmetics
  <2> HIDE DEF R, E, D, g
  <2>3. g.n = (IF Signed(R) < 0 THEN 1 ELSE 0) /\ g.z = (IF R = 0 THEN 1 ELSE 0)
    BY <1>3, <1>4
  <2>4. Promise!Flags(op, a, b, f, s) = g
    BY <1>3, <1>6, <1>8, <2>1, <2>2, <2>3
  <2> QED
    BY <1>5, <2>4 DEF R, g
<1> QED
  BY <1>7, <1>8

(* Numbers that differ by multiples of d leave the same remainder.           *)
LEMMA SameRemainder ==
    ASSUME NEW n \in Int, NEW m \in Int, NEW k \in Int, NEW d \in Nat, d >= 1, n = m + k * d
    PROVE  n % d = m % d
<1> DEFINE q == m \div d
           r == m % d
<1>1. q \in Int /\ r \in 0 .. d - 1 /\ m = q * d + r
  BY Division
<1> HIDE DEF q, r
<1>2. n = (q + k) * d + r /\ q + k \in Int
  BY <1>1
<1>3. n % d = r
  BY <1>1, <1>2, DivisionUnique, Zenon
<1> QED
  BY <1>3 DEF r

Reading(signed, x) == IF signed THEN Signed(x) ELSE x

LEMMA ReadingIs ==
    ASSUME NEW signed \in BOOLEAN, NEW x \in Word
    PROVE  \E i \in {0, 1} : /\ Reading(signed, x) = x - i * Modulus
                             /\ Reading(signed, x) \in Int
                             /\ Extended(x, signed) = Reading(signed, x) + i * Double
<1>1. /\ Half \in Nat /\ Half >= 1 /\ Modulus = 2 * Half /\ Modulus \in Nat /\ x \in Nat /\ x < Modulus
  BY ModulusFacts DEF Word
<1>2. Double \in Nat
  BY DoubleFacts
<1>3. CASE ~signed
  BY <1>1, <1>2, <1>3 DEF Reading, Extended
<1>4. CASE signed /\ x >= Half
  <2>1. Signed(x) = x - Modulus /\ Top(x) = 1
    BY <1>4, SignedIs, TopOfWord
  <2>2. Extended(x, signed) = x + (Double - Modulus)
    BY <1>1, <1>2, <1>4, <2>1 DEF Extended, Double
  <2>3. Reading(signed, x) = x - 1 * Modulus /\ Reading(signed, x) \in Int
    BY <1>1, <1>4, <2>1 DEF Reading
  <2>4. Extended(x, signed) = Reading(signed, x) + 1 * Double
    BY <1>1, <1>2, <2>2, <2>3
  <2> QED
    BY <2>3, <2>4
<1>5. CASE signed /\ x < Half
  <2>1. Signed(x) = x /\ Top(x) = 0
    BY <1>1, <1>5, SignedIs, TopOfWord
  <2>2. Extended(x, signed) = x
    BY <1>1, <1>2, <1>5, <2>1 DEF Extended, Double
  <2>3. Reading(signed, x) = x - 0 * Modulus /\ Reading(signed, x) \in Int
    BY <1>1, <1>5, <2>1 DEF Reading
  <2>4. Extended(x, signed) = Reading(signed, x) + 0 * Double
    BY <1>1, <1>2, <2>2, <2>3
  <2> QED
    BY <2>3, <2>4
<1> QED
  BY <1>1, <1>3, <1>4, <1>5

LEMMA LongProduct ==
    ASSUME NEW signed \in BOOLEAN, NEW a \in Word, NEW b \in Word, NEW acc \in Nat
    PROVE  (Reading(signed, a) * Reading(signed, b) + acc) % Double = Product(signed, a, b, acc)
<1> DEFINE x == Reading(signed, a)
           y == Reading(signed, b)
           s == Extended(a, signed)
           t == Extended(b, signed)
<1>1. PICK i \in {0, 1} : x \in Int /\ s = x + i * Double
  BY ReadingIs
<1>2. PICK j \in {0, 1} : y \in Int /\ t = y + j * Double
  BY ReadingIs
<1>3. Double \in Nat /\ Double >= 1
  BY DoubleFacts
<1>4. Product(signed, a, b, acc) = (s * t + acc) % Double
  BY DEF Product, Double
<1> DEFINE n == s * t + acc
           m == x * y + acc
           k == x * j + i * y + i * j * Double
<1> HIDE DEF x, y, s, t
<1>5. n = m + k * Double /\ m \in Int /\ n \in Int /\ k \in Int
  <2>1. i * Double \in Int /\ j * Double \in Int /\ i \in Int /\ j \in Int
    BY <1>3
  <2>2. s * t = x * y + (x * j) * Double + (i * y) * Double + (i * j * Double) * Double
    BY <1>1, <1>2, <1>3, <2>1
  <2>3. k * Double = (x * j) * Double + (i * y) * Double + (i * j * Double) * Double
    BY <1>1, <1>2, <1>3, <2>1
  <2>4. x * y \in Int /\ s \in Int /\ t \in Int /\ s * t \in Int /\ k \in Int /\ k * Double \in Int
    BY <1>1, <1>2, <1>3, <2>1
  <2> DEFINE u == (x * j) * Double
             v == (i * y) * Double
             w == (i * j * Double) * Double
             z == x * y
  <2>5. s * t = z + u + v + w /\ k * Double = u + v + w
    BY <2>2, <2>3
  <2>6. u \in Int /\ v \in Int /\ w \in Int /\ z \in Int
    BY <1>1, <1>2, <1>3, <2>1
  <2>7. n = s * t + acc /\ m = z + acc
    OBVIOUS
  <2> HIDE DEF n, m, k, u, v, w, z
  <2> QED
    BY <2>4, <2>5, <2>6, <2>7
<1> HIDE DEF n, m, k
<1>6. n % Double = m % Double
  BY <1>3, <1>5, SameRemainder, Zenon
<1> QED
  BY <1>4, <1>6 DEF n, m, x, y

SameLowWord(signed, a, b, acc) ==
  (Reading(signed, a) * Reading(signed, b) + acc) % Modulus = Product(FALSE, a, b, acc) % Modulus

LEMMA ShortProduct ==
    ASSUME NEW signed \in BOOLEAN, NEW a \in Word, NEW b \in Word, NEW acc \in Nat
    PROVE  SameLowWord(signed, a, b, acc)
<1> DEFINE x == Reading(signed, a)
           y == Reading(signed, b)
<1>1. PICK i \in {0, 1} : x \in Int /\ x = a - i * Modulus
  BY ReadingIs
<1>2. PICK j \in {0, 1} : y \in Int /\ y = b - j * Modulus
  BY ReadingIs
<1>3. Double \in Nat /\ Double >= 1 /\ Modulus \in Nat /\ Modulus >= 1 /\ Double = Modulus * Modulus
      /\ a \in Nat /\ b \in Nat
  BY DoubleFacts, ModulusFacts DEF Double, Word
<1> DEFINE n == a * b + acc
           q == n \div Double
           r == n % Double
           m == x * y + acc
           k == q * Modulus - a * j - i * b + i * j * Modulus
<1>4. Product(FALSE, a, b, acc) = r
  BY DEF Product, Double, Extended
<1>5. q \in Int /\ r \in Nat /\ n = q * Double + r
  <2>1. n \in Int
    BY <1>3
  <2> HIDE DEF n
  <2>2. q \in Int /\ r \in 0 .. Double - 1 /\ n = q * Double + r
    BY <1>3, <2>1, Division, Zenon
  <2> QED
    BY <2>2
<1> HIDE DEF x, y, q, r
<1>6. m = r + k * Modulus /\ m \in Int /\ k \in Int
  <2>1. i \in Int /\ j \in Int /\ a \in Int /\ b \in Int
    BY <1>3
  <2>2. x * y = a * b - (a * j) * Modulus - (i * b) * Modulus + (i * j * Modulus) * Modulus
    BY <1>1, <1>2, <1>3, <2>1
  <2>3. k * Modulus = (q * Modulus) * Modulus - (a * j) * Modulus - (i * b) * Modulus + (i * j * Modulus) * Modulus
    BY <1>3, <1>5, <2>1
  <2>4. (q * Modulus) * Modulus = q * Double
    BY <1>3, <1>5
  <2>5. x * y \in Int /\ k \in Int /\ a * b \in Int
    BY <1>1, <1>2, <1>3, <1>5, <2>1
  <2> DEFINE u == a * b
             v == q * Double
             w == (a * j) * Modulus
             z == (i * b) * Modulus
             e == (i * j * Modulus) * Modulus
  <2>6. w \in Int /\ z \in Int /\ e \in Int /\ v \in Int
    BY <1>3, <1>5, <2>1
  <2>7. x * y = u - w - z + e /\ k * Modulus = v - w - z + e /\ u + acc = v + r
    BY <1>5, <2>2, <2>3, <2>4
  <2> HIDE DEF u, v, w, z, e, k
  <2>8. m = r + k * Modulus /\ m \in Int
    BY <1>5, <2>5, <2>6, <2>7 DEF u
  <2> QED
    BY <2>5, <2>8
<1> HIDE DEF n, m, k
<1>7. m % Modulus = r % Modulus
  <2>1. r \in Int /\ Modulus \in Nat /\ Modulus >= 1 /\ m \in Int /\ k \in Int /\ m = r + k * Modulus
    BY <1>3, <1>5, <1>6
  <2> QED
    BY <2>1, SameRemainder, Zenon
<1> QED
  BY <1>4, <1>7 DEF SameLowWord, m, x, y

LEMMA TopOfLow ==
    ASSUME NEW d \in DoubleWord
    PROVE  /\ Top(d) = 1 <=> 2 * (d % Modulus) >= Modulus
           /\ Top(d \div Modulus) = 1 <=> 2 * d >= Double
           /\ Top(d) \in {0, 1} /\ Top(d \div Modulus) \in {0, 1}
<1>1. /\ Half \in Nat /\ Half >= 1 /\ Modulus = 2 * Half /\ Modulus \in Nat /\ Modulus >= 1 /\ d \in Nat
      /\ Double = Modulus * Modulus
  BY ModulusFacts DEF DoubleWord, Double
<1> DEFINE h == d \div Modulus
           l == d % Modulus
<1>2. h \in Word /\ l \in Word
  BY DoubleWordHalves
<1>3. h \in Nat /\ l \in Nat /\ h < Modulus /\ l < Modulus /\ d = h * Modulus + l
  <2>1. d \in Int
    BY <1>1
  <2>2. d = h * Modulus + l
    BY <1>1, <2>1, Division, Zenon
  <2> HIDE DEF h, l
  <2> QED
    BY <1>1, <1>2, <2>2 DEF Word
<1> HIDE DEF h, l
<1>4. Top(h) = 1 <=> 2 * d >= Double
  <2>1. Top(h) = 1 <=> h >= Half
    BY <1>2, TopOfWord
  <2>2. ASSUME h >= Half PROVE 2 * d >= Double
    <3>1. (h - Half) * Modulus >= 0 /\ h * Modulus = (h - Half) * Modulus + Half * Modulus
      BY <1>1, <1>3, <2>2
    <3>2. Double = 2 * (Half * Modulus) /\ Half * Modulus \in Nat /\ h * Modulus \in Nat
      BY <1>1, <1>3
    <3> DEFINE u == Half * Modulus
               v == h * Modulus
               w == (h - Half) * Modulus
    <3>3. w >= 0 /\ v = w + u /\ Double = 2 * u /\ u \in Int /\ v \in Int /\ w \in Int /\ d = v + l
      <4>1. w \in Int
        BY <1>1, <1>3
      <4> QED
        BY <1>3, <3>1, <3>2, <4>1
    <3> HIDE DEF u, v, w
    <3> QED
      BY <1>3, <3>3
  <2>3. ASSUME h < Half PROVE 2 * d < Double
    <3>1. (Half - 1 - h) * Modulus >= 0 /\ h * Modulus = Half * Modulus - Modulus - (Half - 1 - h) * Modulus
      BY <1>1, <1>3, <2>3
    <3>2. Double = 2 * (Half * Modulus) /\ Half * Modulus \in Nat /\ h * Modulus \in Nat
          /\ (Half - 1 - h) * Modulus \in Int
      BY <1>1, <1>3
    <3> DEFINE u == Half * Modulus
               v == h * Modulus
               w == (Half - 1 - h) * Modulus
    <3>3. w >= 0 /\ v = u - Modulus - w /\ Double = 2 * u /\ u \in Int /\ v \in Int /\ w \in Int /\ d = v + l
      BY <1>3, <3>1, <3>2
    <3> HIDE DEF u, v, w
    <3> QED
      BY <1>1, <1>3, <3>3
  <2>4. 2 * d \in Nat /\ Double \in Nat
    BY <1>1, DoubleFacts
  <2> QED
    BY <1>1, <1>3, <2>1, <2>2, <2>3, <2>4
<1>5. Top(d) = 1 <=> 2 * l >= Modulus
  <2> DEFINE e == IF l >= Half THEN 1 ELSE 0
  <2>1. d = (2 * h + e) * Half + (l - e * Half) /\ l - e * Half \in 0 .. Half - 1 /\ 2 * h + e \in Int /\ d \in Int
    BY <1>1, <1>3
  <2>2. (2 * h + e) % 2 = e
    BY <1>3
  <2>3. 2 * l >= Modulus <=> e = 1
    BY <1>1, <1>3
  <2> HIDE DEF e
  <2>4. d \div Half = 2 * h + e
    BY <1>1, <2>1, DivisionUnique, Zenon
  <2> QED
    BY <2>2, <2>3, <2>4 DEF Top, Bit, Half
<1>6. Top(d) \in {0, 1} /\ Top(h) \in {0, 1}
  BY <1>1, <1>2, BitIsFlag, ModulusFacts, TopOfWord DEF Top, Flag
<1> QED
  BY <1>4, <1>5, <1>6 DEF h, l

LEMMA ProductFlagsAre ==
    ASSUME NEW d \in DoubleWord, NEW f \in Flags
    PROVE  /\ ProductFlags(TRUE, d, f) =
                [f EXCEPT !.z = Promise!One(d = 0), !.n = Promise!One(2 * d >= Double)]
           /\ ProductFlags(FALSE, d, f) =
                [f EXCEPT !.z = Promise!One(d % Modulus = 0), !.n = Promise!One(2 * (d % Modulus) >= Modulus)]
<1> DEFINE l == d % Modulus
           t == Top(d)
           u == Top(d \div Modulus)
<1>1. /\ t = Promise!One(2 * l >= Modulus) /\ u = Promise!One(2 * d >= Double)
  BY TopOfLow DEF Promise!One
<1>2. /\ ProductFlags(TRUE, d, f) = [f EXCEPT !.n = u, !.z = IF d = 0 THEN 1 ELSE 0]
      /\ ProductFlags(FALSE, d, f) = [f EXCEPT !.n = t, !.z = IF l = 0 THEN 1 ELSE 0]
  BY DEF ProductFlags
<1> HIDE DEF l, t, u
<1>3. \A x, y : [f EXCEPT !.n = x, !.z = y] = [f EXCEPT !.z = y, !.n = x]
  BY DEF Flags
<1> QED
  BY <1>1, <1>2, <1>3 DEF Promise!One, l, t, u

LEMMA ConditionsAgree ==
    ASSUME UnitTypeOK, state_q = "S_EXEC"
    PROVE  Promise!Passes(dec) <=> passes_cond
<1>1. FlagsWillBe = flags
  BY DEF FlagsWillBe
<1>2. dec.cond \in Conditions
  BY DecodedTypes DEF UnitTypeOK
<1>3. flags.n \in {0, 1} /\ flags.z \in {0, 1} /\ flags.c \in {0, 1} /\ flags.v \in {0, 1}
  BY DEF UnitTypeOK, Flags, Flag
<1> DEFINE cond == dec.cond
<1>4. passes_cond <=> ConditionPass(cond, flags)
  BY DEF passes_cond
<1>5. Promise!Passes(dec) <=> (Promise!Relation(cond) <=> cond \notin Promise!Opposites)
  BY DEF Promise!Passes
<1> HIDE DEF cond
<1>6. CASE cond \in {"EQ", "NE"}
  <2>1. Promise!Relation(cond) <=> flags.z = 1
    BY <1>1, <1>6 DEF Promise!Relation
  <2>2. cond \in Promise!Opposites <=> cond = "NE"
    BY <1>6 DEF Promise!Opposites
  <2>3. (ConditionPass("EQ", flags) <=> flags.z = 1) /\ (ConditionPass("NE", flags) <=> ~(flags.z = 1))
    BY <1>3 DEF ConditionPass
  <2> QED
    BY <1>4, <1>5, <1>6, <2>1, <2>2, <2>3
<1>7. CASE cond \in {"CS", "CC"}
  <2>1. Promise!Relation(cond) <=> flags.c = 1
    BY <1>1, <1>7 DEF Promise!Relation
  <2>2. cond \in Promise!Opposites <=> cond = "CC"
    BY <1>7 DEF Promise!Opposites
  <2>3. (ConditionPass("CS", flags) <=> flags.c = 1) /\ (ConditionPass("CC", flags) <=> ~(flags.c = 1))
    BY <1>3 DEF ConditionPass
  <2> QED
    BY <1>4, <1>5, <1>7, <2>1, <2>2, <2>3
<1>8. CASE cond \in {"MI", "PL"}
  <2>1. Promise!Relation(cond) <=> flags.n = 1
    BY <1>1, <1>8 DEF Promise!Relation
  <2>2. cond \in Promise!Opposites <=> cond = "PL"
    BY <1>8 DEF Promise!Opposites
  <2>3. (ConditionPass("MI", flags) <=> flags.n = 1) /\ (ConditionPass("PL", flags) <=> ~(flags.n = 1))
    BY <1>3 DEF ConditionPass
  <2> QED
    BY <1>4, <1>5, <1>8, <2>1, <2>2, <2>3
<1>9. CASE cond \in {"VS", "VC"}
  <2>1. Promise!Relation(cond) <=> flags.v = 1
    BY <1>1, <1>9 DEF Promise!Relation
  <2>2. cond \in Promise!Opposites <=> cond = "VC"
    BY <1>9 DEF Promise!Opposites
  <2>3. (ConditionPass("VS", flags) <=> flags.v = 1) /\ (ConditionPass("VC", flags) <=> ~(flags.v = 1))
    BY <1>3 DEF ConditionPass
  <2> QED
    BY <1>4, <1>5, <1>9, <2>1, <2>2, <2>3
<1>10. CASE cond \in {"HI", "LS"}
  <2>1. Promise!Relation(cond) <=> flags.c = 1 /\ flags.z = 0
    BY <1>1, <1>10 DEF Promise!Relation
  <2>2. cond \in Promise!Opposites <=> cond = "LS"
    BY <1>10 DEF Promise!Opposites
  <2>3. /\ ConditionPass("HI", flags) <=> flags.c = 1 /\ flags.z = 0
        /\ ConditionPass("LS", flags) <=> ~(flags.c = 1 /\ flags.z = 0)
    BY <1>3 DEF ConditionPass
  <2> QED
    BY <1>4, <1>5, <1>10, <2>1, <2>2, <2>3
<1>11. CASE cond \in {"GE", "LT"}
  <2>1. Promise!Relation(cond) <=> flags.n = flags.v
    BY <1>1, <1>11 DEF Promise!Relation
  <2>2. cond \in Promise!Opposites <=> cond = "LT"
    BY <1>11 DEF Promise!Opposites
  <2>3. (ConditionPass("GE", flags) <=> flags.n = flags.v) /\ (ConditionPass("LT", flags) <=> ~(flags.n = flags.v))
    BY <1>3 DEF ConditionPass
  <2> QED
    BY <1>4, <1>5, <1>11, <2>1, <2>2, <2>3
<1>12. CASE cond \in {"GT", "LE"}
  <2>1. Promise!Relation(cond) <=> flags.n = flags.v /\ flags.z = 0
    BY <1>1, <1>12 DEF Promise!Relation
  <2>2. cond \in Promise!Opposites <=> cond = "LE"
    BY <1>12 DEF Promise!Opposites
  <2>3. /\ ConditionPass("GT", flags) <=> flags.n = flags.v /\ flags.z = 0
        /\ ConditionPass("LE", flags) <=> ~(flags.n = flags.v /\ flags.z = 0)
    BY <1>3 DEF ConditionPass
  <2> QED
    BY <1>4, <1>5, <1>12, <2>1, <2>2, <2>3
<1>13. CASE cond \in {"AL", "NV"}
  <2>1. Promise!Relation(cond) <=> TRUE
    BY <1>1, <1>13 DEF Promise!Relation
  <2>2. cond \in Promise!Opposites <=> cond = "NV"
    BY <1>13 DEF Promise!Opposites
  <2>3. (ConditionPass("AL", flags) <=> TRUE) /\ (ConditionPass("NV", flags) <=> ~(TRUE))
    BY <1>3 DEF ConditionPass
  <2> QED
    BY <1>4, <1>5, <1>13, <2>1, <2>2, <2>3
<1> QED
  BY <1>2, <1>6, <1>7, <1>8, <1>9, <1>10, <1>11, <1>12, <1>13 DEF Conditions, cond

(* What the registers and the flags hold between instructions.               *)
LEMMA NothingPending ==
    ASSUME state_q = "S_EXEC"
    PROVE  WillHold = gpr /\ FlagsWillBe = flags
BY DEF WillHold, FlagsWillBe

LEMMA ProcessingPromised ==
    ASSUME UnitTypeOK, dp_fires,
           WillHold' = IF dec.op \in Tests THEN gpr ELSE [gpr EXCEPT ![dec.rd] = alu_result],
           FlagsWillBe' = IF dec.s THEN alu_flags_merged ELSE flags
    PROVE  Promise!DataProcessing(dec)
<1>1. state_q = "S_EXEC" /\ dec.class = "DP"
  BY DEF dp_fires, passes_cond
<1>2. WillHold = gpr /\ FlagsWillBe = flags
  BY <1>1, NothingPending
<1>3. /\ dec.op \in AluOps /\ dec.shift \in ShiftOps /\ dec.amount \in 0 .. WordSize
      /\ dec.use_rs \in BOOLEAN /\ dec.s \in BOOLEAN
  BY DecodedTypes DEF UnitTypeOK
<1>4. ra_data \in Word /\ rb_data \in Word /\ rc_data \in Word
      /\ shifter \in [result : Word, carry : Flag]
  BY OperandTypes
<1>5. flags \in Flags /\ flags.c \in Flag
  BY DEF UnitTypeOK, Flags
<1> DEFINE amount == IF dec.use_rs THEN rc_data % Power[AmountBits] ELSE dec.amount
<1>6. amount \in Nat
  <2>1. rc_data % Power[AmountBits] \in Nat
    <3> DEFINE p == Power[AmountBits]
    <3>1. p \in Nat /\ p >= 1
      BY WordSizeAssumption, PowerFacts
    <3>2. rc_data \in Int
      BY <1>4, ModulusFacts DEF Word
    <3> HIDE DEF p
    <3>3. rc_data % p \in 0 .. p - 1
      BY <3>1, <3>2, Remainder, Zenon
    <3> QED
      BY <3>1, <3>3 DEF p
  <2> QED
    BY <1>3, <2>1, WordSizeAssumption
<1>7. shifter = Shifter(dec.shift, amount, rb_data, flags.c)
  BY DEF shifter
<1>8. ra_data = gpr[dec.rn] /\ rb_data = gpr[dec.rm] /\ rc_data = gpr[dec.rs]
  BY <1>1 DEF ra_data, rb_data, rc_data
<1> DEFINE shift == Promise!Shifted(dec.shift, IF dec.shift = "RRX" THEN 1
                      ELSE IF dec.use_rs THEN WillHold[dec.rs] % Promise!Power[AmountBits] ELSE dec.amount,
                      WillHold[dec.rm], FlagsWillBe.c)
<1>9. shift = shifter
  <2>1. (IF dec.shift = "RRX" THEN 1
         ELSE IF dec.use_rs THEN WillHold[dec.rs] % Promise!Power[AmountBits] ELSE dec.amount)
        = IF dec.shift = "RRX" THEN 1 ELSE amount
    BY <1>2, <1>8, PromiseWords
  <2> HIDE DEF amount
  <2>2. Promise!Shifted(dec.shift, IF dec.shift = "RRX" THEN 1 ELSE amount, rb_data, flags.c)
        = Shifter(dec.shift, amount, rb_data, flags.c)
    BY <1>3, <1>4, <1>5, <1>6, ShifterShifts, Zenon
  <2> QED
    BY <1>2, <1>7, <1>8, <2>1, <2>2
<1>10. /\ Promise!Result(dec.op, ra_data, shifter.result, flags.c) = alu_result
       /\ Promise!Flags(dec.op, ra_data, shifter.result, flags, shifter.carry) = alu_flags_merged
  <2>1. shifter.result \in Word /\ shifter.carry \in Flag
    BY <1>4
  <2> QED
    BY <1>3, <1>4, <1>5, <2>1, AluKeepsPromise DEF alu_result, alu_flags_merged
<1>11. Promise!DataProcessing(dec) <=>
         /\ WillHold' = IF dec.op \in {"TST", "TEQ", "CMP", "CMN"} THEN WillHold
                        ELSE [WillHold EXCEPT ![dec.rd] =
                                Promise!Result(dec.op, WillHold[dec.rn], shift.result, FlagsWillBe.c)]
         /\ FlagsWillBe' = IF dec.s THEN Promise!Flags(dec.op, WillHold[dec.rn], shift.result, FlagsWillBe, shift.carry)
                           ELSE FlagsWillBe
  BY DEF Promise!DataProcessing
<1> HIDE DEF shift
<1> QED
  BY <1>2, <1>8, <1>9, <1>10, <1>11 DEF Tests

LEMMA SkipPromised ==
    ASSUME UnitInv, Skip
    PROVE  Promise!Step
<1>1. state_q = "S_EXEC" /\ state_q' = "S_EXEC" /\ ~passes_cond /\ dec' \in Instructions
      /\ gpr' = gpr /\ flags' = flags
  BY DEF Skip, Decode
<1>2. WillHold = gpr /\ FlagsWillBe = flags
  BY <1>1, NothingPending
<1>3. WillHold' = gpr' /\ FlagsWillBe' = flags'
  BY <1>1 DEF WillHold, FlagsWillBe
<1>4. ~Promise!Passes(dec)
  BY <1>1, ConditionsAgree DEF UnitInv
<1> QED
  BY <1>1, <1>2, <1>3, <1>4 DEF Promise!Step

LEMMA ProcessingStep ==
    ASSUME UnitInv, DataProcessing \/ ShiftByRegister
    PROVE  Promise!Step
<1>1. state_q = "S_EXEC" /\ dp_fires /\ passes_cond /\ dec.class = "DP" /\ dec' \in Instructions
  BY DEF DataProcessing, ShiftByRegister, dp_shift_take_cycle, dp_fires, passes_cond, Decode
<1>2. CASE DataProcessing
  <2>1. state_q' = "S_EXEC"
    BY <1>1, <1>2 DEF DataProcessing
  <2>2. WillHold' = gpr' /\ FlagsWillBe' = flags'
    BY <2>1 DEF WillHold, FlagsWillBe
  <2>3. Promise!DataProcessing(dec)
    BY <1>1, <1>2, <2>2, ProcessingPromised DEF DataProcessing, UnitInv
  <2>4. Promise!Passes(dec)
    BY <1>1, ConditionsAgree DEF UnitInv
  <2> QED
    BY <1>1, <2>3, <2>4 DEF Promise!Step
<1>3. CASE ShiftByRegister
  <2>1. state_q' = "S_DP_SHIFT" /\ gpr' = gpr /\ flags' = flags
        /\ shift_q'.rd = dec.rd /\ shift_q'.result = alu_result /\ shift_q'.flags = alu_flags_merged
        /\ shift_q'.writes = (dec.op \notin Tests) /\ shift_q'.flags_we = dec.s
    BY <1>3 DEF ShiftByRegister
  <2>2. WillHold' = IF dec.op \in Tests THEN gpr ELSE [gpr EXCEPT ![dec.rd] = alu_result]
    BY <2>1 DEF WillHold
  <2>3. FlagsWillBe' = IF dec.s THEN alu_flags_merged ELSE flags
    BY <2>1 DEF FlagsWillBe
  <2>4. Promise!DataProcessing(dec)
    BY <1>1, <2>2, <2>3, ProcessingPromised DEF UnitInv
  <2>5. Promise!Passes(dec)
    BY <1>1, ConditionsAgree DEF UnitInv
  <2> QED
    BY <1>1, <2>4, <2>5 DEF Promise!Step
<1> QED
  BY <1>2, <1>3

(* What a multiplication leaves behind, of the product kept.                 *)
Left(kept) ==
  /\ WillHold' = IF dec.class = "MULL" THEN [gpr EXCEPT ![dec.rd] = kept % Modulus, ![dec.rn] = kept \div Modulus]
                 ELSE [gpr EXCEPT ![dec.rn] = kept % Modulus]
  /\ FlagsWillBe' = IF dec.s THEN ProductFlags(dec.class = "MULL", kept, flags) ELSE flags

LEMMA MultiplyPromised ==
    ASSUME UnitTypeOK, state_q = "S_EXEC", dec.class \in {"MUL", "MULL"},
           NEW acc \in Nat,
           acc = (IF ~dec.accumulate THEN 0
                  ELSE IF dec.class = "MULL" THEN gpr[dec.rn] * Modulus + gpr[dec.rd] ELSE gpr[dec.rd]),
           Left(Product(dec.signed /\ dec.class = "MULL", rb_data, rc_data, acc))
    PROVE  Promise!Multiply(dec)
<1> DEFINE long == dec.class = "MULL"
           V(x) == IF dec.signed THEN Promise!Signed(x) ELSE x
           n == V(WillHold[dec.rm]) * V(WillHold[dec.rs])
           added == CASE ~dec.accumulate -> 0
                      [] dec.accumulate /\ ~long -> WillHold[dec.rd]
                      [] dec.accumulate /\ long -> WillHold[dec.rn] * Promise!Modulus + WillHold[dec.rd]
           M == Promise!Modulus
           kept == (n + added) % (IF long THEN M * M ELSE M)
           d == Product(dec.signed /\ long, rb_data, rc_data, acc)
<1>1. WillHold = gpr /\ FlagsWillBe = flags
  BY NothingPending
<1>2. dec.signed \in BOOLEAN /\ dec.accumulate \in BOOLEAN /\ dec.s \in BOOLEAN
  BY DecodedTypes DEF UnitTypeOK
<1>3. rb_data \in Word /\ rc_data \in Word /\ rb_data = gpr[dec.rm] /\ rc_data = gpr[dec.rs]
  BY OperandTypes DEF rb_data, rc_data
<1>4. M = Modulus /\ Promise!Signed(rb_data) = Signed(rb_data) /\ Promise!Signed(rc_data) = Signed(rc_data)
  BY <1>3, PromiseWords, Zenon
<1>5. added = acc
  BY <1>1, <1>2, <1>4
<1>6. n = Reading(dec.signed, rb_data) * Reading(dec.signed, rc_data)
  BY <1>1, <1>3, <1>4 DEF Reading
<1>7. kept = IF long THEN d ELSE d % Modulus
  <2> HIDE DEF n, added
  <2>1. CASE long
    <3>1. d = Product(dec.signed, rb_data, rc_data, acc)
      BY <1>2, <2>1
    <3>2. (Reading(dec.signed, rb_data) * Reading(dec.signed, rc_data) + acc) % Double
          = Product(dec.signed, rb_data, rc_data, acc)
      BY <1>2, <1>3, LongProduct
    <3> QED
      BY <1>4, <1>5, <1>6, <2>1, <3>1, <3>2 DEF Double
  <2>2. CASE ~long
    <3>1. d = Product(FALSE, rb_data, rc_data, acc)
      BY <1>2, <2>2
    <3>2. (Reading(dec.signed, rb_data) * Reading(dec.signed, rc_data) + acc) % Modulus
          = Product(FALSE, rb_data, rc_data, acc) % Modulus
      <4>1. SameLowWord(dec.signed, rb_data, rc_data, acc)
        BY <1>2, <1>3, ShortProduct, Zenon
      <4> QED
        BY <4>1 DEF SameLowWord
    <3> QED
      BY <1>4, <1>5, <1>6, <2>2, <3>1, <3>2
  <2> QED
    BY <2>1, <2>2
<1>8. Promise!Multiply(dec) <=>
        /\ WillHold' = IF long THEN [WillHold EXCEPT ![dec.rd] = kept % M, ![dec.rn] = kept \div M]
                       ELSE [WillHold EXCEPT ![dec.rn] = kept]
        /\ FlagsWillBe' = IF dec.s THEN [FlagsWillBe EXCEPT !.z = Promise!One(kept = 0),
                                           !.n = Promise!One(2 * kept >= IF long THEN M * M ELSE M)]
                          ELSE FlagsWillBe
  BY DEF Promise!Multiply
<1>9. d \in DoubleWord /\ flags \in Flags
  <2>1. (dec.signed /\ long) \in BOOLEAN
    OBVIOUS
  <2> QED
    BY <1>3, <2>1, ProductIsDoubleWord DEF UnitTypeOK
<1>10. Left(d)
  OBVIOUS
<1> HIDE DEF n, added, kept, d, M
<1>11. CASE long
  <2>1. ProductFlags(TRUE, d, flags) = [flags EXCEPT !.z = Promise!One(d = 0), !.n = Promise!One(2 * d >= Double)]
    BY <1>9, ProductFlagsAre
  <2>2. kept = d /\ M = Modulus /\ M * M = Double
    BY <1>4, <1>7, <1>11 DEF Double
  <2> QED
    BY <1>1, <1>8, <1>10, <1>11, <2>1, <2>2 DEF Left
<1>12. CASE ~long
  <2>1. ProductFlags(FALSE, d, flags) =
          [flags EXCEPT !.z = Promise!One(d % Modulus = 0), !.n = Promise!One(2 * (d % Modulus) >= Modulus)]
    BY <1>9, ProductFlagsAre
  <2>2. kept = d % Modulus /\ M = Modulus
    BY <1>4, <1>7, <1>12
  <2> QED
    BY <1>1, <1>8, <1>10, <1>12, <2>1, <2>2 DEF Left
<1> QED
  BY <1>11, <1>12

(* A multiplication with its low word written and the high one latched.      *)
LEMMA MultiplyingStep ==
    ASSUME UnitInv, Multiply
    PROVE  Promise!Step
<1>1. state_q = "S_EXEC" /\ passes_cond /\ dec.class \in {"MUL", "MULL"} /\ dec' \in Instructions
  BY DEF Multiply, mul_take_busy, instr_is_mul, mull_take_cycle, passes_cond, Decode
<1>2. /\ instr_is_mul <=> dec.class = "MUL"
      /\ mull_take_cycle <=> dec.class = "MULL"
      /\ dec.class = "MULL" => ~dec.accumulate
  BY <1>1 DEF Multiply, mul_take_busy, instr_is_mul, mull_take_cycle
<1>3. /\ gpr \in [Regs -> Word] /\ dec.rn \in Regs /\ dec.rd \in Regs /\ dec.accumulate \in BOOLEAN
      /\ mull_q \in [rdhi : Regs, rdlo : Regs, result_hi : Word, acc_lo : Word,
                     op_a : Word, op_b : Word, signed : BOOLEAN, s : BOOLEAN]
  BY DecodedTypes DEF UnitInv, UnitTypeOK
<1> DEFINE acc == IF dec.accumulate THEN ra_data ELSE 0
<1>4. product = Product(dec.signed /\ dec.class = "MULL", rb_data, rc_data, acc)
  BY <1>1 DEF product
<1>5. acc \in Nat
  BY <1>3, OperandTypes, ModulusFacts DEF Word, UnitInv
<1>6. acc = IF ~dec.accumulate THEN 0
            ELSE IF dec.class = "MULL" THEN gpr[dec.rn] * Modulus + gpr[dec.rd] ELSE gpr[dec.rd]
  BY <1>1, <1>2, <1>3 DEF ra_data
<1>7. Left(product)
  <2>1. /\ state_q' = "S_MUL_BUSY"
        /\ mul_active' = (dec.class = "MULL")
        /\ flags' = IF dec.s THEN ProductFlags(~instr_is_mul, product, flags) ELSE flags
        /\ gpr' = [gpr EXCEPT ![IF instr_is_mul THEN dec.rn ELSE dec.rd] = result_lo]
    BY Zenon DEF Multiply
  <2>2. (~instr_is_mul) = (dec.class = "MULL")
    BY <1>1, <1>2
  <2>3. FlagsWillBe' = IF dec.s THEN ProductFlags(dec.class = "MULL", product, flags) ELSE flags
    <3>1. FlagsWillBe' = flags'
      BY <2>1 DEF FlagsWillBe
    <3> QED
      BY <2>1, <2>2, <3>1, Zenon
  <2>4. CASE dec.class = "MULL"
    <3>1. /\ gpr' = [gpr EXCEPT ![dec.rd] = result_lo] /\ mul_active'
          /\ mull_q'.rdhi = dec.rn /\ mull_q'.result_hi = result_hi
      BY <1>2, <1>3, <2>1, <2>4 DEF Multiply
    <3>2. WillHold' = [gpr' EXCEPT ![dec.rn] = result_hi]
      BY <2>1, <3>1 DEF WillHold
    <3>3. WillHold' = [gpr EXCEPT ![dec.rd] = product % Modulus, ![dec.rn] = product \div Modulus]
      BY <3>1, <3>2, Zenon DEF result_lo, result_hi
    <3> QED
      BY <2>3, <2>4, <3>3, Zenon DEF Left
  <2>5. CASE dec.class # "MULL"
    <3>1. gpr' = [gpr EXCEPT ![dec.rn] = result_lo] /\ ~mul_active'
      BY <1>1, <1>2, <2>1, <2>5
    <3>2. WillHold' = gpr'
      BY <2>1, <3>1 DEF WillHold
    <3> QED
      BY <2>3, <2>5, <3>1, <3>2, Zenon DEF Left, result_lo
  <2> QED
    BY <2>4, <2>5
<1> HIDE DEF acc
<1>8. Promise!Multiply(dec)
  <2>1. Left(Product(dec.signed /\ dec.class = "MULL", rb_data, rc_data, acc))
    BY <1>4, <1>7
  <2> QED
    BY <1>1, <1>5, <1>6, <2>1, MultiplyPromised DEF UnitInv
<1>9. Promise!Passes(dec)
  BY <1>1, ConditionsAgree DEF UnitInv
<1> QED
  BY <1>1, <1>8, <1>9 DEF Promise!Step

(* An accumulating long form with all its operands latched.                  *)
LEMMA AccumulatingStep ==
    ASSUME UnitInv, MultiplyAccumulate
    PROVE  Promise!Step
<1>1. state_q = "S_EXEC" /\ passes_cond /\ dec.class = "MULL" /\ dec.accumulate /\ dec' \in Instructions
  BY DEF MultiplyAccumulate, mull_accum_take_cycle, passes_cond, Decode
<1>2. /\ gpr \in [Regs -> Word] /\ dec.rn \in Regs /\ dec.rd \in Regs
      /\ mull_q \in [rdhi : Regs, rdlo : Regs, result_hi : Word, acc_lo : Word,
                     op_a : Word, op_b : Word, signed : BOOLEAN, s : BOOLEAN]
  BY DecodedTypes DEF UnitInv, UnitTypeOK
<1> DEFINE acc == gpr[dec.rn] * Modulus + gpr[dec.rd]
           signed == dec.signed /\ dec.class = "MULL"
           kept == Product(signed, rb_data, rc_data, acc)
<1>3. acc \in Nat
  <2>1. gpr[dec.rn] \in Nat /\ gpr[dec.rd] \in Nat /\ Modulus \in Nat
    BY <1>2, ModulusFacts DEF Word
  <2> QED
    BY <2>1
<1>4. /\ state_q' = "S_MULL_ACC" /\ gpr' = gpr /\ flags' = flags
      /\ mull_q'.acc_lo = gpr[dec.rd] /\ mull_q'.rdhi = dec.rn /\ mull_q'.rdlo = dec.rd
      /\ mull_q'.op_a = rb_data /\ mull_q'.op_b = rc_data
      /\ mull_q'.signed = signed /\ mull_q'.s = dec.s
  <2>1. ra_data = gpr[dec.rd]
    BY <1>1 DEF ra_data
  <2>2. signed = dec.signed
    BY <1>1, <1>2, DecodedTypes DEF UnitInv, UnitTypeOK
  <2> QED
    BY <1>2, <2>1, <2>2 DEF MultiplyAccumulate
<1>5. product' = kept
  <2>1. ra_data' = gpr[dec.rn]
    BY <1>4 DEF ra_data
  <2>2. product' = Product(mull_q'.signed, mull_q'.op_a, mull_q'.op_b, ra_data' * Modulus + mull_q'.acc_lo)
    BY <1>4 DEF product
  <2> QED
    BY <1>4, <2>1, <2>2
<1> HIDE DEF acc, signed, kept
<1>6. Left(kept)
  <2>1. result_lo' = kept % Modulus /\ result_hi' = kept \div Modulus
    BY <1>5 DEF result_lo, result_hi
  <2>2. WillHold' = [gpr EXCEPT ![dec.rd] = kept % Modulus, ![dec.rn] = kept \div Modulus]
    BY <1>4, <2>1 DEF WillHold
  <2>3. FlagsWillBe' = IF dec.s THEN ProductFlags(TRUE, kept, flags) ELSE flags
    BY <1>4, <1>5 DEF FlagsWillBe
  <2> QED
    BY <1>1, <2>2, <2>3 DEF Left
<1>7. Promise!Multiply(dec)
  <2>1. Left(Product(dec.signed /\ dec.class = "MULL", rb_data, rc_data, acc))
    BY <1>6 DEF kept, signed
  <2>2. acc = IF ~dec.accumulate THEN 0
              ELSE IF dec.class = "MULL" THEN gpr[dec.rn] * Modulus + gpr[dec.rd] ELSE gpr[dec.rd]
    BY <1>1 DEF acc
  <2> QED
    BY <1>1, <1>3, <2>1, <2>2, MultiplyPromised DEF UnitInv
<1>8. Promise!Passes(dec)
  BY <1>1, ConditionsAgree DEF UnitInv
<1> QED
  BY <1>1, <1>7, <1>8 DEF Promise!Step

(* The later cycles write what was promised in the first.                    *)
LEMMA LaterCycles ==
    ASSUME UnitInv, ShiftCommit \/ AccumulateHigh \/ Busy \/ WriteHigh
    PROVE  WillHold' = WillHold /\ FlagsWillBe' = FlagsWillBe /\ dec' = dec
<1>1. CASE ShiftCommit
  <2>1. state_q = "S_DP_SHIFT" /\ state_q' = "S_EXEC" /\ dec' = dec
        /\ gpr' = (IF shift_q.writes THEN [gpr EXCEPT ![shift_q.rd] = shift_q.result] ELSE gpr)
        /\ flags' = (IF shift_q.flags_we THEN shift_q.flags ELSE flags)
    BY <1>1 DEF ShiftCommit
  <2>2. WillHold' = gpr' /\ FlagsWillBe' = flags'
    BY <2>1 DEF WillHold, FlagsWillBe
  <2>3. WillHold = gpr' /\ FlagsWillBe = flags'
    BY <2>1 DEF WillHold, FlagsWillBe
  <2> QED
    BY <2>1, <2>2, <2>3
<1>2. CASE AccumulateHigh
  <2>1. /\ state_q = "S_MULL_ACC" /\ state_q' = "S_MUL_BUSY" /\ dec' = dec /\ mul_active'
        /\ gpr' = [gpr EXCEPT ![mull_q.rdlo] = result_lo]
        /\ flags' = IF mull_q.s THEN ProductFlags(TRUE, product, flags) ELSE flags
        /\ mull_q'.rdhi = mull_q.rdhi /\ mull_q'.result_hi = result_hi
    BY <1>2 DEF AccumulateHigh, UnitInv, UnitTypeOK, CyclesLeft
  <2>2. WillHold' = [gpr' EXCEPT ![mull_q.rdhi] = result_hi] /\ FlagsWillBe' = flags'
    BY <2>1 DEF WillHold, FlagsWillBe
  <2>3. WillHold = [gpr' EXCEPT ![mull_q.rdhi] = result_hi] /\ FlagsWillBe = flags'
    BY <2>1 DEF WillHold, FlagsWillBe
  <2> QED
    BY <2>1, <2>2, <2>3
<1>3. CASE Busy
  <2>1. /\ state_q = "S_MUL_BUSY" /\ UNCHANGED <<gpr, flags, dec, mull_q, mul_active>>
        /\ state_q' \in {"S_MUL_BUSY", "S_MULL_HI", "S_EXEC"}
        /\ state_q' = "S_EXEC" => ~mul_active
    BY <1>3 DEF Busy
  <2>2. WillHold = IF mul_active THEN [gpr EXCEPT ![mull_q.rdhi] = mull_q.result_hi] ELSE gpr
    BY <2>1 DEF WillHold
  <2>3. WillHold' = IF mul_active THEN [gpr EXCEPT ![mull_q.rdhi] = mull_q.result_hi] ELSE gpr
    BY <2>1 DEF WillHold
  <2>4. FlagsWillBe = flags /\ FlagsWillBe' = flags
    BY <2>1 DEF FlagsWillBe
  <2> QED
    BY <2>1, <2>2, <2>3, <2>4
<1>4. CASE WriteHigh
  <2>1. /\ state_q = "S_MULL_HI" /\ state_q' = "S_EXEC" /\ mul_active /\ flags' = flags /\ dec' = dec
        /\ gpr' = [gpr EXCEPT ![mull_q.rdhi] = mull_q.result_hi]
    BY <1>4 DEF WriteHigh, UnitInv, CyclesLeft
  <2>2. WillHold' = gpr' /\ WillHold = gpr' /\ FlagsWillBe' = flags /\ FlagsWillBe = flags
    BY <2>1 DEF WillHold, FlagsWillBe
  <2> QED
    BY <2>1, <2>2
<1> QED
  BY <1>1, <1>2, <1>3, <1>4

LEMMA PromiseInitial == UnitInit => Promise!Init
<1> SUFFICES ASSUME UnitInit PROVE Promise!Init
  OBVIOUS
<1>1. UnitTypeOK /\ state_q = "S_EXEC"
  BY UnitInitial DEF UnitInv, UnitInit
<1>2. WillHold = gpr /\ FlagsWillBe = flags
  BY <1>1, NothingPending
<1>3. gpr \in [Regs -> 0 .. Promise!Modulus - 1]
  BY <1>1, PromiseWords DEF UnitTypeOK, Word
<1>4. flags \in [n : {0, 1}, z : {0, 1}, c : {0, 1}, v : {0, 1}] /\ dec \in Instructions
  BY <1>1 DEF UnitTypeOK, Flags, Flag
<1> QED
  BY <1>2, <1>3, <1>4 DEF Promise!Init

LEMMA PromiseStep ==
    ASSUME UnitInv, [UnitNext]_unit_vars
    PROVE  [Promise!Step]_(Promise!vars)
<1>1. CASE Skip \/ DataProcessing \/ ShiftByRegister \/ Multiply \/ MultiplyAccumulate
  BY <1>1, SkipPromised, ProcessingStep, MultiplyingStep, AccumulatingStep
<1>2. CASE ShiftCommit \/ AccumulateHigh \/ Busy \/ WriteHigh
  BY <1>2, LaterCycles DEF Promise!vars
<1>3. CASE UNCHANGED unit_vars
  <2>1. UNCHANGED <<gpr, flags, dec, state_q, shift_q, mull_q, mul_active>>
    BY <1>3 DEF unit_vars
  <2>2. product' = product
    BY <2>1 DEF product, ra_data, rb_data, rc_data
  <2>3. WillHold' = WillHold /\ FlagsWillBe' = FlagsWillBe
    BY <2>1, <2>2 DEF WillHold, FlagsWillBe, result_lo, result_hi
  <2> QED
    BY <2>1, <2>3 DEF Promise!vars
<1> QED
  BY <1>1, <1>2, <1>3 DEF UnitNext

(* For every word size, set of registers and set of instructions, whatever   *)
(* Decode delivers while an instruction takes its later cycles, Execute does *)
(* to registers and flags what the arithmetic of the operands says, at once: *)
(* its adder, its shifter with the amounts 0, WordSize and beyond, its       *)
(* multiplier and the latches of its substates are the numbers of            *)
(* Arithmetic.                                                               *)
THEOREM ArithmeticIsKept == UnitSpec => ArithmeticSpec
<1>1. UnitInit => UnitInv
  BY UnitInitial
<1>2. UnitInv /\ [UnitNext]_unit_vars => UnitInv'
  BY UnitInductive
<1>3. UnitInv /\ [UnitNext]_unit_vars => [Promise!Step]_(Promise!vars)
  BY PromiseStep
<1> QED
  BY <1>1, <1>2, <1>3, PromiseInitial, PTL DEF UnitSpec, ArithmeticSpec, Promise!Spec

=============================================================================
