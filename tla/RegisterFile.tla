---------------------------- MODULE RegisterFile ----------------------------
(***************************************************************************)
(* The register file: 31 physical words behind the bank index of a         *)
(* register number and a mode, written by the core's port, by the debug    *)
(* scan port while the core's enable is stopped, and by the save-state     *)
(* port while the host holds the core.  A step is a rising CLK edge.       *)
(***************************************************************************)
EXTENDS Integers, Sequences

CONSTANTS RegNums,    \* register numbers in use, r15 excluded
          Values,     \* register contents
          ResetValue  \* the content after reset

ASSUME RegNumsAssumption == RegNums \subseteq 0 .. 14
ASSUME ValuesAssumption == ResetValue \in Values

VARIABLES regs,
          request  \* what the last edge asked for

fileVars == <<regs, request>>

BankModes == {"usr", "fiq", "irq", "svc", "abt", "und", "sys"}
Physical == 0 .. 30
Nothing == [kind |-> "nothing"]

FileInit == regs = [p \in Physical |-> ResetValue] /\ request = Nothing
-----------------------------------------------------------------------------
(* The physical word of a register in a mode.                              *)
bank_index(r, m) ==
    IF r <= 7 THEN r
    ELSE IF r <= 12 THEN IF m = "fiq" THEN r + 8 ELSE r
    ELSE CASE m = "fiq" -> r + 8
           [] m = "irq" -> r + 10
           [] m = "svc" -> r + 12
           [] m = "abt" -> r + 14
           [] m = "und" -> r + 16
           [] OTHER     -> r

(* Mutant of state_physical_index: the gap at word 15 is forgotten.        *)
index_without_gap(i) == i

(* The physical word of a word of the image. No register uses word 15.     *)
state_physical_index(i) == IF i < 15 THEN i ELSE i + 1

(* The bank of a port: the current mode's, unless the S bit of an LDM or   *)
(* STM asks for User's.                                                    *)
effective_mode(mode, user) == IF user THEN "usr" ELSE mode

(* The two instruction ports. Register 15 is the PC, which the core keeps. *)
Write(r, mode, user, v) ==
    IF r = 15 THEN UNCHANGED regs /\ request' = Nothing
    ELSE /\ regs' = [regs EXCEPT ![bank_index(r, effective_mode(mode, user))] = v]
         /\ request' = [kind |-> "write", reg |-> r, mode |-> mode, user |-> user, value |-> v]

(* The PSR words and the resume PC share the port's higher indices.        *)
StateWrite(i, v) ==
    IF i >= 30 THEN UNCHANGED regs /\ request' = Nothing
    ELSE /\ regs' = [regs EXCEPT ![state_physical_index(i)] = v]
         /\ request' = [kind |-> "import", index |-> i, value |-> v]

Reset == regs' = [p \in Physical |-> ResetValue] /\ request' = Nothing

(* The words of the image that hold a register in use.                     *)
InUse == {i \in 0 .. 29 : state_physical_index(i) \in
                              {bank_index(r, m) : r \in RegNums, m \in BankModes}}

FileNext ==
    \/ \E r \in RegNums \cup {15}, mode \in BankModes, user \in BOOLEAN, v \in Values :
         Write(r, mode, user, v)
    \/ \E i \in InUse \cup {30}, v \in Values : StateWrite(i, v)
    \/ Reset

FileSpec == FileInit /\ [][FileNext]_fileVars
-----------------------------------------------------------------------------
(* Type invariant.                                                         *)
FileTypes ==
    /\ regs \in [Physical -> Values]
    /\ request \in {Nothing}
         \cup [kind : {"write"}, reg : RegNums, mode : BankModes, user : BOOLEAN, value : Values]
         \cup [kind : {"import"}, index : 0 .. 29, value : Values]

(* docs/SAVESTATE.md, Version 1.0 word map, words 0 to 29.                 *)
Schema ==
    [i \in 0 .. 29 |->
        CASE i \in 0 .. 14  -> <<i, "usr">>
          [] i \in 15 .. 21 -> <<i - 7, "fiq">>
          [] i \in 22 .. 23 -> <<i - 9, "irq">>
          [] i \in 24 .. 25 -> <<i - 11, "svc">>
          [] i \in 26 .. 27 -> <<i - 13, "abt">>
          [] i \in 28 .. 29 -> <<i - 15, "und">>]

(* The registers there are: a number and the mode that has it to itself.   *)
Registers == {n \in RegNums \X BankModes : \/ n[2] = "usr"
                                           \/ n[2] = "fiq" /\ n[1] >= 8
                                           \/ n[2] # "sys" /\ n[1] >= 13}

Architecture == INSTANCE BankedRegisters
            WITH file <- [n \in Registers |-> regs[bank_index(n[1], n[2])]],
                 Modes <- BankModes

(* Every write changes the architectural register it names, through every  *)
(* mode and from the image, and no register of another bank.               *)
BankedRegistersSpec == Architecture!Spec
=============================================================================
