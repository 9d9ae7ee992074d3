----------------------------- MODULE ScanPath -----------------------------
(***************************************************************************)
(* What the debugger's scan transport promises.  Between a capture and an  *)
(* update, the selected register is a queue of its cells: the bit at the   *)
(* output leaves and the new one joins at the input.  An update delivers   *)
(* the queue to its target; a chain-2 read is answered by the next         *)
(* chain-2 scan.  Each step taken has one answer, and none is overtaken:   *)
(* a new answer comes only when the host has heard the one before it.      *)
(***************************************************************************)
EXTENDS Integers, Sequences

CONSTANTS AddrBits, DataBits, ScanBits, IrBits, IdCode,
          SCAN_N, RESTART, INTEST, IDCODE, Kept

Bit == {0, 1}
Words(n) == [1 .. n -> Bit]
Chain2 == 1 + AddrBits + DataBits
Zeros(n) == [k \in 1 .. n |-> 0]

VARIABLES ir,      \* instruction in force, a word, first bit out first
          chain,   \* chain number in force, a word
          line,    \* cells of the open scan, first out first; <<>> if closed
          opcodes, \* is the open scan one of the instruction register?
          reply,   \* answer of a chain-2 read not yet scanned, or <<>>
          ice,     \* EmbeddedICE registers
          inject,  \* chain-1 word delivered by the last step, or <<>>
          enabled, \* is debug enabled?
          answer,  \* what the step before answered: a bit, HighZ or NoAnswer
          heard    \* parity of the answers the host has taken

vars == <<ir, chain, line, opcodes, reply, ice, inject, enabled, answer, heard>>

HighZ == 2
NoAnswer == 3

(* The word with value 1 or 2, first bit out first.                        *)
Number(bit) == [k \in 1 .. ScanBits |-> IF k = bit + 1 THEN 1 ELSE 0]

Selected ==
    IF opcodes THEN "ir"
    ELSE CASE ir = IDCODE -> "id"
           [] ir = SCAN_N -> "scan_n"
           [] ir = INTEST /\ chain = Number(0) -> "chain1"
           [] ir = INTEST /\ chain = Number(1) -> "chain2"
           [] ir = INTEST /\ chain \notin {Number(0), Number(1)} -> "zero"
           [] OTHER -> "bypass"

Init ==
    /\ ir = IDCODE /\ chain = Zeros(ScanBits)
    /\ line = <<>> /\ opcodes = FALSE /\ reply = <<>> /\ inject = <<>>
    /\ ice = [a \in Words(AddrBits) |-> Zeros(DataBits)]
    /\ enabled = TRUE /\ answer = NoAnswer /\ heard = 0

(* The step is answered, if the port stays enabled; the answer before it   *)
(* has been heard by then.                                                 *)
Answers(a) ==
    /\ enabled /\ enabled' \in BOOLEAN
    /\ answer' = IF enabled' THEN a ELSE NoAnswer
    /\ heard' = IF answer = NoAnswer THEN heard ELSE 1 - heard

(* What a capture may put in the register.                                 *)
Captured(word) ==
    CASE Selected' = "ir" -> word = [k \in 1 .. IrBits |-> IF k = 1 THEN 1 ELSE 0]
      [] Selected' = "id" -> word = IdCode
      [] Selected' = "scan_n" ->
           word = [k \in 1 .. ScanBits |-> IF k = ScanBits THEN 1 ELSE 0]
      [] Selected' = "chain1" -> word \in Words(DataBits + 1)
      [] Selected' = "chain2" -> IF reply # <<>> THEN word = reply
                                                 ELSE word \in Words(Chain2)
      [] OTHER -> word = <<0>>

Open ==
    /\ line = <<>> /\ line' # <<>> /\ Captured(line')
    /\ reply' = IF Selected' \in {"ir", "chain2"} THEN reply ELSE <<>>
    /\ inject' = <<>> /\ UNCHANGED <<ir, chain, ice>>
    /\ Answers(HighZ)

Shift ==
    /\ line # <<>>
    /\ \E b \in Bit :
           line' = IF Selected = "zero" THEN line ELSE Append(Tail(line), b)
    /\ reply' = IF Selected = "ir" THEN reply ELSE <<>>
    /\ inject' = <<>> /\ UNCHANGED <<ir, chain, opcodes, ice>>
    /\ Answers(Head(line))

(* Chain 2 from its output: data from its most significant bit, address    *)
(* from its least, and the write bit.  Words are kept least bit first.     *)
LineData == [k \in 1 .. DataBits |-> line[DataBits + 1 - k]]
LineAddr == SubSeq(line, DataBits + 1, DataBits + AddrBits)
LineWrites == line[Chain2] = 1

Masked(word, bits) == [k \in DOMAIN word |-> IF k \in bits THEN word[k] ELSE 0]

Access ==
    IF LineWrites
    THEN /\ ice' = [ice EXCEPT ![LineAddr] = Masked(LineData, Kept[LineAddr])]
         /\ reply' = <<>>
    ELSE /\ reply' = [k \in 1 .. DataBits |->
                         ice[LineAddr][DataBits + 1 - k]] \o LineAddr \o <<0>>
         /\ UNCHANGED ice

Deliver ==
    /\ line # <<>> /\ line' = <<>> /\ opcodes' = FALSE
    /\ ir' = IF Selected = "ir" THEN line ELSE ir
    /\ chain' = IF Selected = "scan_n" THEN line ELSE chain
    /\ inject' = IF Selected = "chain1" THEN line ELSE <<>>
    /\ IF Selected = "chain2" THEN Access
       ELSE /\ UNCHANGED ice
            /\ reply' = reply
    /\ Answers(HighZ)

(* A step that moves between pauses and idle states, or resets the         *)
(* instruction.                                                            *)
Move ==
    /\ inject' = <<>> /\ UNCHANGED <<chain, line, opcodes, reply, ice>>
    /\ ir' = ir \/ (ir' = IDCODE /\ line = <<>>)
    /\ Answers(HighZ)

(* An edge without a step: the host may take the answer.  A port that is   *)
(* disabled forgets it.                                                    *)
Idle ==
    /\ inject' = <<>> /\ UNCHANGED <<ir, chain, line, opcodes, reply, ice>>
    /\ enabled' \in BOOLEAN
    /\ \/ answer' = (IF enabled' THEN answer ELSE NoAnswer) /\ UNCHANGED heard
       \/ answer # NoAnswer /\ answer' = NoAnswer /\ heard' = 1 - heard

Reset ==
    /\ ir' = IDCODE /\ chain' = Zeros(ScanBits)
    /\ line' = <<>> /\ opcodes' = FALSE /\ reply' = <<>> /\ inject' = <<>>
    /\ ice' = [a \in Words(AddrBits) |-> Zeros(DataBits)]
    /\ UNCHANGED <<enabled, answer, heard>>

Next == Open \/ Shift \/ Deliver \/ Move \/ Idle \/ Reset

Spec == Init /\ [][Next]_vars
=============================================================================
