------------------------------ MODULE MemChannel ------------------------------
(***************************************************************************)
(* What a bus master is promised by a one-outstanding memory channel: a    *)
(* transfer is issued only when nothing is owed, the memory serves it      *)
(* exactly once, and the master takes that one answer before it issues the *)
(* next transfer.  A fast path may serve, take and issue in a single step. *)
(* MemBridge (rtl/top/arm7tdmi_mister.sv) is shown to implement it.        *)
(***************************************************************************)
EXTENDS Naturals

CONSTANTS
  Addr,          \* memory locations
  Data,          \* word contents
  NTags,         \* successive transfers are numbered modulo NTags
  None           \* no transfer, no answer

Tag == 0 .. NTags - 1
NextTag(n) == (n + 1) % NTags

VARIABLES
  mem,           \* what the target stores
  owed,          \* the transfer issued and not served, or None
  answer,        \* the answer served and not taken, or None
  seen,          \* the last answer the master took
  tag            \* the number of the last transfer issued

chan == <<mem, owed, answer, seen, tag>>

Transfer == [tag: Tag, addr: Addr, write: BOOLEAN, data: Data]
Answer   == [req: Transfer, data: Data, error: BOOLEAN]

TypeOK ==
  /\ mem \in [Addr -> Data]
  /\ owed \in Transfer \cup {None}
  /\ answer \in Answer \cup {None}
  /\ seen \in Answer \cup {None}
  /\ tag \in Tag

\* The answers a target may give: a good read returns what is stored.
Answers(q) ==
  {a \in Answer : a.req = q /\ (~a.error /\ ~q.write => a.data = mem[q.addr])}

\* A store takes effect when it is served without an error.
Effect(a) ==
  IF a.req.write /\ ~a.error THEN [mem EXCEPT ![a.req.addr] = a.req.data] ELSE mem

Init ==
  /\ mem \in [Addr -> Data]
  /\ owed = None /\ answer = None /\ seen = None
  /\ tag \in Tag

\* The master starts its next transfer, or none.
Start ==
  \/ owed' = None /\ tag' = tag
  \/ /\ tag' = NextTag(tag)
     /\ owed' \in {q \in Transfer : q.tag = tag'}

Issue ==
  /\ owed = None /\ answer = None
  /\ Start
  /\ UNCHANGED <<mem, answer, seen>>

Serve ==
  /\ owed # None
  /\ answer' \in Answers(owed)
  /\ mem' = Effect(answer')
  /\ owed' = None
  /\ UNCHANGED <<seen, tag>>

Take ==
  /\ answer # None
  /\ seen' = answer
  /\ answer' = None
  /\ Start
  /\ UNCHANGED mem

ServeAndTake ==
  /\ owed # None
  /\ seen' \in Answers(owed)
  /\ mem' = Effect(seen')
  /\ answer' = None
  /\ Start

\* A reset forgets the transfer in progress; memory keeps what it stored.
Abandon ==
  /\ owed' = None /\ answer' = None /\ seen' = None
  /\ UNCHANGED <<mem, tag>>

Next == Issue \/ Serve \/ Take \/ ServeAndTake \/ Abandon

Spec == Init /\ [][Next]_chan

=============================================================================
