------------------------------ MODULE ErrorList ------------------------------
(***************************************************************************)
(* What a thread's error queue promises (include/openssl/err.h): the Cap   *)
(* most recent errors, oldest first, each with its optional data, a mark   *)
(* to which the newest errors can be undone, and one saved copy.           *)
(***************************************************************************)
EXTENDS Naturals, Sequences

CONSTANTS Codes,    \* packed error codes
          Texts,    \* what error data may say
          Cap       \* errors the queue holds at most

VARIABLES q,        \* the queued errors, oldest first
          saved     \* the ERR_SAVE_STATE the caller holds; <<>> is none

lvars == <<q, saved>>

Init ==
    /\ q = <<>>
    /\ saved = <<>>

\* A new error is the newest; the oldest gives way when the queue is full.
Put(c) ==
    LET e == [packed |-> c, data |-> <<>>, mark |-> FALSE]
    IN  /\ q' = IF Len(q) < Cap THEN Append(q, e) ELSE Append(Tail(q), e)
        /\ UNCHANGED saved

\* Errors are taken oldest first.
Get ==
    /\ q # <<>>
    /\ q' = Tail(q)
    /\ UNCHANGED saved

\* The newest error is given data, or marked.
SetData(t) ==
    /\ q # <<>>
    /\ q' = [q EXCEPT ![Len(q)].data = <<t>>]
    /\ UNCHANGED saved

SetMark ==
    /\ q # <<>>
    /\ q' = [q EXCEPT ![Len(q)].mark = TRUE]
    /\ UNCHANGED saved

\* The errors newer than the newest marked one go, and its mark with them;
\* all of them when none is marked.
PopToMark ==
    /\ \E k \in 0 .. Len(q) :
         /\ k = 0 \/ q[k].mark
         /\ \A i \in k + 1 .. Len(q) : ~q[i].mark
         /\ q' = [i \in 1 .. k |-> IF i = k THEN [q[i] EXCEPT !.mark = FALSE] ELSE q[i]]
    /\ UNCHANGED saved

Clear ==
    /\ q' = <<>>
    /\ UNCHANGED saved

\* A copy of s: marks are not copied, and data is lost when memory is short.
IsCopy(c, s) ==
    /\ DOMAIN c = DOMAIN s
    /\ \A i \in DOMAIN s :
         /\ c[i].packed = s[i].packed
         /\ c[i].data \in {<<>>, s[i].data}
         /\ c[i].mark = FALSE

Save ==
    /\ IsCopy(saved', q)
    /\ UNCHANGED q

Restore ==
    /\ IsCopy(q', saved)
    /\ UNCHANGED saved

Forget ==
    /\ saved' = <<>>
    /\ UNCHANGED q

Next ==
    \/ \E c \in Codes : Put(c)
    \/ Get
    \/ \E t \in Texts : SetData(t)
    \/ SetMark
    \/ PopToMark
    \/ Clear
    \/ Save
    \/ Restore
    \/ Forget

Spec == Init /\ [][Next]_lvars

==============================================================================
