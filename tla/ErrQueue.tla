------------------------------- MODULE ErrQueue -------------------------------
(***************************************************************************)
(* A thread's error queue (crypto/err/err.c): a ring of N errors, the data *)
(* strings they own, the string kept for the last caller of                *)
(* ERR_get_error_line_data, and a saved copy of the queue.                 *)
(*                                                                         *)
(* A data string is its text, and heap counts the live strings of each     *)
(* text.  The queue belongs to one thread, so each call is one step.  A    *)
(* call made before the thread has an ERR_STATE allocates it; when that    *)
(* fails the call does nothing, which is a stuttering step here.           *)
(***************************************************************************)
EXTENDS Integers, Sequences, FiniteSets

CONSTANTS Codes,    \* packed error codes
          Texts,    \* what error data may say
          N         \* ERR_NUM_ERRORS

ASSUME NAssumption == N \in Nat /\ N > 1

VARIABLES errors, top, bottom, to_free,  \* ERR_STATE
          saved,    \* the caller's ERR_SAVE_STATE, <<>> for NULL
          heap,     \* how many strings of each text are allocated
          out,      \* the data pointer a caller may still use
          snap      \* what was queued at the last ERR_set_mark, less what was pushed out

vars == <<errors, top, bottom, to_free, saved, heap, out, snap>>

Data == {<<>>} \cup {<<t>> : t \in Texts}
Error == [packed : Codes \cup {0}, data : Data, mark : BOOLEAN]

err_cleared == [packed |-> 0, data |-> <<>>, mark |-> FALSE]

Init ==
    /\ errors = [s \in 0 .. N - 1 |-> err_cleared]
    /\ top = 0
    /\ bottom = 0
    /\ to_free = <<>>
    /\ saved = <<>>
    /\ heap = [t \in Texts |-> 0]
    /\ out = <<>>
    /\ snap = <<>>

-----------------------------------------------------------------------------

\* The number of queued errors, as ERR_save_state computes it.
Num == IF top >= bottom THEN top - bottom ELSE N + top - bottom

\* The slot of the i-th oldest error; Slot(0) is bottom.
Slot(i) == (bottom + i) % N

\* The errors of es, at the places S, that have a string of text t.
With(es, S, t) == Cardinality({s \in S : es[s].data = <<t>>})

\* free(3) of the strings of the slots S.
FreeSlots(S) == [t \in Texts |-> heap[t] - With(errors, S, t)]

Packed == [i \in 1 .. Num |-> errors[Slot(i)].packed]

\* The oldest of the errors queued when the mark was set leaves the ring.
PushedOut == IF snap = <<>> \/ snap = <<<<>>>> THEN snap ELSE <<Tail(snap[1])>>

\* Mutant: the reused slot keeps its mark.
ERR_put_error_Mark(c) ==
    LET slot == (top + 1) % N
        full == slot = bottom
    IN  /\ top' = slot
        /\ bottom' = IF full THEN (bottom + 1) % N ELSE bottom
        /\ heap' = FreeSlots({slot})
        /\ errors' = [errors EXCEPT ![slot].packed = c, ![slot].data = <<>>]
        /\ snap' = IF full THEN PushedOut ELSE snap
        /\ out' = <<>>
        /\ UNCHANGED <<to_free, saved>>

\* The next slot; when that makes the ring full the oldest error is given up,
\* its slot cleared only when it is used again.
ERR_put_error(c) ==
    LET slot == (top + 1) % N
        full == slot = bottom
    IN  /\ top' = slot
        /\ bottom' = IF full THEN (bottom + 1) % N ELSE bottom
        /\ heap' = FreeSlots({slot})
        /\ errors' = [errors EXCEPT ![slot] = [packed |-> c, data |-> <<>>, mark |-> FALSE]]
        /\ snap' = IF full THEN PushedOut ELSE snap
        /\ out' = <<>>
        /\ UNCHANGED <<to_free, saved>>

\* get_error_values(inc = 1) without a data pointer: the string goes with the
\* error.
ERR_get_error ==
    LET slot == (bottom + 1) % N
    IN  /\ bottom # top
        /\ heap' = FreeSlots({slot})
        /\ errors' = [errors EXCEPT ![slot] = err_cleared]
        /\ bottom' = slot
        /\ snap' = <<>>
        /\ out' = <<>>
        /\ UNCHANGED <<top, to_free, saved>>

\* Mutant: the string is freed with the error although its caller has it.
ERR_get_error_line_data_Free ==
    LET slot == (bottom + 1) % N
    IN  /\ bottom # top
        /\ heap' = FreeSlots({slot})
        /\ errors' = [errors EXCEPT ![slot] = err_cleared]
        /\ bottom' = slot
        /\ snap' = <<>>
        /\ out' = errors[slot].data
        /\ UNCHANGED <<top, to_free, saved>>

\* get_error_values(inc = 1) with one: the queue keeps the string for the
\* caller, in place of the one it kept before.
ERR_get_error_line_data ==
    LET slot == (bottom + 1) % N
        data == errors[slot].data
    IN  /\ bottom # top
        /\ heap' = [t \in Texts |-> IF data # <<>> /\ to_free = <<t>> THEN heap[t] - 1 ELSE heap[t]]
        /\ to_free' = IF data = <<>> THEN to_free ELSE data
        /\ errors' = [errors EXCEPT ![slot] = err_cleared]
        /\ bottom' = slot
        /\ snap' = <<>>
        /\ out' = data
        /\ UNCHANGED <<top, saved>>

\* get_error_values(inc = 0): the oldest or the newest error's data.
ERR_peek_error_line_data(last) ==
    /\ bottom # top
    /\ out' = errors[IF last THEN top ELSE (bottom + 1) % N].data
    /\ UNCHANGED <<errors, top, bottom, to_free, saved, heap, snap>>

\* err_set_error_data, with a freshly allocated string: it replaces the data
\* of the newest error, and is freed when there is none.
err_set_error_data(t) ==
    /\ top # bottom
    /\ heap' = [FreeSlots({top}) EXCEPT ![t] = @ + 1]
    /\ errors' = [errors EXCEPT ![top].data = <<t>>]
    /\ out' = <<>>
    /\ UNCHANGED <<top, bottom, to_free, saved, snap>>

ERR_set_mark ==
    /\ bottom # top
    /\ errors' = [errors EXCEPT ![top].mark = TRUE]
    /\ snap' = <<Packed>>
    /\ UNCHANGED <<top, bottom, to_free, saved, heap, out>>

\* Where the loop of ERR_pop_to_mark stops: k errors are left.
StopsAt(k) ==
    /\ k = 0 \/ errors[Slot(k)].mark
    /\ \A i \in k + 1 .. Num : ~errors[Slot(i)].mark

ERR_pop_to_mark ==
    \E k \in 0 .. Num :
      LET gone == {Slot(i) : i \in k + 1 .. Num}
      IN  /\ StopsAt(k)
          /\ heap' = FreeSlots(gone)
          /\ errors' = [s \in 0 .. N - 1 |->
               IF s \in gone THEN err_cleared
               ELSE [errors[s] EXCEPT !.mark = @ /\ ~(k > 0 /\ s = Slot(k))]]
          /\ top' = Slot(k)
          /\ snap' = <<>>
          /\ out' = IF gone = {} THEN out ELSE <<>>
          /\ UNCHANGED <<bottom, to_free, saved>>

ERR_clear_error ==
    /\ heap' = [t \in Texts |-> FreeSlots(0 .. N - 1)[t] - (IF to_free = <<t>> THEN 1 ELSE 0)]
    /\ errors' = [s \in 0 .. N - 1 |-> err_cleared]
    /\ to_free' = <<>>
    /\ top' = 0
    /\ bottom' = 0
    /\ snap' = <<>>
    /\ out' = <<>>
    /\ UNCHANGED saved

-----------------------------------------------------------------------------

\* err_copy of each of the errors src: the strings of those in kept are
\* duplicated, the strdup of the others fails or has nothing to copy.
err_copy(src, kept) ==
    [i \in DOMAIN src |->
       [packed |-> src[i].packed,
        data |-> IF i \in kept THEN src[i].data ELSE <<>>,
        mark |-> FALSE]]

HaveData(src) == {i \in DOMAIN src : src[i].data # <<>>}

\* Mutant: the copy starts one slot early.
ERR_save_state_Off ==
    LET src == [i \in 1 .. Num |-> errors[Slot(i - 1)]]
    IN  /\ saved = <<>>
        /\ top # bottom
        /\ saved' = err_copy(src, HaveData(src))
        /\ heap' = [t \in Texts |-> heap[t] + With(src, DOMAIN src, t)]
        /\ UNCHANGED <<errors, top, bottom, to_free, out, snap>>

\* Copies the queue, oldest first.  NULL for an empty queue, which
\* ERR_restore_state takes as an empty one.
ERR_save_state ==
    LET src == [i \in 1 .. Num |-> errors[Slot(i)]]
    IN  /\ saved = <<>>
        /\ top # bottom
        /\ \E kept \in SUBSET HaveData(src) :
             /\ saved' = err_copy(src, kept)
             /\ heap' = [t \in Texts |-> heap[t] + With(src, kept, t)]
        /\ UNCHANGED <<errors, top, bottom, to_free, out, snap>>

\* Copies the saved errors into the first slots; what the other slots hold
\* stays there, out of the queue.  Nothing saved: ERR_clear_error.
ERR_restore_state ==
    LET n == Len(saved)
    IN  /\ saved # <<>>
        /\ \E kept \in SUBSET HaveData(saved) :
             /\ errors' = [s \in 0 .. N - 1 |->
                             IF s < n THEN err_copy(saved, kept)[s + 1] ELSE errors[s]]
             /\ heap' = [t \in Texts |-> FreeSlots(0 .. n - 1)[t] + With(saved, kept, t)]
        /\ top' = n - 1
        /\ bottom' = N - 1
        /\ snap' = <<>>
        /\ out' = <<>>
        /\ UNCHANGED <<to_free, saved>>

ERR_SAVE_STATE_free ==
    /\ saved # <<>>
    /\ heap' = [t \in Texts |-> heap[t] - With(saved, DOMAIN saved, t)]
    /\ saved' = <<>>
    /\ UNCHANGED <<errors, top, bottom, to_free, out, snap>>

Next ==
    \/ \E c \in Codes : ERR_put_error(c)
    \/ ERR_get_error
    \/ ERR_get_error_line_data
    \/ \E last \in BOOLEAN : ERR_peek_error_line_data(last)
    \/ \E t \in Texts : err_set_error_data(t)
    \/ ERR_set_mark
    \/ ERR_pop_to_mark
    \/ ERR_clear_error
    \/ ERR_save_state
    \/ ERR_restore_state
    \/ ERR_SAVE_STATE_free

Spec == Init /\ [][Next]_vars

-----------------------------------------------------------------------------

\* The types; OneOwner says what heap is.
TypeOK ==
    /\ errors \in [0 .. N - 1 -> Error]
    /\ top \in 0 .. N - 1
    /\ bottom \in 0 .. N - 1
    /\ to_free \in Data
    /\ saved \in Seq(Error)
    /\ Len(saved) < N
    /\ out \in Data

\* The queue, oldest first.
Queue == [i \in 1 .. Num |-> errors[Slot(i)]]

Abstract == INSTANCE ErrorList WITH Cap <- N - 1, q <- Queue

\* The ring behaves as a list of the N - 1 most recent errors: whatever the
\* offsets, wrap-arounds and stale slots, each call does to the queue what
\* err.h says of it.
Refines == Abstract!Spec

\* And it does so call by call: each function does to the queue and the saved
\* copy what its counterpart does to the list.
CallByCall ==
    [][/\ \A c \in Codes : ERR_put_error(c) => Abstract!Put(c)
       /\ ERR_get_error \/ ERR_get_error_line_data => Abstract!Get
       /\ \A t \in Texts : err_set_error_data(t) => Abstract!SetData(t)
       /\ ERR_set_mark => Abstract!SetMark
       /\ ERR_pop_to_mark => Abstract!PopToMark
       /\ ERR_clear_error => Abstract!Clear
       /\ ERR_save_state => Abstract!Save
       /\ ERR_restore_state => Abstract!Restore
       /\ ERR_SAVE_STATE_free => Abstract!Forget]_vars

\* Each string is freed exactly once: the live strings of a text are the ones
\* a slot, queued or stale, the string kept for a caller, or a saved error
\* still owns (err_clear, to_free and err_copy).
OneOwner ==
    \A t \in Texts :
      heap[t] = With(errors, 0 .. N - 1, t) + With(saved, DOMAIN saved, t)
                  + (IF to_free = <<t>> THEN 1 ELSE 0)

\* The data pointer get_error_values returned is valid until the next call
\* that changes the queue: its string is still owned by the queue.
PointerValid ==
    out # <<>> => out = to_free \/ \E s \in 0 .. N - 1 : errors[s].data = out

\* ERR_pop_to_mark undoes exactly the errors put since the last ERR_set_mark;
\* of those that were queued then, only the ones pushed out of the ring are
\* missing.
MarkReverts ==
    [][ERR_pop_to_mark /\ snap # <<>> => Packed' = snap[1]]_vars

=============================================================================
