---------------------------- MODULE MemoryProofs ----------------------------
(***************************************************************************)
(* Proofs about what owns memory: a thread's error queue, for every size   *)
(* of its ring, is a list of the most recent errors whose strings are      *)
(* freed once; and the reference count of a session or any other object,   *)
(* for every number of threads and every maximum.                          *)
(***************************************************************************)
EXTENDS ErrQueue, RefCount, FiniteSetTheorems, TLAPS

\* The reference count.

\* What is left to know beside the count: a reference that is being taken is
\* taken for a live one, a loop's expected value was a count of at least one,
\* and a value that was the maximum still is.
Loops ==
    \A r \in Holders :
        /\ st[r] = "inc" => st[by[r]] = "live"
        /\ st[r] \in {"inc", "dec"} => expected[r] # 0 /\ (expected[r] = MAX => count = MAX)

\* The inductive invariant.
CountInv == CountTypeOK /\ CountIsOwners /\ Loops /\ (freed => count = 0)

\* The owners are finitely many, and none if and only if their number is zero.
LEMMA OwnersFinite ==
    /\ IsFiniteSet(Owners) /\ Cardinality(Owners) \in Nat
    /\ Cardinality(Owners) = 0 <=> Owners = {}
  <1>1. Owners \subseteq Holders
    BY ZenonT(30) DEF Owners
  <1>2. IsFiniteSet(Owners)
    BY ZenonT(30), <1>1, HoldersAssumption, FS_Subset
  <1> QED
    BY ZenonT(30), <1>2, FS_CardinalityType, FS_EmptySet

\* While there is an owner, the count is not zero.
LEMMA OwnedIsCounted ==
    ASSUME CountInv, NEW r \in Holders, st[r] \in {"live", "dec"}
    PROVE  count # 0
  <1>1. r \in Owners
    BY ZenonT(30) DEF Owners
  <1>2. Cardinality(Owners) # 0
    BY ZenonT(30), <1>1, OwnersFinite
  <1> QED
    BY SMTT(30), <1>2, MaxAssumption DEF CountInv, CountIsOwners

\* A step that leaves the owners alone leaves their number alone.
LEMMA SameOwners ==
    ASSUME \A r \in Holders : (st'[r] \in {"live", "dec"}) <=> (st[r] \in {"live", "dec"})
    PROVE  Owners' = Owners
  BY ZenonT(30) DEF Owners

\* CountInit establishes the invariant.
LEMMA InitCount == CountInit => CountInv
  <1> SUFFICES ASSUME CountInit PROVE CountInv
    BY ZenonT(30)
  <1>1. Owners = {First}
    BY ZenonT(30), HoldersAssumption DEF CountInit, Owners
  <1>2. Cardinality(Owners) = 1
    BY ZenonT(30), <1>1, FS_Singleton
  <1>3. CountTypeOK
    <2>1. count \in 0 .. MAX /\ 0 \in 0 .. MAX
      BY SMTT(30), MaxAssumption DEF CountInit
    <2>2. st \in [Holders -> {"none", "inc", "live", "dec"}]
      BY ZenonT(30) DEF CountInit
    <2> QED
      BY ZenonT(30), <2>1, <2>2 DEF CountInit, CountTypeOK
  <1>4. Loops
    BY ZenonT(30) DEF CountInit, Loops
  <1> QED
    BY ZenonT(30), <1>2, <1>3, <1>4 DEF CountInit, CountInv, CountIsOwners

\* Every step of either loop preserves the invariant.
LEMMA NextCount == CountInv /\ [CountNext]_count_vars => CountInv'
  <1> SUFFICES ASSUME CountInv, [CountNext]_count_vars PROVE CountInv'
    BY ZenonT(30)
  <1> USE MaxAssumption
  <1>1. ASSUME NEW q \in Holders, NEW r \in Holders, inc_load(q, r) PROVE CountInv'
    <2>1. count # 0
      BY ZenonT(30), <1>1, OwnedIsCounted DEF inc_load
    <2>2. Owners' = Owners
      <3>1. \A x \in Holders : (st'[x] \in {"live", "dec"}) <=> (st[x] \in {"live", "dec"})
        BY ZenonT(30), <1>1 DEF inc_load, CountInv, CountTypeOK
      <3> QED
        BY ZenonT(30), <3>1, SameOwners
    <2>3. Loops'
      BY ZenonT(30), <1>1, <2>1 DEF inc_load, CountInv, CountTypeOK, Loops
    <2> QED
      BY ZenonT(30), <1>1, <2>2, <2>3 DEF inc_load, CountInv, CountTypeOK, CountIsOwners
  <1>2. ASSUME NEW r \in Holders, inc_saturated(r) PROVE CountInv'
    <2>1. count = MAX
      BY ZenonT(30), <1>2 DEF inc_saturated, CountInv, Loops
    <2>2. Loops'
      BY ZenonT(30), <1>2 DEF inc_saturated, CountInv, CountTypeOK, Loops
    <2> QED
      BY ZenonT(30), <1>2, <2>1, <2>2 DEF inc_saturated, CountInv, CountTypeOK, CountIsOwners
  <1>3. ASSUME NEW r \in Holders, inc_exchange(r) PROVE CountInv'
    <2>1. count # MAX /\ count' = count + 1 /\ count # 0
      <3>1. st[by[r]] = "live" /\ by[r] \in Holders
        BY ZenonT(30), <1>3 DEF inc_exchange, CountInv, CountTypeOK, Loops
      <3> QED
        BY ZenonT(30), <1>3, <3>1, OwnedIsCounted DEF inc_exchange, CountInv, CountTypeOK
    <2>2. r \notin Owners /\ Owners' = Owners \cup {r}
      BY ZenonT(30), <1>3 DEF inc_exchange, CountInv, CountTypeOK, Owners
    <2>3. Cardinality(Owners') = Cardinality(Owners) + 1
      BY ZenonT(30), <2>2, OwnersFinite, FS_AddElement
    <2>4. CountIsOwners'
      BY ZenonT(30), <2>1, <2>3 DEF CountInv, CountIsOwners
    <2>5. Loops'
      BY ZenonT(30), <1>3, <2>1 DEF inc_exchange, CountInv, CountTypeOK, Loops
    <2> QED
      BY SMTT(30), <1>3, <2>1, <2>4, <2>5 DEF inc_exchange, CountInv, CountTypeOK
  <1>4. ASSUME NEW r \in Holders, inc_fail(r) PROVE CountInv'
    <2>1. st[by[r]] = "live" /\ by[r] \in Holders
      BY ZenonT(30), <1>4 DEF inc_fail, CountInv, CountTypeOK, Loops
    <2>2. count # 0
      BY ZenonT(30), <2>1, OwnedIsCounted
    <2>3. Owners' = Owners
      BY ZenonT(30), <1>4 DEF inc_fail, Owners
    <2>4. Loops'
      BY ZenonT(30), <1>4, <2>2 DEF inc_fail, CountInv, CountTypeOK, Loops
    <2> QED
      BY ZenonT(30), <1>4, <2>3, <2>4 DEF inc_fail, CountInv, CountTypeOK, CountIsOwners
  <1>5. ASSUME NEW r \in Holders, dec_load(r) PROVE CountInv'
    <2>1. count # 0
      BY ZenonT(30), <1>5, OwnedIsCounted DEF dec_load
    <2>2. Owners' = Owners
      <3>1. \A x \in Holders : (st'[x] \in {"live", "dec"}) <=> (st[x] \in {"live", "dec"})
        BY ZenonT(30), <1>5 DEF dec_load, CountInv, CountTypeOK
      <3> QED
        BY ZenonT(30), <3>1, SameOwners
    <2>3. Loops'
      BY ZenonT(30), <1>5, <2>1 DEF dec_load, CountInv, CountTypeOK, Loops
    <2> QED
      BY ZenonT(30), <1>5, <2>2, <2>3 DEF dec_load, CountInv, CountTypeOK, CountIsOwners
  <1>6. ASSUME NEW r \in Holders, dec_saturated(r) PROVE CountInv'
    <2>1. count = MAX
      BY ZenonT(30), <1>6 DEF dec_saturated, CountInv, Loops
    <2>2. Loops'
      BY ZenonT(30), <1>6 DEF dec_saturated, CountInv, CountTypeOK, Loops
    <2> QED
      BY ZenonT(30), <1>6, <2>1, <2>2 DEF dec_saturated, CountInv, CountTypeOK, CountIsOwners
  <1>7. ASSUME NEW r \in Holders, dec_exchange(r) PROVE CountInv'
    <2>1. count # MAX /\ count' = count - 1 /\ count # 0
      BY ZenonT(30), <1>7 DEF dec_exchange, CountInv, CountTypeOK
    <2>2. r \in Owners /\ Owners' = Owners \ {r}
      BY ZenonT(30), <1>7 DEF dec_exchange, CountInv, CountTypeOK, Owners
    <2>3. Cardinality(Owners') = Cardinality(Owners) - 1
      BY ZenonT(30), <2>2, OwnersFinite, FS_RemoveElement
    <2>4. CountIsOwners'
      BY ZenonT(30), <2>1, <2>3 DEF CountInv, CountIsOwners
    <2>5. Loops'
      BY ZenonT(30), <1>7, <2>1 DEF dec_exchange, CountInv, CountTypeOK, Loops
    <2> QED
      BY SMTT(30), <1>7, <2>1, <2>4, <2>5 DEF dec_exchange, CountInv, CountTypeOK
  <1>8. ASSUME NEW r \in Holders, dec_fail(r) PROVE CountInv'
    <2>1. count # 0
      BY ZenonT(30), <1>8, OwnedIsCounted DEF dec_fail
    <2>2. Owners' = Owners
      BY ZenonT(30), <1>8 DEF dec_fail, Owners
    <2>3. Loops'
      BY ZenonT(30), <1>8, <2>1 DEF dec_fail, CountInv, CountTypeOK, Loops
    <2> QED
      BY ZenonT(30), <1>8, <2>2, <2>3 DEF dec_fail, CountInv, CountTypeOK, CountIsOwners
  <1>9. CASE UNCHANGED count_vars
    BY ZenonT(30), <1>9 DEF count_vars, CountInv, CountTypeOK, CountIsOwners, Owners, Loops
  <1> QED
    BY ZenonT(30), <1>1, <1>2, <1>3, <1>4, <1>5, <1>6, <1>7, <1>8, <1>9 DEF CountNext

\* The inductive invariant holds: whatever the interleaving, the count is the
\* number of owners or has saturated.
THEOREM CountCorrect == CountSpec => [](CountTypeOK /\ CountIsOwners)
  <1>1. CountInv => CountTypeOK /\ CountIsOwners
    BY ZenonT(30) DEF CountInv
  <1> QED
    BY InitCount, NextCount, <1>1, PTL DEF CountSpec

\* The object is freed only when nobody owns it or is taking a reference, and
\* the abort() of CRYPTO_refcount_dec_and_test_zero is never reached.
THEOREM FreedOnlyUnowned == CountSpec => []FreedIsUnowned
  <1>1. CountInv => FreedIsUnowned
    <2> SUFFICES ASSUME CountInv PROVE FreedIsUnowned
      BY ZenonT(30)
    <2>1. ASSUME freed, NEW r \in Holders PROVE st[r] = "none"
      <3>1. count = 0
        BY ZenonT(30), <2>1 DEF CountInv
      <3>2. st[r] \notin {"live", "dec"}
        BY ZenonT(30), <3>1, OwnedIsCounted
      <3>3. st[r] # "inc"
        <4> SUFFICES ASSUME st[r] = "inc" PROVE FALSE
          BY ZenonT(30)
        <4>1. st[by[r]] = "live" /\ by[r] \in Holders
          BY ZenonT(30) DEF CountInv, CountTypeOK, Loops
        <4> QED
          BY ZenonT(30), <4>1, <3>1, OwnedIsCounted
      <3> QED
        BY ZenonT(30), <3>2, <3>3 DEF CountInv, CountTypeOK
    <2> QED
      BY ZenonT(30), <2>1 DEF FreedIsUnowned, CountInv, Loops
  <1> QED
    BY InitCount, NextCount, <1>1, PTL DEF CountSpec

\* A count that has reached CRYPTO_REFCOUNT_MAX never changes again, although
\* loops that started before are still running.
THEOREM SaturationIsFinal == CountSpec => SaturatedForEver
  <1>1. CountInv /\ [CountNext]_count_vars => [count = MAX => count' = MAX]_count_vars
    <2> SUFFICES ASSUME CountInv, CountNext, count = MAX PROVE count' = MAX
      BY ZenonT(30) DEF count_vars
    <2> QED
      BY ZenonT(30) DEF CountNext, inc_load, inc_saturated, inc_exchange, inc_fail, dec_load, dec_saturated,
             dec_exchange, dec_fail
  <1> QED
    BY InitCount, NextCount, <1>1, PTL DEF CountSpec, SaturatedForEver

-----------------------------------------------------------------------------
\* Sequences.

\* Sequences are equal when their elements are.
LEMMA SeqEqual ==
  ASSUME NEW S, NEW s \in Seq(S), NEW t \in Seq(S), Len(s) = Len(t),
         \A i \in 1 .. Len(s) : s[i] = t[i]
  PROVE  s = t
OBVIOUS

\* Head and tail.
LEMMA HeadTailProperties ==
  ASSUME NEW S, NEW s \in Seq(S), s # <<>>
  PROVE  /\ Head(s) \in S /\ Tail(s) \in Seq(S) /\ Len(Tail(s)) = Len(s) - 1
         /\ \A i \in 1 .. Len(Tail(s)) : Tail(s)[i] = s[i + 1]
OBVIOUS

\* Append.
LEMMA AppendProperties ==
  ASSUME NEW S, NEW s \in Seq(S), NEW e \in S
  PROVE  /\ Append(s, e) \in Seq(S) /\ Append(s, e) # <<>> /\ Len(Append(s, e)) = Len(s) + 1
         /\ \A i \in 1 .. Len(s) : Append(s, e)[i] = s[i]
         /\ Append(s, e)[Len(s) + 1] = e
OBVIOUS

\* A function on 1 .. n is a sequence of length n.
LEMMA FunIsSeq ==
    ASSUME NEW S, NEW n \in Nat, NEW f \in [1 .. n -> S]
    PROVE  f \in Seq(S) /\ Len(f) = n
OBVIOUS

-----------------------------------------------------------------------------
\* The error queue.

\* The remainder the ring uses, without division.
LEMMA Wraps ==
    ASSUME NEW n \in Nat, n > 1, NEW x \in 0 .. n - 1, NEW i \in 0 .. n
    PROVE  (x + i) % n = IF x + i < n THEN x + i ELSE x + i - n
OBVIOUS

\* The ring's indices: how many errors are queued, and in which slots.
LEMMA Ring ==
    ASSUME TypeOK
    PROVE  /\ Num \in 0 .. N - 1
           /\ (Num = 0) <=> (top = bottom)
           /\ \A i \in 0 .. N : Slot(i) = IF bottom + i < N THEN bottom + i ELSE bottom + i - N
           /\ \A i \in 0 .. N : Slot(i) \in 0 .. N - 1
           /\ \A i, j \in 1 .. N : Slot(i) = Slot(j) => i = j
           /\ Slot(Num) = top
           /\ Slot(0) = bottom
<1> /\ N \in Nat /\ N > 1 /\ top \in 0 .. N - 1 /\ bottom \in 0 .. N - 1
  BY ZenonT(30), NAssumption DEF TypeOK
<1>1. Num \in 0 .. N - 1 /\ ((Num = 0) <=> (top = bottom))
  BY SMTT(30) DEF Num
<1>2. \A i \in 0 .. N : Slot(i) = IF bottom + i < N THEN bottom + i ELSE bottom + i - N
  BY ZenonT(30), Wraps DEF Slot
<1> QED
  BY SMTT(30), <1>1, <1>2 DEF Num

\* The queue is a sequence of errors.
LEMMA QueueType ==
    ASSUME TypeOK
    PROVE  /\ Queue \in Seq(Error)
           /\ Len(Queue) = Num
           /\ DOMAIN Queue = 1 .. Num
           /\ \A i \in 1 .. Num : Queue[i] = errors[Slot(i)]
<1>1. Queue \in [1 .. Num -> Error]
  BY SMTT(30), Ring, NAssumption DEF TypeOK, Queue
<1>2. Num \in Nat
  BY SMTT(30), Ring, NAssumption
<1> QED
  BY ZenonT(30), <1>1, <1>2, FunIsSeq DEF Queue

\* A call of the library keeps the type invariant.
LEMMA TypeStep ==
    ASSUME TypeOK, [Next]_vars
    PROVE  TypeOK'
<1> USE NAssumption
<1>0. /\ err_cleared \in Error
      /\ \A c \in Codes : [packed |-> c, data |-> <<>>, mark |-> FALSE] \in Error
  BY ZenonT(30) DEF err_cleared, Error, Data
<1>1. ASSUME NEW c \in Codes, ERR_put_error(c) PROVE TypeOK'
  <2> DEFINE e == [packed |-> c, data |-> <<>>, mark |-> FALSE]
             slot == (top + 1) % N
  <2>1. e \in Error /\ slot \in 0 .. N - 1
    BY SMTT(30), <1>0 DEF TypeOK
  <2>2. errors' = [errors EXCEPT ![slot] = e] /\ top' = slot /\ bottom' \in 0 .. N - 1
    BY SMTT(30), <1>1 DEF ERR_put_error, TypeOK
  <2>3. UNCHANGED <<to_free, saved>> /\ out' = <<>>
    BY ZenonT(30), <1>1 DEF ERR_put_error
  <2> HIDE DEF e, slot
  <2> QED
    BY ZenonT(30), <2>1, <2>2, <2>3 DEF TypeOK, Data
<1>2. CASE ERR_get_error
  BY SMTT(30), <1>0, <1>2 DEF ERR_get_error, TypeOK, Data
<1>3. CASE ERR_get_error_line_data
  <2> DEFINE slot == (bottom + 1) % N
  <2>1. slot \in 0 .. N - 1
    BY SMTT(30) DEF TypeOK
  <2>2. errors[slot].data \in Data
    BY ZenonT(30), <2>1 DEF TypeOK, Error
  <2> QED
    BY ZenonT(30), <1>0, <1>3, <2>1, <2>2 DEF ERR_get_error_line_data, TypeOK
<1>4. ASSUME NEW last \in BOOLEAN, ERR_peek_error_line_data(last) PROVE TypeOK'
  <2>1. (bottom + 1) % N \in 0 .. N - 1
    BY SMTT(30) DEF TypeOK
  <2>2. \A s \in 0 .. N - 1 : errors[s].data \in Data
    BY ZenonT(30) DEF TypeOK, Error
  <2>3. out' \in Data
    BY ZenonT(30), <1>4, <2>1, <2>2 DEF ERR_peek_error_line_data, TypeOK
  <2> QED
    BY ZenonT(30), <1>4, <2>3 DEF ERR_peek_error_line_data, TypeOK
<1>5. ASSUME NEW t \in Texts, err_set_error_data(t) PROVE TypeOK'
  <2>1. <<t>> \in Data
    BY ZenonT(30) DEF Data
  <2>2. errors' = [errors EXCEPT ![top] = [errors[top] EXCEPT !.data = <<t>>]]
    BY ZenonT(30), <1>5 DEF err_set_error_data
  <2>3. [errors[top] EXCEPT !.data = <<t>>] \in Error
    BY ZenonT(30), <2>1 DEF Error, TypeOK
  <2> QED
    BY ZenonT(30), <1>5, <2>2, <2>3 DEF err_set_error_data, TypeOK, Data
<1>6. CASE ERR_set_mark
  <2>1. errors' = [errors EXCEPT ![top] = [errors[top] EXCEPT !.mark = TRUE]]
    BY ZenonT(30), <1>6 DEF ERR_set_mark
  <2>2. [errors[top] EXCEPT !.mark = TRUE] \in Error
    BY ZenonT(30) DEF Error, TypeOK
  <2> QED
    BY ZenonT(30), <1>6, <2>1, <2>2 DEF ERR_set_mark, TypeOK
<1>7. CASE ERR_pop_to_mark
  <2>1. PICK k \in 0 .. Num :
          /\ errors' = [s \in 0 .. N - 1 |->
               IF s \in {Slot(i) : i \in k + 1 .. Num} THEN err_cleared
               ELSE [errors[s] EXCEPT !.mark = errors[s].mark /\ ~(k > 0 /\ s = Slot(k))]]
          /\ top' = Slot(k)
          /\ out' \in {out, <<>>}
          /\ UNCHANGED <<bottom, to_free, saved>>
    BY ZenonT(30), <1>7 DEF ERR_pop_to_mark
  <2>2. \A s \in 0 .. N - 1, b \in BOOLEAN : [errors[s] EXCEPT !.mark = b] \in Error
    BY ZenonT(30) DEF TypeOK, Error
  <2>3. \A s \in 0 .. N - 1 : (errors[s].mark /\ ~(k > 0 /\ s = Slot(k))) \in BOOLEAN
    BY ZenonT(30)
  <2>4. errors' \in [0 .. N - 1 -> Error]
    BY ZenonT(30), <1>0, <2>1, <2>2, <2>3
  <2>5. Slot(k) \in 0 .. N - 1
    BY SMTT(30), Ring
  <2> QED
    BY ZenonT(30), <2>1, <2>4, <2>5 DEF TypeOK, Data
<1>8. CASE ERR_clear_error
  BY SMTT(30), <1>0, <1>8 DEF ERR_clear_error, TypeOK, Data
<1>9. \A src, kept : \A i \in DOMAIN src : src[i] \in Error => err_copy(src, kept)[i] \in Error
  BY ZenonT(30) DEF err_copy, Error, Data
<1>10. CASE ERR_save_state
  <2>1. PICK kept : saved' = err_copy(Queue, kept)
    BY ZenonT(30), <1>10 DEF ERR_save_state, Queue
  <2>2. DOMAIN err_copy(Queue, kept) = 1 .. Num
    BY ZenonT(30), QueueType DEF err_copy
  <2>3. err_copy(Queue, kept) \in [1 .. Num -> Error]
    <3>1. \A i \in 1 .. Num : Queue[i] \in Error
      BY SMTT(30), QueueType
    <3>2. \A i \in 1 .. Num : err_copy(Queue, kept)[i] \in Error
      BY ZenonT(30), <1>9, <3>1, QueueType
    <3>3. err_copy(Queue, kept) = [i \in 1 .. Num |-> err_copy(Queue, kept)[i]]
      BY ZenonT(30), QueueType DEF err_copy
    <3> DEFINE c == err_copy(Queue, kept)
    <3> HIDE DEF c
    <3>4. c = [i \in 1 .. Num |-> c[i]] /\ \A i \in 1 .. Num : c[i] \in Error
      BY ZenonT(30), <3>2, <3>3 DEF c
    <3>5. c \in [1 .. Num -> Error]
      BY ONLY ZenonT(30), <3>4
    <3> QED
      BY ZenonT(30), <3>5 DEF c
  <2>4. saved' \in Seq(Error) /\ Len(saved') < N
    <3>1. Num \in Nat /\ Num < N
      BY SMTT(30), Ring
    <3>2. err_copy(Queue, kept) \in Seq(Error) /\ Len(err_copy(Queue, kept)) = Num
      BY ZenonT(30), <3>1, <2>3, FunIsSeq
    <3> QED
      BY ZenonT(30), <2>1, <3>1, <3>2
  <2> QED
    BY ZenonT(30), <1>10, <2>4 DEF ERR_save_state, TypeOK
<1>11. CASE ERR_restore_state
  <2>1. PICK kept : errors' = [s \in 0 .. N - 1 |->
                       IF s < Len(saved) THEN err_copy(saved, kept)[s + 1] ELSE errors[s]]
    BY ZenonT(30), <1>11 DEF ERR_restore_state
  <2>2. \A i \in 1 .. Len(saved) : err_copy(saved, kept)[i] \in Error
    BY SMTT(30), <1>9 DEF TypeOK
  <2>3. errors' \in [0 .. N - 1 -> Error]
    BY SMTT(30), <2>1, <2>2 DEF TypeOK
  <2>4. Len(saved) \in 1 .. N - 1
    BY SMTT(30), <1>11 DEF ERR_restore_state, TypeOK
  <2> QED
    BY SMTT(30), <1>11, <2>3, <2>4 DEF ERR_restore_state, TypeOK, Data
<1>12. CASE ERR_SAVE_STATE_free
  BY SMTT(30), <1>12 DEF ERR_SAVE_STATE_free, TypeOK
<1>13. CASE UNCHANGED vars
  BY ZenonT(30), <1>13 DEF vars, TypeOK
<1> QED
  BY ZenonT(30), <1>1, <1>2, <1>3, <1>4, <1>5, <1>6, <1>7, <1>8, <1>10, <1>11, <1>12, <1>13 DEF Next

\* The ring as a value: n slots es, from the one after b to t.
Count(n, t, b) == IF t >= b THEN t - b ELSE n + t - b
At(n, b, i) == IF b + i < n THEN b + i ELSE b + i - n
View(n, es, t, b) == [i \in 1 .. Count(n, t, b) |-> es[At(n, b, i)]]
Store(es, s, e) == [es EXCEPT ![s] = e]
IsRing(S, n, es, t, b) ==
    /\ n \in Nat /\ n > 1
    /\ t \in 0 .. n - 1 /\ b \in 0 .. n - 1
    /\ es \in [0 .. n - 1 -> S]

\* The queue is the view of the ring.
AsView ==
    /\ Queue = View(N, errors, top, bottom)
    /\ Num = Count(N, top, bottom)
    /\ \A i \in 0 .. N : Slot(i) = At(N, bottom, i)
    /\ IsRing(Error, N, errors, top, bottom)

\* The queue, as the list of the abstract specification.
LEMMA QueueIsView == TypeOK => AsView
<1> SUFFICES ASSUME TypeOK PROVE AsView
  BY ZenonT(30)
<1>1. Num = Count(N, top, bottom)
  BY ZenonT(30) DEF Num, Count
<1>2. \A i \in 0 .. N : Slot(i) = At(N, bottom, i)
  BY ZenonT(30), Ring DEF At
<1>3. IsRing(Error, N, errors, top, bottom)
  BY ZenonT(30), NAssumption DEF IsRing, TypeOK
<1>4. \A i \in 1 .. Num : Slot(i) = At(N, bottom, i)
  BY SMTT(30), <1>2, Ring, NAssumption
<1>5. Queue = View(N, errors, top, bottom)
  BY ZenonT(30), <1>1, <1>4 DEF Queue, View
<1> QED
  BY ZenonT(30), <1>1, <1>2, <1>3, <1>5 DEF AsView

\* The view is a sequence.
LEMMA ViewType ==
    ASSUME NEW S, NEW n, NEW es, NEW t, NEW b, IsRing(S, n, es, t, b)
    PROVE  /\ Count(n, t, b) \in Nat /\ Count(n, t, b) < n
           /\ View(n, es, t, b) \in Seq(S)
           /\ Len(View(n, es, t, b)) = Count(n, t, b)
<1> /\ n \in Nat /\ n > 1 /\ t \in 0 .. n - 1 /\ b \in 0 .. n - 1 /\ es \in [0 .. n - 1 -> S]
  BY ZenonT(30) DEF IsRing
<1>1. Count(n, t, b) \in Nat /\ Count(n, t, b) < n
  BY SMTT(30) DEF Count
<1>2. \A i \in 1 .. Count(n, t, b) : At(n, b, i) \in 0 .. n - 1
  BY SMTT(30) DEF Count, At
<1>3. View(n, es, t, b) \in [1 .. Count(n, t, b) -> S]
  BY ZenonT(30), <1>2 DEF View
<1> QED
  BY ZenonT(30), <1>1, <1>3, FunIsSeq

\* Append and Tail, element by element.
LEMMA AppendIs ==
    ASSUME NEW S, NEW m \in Nat, NEW f \in [1 .. m -> S], NEW e \in S
    PROVE  Append(f, e) = [i \in 1 .. m + 1 |-> IF i = m + 1 THEN e ELSE f[i]]
<1> DEFINE g == [i \in 1 .. m + 1 |-> IF i = m + 1 THEN e ELSE f[i]]
<1>1. g \in [1 .. m + 1 -> S] /\ m + 1 \in Nat
  OBVIOUS
<1>2. g \in Seq(S) /\ Len(g) = m + 1
  BY ZenonT(30), <1>1, FunIsSeq
<1>3. f \in Seq(S) /\ Len(f) = m
  BY ZenonT(30), FunIsSeq
<1>4. /\ Append(f, e) \in Seq(S) /\ Len(Append(f, e)) = m + 1
      /\ \A i \in 1 .. m : Append(f, e)[i] = f[i]
      /\ Append(f, e)[m + 1] = e
  BY SMTT(30), <1>3, AppendProperties
<1>5. \A i \in 1 .. m + 1 : Append(f, e)[i] = g[i]
  BY SMTT(30), <1>4
<1> HIDE DEF g
<1> QED
  BY ZenonT(30), <1>2, <1>4, <1>5, SeqEqual DEF g

\* Tail, element by element.
LEMMA TailIs ==
    ASSUME NEW S, NEW m \in Nat, m > 0, NEW f \in [1 .. m -> S]
    PROVE  Tail(f) = [i \in 1 .. m - 1 |-> f[i + 1]] /\ f # <<>>
<1> DEFINE g == [i \in 1 .. m - 1 |-> f[i + 1]]
<1>1. g \in [1 .. m - 1 -> S] /\ m - 1 \in Nat
  OBVIOUS
<1>2. g \in Seq(S) /\ Len(g) = m - 1
  BY SMTT(30), <1>1, FunIsSeq
<1>3. f \in Seq(S) /\ Len(f) = m /\ f # <<>>
  BY SMTT(30), FunIsSeq
<1>4. /\ Tail(f) \in Seq(S) /\ Len(Tail(f)) = m - 1
      /\ \A i \in 1 .. m - 1 : Tail(f)[i] = f[i + 1]
  BY ZenonT(30), <1>3, HeadTailProperties
<1>5. \A i \in 1 .. m - 1 : Tail(f)[i] = g[i]
  BY ZenonT(30), <1>4
<1> HIDE DEF g
<1> QED
  BY ZenonT(30), <1>2, <1>3, <1>4, <1>5, SeqEqual DEF g

\* The view as a function.
LEMMA ViewFun ==
    ASSUME NEW S, NEW n, NEW es, NEW t, NEW b, IsRing(S, n, es, t, b)
    PROVE  View(n, es, t, b) \in [1 .. Count(n, t, b) -> S]
<1>1. View(n, es, t, b) \in Seq(S) /\ Len(View(n, es, t, b)) = Count(n, t, b)
  BY SMTT(30), ViewType
<1> QED
  BY SMTT(30), <1>1

\* A new error in the slot after t: the ring was not full.
LEMMA PutView ==
    ASSUME NEW S, NEW n, NEW es, NEW t, NEW b, NEW e \in S,
           IsRing(S, n, es, t, b) /\ At(n, t, 1) # b
    PROVE  /\ Count(n, t, b) < n - 1
           /\ View(n, Store(es, At(n, t, 1), e), At(n, t, 1), b)
                = Append(View(n, es, t, b), e)
<1> DEFINE m == Count(n, t, b)
           slot == At(n, t, 1)
           es2 == Store(es, slot, e)
<1>0. /\ n \in Nat /\ n > 1 /\ t \in 0 .. n - 1 /\ b \in 0 .. n - 1 /\ es \in [0 .. n - 1 -> S]
      /\ slot \in 0 .. n - 1
  BY SMTT(30) DEF IsRing, At
<1>1. m \in Nat /\ m < n - 1 /\ Count(n, slot, b) = m + 1
  BY SMTT(30), <1>0 DEF Count, At
<1>2. At(n, b, m + 1) = slot
  BY SMTT(30), <1>0, <1>1 DEF Count, At
<1>3. \A i \in 1 .. m : At(n, b, i) # slot /\ At(n, b, i) \in 0 .. n - 1
  BY SMTT(30), <1>0, <1>1, <1>2 DEF At
<1>4. es2[slot] = e /\ \A s \in 0 .. n - 1 : s # slot => es2[s] = es[s]
  BY ZenonT(30), <1>0 DEF Store
<1> HIDE DEF m, slot, es2
<1>5. View(n, es2, slot, b) = [i \in 1 .. m + 1 |-> es2[At(n, b, i)]]
  BY ZenonT(30), <1>1 DEF View
<1>6. View(n, es, t, b) = [i \in 1 .. m |-> es[At(n, b, i)]]
  BY ZenonT(30) DEF View, m
<1>7. Append(View(n, es, t, b), e)
        = [i \in 1 .. m + 1 |-> IF i = m + 1 THEN e ELSE es[At(n, b, i)]]
  <2>1. View(n, es, t, b) \in [1 .. m -> S]
    BY ZenonT(30), ViewFun DEF m
  <2>2. Append(View(n, es, t, b), e)
          = [i \in 1 .. m + 1 |-> IF i = m + 1 THEN e ELSE View(n, es, t, b)[i]]
    BY SMTT(30), <2>1, <1>1, AppendIs
  <2>3. \A i \in 1 .. m + 1 : i # m + 1 => View(n, es, t, b)[i] = es[At(n, b, i)]
    BY SMTT(30), <1>1, <1>6
  <2> QED
    BY ZenonT(30), <2>2, <2>3
<1>8. \A i \in 1 .. m + 1 : es2[At(n, b, i)] = IF i = m + 1 THEN e ELSE es[At(n, b, i)]
  BY SMTT(30), <1>1, <1>2, <1>3, <1>4
<1>9. View(n, es2, slot, b) = Append(View(n, es, t, b), e)
  BY ZenonT(30), <1>5, <1>7, <1>8
<1> QED
  BY ZenonT(30), <1>1, <1>9 DEF m, slot, es2

\* The oldest error leaves the ring.
LEMMA GetView ==
    ASSUME NEW S, NEW n, NEW es, NEW t, NEW b, IsRing(S, n, es, t, b) /\ t # b, NEW e \in S
    PROVE  /\ View(n, es, t, b) # <<>>
           /\ View(n, Store(es, At(n, b, 1), e), t, At(n, b, 1)) = Tail(View(n, es, t, b))
           /\ View(n, es, t, At(n, b, 1)) = Tail(View(n, es, t, b))
<1> DEFINE m == Count(n, t, b)
           slot == At(n, b, 1)
           es2 == Store(es, slot, e)
<1>0. /\ n \in Nat /\ n > 1 /\ t \in 0 .. n - 1 /\ b \in 0 .. n - 1 /\ es \in [0 .. n - 1 -> S]
      /\ slot \in 0 .. n - 1
  BY SMTT(30) DEF IsRing, At
<1>1. m \in Nat /\ m > 0 /\ m < n /\ Count(n, t, slot) = m - 1
  BY SMTT(30), <1>0 DEF Count, At
<1>2. \A i \in 1 .. m - 1 : /\ At(n, slot, i) = At(n, b, i + 1)
                            /\ At(n, b, i + 1) # slot
                            /\ At(n, b, i + 1) \in 0 .. n - 1
  BY SMTT(30), <1>0, <1>1 DEF At
<1>3. \A s \in 0 .. n - 1 : s # slot => es2[s] = es[s]
  BY ZenonT(30), <1>0 DEF Store
<1> HIDE DEF m, slot, es2
<1>4. View(n, es, t, b) = [i \in 1 .. m |-> es[At(n, b, i)]]
  BY ZenonT(30) DEF View, m
<1>5. /\ View(n, es2, t, slot) = [i \in 1 .. m - 1 |-> es2[At(n, slot, i)]]
      /\ View(n, es, t, slot) = [i \in 1 .. m - 1 |-> es[At(n, slot, i)]]
  BY ZenonT(30), <1>1 DEF View
<1>6. View(n, es, t, b) \in [1 .. m -> S]
  BY ZenonT(30), ViewFun DEF m
<1>7. /\ View(n, es, t, b) # <<>>
      /\ Tail(View(n, es, t, b)) = [i \in 1 .. m - 1 |-> View(n, es, t, b)[i + 1]]
  BY ZenonT(30), <1>1, <1>6, TailIs
<1>8. \A i \in 1 .. m - 1 : View(n, es, t, b)[i + 1] = es[At(n, b, i + 1)]
  BY SMTT(30), <1>1, <1>4
<1>9. \A i \in 1 .. m - 1 : /\ es2[At(n, slot, i)] = es[At(n, b, i + 1)]
                            /\ es[At(n, slot, i)] = es[At(n, b, i + 1)]
  BY ZenonT(30), <1>2, <1>3
<1>10. /\ View(n, es2, t, slot) = Tail(View(n, es, t, b))
       /\ View(n, es, t, slot) = Tail(View(n, es, t, b))
  BY SMTT(30), <1>5, <1>7, <1>8, <1>9
<1> QED
  BY ZenonT(30), <1>7, <1>10 DEF slot, es2

\* The newest error is replaced.
LEMMA NewestView ==
    ASSUME NEW S, NEW n, NEW es, NEW t, NEW b, IsRing(S, n, es, t, b), NEW e, t # b
    PROVE  LET v == View(n, es, t, b)
               m == Count(n, t, b)
           IN  /\ v # <<>> /\ Len(v) = m /\ v[m] = es[t]
               /\ View(n, Store(es, t, e), t, b) = [v EXCEPT ![Len(v)] = e]
<1> DEFINE m == Count(n, t, b)
           v == View(n, es, t, b)
           es2 == Store(es, t, e)
<1>0. /\ n \in Nat /\ n > 1 /\ t \in 0 .. n - 1 /\ b \in 0 .. n - 1 /\ es \in [0 .. n - 1 -> S]
  BY ZenonT(30) DEF IsRing
<1>1. m \in Nat /\ m > 0 /\ m < n /\ At(n, b, m) = t
  BY SMTT(30), <1>0 DEF Count, At
<1>2. \A i \in 1 .. m : (At(n, b, i) = t <=> i = m) /\ At(n, b, i) \in 0 .. n - 1
  BY SMTT(30), <1>0, <1>1 DEF At, Count
<1>3. es2[t] = e /\ \A s \in 0 .. n - 1 : s # t => es2[s] = es[s]
  BY ZenonT(30), <1>0 DEF Store
<1> HIDE DEF m, es2, v
<1>4. v = [i \in 1 .. m |-> es[At(n, b, i)]]
  BY ZenonT(30) DEF View, m, v
<1>5. View(n, es2, t, b) = [i \in 1 .. m |-> es2[At(n, b, i)]]
  BY ZenonT(30) DEF View, m
<1>6. v \in Seq(S) /\ Len(v) = m
  BY SMTT(30), ViewType DEF m, v
<1>7. v # <<>> /\ v[m] = es[t]
  BY SMTT(30), <1>1, <1>4, <1>6
<1>8. \A i \in 1 .. m : es2[At(n, b, i)] = IF i = m THEN e ELSE es[At(n, b, i)]
  BY ZenonT(30), <1>1, <1>2, <1>3
<1>9. [v EXCEPT ![m] = e] = [i \in 1 .. m |-> IF i = m THEN e ELSE es[At(n, b, i)]]
  BY ZenonT(30), <1>4
<1>10. View(n, es2, t, b) = [v EXCEPT ![m] = e]
  BY ZenonT(30), <1>5, <1>8, <1>9
<1> QED
  BY ZenonT(30), <1>6, <1>7, <1>10 DEF m, v, es2

\* A new error in a full ring: first the oldest one goes, then there is room.
LEMMA FullView ==
    ASSUME NEW S, NEW n, NEW es, NEW t, NEW b, IsRing(S, n, es, t, b), NEW e \in S,
           At(n, t, 1) = b
    PROVE  /\ Count(n, t, b) = n - 1
           /\ View(n, Store(es, b, e), b, At(n, b, 1))
                = Append(Tail(View(n, es, t, b)), e)
<1> DEFINE c == At(n, b, 1)
<1>0. /\ n \in Nat /\ n > 1 /\ t \in 0 .. n - 1 /\ b \in 0 .. n - 1 /\ es \in [0 .. n - 1 -> S]
  BY ZenonT(30) DEF IsRing
<1>1. Count(n, t, b) = n - 1 /\ t # b /\ c \in 0 .. n - 1 /\ c # b
  BY SMTT(30), <1>0 DEF At, Count
<1>2. View(n, es, t, c) = Tail(View(n, es, t, b))
  <2>1. IsRing(S, n, es, t, b) /\ t # b
    BY ZenonT(30), <1>1
  <2> QED
    BY ONLY SMTT(30), <2>1, e \in S, GetView
<1>3. IsRing(S, n, es, t, c)
  BY ZenonT(30), <1>0, <1>1 DEF IsRing
<1> HIDE DEF c
<1>4. View(n, Store(es, At(n, t, 1), e), At(n, t, 1), c) = Append(View(n, es, t, c), e)
  <2>1. IsRing(S, n, es, t, c) /\ At(n, t, 1) # c
    BY ZenonT(30), <1>1, <1>3
  <2> QED
    BY ONLY SMTT(30), <2>1, e \in S, PutView
<1> QED
  BY ZenonT(30), <1>1, <1>2, <1>4 DEF c

\* The k oldest errors of a ring.
LEMMA PrefixView ==
    ASSUME NEW S, NEW n, NEW es, NEW t, NEW b, IsRing(S, n, es, t, b), NEW es2,
           NEW k \in 0 .. Count(n, t, b)
    PROVE  /\ At(n, b, k) \in 0 .. n - 1
           /\ View(n, es2, At(n, b, k), b) = [i \in 1 .. k |-> es2[At(n, b, i)]]
<1>a. n \in Nat /\ n > 1 /\ t \in 0 .. n - 1 /\ b \in 0 .. n - 1
  BY ZenonT(30) DEF IsRing
<1>b. Count(n, t, b) \in Nat /\ Count(n, t, b) < n
  BY SMTT(30), <1>a DEF Count
<1>0. n \in Nat /\ n > 1 /\ b \in 0 .. n - 1 /\ k \in Nat /\ k < n
  BY SMTT(30), <1>a, <1>b
<1>1. Count(n, At(n, b, k), b) = k /\ At(n, b, k) \in 0 .. n - 1
  BY SMTT(30), <1>0 DEF Count, At
<1> QED
  BY ZenonT(30), <1>1 DEF View

\* The ring ERR_restore_state fills.
LEMMA RestoreView ==
    ASSUME NEW n \in Nat, n > 1, NEW l \in 1 .. n - 1, NEW es
    PROVE  View(n, es, l - 1, n - 1) = [i \in 1 .. l |-> es[i - 1]]
<1>1. Count(n, l - 1, n - 1) = l
  BY SMTT(30) DEF Count
<1>2. \A i \in 1 .. l : At(n, n - 1, i) = i - 1
  BY SMTT(30) DEF At
<1> QED
  BY ZenonT(30), <1>1, <1>2 DEF View

-----------------------------------------------------------------------------

\* Each call of the library is a step of the list, or leaves it alone.
LEMMA PutResult ==
    ASSUME TypeOK, TypeOK', NEW c \in Codes, ERR_put_error(c)
    PROVE  LET e == [packed |-> c, data |-> <<>>, mark |-> FALSE]
           IN  /\ IF (top + 1) % N = bottom
                  THEN Len(Queue) = N - 1 /\ Queue' = Append(Tail(Queue), e)
                  ELSE Len(Queue) < N - 1 /\ Queue' = Append(Queue, e)
               /\ saved' = saved
<1> DEFINE e == [packed |-> c, data |-> <<>>, mark |-> FALSE]
           slot == At(N, top, 1)
<1>v. AsView /\ AsView'
  BY QueueIsView, PTL
<1>0. /\ Queue = View(N, errors, top, bottom) /\ Queue' = View(N, errors', top', bottom')
      /\ IsRing(Error, N, errors, top, bottom)
  BY ZenonT(30), <1>v DEF AsView
<1>a. N \in Nat /\ N > 1 /\ top \in 0 .. N - 1 /\ bottom \in 0 .. N - 1
  BY ZenonT(30), <1>0 DEF IsRing
<1>1. (top + 1) % N = slot /\ (bottom + 1) % N = At(N, bottom, 1)
  <2>1. 1 \in 0 .. N
    BY SMTT(30), <1>a
  <2> QED
    BY ZenonT(30), <1>a, <2>1, Wraps DEF At
<1>2. e \in Error
  BY ZenonT(30) DEF Error, Data
<1>4. /\ top' = slot
      /\ bottom' = IF slot = bottom THEN At(N, bottom, 1) ELSE bottom
      /\ errors' = Store(errors, slot, e)
      /\ saved' = saved
  BY ZenonT(30), <1>1 DEF ERR_put_error, Store
<1> HIDE DEF e
<1>5. Queue \in Seq(Error) /\ Len(Queue) = Count(N, top, bottom)
  BY SMTT(30), <1>0, ViewType
<1>6. CASE slot # bottom
  <2>1. /\ Count(N, top, bottom) < N - 1
        /\ View(N, Store(errors, At(N, top, 1), e), At(N, top, 1), bottom)
             = Append(View(N, errors, top, bottom), e)
    BY SMTT(30), <1>0, <1>2, <1>6, PutView
  <2>2. Len(Queue) < N - 1 /\ Queue' = Append(Queue, e)
    BY ZenonT(30), <2>1, <1>6, <1>0, <1>4, <1>5
  <2> QED
    BY ZenonT(30), <2>2, <1>1, <1>4, <1>6 DEF e
<1>7. CASE slot = bottom
  <2>1. /\ Count(N, top, bottom) = N - 1
        /\ View(N, Store(errors, bottom, e), bottom, At(N, bottom, 1))
             = Append(Tail(View(N, errors, top, bottom)), e)
    BY SMTT(30), <1>0, <1>2, <1>7, FullView
  <2>2. Len(Queue) = N - 1 /\ Queue' = Append(Tail(Queue), e)
    BY ZenonT(30), <2>1, <1>7, <1>0, <1>4, <1>5
  <2> QED
    BY ZenonT(30), <2>2, <1>1, <1>4, <1>7 DEF e
<1> QED
  BY ZenonT(30), <1>6, <1>7

\* ERR_put_error.
LEMMA PutStep ==
    ASSUME TypeOK, TypeOK', NEW c \in Codes, ERR_put_error(c)
    PROVE  Abstract!Put(c)
<1> DEFINE e == [packed |-> c, data |-> <<>>, mark |-> FALSE]
<1>1. /\ IF (top + 1) % N = bottom
         THEN Len(Queue) = N - 1 /\ Queue' = Append(Tail(Queue), e)
         ELSE Len(Queue) < N - 1 /\ Queue' = Append(Queue, e)
      /\ saved' = saved
  BY ZenonT(30), PutResult
<1> HIDE DEF e
<1>2. Queue' = IF Len(Queue) < N - 1 THEN Append(Queue, e) ELSE Append(Tail(Queue), e)
  BY SMTT(30), <1>1, NAssumption
<1> QED
  BY ZenonT(30), <1>1, <1>2 DEF Abstract!Put, e

\* ERR_get_error and ERR_get_error_line_data.
LEMMA GetStep ==
    ASSUME TypeOK, TypeOK', ERR_get_error \/ ERR_get_error_line_data
    PROVE  Abstract!Get
<1>v. AsView /\ AsView'
  BY QueueIsView, PTL
<1>0. /\ Queue = View(N, errors, top, bottom) /\ Queue' = View(N, errors', top', bottom')
      /\ IsRing(Error, N, errors, top, bottom)
  BY ZenonT(30), <1>v DEF AsView
<1>1. (bottom + 1) % N = At(N, bottom, 1)
  BY SMTT(30), <1>0, Wraps DEF At, IsRing
<1>2. err_cleared \in Error
  BY ZenonT(30) DEF err_cleared, Error, Data
<1>3. /\ bottom' = At(N, bottom, 1)
      /\ top' = top
      /\ top # bottom
      /\ errors' = Store(errors, At(N, bottom, 1), err_cleared)
      /\ saved' = saved
  BY ZenonT(30), <1>1 DEF ERR_get_error, ERR_get_error_line_data, Store
<1>4. /\ View(N, errors, top, bottom) # <<>>
      /\ View(N, Store(errors, At(N, bottom, 1), err_cleared), top, At(N, bottom, 1))
           = Tail(View(N, errors, top, bottom))
  BY SMTT(30), <1>0, <1>2, <1>3, GetView
<1> QED
  BY ZenonT(30), <1>0, <1>3, <1>4 DEF Abstract!Get

\* A change of the newest error alone.
LEMMA NewestResult ==
    ASSUME TypeOK, TypeOK', NEW e, top # bottom, errors' = Store(errors, top, e),
           UNCHANGED <<top, bottom>>
    PROVE  /\ Queue # <<>> /\ Queue[Len(Queue)] = errors[top]
           /\ Queue' = [Queue EXCEPT ![Len(Queue)] = e]
<1>v. AsView /\ AsView'
  BY QueueIsView, PTL
<1>0. /\ Queue = View(N, errors, top, bottom) /\ Queue' = View(N, errors', top', bottom')
      /\ IsRing(Error, N, errors, top, bottom)
  BY ZenonT(30), <1>v DEF AsView
<1>1. LET v == View(N, errors, top, bottom)
          m == Count(N, top, bottom)
      IN  /\ v # <<>> /\ Len(v) = m /\ v[m] = errors[top]
          /\ View(N, Store(errors, top, e), top, bottom) = [v EXCEPT ![Len(v)] = e]
  BY SMTT(30), <1>0, NewestView
<1> QED
  BY ZenonT(30), <1>0, <1>1

\* ERR_set_mark.
LEMMA SetMarkStep ==
    ASSUME TypeOK, TypeOK', ERR_set_mark
    PROVE  Abstract!SetMark
<1> DEFINE e == [errors[top] EXCEPT !.mark = TRUE]
<1>1. top # bottom /\ errors' = Store(errors, top, e) /\ UNCHANGED <<top, bottom>> /\ saved' = saved
  BY ZenonT(30) DEF ERR_set_mark, Store
<1> HIDE DEF e
<1>2. Queue # <<>> /\ Queue[Len(Queue)] = errors[top] /\ Queue' = [Queue EXCEPT ![Len(Queue)] = e]
  BY ZenonT(30), <1>1, NewestResult
<1>3. e = [Queue[Len(Queue)] EXCEPT !.mark = TRUE]
  BY ZenonT(30), <1>2 DEF e
<1> QED
  BY ZenonT(30), <1>1, <1>2, <1>3 DEF Abstract!SetMark

\* err_set_error_data.
LEMMA SetDataStep ==
    ASSUME TypeOK, TypeOK', NEW t \in Texts, err_set_error_data(t)
    PROVE  Abstract!SetData(t)
<1> DEFINE e == [errors[top] EXCEPT !.data = <<t>>]
<1>1. top # bottom /\ errors' = Store(errors, top, e) /\ UNCHANGED <<top, bottom>> /\ saved' = saved
  BY ZenonT(30) DEF err_set_error_data, Store
<1> HIDE DEF e
<1>2. Queue # <<>> /\ Queue[Len(Queue)] = errors[top] /\ Queue' = [Queue EXCEPT ![Len(Queue)] = e]
  BY ZenonT(30), <1>1, NewestResult
<1>3. e = [Queue[Len(Queue)] EXCEPT !.data = <<t>>]
  BY ZenonT(30), <1>2 DEF e
<1> QED
  BY ZenonT(30), <1>1, <1>2, <1>3 DEF Abstract!SetData

\* What ERR_pop_to_mark leaves: the queue up to its last mark.
LEMMA PopResult ==
    ASSUME TypeOK, TypeOK', ERR_pop_to_mark
    PROVE  \E k \in 0 .. Num :
             /\ k = 0 \/ Queue[k].mark
             /\ \A i \in k + 1 .. Num : ~Queue[i].mark
             /\ Queue' = [i \in 1 .. k |->
                            IF i = k THEN [Queue[i] EXCEPT !.mark = FALSE] ELSE Queue[i]]
             /\ UNCHANGED saved
             /\ Num' = k
<1>v. AsView /\ AsView'
  BY QueueIsView, PTL
<1>0. /\ Queue = View(N, errors, top, bottom) /\ Queue' = View(N, errors', top', bottom')
      /\ IsRing(Error, N, errors, top, bottom)
      /\ Num = Count(N, top, bottom)
      /\ \A i \in 0 .. N : Slot(i) = At(N, bottom, i)
  BY ZenonT(30), <1>v DEF AsView
<1>a. /\ N \in Nat /\ N > 1 /\ top \in 0 .. N - 1 /\ bottom \in 0 .. N - 1
      /\ errors \in [0 .. N - 1 -> Error]
  BY ZenonT(30), <1>0 DEF IsRing
<1>b. Num \in Nat /\ Num < N
  BY SMTT(30), <1>0, <1>a DEF Count
<1>1. PICK k \in 0 .. Num :
        /\ StopsAt(k)
        /\ errors' = [s \in 0 .. N - 1 |->
             IF s \in {Slot(i) : i \in k + 1 .. Num} THEN err_cleared
             ELSE [errors[s] EXCEPT !.mark = errors[s].mark /\ ~(k > 0 /\ s = Slot(k))]]
        /\ top' = Slot(k)
        /\ UNCHANGED <<bottom, saved>>
  BY ZenonT(30) DEF ERR_pop_to_mark
<1>2. \A i \in 1 .. Num : Slot(i) \in 0 .. N - 1 /\ Queue[i] = errors[Slot(i)]
  BY SMTT(30), <1>a, <1>b, Ring, QueueType
<1>3. \A i \in 1 .. k : \A j \in k + 1 .. Num : Slot(i) # Slot(j)
  BY SMTT(30), <1>a, <1>b, Ring
<1>4. \A i \in 1 .. k : k > 0 /\ Slot(i) = Slot(k) => i = k
  BY SMTT(30), <1>a, <1>b, Ring
<1>5. \A i \in 1 .. k :
        errors'[Slot(i)] = [errors[Slot(i)] EXCEPT !.mark = errors[Slot(i)].mark /\ i # k]
  <2> SUFFICES ASSUME NEW i \in 1 .. k
               PROVE  errors'[Slot(i)] = [errors[Slot(i)] EXCEPT !.mark = errors[Slot(i)].mark /\ i # k]
    BY ZenonT(30)
  <2>1. Slot(i) \notin {Slot(j) : j \in k + 1 .. Num} /\ Slot(i) \in 0 .. N - 1
    BY SMTT(30), <1>2, <1>3, <1>b
  <2>2. (k > 0 /\ Slot(i) = Slot(k)) <=> i = k
    BY SMTT(30), <1>4, <1>b
  <2>3. errors'[Slot(i)]
          = [errors[Slot(i)] EXCEPT !.mark = errors[Slot(i)].mark /\ ~(k > 0 /\ Slot(i) = Slot(k))]
    BY ZenonT(30), <2>1, <1>1
  <2> QED
    BY ZenonT(30), <2>2, <2>3
<1>6. ASSUME NEW e \in Error, e.mark \in BOOLEAN PROVE [e EXCEPT !.mark = e.mark /\ TRUE] = e
  BY ZenonT(30), <1>6 DEF Error
<1>7. \A i \in 1 .. k : errors'[Slot(i)] = IF i = k THEN [Queue[i] EXCEPT !.mark = FALSE] ELSE Queue[i]
  <2> SUFFICES ASSUME NEW i \in 1 .. k
               PROVE  errors'[Slot(i)] = IF i = k THEN [Queue[i] EXCEPT !.mark = FALSE] ELSE Queue[i]
    BY ZenonT(30)
  <2>1. Queue[i] = errors[Slot(i)] /\ Slot(i) \in 0 .. N - 1
    BY SMTT(30), <1>2, <1>b
  <2>2. errors'[Slot(i)] = [Queue[i] EXCEPT !.mark = Queue[i].mark /\ i # k]
    BY ZenonT(30), <1>5, <2>1
  <2>3. Queue[i] \in Error /\ Queue[i].mark \in BOOLEAN
    BY ZenonT(30), <2>1, <1>a DEF Error
  <2>4. CASE i = k
    <3>1. (Queue[i].mark /\ i # k) = FALSE
      BY ZenonT(30), <2>4
    <3> QED
      BY ZenonT(30), <2>2, <2>4, <3>1
  <2>5. CASE i # k
    <3>1. (Queue[i].mark /\ i # k) = (Queue[i].mark /\ TRUE)
      BY ZenonT(30), <2>5
    <3> QED
      BY ZenonT(30), <2>2, <2>3, <2>5, <3>1, <1>6
  <2> QED
    BY ZenonT(30), <2>4, <2>5
<1>8. /\ Queue' = [i \in 1 .. k |-> errors'[At(N, bottom, i)]]
      /\ Num' = k
  <2>0. k \in 0 .. N
    BY SMTT(30), <1>a, <1>b
  <2>1. top' = At(N, bottom, k) /\ bottom' = bottom
    BY ZenonT(30), <1>0, <1>1, <2>0
  <2>2. View(N, errors', At(N, bottom, k), bottom) = [i \in 1 .. k |-> errors'[At(N, bottom, i)]]
    BY SMTT(30), <1>0, PrefixView
  <2>3. Queue' = [i \in 1 .. k |-> errors'[At(N, bottom, i)]]
    BY ZenonT(30), <1>0, <2>1, <2>2
  <2>4. Num' = Count(N, top', bottom')
    BY ZenonT(30), <1>v DEF AsView
  <2>5. Count(N, At(N, bottom, k), bottom) = k
    BY SMTT(30), <1>a, <1>b DEF Count, At
  <2> QED
    BY ZenonT(30), <2>1, <2>3, <2>4, <2>5
<1>9. Queue' = [i \in 1 .. k |-> IF i = k THEN [Queue[i] EXCEPT !.mark = FALSE] ELSE Queue[i]]
  <2>0. \A i \in 1 .. k : i \in 0 .. N
    BY SMTT(30), <1>a, <1>b
  <2>1. \A i \in 1 .. k : At(N, bottom, i) = Slot(i)
    BY ZenonT(30), <1>0, <2>0
  <2> QED
    BY ZenonT(30), <1>7, <1>8, <2>1
<1>10. (k = 0 \/ Queue[k].mark) /\ \A i \in k + 1 .. Num : ~Queue[i].mark
  BY SMTT(30), <1>1, <1>2, <1>b DEF StopsAt
<1> QED
  BY ZenonT(30), <1>1, <1>8, <1>9, <1>10

\* ERR_pop_to_mark.
LEMMA PopStep ==
    ASSUME TypeOK, TypeOK', ERR_pop_to_mark
    PROVE  Abstract!PopToMark
BY ZenonT(30), PopResult, QueueType DEF Abstract!PopToMark

\* ERR_clear_error.
LEMMA ClearStep ==
    ASSUME TypeOK, TypeOK', ERR_clear_error
    PROVE  Abstract!Clear
<1>1. top' = 0 /\ bottom' = 0 /\ saved' = saved
  BY ZenonT(30) DEF ERR_clear_error
<1>2. Num' = 0
  BY SMTT(30), <1>1 DEF Num
<1>3. Queue' = <<>>
  BY SMTT(30), <1>2 DEF Queue
<1> QED
  BY ZenonT(30), <1>1, <1>3 DEF Abstract!Clear

\* err_copy is the list's copy.
LEMMA CopyIs ==
    ASSUME NEW src, NEW kept
    PROVE  Abstract!IsCopy(err_copy(src, kept), src)
BY ZenonT(30) DEF Abstract!IsCopy, err_copy

\* ERR_save_state.
LEMMA SaveStep ==
    ASSUME TypeOK, ERR_save_state
    PROVE  Abstract!Save
<1>1. PICK kept : saved' = err_copy(Queue, kept)
  BY ZenonT(30) DEF ERR_save_state, Queue
<1>2. Queue' = Queue
  BY ZenonT(30) DEF ERR_save_state, Queue, Num, Slot
<1> QED
  BY ZenonT(30), <1>1, <1>2, CopyIs DEF Abstract!Save

\* ERR_restore_state.
LEMMA RestoreStep ==
    ASSUME TypeOK, TypeOK', ERR_restore_state
    PROVE  Abstract!Restore
<1>v. AsView'
  BY QueueIsView, PTL
<1>0. Queue' = View(N, errors', top', bottom')
  BY ZenonT(30), <1>v DEF AsView
<1>1. PICK kept :
        /\ errors' = [s \in 0 .. N - 1 |->
                        IF s < Len(saved) THEN err_copy(saved, kept)[s + 1] ELSE errors[s]]
        /\ top' = Len(saved) - 1
        /\ bottom' = N - 1
        /\ saved' = saved
        /\ saved # <<>>
  BY ZenonT(30) DEF ERR_restore_state
<1>2. N \in Nat /\ N > 1 /\ Len(saved) \in 1 .. N - 1 /\ DOMAIN saved = 1 .. Len(saved)
  BY SMTT(30), <1>1, NAssumption DEF TypeOK
<1>3. Queue' = [i \in 1 .. Len(saved) |-> errors'[i - 1]]
  <2>1. \A n \in Nat, l \in Nat : \A es : n > 1 /\ l \in 1 .. n - 1
          => View(n, es, l - 1, n - 1) = [i \in 1 .. l |-> es[i - 1]]
    BY ZenonT(30), RestoreView
  <2>2. View(N, errors', Len(saved) - 1, N - 1) = [i \in 1 .. Len(saved) |-> errors'[i - 1]]
    BY SMTT(30), <1>2, <2>1
  <2> QED
    BY ZenonT(30), <1>0, <1>1, <2>2
<1>4. \A i \in 1 .. Len(saved) : errors'[i - 1] = err_copy(saved, kept)[i]
  BY SMTT(30), <1>1, <1>2
<1>5. Queue' = [i \in 1 .. Len(saved) |-> err_copy(saved, kept)[i]]
  BY ZenonT(30), <1>3, <1>4
<1>6. err_copy(saved, kept) = [i \in 1 .. Len(saved) |-> err_copy(saved, kept)[i]]
  BY ZenonT(30), <1>2 DEF err_copy
<1> QED
  BY ZenonT(30), <1>1, <1>5, <1>6, CopyIs DEF Abstract!Restore

\* Every step of the ring is a step of the list, or changes neither the queue
\* nor the saved copy.
LEMMA Step ==
    ASSUME TypeOK, TypeOK', [Next]_vars
    PROVE  [Abstract!Next]_(Abstract!lvars)
<1>1. ASSUME NEW last \in BOOLEAN, ERR_peek_error_line_data(last) PROVE UNCHANGED Abstract!lvars
  BY ZenonT(30), <1>1 DEF ERR_peek_error_line_data, Abstract!lvars, Queue, Num, Slot
<1>2. CASE ERR_SAVE_STATE_free
  BY ZenonT(30), <1>2 DEF ERR_SAVE_STATE_free, Abstract!Next, Abstract!Forget, Queue, Num, Slot
<1>3. CASE UNCHANGED vars
  BY ZenonT(30), <1>3 DEF vars, Abstract!lvars, Queue, Num, Slot
<1>4. CASE \E c \in Codes : ERR_put_error(c)
  BY ZenonT(30), <1>4, PutStep DEF Abstract!Next
<1>5. CASE ERR_get_error \/ ERR_get_error_line_data
  BY ZenonT(30), <1>5, GetStep DEF Abstract!Next
<1>6. CASE ERR_set_mark \/ \E t \in Texts : err_set_error_data(t)
  BY ZenonT(30), <1>6, SetMarkStep, SetDataStep DEF Abstract!Next
<1>7. CASE ERR_pop_to_mark
  BY ZenonT(30), <1>7, PopStep DEF Abstract!Next
<1>8. CASE ERR_clear_error
  BY ZenonT(30), <1>8, ClearStep DEF Abstract!Next
<1>9. CASE ERR_save_state
  BY ZenonT(30), <1>9, SaveStep DEF Abstract!Next
<1>10. CASE ERR_restore_state
  BY ZenonT(30), <1>10, RestoreStep DEF Abstract!Next
<1> QED
  BY ZenonT(30), <1>1, <1>2, <1>3, <1>4, <1>5, <1>6, <1>7, <1>8, <1>9, <1>10 DEF Next

\* ERR_SAVE_STATE_free.
LEMMA ForgetStep ==
    ASSUME ERR_SAVE_STATE_free
    PROVE  Abstract!Forget
BY ZenonT(30) DEF ERR_SAVE_STATE_free, Abstract!Forget, Queue, Num, Slot

\* The first state.
LEMMA InitStep ==
    ASSUME Init
    PROVE  TypeOK /\ Abstract!Init
<1> USE NAssumption
<1>1. err_cleared \in Error /\ <<>> \in Data
  BY ZenonT(30) DEF err_cleared, Error, Data
<1>2. <<>> \in Seq(Error) /\ Len(<<>>) = 0
  OBVIOUS
<1>3. TypeOK
  BY SMTT(30), <1>1, <1>2 DEF Init, TypeOK
<1>4. Num = 0
  BY SMTT(30) DEF Init, Num
<1>5. Queue = <<>>
  BY SMTT(30), <1>4 DEF Queue
<1> QED
  BY ZenonT(30), <1>3, <1>5 DEF Init, Abstract!Init

\* The types of the error queue's variables, for every ring size.
THEOREM TypeCorrect == Spec => []TypeOK
<1>1. Init => TypeOK
  BY ZenonT(30), InitStep
<1>2. TypeOK /\ [Next]_vars => TypeOK'
  BY ZenonT(30), TypeStep
<1> QED
  BY <1>1, <1>2, PTL DEF Spec

\* The ring of crypto/err/err.c implements the list of the most recent errors,
\* for every ring size.
THEOREM RingRefinesList == Spec => Refines
<1>1. Init => Abstract!Init
  BY ZenonT(30), InitStep
<1>2. TypeOK /\ TypeOK' /\ [Next]_vars => [Abstract!Next]_(Abstract!lvars)
  BY ZenonT(30), Step
<1> QED
  BY <1>1, <1>2, TypeCorrect, PTL DEF Spec, Refines, Abstract!Spec

\* Each function of err.c does what its counterpart does to the list, for every
\* ring size.
THEOREM CallsMatch == Spec => CallByCall
<1> DEFINE A == /\ \A c \in Codes : ERR_put_error(c) => Abstract!Put(c)
                /\ ERR_get_error \/ ERR_get_error_line_data => Abstract!Get
                /\ \A t \in Texts : err_set_error_data(t) => Abstract!SetData(t)
                /\ ERR_set_mark => Abstract!SetMark
                /\ ERR_pop_to_mark => Abstract!PopToMark
                /\ ERR_clear_error => Abstract!Clear
                /\ ERR_save_state => Abstract!Save
                /\ ERR_restore_state => Abstract!Restore
                /\ ERR_SAVE_STATE_free => Abstract!Forget
<1>1. TypeOK /\ TypeOK' => A
  BY ZenonT(30), PutStep, GetStep, SetDataStep, SetMarkStep, PopStep, ClearStep, SaveStep, RestoreStep, ForgetStep
<1> QED
  BY <1>1, TypeCorrect, PTL DEF CallByCall

-----------------------------------------------------------------------------

\* A pointer handed to a caller stays owned until the next change of the queue.
LEMMA PointerStep ==
    ASSUME TypeOK, PointerValid, [Next]_vars
    PROVE  PointerValid'
<1>0. out # <<>> => out = to_free \/ \E s \in 0 .. N - 1 : errors[s].data = out
  BY ZenonT(30) DEF PointerValid
<1>a. /\ N \in Nat /\ N > 1 /\ top \in 0 .. N - 1 /\ bottom \in 0 .. N - 1
      /\ errors \in [0 .. N - 1 -> Error]
  BY ZenonT(30), NAssumption DEF TypeOK
<1>b. (bottom + 1) % N \in 0 .. N - 1
  BY SMTT(30), <1>a
<1>1. CASE out' = <<>>
  BY ZenonT(30), <1>1 DEF PointerValid
<1>2. CASE out' = out /\ to_free' = to_free
           /\ \A s \in 0 .. N - 1 : errors'[s].data = errors[s].data
  BY ZenonT(30), <1>0, <1>2 DEF PointerValid
<1>3. CASE ERR_get_error_line_data
  <2>1. out' # <<>> => out' = to_free'
    BY ZenonT(30), <1>3 DEF ERR_get_error_line_data
  <2> QED
    BY ZenonT(30), <2>1 DEF PointerValid
<1>4. ASSUME NEW last \in BOOLEAN, ERR_peek_error_line_data(last) PROVE PointerValid'
  <2>1. \E s \in 0 .. N - 1 : errors'[s].data = out'
    BY ZenonT(30), <1>4, <1>a, <1>b DEF ERR_peek_error_line_data
  <2> QED
    BY ZenonT(30), <2>1 DEF PointerValid
<1>5. CASE ERR_set_mark
  <2>1. errors' = [errors EXCEPT ![top] = [errors[top] EXCEPT !.mark = TRUE]]
    BY ZenonT(30), <1>5 DEF ERR_set_mark
  <2>2. [errors[top] EXCEPT !.mark = TRUE].data = errors[top].data
    BY ZenonT(30), <1>a DEF Error
  <2>3. \A s \in 0 .. N - 1 : errors'[s].data = errors[s].data
    BY ZenonT(30), <2>1, <2>2, <1>a
  <2> QED
    BY ZenonT(30), <1>2, <1>5, <2>3 DEF ERR_set_mark
<1>6. CASE ERR_pop_to_mark
  <2>1. PICK k \in 0 .. Num :
          /\ errors' = [s \in 0 .. N - 1 |->
               IF s \in {Slot(i) : i \in k + 1 .. Num} THEN err_cleared
               ELSE [errors[s] EXCEPT !.mark = errors[s].mark /\ ~(k > 0 /\ s = Slot(k))]]
          /\ out' = IF {Slot(i) : i \in k + 1 .. Num} = {} THEN out ELSE <<>>
          /\ to_free' = to_free
    BY ZenonT(30), <1>6 DEF ERR_pop_to_mark
  <2>2. CASE {Slot(i) : i \in k + 1 .. Num} = {}
    <3>1. \A s \in 0 .. N - 1, b \in BOOLEAN : [errors[s] EXCEPT !.mark = b].data = errors[s].data
      BY ZenonT(30), <1>a DEF Error
    <3>2. \A s \in 0 .. N - 1 :
            errors'[s] = [errors[s] EXCEPT !.mark = errors[s].mark /\ ~(k > 0 /\ s = Slot(k))]
      BY ZenonT(30), <2>1, <2>2
    <3>3. \A s \in 0 .. N - 1 : (errors[s].mark /\ ~(k > 0 /\ s = Slot(k))) \in BOOLEAN
      BY ZenonT(30)
    <3>4. \A s \in 0 .. N - 1 : errors'[s].data = errors[s].data
      BY ZenonT(30), <3>1, <3>2, <3>3
    <3> QED
      BY ZenonT(30), <1>2, <2>1, <2>2, <3>4
  <2> QED
    BY ZenonT(30), <1>1, <2>1, <2>2
<1>7. CASE UNCHANGED vars
  BY ZenonT(30), <1>2, <1>7 DEF vars
<1>8. CASE ERR_save_state \/ ERR_SAVE_STATE_free
  BY ZenonT(30), <1>2, <1>8 DEF ERR_save_state, ERR_SAVE_STATE_free
<1> QED
  BY ZenonT(30), <1>1, <1>3, <1>4, <1>5, <1>6, <1>7, <1>8
     DEF Next, ERR_put_error, ERR_get_error, err_set_error_data, ERR_clear_error, ERR_restore_state

\* No caller is left with a pointer into freed memory by a call that err.h does
\* not name as one that changes the queue.
THEOREM PointersStayValid == Spec => []PointerValid
<1>1. Init => PointerValid
  BY ZenonT(30) DEF Init, PointerValid
<1>2. TypeOK /\ PointerValid /\ [Next]_vars => PointerValid'
  BY ZenonT(30), PointerStep
<1> QED
  BY <1>1, <1>2, TypeCorrect, PTL DEF Spec

-----------------------------------------------------------------------------

\* What snap says of the queue: the errors queued when the mark was set and not
\* pushed out since are its oldest ones, the last of them has the mark, and no
\* later one has a mark.
Marked(p, v) ==
    /\ p \in Seq(Codes \cup {0})
    /\ Len(p) <= Len(v)
    /\ \A i \in 1 .. Len(p) : v[i].packed = p[i]
    /\ Len(p) > 0 => v[Len(p)].mark
    /\ \A i \in Len(p) + 1 .. Len(v) : ~v[i].mark

SnapInv == snap = <<>> \/ \E p : snap = <<p>> /\ Marked(p, Queue)

\* The last mark after a new error.
LEMMA MarkedAppend ==
    ASSUME NEW p, NEW v \in Seq(Error), Marked(p, v), NEW e \in Error, ~e.mark
    PROVE  Marked(p, Append(v, e))
<1>1. /\ Len(Append(v, e)) = Len(v) + 1 /\ Len(v) \in Nat
      /\ \A i \in 1 .. Len(v) : Append(v, e)[i] = v[i]
      /\ Append(v, e)[Len(v) + 1] = e
  BY SMTT(30), AppendProperties
<1>2. Len(p) \in Nat
  BY SMTT(30) DEF Marked
<1> DEFINE w == Append(v, e)
<1> HIDE DEF w
<1>3. \A i \in 1 .. Len(p) : w[i].packed = p[i]
  BY SMTT(30), <1>1, <1>2 DEF Marked, w
<1>4. Len(p) > 0 => w[Len(p)].mark
  BY SMTT(30), <1>1, <1>2 DEF Marked, w
<1>5. \A i \in Len(p) + 1 .. Len(w) : ~w[i].mark
  BY SMTT(30), <1>1, <1>2 DEF Marked, w
<1> QED
  BY SMTT(30), <1>1, <1>2, <1>3, <1>4, <1>5 DEF Marked, w

\* The last mark after the oldest error went.
LEMMA MarkedTail ==
    ASSUME NEW p, NEW v \in Seq(Error), Marked(p, v), v # <<>>
    PROVE  Marked(IF p = <<>> THEN p ELSE Tail(p), Tail(v))
<1>1. /\ Tail(v) \in Seq(Error) /\ Len(Tail(v)) = Len(v) - 1 /\ Len(v) \in Nat /\ Len(v) > 0
      /\ \A i \in 1 .. Len(v) - 1 : Tail(v)[i] = v[i + 1]
  BY SMTT(30), HeadTailProperties
<1>2. p \in Seq(Codes \cup {0}) /\ Len(p) \in Nat /\ Len(p) <= Len(v)
  BY SMTT(30) DEF Marked
<1> DEFINE w == Tail(v)
<1> HIDE DEF w
<1>3. CASE p = <<>>
  <2>1. Len(p) = 0
    BY ZenonT(30), <1>3
  <2>2. \A i \in 1 .. Len(w) : ~w[i].mark
    BY SMTT(30), <1>1, <2>1 DEF Marked, w
  <2>3. Marked(p, w)
    BY SMTT(30), <1>1, <1>2, <2>1, <2>2 DEF Marked, w
  <2> QED
    BY ZenonT(30), <1>3, <2>3 DEF w
<1>4. CASE p # <<>>
  <2> DEFINE r == Tail(p)
  <2>1. /\ r \in Seq(Codes \cup {0}) /\ Len(r) = Len(p) - 1 /\ Len(p) > 0
        /\ \A i \in 1 .. Len(p) - 1 : r[i] = p[i + 1]
    BY SMTT(30), <1>2, <1>4, HeadTailProperties
  <2> HIDE DEF r
  <2>2. \A i \in 1 .. Len(r) : w[i].packed = r[i]
    <3> SUFFICES ASSUME NEW i \in 1 .. Len(r) PROVE w[i].packed = r[i]
      BY ZenonT(30)
    <3>1. i \in 1 .. Len(p) - 1 /\ i \in 1 .. Len(v) - 1 /\ i + 1 \in 1 .. Len(p)
      BY SMTT(30), <1>1, <1>2, <2>1
    <3>2. w[i] = v[i + 1] /\ r[i] = p[i + 1]
      BY ZenonT(30), <3>1, <1>1, <2>1 DEF w
    <3>3. v[i + 1].packed = p[i + 1]
      BY ZenonT(30), <3>1 DEF Marked
    <3> QED
      BY ZenonT(30), <3>2, <3>3
  <2>3. Len(r) > 0 => w[Len(r)].mark
    BY SMTT(30), <1>1, <1>2, <2>1 DEF Marked, w
  <2>4. \A i \in Len(r) + 1 .. Len(w) : ~w[i].mark
    BY SMTT(30), <1>1, <1>2, <2>1 DEF Marked, w
  <2>5. Marked(r, w)
    BY SMTT(30), <1>1, <1>2, <2>1, <2>2, <2>3, <2>4 DEF Marked, w
  <2> QED
    BY ZenonT(30), <1>4, <2>5 DEF r, w
<1> QED
  BY ZenonT(30), <1>3, <1>4

\* The last mark after the newest error was annotated.
LEMMA MarkedNewest ==
    ASSUME NEW p, NEW v \in Seq(Error), Marked(p, v), v # <<>>, NEW e,
           e.packed = v[Len(v)].packed, e.mark = v[Len(v)].mark
    PROVE  Marked(p, [v EXCEPT ![Len(v)] = e])
<1> DEFINE w == [v EXCEPT ![Len(v)] = e]
<1>1. /\ Len(v) \in Nat /\ Len(v) > 0 /\ Len(p) \in Nat /\ Len(p) <= Len(v)
      /\ p \in Seq(Codes \cup {0})
  BY SMTT(30) DEF Marked
<1>2. Len(w) = Len(v) /\ \A i \in 1 .. Len(v) : w[i] = IF i = Len(v) THEN e ELSE v[i]
  BY SMTT(30), <1>1
<1> HIDE DEF w
<1>3. \A i \in 1 .. Len(v) : w[i].packed = v[i].packed /\ w[i].mark = v[i].mark
  BY ZenonT(30), <1>2
<1>4. \A i \in 1 .. Len(p) : w[i].packed = p[i]
  BY SMTT(30), <1>1, <1>3 DEF Marked
<1>5. Len(p) > 0 => w[Len(p)].mark
  BY SMTT(30), <1>1, <1>3 DEF Marked
<1>6. \A i \in Len(p) + 1 .. Len(w) : ~w[i].mark
  BY SMTT(30), <1>1, <1>2, <1>3 DEF Marked
<1> QED
  BY ZenonT(30), <1>1, <1>2, <1>4, <1>5, <1>6 DEF Marked, w

\* Only a new error and an annotation can touch the queue and keep snap.
LEMMA SnapStep ==
    ASSUME TypeOK, TypeOK', SnapInv, [Next]_vars
    PROVE  SnapInv'
<1>q. /\ Queue \in Seq(Error) /\ Len(Queue) = Num /\ DOMAIN Queue = 1 .. Num
      /\ \A i \in 1 .. Num : Queue[i] = errors[Slot(i)]
  BY ZenonT(30), QueueType
<1>1. CASE snap' = <<>>
  BY ZenonT(30), <1>1 DEF SnapInv
<1>2. CASE snap' = snap /\ Queue' = Queue
  BY ZenonT(30), <1>2 DEF SnapInv
<1>3. ASSUME NEW c \in Codes, ERR_put_error(c) PROVE SnapInv'
  <2> DEFINE e == [packed |-> c, data |-> <<>>, mark |-> FALSE]
             full == (top + 1) % N = bottom
  <2>1. e \in Error /\ ~e.mark
    BY ZenonT(30) DEF Error, Data
  <2>2. IF full THEN Len(Queue) = N - 1 /\ Queue' = Append(Tail(Queue), e)
        ELSE Len(Queue) < N - 1 /\ Queue' = Append(Queue, e)
    BY ZenonT(30), <1>3, PutResult
  <2>3. snap' = IF full THEN PushedOut ELSE snap
    BY ZenonT(30), <1>3 DEF ERR_put_error
  <2> HIDE DEF e, full
  <2>4. CASE snap = <<>>
    BY ZenonT(30), <2>3, <2>4 DEF PushedOut, SnapInv
  <2>5. ASSUME NEW p, snap = <<p>>, Marked(p, Queue) PROVE SnapInv'
    <3>1. CASE ~full
      <4>1. Marked(p, Append(Queue, e))
        BY ZenonT(30), <1>q, <2>1, <2>5, MarkedAppend
      <4> QED
        BY ZenonT(30), <2>2, <2>3, <2>5, <3>1, <4>1 DEF SnapInv
    <3>2. CASE full
      <4> DEFINE r == IF p = <<>> THEN p ELSE Tail(p)
      <4>1. snap' = <<r>>
        <5>1. CASE p = <<>>
          BY ZenonT(30), <2>3, <2>5, <3>2, <5>1 DEF PushedOut
        <5>2. CASE p # <<>>
          <6>1. snap # <<>> /\ snap # <<<<>>>> /\ snap[1] = p
            BY ZenonT(30), <2>5, <5>2
          <6> QED
            BY ZenonT(30), <2>3, <3>2, <5>2, <6>1 DEF PushedOut
        <5> QED
          BY ZenonT(30), <5>1, <5>2
      <4>2. Queue # <<>>
        BY SMTT(30), <2>2, <3>2, <1>q, NAssumption
      <4>3. Marked(r, Tail(Queue)) /\ Tail(Queue) \in Seq(Error)
        BY ZenonT(30), <1>q, <2>5, <4>2, MarkedTail, HeadTailProperties
      <4> HIDE DEF r
      <4>4. Marked(r, Append(Tail(Queue), e))
        BY ZenonT(30), <2>1, <4>3, MarkedAppend
      <4> QED
        BY ZenonT(30), <2>2, <3>2, <4>1, <4>4 DEF SnapInv
    <3> QED
      BY ZenonT(30), <3>1, <3>2
  <2> QED
    BY ZenonT(30), <2>4, <2>5 DEF SnapInv
<1>4. ASSUME NEW t \in Texts, err_set_error_data(t) PROVE SnapInv'
  <2> DEFINE e == [errors[top] EXCEPT !.data = <<t>>]
  <2>1. top # bottom /\ errors' = Store(errors, top, e) /\ UNCHANGED <<top, bottom>> /\ snap' = snap
    BY ZenonT(30), <1>4 DEF err_set_error_data, Store
  <2>2. e.packed = errors[top].packed /\ e.mark = errors[top].mark
    BY ZenonT(30) DEF TypeOK, Error
  <2> HIDE DEF e
  <2>3. Queue # <<>> /\ Queue[Len(Queue)] = errors[top] /\ Queue' = [Queue EXCEPT ![Len(Queue)] = e]
    BY ZenonT(30), <2>1, NewestResult
  <2>4. \A p : Marked(p, Queue) => Marked(p, [Queue EXCEPT ![Len(Queue)] = e])
    BY ZenonT(30), <1>q, <2>2, <2>3, MarkedNewest
  <2> QED
    BY ZenonT(30), <2>1, <2>3, <2>4 DEF SnapInv
<1>5. CASE ERR_set_mark
  <2> DEFINE e == [errors[top] EXCEPT !.mark = TRUE]
  <2>1. top # bottom /\ errors' = Store(errors, top, e) /\ UNCHANGED <<top, bottom>>
        /\ snap' = <<Packed>>
    BY ZenonT(30), <1>5 DEF ERR_set_mark, Store
  <2>2. e.packed = errors[top].packed /\ e.mark
    BY ZenonT(30) DEF TypeOK, Error
  <2> HIDE DEF e
  <2>3. Queue # <<>> /\ Queue[Len(Queue)] = errors[top] /\ Queue' = [Queue EXCEPT ![Len(Queue)] = e]
    BY ZenonT(30), <2>1, NewestResult
  <2>4. /\ Len(Queue') = Len(Queue) /\ Len(Queue) \in Nat /\ Len(Queue) > 0
        /\ \A i \in 1 .. Len(Queue) : Queue'[i] = IF i = Len(Queue) THEN e ELSE Queue[i]
    BY SMTT(30), <1>q, <2>3
  <2>5. Packed \in Seq(Codes \cup {0}) /\ Len(Packed) = Num
        /\ \A i \in 1 .. Num : Packed[i] = Queue[i].packed
    <3>1. \A i \in 1 .. Num : Packed[i] = Queue[i].packed /\ Queue[i].packed \in Codes \cup {0}
      <4>1. \A i \in 1 .. Num : Queue[i] \in Error
        BY SMTT(30), <1>q
      <4>2. \A i \in 1 .. Num : Packed[i] = Queue[i].packed
        BY ZenonT(30), <1>q DEF Packed
      <4> QED
        BY ZenonT(30), <4>1, <4>2 DEF Error
    <3>2. Packed \in [1 .. Num -> Codes \cup {0}] /\ Num \in Nat
      BY SMTT(30), <3>1, <1>q DEF Packed
    <3> QED
      BY ZenonT(30), <3>1, <3>2, FunIsSeq
  <2> DEFINE p == Packed
  <2> HIDE DEF p
  <2>6. \A i \in 1 .. Len(p) : Queue'[i].packed = p[i]
    BY ZenonT(30), <1>q, <2>2, <2>3, <2>4, <2>5 DEF p
  <2>7. Marked(p, Queue')
    BY SMTT(30), <1>q, <2>2, <2>4, <2>5, <2>6 DEF Marked, p
  <2> QED
    BY ZenonT(30), <2>1, <2>7 DEF SnapInv, p
<1>6. ASSUME NEW last \in BOOLEAN, ERR_peek_error_line_data(last) PROVE SnapInv'
  BY ZenonT(30), <1>2, <1>6 DEF ERR_peek_error_line_data, Queue, Num, Slot
<1>7. CASE ERR_save_state \/ ERR_SAVE_STATE_free
  BY ZenonT(30), <1>2, <1>7 DEF ERR_save_state, ERR_SAVE_STATE_free, Queue, Num, Slot
<1>8. CASE UNCHANGED vars
  BY ZenonT(30), <1>2, <1>8 DEF vars, Queue, Num, Slot
<1>9. CASE ERR_pop_to_mark
  BY ZenonT(30), <1>1, <1>9 DEF ERR_pop_to_mark
<1>10. CASE ERR_get_error \/ ERR_get_error_line_data \/ ERR_clear_error \/ ERR_restore_state
  BY ZenonT(30), <1>1, <1>10 DEF ERR_get_error, ERR_get_error_line_data, ERR_clear_error, ERR_restore_state
<1> QED
  BY ZenonT(30), <1>3, <1>4, <1>5, <1>6, <1>7, <1>8, <1>9, <1>10 DEF Next

\* ERR_pop_to_mark goes back to the snapshot.
LEMMA PopReverts ==
    ASSUME TypeOK, TypeOK', SnapInv, ERR_pop_to_mark, snap # <<>>
    PROVE  Packed' = snap[1]
<1>q. Len(Queue) = Num /\ Num \in Nat
  BY SMTT(30), QueueType
<1>1. PICK p : snap = <<p>> /\ Marked(p, Queue)
  BY ZenonT(30) DEF SnapInv
<1>2. PICK k \in 0 .. Num :
        /\ k = 0 \/ Queue[k].mark
        /\ \A i \in k + 1 .. Num : ~Queue[i].mark
        /\ Queue' = [i \in 1 .. k |->
                       IF i = k THEN [Queue[i] EXCEPT !.mark = FALSE] ELSE Queue[i]]
        /\ Num' = k
  BY ZenonT(30), PopResult
<1>3. p \in Seq(Codes \cup {0}) /\ Len(p) \in Nat /\ Len(p) <= Num
  BY SMTT(30), <1>1, <1>q DEF Marked
<1>4. k = Len(p)
  <2>1. ~(k < Len(p))
    BY SMTT(30), <1>1, <1>2, <1>3, <1>q DEF Marked
  <2>2. ~(Len(p) < k)
    BY SMTT(30), <1>1, <1>2, <1>3, <1>q DEF Marked
  <2> QED
    BY SMTT(30), <2>1, <2>2, <1>3, <1>q
<1>5. \A i \in 1 .. k : Queue[i].packed = p[i]
  BY ZenonT(30), <1>1, <1>4 DEF Marked
<1>6. \A i \in 1 .. k : Queue[i] \in Error
  BY SMTT(30), <1>q, QueueType
<1>7. \A i \in 1 .. k : Queue'[i].packed = p[i]
  BY ZenonT(30), <1>2, <1>5, <1>6 DEF Error
<1>8. Packed' = [i \in 1 .. k |-> Queue'[i].packed]
  BY ZenonT(30), <1>2 DEF Packed, Queue
<1>9. Packed' = [i \in 1 .. k |-> p[i]]
  BY ZenonT(30), <1>7, <1>8
<1>10. p = [i \in 1 .. Len(p) |-> p[i]]
  BY SMTT(30), <1>3
<1> QED
  BY ZenonT(30), <1>1, <1>4, <1>9, <1>10

\* Popping to a mark undoes exactly the errors put after it, however often the
\* ring wrapped in between.
THEOREM MarksRevert == Spec => MarkReverts
<1>1. Init => SnapInv
  BY ZenonT(30) DEF Init, SnapInv
<1>2. TypeOK /\ TypeOK' /\ SnapInv /\ [Next]_vars => SnapInv'
  BY ZenonT(30), SnapStep
<1>3. TypeOK /\ TypeOK' /\ SnapInv /\ [Next]_vars
        => [ERR_pop_to_mark /\ snap # <<>> => Packed' = snap[1]]_vars
  BY ZenonT(30), PopReverts
<1> QED
  BY <1>1, <1>2, <1>3, TypeCorrect, PTL DEF Spec, MarkReverts

-----------------------------------------------------------------------------
\* The strings of the errors: how many a set of places has of a text.

\* A finite set of places has finitely many.
LEMMA WithType ==
    ASSUME NEW es, NEW S, IsFiniteSet(S), NEW t
    PROVE  With(es, S, t) \in Nat
<1>1. {s \in S : es[s].data = <<t>>} \in SUBSET S
  BY ZenonT(30)
<1> QED
  BY ZenonT(30), <1>1, FS_Subset, FS_CardinalityType DEF With

\* The places S are those of T and those of U.
Splits(S, T, U) == S = T \cup U /\ T \cap U = {}

\* Places that are split have their strings split.
LEMMA WithParts ==
    ASSUME NEW es, NEW S, IsFiniteSet(S), NEW T, NEW U, Splits(S, T, U), NEW t
    PROVE  /\ With(es, T, t) \in Nat /\ With(es, U, t) \in Nat
           /\ With(es, S, t) = With(es, T, t) + With(es, U, t)
<1> DEFINE A == {s \in T : es[s].data = <<t>>}
           B == {s \in U : es[s].data = <<t>>}
           C == {s \in S : es[s].data = <<t>>}
<1>1. C = A \cup B /\ A \cap B = {} /\ A \in SUBSET S /\ B \in SUBSET S
  BY ZenonT(30) DEF Splits
<1>2. With(es, S, t) = Cardinality(C) /\ With(es, T, t) = Cardinality(A)
      /\ With(es, U, t) = Cardinality(B)
  BY ZenonT(30) DEF With
<1> HIDE DEF A, B, C
<1>3. IsFiniteSet(A) /\ IsFiniteSet(B)
  BY ZenonT(30), <1>1, FS_Subset
<1>4. Cardinality(C) = Cardinality(A) + Cardinality(B) - Cardinality(A \cap B)
  BY ZenonT(30), <1>1, <1>3, FS_Union
<1>5. Cardinality(A \cap B) = 0 /\ Cardinality(A) \in Nat /\ Cardinality(B) \in Nat
  BY ZenonT(30), <1>1, <1>3, FS_EmptySet, FS_CardinalityType
<1> QED
  BY SMTT(30), <1>2, <1>4, <1>5

\* Places without the text have none.
LEMMA WithNone ==
    ASSUME NEW es, NEW S, NEW t, \A s \in S : es[s].data # <<t>>
    PROVE  With(es, S, t) = 0
<1>1. {s \in S : es[s].data = <<t>>} = {}
  BY ZenonT(30)
<1> QED
  BY ZenonT(30), <1>1, FS_EmptySet DEF With

\* A place has one or none.
LEMMA WithOne ==
    ASSUME NEW es, NEW x, NEW t
    PROVE  With(es, {x}, t) = IF es[x].data = <<t>> THEN 1 ELSE 0
<1>1. CASE es[x].data = <<t>>
  <2>1. {s \in {x} : es[s].data = <<t>>} = {x}
    BY ZenonT(30), <1>1
  <2> QED
    BY ZenonT(30), <2>1, <1>1, FS_Singleton DEF With
<1>2. CASE es[x].data # <<t>>
  BY ZenonT(30), <1>2, WithNone
<1> QED
  BY ZenonT(30), <1>1, <1>2

\* Only the slots in gone have other strings in the ring fs than in es.
OnlyIn(gone, es, fs) ==
    /\ gone \in SUBSET (0 .. N - 1)
    /\ \A s \in (0 .. N - 1) \ gone : fs[s].data = es[s].data

\* The ring's strings after those of some slots were replaced.
LEMMA WithReplaced ==
    ASSUME NEW es, NEW fs, NEW gone, OnlyIn(gone, es, fs), NEW t
    PROVE  /\ With(es, 0 .. N - 1, t) \in Nat /\ With(es, gone, t) \in Nat
           /\ With(fs, gone, t) \in Nat
           /\ With(fs, 0 .. N - 1, t) = With(es, 0 .. N - 1, t) - With(es, gone, t) + With(fs, gone, t)
<1>1. PICK all : all = 0 .. N - 1
  BY ZenonT(30)
<1>2. PICK rest : rest = all \ gone
  BY ZenonT(30)
<1>3. IsFiniteSet(all)
  BY SMTT(30), <1>1, NAssumption, FS_Interval
<1>4. Splits(all, gone, rest) /\ \A s \in rest : fs[s].data = es[s].data
  BY ZenonT(30), <1>1, <1>2 DEF Splits, OnlyIn
<1>5. With(es, gone, t) \in Nat /\ With(es, rest, t) \in Nat
      /\ With(es, all, t) = With(es, gone, t) + With(es, rest, t)
  BY SMTT(30), <1>3, <1>4, WithParts
<1>6. With(fs, gone, t) \in Nat /\ With(fs, rest, t) \in Nat
      /\ With(fs, all, t) = With(fs, gone, t) + With(fs, rest, t)
  BY SMTT(30), <1>3, <1>4, WithParts
<1>7. With(es, rest, t) = With(fs, rest, t)
  <2>1. {s \in rest : es[s].data = <<t>>} = {s \in rest : fs[s].data = <<t>>}
    BY ZenonT(30), <1>4
  <2> QED
    BY ZenonT(30), <2>1 DEF With
<1> QED
  BY SMTT(30), <1>1, <1>5, <1>6, <1>7

\* What a text's strings are: the sum that OneOwner states.
Owned(es, sv, tf, t) ==
    With(es, 0 .. N - 1, t) + With(sv, DOMAIN sv, t) + (IF tf = <<t>> THEN 1 ELSE 0)

\* The sum and its parts are numbers.
LEMMA OwnedType ==
    ASSUME TypeOK, NEW t
    PROVE  /\ With(errors, 0 .. N - 1, t) \in Nat /\ With(saved, DOMAIN saved, t) \in Nat
           /\ Owned(errors, saved, to_free, t) \in Nat
<1>1. IsFiniteSet(0 .. N - 1)
  BY SMTT(30), NAssumption, FS_Interval
<1>2. DOMAIN saved = 1 .. Len(saved) /\ Len(saved) \in Nat
  BY SMTT(30) DEF TypeOK
<1>3. IsFiniteSet(DOMAIN saved)
  BY SMTT(30), <1>2, FS_Interval
<1>4. With(errors, 0 .. N - 1, t) \in Nat /\ With(saved, DOMAIN saved, t) \in Nat
  BY ZenonT(30), <1>1, <1>3, WithType
<1> QED
  BY SMTT(30), <1>4 DEF Owned

\* The slots in gone are cleared and their strings freed.
LEMMA ClearedStep ==
    ASSUME TypeOK, OneOwner, NEW gone \in SUBSET (0 .. N - 1),
           heap' = FreeSlots(gone), saved' = saved, to_free' = to_free,
           \A s \in 0 .. N - 1 : errors'[s].data = IF s \in gone THEN <<>> ELSE errors[s].data
    PROVE  OneOwner'
<1> SUFFICES ASSUME NEW t \in Texts PROVE heap'[t] = Owned(errors', saved', to_free', t)
  BY ZenonT(30) DEF OneOwner, Owned
<1>1. heap[t] = Owned(errors, saved, to_free, t)
  BY ZenonT(30) DEF OneOwner, Owned
<1>2. heap'[t] = heap[t] - With(errors, gone, t)
  BY ZenonT(30) DEF FreeSlots
<1>3. /\ With(errors, gone, t) \in Nat
      /\ With(errors', 0 .. N - 1, t) = With(errors, 0 .. N - 1, t) - With(errors, gone, t)
                                          + With(errors', gone, t)
  <2>1. OnlyIn(gone, errors, errors')
    BY ZenonT(30) DEF OnlyIn
  <2> QED
    BY SMTT(30), <2>1, WithReplaced
<1>4. \A s \in gone : errors'[s].data # <<t>>
  OBVIOUS
<1>5. With(errors', gone, t) = 0
  BY ZenonT(30), <1>4, WithNone
<1> QED
  BY SMTT(30), <1>1, <1>2, <1>3, <1>5, OwnedType DEF Owned

\* A text's string that came in place of another.
LEMMA DataStep ==
    ASSUME TypeOK, OneOwner, NEW u \in Texts, err_set_error_data(u)
    PROVE  OneOwner'
<1> SUFFICES ASSUME NEW t \in Texts PROVE heap'[t] = Owned(errors', saved', to_free', t)
  BY ZenonT(30) DEF OneOwner, Owned
<1>1. top \in 0 .. N - 1 /\ errors \in [0 .. N - 1 -> Error]
  BY ZenonT(30) DEF TypeOK
<1>2. saved' = saved /\ to_free' = to_free /\ errors' = [errors EXCEPT ![top].data = <<u>>]
      /\ heap' = [FreeSlots({top}) EXCEPT ![u] = @ + 1]
  BY ZenonT(30) DEF err_set_error_data
<1>3. heap[t] = Owned(errors, saved, to_free, t)
  BY ZenonT(30) DEF OneOwner, Owned
<1>4. heap'[t] = heap[t] - With(errors, {top}, t) + (IF t = u THEN 1 ELSE 0)
  <2>1. FreeSlots({top}) \in [Texts -> {FreeSlots({top})[v] : v \in Texts}]
        /\ FreeSlots({top})[t] = heap[t] - With(errors, {top}, t)
    BY ZenonT(30) DEF FreeSlots
  <2>2. With(errors, {top}, t) \in {0, 1}
    BY ZenonT(30), WithOne
  <2>3. heap[t] \in Nat
    BY ZenonT(30), <1>3, OwnedType
  <2> QED
    BY SMTT(30), <1>2, <2>1, <2>2, <2>3
<1>5. /\ \A s \in (0 .. N - 1) \ {top} : errors'[s].data = errors[s].data
      /\ errors'[top].data = <<u>>
  BY ZenonT(30), <1>1, <1>2 DEF Error
<1>6. OnlyIn({top}, errors, errors')
  BY ZenonT(30), <1>1, <1>5 DEF OnlyIn
<1>7. /\ With(errors, {top}, t) \in Nat
      /\ With(errors', 0 .. N - 1, t) = With(errors, 0 .. N - 1, t) - With(errors, {top}, t)
                                          + With(errors', {top}, t)
  BY SMTT(30), <1>6, WithReplaced
<1>8. With(errors', {top}, t) = IF t = u THEN 1 ELSE 0
  <2>1. With(errors', {top}, t) = IF errors'[top].data = <<t>> THEN 1 ELSE 0
    BY ZenonT(30), WithOne
  <2>2. (<<u>> = <<t>>) <=> (t = u)
    BY ZenonT(30)
  <2> QED
    BY ZenonT(30), <2>1, <2>2, <1>5
<1> QED
  BY SMTT(30), <1>2, <1>3, <1>4, <1>7, <1>8, OwnedType DEF Owned

\* ERR_get_error_line_data: the string changes its owner, and the one kept
\* before is freed.
LEMMA KeptStep ==
    ASSUME TypeOK, OneOwner, ERR_get_error_line_data
    PROVE  OneOwner'
<1> SUFFICES ASSUME NEW t \in Texts PROVE heap'[t] = Owned(errors', saved', to_free', t)
  BY ZenonT(30) DEF OneOwner, Owned
<1> DEFINE slot == (bottom + 1) % N
           data == errors[slot].data
<1>1. slot \in 0 .. N - 1
  BY SMTT(30), NAssumption DEF TypeOK
<1>2. /\ saved' = saved /\ to_free' = (IF data = <<>> THEN to_free ELSE data)
      /\ errors' = [errors EXCEPT ![slot] = err_cleared]
      /\ heap'[t] = IF data # <<>> /\ to_free = <<t>> THEN heap[t] - 1 ELSE heap[t]
  BY ZenonT(30) DEF ERR_get_error_line_data
<1>3. heap[t] = Owned(errors, saved, to_free, t)
  BY ZenonT(30) DEF OneOwner, Owned
<1>4. errors \in [0 .. N - 1 -> Error]
  BY ZenonT(30) DEF TypeOK
<1> HIDE DEF slot
<1>5. /\ \A s \in (0 .. N - 1) \ {slot} : errors'[s].data = errors[s].data
      /\ errors'[slot].data = <<>>
  BY ZenonT(30), <1>1, <1>2, <1>4 DEF err_cleared
<1>6. OnlyIn({slot}, errors, errors')
  BY ZenonT(30), <1>1, <1>5 DEF OnlyIn
<1>7. With(errors', 0 .. N - 1, t) = With(errors, 0 .. N - 1, t) - With(errors, {slot}, t)
                                       + With(errors', {slot}, t)
  BY SMTT(30), <1>6, WithReplaced
<1>8. /\ With(errors', {slot}, t) = 0
      /\ With(errors, {slot}, t) = IF data = <<t>> THEN 1 ELSE 0
  <2>1. \A s \in {slot} : errors'[s].data # <<t>>
    BY SMTT(30), <1>5
  <2> QED
    BY ZenonT(30), <2>1, WithNone, WithOne
<1> HIDE DEF data
<1>9. CASE data = <<>>
  BY SMTT(30), <1>2, <1>3, <1>7, <1>8, <1>9, OwnedType DEF Owned
<1>10. CASE data # <<>>
  BY SMTT(30), <1>2, <1>3, <1>7, <1>8, <1>10, OwnedType DEF Owned
<1> QED
  BY ZenonT(30), <1>9, <1>10

\* ERR_clear_error frees every string of the ring and the one kept for a caller.
LEMMA ClearFrees ==
    ASSUME TypeOK, OneOwner, ERR_clear_error
    PROVE  OneOwner'
<1> SUFFICES ASSUME NEW t \in Texts PROVE heap'[t] = Owned(errors', saved', to_free', t)
  BY ZenonT(30) DEF OneOwner, Owned
<1>1. /\ heap'[t] = heap[t] - With(errors, 0 .. N - 1, t) - (IF to_free = <<t>> THEN 1 ELSE 0)
      /\ errors' = [s \in 0 .. N - 1 |-> err_cleared] /\ to_free' = <<>> /\ saved' = saved
  BY ZenonT(30) DEF ERR_clear_error, FreeSlots
<1>2. heap[t] = Owned(errors, saved, to_free, t)
  BY ZenonT(30) DEF OneOwner, Owned
<1>3. With(errors', 0 .. N - 1, t) = 0
  BY ZenonT(30), <1>1, WithNone DEF err_cleared
<1> QED
  BY SMTT(30), <1>1, <1>2, <1>3, OwnedType DEF Owned

\* ERR_save_state: the strings that were duplicated.
LEMMA SaveFrees ==
    ASSUME TypeOK, OneOwner, ERR_save_state
    PROVE  OneOwner'
<1> SUFFICES ASSUME NEW t \in Texts PROVE heap'[t] = Owned(errors', saved', to_free', t)
  BY ZenonT(30) DEF OneOwner, Owned
<1> DEFINE src == [i \in 1 .. Num |-> errors[Slot(i)]]
<1>1. saved = <<>> /\ errors' = errors /\ to_free' = to_free
  BY ZenonT(30) DEF ERR_save_state
<1>2. PICK kept \in SUBSET HaveData(src) :
        /\ saved' = err_copy(src, kept)
        /\ heap' = [u \in Texts |-> heap[u] + With(src, kept, u)]
  BY ZenonT(30) DEF ERR_save_state
<1>3. heap[t] = Owned(errors, saved, to_free, t)
  BY ZenonT(30) DEF OneOwner, Owned
<1>4. With(saved, DOMAIN saved, t) = 0
  BY SMTT(30), <1>1, WithNone
<1>5. kept \in SUBSET (DOMAIN src) /\ DOMAIN src = 1 .. Num
  BY ZenonT(30) DEF HaveData
<1> HIDE DEF src
<1>6. With(saved', DOMAIN saved', t) = With(src, kept, t)
  <2>1. DOMAIN saved' = DOMAIN src
        /\ \A i \in DOMAIN src : saved'[i].data = IF i \in kept THEN src[i].data ELSE <<>>
    BY ZenonT(30), <1>2 DEF err_copy
  <2>2. {i \in DOMAIN saved' : saved'[i].data = <<t>>} = {i \in kept : src[i].data = <<t>>}
    BY SMTT(30), <2>1, <1>5
  <2> QED
    BY ZenonT(30), <2>2 DEF With
<1>7. With(src, kept, t) \in Nat
  <2>1. Num \in Int
    BY SMTT(30), Ring
  <2>2. IsFiniteSet(1 .. Num)
    BY SMTT(30), <2>1, FS_Interval
  <2>3. IsFiniteSet(kept)
    BY ZenonT(30), <2>2, <1>5, FS_Subset
  <2> QED
    BY ZenonT(30), <2>3, WithType
<1> QED
  BY SMTT(30), <1>1, <1>2, <1>3, <1>4, <1>6, <1>7, OwnedType DEF Owned

\* ERR_restore_state: slot i - 1 has the string of the i-th saved error.
LEMMA RestoreFrees ==
    ASSUME TypeOK, OneOwner, ERR_restore_state
    PROVE  OneOwner'
<1> SUFFICES ASSUME NEW t \in Texts PROVE heap'[t] = Owned(errors', saved', to_free', t)
  BY ZenonT(30) DEF OneOwner, Owned
<1> DEFINE n == Len(saved)
<1>1. n \in Nat /\ n < N /\ DOMAIN saved = 1 .. n /\ N \in Nat
  BY SMTT(30), NAssumption DEF TypeOK
<1>2. saved' = saved /\ to_free' = to_free
  BY ZenonT(30) DEF ERR_restore_state
<1>3. PICK kept \in SUBSET HaveData(saved) :
        /\ errors' = [s \in 0 .. N - 1 |-> IF s < n THEN err_copy(saved, kept)[s + 1] ELSE errors[s]]
        /\ heap' = [u \in Texts |-> FreeSlots(0 .. n - 1)[u] + With(saved, kept, u)]
  BY ZenonT(30) DEF ERR_restore_state
<1>4. heap[t] = Owned(errors, saved, to_free, t)
  BY ZenonT(30) DEF OneOwner, Owned
<1>5. heap'[t] = heap[t] - With(errors, 0 .. n - 1, t) + With(saved, kept, t)
  BY ZenonT(30), <1>3 DEF FreeSlots
<1>6. kept \in SUBSET (1 .. n)
  BY ZenonT(30), <1>1 DEF HaveData
<1>7. \A i \in 1 .. n : err_copy(saved, kept)[i].data = IF i \in kept THEN saved[i].data ELSE <<>>
  BY ZenonT(30), <1>1 DEF err_copy
<1> HIDE DEF n
<1>8. 0 .. n - 1 \in SUBSET (0 .. N - 1)
  BY SMTT(30), <1>1
<1>9. \A s \in (0 .. N - 1) \ (0 .. n - 1) : errors'[s].data = errors[s].data
  BY SMTT(30), <1>1, <1>3
<1>10. /\ With(errors, 0 .. n - 1, t) \in Nat
       /\ With(errors', 0 .. N - 1, t) = With(errors, 0 .. N - 1, t) - With(errors, 0 .. n - 1, t)
                                           + With(errors', 0 .. n - 1, t)
  <2>0. PICK gone : gone = 0 .. n - 1
    BY ZenonT(30)
  <2>1. OnlyIn(gone, errors, errors')
    BY ZenonT(30), <1>8, <1>9, <2>0 DEF OnlyIn
  <2>2. /\ With(errors, gone, t) \in Nat
        /\ With(errors', 0 .. N - 1, t) = With(errors, 0 .. N - 1, t) - With(errors, gone, t)
                                            + With(errors', gone, t)
    BY SMTT(30), <2>1, WithReplaced
  <2> QED
    BY ZenonT(30), <2>0, <2>2
<1> DEFINE A == {i \in kept : saved[i].data = <<t>>}
           B == {s \in 0 .. n - 1 : errors'[s].data = <<t>>}
           f == [i \in A |-> i - 1]
<1>11. \A s \in 0 .. n - 1 : errors'[s].data = IF s + 1 \in kept THEN saved[s + 1].data ELSE <<>>
  BY SMTT(30), <1>1, <1>3, <1>7
<1>12. f \in Bijection(A, B)
  <2>1. A \in SUBSET (1 .. n)
    BY ZenonT(30), <1>6
  <2>2. f \in [A -> B]
    BY SMTT(30), <1>1, <1>11, <2>1
  <2>3. \A i, j \in A : f[i] = f[j] => i = j
    BY SMTT(30), <2>1
  <2>4. \A s \in B : s + 1 \in A /\ f[s + 1] = s
    <3> SUFFICES ASSUME NEW s \in B PROVE s + 1 \in A /\ f[s + 1] = s
      BY ZenonT(30)
    <3>1. s \in 0 .. n - 1 /\ errors'[s].data = <<t>> /\ <<t>> # <<>>
      BY ZenonT(30)
    <3>2. errors'[s].data = IF s + 1 \in kept THEN saved[s + 1].data ELSE <<>>
      BY ZenonT(30), <1>11, <3>1
    <3>3. s \in Int /\ s + 1 \in kept /\ saved[s + 1].data = <<t>>
      BY SMTT(30), <1>1, <3>1, <3>2
    <3> QED
      BY SMTT(30), <3>3
  <2> HIDE DEF A, B, f
  <2> QED
    BY ZenonT(30), <2>2, <2>3, <2>4 DEF Bijection, Injection, Surjection, IsInjective
<1>13. IsFiniteSet(A) /\ Cardinality(A) \in Nat
  <2>1. IsFiniteSet(1 .. n)
    BY SMTT(30), <1>1, FS_Interval
  <2>2. A \in SUBSET (1 .. n)
    BY ZenonT(30), <1>6
  <2> HIDE DEF A
  <2> QED
    BY ZenonT(30), <2>1, <2>2, FS_Subset, FS_CardinalityType
<1>14. Cardinality(B) = Cardinality(A)
  <2> HIDE DEF A, B, f
  <2> QED
    BY ZenonT(30), <1>12, <1>13, FS_Bijection DEF ExistsBijection
<1>15. With(errors', 0 .. n - 1, t) = With(saved, kept, t) /\ With(saved, kept, t) \in Nat
  BY ZenonT(30), <1>13, <1>14 DEF With
<1> HIDE DEF A, B, f
<1> QED
  BY SMTT(30), <1>2, <1>4, <1>5, <1>10, <1>15, OwnedType DEF Owned

\* ERR_SAVE_STATE_free frees the strings of the saved errors.
LEMMA ForgetFrees ==
    ASSUME TypeOK, OneOwner, ERR_SAVE_STATE_free
    PROVE  OneOwner'
<1> SUFFICES ASSUME NEW t \in Texts PROVE heap'[t] = Owned(errors', saved', to_free', t)
  BY ZenonT(30) DEF OneOwner, Owned
<1>1. heap'[t] = heap[t] - With(saved, DOMAIN saved, t) /\ saved' = <<>> /\ errors' = errors
      /\ to_free' = to_free
  BY ZenonT(30) DEF ERR_SAVE_STATE_free
<1>2. heap[t] = Owned(errors, saved, to_free, t)
  BY ZenonT(30) DEF OneOwner, Owned
<1>3. With(saved', DOMAIN saved', t) = 0
  BY SMTT(30), <1>1, WithNone
<1> QED
  BY SMTT(30), <1>1, <1>2, <1>3, OwnedType DEF Owned

\* Every step keeps OneOwner.
LEMMA OwnerStep == TypeOK /\ OneOwner /\ [Next]_vars => OneOwner'
<1> SUFFICES ASSUME TypeOK, OneOwner, [Next]_vars PROVE OneOwner'
  BY ZenonT(30)
<1>1. errors \in [0 .. N - 1 -> Error] /\ top \in 0 .. N - 1 /\ bottom \in 0 .. N - 1
      /\ N \in Nat /\ N > 1
  BY ZenonT(30), NAssumption DEF TypeOK
<1>2. ASSUME NEW c \in Codes, ERR_put_error(c) PROVE OneOwner'
  <2> DEFINE slot == (top + 1) % N
  <2>1. slot \in 0 .. N - 1
    BY SMTT(30), <1>1
  <2>2. /\ heap' = FreeSlots({slot}) /\ saved' = saved /\ to_free' = to_free
        /\ errors' = [errors EXCEPT ![slot] = [packed |-> c, data |-> <<>>, mark |-> FALSE]]
    BY ZenonT(30), <1>2 DEF ERR_put_error
  <2> HIDE DEF slot
  <2>3. \A s \in 0 .. N - 1 : errors'[s].data = IF s \in {slot} THEN <<>> ELSE errors[s].data
    BY ZenonT(30), <1>1, <2>1, <2>2
  <2> QED
    BY ZenonT(30), <2>1, <2>2, <2>3, ClearedStep
<1>3. ASSUME ERR_get_error PROVE OneOwner'
  <2> DEFINE slot == (bottom + 1) % N
  <2>1. slot \in 0 .. N - 1
    BY SMTT(30), <1>1
  <2>2. /\ heap' = FreeSlots({slot}) /\ saved' = saved /\ to_free' = to_free
        /\ errors' = [errors EXCEPT ![slot] = err_cleared]
    BY ZenonT(30), <1>3 DEF ERR_get_error
  <2> HIDE DEF slot
  <2>3. \A s \in 0 .. N - 1 : errors'[s].data = IF s \in {slot} THEN <<>> ELSE errors[s].data
    BY ZenonT(30), <1>1, <2>1, <2>2 DEF err_cleared
  <2> QED
    BY ZenonT(30), <2>1, <2>2, <2>3, ClearedStep
<1>4. ASSUME ERR_pop_to_mark PROVE OneOwner'
  <2>1. PICK k \in 0 .. Num :
          LET gone == {Slot(i) : i \in k + 1 .. Num}
          IN  /\ heap' = FreeSlots(gone) /\ saved' = saved /\ to_free' = to_free
              /\ errors' = [s \in 0 .. N - 1 |->
                              IF s \in gone THEN err_cleared
                              ELSE [errors[s] EXCEPT !.mark = @ /\ ~(k > 0 /\ s = Slot(k))]]
    BY ZenonT(30), <1>4 DEF ERR_pop_to_mark
  <2> DEFINE gone == {Slot(i) : i \in k + 1 .. Num}
  <2>2. gone \in SUBSET (0 .. N - 1)
    BY SMTT(30), <1>1, Ring
  <2>3. \A s \in 0 .. N - 1 : errors'[s].data = IF s \in gone THEN <<>> ELSE errors[s].data
    BY ZenonT(30), <1>1, <2>1 DEF err_cleared, Error
  <2>4. heap' = FreeSlots(gone) /\ saved' = saved /\ to_free' = to_free
    BY ZenonT(30), <2>1
  <2> HIDE DEF gone
  <2> QED
    BY ZenonT(30), <2>2, <2>3, <2>4, ClearedStep
<1>5. ASSUME NEW last \in BOOLEAN, ERR_peek_error_line_data(last) PROVE OneOwner'
  BY ZenonT(30), <1>5 DEF ERR_peek_error_line_data, OneOwner
<1>6. ASSUME ERR_set_mark PROVE OneOwner'
  <2>1. /\ heap' = heap /\ saved' = saved /\ to_free' = to_free
        /\ errors' = [errors EXCEPT ![top].mark = TRUE]
    BY ZenonT(30), <1>6 DEF ERR_set_mark
  <2>2. \A s \in 0 .. N - 1 : errors'[s].data = errors[s].data
    BY ZenonT(30), <1>1, <2>1 DEF Error
  <2>3. ASSUME NEW t \in Texts PROVE With(errors', 0 .. N - 1, t) = With(errors, 0 .. N - 1, t)
    <3>1. {s \in 0 .. N - 1 : errors'[s].data = <<t>>} = {s \in 0 .. N - 1 : errors[s].data = <<t>>}
      BY ZenonT(30), <2>2
    <3> QED
      BY ZenonT(30), <3>1 DEF With
  <2> QED
    BY ZenonT(30), <2>1, <2>3 DEF OneOwner
<1>7. CASE UNCHANGED vars
  BY ZenonT(30), <1>7 DEF vars, OneOwner
<1> QED
  BY ZenonT(30), <1>2, <1>3, <1>4, <1>5, <1>6, <1>7, KeptStep, DataStep, ClearFrees, SaveFrees, RestoreFrees,
     ForgetFrees DEF Next

\* Each data string is owned once, whatever is pushed out, popped, read, saved
\* and restored and whichever copy fails, in a ring of any size: none is freed
\* twice and none is lost (err_clear, to_free and err_copy).
THEOREM StringsHaveOneOwner == Spec => []OneOwner
<1>1. Init => OneOwner
  <2> SUFFICES ASSUME Init, NEW t \in Texts PROVE heap[t] = Owned(errors, saved, to_free, t)
    BY ZenonT(30) DEF OneOwner, Owned
  <2>1. heap[t] = 0 /\ to_free = <<>> /\ saved = <<>> /\ \A s \in 0 .. N - 1 : errors[s].data # <<t>>
    BY ZenonT(30) DEF Init, err_cleared
  <2>2. With(errors, 0 .. N - 1, t) = 0
    BY ZenonT(30), <2>1, WithNone
  <2>3. With(saved, DOMAIN saved, t) = 0
    BY SMTT(30), <2>1, WithNone
  <2> QED
    BY SMTT(30), <2>1, <2>2, <2>3 DEF Owned
<1> QED
  BY <1>1, OwnerStep, TypeCorrect, PTL DEF Spec

=============================================================================
