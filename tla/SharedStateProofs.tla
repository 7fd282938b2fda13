-------------------------- MODULE SharedStateProofs --------------------------
(***************************************************************************)
(* Proofs about state that threads and processes share: the ticket keys of *)
(* an SSL_CTX, for every number of threads, every length of the interval   *)
(* and clocks without a bound; and the random number generator, for every  *)
(* number of processes, clones and threads.                                *)
(***************************************************************************)
EXTENDS TicketKeys, Rand, TLAPS

\* The ticket keys.

Key == [id : Nat, next : Nat]

ThreadState == [at : {"idle", "check", "rotate", "use", "used"},
                op : {"none", "encrypt", "get", "decrypt"},
                now : Nat, ticket : Key, got : Key]

TicketTypeOK ==
  /\ clock \in Nat /\ made \in Nat
  /\ current \in Key /\ prev \in Key
  /\ wk \in [Workers -> ThreadState]
  /\ tickets \subseteq Key

\* The two keys: the previous one is older, and runs out no later than the
\* current one.  It is this order that keeps a rotation from dropping a key
\* whose second interval still runs.
KeysInv ==
  /\ current.id <= made /\ prev.id <= made
  /\ current.id = 0 => current = NoKey
  /\ prev.id = 0 => prev = NoKey
  /\ prev # NoKey => /\ prev.id # current.id
                     /\ current # NoKey
                     /\ current.next # 0
                     /\ prev.next <= current.next

\* What is known of the key of a ticket: it is the current one, or the previous
\* one with its time bumped, or was dropped after its second interval.
TicketInv ==
  \A k \in tickets :
    /\ k.id # 0 /\ k.id <= made
    /\ k.id = current.id => k = current
    /\ k.id = prev.id => k.next # 0 /\ k.next + Interval = prev.next
    /\ k.id \notin retired /\ k.id # current.id /\ k.id # prev.id
         => k.next # 0 /\ k.next + Interval <= clock

\* Both keys are in their time by a reading of the clock.
LiveKeys(now) ==
  /\ current # NoKey
  /\ current.next = 0 \/ current.next > now
  /\ prev = NoKey \/ prev.next > now

\* A thread that is about to use the keys finds them in their time by its own
\* reading of the clock, whatever the others did.
ThreadInv ==
  \A t \in Workers :
    /\ wk[t].now <= clock
    /\ wk[t].op = "decrypt" => wk[t].ticket \in tickets
    /\ wk[t].at = "use" => LiveKeys(wk[t].now)

\* The inductive invariant.
TicketKeysInv == TicketTypeOK /\ KeysInv /\ TicketInv /\ ThreadInv /\ SealsWithLiveKey
                 /\ OldTicketsStayClosed

\* The idle state and the absent key are of their types.
LEMMA NoKeyType == NoKey \in Key /\ IdleWorker \in ThreadState
  BY ZenonT(30) DEF NoKey, Key, IdleWorker, ThreadState

\* TicketInit establishes the invariant.
LEMMA InitTickets == TicketInit => TicketKeysInv
  <1> SUFFICES ASSUME TicketInit PROVE TicketKeysInv
    BY ZenonT(30)
  <1>1. TicketTypeOK
    BY ZenonT(30), NoKeyType DEF TicketInit, TicketTypeOK
  <1>2. KeysInv /\ TicketInv
    BY SMTT(30) DEF TicketInit, KeysInv, TicketInv, NoKey
  <1>3. ThreadInv /\ SealsWithLiveKey /\ OldTicketsStayClosed
    BY SMTT(30) DEF TicketInit, ThreadInv, SealsWithLiveKey, OldTicketsStayClosed, IdleWorker
  <1> QED
    BY ZenonT(30), <1>1, <1>2, <1>3 DEF TicketKeysInv

\* Time passing disturbs nothing: threads keep their old readings.
LEMMA TickKeeps ==
  ASSUME TicketKeysInv, TicketTick
  PROVE  TicketKeysInv'
  <1> USE DEF TicketKeysInv, TicketTick
  <1>1. TicketTypeOK'
    BY SMTT(30) DEF TicketTypeOK
  <1>2. KeysInv'
    BY ZenonT(30) DEF KeysInv
  <1>3. TicketInv'
    BY SMTT(30), IntervalAssumption DEF TicketInv, TicketTypeOK, Key
  <1>4. ThreadInv'
    BY SMTT(30) DEF ThreadInv, LiveKeys, TicketTypeOK, ThreadState
  <1>5. SealsWithLiveKey' /\ OldTicketsStayClosed'
    BY ZenonT(30) DEF SealsWithLiveKey, OldTicketsStayClosed
  <1> QED
    BY ZenonT(30), <1>1, <1>2, <1>3, <1>4, <1>5

\* A step of one thread that leaves keys and tickets alone keeps the invariant
\* if the thread's new state satisfies what is asked of each thread.
LEMMA ThreadStep ==
  ASSUME TicketKeysInv, NEW t \in Workers, NEW s \in ThreadState,
         wk' = [wk EXCEPT ![t] = s],
         UNCHANGED <<clock, current, prev, made, tickets, retired>>,
         s.now <= clock,
         s.op = "decrypt" => s.ticket \in tickets,
         s.at = "use" => LiveKeys(s.now),
         (s.at = "used" /\ s.op # "decrypt") =>
            s.got # NoKey /\ (s.got.next = 0 \/ s.got.next > s.now),
         (s.at = "used" /\ s.op = "decrypt" /\ s.got # NoKey) =>
            s.ticket.next = 0 \/ s.ticket.next + Interval > s.now
  PROVE  TicketKeysInv'
  <1>1. TicketTypeOK'
    BY ZenonT(30) DEF TicketKeysInv, TicketTypeOK
  <1>2. \A u \in Workers : wk'[u] = IF u = t THEN s ELSE wk[u]
    BY ZenonT(30) DEF TicketKeysInv, TicketTypeOK
  <1>3. KeysInv' /\ TicketInv'
    BY ZenonT(30) DEF TicketKeysInv, KeysInv, TicketInv
  <1>4. ThreadInv'
    BY SMTT(30), <1>2 DEF TicketKeysInv, ThreadInv, LiveKeys
  <1>5. SealsWithLiveKey' /\ OldTicketsStayClosed'
    BY ZenonT(30), <1>2 DEF TicketKeysInv, SealsWithLiveKey, OldTicketsStayClosed
  <1> QED
    BY ZenonT(30), <1>1, <1>3, <1>4, <1>5 DEF TicketKeysInv

\* An operation starts with the time of the clock.
LEMMA StartKeeps ==
  ASSUME TicketKeysInv, NEW t \in Workers, Start(t)
  PROVE  TicketKeysInv'
  <1>1. CASE \E op \in {"encrypt", "get"} :
               wk' = [wk EXCEPT ![t] = [IdleWorker EXCEPT !.at = "check", !.op = op, !.now = clock]]
    <2>1. PICK op \in {"encrypt", "get"} :
            wk' = [wk EXCEPT ![t] = [IdleWorker EXCEPT !.at = "check", !.op = op, !.now = clock]]
      BY ZenonT(30), <1>1
    <2> DEFINE s == [IdleWorker EXCEPT !.at = "check", !.op = op, !.now = clock]
    <2>2. s \in ThreadState /\ s.at = "check" /\ s.op # "decrypt" /\ s.now = clock
      BY ZenonT(30), NoKeyType DEF IdleWorker, ThreadState, TicketKeysInv, TicketTypeOK
    <2>3. wk' = [wk EXCEPT ![t] = s] /\ UNCHANGED <<clock, current, prev, made, tickets, retired>>
      BY ZenonT(30), <2>1 DEF Start
    <2>4. s.now <= clock
      BY SMTT(30), <2>2 DEF TicketKeysInv, TicketTypeOK
    <2> HIDE DEF s
    <2> QED
      BY ZenonT(30), <2>2, <2>3, <2>4, ThreadStep
  <1>2. CASE \E k \in tickets :
               wk' = [wk EXCEPT ![t] = [IdleWorker EXCEPT !.at = "check", !.op = "decrypt",
                                                    !.now = clock, !.ticket = k]]
    <2>1. PICK k \in tickets :
            wk' = [wk EXCEPT ![t] = [IdleWorker EXCEPT !.at = "check", !.op = "decrypt",
                                                 !.now = clock, !.ticket = k]]
      BY ZenonT(30), <1>2
    <2> DEFINE s == [IdleWorker EXCEPT !.at = "check", !.op = "decrypt", !.now = clock, !.ticket = k]
    <2>2. s \in ThreadState /\ s.at = "check" /\ s.op = "decrypt" /\ s.now = clock /\ s.ticket = k
      BY ZenonT(30), NoKeyType DEF IdleWorker, ThreadState, TicketKeysInv, TicketTypeOK
    <2>3. wk' = [wk EXCEPT ![t] = s] /\ UNCHANGED <<clock, current, prev, made, tickets, retired>>
      BY ZenonT(30), <2>1 DEF Start
    <2>4. s.now <= clock
      BY SMTT(30), <2>2 DEF TicketKeysInv, TicketTypeOK
    <2> HIDE DEF s
    <2> QED
      BY ZenonT(30), <2>2, <2>3, <2>4, ThreadStep
  <1> QED
    BY ZenonT(30), <1>1, <1>2 DEF Start

\* The read lock: a thread goes on to use keys it found in their time.
LEMMA ReadCheckKeeps ==
  ASSUME TicketKeysInv, NEW t \in Workers, ReadCheck(t)
  PROVE  TicketKeysInv'
  <1> DEFINE s == [wk[t] EXCEPT !.at = IF Fresh(wk[t].now) THEN "use" ELSE "rotate"]
  <1>1. wk[t] \in ThreadState /\ wk \in [Workers -> ThreadState]
    BY ZenonT(30) DEF TicketKeysInv, TicketTypeOK
  <1>2. /\ s \in ThreadState
        /\ s.now = wk[t].now /\ s.op = wk[t].op /\ s.ticket = wk[t].ticket
        /\ s.at # "used" /\ (s.at = "use" => Fresh(s.now))
    BY ZenonT(30), <1>1 DEF ThreadState
  <1>3. wk' = [wk EXCEPT ![t] = s] /\ UNCHANGED <<clock, current, prev, made, tickets, retired>>
    BY ZenonT(30), <1>1 DEF ReadCheck
  <1>4. s.now <= clock /\ (s.op = "decrypt" => s.ticket \in tickets)
    BY ZenonT(30), <1>2 DEF TicketKeysInv, ThreadInv
  <1>5. s.at = "use" => LiveKeys(s.now)
    BY ZenonT(30), <1>2 DEF Fresh, LiveKeys
  <1> HIDE DEF s
  <1> QED
    BY ZenonT(30), <1>2, <1>3, <1>4, <1>5, ThreadStep

\* The second read lock, for a ticket to be sealed: the ticket joins the others
\* with the current key.
LEMMA EncryptKeeps ==
  ASSUME TicketKeysInv, NEW t \in Workers, Encrypt(t)
  PROVE  TicketKeysInv'
  <1> DEFINE s == [wk[t] EXCEPT !.at = "used", !.got = current]
  <1>1. wk[t] \in ThreadState /\ wk \in [Workers -> ThreadState] /\ current \in Key
    BY ZenonT(30) DEF TicketKeysInv, TicketTypeOK
  <1>2. /\ s \in ThreadState
        /\ s.now = wk[t].now /\ s.op = wk[t].op /\ s.op # "decrypt"
        /\ s.at = "used" /\ s.got = current
    BY ZenonT(30), <1>1 DEF ThreadState, Encrypt
  <1>3. wk' = [wk EXCEPT ![t] = s] /\ UNCHANGED <<clock, current, prev, made, retired>>
    BY ZenonT(30), <1>1 DEF Encrypt
  <1>4. \A u \in Workers : wk'[u] = IF u = t THEN s ELSE wk[u]
    BY ZenonT(30), <1>1, <1>3
  <1>5. tickets \subseteq tickets' /\ tickets' \subseteq tickets \cup {current}
    BY ZenonT(30) DEF Encrypt
  <1>6. LiveKeys(s.now) /\ s.now <= clock
    BY ZenonT(30), <1>2 DEF Encrypt, TicketKeysInv, ThreadInv
  <1> HIDE DEF s
  <1>7. TicketTypeOK'
    BY ZenonT(30), <1>1, <1>2, <1>3, <1>5 DEF TicketKeysInv, TicketTypeOK
  <1>8. KeysInv'
    BY ZenonT(30), <1>3 DEF TicketKeysInv, KeysInv
  <1>9. TicketInv'
    <2>1. current.id # 0 /\ current.id <= made /\ current.id # prev.id
      BY SMTT(30), <1>6 DEF LiveKeys, TicketKeysInv, KeysInv, NoKey
    <2>2. /\ clock' = clock /\ current' = current /\ prev' = prev
          /\ made' = made /\ retired' = retired
      BY ZenonT(30), <1>3
    <2>3. SUFFICES ASSUME NEW k \in tickets'
                   PROVE  /\ k.id # 0 /\ k.id <= made
                          /\ k.id = current.id => k = current
                          /\ k.id = prev.id => k.next # 0 /\ k.next + Interval = prev.next
                          /\ k.id \notin retired /\ k.id # current.id /\ k.id # prev.id
                               => k.next # 0 /\ k.next + Interval <= clock
      BY ZenonT(30), <2>2 DEF TicketInv
    <2> QED
      BY ZenonT(30), <1>5, <2>1 DEF TicketKeysInv, TicketInv
  <1>10. ThreadInv'
    BY ZenonT(30), <1>2, <1>3, <1>4, <1>5, <1>6 DEF TicketKeysInv, ThreadInv, LiveKeys
  <1>11. SealsWithLiveKey' /\ OldTicketsStayClosed'
    BY ZenonT(30), <1>2, <1>4, <1>6 DEF TicketKeysInv, SealsWithLiveKey, OldTicketsStayClosed, LiveKeys
  <1> QED
    BY ZenonT(30), <1>7, <1>8, <1>9, <1>10, <1>11 DEF TicketKeysInv

\* The second read lock, for the key itself.
LEMMA GetKeeps ==
  ASSUME TicketKeysInv, NEW t \in Workers, SSL_CTX_get_tlsext_ticket_keys(t)
  PROVE  TicketKeysInv'
  <1> DEFINE s == [wk[t] EXCEPT !.at = "used", !.got = current]
  <1>1. wk[t] \in ThreadState /\ wk \in [Workers -> ThreadState] /\ current \in Key
    BY ZenonT(30) DEF TicketKeysInv, TicketTypeOK
  <1>2. /\ s \in ThreadState
        /\ s.now = wk[t].now /\ s.op = wk[t].op /\ s.op # "decrypt"
        /\ s.at = "used" /\ s.got = current
    BY ZenonT(30), <1>1 DEF ThreadState, SSL_CTX_get_tlsext_ticket_keys
  <1>3. wk' = [wk EXCEPT ![t] = s] /\ UNCHANGED <<clock, current, prev, made, tickets, retired>>
    BY ZenonT(30), <1>1 DEF SSL_CTX_get_tlsext_ticket_keys
  <1>4. s.now <= clock /\ s.got # NoKey /\ (s.got.next = 0 \/ s.got.next > s.now)
    BY ZenonT(30), <1>2 DEF SSL_CTX_get_tlsext_ticket_keys, TicketKeysInv, ThreadInv, LiveKeys
  <1> HIDE DEF s
  <1> QED
    BY ZenonT(30), <1>2, <1>3, <1>4, ThreadStep

\* The second read lock, for a ticket to be opened: a key that is found is in its
\* second interval at the latest.
LEMMA DecryptKeeps ==
  ASSUME TicketKeysInv, NEW t \in Workers, Decrypt(t)
  PROVE  TicketKeysInv'
  <1> DEFINE id == wk[t].ticket.id
             key == IF current.id = id THEN current ELSE IF prev.id = id THEN prev ELSE NoKey
             s == [wk[t] EXCEPT !.at = "used", !.got = key]
  <1>1. /\ wk[t] \in ThreadState /\ wk \in [Workers -> ThreadState]
        /\ current \in Key /\ prev \in Key /\ key \in Key
    BY ZenonT(30), NoKeyType DEF TicketKeysInv, TicketTypeOK
  <1>2. /\ s \in ThreadState
        /\ s.now = wk[t].now /\ s.op = "decrypt" /\ s.ticket = wk[t].ticket
        /\ s.at = "used" /\ s.got = key
    BY ZenonT(30), <1>1 DEF ThreadState, Decrypt
  <1>3. wk' = [wk EXCEPT ![t] = s] /\ UNCHANGED <<clock, current, prev, made, tickets, retired>>
    BY ZenonT(30), <1>1 DEF Decrypt
  <1>4. s.now <= clock /\ s.ticket \in tickets /\ LiveKeys(s.now) /\ s.ticket \in Key /\ s.now \in Nat
    BY ZenonT(30), <1>1, <1>2 DEF TicketKeysInv, ThreadInv, Decrypt, ThreadState
  <1>5. s.got # NoKey => s.ticket.next = 0 \/ s.ticket.next + Interval > s.now
    <2>1. CASE current.id = id
      BY SMTT(30), <1>2, <1>4, <2>1, IntervalAssumption DEF TicketKeysInv, TicketInv, LiveKeys, Key
    <2>2. CASE current.id # id /\ prev.id = id
      <3>1. prev # NoKey
        BY SMTT(30), <1>2, <1>4, <2>2 DEF TicketKeysInv, TicketInv, NoKey
      <3> QED
        BY ZenonT(30), <1>2, <1>4, <2>2, <3>1 DEF TicketKeysInv, TicketInv, LiveKeys
    <2>3. CASE current.id # id /\ prev.id # id
      BY ZenonT(30), <1>2, <2>3
    <2> QED
      BY ZenonT(30), <2>1, <2>2, <2>3
  <1> HIDE DEF s
  <1> QED
    BY ZenonT(30), <1>2, <1>3, <1>4, <1>5, ThreadStep

\* The thread is idle again.
LEMMA FinishKeeps ==
  ASSUME TicketKeysInv, NEW t \in Workers, Finish(t)
  PROVE  TicketKeysInv'
  <1>1. IdleWorker.now <= clock /\ IdleWorker.op # "decrypt" /\ IdleWorker.at = "idle"
    BY SMTT(30) DEF IdleWorker, TicketKeysInv, TicketTypeOK
  <1> QED
    BY ZenonT(30), <1>1, NoKeyType, ThreadStep DEF Finish

\* The write lock.  A thread with an old reading of the clock finds keys that are
\* in their time by it and changes nothing; when it does make a key, the old
\* current key becomes the previous one and no other thread loses a live key.
LEMMA RotateKeeps ==
  ASSUME TicketKeysInv, NEW t \in Workers, Rotate(t)
  PROVE  TicketKeysInv'
  <1> DEFINE now == wk[t].now
             s == [wk[t] EXCEPT !.at = "use"]
  <1>1. /\ wk[t] \in ThreadState /\ wk \in [Workers -> ThreadState]
        /\ current \in Key /\ prev \in Key /\ made \in Nat /\ now \in Nat /\ clock \in Nat
    BY ZenonT(30) DEF TicketKeysInv, TicketTypeOK, ThreadState
  <1>2. /\ s \in ThreadState
        /\ s.now = now /\ s.op = wk[t].op /\ s.ticket = wk[t].ticket /\ s.at = "use"
    BY ZenonT(30), <1>1 DEF ThreadState
  <1>3. wk' = [wk EXCEPT ![t] = s] /\ UNCHANGED <<clock, tickets, retired>>
    BY ZenonT(30), <1>1 DEF Rotate
  <1>4. \A u \in Workers : wk'[u] = IF u = t THEN s ELSE wk[u]
    BY ZenonT(30), <1>1, <1>3
  <1>5. now <= clock /\ (s.op = "decrypt" => s.ticket \in tickets)
    BY ZenonT(30), <1>2 DEF TicketKeysInv, ThreadInv
  <1> HIDE DEF s
  <1>6. SealsWithLiveKey' /\ OldTicketsStayClosed'
    BY ZenonT(30), <1>2, <1>4 DEF TicketKeysInv, SealsWithLiveKey, OldTicketsStayClosed
  <1>7. CASE Expired(now)
    <2>1. /\ made' = made + 1
          /\ current' = [id |-> made + 1, next |-> now + Interval]
          /\ prev' = KeptPrev(IF current # NoKey THEN Bumped(current) ELSE prev, now)
      BY ZenonT(30), <1>7 DEF Rotate
    <2>2. current' \in Key /\ current'.id = made + 1 /\ current'.next = now + Interval
      BY SMTT(30), <1>1, <2>1, IntervalAssumption DEF Key
    <2>3. current # NoKey => /\ Bumped(current) \in Key
                             /\ Bumped(current).id = current.id
                             /\ Bumped(current).next = current.next + Interval
                             /\ current.next # 0 /\ current.next <= now
      BY SMTT(30), <1>1, <1>7, IntervalAssumption DEF Key, Bumped, Expired
    <2>4. \/ prev' = NoKey
          \/ /\ current # NoKey
             /\ prev' = Bumped(current) /\ current.next + Interval > now
      BY SMTT(30), <1>1, <2>1, <2>3, IntervalAssumption
         DEF KeptPrev, TicketKeysInv, KeysInv, Key
    <2>5. current # NoKey /\ prev' = NoKey => current.next + Interval <= now
      <3>1. ASSUME current # NoKey, prev' = NoKey PROVE current.next + Interval <= now
        <4>1. current.id # 0
          BY ZenonT(30), <3>1 DEF TicketKeysInv, KeysInv
        <4>2. Bumped(current) # NoKey
          BY SMTT(30), <2>3, <3>1, <4>1 DEF NoKey
        <4> QED
          BY ZenonT(30), <1>1, <2>1, <2>3, <3>1, <4>2 DEF KeptPrev, Key
      <3> QED
        BY ZenonT(30), <3>1
    <2>6. TicketTypeOK'
      <3>1. prev' \in Key
        BY ZenonT(30), <2>3, <2>4, NoKeyType
      <3>2. wk' \in [Workers -> ThreadState]
        BY ZenonT(30), <1>1, <1>2, <1>3
      <3> QED
        BY SMTT(30), <1>1, <1>3, <2>1, <2>2, <3>1, <3>2 DEF TicketKeysInv, TicketTypeOK
    <2>7. KeysInv'
      <3>1. current.id <= made /\ current.id \in Nat /\ (current # NoKey => current.id # 0)
        BY ZenonT(30), <1>1 DEF TicketKeysInv, KeysInv, Key
      <3>2. current' # NoKey
        BY SMTT(30), <1>1, <2>2 DEF NoKey
      <3>3. CASE prev' = NoKey
        BY SMTT(30), <1>1, <2>1, <2>2, <3>2, <3>3 DEF KeysInv, NoKey
      <3>4. CASE current # NoKey /\ prev' = Bumped(current)
        BY SMTT(30), <1>1, <2>1, <2>2, <2>3, <3>1, <3>2, <3>4, IntervalAssumption DEF KeysInv, Key
      <3> QED
        BY ZenonT(30), <2>4, <3>3, <3>4
    <2>8. TicketInv'
      <3>1. SUFFICES ASSUME NEW k \in tickets
                     PROVE  /\ k.id # 0 /\ k.id <= made'
                            /\ k.id = current'.id => k = current'
                            /\ k.id = prev'.id => k.next # 0 /\ k.next + Interval = prev'.next
                            /\ k.id \notin retired /\ k.id # current'.id /\ k.id # prev'.id
                                 => k.next # 0 /\ k.next + Interval <= clock
        BY ZenonT(30), <1>3 DEF TicketInv
      <3>2. k \in Key
        BY ZenonT(30) DEF TicketKeysInv, TicketTypeOK
      <3>3. /\ k.id # 0 /\ k.id <= made
            /\ k.id = current.id => k = current
            /\ k.id = prev.id => k.next # 0 /\ k.next + Interval = prev.next
            /\ k.id \notin retired /\ k.id # current.id /\ k.id # prev.id
                 => k.next # 0 /\ k.next + Interval <= clock
        BY ZenonT(30) DEF TicketKeysInv, TicketInv
      <3>4. k.id <= made' /\ k.id # current'.id
        BY SMTT(30), <1>1, <2>1, <2>2, <3>2, <3>3 DEF Key
      <3>5. k.id = prev'.id => k.next # 0 /\ k.next + Interval = prev'.next
        BY SMTT(30), <2>3, <2>4, <3>3 DEF NoKey
      <3>6. k.id = current.id => k = current /\ current # NoKey
        BY SMTT(30), <3>3 DEF NoKey
      <3>7. k.id = prev.id => prev # NoKey /\ prev.next <= current.next /\ current # NoKey
        BY SMTT(30), <3>3 DEF NoKey, TicketKeysInv, KeysInv
      <3>8. ASSUME k.id \notin retired, k.id # prev'.id
            PROVE  k.next # 0 /\ k.next + Interval <= clock
        <4>1. CASE k.id = current.id
          BY SMTT(30), <1>1, <1>5, <2>3, <2>4, <2>5, <3>2, <3>6, <3>8, <4>1, IntervalAssumption DEF Key
        <4>2. CASE k.id = prev.id
          BY SMTT(30), <1>1, <1>5, <2>3, <3>2, <3>3, <3>7, <4>2, IntervalAssumption DEF Key
        <4>3. CASE k.id # current.id /\ k.id # prev.id
          BY ZenonT(30), <3>3, <3>8, <4>3
        <4> QED
          BY ZenonT(30), <4>1, <4>2, <4>3
      <3> QED
        BY ZenonT(30), <3>3, <3>4, <3>5, <3>8
    <2>9. ThreadInv'
      <3>1. current' # NoKey
        BY SMTT(30), <1>1, <2>2 DEF NoKey
      <3>2. \A u \in Workers : (u # t /\ wk[u].at = "use") => LiveKeys(wk[u].now)
        BY ZenonT(30) DEF TicketKeysInv, ThreadInv
      <3>3. LiveKeys(now)'
        BY SMTT(30), <1>1, <1>3, <1>4, <1>2, <2>2, <2>3, <2>4, <3>1, IntervalAssumption DEF LiveKeys, Key
      <3>4. ASSUME NEW u \in Workers, u # t, wk[u].at = "use"
            PROVE  /\ current'.next > wk[u].now
                   /\ prev' = NoKey \/ prev'.next > wk[u].now
        <4>1. wk[u].now \in Nat
          BY ZenonT(30), <1>1 DEF ThreadState
        <4>2. current # NoKey /\ current.next > wk[u].now /\ current.next <= now
          BY ZenonT(30), <2>3, <3>2, <3>4 DEF LiveKeys
        <4> QED
          BY SMTT(30), <1>1, <2>2, <2>3, <2>4, <4>1, <4>2, IntervalAssumption DEF Key
      <3> QED
        BY SMTT(30), <1>2, <1>3, <1>4, <1>5, <3>1, <3>3, <3>4 DEF TicketKeysInv, ThreadInv, LiveKeys
    <2> QED
      BY ZenonT(30), <1>6, <2>6, <2>7, <2>8, <2>9 DEF TicketKeysInv
  <1>8. CASE ~Expired(now)
    <2>1. current' = current /\ made' = made /\ prev' = KeptPrev(prev, now)
      BY ZenonT(30), <1>8 DEF Rotate
    <2>2. \/ prev' = prev /\ (prev = NoKey \/ prev.next > now)
          \/ prev' = NoKey /\ prev.next <= now
      BY SMTT(30), <1>1, <2>1 DEF KeptPrev, Key
    <2>3. current # NoKey /\ (current.next = 0 \/ current.next > now)
      BY SMTT(30), <1>1, <1>8 DEF Expired, Key
    <2>4. TicketTypeOK'
      <3>1. prev' \in Key /\ wk' \in [Workers -> ThreadState]
        BY ZenonT(30), <1>1, <1>2, <1>3, <2>2, NoKeyType
      <3> QED
        BY ZenonT(30), <1>1, <1>3, <2>1, <3>1 DEF TicketKeysInv, TicketTypeOK
    <2>5. KeysInv'
      BY SMTT(30), <1>1, <2>1, <2>2 DEF TicketKeysInv, KeysInv, NoKey
    <2>6. TicketInv'
      <3>1. SUFFICES ASSUME NEW k \in tickets
                     PROVE  /\ k.id # 0 /\ k.id <= made
                            /\ k.id = current.id => k = current
                            /\ k.id = prev'.id => k.next # 0 /\ k.next + Interval = prev'.next
                            /\ k.id \notin retired /\ k.id # current.id /\ k.id # prev'.id
                                 => k.next # 0 /\ k.next + Interval <= clock
        BY ZenonT(30), <1>3, <2>1 DEF TicketInv
      <3>2. k \in Key
        BY ZenonT(30) DEF TicketKeysInv, TicketTypeOK
      <3> QED
        BY SMTT(30), <1>1, <1>5, <2>2, <3>2, IntervalAssumption DEF TicketKeysInv, TicketInv, NoKey, Key
    <2>7. ThreadInv'
      BY SMTT(30), <1>2, <1>3, <1>4, <1>5, <2>1, <2>2, <2>3 DEF TicketKeysInv, ThreadInv, LiveKeys
    <2> QED
      BY ZenonT(30), <1>6, <2>4, <2>5, <2>6, <2>7 DEF TicketKeysInv
  <1> QED
    BY ZenonT(30), <1>7, <1>8

\* The application's key replaces both while no thread is at work.
LEMMA SetKeeps ==
  ASSUME TicketKeysInv, SSL_CTX_set_tlsext_ticket_keys
  PROVE  TicketKeysInv'
  <1> USE DEF SSL_CTX_set_tlsext_ticket_keys
  <1>1. /\ current \in Key /\ prev \in Key /\ made \in Nat /\ tickets \subseteq Key
        /\ wk' = wk /\ tickets' = tickets /\ clock' = clock
        /\ made' = made + 1 /\ prev' = NoKey
        /\ current' = [id |-> made + 1, next |-> 0]
        /\ retired' = retired \cup {current.id, prev.id}
    BY ZenonT(30) DEF TicketKeysInv, TicketTypeOK
  <1>2. current' \in Key /\ current'.id = made + 1 /\ current' # NoKey
    BY SMTT(30), <1>1 DEF Key, NoKey
  <1>3. TicketTypeOK'
    BY SMTT(30), <1>1, <1>2, NoKeyType DEF TicketKeysInv, TicketTypeOK
  <1>4. KeysInv'
    BY SMTT(30), <1>1, <1>2 DEF KeysInv, NoKey
  <1>5. TicketInv'
    BY SMTT(30), <1>1, <1>2 DEF TicketKeysInv, TicketInv, NoKey, Key
  <1>6. ThreadInv' /\ SealsWithLiveKey' /\ OldTicketsStayClosed'
    BY ZenonT(30), <1>1 DEF TicketKeysInv, ThreadInv, SealsWithLiveKey, OldTicketsStayClosed
  <1> QED
    BY ZenonT(30), <1>3, <1>4, <1>5, <1>6 DEF TicketKeysInv

\* Every step keeps the invariant.
LEMMA NextKeeps == TicketKeysInv /\ [TicketNext]_ticket_vars => TicketKeysInv'
  <1> SUFFICES ASSUME TicketKeysInv, [TicketNext]_ticket_vars PROVE TicketKeysInv'
    BY ZenonT(30)
  <1>1. CASE UNCHANGED ticket_vars
    BY ZenonT(30), <1>1 DEF ticket_vars, TicketKeysInv, TicketTypeOK, KeysInv, TicketInv, ThreadInv, LiveKeys,
                SealsWithLiveKey, OldTicketsStayClosed
  <1> QED
    BY ZenonT(30), <1>1, TickKeeps, StartKeeps, ReadCheckKeeps, RotateKeeps, EncryptKeeps,
       GetKeeps, DecryptKeeps, FinishKeeps, SetKeeps DEF TicketNext

\* The invariant holds in every behaviour.
THEOREM TicketKeysInvariant == TicketSpec => []TicketKeysInv
  BY InitTickets, NextKeeps, PTL DEF TicketSpec

\* ssl_encrypt_ticket_with_cipher_ctx always finds a key, in its time by the
\* thread's reading of the clock: for every number of threads and any delays
\* between the three locks.
THEOREM SealsWithLiveKeyAlways == TicketSpec => []SealsWithLiveKey
  <1>1. TicketKeysInv => SealsWithLiveKey
    BY ZenonT(30) DEF TicketKeysInv
  <1> QED
    BY <1>1, TicketKeysInvariant, PTL

\* ssl_decrypt_ticket_with_ticket_keys never opens a ticket after the second
\* interval of its key.
THEOREM OldTicketsStayClosedAlways == TicketSpec => []OldTicketsStayClosed
  <1>1. TicketKeysInv => OldTicketsStayClosed
    BY ZenonT(30) DEF TicketKeysInv
  <1> QED
    BY <1>1, TicketKeysInvariant, PTL

\* Until then a ticket can be opened: no rotation, early, late or with an old
\* reading of the clock, pushes its key out.
THEOREM TicketsLastAnIntervalAlways == TicketSpec => []TicketsLastAnInterval
  <1>1. TicketKeysInv => TicketsLastAnInterval
    <2> SUFFICES ASSUME TicketKeysInv, NEW t \in Workers,
                        wk[t].at = "use", wk[t].op = "decrypt",
                        wk[t].ticket.id \notin retired,
                        wk[t].ticket.next = 0 \/ clock < wk[t].ticket.next + Interval
                 PROVE  wk[t].ticket.id \in {current.id, prev.id}
      BY ZenonT(30) DEF TicketsLastAnInterval
    <2>1. wk[t].ticket \in tickets /\ wk[t].ticket \in Key /\ clock \in Nat
      BY ZenonT(30) DEF TicketKeysInv, ThreadInv, TicketTypeOK
    <2> QED
      BY SMTT(30), <2>1, IntervalAssumption DEF TicketKeysInv, TicketInv, Key
  <1> QED
    BY <1>1, TicketKeysInvariant, PTL

-----------------------------------------------------------------------------
\* The random number generator.

Blocks == Nat \X Nat

Generators == [seed : Nat, n : Nat, calls : Nat, fork_generation : Nat, unsafe : BOOLEAN, sgn : Nat]

CallPcs == {"idle", "gone", "fork_write", "additional", "generate", "check"}

Calls == [pc : CallPcs, gen : Nat, unsafe : BOOLEAN, sgn : Nat, add : Nat, out : SUBSET Blocks]

Memories == [flag : {0, 1}, gen : Nat, unsafe : BOOLEAN, sgn : Nat,
             tls : [Threads -> Generators], th : [Threads -> Calls]]

\* The generation that the next call of get_fork_generation will return: the
\* same for the whole life of an address space.
Generation(m) == IF m.flag = 0 THEN m.gen + 1 ELSE m.gen

\* The code takes a duplicate of the generator to be noticed, and runs it without
\* additional data.
NoticesCopies(gen, unsafe) ==
    ~FastRdrand /\ ((Snapsafe # "failed" /\ gen # 0) \/ unsafe)

\* What thread t of an address space may still return: what its generator would
\* produce next, where no reseed will come first, and what the call under way
\* is about to produce or has produced.
Ahead(m, t, b) ==
    LET s == m.tls[t]
    IN  /\ NoticesCopies(s.fork_generation, s.unsafe)
        /\ s.fork_generation = Generation(m) /\ s.sgn = m.sgn
        /\ b[1] = s.seed /\ b[2] > s.n

UnderWay(m, t, b) ==
    LET c == m.th[t]
    IN  /\ c.sgn = m.sgn
        /\ \/ c.pc = "generate" /\ c.add # 0 /\ b[1] = c.add
           \/ c.pc = "check" /\ b \in c.out

MayReturn(m, t, b) == Ahead(m, t, b) \/ UnderWay(m, t, b)

\* The memory itself, and one thread's part of it, when entropy was drawn e times.
SharedInv(m) ==
    /\ ~WipeOnFork => m.flag = 1 /\ m.gen = 0
    /\ Snapsafe # "success" => m.sgn = 0

GeneratorInv(m, t, e) ==
    LET s == m.tls[t]
    IN  /\ s.seed <= e
        /\ s.fork_generation <= m.gen
        /\ s.sgn <= m.sgn
        /\ s.unsafe => m.unsafe

CallInv(m, t, e) ==
    LET s == m.tls[t]
        c == m.th[t]
    IN  /\ c.add <= e
        /\ \A b \in c.out : b[1] <= e
        /\ c.gen <= m.gen
        /\ c.sgn <= m.sgn
        /\ c.unsafe => m.unsafe
        /\ c.pc \in {"additional", "generate"} =>
             c.gen = Generation(m) \/ (Snapsafe = "success" /\ s.sgn < m.sgn)
        /\ c.pc = "generate" /\ c.add = 0 => NoticesCopies(c.gen, c.unsafe)
        /\ c.pc = "check" /\ c.sgn = m.sgn => \A b \in c.out : ~Ahead(m, t, b)

MemoryInv(m, e) ==
    /\ SharedInv(m)
    /\ \A t \in Threads : GeneratorInv(m, t, e) /\ CallInv(m, t, e)

Owns(p, t, b) == p \in Alive /\ MayReturn(mem[p], t, b)

\* No block may still be returned by two threads, of one address space or of two,
\* and none that was returned may be returned again.
Exclusive ==
    \A p, q \in Procs, t, u \in Threads, b \in Blocks :
        Owns(p, t, b) /\ Owns(q, u, b) => p = q /\ t = u

NoneTwice == \A p \in Procs, t \in Threads, b \in returned : ~Owns(p, t, b)

RandTypeOK ==
    /\ mem \in [Procs -> Memories \cup {NULL}]
    /\ entropy \in Nat
    /\ returned \in SUBSET Blocks

RandInv ==
    /\ \A p \in Alive : MemoryInv(mem[p], entropy)
    /\ \A b \in returned : b[1] <= entropy
    /\ Exclusive
    /\ NoneTwice

\* The records of the memory and what the operators above read of them.
LEMMA MemoryParts ==
    ASSUME NEW m \in Memories, NEW t \in Threads
    PROVE  /\ m.flag \in {0, 1} /\ m.gen \in Nat /\ m.unsafe \in BOOLEAN /\ m.sgn \in Nat
           /\ m.tls \in [Threads -> Generators] /\ m.th \in [Threads -> Calls]
           /\ m.tls[t] \in Generators /\ m.th[t] \in Calls
           /\ Generation(m) \in Nat /\ m.gen <= Generation(m)
           /\ m.tls[t].seed \in Nat /\ m.tls[t].n \in Nat /\ m.tls[t].sgn \in Nat
           /\ m.tls[t].fork_generation \in Nat /\ m.tls[t].unsafe \in BOOLEAN
           /\ m.th[t].gen \in Nat /\ m.th[t].sgn \in Nat /\ m.th[t].add \in Nat
           /\ m.th[t].unsafe \in BOOLEAN /\ m.th[t].out \in SUBSET Blocks
    BY SMTT(30) DEF Memories, Generators, Calls, Generation

\* A thread that a step does not concern keeps its invariant and its blocks.
LEMMA Bystander ==
    ASSUME NEW m \in Memories, NEW k \in Memories, NEW e \in Nat, NEW f \in Nat, e <= f,
           NEW t \in Threads, k.tls[t] = m.tls[t], k.th[t] = m.th[t],
           Generation(k) = Generation(m), m.gen <= k.gen, k.sgn = m.sgn, m.unsafe => k.unsafe,
           GeneratorInv(m, t, e), CallInv(m, t, e)
    PROVE  /\ GeneratorInv(k, t, f) /\ CallInv(k, t, f)
           /\ \A b \in Blocks : MayReturn(k, t, b) <=> MayReturn(m, t, b)
<1>1. \A b : Ahead(k, t, b) <=> Ahead(m, t, b)
  BY ZenonT(30) DEF Ahead
<1>2. \A b : UnderWay(k, t, b) <=> UnderWay(m, t, b)
  BY ZenonT(30) DEF UnderWay
<1>3. GeneratorInv(k, t, f)
  BY SMTT(30), MemoryParts DEF GeneratorInv
<1>4. m.th[t].out \in SUBSET Blocks
  BY ZenonT(30), MemoryParts
<1>5. \A b \in m.th[t].out : b[1] \in Nat
  BY ZenonT(30), <1>4 DEF Blocks
<1>6. CallInv(k, t, f)
  BY SMTT(30), <1>1, <1>5, MemoryParts DEF CallInv
<1> QED
  BY ZenonT(30), <1>1, <1>2, <1>3, <1>6 DEF MayReturn

\* A step of one thread is a matter of that thread.
LEMMA OneCall ==
    ASSUME NEW m \in Memories, NEW k \in Memories, NEW e \in Nat, NEW f \in Nat, e <= f,
           NEW t \in Threads,
           \A u \in Threads \ {t} : k.tls[u] = m.tls[u] /\ k.th[u] = m.th[u],
           Generation(k) = Generation(m), m.gen <= k.gen, k.sgn = m.sgn, m.unsafe => k.unsafe,
           MemoryInv(m, e), SharedInv(k), GeneratorInv(k, t, f), CallInv(k, t, f)
    PROVE  /\ MemoryInv(k, f)
           /\ \A u \in Threads \ {t}, b \in Blocks : MayReturn(k, u, b) => MayReturn(m, u, b)
<1>1. ASSUME NEW u \in Threads, u # t
      PROVE  /\ GeneratorInv(k, u, f) /\ CallInv(k, u, f)
             /\ \A b \in Blocks : MayReturn(k, u, b) => MayReturn(m, u, b)
  <2>1. k.tls[u] = m.tls[u] /\ k.th[u] = m.th[u]
    BY ZenonT(30), <1>1
  <2>2. GeneratorInv(m, u, e) /\ CallInv(m, u, e)
    BY ZenonT(30) DEF MemoryInv
  <2> QED
    BY ZenonT(30), <2>1, <2>2, Bystander
<1> QED
  BY ZenonT(30), <1>1 DEF MemoryInv

\* The invariant of a memory does not depend on how much entropy was drawn since.
LEMMA DrawnLater ==
    ASSUME NEW m \in Memories, NEW e \in Nat, NEW f \in Nat, e <= f, MemoryInv(m, e)
    PROVE  MemoryInv(m, f)
<1>1. ASSUME NEW t \in Threads
      PROVE  GeneratorInv(m, t, f) /\ CallInv(m, t, f)
  <2>1. GeneratorInv(m, t, e) /\ CallInv(m, t, e)
    BY ZenonT(30) DEF MemoryInv
  <2>2. m.gen <= m.gen
    BY SMTT(30), MemoryParts
  <2> QED
    BY SMTT(30), <2>1, <2>2, Bystander
<1> QED
  BY ZenonT(30), <1>1 DEF MemoryInv

\* What a thread may still return comes from entropy that was drawn.
LEMMA DrawnBefore ==
    ASSUME NEW m \in Memories, NEW e \in Nat, MemoryInv(m, e),
           NEW t \in Threads, NEW b \in Blocks, MayReturn(m, t, b)
    PROVE  b[1] <= e
<1>1. GeneratorInv(m, t, e) /\ CallInv(m, t, e)
  BY ZenonT(30) DEF MemoryInv
<1> QED
  BY ZenonT(30), <1>1 DEF MayReturn, Ahead, UnderWay, GeneratorInv, CallInv

\* One memory changes, and what its threads may return afterwards they might
\* have returned before, or it comes from entropy that one of them has just drawn.
LEMMA OneMemory ==
    ASSUME RandTypeOK, RandInv, NEW p \in Procs, NEW k \in Memories,
           mem' = [mem EXCEPT ![p] = k], entropy' \in Nat, entropy <= entropy',
           returned' = returned, MemoryInv(k, entropy'),
           \A u \in Threads, b \in Blocks :
               MayReturn(k, u, b) => Owns(p, u, b) \/ b[1] > entropy,
           \A u, v \in Threads, b \in Blocks :
               MayReturn(k, u, b) /\ MayReturn(k, v, b) /\ b[1] > entropy => u = v
    PROVE  RandTypeOK' /\ RandInv'
<1>1. RandTypeOK'
  BY ZenonT(30) DEF RandTypeOK
<1>2. \A q \in Procs : q # p => mem'[q] = mem[q]
  BY ZenonT(30) DEF RandTypeOK
<1>3. mem'[p] = k
  BY ZenonT(30) DEF RandTypeOK
<1>4. \A q \in Procs : q \in Alive => mem[q] \in Memories
  BY ZenonT(30) DEF RandTypeOK, Alive
<1>5. ASSUME NEW q \in Procs, q \in Alive'
      PROVE  MemoryInv(mem'[q], entropy')
  <2>1. CASE q = p
    BY ZenonT(30), <2>1, <1>3
  <2>2. CASE q # p
    <3>1. q \in Alive /\ mem'[q] = mem[q]
      BY ZenonT(30), <2>2, <1>2, <1>5 DEF Alive
    <3>2. MemoryInv(mem[q], entropy) /\ mem[q] \in Memories /\ entropy \in Nat
      BY ZenonT(30), <3>1, <1>4 DEF RandInv, RandTypeOK
    <3> QED
      BY ZenonT(30), <3>1, <3>2, DrawnLater
  <2> QED
    BY ZenonT(30), <2>1, <2>2
<1>6. \A b \in returned : b[1] \in Nat
  BY ZenonT(30) DEF RandTypeOK, Blocks
<1>7. \A b \in returned' : b[1] <= entropy'
  BY SMTT(30), <1>6 DEF RandInv, RandTypeOK
<1>8. ASSUME NEW q \in Procs, NEW u \in Threads, NEW b \in Blocks, Owns(q, u, b)
      PROVE  b[1] <= entropy
  BY ZenonT(30), <1>8, <1>4, DrawnBefore DEF Owns, RandInv, RandTypeOK
<1>9. ASSUME NEW q \in Procs, NEW u \in Threads, NEW b \in Blocks, Owns(q, u, b)'
      PROVE  Owns(q, u, b) \/ (q = p /\ MayReturn(k, u, b) /\ b[1] > entropy)
  <2>1. CASE q = p
    BY ZenonT(30), <2>1, <1>3, <1>9 DEF Owns
  <2>2. CASE q # p
    BY ZenonT(30), <2>2, <1>2, <1>9 DEF Owns, Alive
  <2> QED
    BY ZenonT(30), <2>1, <2>2
<1>10. \A b \in Blocks : b[1] \in Nat
  BY ZenonT(30) DEF Blocks
<1>11. entropy \in Nat
  BY ZenonT(30) DEF RandTypeOK
<1>12. Exclusive'
  <2> SUFFICES ASSUME NEW q \in Procs, NEW r \in Procs, NEW u \in Threads, NEW v \in Threads,
                      NEW b \in Blocks, Owns(q, u, b)', Owns(r, v, b)'
               PROVE  q = r /\ u = v
    BY Zenon DEF Exclusive, Owns, Alive
  <2>1. Owns(q, u, b) \/ (q = p /\ MayReturn(k, u, b) /\ b[1] > entropy)
    BY ZenonT(30), <1>9
  <2>2. Owns(r, v, b) \/ (r = p /\ MayReturn(k, v, b) /\ b[1] > entropy)
    BY ZenonT(30), <1>9
  <2>3. CASE b[1] > entropy
    BY SMTT(30), <2>1, <2>2, <2>3, <1>8, <1>10, <1>11
  <2>4. CASE ~(b[1] > entropy)
    BY ZenonT(30), <2>1, <2>2, <2>4 DEF RandInv, Exclusive
  <2> QED
    BY ZenonT(30), <2>3, <2>4
<1>13. NoneTwice'
  <2> SUFFICES ASSUME NEW q \in Procs, NEW u \in Threads, NEW b \in returned, Owns(q, u, b)'
               PROVE  FALSE
    BY ZenonT(30) DEF NoneTwice, Owns, Alive
  <2>1. b \in Blocks /\ b[1] <= entropy
    BY ZenonT(30) DEF RandTypeOK, RandInv
  <2>2. Owns(q, u, b)
    BY SMTT(30), <2>1, <1>9, <1>10, <1>11
  <2> QED
    BY ZenonT(30), <2>2 DEF RandInv, NoneTwice
<1> QED
  BY ZenonT(30), <1>1, <1>5, <1>7, <1>12, <1>13 DEF RandInv, Alive

\* An address space that exists has a memory that satisfies the invariant.
LEMMA OfAlive ==
    ASSUME RandTypeOK, RandInv, NEW p \in Procs, p \in Alive
    PROVE  mem[p] \in Memories /\ MemoryInv(mem[p], entropy) /\ SharedInv(mem[p]) /\ entropy \in Nat
    BY ZenonT(30) DEF RandTypeOK, RandInv, Alive, MemoryInv

\* The start.
LEMMA RandStart == RandInit => RandTypeOK /\ RandInv
<1> SUFFICES ASSUME RandInit PROVE RandTypeOK /\ RandInv
  BY ZenonT(30)
<1> DEFINE m == [flag |-> 1, gen |-> IF WipeOnFork THEN 1 ELSE 0, unsafe |-> FALSE,
                 sgn |-> IF Snapsafe = "success" THEN 1 ELSE 0,
                 tls |-> [t \in Threads |-> NoState], th |-> [t \in Threads |-> Idle]]
<1>1. NoState \in Generators /\ Idle \in Calls
  BY ZenonT(30) DEF NoState, Idle, Generators, Calls, CallPcs
<1>2. m \in Memories
  BY ZenonT(30), <1>1 DEF Memories
<1>3. \A t \in Threads : m.tls[t] = NoState /\ m.th[t] = Idle
  BY ZenonT(30)
<1>4. m.flag = 1 /\ m.unsafe = FALSE /\ m.gen \in Nat /\ m.sgn \in Nat
  BY ZenonT(30)
<1>5. SharedInv(m)
  BY ZenonT(30) DEF SharedInv
<1> HIDE DEF m
<1>6. \A t \in Threads : GeneratorInv(m, t, 0) /\ CallInv(m, t, 0)
  BY SMTT(30), <1>3, <1>4 DEF GeneratorInv, CallInv, NoState, Idle
<1>7. MemoryInv(m, 0)
  BY ZenonT(30), <1>5, <1>6 DEF MemoryInv
<1>8. \A t \in Threads, b \in Blocks : ~MayReturn(m, t, b)
  BY SMTT(30), <1>3 DEF MayReturn, Ahead, UnderWay, NoticesCopies, NoState, Idle
<1>9. mem \in [Procs -> Memories \cup {NULL}] /\ entropy = 0 /\ returned = {}
  BY ZenonT(30), <1>2 DEF RandInit, m
<1>10. \A p \in Alive : mem[p] = m
  BY ZenonT(30) DEF RandInit, m, Alive
<1>11. \A p \in Procs, t \in Threads, b \in Blocks : ~Owns(p, t, b)
  BY ZenonT(30), <1>8, <1>10 DEF Owns
<1> QED
  BY ZenonT(30), <1>7, <1>9, <1>10, <1>11 DEF RandTypeOK, RandInv, Exclusive, NoneTwice

\* The child of a fork may return nothing that was drawn before: its page is
\* wiped, or the kernel has no such page and the generator takes additional data.
LEMMA RandFork ==
    ASSUME RandTypeOK, RandInv, NEW p \in Procs, NEW q \in Procs, NEW t \in Threads, fork(p, q, t)
    PROVE  RandTypeOK' /\ RandInv'
<1> DEFINE m == mem[p]
           th == [u \in Threads |-> IF u = t THEN Idle ELSE [Idle EXCEPT !.pc = "gone"]]
           child == [m EXCEPT !.th = th]
           k == IF WipeOnFork THEN Wiped(child) ELSE child
<1>1. p \in Alive /\ ~m.unsafe
  BY ZenonT(30) DEF fork, Calling
<1>2. m \in Memories /\ MemoryInv(m, entropy) /\ SharedInv(m) /\ entropy \in Nat
  BY ZenonT(30), <1>1, OfAlive
<1>3. mem' = [mem EXCEPT ![q] = k] /\ UNCHANGED <<entropy, returned>>
  BY ZenonT(30) DEF fork
<1> HIDE DEF m
<1>4. th \in [Threads -> Calls]
  BY ZenonT(30) DEF Idle, Calls, CallPcs
<1>5. \A u \in Threads : th[u].pc \in {"idle", "gone"} /\ th[u].gen = 0 /\ th[u].sgn = 0
                         /\ th[u].add = 0 /\ th[u].out = {} /\ th[u].unsafe = FALSE
  BY ZenonT(30) DEF Idle
<1> HIDE DEF th
<1>6. /\ k \in Memories /\ k.gen = m.gen /\ k.unsafe = FALSE /\ k.sgn = m.sgn
      /\ k.tls = m.tls /\ k.th = th
      /\ k.flag = IF WipeOnFork THEN 0 ELSE m.flag
  BY ZenonT(30), <1>1, <1>2, <1>4, KernelAssumption DEF Wiped, Memories
<1> HIDE DEF k
<1>7. m.gen \in Nat /\ m.sgn \in Nat
  BY ZenonT(30), <1>2 DEF Memories
<1>8. SharedInv(k)
  BY ZenonT(30), <1>2, <1>6 DEF SharedInv
<1>9. \A u \in Threads : GeneratorInv(m, u, entropy)
  BY ZenonT(30), <1>2 DEF MemoryInv
<1>10. \A u \in Threads : GeneratorInv(k, u, entropy)
  BY ZenonT(30), <1>1, <1>6, <1>9 DEF GeneratorInv
<1>11. \A u \in Threads : CallInv(k, u, entropy)
  BY SMTT(30), <1>2, <1>5, <1>6, <1>7 DEF CallInv
<1>12. \A u \in Threads, b \in Blocks : ~MayReturn(k, u, b)
  <2> SUFFICES ASSUME NEW u \in Threads, NEW b \in Blocks, MayReturn(k, u, b) PROVE FALSE
    BY ZenonT(30)
  <2>1. ~UnderWay(k, u, b)
    BY ZenonT(30), <1>5, <1>6 DEF UnderWay
  <2>2. Ahead(k, u, b)
    BY ZenonT(30), <2>1 DEF MayReturn
  <2>3. k.tls[u].fork_generation \in Nat
    BY ZenonT(30), <1>6, MemoryParts
  <2>4. k.tls[u].unsafe = FALSE
    BY ZenonT(30), <1>6, <1>10, MemoryParts DEF GeneratorInv
  <2>5. k.tls[u].fork_generation <= m.gen
    BY ZenonT(30), <1>6, <1>10 DEF GeneratorInv
  <2>6. CASE WipeOnFork
    BY SMTT(30), <2>2, <2>3, <2>5, <2>6, <1>6, <1>7 DEF Ahead, Generation
  <2>7. CASE ~WipeOnFork
    BY SMTT(30), <2>2, <2>3, <2>4, <2>5, <2>7, <1>2 DEF Ahead, NoticesCopies, SharedInv
  <2> QED
    BY ZenonT(30), <2>6, <2>7
<1>13. MemoryInv(k, entropy)
  BY ZenonT(30), <1>8, <1>10, <1>11 DEF MemoryInv
<1>14. entropy' \in Nat /\ entropy <= entropy' /\ returned' = returned /\ entropy' = entropy
  BY SMTT(30), <1>2, <1>3
<1> QED
  BY ZenonT(30), <1>3, <1>6, <1>12, <1>13, <1>14, OneMemory

\* The clone of a machine may return nothing that was drawn before: its
\* generation is another, or the generator takes additional data.
LEMMA RandSnapshot ==
    ASSUME RandTypeOK, RandInv, NEW p \in Procs, NEW q \in Procs, snapshot(p, q), ~blind'
    PROVE  RandTypeOK' /\ RandInv'
<1> DEFINE m == mem[p]
           copy == [m EXCEPT !.sgn = IF Snapsafe = "success" THEN @ + 1 ELSE 0]
<1>1. p \in Alive
  BY ZenonT(30) DEF snapshot
<1>2. m \in Memories /\ MemoryInv(m, entropy) /\ SharedInv(m) /\ entropy \in Nat
  BY ZenonT(30), <1>1, OfAlive
<1>3. PICK wiped \in BOOLEAN :
        /\ (wiped => WipeOnFork) /\ ~Unnoticed(m, wiped)
        /\ mem' = [mem EXCEPT ![q] = IF wiped THEN Wiped(copy) ELSE copy]
  BY ZenonT(30) DEF snapshot
<1> DEFINE k == IF wiped THEN Wiped(copy) ELSE copy
<1>4. /\ Snapsafe # "success" => \A t \in Threads : m.th[t].pc \in {"idle", "gone"}
      /\ Snapsafe # "success" /\ ~wiped /\ ~FastRdrand
            => ~m.unsafe /\ (Snapsafe = "unsupported" => ~WipeOnFork)
  BY ZenonT(30), <1>3 DEF Unnoticed
<1>5. UNCHANGED <<entropy, returned>>
  BY ZenonT(30) DEF snapshot
<1> HIDE DEF m
<1>6. m.gen \in Nat /\ m.sgn \in Nat /\ m.flag \in {0, 1} /\ m.unsafe \in BOOLEAN
  BY ZenonT(30), <1>2 DEF Memories
<1>7. /\ k \in Memories /\ k.gen = m.gen /\ k.unsafe = m.unsafe
      /\ k.sgn = IF Snapsafe = "success" THEN m.sgn + 1 ELSE 0
      /\ k.tls = m.tls /\ k.th = m.th
      /\ k.flag = IF wiped THEN 0 ELSE m.flag
  <2>1. /\ copy \in Memories /\ copy.gen = m.gen /\ copy.unsafe = m.unsafe
        /\ copy.sgn = IF Snapsafe = "success" THEN m.sgn + 1 ELSE 0
        /\ copy.tls = m.tls /\ copy.th = m.th /\ copy.flag = m.flag
    BY SMTT(30), <1>2, <1>6 DEF Memories
  <2> HIDE DEF copy
  <2>2. CASE wiped
    BY ZenonT(30), <2>1, <2>2 DEF Wiped, Memories
  <2>3. CASE ~wiped
    BY ZenonT(30), <2>1, <2>3
  <2> QED
    BY ZenonT(30), <2>2, <2>3
<1> HIDE DEF copy, k
<1>8. SharedInv(k)
  BY ZenonT(30), <1>2, <1>3, <1>7 DEF SharedInv
<1>9. \A u \in Threads : GeneratorInv(m, u, entropy) /\ CallInv(m, u, entropy)
  BY ZenonT(30), <1>2 DEF MemoryInv
<1>10. m.sgn <= k.sgn /\ (Snapsafe = "success" => m.sgn < k.sgn)
  BY SMTT(30), <1>2, <1>6, <1>7, KernelAssumption DEF SharedInv
<1>11. ASSUME NEW u \in Threads
       PROVE  /\ GeneratorInv(k, u, entropy) /\ CallInv(k, u, entropy)
              /\ \A b \in Blocks : ~MayReturn(k, u, b)
  <2>1. GeneratorInv(m, u, entropy) /\ CallInv(m, u, entropy)
    BY ZenonT(30), <1>9
  <2>2. /\ m.tls[u].sgn \in Nat /\ m.th[u].sgn \in Nat /\ m.tls[u].unsafe \in BOOLEAN
        /\ m.tls[u].fork_generation \in Nat
    BY ZenonT(30), <1>2, MemoryParts
  <2>3. k.sgn \in Nat
    BY SMTT(30), <1>6, <1>7
  <2>4. k.tls[u] = m.tls[u] /\ k.th[u] = m.th[u]
    BY ZenonT(30), <1>7
  <2>5. m.tls[u].sgn <= k.sgn /\ m.th[u].sgn <= k.sgn
    BY SMTT(30), <2>1, <2>2, <2>3, <1>6, <1>10 DEF GeneratorInv, CallInv
  <2>6. Snapsafe = "success" => m.tls[u].sgn < k.sgn /\ m.th[u].sgn < k.sgn
    BY SMTT(30), <2>1, <2>2, <2>3, <1>6, <1>10 DEF GeneratorInv, CallInv
  <2>7. GeneratorInv(k, u, entropy)
    BY ZenonT(30), <2>1, <2>4, <2>5, <1>7 DEF GeneratorInv
  <2>8. \A b \in Blocks : ~Ahead(k, u, b)
    <3>1. CASE Snapsafe = "success"
      BY SMTT(30), <3>1, <2>2, <2>3, <2>4, <2>6 DEF Ahead
    <3>2. CASE wiped
      <4>1. k.tls[u].fork_generation # Generation(k)
        BY SMTT(30), <3>2, <2>1, <2>2, <2>4, <1>6, <1>7 DEF GeneratorInv, Generation
      <4> QED
        BY ZenonT(30), <4>1 DEF Ahead
    <3>3. CASE Snapsafe # "success" /\ ~wiped
      <4>1. Snapsafe = "unsupported" /\ ~FastRdrand => m.tls[u].fork_generation = 0
        BY SMTT(30), <3>3, <1>2, <1>4, <1>6, <2>1, <2>2 DEF SharedInv, GeneratorInv
      <4> QED
        BY ZenonT(30), <3>3, <4>1, <1>4, <2>1, <2>4, KernelAssumption
           DEF Ahead, NoticesCopies, GeneratorInv
    <3> QED
      BY ZenonT(30), <3>1, <3>2, <3>3
  <2>9. \A b \in Blocks : ~UnderWay(k, u, b)
    <3>1. CASE Snapsafe = "success"
      BY SMTT(30), <3>1, <2>2, <2>3, <2>4, <2>6 DEF UnderWay
    <3>2. CASE Snapsafe # "success"
      BY ZenonT(30), <3>2, <1>4, <2>4 DEF UnderWay
    <3> QED
      BY ZenonT(30), <3>1, <3>2
  <2>10. m.th[u].out \subseteq Blocks
    BY ZenonT(30), <1>2, MemoryParts
  <2>11. CallInv(k, u, entropy)
    <3>1. k.th[u].pc \in {"additional", "generate"} => Snapsafe = "success" /\ k.tls[u].sgn < k.sgn
      BY ZenonT(30), <1>4, <2>4, <2>6
    <3>2. \A b \in k.th[u].out : ~Ahead(k, u, b)
      BY ZenonT(30), <2>4, <2>8, <2>10
    <3> QED
      BY ZenonT(30), <2>1, <2>4, <2>5, <3>1, <3>2, <1>7 DEF CallInv
  <2> QED
    BY ZenonT(30), <2>7, <2>8, <2>9, <2>11 DEF MayReturn
<1>12. MemoryInv(k, entropy)
  BY ZenonT(30), <1>8, <1>11 DEF MemoryInv
<1>13. entropy' \in Nat /\ entropy <= entropy' /\ returned' = returned /\ entropy' = entropy
  BY SMTT(30), <1>2, <1>5
<1>14. \A u \in Threads, b \in Blocks : ~MayReturn(k, u, b)
  BY ZenonT(30), <1>11
<1> QED
  BY ZenonT(30), <1>3, <1>7, <1>12, <1>13, <1>14, OneMemory DEF k

\* The preference for unsafe buffering concerns no generator there is.
LEMMA RandUnsafe ==
    ASSUME RandTypeOK, RandInv, NEW p \in Procs, RAND_enable_fork_unsafe_buffering(p)
    PROVE  RandTypeOK' /\ RandInv'
<1> DEFINE m == mem[p]
           k == [m EXCEPT !.unsafe = TRUE]
<1>1. p \in Alive
  BY ZenonT(30) DEF RAND_enable_fork_unsafe_buffering
<1>2. m \in Memories /\ MemoryInv(m, entropy) /\ SharedInv(m) /\ entropy \in Nat
  BY ZenonT(30), <1>1, OfAlive
<1>3. mem' = [mem EXCEPT ![p] = k] /\ UNCHANGED <<entropy, returned>>
  BY ZenonT(30) DEF RAND_enable_fork_unsafe_buffering
<1> HIDE DEF m
<1>4. /\ k \in Memories /\ k.gen = m.gen /\ k.unsafe = TRUE /\ k.sgn = m.sgn
      /\ k.tls = m.tls /\ k.th = m.th /\ k.flag = m.flag
  BY ZenonT(30), <1>2 DEF Memories
<1> HIDE DEF k
<1>5. m.gen \in Nat /\ m.gen <= k.gen /\ Generation(k) = Generation(m)
  BY SMTT(30), <1>2, <1>4 DEF Memories, Generation
<1>6. \A u \in Threads : /\ GeneratorInv(k, u, entropy) /\ CallInv(k, u, entropy)
                         /\ \A b \in Blocks : MayReturn(k, u, b) <=> MayReturn(m, u, b)
  <2> TAKE u \in Threads
  <2>1. GeneratorInv(m, u, entropy) /\ CallInv(m, u, entropy)
    BY ZenonT(30), <1>2 DEF MemoryInv
  <2>2. k.tls[u] = m.tls[u] /\ k.th[u] = m.th[u] /\ (m.unsafe => k.unsafe) /\ entropy <= entropy
    BY SMTT(30), <1>2, <1>4
  <2> QED
    BY ZenonT(30), <2>1, <2>2, <1>2, <1>4, <1>5, Bystander
<1>7. MemoryInv(k, entropy)
  BY ZenonT(30), <1>2, <1>4, <1>6 DEF MemoryInv, SharedInv
<1>8. entropy' \in Nat /\ entropy <= entropy' /\ returned' = returned /\ entropy' = entropy
  BY SMTT(30), <1>2, <1>3
<1>9. \A u \in Threads, b \in Blocks : MayReturn(k, u, b) => Owns(p, u, b)
  BY ZenonT(30), <1>1, <1>6 DEF Owns, m
<1>10. \A u, v \in Threads, b \in Blocks :
         MayReturn(k, u, b) /\ MayReturn(k, v, b) /\ b[1] > entropy => u = v
  <2>1. \A u \in Threads, b \in Blocks : MayReturn(k, u, b) => b[1] <= entropy
    BY ZenonT(30), <1>2, <1>6, DrawnBefore
  <2>2. \A b \in Blocks : b[1] \in Nat
    BY ZenonT(30) DEF Blocks
  <2> QED
    BY SMTT(30), <2>1, <2>2, <1>2
<1> QED
  BY ZenonT(30), <1>3, <1>4, <1>7, <1>8, <1>9, <1>10, OneMemory

\* A step of a call in which thread t may return afterwards only what it might
\* have returned before or what is drawn in the step.
LEMMA RandCall ==
    ASSUME RandTypeOK, RandInv, NEW p \in Procs, p \in Alive, NEW t \in Threads,
           NEW m, m = mem[p], NEW k \in Memories,
           \A u \in Threads \ {t} : k.tls[u] = m.tls[u] /\ k.th[u] = m.th[u],
           Generation(k) = Generation(m), m.gen <= k.gen,
           k.sgn = m.sgn, k.unsafe = m.unsafe, SharedInv(k),
           mem' = [mem EXCEPT ![p] = k], entropy' \in Nat, entropy <= entropy',
           returned' = returned,
           GeneratorInv(k, t, entropy'), CallInv(k, t, entropy'),
           \A b \in Blocks : MayReturn(k, t, b) => MayReturn(m, t, b) \/ b[1] > entropy
    PROVE  RandTypeOK' /\ RandInv'
<1>1. m \in Memories /\ MemoryInv(m, entropy) /\ entropy \in Nat
  BY ZenonT(30), OfAlive
<1>2. m.unsafe => k.unsafe
  BY ZenonT(30)
<1>3. /\ MemoryInv(k, entropy')
      /\ \A u \in Threads \ {t}, b \in Blocks : MayReturn(k, u, b) => MayReturn(m, u, b)
  BY ZenonT(30), <1>1, <1>2, OneCall
<1>4. \A u \in Threads, b \in Blocks :
        MayReturn(k, u, b) => Owns(p, u, b) \/ (u = t /\ b[1] > entropy)
  BY ZenonT(30), <1>3 DEF Owns
<1>5. ASSUME NEW u \in Threads, NEW b \in Blocks, MayReturn(k, u, b), b[1] > entropy
      PROVE  u = t
  <2>1. b[1] \in Nat
    BY ZenonT(30) DEF Blocks
  <2>2. u # t => b[1] <= entropy
    BY ZenonT(30), <1>1, <1>3, <1>5, DrawnBefore
  <2> QED
    BY SMTT(30), <2>1, <2>2, <1>1, <1>5
<1>6. \A u, v \in Threads, b \in Blocks :
        MayReturn(k, u, b) /\ MayReturn(k, v, b) /\ b[1] > entropy => u = v
  BY ZenonT(30), <1>5
<1> QED
  BY ZenonT(30), <1>3, <1>4, <1>6, OneMemory

\* The same where only the thread's call changes, and its generator stays.
LEMMA RandCallOnly ==
    ASSUME RandTypeOK, RandInv, NEW p \in Procs, p \in Alive, NEW t \in Threads,
           NEW y \in Calls, mem' = [mem EXCEPT ![p].th[t] = y],
           entropy' \in Nat, entropy <= entropy', returned' = returned
    PROVE  LET k == [mem[p] EXCEPT !.th[t] = y]
           IN  /\ k \in Memories /\ k.th[t] = y /\ k.tls = mem[p].tls /\ k.gen = mem[p].gen
               /\ k.sgn = mem[p].sgn /\ k.unsafe = mem[p].unsafe /\ k.flag = mem[p].flag
               /\ CallInv(k, t, entropy')
                  /\ (\A b \in Blocks : UnderWay(k, t, b) => UnderWay(mem[p], t, b) \/ b[1] > entropy)
                  => RandTypeOK' /\ RandInv'
<1> DEFINE m == mem[p]
           k == [m EXCEPT !.th[t] = y]
<1>1. m \in Memories /\ MemoryInv(m, entropy) /\ SharedInv(m) /\ entropy \in Nat
  BY ZenonT(30), OfAlive
<1>2. mem' = [mem EXCEPT ![p] = k]
  BY ZenonT(30)
<1> HIDE DEF m
<1>3. /\ k \in Memories /\ k.th = [m.th EXCEPT ![t] = y] /\ k.th[t] = y /\ k.tls = m.tls
      /\ k.gen = m.gen /\ k.sgn = m.sgn /\ k.unsafe = m.unsafe /\ k.flag = m.flag
  BY ZenonT(30), <1>1 DEF Memories
<1> HIDE DEF k
<1>4. Generation(k) = Generation(m) /\ m.gen <= k.gen /\ SharedInv(k)
  BY SMTT(30), <1>1, <1>3 DEF Generation, SharedInv, Memories
<1>5. \A u \in Threads \ {t} : k.tls[u] = m.tls[u] /\ k.th[u] = m.th[u]
  BY ZenonT(30), <1>1, <1>3, MemoryParts
<1>6. GeneratorInv(m, t, entropy)
  BY ZenonT(30), <1>1 DEF MemoryInv
<1>7. GeneratorInv(k, t, entropy')
  BY SMTT(30), <1>1, <1>3, <1>6, MemoryParts DEF GeneratorInv
<1>8. \A b : Ahead(k, t, b) <=> Ahead(m, t, b)
  BY ZenonT(30), <1>3, <1>4 DEF Ahead
<1>9. m = mem[p]
  BY ZenonT(30) DEF m
<1>10. ASSUME CallInv(k, t, entropy'),
             \A b \in Blocks : UnderWay(k, t, b) => UnderWay(m, t, b) \/ b[1] > entropy
      PROVE  RandTypeOK' /\ RandInv'
  <2>1. \A b \in Blocks : MayReturn(k, t, b) => MayReturn(m, t, b) \/ b[1] > entropy
    BY ZenonT(30), <1>8, <1>10 DEF MayReturn
  <2> QED
    BY ZenonT(30), <2>1, <1>2, <1>3, <1>4, <1>5, <1>7, <1>10, <1>9, RandCall
<1>11. k = [mem[p] EXCEPT !.th[t] = y]
  BY ZenonT(30) DEF k, m
<1> QED
  BY ZenonT(30), <1>3, <1>10, <1>11 DEF m

\* CRYPTO_get_fork_generation under the read lock.
LEMMA RandRead ==
    ASSUME RandTypeOK, RandInv, NEW p \in Procs, NEW t \in Threads, get_fork_generation(p, t)
    PROVE  RandTypeOK' /\ RandInv'
<1> DEFINE m == mem[p]
           y == [m.th[t] EXCEPT !.pc = IF m.flag = 1 \/ ~WipeOnFork THEN "additional" ELSE "fork_write",
                                !.gen = m.gen]
           k == [m EXCEPT !.th[t] = y]
<1>1. p \in Alive /\ m.th[t].pc = "idle" /\ UNCHANGED <<entropy, returned>>
  BY ZenonT(30) DEF get_fork_generation, Calling
<1>2. mem' = [mem EXCEPT ![p].th[t] = y]
  BY ZenonT(30) DEF get_fork_generation
<1>3. m \in Memories /\ MemoryInv(m, entropy) /\ SharedInv(m) /\ entropy \in Nat
  BY ZenonT(30), <1>1, OfAlive
<1>4. m.th[t] \in Calls /\ m.gen \in Nat
  BY ZenonT(30), <1>3, MemoryParts
<1>5. /\ y \in Calls /\ y.gen = m.gen /\ y.sgn = m.th[t].sgn /\ y.unsafe = m.th[t].unsafe
      /\ y.add = m.th[t].add /\ y.out = m.th[t].out
      /\ y.pc = IF m.flag = 1 \/ ~WipeOnFork THEN "additional" ELSE "fork_write"
  BY ZenonT(30), <1>4 DEF Calls, CallPcs
<1> HIDE DEF y
<1>6. entropy' \in Nat /\ entropy <= entropy' /\ returned' = returned /\ entropy' = entropy
  BY SMTT(30), <1>1, <1>3
<1>7. /\ k \in Memories /\ k.th[t] = y /\ k.tls = m.tls /\ k.gen = m.gen
      /\ k.sgn = m.sgn /\ k.unsafe = m.unsafe /\ k.flag = m.flag
      /\ CallInv(k, t, entropy')
         /\ (\A b \in Blocks : UnderWay(k, t, b) => UnderWay(mem[p], t, b) \/ b[1] > entropy)
         => RandTypeOK' /\ RandInv'
  BY ZenonT(30), <1>1, <1>2, <1>5, <1>6, RandCallOnly
<1> HIDE DEF k, m
<1>8. CallInv(m, t, entropy)
  BY ZenonT(30), <1>3 DEF MemoryInv
<1>9. y.pc = "additional" => Generation(k) = y.gen
  BY SMTT(30), <1>3, <1>5, <1>7 DEF Generation, SharedInv
<1>10. CallInv(k, t, entropy')
  BY SMTT(90), <1>4, <1>5, <1>6, <1>7, <1>8, <1>9 DEF CallInv
<1>11. \A b \in Blocks : ~UnderWay(k, t, b)
  BY ZenonT(30), <1>5, <1>7 DEF UnderWay
<1> QED
  BY ZenonT(30), <1>7, <1>10, <1>11

\* Under the write lock the generation is raised once, for all threads.
LEMMA RandWrite ==
    ASSUME RandTypeOK, RandInv, NEW p \in Procs, NEW t \in Threads, get_fork_generation_write(p, t)
    PROVE  RandTypeOK' /\ RandInv'
<1> DEFINE m == mem[p]
           g == Generation(m)
           x == m.tls[t]
           y == [m.th[t] EXCEPT !.pc = "additional", !.gen = g]
           k == [m EXCEPT !.flag = 1, !.gen = g, !.th[t] = y]
<1>1. p \in Alive /\ m.th[t].pc = "fork_write" /\ UNCHANGED <<entropy, returned>>
  BY ZenonT(30) DEF get_fork_generation_write, Calling
<1>2. m \in Memories /\ MemoryInv(m, entropy) /\ SharedInv(m) /\ entropy \in Nat
  BY ZenonT(30), <1>1, OfAlive
<1>3. m.th[t] \in Calls /\ m.gen \in Nat /\ g \in Nat /\ m.gen <= g /\ x \in Generators
  BY ZenonT(30), <1>2, MemoryParts
<1>4. mem' = [mem EXCEPT ![p] = k]
  <2>1. mem' = [mem EXCEPT ![p] = [m EXCEPT !.flag = 1, !.gen = g, !.th[t].pc = "additional",
                                            !.th[t].gen = g]]
    BY ZenonT(30) DEF get_fork_generation_write, Generation
  <2>2. [m EXCEPT !.flag = 1, !.gen = g, !.th[t].pc = "additional", !.th[t].gen = g] = k
    <3> HIDE DEF m, g
    <3>1. m.th \in [Threads -> Calls]
      BY ZenonT(30), <1>2 DEF Memories
    <3> QED
      BY ZenonT(30), <1>2, <1>3, <3>1 DEF Memories, Calls
  <2> QED
    BY ZenonT(30), <2>1, <2>2
<1> HIDE DEF m
<1>5. /\ y \in Calls /\ y.gen = g /\ y.sgn = m.th[t].sgn /\ y.unsafe = m.th[t].unsafe
      /\ y.add = m.th[t].add /\ y.out = m.th[t].out /\ y.pc = "additional"
  BY ZenonT(30), <1>3 DEF Calls, CallPcs
<1> HIDE DEF y, g
<1>6. /\ k \in Memories /\ k.th = [m.th EXCEPT ![t] = y] /\ k.th[t] = y /\ k.tls = m.tls
      /\ k.gen = g /\ k.sgn = m.sgn /\ k.unsafe = m.unsafe /\ k.flag = 1
  BY ZenonT(30), <1>2, <1>3, <1>5 DEF Memories
<1> HIDE DEF k
<1>7. Generation(k) = g /\ g = Generation(m)
  BY SMTT(30), <1>6 DEF Generation, g
<1>8. SharedInv(k)
  BY SMTT(30), <1>2, <1>6 DEF SharedInv, g, Generation
<1>9. /\ \A u \in Threads \ {t} : k.tls[u] = m.tls[u] /\ k.th[u] = m.th[u]
      /\ k.tls[t] = x
  BY ZenonT(30), <1>2, <1>6, MemoryParts
<1>10. GeneratorInv(m, t, entropy) /\ CallInv(m, t, entropy)
  BY ZenonT(30), <1>2 DEF MemoryInv
<1>11. entropy' \in Nat /\ entropy <= entropy' /\ returned' = returned /\ entropy' = entropy
  BY SMTT(30), <1>1, <1>2
<1>12. x.fork_generation \in Nat /\ m.th[t].gen \in Nat
  BY ZenonT(30), <1>2, MemoryParts
<1> HIDE DEF x
<1>13. GeneratorInv(k, t, entropy')
  BY SMTT(30), <1>3, <1>6, <1>9, <1>10, <1>11, <1>12 DEF GeneratorInv, x
<1>14. CallInv(k, t, entropy')
  BY SMTT(30), <1>3, <1>5, <1>6, <1>7, <1>9, <1>10, <1>11, <1>12 DEF CallInv
<1>15. \A b \in Blocks : MayReturn(k, t, b) => MayReturn(m, t, b)
  BY ZenonT(30), <1>5, <1>6, <1>7, <1>9 DEF MayReturn, Ahead, UnderWay, x
<1>16. m = mem[p]
  BY ZenonT(30) DEF m
<1> QED
  BY ZenonT(30), <1>1, <1>3, <1>4, <1>5, <1>6, <1>7, <1>8, <1>9, <1>11, <1>13, <1>14, <1>15, <1>16, RandCall

\* The additional data is drawn, or a duplicate would be noticed.
LEMMA RandAdditional ==
    ASSUME RandTypeOK, RandInv, NEW p \in Procs, NEW t \in Threads, additional_data(p, t)
    PROVE  RandTypeOK' /\ RandInv'
<1> DEFINE m == mem[p]
           c == m.th[t]
           fresh == FastRdrand \/ ~((Snapsafe # "failed" /\ c.gen # 0) \/ m.unsafe)
           y == [c EXCEPT !.pc = "generate", !.unsafe = m.unsafe, !.sgn = m.sgn,
                          !.add = IF fresh THEN entropy' ELSE 0]
           k == [m EXCEPT !.th[t] = y]
<1>1. p \in Alive /\ c.pc = "additional" /\ returned' = returned
      /\ entropy' = IF fresh THEN entropy + 1 ELSE entropy
  BY ZenonT(30) DEF additional_data, Calling
<1>2. mem' = [mem EXCEPT ![p].th[t] = y]
  BY ZenonT(30) DEF additional_data
<1>3. m \in Memories /\ MemoryInv(m, entropy) /\ entropy \in Nat
  BY ZenonT(30), <1>1, OfAlive
<1>4. c \in Calls /\ m.sgn \in Nat /\ m.unsafe \in BOOLEAN /\ c.out \in SUBSET Blocks
  BY ZenonT(30), <1>3, MemoryParts
<1>5. entropy' \in Nat /\ entropy <= entropy'
  BY SMTT(30), <1>1, <1>3
<1>6. /\ y \in Calls /\ y.gen = c.gen /\ y.sgn = m.sgn /\ y.unsafe = m.unsafe
      /\ y.add = (IF fresh THEN entropy' ELSE 0) /\ y.out = c.out /\ y.pc = "generate"
  BY ZenonT(30), <1>4, <1>5 DEF Calls, CallPcs
<1>7. ~fresh => NoticesCopies(y.gen, y.unsafe)
  BY ZenonT(30), <1>6 DEF NoticesCopies
<1>8. y.add # 0 => y.add = entropy + 1 /\ y.add <= entropy'
  BY SMTT(30), <1>1, <1>3, <1>5, <1>6
<1>9. y.add = 0 => ~fresh
  BY SMTT(30), <1>1, <1>3, <1>6
<1> HIDE DEF y, fresh
<1>10. /\ k \in Memories /\ k.th[t] = y /\ k.tls = m.tls /\ k.gen = m.gen
       /\ k.sgn = m.sgn /\ k.unsafe = m.unsafe /\ k.flag = m.flag
       /\ CallInv(k, t, entropy')
          /\ (\A b \in Blocks : UnderWay(k, t, b) => UnderWay(mem[p], t, b) \/ b[1] > entropy)
          => RandTypeOK' /\ RandInv'
  BY ZenonT(30), <1>1, <1>2, <1>5, <1>6, RandCallOnly
<1>11. CallInv(m, t, entropy)
  BY ZenonT(30), <1>3 DEF MemoryInv
<1> HIDE DEF k, m
<1>12. Generation(k) = Generation(m)
  BY ZenonT(30), <1>10 DEF Generation
<1>13. \A b \in c.out : b[1] \in Nat
  BY ZenonT(30), <1>4 DEF Blocks
<1>14. CallInv(k, t, entropy')
  <2>1. y.add <= entropy'
    BY SMTT(30), <1>5, <1>8
  <2>2. \A b \in y.out : b[1] <= entropy'
    BY SMTT(30), <1>3, <1>5, <1>6, <1>11, <1>13 DEF CallInv
  <2>3. y.gen <= k.gen /\ y.sgn <= k.sgn /\ (y.unsafe => k.unsafe)
    BY SMTT(30), <1>4, <1>6, <1>10, <1>11 DEF CallInv
  <2>4. y.gen = Generation(k) \/ (Snapsafe = "success" /\ k.tls[t].sgn < k.sgn)
    BY ZenonT(30), <1>1, <1>6, <1>10, <1>11, <1>12 DEF CallInv
  <2>5. y.add = 0 => NoticesCopies(y.gen, y.unsafe)
    BY ZenonT(30), <1>7, <1>9
  <2> QED
    BY ZenonT(30), <2>1, <2>2, <2>3, <2>4, <2>5, <1>6, <1>10 DEF CallInv
<1>15. \A b \in Blocks : UnderWay(k, t, b) => b[1] > entropy
  BY SMTT(30), <1>3, <1>6, <1>8, <1>10 DEF UnderWay
<1> QED
  BY ZenonT(30), <1>10, <1>14, <1>15

\* The generator's state after a call and the blocks it produced.
Produced(s, chunks) == {<<s.seed, s.n + i>> : i \in 1 .. chunks}

\* What CTR_DRBG_generate makes of memory m in a call of thread t: k, where the
\* generator is x and the call is y, from z on.
Generates(m, t, start, stack, z, x, y, k, chunks) ==
    /\ z = IF m.th[t].add = 0 THEN start ELSE [start EXCEPT !.seed = m.th[t].add, !.n = 0]
    /\ x = IF stack THEN m.tls[t] ELSE [z EXCEPT !.n = @ + chunks, !.calls = @ + chunks]
    /\ y = [m.th[t] EXCEPT !.pc = "check", !.sgn = z.sgn, !.out = Produced(z, chunks)]
    /\ k = [m EXCEPT !.tls[t] = x, !.th[t] = y]

\* CTR_DRBG_generate_from does that.
LEMMA Generated ==
    ASSUME RandTypeOK, RandInv, NEW p \in Procs, NEW t \in Threads, p \in Alive,
           NEW start \in Generators, NEW stack \in BOOLEAN,
           CTR_DRBG_generate_from(p, t, start, stack)
    PROVE  \E z, x \in Generators, y \in Calls, k \in Memories, chunks \in 1 .. MaxChunks :
             /\ mem' = [mem EXCEPT ![p] = k] /\ returned' = returned
             /\ Generates(mem[p], t, start, stack, z, x, y, k, chunks)
<1> DEFINE m == mem[p]
           c == m.th[t]
           z == IF c.add = 0 THEN start ELSE [start EXCEPT !.seed = c.add, !.n = 0]
           X(chunks) == IF stack THEN m.tls[t] ELSE [z EXCEPT !.n = @ + chunks, !.calls = @ + chunks]
           Y(chunks) == [c EXCEPT !.pc = "check", !.sgn = z.sgn, !.out = Produced(z, chunks)]
<1>1. PICK chunks \in 1 .. MaxChunks :
        mem' = [mem EXCEPT ![p] = [m EXCEPT !.tls[t] = X(chunks), !.th[t] = Y(chunks)]]
  BY ZenonT(30) DEF CTR_DRBG_generate_from, Produced
<1>2. returned' = returned
  BY ZenonT(30) DEF CTR_DRBG_generate_from
<1> DEFINE x == X(chunks)
           y == Y(chunks)
           k == [m EXCEPT !.tls[t] = x, !.th[t] = y]
<1>3. m \in Memories
  BY ZenonT(30), OfAlive
<1>4. mem' = [mem EXCEPT ![p] = k]
  BY ZenonT(30), <1>1
<1>5. m.tls \in [Threads -> Generators] /\ m.th \in [Threads -> Calls] /\ c \in Calls
      /\ m.tls[t] \in Generators /\ c.add \in Nat
  BY ZenonT(30), <1>3, MemoryParts
<1> HIDE DEF m, c
<1>6. z \in Generators
  BY ZenonT(30), <1>5 DEF Generators
<1>7. chunks \in Nat
  BY SMTT(30), ChunksAssumption
<1>8. x = IF stack THEN m.tls[t] ELSE [z EXCEPT !.n = @ + chunks, !.calls = @ + chunks]
  BY ZenonT(30)
<1>9. y = [c EXCEPT !.pc = "check", !.sgn = z.sgn, !.out = Produced(z, chunks)]
  BY ZenonT(30)
<1> HIDE DEF z, x, y
<1>10. z.seed \in Nat /\ z.n \in Nat /\ z.calls \in Nat /\ z.sgn \in Nat
  BY ZenonT(30), <1>6 DEF Generators
<1>11. x \in Generators
  <2>1. z.n + chunks \in Nat /\ z.calls + chunks \in Nat
    BY SMTT(30), <1>7, <1>10
  <2> QED
    BY ZenonT(30), <1>5, <1>6, <1>8, <2>1 DEF Generators
<1>12. Produced(z, chunks) \in SUBSET Blocks
  BY SMTT(30), <1>7, <1>10 DEF Produced, Blocks
<1>13. y \in Calls
  BY ZenonT(30), <1>5, <1>9, <1>10, <1>12 DEF Calls, CallPcs
<1>14. k \in Memories
  BY ZenonT(30), <1>3, <1>5, <1>11, <1>13 DEF Memories
<1>15. z = IF c.add = 0 THEN start ELSE [start EXCEPT !.seed = c.add, !.n = 0]
  BY ZenonT(30) DEF z
<1>16. k = [m EXCEPT !.tls[t] = x, !.th[t] = y]
  BY ZenonT(30)
<1> HIDE DEF k
<1> QED
  <2> WITNESS z \in Generators, x \in Generators, y \in Calls, k \in Memories, chunks \in 1 .. MaxChunks
  <2> QED
    BY ZenonT(30), <1>2, <1>4, <1>8, <1>9, <1>15, <1>16 DEF Generates, m, c

\* A call produces its blocks: fresh ones, those its additional data reserved for
\* it, or the next ones of a generator that nobody else has.
LEMMA RandGenerate ==
    ASSUME RandTypeOK, RandInv, NEW p \in Procs, NEW t \in Threads, Calling(p, t, "generate"),
           NEW start \in Generators, NEW stack \in BOOLEAN,
           CTR_DRBG_generate_from(p, t, start, stack),
           entropy' \in Nat, entropy <= entropy',
           NEW m, m = mem[p], NEW c, c = m.th[t],
           start.seed <= entropy', start.fork_generation <= m.gen, start.sgn <= m.sgn,
           start.unsafe => m.unsafe, stack => m.tls[t] = NoState,
           c.add # 0 => start.sgn = c.sgn,
           c.add = 0 => \/ start.seed > entropy
                        \/ \A b \in Blocks : start.sgn = m.sgn /\ b[1] = start.seed /\ b[2] > start.n
                                               => Ahead(m, t, b)
    PROVE  RandTypeOK' /\ RandInv'
<1>1. p \in Alive /\ c.pc = "generate"
  BY ZenonT(30) DEF Calling
<1>2. m \in Memories /\ MemoryInv(m, entropy) /\ SharedInv(m) /\ entropy \in Nat
  BY ZenonT(30), <1>1, OfAlive
<1>3. PICK z \in Generators, x \in Generators, y \in Calls, k \in Memories, chunks \in 1 .. MaxChunks :
        /\ mem' = [mem EXCEPT ![p] = k] /\ returned' = returned
        /\ Generates(m, t, start, stack, z, x, y, k, chunks)
  BY SMTT(30), <1>1, Generated
<1>4. GeneratorInv(m, t, entropy) /\ CallInv(m, t, entropy)
  BY ZenonT(30), <1>2 DEF MemoryInv
<1>5. /\ m.tls \in [Threads -> Generators] /\ m.th \in [Threads -> Calls] /\ c \in Calls
      /\ m.sgn \in Nat /\ m.gen \in Nat /\ c.add \in Nat /\ c.gen \in Nat
      /\ m.tls[t].seed \in Nat
  BY ZenonT(30), <1>2, MemoryParts
<1>6. chunks \in Nat /\ chunks > 0
  BY SMTT(30), ChunksAssumption
<1>7. start.seed \in Nat /\ start.n \in Nat /\ start.sgn \in Nat /\ z.seed \in Nat /\ z.n \in Nat
  BY ZenonT(30) DEF Generators
<1>8. /\ z.sgn = start.sgn /\ z.fork_generation = start.fork_generation /\ z.unsafe = start.unsafe
      /\ z.seed = (IF c.add = 0 THEN start.seed ELSE c.add)
      /\ z.n = IF c.add = 0 THEN start.n ELSE 0
  BY ZenonT(30), <1>3 DEF Generators, Generates
<1>9. ~stack => /\ x.sgn = z.sgn /\ x.fork_generation = z.fork_generation /\ x.unsafe = z.unsafe
                /\ x.seed = z.seed /\ x.n = z.n + chunks
  BY ZenonT(30), <1>3 DEF Generators, Generates
<1>10. /\ y.pc = "check" /\ y.sgn = z.sgn /\ y.out = Produced(z, chunks)
       /\ y.gen = c.gen /\ y.unsafe = c.unsafe /\ y.add = c.add
  BY ZenonT(30), <1>3, <1>5 DEF Calls, Generates
<1>11. /\ k.flag = m.flag /\ k.gen = m.gen /\ k.sgn = m.sgn /\ k.unsafe = m.unsafe
       /\ k.tls[t] = x /\ k.th[t] = y
       /\ \A u \in Threads \ {t} : k.tls[u] = m.tls[u] /\ k.th[u] = m.th[u]
  <2>1. /\ k.flag = m.flag /\ k.gen = m.gen /\ k.sgn = m.sgn /\ k.unsafe = m.unsafe
        /\ k.tls = [m.tls EXCEPT ![t] = x] /\ k.th = [m.th EXCEPT ![t] = y]
    BY ZenonT(30), <1>2, <1>3 DEF Memories, Generates
  <2> QED
    BY ZenonT(30), <2>1, <1>5
<1>12. Generation(k) = Generation(m) /\ SharedInv(k) /\ m.gen <= k.gen
  BY SMTT(30), <1>2, <1>5, <1>11 DEF Generation, SharedInv
<1>13. z.seed <= entropy'
  BY SMTT(90), <1>2, <1>4, <1>5, <1>7, <1>8 DEF CallInv
<1>14. ASSUME NEW b \in Blocks, z.sgn = m.sgn, b[1] = z.seed, b[2] > z.n
       PROVE  MayReturn(m, t, b) \/ b[1] > entropy
  <2>1. CASE c.add # 0
    BY ZenonT(30), <2>1, <1>1, <1>8, <1>14 DEF MayReturn, UnderWay
  <2>2. CASE c.add = 0
    BY ZenonT(30), <2>2, <1>8, <1>14 DEF MayReturn
  <2> QED
    BY ZenonT(30), <2>1, <2>2
<1>15. stack => x = m.tls[t]
  BY ZenonT(30), <1>3 DEF Generates
<1>16. GeneratorInv(k, t, entropy')
  <2>1. CASE stack
    BY SMTT(30), <2>1, <1>2, <1>4, <1>5, <1>11, <1>15 DEF GeneratorInv
  <2>2. CASE ~stack
    BY ZenonT(30), <2>2, <1>8, <1>9, <1>11, <1>13 DEF GeneratorInv
  <2> QED
    BY ZenonT(30), <2>1, <2>2
<1>17. \A b \in Produced(z, chunks) : b[1] = z.seed /\ b[2] \in Nat /\ b[2] > z.n /\ b[2] <= z.n + chunks
  BY SMTT(30), <1>6, <1>7 DEF Produced
<1>18. stack => \A b : ~Ahead(k, t, b)
  BY SMTT(30), <1>11, <1>15 DEF Ahead, NoticesCopies, NoState
<1>19. \A b \in Produced(z, chunks) : ~Ahead(k, t, b)
  BY SMTT(90), <1>6, <1>7, <1>9, <1>11, <1>17, <1>18 DEF Ahead
<1>20. CallInv(k, t, entropy')
  <2>1. y.add <= entropy' /\ y.gen <= k.gen /\ (y.unsafe => k.unsafe) /\ y.sgn <= k.sgn
    BY SMTT(90), <1>2, <1>4, <1>5, <1>8, <1>10, <1>11 DEF CallInv
  <2>2. \A b \in y.out : b[1] <= entropy'
    BY ZenonT(30), <1>10, <1>13, <1>17
  <2> QED
    BY ZenonT(30), <2>1, <2>2, <1>10, <1>11, <1>19 DEF CallInv
<1>21. ASSUME NEW b \in Blocks, MayReturn(k, t, b)
       PROVE  MayReturn(m, t, b) \/ b[1] > entropy
  <2>0. b[2] \in Nat
    BY ZenonT(30) DEF Blocks
  <2>1. CASE Ahead(k, t, b)
    <3>1. ~stack
      BY ZenonT(30), <2>1, <1>18
    <3>2. z.sgn = m.sgn /\ b[1] = z.seed /\ b[2] > z.n + chunks
      BY ZenonT(30), <2>1, <3>1, <1>9, <1>11 DEF Ahead
    <3>3. b[2] > z.n
      BY SMTT(30), <3>2, <2>0, <1>6, <1>7
    <3> QED
      BY ZenonT(30), <3>2, <3>3, <1>14
  <2>2. CASE UnderWay(k, t, b)
    <3>1. z.sgn = m.sgn /\ b \in Produced(z, chunks)
      BY ZenonT(30), <2>2, <1>10, <1>11 DEF UnderWay
    <3> QED
      BY ZenonT(30), <3>1, <1>14, <1>17
  <2> QED
    BY ZenonT(30), <2>1, <2>2, <1>21 DEF MayReturn
<1>22. \A b \in Blocks : MayReturn(k, t, b) => MayReturn(m, t, b) \/ b[1] > entropy
  BY ZenonT(30), <1>21
<1>23. mem' = [mem EXCEPT ![p] = k] /\ returned' = returned
  BY ZenonT(30), <1>3
<1> QED
  BY ZenonT(30), <1>1, <1>11, <1>12, <1>16, <1>20, <1>22, <1>23, RandCall

\* A generator that is seeded in the call.
LEMMA RandSeed ==
    ASSUME RandTypeOK, RandInv, NEW p \in Procs, NEW t \in Threads, rand_get_seed(p, t)
    PROVE  RandTypeOK' /\ RandInv'
<1> DEFINE m == mem[p]
           c == m.th[t]
           seeded == [seed |-> entropy + 1, n |-> 0, calls |-> 0,
                      fork_generation |-> c.gen, unsafe |-> c.unsafe, sgn |-> c.sgn]
<1>1. Calling(p, t, "generate") /\ entropy' = entropy + 1
  BY ZenonT(30) DEF rand_get_seed
<1>2. PICK stack \in BOOLEAN :
        CTR_DRBG_generate_from(p, t, seeded, stack) /\ (stack => m.tls[t] = NoState)
  BY ZenonT(30) DEF rand_get_seed
<1>3. p \in Alive
  BY ZenonT(30), <1>1 DEF Calling
<1>4. m \in Memories /\ MemoryInv(m, entropy) /\ entropy \in Nat
  BY ZenonT(30), <1>3, OfAlive
<1>5. c.gen \in Nat /\ c.sgn \in Nat /\ c.unsafe \in BOOLEAN
  BY ZenonT(30), <1>4, MemoryParts
<1>6. CallInv(m, t, entropy)
  BY ZenonT(30), <1>4 DEF MemoryInv
<1>7. c.gen <= m.gen /\ c.sgn <= m.sgn /\ (c.unsafe => m.unsafe)
  BY ZenonT(30), <1>6 DEF CallInv
<1> HIDE DEF m, c
<1>8. /\ seeded \in Generators /\ seeded.seed = entropy + 1 /\ seeded.fork_generation = c.gen
      /\ seeded.unsafe = c.unsafe /\ seeded.sgn = c.sgn
  BY SMTT(30), <1>4, <1>5 DEF Generators
<1> HIDE DEF seeded
<1>9. entropy' \in Nat /\ entropy <= entropy' /\ seeded.seed <= entropy' /\ seeded.seed > entropy
  BY SMTT(30), <1>1, <1>4, <1>8
<1>10. m = mem[p] /\ c = m.th[t]
  BY ZenonT(30) DEF m, c
<1> QED
  BY SMTT(30), <1>1, <1>2, <1>7, <1>8, <1>9, <1>10, RandGenerate

\* A generator that goes on.
LEMMA RandGoOn ==
    ASSUME RandTypeOK, RandInv, NEW p \in Procs, NEW t \in Threads, no_reseed(p, t)
    PROVE  RandTypeOK' /\ RandInv'
<1> DEFINE m == mem[p]
           c == m.th[t]
           s == m.tls[t]
<1>1. Calling(p, t, "generate") /\ entropy' = entropy /\ ~MustReseed(s, c)
      /\ CTR_DRBG_generate_from(p, t, s, FALSE)
  BY ZenonT(30) DEF no_reseed
<1>2. p \in Alive /\ c.pc = "generate"
  BY ZenonT(30), <1>1 DEF Calling
<1>3. m \in Memories /\ MemoryInv(m, entropy) /\ entropy \in Nat
  BY ZenonT(30), <1>2, OfAlive
<1>4. s \in Generators /\ s.sgn \in Nat /\ m.sgn \in Nat
  BY ZenonT(30), <1>3, MemoryParts
<1>5. GeneratorInv(m, t, entropy) /\ CallInv(m, t, entropy)
  BY ZenonT(30), <1>3 DEF MemoryInv
<1>6. s.sgn = c.sgn /\ s.fork_generation = c.gen /\ s.unsafe = c.unsafe
  BY ZenonT(30), <1>1 DEF MustReseed
<1>7. /\ s.seed <= entropy' /\ s.fork_generation <= m.gen /\ s.sgn <= m.sgn
      /\ (s.unsafe => m.unsafe)
  BY ZenonT(30), <1>1, <1>5 DEF GeneratorInv
<1>8. ASSUME c.add = 0, NEW b \in Blocks, s.sgn = m.sgn, b[1] = s.seed, b[2] > s.n
      PROVE  Ahead(m, t, b)
  <2>1. NoticesCopies(s.fork_generation, s.unsafe)
    BY ZenonT(30), <1>2, <1>5, <1>6, <1>8 DEF CallInv
  <2>2. s.fork_generation = Generation(m)
    BY SMTT(90), <1>2, <1>4, <1>5, <1>6, <1>8 DEF CallInv
  <2> QED
    BY ZenonT(30), <2>1, <2>2, <1>8 DEF Ahead
<1>9. c.add = 0 => \A b \in Blocks : s.sgn = m.sgn /\ b[1] = s.seed /\ b[2] > s.n => Ahead(m, t, b)
  BY ZenonT(30), <1>8
<1>10. entropy' \in Nat /\ entropy <= entropy' /\ m = mem[p] /\ c = m.th[t] /\ FALSE \in BOOLEAN
  BY SMTT(30), <1>1, <1>3
<1> HIDE DEF m, c, s
<1> QED
  BY ZenonT(30), <1>1, <1>4, <1>6, <1>7, <1>9, <1>10, RandGenerate

\* A call returns its blocks, or the process is aborted and returns nothing.
LEMMA RandReturn ==
    ASSUME RandTypeOK, RandInv, NEW p \in Procs, NEW t \in Threads, RAND_bytes_return(p, t)
    PROVE  RandTypeOK' /\ RandInv'
<1> DEFINE m == mem[p]
           c == m.th[t]
<1>1. p \in Alive /\ c.pc = "check" /\ entropy' = entropy
  BY ZenonT(30) DEF RAND_bytes_return, Calling
<1>2. m \in Memories /\ MemoryInv(m, entropy) /\ SharedInv(m) /\ entropy \in Nat
  BY ZenonT(30), <1>1, OfAlive
<1>3. m.th \in [Threads -> Calls] /\ m.sgn \in Nat /\ c.sgn \in Nat /\ c.out \in SUBSET Blocks
  BY ZenonT(30), <1>2, MemoryParts
<1>4. \A u \in Threads : GeneratorInv(m, u, entropy) /\ CallInv(m, u, entropy)
  BY ZenonT(30), <1>2 DEF MemoryInv
<1>5. entropy' \in Nat /\ entropy <= entropy'
  BY SMTT(30), <1>1, <1>2
<1>6. CASE Snapsafe # "failed" /\ m.sgn # c.sgn
  <2> DEFINE th == [u \in Threads |-> [Idle EXCEPT !.pc = "gone"]]
             k == [m EXCEPT !.th = th]
  <2>1. mem' = [mem EXCEPT ![p] = k] /\ returned' = returned
    BY ZenonT(30), <1>6 DEF RAND_bytes_return
  <2> HIDE DEF m
  <2>2. th \in [Threads -> Calls]
    BY ZenonT(30) DEF Idle, Calls, CallPcs
  <2>3. \A u \in Threads : th[u].pc = "gone" /\ th[u].gen = 0 /\ th[u].sgn = 0
                           /\ th[u].add = 0 /\ th[u].out = {} /\ th[u].unsafe = FALSE
    BY ZenonT(30) DEF Idle
  <2> HIDE DEF th
  <2>4. /\ k \in Memories /\ k.gen = m.gen /\ k.unsafe = m.unsafe /\ k.sgn = m.sgn
        /\ k.tls = m.tls /\ k.th = th /\ k.flag = m.flag
    BY ZenonT(30), <1>2, <2>2 DEF Memories
  <2> HIDE DEF k
  <2>5. SharedInv(k) /\ Generation(k) = Generation(m) /\ k.gen \in Nat
    BY ZenonT(30), <1>2, <2>4 DEF SharedInv, Generation, Memories
  <2>6. \A u \in Threads : GeneratorInv(k, u, entropy') /\ CallInv(k, u, entropy')
    BY SMTT(90), <1>1, <1>2, <1>3, <1>4, <2>3, <2>4, <2>5 DEF GeneratorInv, CallInv
  <2>7. ASSUME NEW u \in Threads, NEW b \in Blocks, MayReturn(k, u, b)
        PROVE  Owns(p, u, b) /\ ~(b[1] > entropy)
    <3>1. MayReturn(m, u, b)
      BY ZenonT(30), <2>3, <2>4, <2>5, <2>7 DEF MayReturn, Ahead, UnderWay
    <3>2. b[1] <= entropy /\ b[1] \in Nat
      BY ZenonT(30), <3>1, <1>2, DrawnBefore DEF Blocks
    <3> QED
      BY SMTT(30), <3>1, <3>2, <1>1, <1>2 DEF Owns, m
  <2>8. MemoryInv(k, entropy')
    BY ZenonT(30), <2>5, <2>6 DEF MemoryInv
  <2>9. /\ \A u \in Threads, b \in Blocks : MayReturn(k, u, b) => Owns(p, u, b) \/ b[1] > entropy
        /\ \A u, v \in Threads, b \in Blocks :
             MayReturn(k, u, b) /\ MayReturn(k, v, b) /\ b[1] > entropy => u = v
    BY ZenonT(30), <2>7
  <2> QED
    BY ZenonT(30), <2>1, <2>4, <2>8, <2>9, <1>5, OneMemory
<1>7. CASE ~(Snapsafe # "failed" /\ m.sgn # c.sgn)
  <2> DEFINE k == [m EXCEPT !.th[t] = Idle]
  <2>1. mem' = [mem EXCEPT ![p] = k] /\ returned' = returned \cup c.out
    BY ZenonT(30), <1>7 DEF RAND_bytes_return
  <2>2. m.sgn = c.sgn
    <3>1. c.sgn <= m.sgn
      BY ZenonT(30), <1>4 DEF CallInv
    <3>2. Snapsafe = "failed" => m.sgn = 0
      BY ZenonT(30), <1>2 DEF SharedInv
    <3> HIDE DEF m, c
    <3>3. m.sgn = 0 => m.sgn = c.sgn
      BY ONLY <1>3, <3>1, SMTT(30)
    <3> QED
      BY ZenonT(30), <1>7, <3>2, <3>3
  <2>3. m = mem[p] /\ c = m.th[t]
    BY ZenonT(30)
  <2> HIDE DEF m
  <2>4. Idle \in Calls
    BY ZenonT(30) DEF Idle, Calls, CallPcs
  <2>5. /\ k \in Memories /\ k.gen = m.gen /\ k.unsafe = m.unsafe /\ k.sgn = m.sgn
        /\ k.tls = m.tls /\ k.th = [m.th EXCEPT ![t] = Idle] /\ k.flag = m.flag
    BY ZenonT(30), <1>2, <2>4 DEF Memories
  <2> HIDE DEF k
  <2>6. /\ SharedInv(k) /\ Generation(k) = Generation(m) /\ k.gen \in Nat
        /\ m.gen <= k.gen /\ (m.unsafe => k.unsafe)
    BY SMTT(30), <1>2, <2>5 DEF SharedInv, Generation, Memories
  <2>7. k.th[t] = Idle /\ \A u \in Threads \ {t} : k.tls[u] = m.tls[u] /\ k.th[u] = m.th[u]
    BY ZenonT(30), <2>5, <1>3
  <2>8. \A u \in Threads \ {t} : k.tls[u] = m.tls[u] /\ k.th[u] = m.th[u]
    BY ZenonT(30), <2>7
  <2>9. GeneratorInv(k, t, entropy') /\ CallInv(k, t, entropy')
    BY SMTT(90), <1>1, <1>2, <1>3, <1>4, <2>5, <2>6, <2>7 DEF GeneratorInv, CallInv, Idle
  <2>10. /\ MemoryInv(k, entropy')
        /\ \A u \in Threads \ {t}, b \in Blocks : MayReturn(k, u, b) => MayReturn(m, u, b)
    BY ZenonT(30), <1>2, <1>5, <2>5, <2>6, <2>9, <2>8, OneCall
  <2>11. \A b \in Blocks : MayReturn(k, t, b) => Ahead(m, t, b)
    BY SMTT(30), <2>5, <2>6, <2>7 DEF MayReturn, Ahead, UnderWay, Idle
  <2>12. \A b \in c.out : UnderWay(m, t, b) /\ ~Ahead(m, t, b) /\ b[1] <= entropy
    BY ZenonT(30), <1>1, <1>4, <2>2 DEF UnderWay, CallInv
  <2>13. \A q \in Procs : q # p => mem'[q] = mem[q]
    BY ZenonT(30), <2>1 DEF RandTypeOK
  <2>14. mem'[p] = k
    BY ZenonT(30), <2>1 DEF RandTypeOK
  <2>15. ASSUME NEW q \in Procs, NEW u \in Threads, NEW b \in Blocks, Owns(q, u, b)'
         PROVE  Owns(q, u, b) /\ b \notin c.out
    <3>1. CASE q # p
      <4>1. Owns(q, u, b)
        BY ZenonT(30), <3>1, <2>13, <2>15 DEF Owns, Alive
      <4>2. b \in c.out => Owns(p, t, b)
        BY ZenonT(30), <2>3, <2>12, <1>1 DEF Owns, MayReturn
      <4> QED
        BY ZenonT(30), <3>1, <4>1, <4>2 DEF RandInv, Exclusive
    <3>2. CASE q = p /\ u # t
      <4>1. Owns(q, u, b)
        BY ZenonT(30), <3>2, <2>3, <2>10, <2>14, <2>15, <1>1 DEF Owns
      <4>2. b \in c.out => Owns(p, t, b)
        BY ZenonT(30), <2>3, <2>12, <1>1 DEF Owns, MayReturn
      <4> QED
        BY ZenonT(30), <3>2, <4>1, <4>2 DEF RandInv, Exclusive
    <3>3. CASE q = p /\ u = t
      <4>1. Ahead(m, t, b)
        BY ZenonT(30), <3>3, <2>11, <2>14, <2>15 DEF Owns
      <4> QED
        BY ZenonT(30), <3>3, <4>1, <2>3, <2>12, <1>1 DEF Owns, MayReturn
    <3> QED
      BY ZenonT(30), <3>1, <3>2, <3>3
  <2>16. RandTypeOK'
    BY ZenonT(30), <2>1, <2>5, <1>3, <1>5 DEF RandTypeOK
  <2>17. \A q \in Alive' : MemoryInv(mem'[q], entropy')
    <3> SUFFICES ASSUME NEW q \in Procs, mem'[q] # NULL PROVE MemoryInv(mem'[q], entropy')
      BY ZenonT(30) DEF Alive
    <3>1. q # p => mem'[q] = mem[q] /\ q \in Alive
      BY ZenonT(30), <2>13 DEF Alive
    <3> QED
      BY ZenonT(30), <3>1, <2>10, <2>14, <1>1 DEF RandInv
  <2>18. \A b \in returned' : b[1] <= entropy'
    BY ZenonT(30), <2>1, <2>12, <1>1 DEF RandInv
  <2>19. Exclusive'
    BY SMTT(30), <2>15 DEF RandInv, Exclusive
  <2>20. NoneTwice'
    <3> SUFFICES ASSUME NEW q \in Procs, NEW u \in Threads, NEW b \in returned', Owns(q, u, b)'
                 PROVE  FALSE
      BY ZenonT(30) DEF NoneTwice
    <3>1. b \in Blocks
      BY ZenonT(30), <2>16 DEF RandTypeOK
    <3>2. Owns(q, u, b) /\ b \in returned
      BY ZenonT(30), <3>1, <2>1, <2>15
    <3> QED
      BY ZenonT(30), <3>2 DEF RandInv, NoneTwice
  <2> QED
    BY ZenonT(30), <2>16, <2>17, <2>18, <2>19, <2>20 DEF RandInv
<1> QED
  BY ZenonT(30), <1>6, <1>7

\* Every step keeps the invariant, except the resumption of a snapshot that
\* nothing tells from its original.
LEMMA RandStep ==
    (~blind => RandTypeOK /\ RandInv) /\ [RandNext]_rand_vars => (~blind => RandTypeOK /\ RandInv)'
<1> SUFFICES ASSUME ~blind => RandTypeOK /\ RandInv, [RandNext]_rand_vars, ~blind'
             PROVE  RandTypeOK' /\ RandInv'
  BY ZenonT(30)
<1>1. CASE RandNext
  <2>1. ASSUME NEW p \in Procs, NEW q \in Procs, snapshot(p, q) PROVE ~blind
    BY ZenonT(30), <2>1 DEF snapshot
  <2>2. ASSUME NEW p \in Procs, RAND_enable_fork_unsafe_buffering(p) PROVE ~blind
    BY ZenonT(30), <2>2 DEF RAND_enable_fork_unsafe_buffering
  <2>3. ASSUME NEW p \in Procs, NEW q \in Procs, NEW t \in Threads, fork(p, q, t) PROVE ~blind
    BY ZenonT(30), <2>3 DEF fork
  <2>4. ASSUME NEW p \in Procs, NEW t \in Threads,
               \/ get_fork_generation(p, t) \/ get_fork_generation_write(p, t)
               \/ additional_data(p, t) \/ RAND_bytes_return(p, t)
        PROVE  ~blind
    BY ZenonT(30), <2>4
       DEF get_fork_generation, get_fork_generation_write, additional_data, RAND_bytes_return
  <2>5. ASSUME NEW p \in Procs, NEW t \in Threads, rand_get_seed(p, t) \/ no_reseed(p, t) PROVE ~blind
    <3>1. \E start : \E stack \in BOOLEAN : CTR_DRBG_generate_from(p, t, start, stack)
      BY ZenonT(30), <2>5 DEF rand_get_seed, no_reseed
    <3>2. UNCHANGED blind
      BY ZenonT(30), <3>1 DEF CTR_DRBG_generate_from
    <3> QED
      BY ZenonT(30), <3>2
  <2>6. ~blind
    BY ZenonT(30), <1>1, <2>1, <2>2, <2>3, <2>4, <2>5 DEF RandNext
  <2> QED
    BY ZenonT(30), <1>1, <2>6, RandUnsafe, RandSnapshot, RandFork, RandRead, RandWrite, RandAdditional,
       RandSeed, RandGoOn, RandReturn DEF RandNext
<1>2. CASE UNCHANGED rand_vars
  BY ZenonT(30), <1>2 DEF rand_vars, RandTypeOK, RandInv, Exclusive, NoneTwice, Owns, Alive
<1> QED
  BY ZenonT(30), <1>1, <1>2

\* Until a snapshot is resumed that nothing tells from its original (Unnoticed),
\* in every address space, at every moment, no block may still be returned by two
\* threads and none that was returned may be returned again: what the fork
\* generation, the generation of the snapshot, the preference for unsafe
\* buffering and the additional data establish together.
THEOREM RandInvariant == RandSpec => [](~blind => RandTypeOK /\ RandInv)
<1>1. RandInit => (~blind => RandTypeOK /\ RandInv)
  BY ZenonT(30), RandStart
<1> QED
  BY <1>1, RandStep, PTL DEF RandSpec

\* What a step may return was not returned before.
ReturnsNew ==
    \A p \in Procs, t \in Threads :
        ~blind /\ Calling(p, t, "check") /\ mem'[p].th[t].pc = "idle" =>
            mem[p].th[t].out \cap returned = {}

\* Only the return of the call itself makes a thread idle after the check.
LEMMA OnlyReturn ==
    ASSUME RandTypeOK, RandNext, NEW p \in Procs, NEW t \in Threads,
           Calling(p, t, "check"), mem'[p].th[t].pc = "idle"
    PROVE  RAND_bytes_return(p, t)
<1>1. /\ p \in Alive /\ mem[p] \in Memories /\ mem[p].th[t].pc = "check"
      /\ mem[p].th \in [Threads -> Calls]
  BY ZenonT(30) DEF Calling, RandTypeOK, Alive, Memories
<1>2. mem'[p].th[t].pc # mem[p].th[t].pc
  BY ZenonT(30), <1>1
<1>3. ASSUME NEW q \in Procs, NEW k, mem' = [mem EXCEPT ![q] = k]
      PROVE  q = p /\ k.th[t].pc = "idle"
  BY ZenonT(30), <1>2, <1>3 DEF RandTypeOK
<1>4. ASSUME NEW q \in Procs, RAND_enable_fork_unsafe_buffering(q) PROVE FALSE
  <2>1. mem' = [mem EXCEPT ![q] = [mem[q] EXCEPT !.unsafe = TRUE]]
    BY ZenonT(30), <1>4 DEF RAND_enable_fork_unsafe_buffering
  <2> QED
    BY ZenonT(30), <2>1, <1>1, <1>3 DEF Memories
<1>5. ASSUME NEW q \in Procs, NEW r \in Procs, snapshot(q, r) PROVE FALSE
  <2>1. r \notin Alive /\ \E k : mem' = [mem EXCEPT ![r] = k]
    BY ZenonT(30), <1>5 DEF snapshot
  <2> QED
    BY ZenonT(30), <2>1, <1>1, <1>3
<1>6. ASSUME NEW q \in Procs, NEW r \in Procs, NEW u \in Threads, fork(q, r, u) PROVE FALSE
  <2>1. r \notin Alive /\ \E k : mem' = [mem EXCEPT ![r] = k]
    BY ZenonT(30), <1>6 DEF fork
  <2> QED
    BY ZenonT(30), <2>1, <1>1, <1>3
<1>7. ASSUME NEW q \in Procs, NEW u \in Threads, NEW y, mem' = [mem EXCEPT ![q].th[u] = y]
      PROVE  q = p /\ u = t
  <2>1. mem' = [mem EXCEPT ![q] = [mem[q] EXCEPT !.th[u] = y]]
    BY ZenonT(30), <1>7
  <2>2. q = p /\ [mem[q] EXCEPT !.th[u] = y].th[t].pc = "idle"
    BY ZenonT(30), <2>1, <1>3
  <2>3. u # t => [mem[p] EXCEPT !.th[u] = y].th[t] = mem[p].th[t]
    BY ZenonT(30), <1>1 DEF Memories
  <2> QED
    BY ZenonT(30), <2>2, <2>3, <1>1
<1>8. ASSUME NEW q \in Procs, NEW u \in Threads, get_fork_generation(q, u) PROVE FALSE
  <2>1. Calling(q, u, "idle") /\ \E y : mem' = [mem EXCEPT ![q].th[u] = y]
    BY ZenonT(30), <1>8 DEF get_fork_generation
  <2> QED
    BY ZenonT(30), <2>1, <1>1, <1>7 DEF Calling
<1>9. ASSUME NEW q \in Procs, NEW u \in Threads, additional_data(q, u) PROVE FALSE
  <2>1. Calling(q, u, "additional") /\ \E y : mem' = [mem EXCEPT ![q].th[u] = y]
    BY ZenonT(30), <1>9 DEF additional_data
  <2> QED
    BY ZenonT(30), <2>1, <1>1, <1>7 DEF Calling
<1>10. ASSUME NEW q \in Procs, NEW u \in Threads, get_fork_generation_write(q, u) PROVE FALSE
  <2>1. /\ Calling(q, u, "fork_write")
        /\ \E g : mem' = [mem EXCEPT ![q] = [mem[q] EXCEPT !.flag = 1, !.gen = g,
                                               !.th[u].pc = "additional", !.th[u].gen = g]]
    BY ZenonT(30), <1>10 DEF get_fork_generation_write
  <2>2. PICK g : mem' = [mem EXCEPT ![q] = [mem[q] EXCEPT !.flag = 1, !.gen = g,
                                               !.th[u].pc = "additional", !.th[u].gen = g]]
    BY ZenonT(30), <2>1
  <2>3. q = p /\ [mem[q] EXCEPT !.flag = 1, !.gen = g, !.th[u].pc = "additional",
                                !.th[u].gen = g].th[t].pc = "idle"
    BY ZenonT(30), <2>2, <1>3
  <2>4. u # t
    BY ZenonT(30), <2>1, <2>3, <1>1 DEF Calling
  <2> QED
    BY ZenonT(30), <2>3, <2>4, <1>1 DEF Memories
<1>11. ASSUME NEW q \in Procs, NEW u \in Threads, Calling(q, u, "generate"),
              NEW start, NEW stack \in BOOLEAN, CTR_DRBG_generate_from(q, u, start, stack)
       PROVE  FALSE
  <2>1. \E x, y : mem' = [mem EXCEPT ![q] = [mem[q] EXCEPT !.tls[u] = x, !.th[u] = y]]
    BY ZenonT(30), <1>11 DEF CTR_DRBG_generate_from
  <2>2. PICK x, y : mem' = [mem EXCEPT ![q] = [mem[q] EXCEPT !.tls[u] = x, !.th[u] = y]]
    BY ZenonT(30), <2>1
  <2>3. q = p /\ [mem[q] EXCEPT !.tls[u] = x, !.th[u] = y].th[t].pc = "idle"
    BY ZenonT(30), <2>2, <1>3
  <2>4. u # t
    BY ZenonT(30), <2>3, <1>1, <1>11 DEF Calling
  <2> QED
    BY ZenonT(30), <2>3, <2>4, <1>1 DEF Memories
<1>12. ASSUME NEW q \in Procs, NEW u \in Threads, rand_get_seed(q, u) \/ no_reseed(q, u) PROVE FALSE
  <2>1. Calling(q, u, "generate") /\ \E start : \E stack \in BOOLEAN : CTR_DRBG_generate_from(q, u, start, stack)
    BY ZenonT(30), <1>12 DEF rand_get_seed, no_reseed
  <2> QED
    BY ZenonT(30), <2>1, <1>11
<1>13. ASSUME NEW q \in Procs, NEW u \in Threads, RAND_bytes_return(q, u) PROVE q = p /\ u = t
  <2> DEFINE th == [v \in Threads |-> [Idle EXCEPT !.pc = "gone"]]
  <2>1. \/ mem' = [mem EXCEPT ![q] = [mem[q] EXCEPT !.th = th]]
        \/ mem' = [mem EXCEPT ![q].th[u] = Idle]
    BY ZenonT(30), <1>13 DEF RAND_bytes_return
  <2>2. ASSUME mem' = [mem EXCEPT ![q] = [mem[q] EXCEPT !.th = th]] PROVE FALSE
    <3>1. q = p /\ [mem[q] EXCEPT !.th = th].th[t].pc = "idle"
      BY ZenonT(30), <2>2, <1>3
    <3>2. th[t].pc = "gone"
      BY ZenonT(30) DEF Idle
    <3> HIDE DEF th
    <3> QED
      BY ZenonT(30), <3>1, <3>2, <1>1 DEF Memories
  <2> QED
    BY ZenonT(30), <2>1, <2>2, <1>7
<1> QED
  BY ZenonT(30), <1>4, <1>5, <1>6, <1>8, <1>9, <1>10, <1>12, <1>13 DEF RandNext

\* A step that returns blocks returns none of those returned before.
LEMMA StepReturnsNew == (~blind => RandTypeOK /\ RandInv) /\ [RandNext]_rand_vars => [ReturnsNew]_rand_vars
<1> SUFFICES ASSUME RandTypeOK, RandInv, RandNext, NEW p \in Procs, NEW t \in Threads,
                    Calling(p, t, "check"), mem'[p].th[t].pc = "idle",
                    NEW b \in mem[p].th[t].out, b \in returned
             PROVE  FALSE
  BY ZenonT(30) DEF ReturnsNew
<1> DEFINE m == mem[p]
           c == m.th[t]
<1>1. RAND_bytes_return(p, t)
  BY ZenonT(30), OnlyReturn
<1>2. p \in Alive /\ c.pc = "check"
  BY ZenonT(30) DEF Calling
<1>3. m \in Memories /\ MemoryInv(m, entropy) /\ SharedInv(m)
  BY ZenonT(30), <1>2, OfAlive
<1>4. m.sgn \in Nat /\ c.sgn \in Nat /\ CallInv(m, t, entropy)
  BY ZenonT(30), <1>3, MemoryParts DEF MemoryInv
<1>5. ~(Snapsafe # "failed" /\ m.sgn # c.sgn)
  <2> SUFFICES ASSUME Snapsafe # "failed" /\ m.sgn # c.sgn PROVE FALSE
    BY ZenonT(30)
  <2>1. mem' = [mem EXCEPT ![p].th = [u \in Threads |-> [Idle EXCEPT !.pc = "gone"]]]
    BY ZenonT(30), <1>1 DEF RAND_bytes_return
  <2>2. mem'[p].th[t].pc = "gone"
    BY ZenonT(30), <2>1, <1>3 DEF RandTypeOK, Memories, Idle
  <2> QED
    BY ZenonT(30), <2>2
<1>6. m.sgn = c.sgn
  BY SMTT(30), <1>3, <1>4, <1>5, KernelAssumption DEF SharedInv, CallInv
<1>7. Owns(p, t, b)
  BY ZenonT(30), <1>2, <1>6 DEF Owns, MayReturn, UnderWay
<1> QED
  BY ZenonT(30), <1>7 DEF RandInv, NoneTwice

\* NeverRepeated for any number of address spaces and threads, any reseed
\* interval and any size of request, on a kernel with or without a page that is
\* wiped on fork, with a generation of the snapshot, without one, or with one
\* that cannot be read: until a snapshot is resumed Unnoticed, RAND_bytes never
\* returns a block twice.
THEOREM NoBlockTwice == RandSpec => NeverRepeated
<1>1. [][ReturnsNew]_rand_vars => NeverRepeated
  BY Zenon DEF ReturnsNew, NeverRepeated
<1> QED
  BY <1>1, RandInvariant, StepReturnsNew, PTL DEF RandSpec
=============================================================================
