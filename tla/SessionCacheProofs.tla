------------------------- MODULE SessionCacheProofs -------------------------
(***************************************************************************)
(* Proofs about the session cache, for every number of threads and         *)
(* sessions, every size, timeout and assignment of IDs.                    *)
(***************************************************************************)
EXTENDS SessionCache, FiniteSetTheorems, TLAPS

\* What a thread of the session cache knows at each point.
ThreadInv(t) ==
    LET x == th[t]
    IN  /\ x.pc \in {"idle", "external"} \/ (x.pc = "sweep" /\ x.to = "idle") => x.s = NULL
        /\ x.pc \in {"update", "update_evict", "clock", "flush", "new_cb", "add", "add_evict",
                     "remove", "unlinked", "expired"} => x.s # NULL
        /\ x.pc = "sweep" => x.to \in {"idle", "new_cb"} /\ (x.to = "new_cb" => x.s # NULL)
        /\ x.pc \in {"add", "add_evict"} => x.to \in {"check", "held"}
        /\ x.pc \in {"remove", "unlinked"} => x.to \in {"held", "expired"}
        /\ x.own # NULL => x.pc \in {"update_evict", "add_evict", "unlinked"}
        /\ x.pc = "unlinked" => x.own = x.s
        /\ x.todo \subseteq Cached(cache) /\ (x.todo # {} => x.pc = "sweep")
        /\ x.at <= now
        /\ x.pc = "expired" \/ (x.pc \in {"remove", "unlinked"} /\ x.to = "expired")
             => ~ssl_session_is_time_valid(x.s)

\* What else the invariant needs: whose turn it is, and the clock.
CacheInv ==
    /\ \A i \in Ids : cache.table[i] # NULL => Id[cache.table[i]] = i
    /\ \A s \in Sessions : time[s] <= now
    /\ \A t, u \in Threads : th[t].pc \in Locking /\ th[u].pc \in Locking => t = u
    /\ \A t \in Threads : ThreadInv(t)

\* A list in which every session is once is no longer than there are sessions.
LEMMA ListLength ==
    ASSUME NEW n \in Nat, NEW w \in [1 .. n -> Sessions],
           \A j, k \in 1 .. n : w[j] = w[k] => j = k
    PROVE  n \in 0 .. Cardinality(Sessions)
<1>1. w \in Injection(1 .. n, Sessions)
  BY ZenonT(30) DEF Injection, IsInjective
<1>2. Cardinality(1 .. n) <= Cardinality(Sessions)
  BY ZenonT(30), <1>1, SetsAssumption, FS_Injection
<1>3. Cardinality(1 .. n) = n
  BY SMTT(30), FS_Interval
<1>4. Cardinality(Sessions) \in Nat
  BY ZenonT(30), SetsAssumption, FS_CardinalityType
<1> QED BY SMTT(30), <1>2, <1>3, <1>4

\* SSL_SESSION_list_remove takes exactly one session off a list, wherever it
\* stands, and does nothing for one that is not on it.
LEMMA ListRemove ==
    ASSUME NEW c \in Caches, NEW S, Lists(c, S), NEW s \in Sessions
    PROVE  /\ SSL_SESSION_list_remove(c, s) \in Caches
           /\ SSL_SESSION_list_remove(c, s).table = c.table
           /\ Lists(SSL_SESSION_list_remove(c, s), S \ {s})
<1>0. PICK n \in 0 .. Cardinality(Sessions) : \E w \in [1 .. n -> Sessions] :
        /\ Linked(c, w, n)
        /\ \A j, k \in 1 .. n : w[j] = w[k] => j = k
        /\ {w[k] : k \in 1 .. n} = S
  BY Zenon DEF Lists
<1>1. PICK w \in [1 .. n -> Sessions] :
        /\ Linked(c, w, n)
        /\ \A j, k \in 1 .. n : w[j] = w[k] => j = k
        /\ {w[k] : k \in 1 .. n} = S
  BY Zenon, <1>0
<1>2. n \in Nat
  BY SMTT(30), SetsAssumption, FS_CardinalityType
<1>3. CASE \A k \in 1 .. n : w[k] # s
  <2>1. c.next[s] = NULL
    BY Zenon, <1>1, <1>3 DEF Linked
  <2>2. SSL_SESSION_list_remove(c, s) = c
    BY Zenon, <2>1 DEF SSL_SESSION_list_remove
  <2>3. S \ {s} = S
    BY Zenon, <1>1, <1>3
  <2> QED BY Zenon, <2>2, <2>3
<1>4. CASE \E m \in 1 .. n : w[m] = s
  <2>1. PICK m \in 1 .. n : w[m] = s
    BY ZenonT(30), <1>4
  <2> DEFINE nx == c.next[s]
             pv == c.prev[s]
             d == SSL_SESSION_list_remove(c, s)
             v == [k \in 1 .. n - 1 |-> IF k < m THEN w[k] ELSE w[k + 1]]
  <2>2. /\ nx = IF m = n THEN TAIL ELSE w[m + 1]
        /\ pv = IF m = 1 THEN HEAD ELSE w[m - 1]
        /\ nx # NULL /\ pv # NULL
        /\ m # n => nx \in Sessions /\ nx # TAIL /\ nx # s
        /\ m # 1 => pv \in Sessions /\ pv # HEAD /\ pv # s
    BY SMTT(30), <1>1, <1>2, <2>1, PointersAssumption DEF Linked
  <2>3. /\ d \in Caches /\ d.table = c.table
        /\ d.head = IF m = 1 THEN IF m = n THEN NULL ELSE nx ELSE c.head
        /\ d.tail = IF m = n THEN IF m = 1 THEN NULL ELSE pv ELSE c.tail
        /\ d.next = [x \in Sessions |-> IF x = s THEN NULL ELSE
                                        IF m # 1 /\ x = pv THEN nx ELSE c.next[x]]
        /\ d.prev = [x \in Sessions |-> IF x = s THEN NULL ELSE
                                        IF m # n /\ x = nx THEN pv ELSE c.prev[x]]
    <3> HIDE DEF nx, pv
    <3>1. CASE m = n /\ m = 1
      BY ZenonT(30), <2>2, <3>1 DEF SSL_SESSION_list_remove, nx, pv, Caches, Pointers
    <3>2. CASE m = n /\ m # 1
      BY ZenonT(30), <2>2, <3>2 DEF SSL_SESSION_list_remove, nx, pv, Caches, Pointers
    <3>3. CASE m # n /\ m = 1
      BY ZenonT(30), <2>2, <3>3 DEF SSL_SESSION_list_remove, nx, pv, Caches, Pointers
    <3>4. CASE m # n /\ m # 1
      BY ZenonT(30), <2>2, <3>4 DEF SSL_SESSION_list_remove, nx, pv, Caches, Pointers
    <3> QED BY ZenonT(30), <3>1, <3>2, <3>3, <3>4
  <2> HIDE DEF d, nx, pv
  <2>4. /\ n - 1 \in Nat /\ v \in [1 .. n - 1 -> Sessions]
        /\ \A j, k \in 1 .. n - 1 : v[j] = v[k] => j = k
    BY SMTT(30), <1>1, <1>2, <2>1
  <2>5. {v[k] : k \in 1 .. n - 1} = S \ {s}
    <3>1. ASSUME NEW k \in 1 .. n - 1 PROVE v[k] \in S \ {s}
      BY SMTT(30), <1>1, <1>2, <2>1
    <3>2. ASSUME NEW x \in S \ {s} PROVE \E k \in 1 .. n - 1 : v[k] = x
      <4>1. PICK k \in 1 .. n : w[k] = x
        BY ZenonT(30), <1>1
      <4>2. CASE k < m
        BY SMTT(30), <4>1, <4>2, <2>1, <1>2
      <4>3. CASE k > m
        <5>1. k - 1 \in 1 .. n - 1 /\ v[k - 1] = w[k]
          BY SMTT(30), <4>3, <2>1, <1>2
        <5> QED BY ZenonT(30), <5>1, <4>1
      <4> QED BY SMTT(30), <4>1, <4>2, <4>3, <2>1, <1>2
    <3> QED BY ZenonT(30), <3>1, <3>2
  <2>6. Linked(d, v, n - 1)
    <3>1. /\ d.head = IF n - 1 = 0 THEN NULL ELSE v[1]
          /\ d.tail = IF n - 1 = 0 THEN NULL ELSE v[n - 1]
      BY SMTT(30), <1>1, <1>2, <2>1, <2>2, <2>3 DEF Linked
    <3>2. ASSUME NEW k \in 1 .. n - 1
          PROVE  /\ d.next[v[k]] = IF k = n - 1 THEN TAIL ELSE v[k + 1]
                 /\ d.prev[v[k]] = IF k = 1 THEN HEAD ELSE v[k - 1]
      <4> DEFINE q == IF k < m THEN k ELSE k + 1
      <4>1. /\ q \in 1 .. n /\ q # m /\ v[k] = w[q] /\ w[q] \in Sessions /\ w[q] # s
        BY SMTT(30), <1>1, <1>2, <2>1
      <4>2. /\ c.next[w[q]] = IF q = n THEN TAIL ELSE w[q + 1]
            /\ c.prev[w[q]] = IF q = 1 THEN HEAD ELSE w[q - 1]
        <5> HIDE DEF q
        <5> QED BY Zenon, <1>1, <4>1 DEF Linked
      <4>3. /\ (m # 1 /\ w[q] = pv) <=> q = m - 1
            /\ (m # n /\ w[q] = nx) <=> q = m + 1
        <5>1. m # 1 => m - 1 \in 1 .. n /\ pv = w[m - 1]
          BY SMTT(30), <1>2, <2>1, <2>2
        <5>2. m # n => m + 1 \in 1 .. n /\ nx = w[m + 1]
          BY SMTT(30), <1>2, <2>1, <2>2
        <5> HIDE DEF q
        <5> QED BY SMTT(30), <1>1, <4>1, <5>1, <5>2, <1>2, <2>1
      <4>4. /\ d.next[v[k]] = IF q = m - 1 THEN nx ELSE c.next[w[q]]
            /\ d.prev[v[k]] = IF q = m + 1 THEN pv ELSE c.prev[w[q]]
        <5> HIDE DEF q
        <5> QED BY SMTT(30), <2>3, <4>1, <4>3
      <4>5. d.next[v[k]] = IF k = n - 1 THEN TAIL ELSE v[k + 1]
        <5>1. CASE k + 1 < m
          BY SMTT(30), <4>2, <4>4, <5>1, <1>2, <2>1
        <5>2. CASE k + 1 = m
          BY SMTT(30), <2>2, <4>4, <5>2, <1>2, <2>1
        <5>3. CASE k >= m
          BY SMTT(30), <4>2, <4>4, <5>3, <1>2, <2>1
        <5> QED BY SMTT(30), <5>1, <5>2, <5>3, <1>2, <2>1
      <4>6. d.prev[v[k]] = IF k = 1 THEN HEAD ELSE v[k - 1]
        <5>1. CASE k < m
          BY SMTT(30), <4>2, <4>4, <5>1, <1>2, <2>1
        <5>2. CASE k = m
          BY SMTT(30), <2>2, <4>4, <5>2, <1>2, <2>1
        <5>3. CASE k > m
          BY SMTT(30), <4>2, <4>4, <5>3, <1>2, <2>1
        <5> QED BY SMTT(30), <5>1, <5>2, <5>3, <1>2, <2>1
      <4> QED BY ZenonT(30), <4>5, <4>6
    <3>3. ASSUME NEW x \in Sessions, \A k \in 1 .. n - 1 : v[k] # x
          PROVE  d.next[x] = NULL /\ d.prev[x] = NULL
      <4>1. CASE x = s
        BY ZenonT(30), <2>3, <4>1
      <4>2. CASE x # s
        <5>1. x \notin S
          <6> HIDE DEF v
          <6> QED BY Zenon, <2>5, <3>3, <4>2
        <5>0. \A k \in 1 .. n : w[k] # x
          BY Zenon, <1>1, <5>1
        <5>2. c.next[x] = NULL /\ c.prev[x] = NULL
          BY Zenon, <1>1, <5>0 DEF Linked
        <5>3. m # 1 => pv \in S
          BY SMTT(30), <1>1, <1>2, <2>1, <2>2
        <5>4. m # n => nx \in S
          BY SMTT(30), <1>1, <1>2, <2>1, <2>2
        <5> QED BY ZenonT(30), <2>3, <4>2, <5>1, <5>2, <5>3, <5>4
      <4> QED BY ZenonT(30), <4>1, <4>2
    <3> QED BY ZenonT(30), <3>1, <3>2, <3>3 DEF Linked
  <2>7. n - 1 \in 0 .. Cardinality(Sessions)
    BY ZenonT(30), <2>4, ListLength
  <2> QED BY ZenonT(30), <2>3, <2>4, <2>5, <2>6, <2>7 DEF Lists, d
<1> QED BY ZenonT(30), <1>3, <1>4

\* SSL_SESSION_list_add puts a session that is not on the list at its front.
LEMMA ListAdd ==
    ASSUME NEW c \in Caches, NEW S, Lists(c, S), NEW s \in Sessions, s \notin S
    PROVE  /\ SSL_SESSION_list_add(c, s) \in Caches
           /\ SSL_SESSION_list_add(c, s).table = c.table
           /\ Lists(SSL_SESSION_list_add(c, s), S \cup {s})
<1>0. PICK n \in 0 .. Cardinality(Sessions) : \E w \in [1 .. n -> Sessions] :
        /\ Linked(c, w, n)
        /\ \A j, k \in 1 .. n : w[j] = w[k] => j = k
        /\ {w[k] : k \in 1 .. n} = S
  BY Zenon DEF Lists
<1>1. PICK w \in [1 .. n -> Sessions] :
        /\ Linked(c, w, n)
        /\ \A j, k \in 1 .. n : w[j] = w[k] => j = k
        /\ {w[k] : k \in 1 .. n} = S
  BY Zenon, <1>0
<1>2. n \in Nat
  BY SMTT(30), SetsAssumption, FS_CardinalityType
<1>3. \A k \in 1 .. n : w[k] # s
  BY Zenon, <1>1
<1>4. c.next[s] = NULL
  BY Zenon, <1>1, <1>3 DEF Linked
<1> DEFINE d == SSL_SESSION_list_add(c, s)
           v == [k \in 1 .. n + 1 |-> IF k = 1 THEN s ELSE w[k - 1]]
<1>5. n = 0 => c.head = NULL
  BY Zenon, <1>1 DEF Linked
<1>6. n # 0 => 1 \in 1 .. n /\ c.head = w[1] /\ w[1] \in Sessions /\ c.tail = w[n]
  BY SMTT(30), <1>1, <1>2 DEF Linked
<1>7. n # 0 => c.head # NULL /\ c.head # s
  BY ZenonT(30), <1>3, <1>6, PointersAssumption
<1>8. /\ d \in Caches /\ d.table = c.table
      /\ d.head = s /\ d.tail = IF n = 0 THEN s ELSE c.tail
      /\ d.next = [x \in Sessions |-> IF x = s THEN IF n = 0 THEN TAIL ELSE c.head ELSE c.next[x]]
      /\ d.prev = [x \in Sessions |-> IF x = s THEN HEAD ELSE
                                       IF n # 0 /\ x = c.head THEN s ELSE c.prev[x]]
  <2>1. CASE n = 0
    BY ZenonT(30), <1>4, <1>5, <2>1 DEF SSL_SESSION_list_add, Caches, Pointers
  <2>2. CASE n # 0
    BY ZenonT(30), <1>4, <1>6, <1>7, <2>2 DEF SSL_SESSION_list_add, Caches, Pointers
  <2> QED BY ZenonT(30), <2>1, <2>2
<1> HIDE DEF d
<1>9. /\ n + 1 \in Nat /\ v \in [1 .. n + 1 -> Sessions] /\ v[1] = s
      /\ \A k \in 1 .. n : k + 1 \in 1 .. n + 1 /\ v[k + 1] = w[k]
      /\ \A k \in 1 .. n + 1 : k = 1 \/ (k - 1 \in 1 .. n /\ v[k] = w[k - 1])
  BY SMTT(30), <1>1, <1>2
<1> HIDE DEF v
<1>10. \A j, k \in 1 .. n + 1 : v[j] = v[k] => j = k
  BY SMTT(30), <1>1, <1>2, <1>3, <1>9
<1>11. {v[k] : k \in 1 .. n + 1} = S \cup {s}
  <2>1. ASSUME NEW k \in 1 .. n + 1 PROVE v[k] \in S \cup {s}
    BY SMTT(30), <1>1, <1>9
  <2>2. ASSUME NEW x \in S PROVE \E k \in 1 .. n + 1 : v[k] = x
    <3>1. PICK k \in 1 .. n : w[k] = x
      BY Zenon, <1>1
    <3>2. k + 1 \in 1 .. n + 1 /\ v[k + 1] = x
      BY Zenon, <1>9, <3>1
    <3> QED BY Zenon, <3>2
  <2>3. 1 \in 1 .. n + 1
    BY SMTT(30), <1>2
  <2>4. \E k \in 1 .. n + 1 : v[k] = s
    BY Zenon, <2>3, <1>9
  <2> QED BY ZenonT(30), <2>1, <2>2, <2>4
<1>12. Linked(d, v, n + 1)
  <2>1. d.head = v[1] /\ d.tail = v[n + 1] /\ n + 1 # 0
    BY SMTT(30), <1>2, <1>6, <1>8, <1>9
  <2>2. ASSUME NEW k \in 1 .. n + 1
        PROVE  /\ d.next[v[k]] = IF k = n + 1 THEN TAIL ELSE v[k + 1]
               /\ d.prev[v[k]] = IF k = 1 THEN HEAD ELSE v[k - 1]
    <3>1. CASE k = 1
      <4>1. d.next[s] = IF n = 0 THEN TAIL ELSE c.head
        BY ZenonT(30), <1>8
      <4>2. d.prev[s] = HEAD
        BY ZenonT(30), <1>8
      <4>3. n # 0 => v[2] = w[1]
        BY SMTT(30), <1>2, <1>9
      <4> QED BY SMTT(30), <1>2, <1>6, <1>9, <3>1, <4>1, <4>2, <4>3
    <3>2. CASE k # 1
      <4> DEFINE q == k - 1
      <4>1. q \in 1 .. n /\ v[k] = w[q] /\ w[q] \in Sessions /\ w[q] # s /\ n # 0 /\ k = q + 1
        BY SMTT(30), <1>1, <1>2, <1>3, <1>9, <3>2
      <4> HIDE DEF q
      <4>2. /\ c.next[w[q]] = IF q = n THEN TAIL ELSE w[q + 1]
            /\ c.prev[w[q]] = IF q = 1 THEN HEAD ELSE w[q - 1]
        BY Zenon, <1>1, <4>1 DEF Linked
      <4>3. w[q] = c.head <=> q = 1
        BY ZenonT(30), <1>1, <1>6, <4>1
      <4>4. /\ d.next[v[k]] = c.next[w[q]]
            /\ d.prev[v[k]] = IF q = 1 THEN s ELSE c.prev[w[q]]
        BY SMTT(30), <1>8, <4>1, <4>3
      <4>5. q # n => v[k + 1] = w[q + 1]
        BY SMTT(30), <1>2, <1>9, <4>1
      <4>6. v[q] = IF q = 1 THEN s ELSE w[q - 1]
        BY SMTT(30), <1>2, <1>9, <4>1
      <4> QED BY SMTT(30), <1>2, <4>1, <4>2, <4>4, <4>5, <4>6
    <3> QED BY ZenonT(30), <3>1, <3>2
  <2>3. ASSUME NEW x \in Sessions, \A k \in 1 .. n + 1 : v[k] # x
        PROVE  d.next[x] = NULL /\ d.prev[x] = NULL
    <3>1. x # s /\ \A k \in 1 .. n : w[k] # x
      BY SMTT(30), <1>2, <1>9, <2>3
    <3>2. c.next[x] = NULL /\ c.prev[x] = NULL
      BY Zenon, <1>1, <3>1 DEF Linked
    <3> QED BY ZenonT(30), <1>6, <1>8, <3>1, <3>2
  <2> QED BY Zenon, <2>1, <2>2, <2>3 DEF Linked
<1>13. n + 1 \in 0 .. Cardinality(Sessions)
  BY ZenonT(30), <1>9, <1>10, ListLength
<1>14. Lists(d, S \cup {s})
  BY Zenon, <1>9, <1>10, <1>11, <1>12, <1>13 DEF Lists
<1> QED BY Zenon, <1>8, <1>14 DEF d

\* What the list is depends on the pointers only.
LEMMA SameLinks ==
    ASSUME NEW c, NEW d, NEW S, Lists(c, S), d.head = c.head, d.tail = c.tail,
           d.next = c.next, d.prev = c.prev
    PROVE  Lists(d, S)
<1>0. PICK n \in 0 .. Cardinality(Sessions) : \E w \in [1 .. n -> Sessions] :
        /\ Linked(c, w, n)
        /\ \A j, k \in 1 .. n : w[j] = w[k] => j = k
        /\ {w[k] : k \in 1 .. n} = S
  BY Zenon DEF Lists
<1>1. PICK w \in [1 .. n -> Sessions] :
        /\ Linked(c, w, n)
        /\ \A j, k \in 1 .. n : w[j] = w[k] => j = k
        /\ {w[k] : k \in 1 .. n} = S
  BY Zenon, <1>0
<1>2. Linked(d, w, n)
  BY ZenonT(30), <1>1 DEF Linked
<1> QED BY ZenonT(60), <1>1, <1>2 DEF Lists

\* Each session is in the table under its own ID.
Keyed(c) == \A i \in Ids : c.table[i] # NULL => Id[c.table[i]] = i

\* What holds of the cache itself.
GoodCache(c) == c \in Caches /\ Keyed(c) /\ Lists(c, Cached(c))

\* A session is in the cache if it is what the table has for its ID.
LEMMA CachedByID ==
    ASSUME NEW c \in Caches, Keyed(c), NEW s \in Sessions
    PROVE  (s \in Cached(c) <=> c.table[Id[s]] = s) /\ Cached(c) \subseteq Sessions
<1>0. c.table \in [Ids -> Sessions \cup {NULL}]
  BY ZenonT(30) DEF Caches
<1>2. Cached(c) \subseteq Sessions
  BY ZenonT(30), <1>0 DEF Cached, Items
<1>1. Id[s] \in Ids /\ s # NULL
  BY ZenonT(30), SetsAssumption, PointersAssumption
<1> QED BY Zenon, <1>1, <1>2 DEF Keyed, Cached, Items

\* Unlink takes out of the cache the session it is given, and no other.
LEMMA UnlinkOne ==
    ASSUME NEW c, GoodCache(c), NEW s \in Sessions, s \in Cached(c)
    PROVE  /\ GoodCache(Unlink(c, s))
           /\ Unlink(c, s).table = [c.table EXCEPT ![Id[s]] = NULL]
           /\ Cached(Unlink(c, s)) = Cached(c) \ {s}
<1> DEFINE r == SSL_SESSION_list_remove(c, s)
           d == Unlink(c, s)
<1>1. r \in Caches /\ r.table = c.table /\ Lists(r, Cached(c) \ {s})
  BY Zenon, ListRemove DEF GoodCache
<1>2. Id[s] \in Ids /\ c.table[Id[s]] = s /\ s # NULL /\ c \in Caches
  BY ZenonT(30), CachedByID, SetsAssumption, PointersAssumption DEF GoodCache
<1> HIDE DEF r
<1>3. d = [r EXCEPT !.table[Id[s]] = NULL]
  BY Zenon DEF Unlink, r
<1> HIDE DEF d
<1>4. /\ d \in Caches /\ d.table = [c.table EXCEPT ![Id[s]] = NULL]
      /\ d.head = r.head /\ d.tail = r.tail /\ d.next = r.next /\ d.prev = r.prev
  BY ZenonT(30), <1>1, <1>2, <1>3 DEF Caches
<1>5. /\ c.table \in [Ids -> Sessions \cup {NULL}]
      /\ \A i \in Ids : d.table[i] = IF i = Id[s] THEN NULL ELSE c.table[i]
  BY ZenonT(30), <1>2, <1>4 DEF Caches
<1>6. Keyed(d)
  BY Zenon, <1>5 DEF Keyed, GoodCache
<1>7. Cached(d) = Cached(c) \ {s}
  <2>1. ASSUME NEW x \in Sessions PROVE x \in Cached(d) <=> x \in Cached(c) \ {s}
    <3>1. x \in Cached(d) <=> d.table[Id[x]] = x
      BY Zenon, CachedByID, <1>4, <1>6
    <3>2. x \in Cached(c) <=> c.table[Id[x]] = x
      BY Zenon, CachedByID, <1>2 DEF GoodCache
    <3>3. Id[x] \in Ids /\ x # NULL
      BY ZenonT(30), SetsAssumption, PointersAssumption
    <3>4. d.table[Id[x]] = IF Id[x] = Id[s] THEN NULL ELSE c.table[Id[x]]
      BY Zenon, <1>5, <3>3
    <3> QED BY Zenon, <1>2, <3>1, <3>2, <3>3, <3>4
  <2>2. Cached(d) \subseteq Sessions /\ Cached(c) \subseteq Sessions
    BY Zenon, CachedByID, <1>2, <1>4, <1>6 DEF GoodCache
  <2> QED BY Zenon, <2>1, <2>2
<1>8. Lists(d, Cached(c) \ {s})
  BY Zenon, <1>1, <1>4, SameLinks
<1> QED BY Zenon, <1>4, <1>6, <1>7, <1>8 DEF GoodCache, d

\* The cache that Insert leaves.
Inserted(c, s) ==
    LET old == c.table[Id[s]]
        in == [c EXCEPT !.table[Id[s]] = s]
    IN  SSL_SESSION_list_add(IF old = NULL THEN in ELSE SSL_SESSION_list_remove(in, old), s)

\* Insert puts its session in, and takes out the one with the same ID if there
\* is one.
LEMMA InsertOne ==
    ASSUME NEW c, GoodCache(c), NEW s \in Sessions, c.table[Id[s]] # s
    PROVE  /\ GoodCache(Inserted(c, s))
           /\ Inserted(c, s).table = [c.table EXCEPT ![Id[s]] = s]
           /\ Cached(Inserted(c, s)) = (Cached(c) \ {c.table[Id[s]]}) \cup {s}
           /\ s \notin Cached(c)
           /\ c.table[Id[s]] # NULL => c.table[Id[s]] \in Cached(c) /\ c.table[Id[s]] \in Sessions
<1> DEFINE old == c.table[Id[s]]
           in == [c EXCEPT !.table[Id[s]] = s]
           d == Inserted(c, s)
<1>1. Id[s] \in Ids /\ s # NULL /\ c \in Caches /\ Lists(c, Cached(c)) /\ Keyed(c)
  BY ZenonT(30), SetsAssumption, PointersAssumption DEF GoodCache
<1>2. /\ in \in Caches /\ in.table = [c.table EXCEPT ![Id[s]] = s]
      /\ in.head = c.head /\ in.tail = c.tail /\ in.next = c.next /\ in.prev = c.prev
      /\ old \in Sessions \cup {NULL} /\ c.table \in [Ids -> Sessions \cup {NULL}]
  BY ZenonT(30), <1>1 DEF Caches
<1>3. Lists(in, Cached(c))
  BY Zenon, <1>1, <1>2, SameLinks
<1>4. s \notin Cached(c)
  BY Zenon, <1>1, CachedByID
<1>5. old # NULL => old \in Cached(c) /\ old \in Sessions
  BY Zenon, <1>1, <1>2 DEF Cached, Items
<1> DEFINE r == IF old = NULL THEN in ELSE SSL_SESSION_list_remove(in, old)
<1>6. r \in Caches /\ r.table = in.table /\ Lists(r, Cached(c) \ {old})
  <2>1. CASE old = NULL
    <3>1. NULL \notin Cached(c)
      BY Zenon DEF Cached, Items
    <3>2. Cached(c) \ {old} = Cached(c)
      BY Zenon, <2>1, <3>1
    <3> QED BY Zenon, <1>2, <1>3, <2>1, <3>2
  <2>2. CASE old # NULL
    BY Zenon, <1>2, <1>3, <1>5, <2>2, ListRemove
  <2> QED BY Zenon, <2>1, <2>2
<1> HIDE DEF r
<1>7. d = SSL_SESSION_list_add(r, s)
  BY Zenon DEF r, Inserted
<1> HIDE DEF d
<1>8. d \in Caches /\ d.table = in.table /\ Lists(d, (Cached(c) \ {old}) \cup {s})
  <2>1. s \notin Cached(c) \ {old}
    BY Zenon, <1>4
  <2>2. /\ SSL_SESSION_list_add(r, s) \in Caches
        /\ SSL_SESSION_list_add(r, s).table = r.table
        /\ Lists(SSL_SESSION_list_add(r, s), (Cached(c) \ {old}) \cup {s})
    BY ZenonT(30), <1>6, <2>1, ListAdd
  <2> QED BY Zenon, <1>6, <1>7, <2>2
<1>9. \A i \in Ids : d.table[i] = IF i = Id[s] THEN s ELSE c.table[i]
  BY ZenonT(30), <1>1, <1>2, <1>8
<1>10. Keyed(d)
  BY Zenon, <1>1, <1>9 DEF Keyed
<1>11. Cached(d) = (Cached(c) \ {old}) \cup {s}
  <2>1. ASSUME NEW x \in Sessions PROVE x \in Cached(d) <=> x \in (Cached(c) \ {old}) \cup {s}
    <3>1. x \in Cached(d) <=> d.table[Id[x]] = x
      BY Zenon, CachedByID, <1>8, <1>10
    <3>2. x \in Cached(c) <=> c.table[Id[x]] = x
      BY Zenon, CachedByID, <1>1
    <3>3. Id[x] \in Ids /\ x # NULL
      BY ZenonT(30), SetsAssumption, PointersAssumption
    <3>4. d.table[Id[x]] = IF Id[x] = Id[s] THEN s ELSE c.table[Id[x]]
      BY Zenon, <1>9, <3>3
    <3>5. old = x => Id[x] = Id[s]
      BY Zenon, <1>1, <3>3 DEF Keyed
    <3> QED BY Zenon, <1>4, <3>1, <3>2, <3>3, <3>4, <3>5
  <2>2. Cached(d) \subseteq Sessions /\ Cached(c) \subseteq Sessions
    BY Zenon, CachedByID, <1>1, <1>8, <1>10
  <2> QED BY Zenon, <2>1, <2>2
<1> QED BY Zenon, <1>2, <1>4, <1>5, <1>8, <1>10, <1>11 DEF GoodCache, d

-----------------------------------------------------------------------------
\* Two sets of threads that differ in t at most.
LEMMA OneThread ==
    ASSUME NEW t \in Threads, NEW A \in SUBSET Threads, NEW B \in SUBSET Threads,
           A \ {t} = B \ {t}
    PROVE  /\ Cardinality(A) \in Nat /\ Cardinality(B) \in Nat
           /\ Cardinality(B) = Cardinality(A) + (IF t \in B THEN 1 ELSE 0)
                                              - (IF t \in A THEN 1 ELSE 0)
<1>1. IsFiniteSet(A) /\ IsFiniteSet(B)
  BY ZenonT(30), SetsAssumption, FS_Subset
<1>2. Cardinality(A) \in Nat /\ Cardinality(B) \in Nat
  BY ZenonT(30), <1>1, FS_CardinalityType
<1>3. Cardinality(A \ {t}) = IF t \in A THEN Cardinality(A) - 1 ELSE Cardinality(A)
  BY ZenonT(30), <1>1, FS_RemoveElement
<1>4. Cardinality(B \ {t}) = IF t \in B THEN Cardinality(B) - 1 ELSE Cardinality(B)
  BY ZenonT(30), <1>1, FS_RemoveElement
<1> QED BY SMTT(30), <1>2, <1>3, <1>4

CacheIInv == TypeOK /\ CacheInv /\ ListMatchesTable /\ ReferencesAreOwners

\* What the change of a count is made of.
Change(s, x, y, C, D, E, F) ==
      (IF y.s = s THEN 1 ELSE 0) - (IF x.s = s THEN 1 ELSE 0)
    + (IF y.own = s THEN 1 ELSE 0) - (IF x.own = s THEN 1 ELSE 0)
    + (IF s \in D THEN 1 ELSE 0) - (IF s \in C THEN 1 ELSE 0)
    + (IF s \in F THEN 1 ELSE 0) - (IF s \in E THEN 1 ELSE 0)

\* What is left to show of a step of thread t: that the cache it leaves is a
\* good one, that it changed the cache and took the lock only when it might,
\* that the references it took and gave up are those of the owners that came
\* and went, and where the thread itself is.
LEMMA ThreadStep ==
    ASSUME CacheIInv, NEW t \in Threads,
           now' = now, time' \in [Sessions -> 0 .. MaxTime], \A s \in Sessions : time'[s] <= now,
           \A s \in Sessions : refs[s] # 0 => time'[s] = time[s],
           GoodCache(cache'), handshakes' \in 0 .. FlushEvery - 1, ext' \in SUBSET Sessions,
           th' \in [Threads -> ThreadStates], \A u \in Threads : u # t => th'[u] = th[u],
           th'[t].pc \in Locking => th[t].pc \in Locking \/ Unlocked,
           cache' = cache \/ th[t].pc \in Locking \/ Unlocked,
           ThreadInv(t)',
           refs' \in [Sessions -> Int],
           \A s \in Sessions : refs'[s] = refs[s] + Change(s, th[t], th'[t], Cached(cache), Cached(cache'), ext, ext')
    PROVE  CacheIInv'
<1> USE DEF CacheIInv
<1>1. ASSUME NEW s \in Sessions
      PROVE  /\ refs'[s] = Cardinality({u \in Threads : th'[u].s = s})
                           + Cardinality({u \in Threads : th'[u].own = s})
                           + (IF s \in Cached(cache') THEN 1 ELSE 0) + (IF s \in ext' THEN 1 ELSE 0)
             /\ refs'[s] \in Nat
  <2> DEFINE A == {u \in Threads : th[u].s = s}
             B == {u \in Threads : th'[u].s = s}
             C == {u \in Threads : th[u].own = s}
             D == {u \in Threads : th'[u].own = s}
  <2>1. /\ A \in SUBSET Threads /\ B \in SUBSET Threads /\ A \ {t} = B \ {t}
        /\ t \in A <=> th[t].s = s
        /\ t \in B <=> th'[t].s = s
    BY Zenon
  <2>2. /\ C \in SUBSET Threads /\ D \in SUBSET Threads /\ C \ {t} = D \ {t}
        /\ t \in C <=> th[t].own = s
        /\ t \in D <=> th'[t].own = s
    BY Zenon
  <2>3. refs[s] = Cardinality(A) + Cardinality(C)
                  + (IF s \in Cached(cache) THEN 1 ELSE 0) + (IF s \in ext THEN 1 ELSE 0)
    BY Zenon DEF ReferencesAreOwners
  <2> HIDE DEF A, B, C, D
  <2>4. /\ Cardinality(A) \in Nat /\ Cardinality(B) \in Nat
        /\ Cardinality(B) = Cardinality(A) + (IF th'[t].s = s THEN 1 ELSE 0)
                                           - (IF th[t].s = s THEN 1 ELSE 0)
    BY SMTT(30), <2>1, OneThread
  <2>5. /\ Cardinality(C) \in Nat /\ Cardinality(D) \in Nat
        /\ Cardinality(D) = Cardinality(C) + (IF th'[t].own = s THEN 1 ELSE 0)
                                           - (IF th[t].own = s THEN 1 ELSE 0)
    BY SMTT(30), <2>2, OneThread
  <2>6. /\ refs'[s] = Cardinality(B) + Cardinality(D)
                       + (IF s \in Cached(cache') THEN 1 ELSE 0) + (IF s \in ext' THEN 1 ELSE 0)
        /\ refs'[s] \in Nat
    <3>1. refs'[s] = refs[s]
              + ((IF th'[t].s = s THEN 1 ELSE 0) - (IF th[t].s = s THEN 1 ELSE 0)
                 + (IF th'[t].own = s THEN 1 ELSE 0) - (IF th[t].own = s THEN 1 ELSE 0)
                 + (IF s \in Cached(cache') THEN 1 ELSE 0) - (IF s \in Cached(cache) THEN 1 ELSE 0)
                 + (IF s \in ext' THEN 1 ELSE 0) - (IF s \in ext THEN 1 ELSE 0))
      BY Zenon DEF Change
    <3> QED BY SMTT(30), <2>3, <2>4, <2>5, <3>1
  <2> QED BY Zenon, <2>6 DEF B, D
<1>2. Cached(cache)' = Cached(cache')
  BY ZenonT(30) DEF Cached, Items
<1>3. ReferencesAreOwners'
  BY Zenon, <1>1, <1>2 DEF ReferencesAreOwners
<1>4. TypeOK'
  <2>1. refs' \in [Sessions -> Nat]
    BY ZenonT(30), <1>1
  <2> QED BY ZenonT(30), <2>1 DEF TypeOK, GoodCache
<1>5. ListMatchesTable'
  BY Zenon, <1>2 DEF ListMatchesTable, GoodCache, Lists, Linked
<1>6. CacheInv'
  <2>1. \A i \in Ids : cache'.table[i] # NULL => Id[cache'.table[i]] = i
    BY Zenon DEF GoodCache, Keyed
  <2>2. ASSUME NEW u \in Threads, NEW v \in Threads, th'[u].pc \in Locking, th'[v].pc \in Locking
        PROVE  u = v
    BY Zenon, <2>2 DEF CacheInv, Unlocked
  <2>3. ASSUME NEW u \in Threads PROVE ThreadInv(u)'
    <3>1. CASE u = t
      BY Zenon, <3>1
    <3>2. CASE u # t
      <4>1. th'[u] = th[u] /\ ThreadInv(u)
        BY Zenon, <3>2 DEF CacheInv
      <4>2. th[u].todo \subseteq Cached(cache')
        <5>1. CASE cache' = cache
          BY Zenon, <4>1, <5>1 DEF ThreadInv
        <5>2. CASE th[t].pc \in Locking \/ Unlocked
          <6>1. th[u].pc \notin Locking
            BY Zenon, <3>2, <5>2 DEF CacheInv, Unlocked
          <6>2. th[u].pc # "sweep"
            BY ZenonT(30), <6>1 DEF Locking
          <6>3. th[u].todo = {}
            BY Zenon, <4>1, <6>2 DEF ThreadInv
          <6> QED BY Zenon, <6>3
        <5> QED BY Zenon, <5>1, <5>2
      <4>3. th[u].s # NULL => time'[th[u].s] = time[th[u].s]
        <5>1. SUFFICES ASSUME th[u].s # NULL PROVE time'[th[u].s] = time[th[u].s]
          BY Zenon
        <5> DEFINE s == th[u].s
        <5>2. s \in Sessions
          BY ZenonT(30), <5>1 DEF TypeOK, ThreadStates
        <5>3. refs[s] # 0
          <6> DEFINE A == {v \in Threads : th[v].s = s}
                     C == {v \in Threads : th[v].own = s}
          <6>1. IsFiniteSet(A) /\ IsFiniteSet(C) /\ u \in A
            BY ZenonT(30), SetsAssumption, FS_Subset
          <6>2. refs[s] = Cardinality(A) + Cardinality(C)
                  + (IF s \in Cached(cache) THEN 1 ELSE 0) + (IF s \in ext THEN 1 ELSE 0)
            BY Zenon, <5>2 DEF ReferencesAreOwners
          <6> HIDE DEF A, C, s
          <6>3. Cardinality(A) \in Nat /\ Cardinality(C) \in Nat /\ Cardinality(A) # 0
            BY ZenonT(30), <6>1, FS_CardinalityType, FS_EmptySet
          <6> QED BY SMTT(30), <6>2, <6>3
        <5> QED BY Zenon, <5>2, <5>3
      <4>4. ssl_session_is_time_valid(th[u].s)' <=> ssl_session_is_time_valid(th[u].s)
        BY Zenon, <4>1, <4>3 DEF ssl_session_is_time_valid
      <4> QED BY Zenon, <1>2, <4>1, <4>2, <4>4 DEF ThreadInv
    <3> QED BY Zenon, <3>1, <3>2
  <2> QED BY Zenon, <2>1, <2>2, <2>3 DEF CacheInv
<1> QED BY Zenon, <1>3, <1>4, <1>5, <1>6

-----------------------------------------------------------------------------
\* What every step starts from.
LEMMA Before ==
    ASSUME CacheIInv
    PROVE  /\ GoodCache(cache) /\ Cached(cache) \subseteq Sessions
           /\ now \in 1 .. MaxTime /\ time \in [Sessions -> 0 .. MaxTime]
           /\ \A s \in Sessions : time[s] <= now
           /\ handshakes \in 0 .. FlushEvery - 1 /\ ext \in SUBSET Sessions
           /\ refs \in [Sessions -> Nat] /\ th \in [Threads -> ThreadStates]
           /\ \A u \in Threads : ThreadInv(u)
<1>1. cache \in Caches
  BY Zenon DEF CacheIInv, TypeOK
<1>2. Cached(cache) \subseteq Sessions
  BY ZenonT(30), <1>1 DEF Caches, Cached, Items
<1> QED BY Zenon, <1>1, <1>2 DEF CacheIInv, TypeOK, CacheInv, ListMatchesTable, GoodCache, Keyed

\* Refs adds to the count of one session.
LEMMA RefsOfOne ==
    ASSUME refs \in [Sessions -> Nat], NEW s \in Sessions \cup {NULL}, NEW n \in Int
    PROVE  /\ Refs(refs, s, n) \in [Sessions -> Int]
           /\ \A x \in Sessions : Refs(refs, s, n)[x] = refs[x] + (IF x = s THEN n ELSE 0)
<1>1. CASE s = NULL
  BY SMTT(30), <1>1, PointersAssumption DEF Refs
<1>2. CASE s # NULL
  BY SMTT(30), <1>2 DEF Refs
<1> QED BY ZenonT(30), <1>1, <1>2

\* Where a thread can be.
LEMMA PcNames ==
    /\ "update_evict" \in Locking /\ "add_evict" \in Locking /\ "sweep" \in Locking
    /\ Locking \subseteq Pcs
    /\ \A p \in {"idle", "update", "clock", "flush", "new_cb", "held", "external", "add",
                  "check", "remove", "unlinked", "expired"} : p \in Pcs /\ p \notin Locking
BY ZenonT(30) DEF Pcs, Locking

\* A full handshake creates a session nobody has.
LEMMA StepNew ==
    ASSUME CacheIInv, NEW t \in Threads, NEW s \in Sessions, ssl_get_new_session(t, s)
    PROVE  CacheIInv'
<1>0. UNCHANGED <<now, cache, handshakes, ext>>
  BY Zenon DEF ssl_get_new_session
<1>1. /\ th' \in [Threads -> ThreadStates] /\ \A u \in Threads : u # t => th'[u] = th[u]
      /\ th[t].pc = "idle" /\ th'[t].pc = "update" /\ th'[t].s = s
      /\ th'[t].own = th[t].own /\ th'[t].todo = th[t].todo /\ th'[t].at = th[t].at
  <2>1. "update" \in Pcs
    BY ZenonT(30), PcNames
  <2> QED BY ZenonT(30), Before, <2>1 DEF ssl_get_new_session, ThreadStates
<1>2. /\ th[t].s = NULL /\ th[t].own = NULL /\ th[t].todo = {} /\ th[t].at <= now
  BY ZenonT(30), Before, <1>1 DEF ThreadInv
<1>3. /\ refs[s] = 0 /\ refs' \in [Sessions -> Int]
      /\ \A x \in Sessions : refs'[x] = refs[x] + (IF x = s THEN 1 ELSE 0)
  BY SMTT(30), Before DEF ssl_get_new_session
<1>4. /\ time' \in [Sessions -> 0 .. MaxTime] /\ \A x \in Sessions : time'[x] <= now
      /\ \A x \in Sessions : refs[x] # 0 => time'[x] = time[x]
  BY SMTT(30), Before, <1>3 DEF ssl_get_new_session
<1>5. ThreadInv(t)'
  BY ZenonT(30), <1>0, <1>1, <1>2, PointersAssumption DEF ThreadInv
<1>6. ASSUME NEW x \in Sessions
      PROVE  refs'[x] = refs[x] + Change(x, th[t], th'[t], Cached(cache), Cached(cache'), ext, ext')
  BY SMTT(30), Before, <1>0, <1>1, <1>2, <1>3, PointersAssumption DEF Change
<1>7. th'[t].pc \notin Locking
  BY ZenonT(30), <1>1 DEF Locking
<1> QED BY ZenonT(30), Before, <1>0, <1>1, <1>3, <1>4, <1>5, <1>6, <1>7, ThreadStep

\* Steps that move the thread and nothing else.
LEMMA StepQuiet ==
    ASSUME CacheIInv, NEW t \in Threads,
           UNCHANGED <<now, time, refs, cache, handshakes, ext>>,
           th' \in [Threads -> ThreadStates], \A u \in Threads : u # t => th'[u] = th[u],
           th'[t].s = th[t].s, th'[t].own = th[t].own,
           th'[t].pc \in Locking => Unlocked,
           ThreadInv(t)'
    PROVE  CacheIInv'
<1>1. ASSUME NEW x \in Sessions
      PROVE  refs'[x] = refs[x] + Change(x, th[t], th'[t], Cached(cache), Cached(cache'), ext, ext')
  BY SMTT(30), Before DEF Change
<1>2. refs' \in [Sessions -> Int]
  BY SMTT(30), Before
<1> QED BY ZenonT(30), Before, <1>1, <1>2, ThreadStep

\* Steps that change what the thread refers to, or what the external cache
\* owns, outside the lock.
LEMMA StepRefs ==
    ASSUME CacheIInv, NEW t \in Threads,
           UNCHANGED <<now, time, cache>>, handshakes' \in 0 .. FlushEvery - 1,
           ext' \in SUBSET Sessions,
           th' \in [Threads -> ThreadStates], \A u \in Threads : u # t => th'[u] = th[u],
           th'[t].pc \notin Locking, ThreadInv(t)', refs' \in [Sessions -> Int],
           \A x \in Sessions : refs'[x] = refs[x]
              + (IF th'[t].s = x THEN 1 ELSE 0) - (IF th[t].s = x THEN 1 ELSE 0)
              + (IF th'[t].own = x THEN 1 ELSE 0) - (IF th[t].own = x THEN 1 ELSE 0)
              + (IF x \in ext' THEN 1 ELSE 0) - (IF x \in ext THEN 1 ELSE 0)
    PROVE  CacheIInv'
<1>1. ASSUME NEW x \in Sessions
      PROVE  refs'[x] = refs[x] + Change(x, th[t], th'[t], Cached(cache), Cached(cache'), ext, ext')
  BY SMTT(30), Before DEF Change
<1> QED BY ZenonT(30), Before, <1>1, ThreadStep

\* add_session_locked returns: the replaced session is freed.
LEMMA StepReturn ==
    ASSUME CacheIInv, NEW t \in Threads, NEW p \in {"clock", "new_cb", "check", "held"},
           Return(t, p), handshakes' \in 0 .. FlushEvery - 1,
           th[t].pc \in {"update", "update_evict", "add", "add_evict"}
    PROVE  CacheIInv'
<1>0. UNCHANGED <<now, time, cache, ext>>
  BY Zenon DEF Return
<1>1. /\ th' \in [Threads -> ThreadStates] /\ \A u \in Threads : u # t => th'[u] = th[u]
      /\ th'[t].pc = p /\ th'[t].s = th[t].s /\ th'[t].own = NULL
      /\ th'[t].todo = th[t].todo /\ th'[t].at = th[t].at
      /\ th[t].own \in Sessions \cup {NULL}
  <2>1. p \in Pcs
    BY ZenonT(30), PcNames
  <2> QED BY ZenonT(30), Before, <2>1 DEF Return, ThreadStates
<1>2. th[t].s # NULL /\ th[t].todo = {} /\ th[t].at <= now
  BY ZenonT(30), Before, <1>1 DEF ThreadInv
<1>3. /\ refs' \in [Sessions -> Int]
      /\ \A x \in Sessions : refs'[x] = refs[x] + (IF x = th[t].own THEN -1 ELSE 0)
  <2>1. refs' = Refs(refs, th[t].own, -1) /\ -1 \in Int /\ refs \in [Sessions -> Nat]
    BY SMTT(30), Before DEF Return
  <2> QED BY Zenon, <1>1, <2>1, RefsOfOne
<1>4. ThreadInv(t)'
  BY ZenonT(30), <1>0, <1>1, <1>2 DEF ThreadInv
<1>5. \A x \in Sessions : refs'[x] = refs[x]
              + (IF th'[t].s = x THEN 1 ELSE 0) - (IF th[t].s = x THEN 1 ELSE 0)
              + (IF th'[t].own = x THEN 1 ELSE 0) - (IF th[t].own = x THEN 1 ELSE 0)
              + (IF x \in ext' THEN 1 ELSE 0) - (IF x \in ext THEN 1 ELSE 0)
  BY SMTT(30), Before, <1>0, <1>1, <1>3, PointersAssumption
<1>6. th'[t].pc \notin Locking
  BY ZenonT(30), <1>1 DEF Locking
<1> QED BY ZenonT(30), Before, <1>0, <1>1, <1>3, <1>4, <1>5, <1>6, StepRefs

\* The handshakes are counted.
LEMMA StepCount ==
    ASSUME CacheIInv, NEW t \in Threads, CountHandshake(t),
           th[t].pc \in {"update", "update_evict"}
    PROVE  CacheIInv'
<1>1. CASE handshakes + 1 >= FlushEvery
  <2>1. handshakes' \in 0 .. FlushEvery - 1 /\ Return(t, "clock")
    BY SMTT(30), <1>1, SizeAssumption DEF CountHandshake
  <2> QED BY ZenonT(30), <2>1, StepReturn
<1>2. CASE ~(handshakes + 1 >= FlushEvery)
  <2>1. handshakes' \in 0 .. FlushEvery - 1 /\ Return(t, "new_cb")
    BY SMTT(30), <1>2, Before, SizeAssumption DEF CountHandshake
  <2> QED BY ZenonT(30), <2>1, StepReturn
<1> QED BY Zenon, <1>1, <1>2

\* A session is put into the cache under the lock.
LEMMA StepInsert ==
    ASSUME CacheIInv, NEW t \in Threads, NEW p,
           th[t].pc \in {"update", "add"},
           p = (IF th[t].pc = "update" THEN "update_evict" ELSE "add_evict"),
           Unlocked, ~Present(t), Insert(t, p), UNCHANGED <<now, time, handshakes, ext>>
    PROVE  CacheIInv'
<1> DEFINE s == th[t].s
           old == cache.table[Id[s]]
<1>1. /\ th[t].pc \in {"update", "add"} /\ p \in Locking /\ p \in Pcs
      /\ (th[t].pc = "update" /\ p = "update_evict") \/ (th[t].pc = "add" /\ p = "add_evict")
  <2>1. CASE th[t].pc = "update"
    BY Zenon, <2>1, PcNames
  <2>2. CASE th[t].pc = "add"
    BY ZenonT(30), <2>2, PcNames
  <2> QED BY Zenon, <2>1, <2>2
<1>2. /\ s \in Sessions /\ s # NULL /\ th[t].own = NULL /\ th[t].todo = {} /\ th[t].at <= now
      /\ th[t].pc = "add" => th[t].to \in {"check", "held"}
  BY ZenonT(30), Before, <1>1 DEF ThreadInv, ThreadStates
<1>3. cache' = Inserted(cache, s)
  BY Zenon DEF Insert, Inserted
<1>4. old # s
  BY Zenon DEF Present
<1>5. /\ GoodCache(cache') /\ Cached(cache') = (Cached(cache) \ {old}) \cup {s}
      /\ s \notin Cached(cache) /\ (old # NULL => old \in Cached(cache) /\ old \in Sessions)
  <2>1. GoodCache(cache)
    BY Zenon, Before
  <2> HIDE DEF s
  <2> QED BY ZenonT(30), <1>2, <1>3, <1>4, <2>1, InsertOne
<1>6. /\ th' \in [Threads -> ThreadStates] /\ \A u \in Threads : u # t => th'[u] = th[u]
      /\ th'[t].pc = p /\ th'[t].s = s /\ th'[t].own = old
      /\ th'[t].todo = th[t].todo /\ th'[t].at = th[t].at /\ th'[t].to = th[t].to
  <2>1. old \in Sessions \cup {NULL}
    BY Zenon, <1>5
  <2>2. th' = [th EXCEPT ![t].pc = p, ![t].own = old]
    BY Zenon DEF Insert
  <2> HIDE DEF old
  <2>3. p \in Pcs
    BY Zenon, <1>1
  <2>4. th' \in [Threads -> ThreadStates]
    <3>1. th[t] \in ThreadStates /\ th \in [Threads -> ThreadStates]
      BY ZenonT(30), Before
    <3> DEFINE x == [th[t] EXCEPT !.pc = p, !.own = old]
    <3>2. x \in ThreadStates
      BY ZenonT(30), <2>1, <2>3, <3>1 DEF ThreadStates
    <3>3. th' = [th EXCEPT ![t] = x]
      BY ZenonT(30), <2>2
    <3> HIDE DEF x
    <3> QED BY ZenonT(30), <3>1, <3>2, <3>3
  <2>5. /\ \A u \in Threads : u # t => th'[u] = th[u]
        /\ th'[t] = [th[t] EXCEPT !.pc = p, !.own = old] /\ th[t] \in ThreadStates
    BY ZenonT(30), Before, <2>2
  <2>6. /\ th'[t].pc = p /\ th'[t].s = s /\ th'[t].own = old
        /\ th'[t].todo = th[t].todo /\ th'[t].at = th[t].at /\ th'[t].to = th[t].to
    BY ZenonT(30), <2>5 DEF ThreadStates
  <2> QED BY Zenon, <2>4, <2>5, <2>6
<1>7. /\ refs' \in [Sessions -> Int]
      /\ \A x \in Sessions : refs'[x] = refs[x] + (IF x = s THEN 1 ELSE 0)
  <2>1. refs' = Refs(refs, s, 1) /\ 1 \in Int /\ refs \in [Sessions -> Nat]
    BY SMTT(30), Before DEF Insert
  <2> HIDE DEF s
  <2> QED BY ZenonT(30), <1>2, <2>1, RefsOfOne
<1> HIDE DEF s, old
<1>8. ThreadInv(t)'
  BY ZenonT(30), <1>1, <1>2, <1>6 DEF ThreadInv
<1>9. ASSUME NEW x \in Sessions
      PROVE  refs'[x] = refs[x] + Change(x, th[t], th'[t], Cached(cache), Cached(cache'), ext, ext')
  BY SMTT(30), Before, <1>2, <1>4, <1>5, <1>6, <1>7, PointersAssumption DEF Change, s
<1> QED BY ZenonT(30), Before, <1>1, <1>5, <1>6, <1>7, <1>8, <1>9, ThreadStep

\* What is dropped under the lock leaves the caches, and their references go.
LEMMA DropOne ==
    ASSUME CacheIInv, NEW s \in Sessions, s \in Cached(cache), Drop(s)
    PROVE  /\ GoodCache(cache') /\ Cached(cache') = Cached(cache) \ {s}
           /\ cache'.table = [cache.table EXCEPT ![Id[s]] = NULL]
           /\ ext' = ext \ {s} /\ refs' \in [Sessions -> Int]
           /\ \A x \in Sessions : refs'[x] = refs[x] + (IF x # s THEN 0 ELSE IF s \in ext THEN -2 ELSE -1)
<1>1. GoodCache(cache) /\ refs \in [Sessions -> Nat]
  BY Zenon, Before
<1>2. cache' = Unlink(cache, s) /\ refs' = Refs(refs, s, IF s \in ext THEN -2 ELSE -1) /\ ext' = ext \ {s}
  BY Zenon DEF Drop, Freed
<1>3. (IF s \in ext THEN -2 ELSE -1) \in Int
  OBVIOUS
<1>4. /\ refs' \in [Sessions -> Int]
      /\ \A x \in Sessions : refs'[x] = refs[x] + (IF x = s THEN IF s \in ext THEN -2 ELSE -1 ELSE 0)
  BY Zenon, <1>1, <1>2, <1>3, RefsOfOne
<1>5. /\ GoodCache(Unlink(cache, s)) /\ Cached(Unlink(cache, s)) = Cached(cache) \ {s}
      /\ Unlink(cache, s).table = [cache.table EXCEPT ![Id[s]] = NULL]
  BY Zenon, <1>1, UnlinkOne
<1>6. /\ GoodCache(cache') /\ Cached(cache') = Cached(cache) \ {s}
      /\ cache'.table = [cache.table EXCEPT ![Id[s]] = NULL]
  BY Zenon, <1>2, <1>5
<1> QED BY ZenonT(30), <1>2, <1>4, <1>6

\* So a step of the thread with the lock that drops a session is sound.
LEMMA StepDrop ==
    ASSUME CacheIInv, NEW t \in Threads, NEW s \in Sessions, s \in Cached(cache), Drop(s),
           th[t].pc \in Locking, UNCHANGED <<now, time, handshakes>>,
           th' \in [Threads -> ThreadStates], \A u \in Threads : u # t => th'[u] = th[u],
           th'[t].s = th[t].s, th'[t].own = th[t].own, ThreadInv(t)'
    PROVE  CacheIInv'
<1>1. ASSUME NEW x \in Sessions
      PROVE  refs'[x] = refs[x] + Change(x, th[t], th'[t], Cached(cache), Cached(cache'), ext, ext')
  <2>1. /\ Cached(cache') = Cached(cache) \ {s} /\ ext' = ext \ {s}
        /\ refs'[x] = refs[x] + (IF x # s THEN 0 ELSE IF s \in ext THEN -2 ELSE -1)
    BY Zenon, DropOne
  <2>2. refs[x] \in Nat
    BY ZenonT(30), Before
  <2>3. CASE x = s
    BY SMTT(30), <2>1, <2>2, <2>3 DEF Change
  <2>4. CASE x # s
    BY SMTT(30), <2>1, <2>2, <2>4 DEF Change
  <2> QED BY Zenon, <2>3, <2>4
<1>2. ext' \in SUBSET Sessions
  BY ZenonT(30), Before, DropOne
<1> QED BY ZenonT(30), Before, DropOne, <1>1, <1>2, ThreadStep

\* The oldest of too many sessions is dropped.
LEMMA StepEvict ==
    ASSUME CacheIInv, NEW t \in Threads, evict(t)
    PROVE  CacheIInv'
<1>1. /\ cache \in Caches /\ Keyed(cache) /\ cache.tail # NULL
      /\ cache.table[Id[cache.tail]] = cache.tail /\ Drop(cache.tail)
      /\ UNCHANGED <<now, time, handshakes, th>> /\ th[t].pc \in {"update_evict", "add_evict"}
  BY Zenon, Before DEF evict, TooMany, GoodCache
<1>2. cache.tail \in Sessions
  BY ZenonT(30), <1>1 DEF Caches
<1>3. cache.tail \in Cached(cache)
  BY Zenon, <1>1, <1>2, CachedByID
<1>4. th[t].pc \in Locking
  BY ZenonT(30), <1>1 DEF Locking
<1>5. ThreadInv(t) /\ th[t].todo = {}
  BY ZenonT(30), Before, <1>1 DEF ThreadInv
<1>6. ThreadInv(t)'
  BY ZenonT(30), <1>1, <1>5 DEF ThreadInv, ssl_session_is_time_valid
<1> QED BY ZenonT(30), Before, <1>1, <1>2, <1>3, <1>4, <1>6, StepDrop

\* ssl_update_cache.
LEMMA StepUpdate ==
    ASSUME CacheIInv, NEW t \in Threads, ssl_update_cache(t) \/ ssl_update_cache_counted(t)
    PROVE  CacheIInv'
<1>1. CASE ssl_update_cache(t) /\ Present(t)
  BY ZenonT(30), <1>1, StepCount DEF ssl_update_cache
<1>2. CASE ssl_update_cache(t) /\ ~Present(t)
  <2>1. /\ th[t].pc = "update" /\ Unlocked /\ Insert(t, "update_evict")
        /\ UNCHANGED <<now, time, handshakes, ext>>
    BY Zenon, <1>2 DEF ssl_update_cache
  <2>2. now' = now /\ time' = time /\ handshakes' = handshakes /\ ext' = ext /\ ~Present(t)
    BY Zenon, <1>2, <2>1
  <2> QED BY SMTT(30), <2>1, <2>2, StepInsert
<1>3. CASE ssl_update_cache_counted(t)
  BY ZenonT(30), <1>3, StepCount DEF ssl_update_cache_counted
<1> QED BY Zenon, <1>1, <1>2, <1>3

\* SSL_CTX_add_session.
LEMMA StepAdd ==
    ASSUME CacheIInv, NEW t \in Threads, SSL_CTX_add_session(t) \/ SSL_CTX_add_session_return(t)
    PROVE  CacheIInv'
<1>0. th[t].pc \in {"add", "add_evict"} /\ UNCHANGED handshakes
  BY ZenonT(30) DEF SSL_CTX_add_session, SSL_CTX_add_session_return
<1>1. th[t].to \in {"check", "held"} /\ handshakes' \in 0 .. FlushEvery - 1
  BY ZenonT(30), Before, <1>0 DEF ThreadInv
<1>2. CASE SSL_CTX_add_session(t) /\ ~Present(t)
  BY SMTT(30), <1>2, StepInsert DEF SSL_CTX_add_session
<1>3. CASE Return(t, th[t].to)
  BY ZenonT(30), <1>0, <1>1, <1>3, StepReturn
<1> QED BY Zenon, <1>2, <1>3 DEF SSL_CTX_add_session, SSL_CTX_add_session_return

\* The external cache takes a reference of its own, or not.
LEMMA StepNewCb ==
    ASSUME CacheIInv, NEW t \in Threads, new_session_cb(t)
    PROVE  CacheIInv'
<1> DEFINE s == th[t].s
<1>1. /\ th' \in [Threads -> ThreadStates] /\ \A u \in Threads : u # t => th'[u] = th[u]
      /\ th[t].pc = "new_cb" /\ th'[t].pc = "held" /\ th'[t].s = th[t].s
      /\ th'[t].own = th[t].own /\ th'[t].todo = th[t].todo /\ th'[t].at = th[t].at
      /\ UNCHANGED <<now, time, cache, handshakes>>
  <2>1. "held" \in Pcs
    BY ZenonT(30), PcNames
  <2> QED BY ZenonT(30), Before, <2>1 DEF new_session_cb, ThreadStates
<1>2. s \in Sessions /\ th[t].own = NULL /\ th[t].todo = {} /\ th[t].at <= now
  BY ZenonT(30), Before, <1>1 DEF ThreadInv, ThreadStates
<1>3. ThreadInv(t)'
  BY ZenonT(30), <1>1, <1>2 DEF ThreadInv
<1>4. th'[t].pc \notin Locking
  BY ZenonT(30), <1>1, PcNames
<1>5. /\ ext' \in SUBSET Sessions /\ refs' \in [Sessions -> Int]
      /\ \A x \in Sessions : refs'[x] = refs[x] + (IF x \in ext' THEN 1 ELSE 0) - (IF x \in ext THEN 1 ELSE 0)
  <2>1. CASE s \notin ext /\ ext' = ext \cup {s} /\ refs' = Refs(refs, s, 1)
    <3>1. /\ refs' \in [Sessions -> Int]
          /\ \A x \in Sessions : refs'[x] = refs[x] + (IF x = s THEN 1 ELSE 0)
      <4>1. refs \in [Sessions -> Nat] /\ 1 \in Int
        BY SMTT(30), Before
      <4> HIDE DEF s
      <4> QED BY SMTT(30), <1>2, <2>1, <4>1, RefsOfOne
    <3> HIDE DEF s
    <3> QED BY SMTT(30), Before, <1>2, <2>1, <3>1
  <2>2. CASE UNCHANGED <<ext, refs>>
    BY SMTT(30), Before, <2>2
  <2> QED BY Zenon, <2>1, <2>2 DEF new_session_cb
<1>6. \A x \in Sessions : refs'[x] = refs[x]
              + (IF th'[t].s = x THEN 1 ELSE 0) - (IF th[t].s = x THEN 1 ELSE 0)
              + (IF th'[t].own = x THEN 1 ELSE 0) - (IF th[t].own = x THEN 1 ELSE 0)
              + (IF x \in ext' THEN 1 ELSE 0) - (IF x \in ext THEN 1 ELSE 0)
  BY SMTT(30), Before, <1>1, <1>5
<1> QED BY ZenonT(30), Before, <1>1, <1>3, <1>4, <1>5, <1>6, StepRefs

\* SSL_CTX_flush_sessions takes the lock.
LEMMA StepFlush ==
    ASSUME CacheIInv, NEW t \in Threads, NEW at \in 0 .. MaxTime, at <= now,
           th[t].pc = "flush" \/ th[t].pc = "idle", NEW to, Flush(t, at, to),
           to = (IF th[t].pc = "flush" THEN "new_cb" ELSE "idle")
    PROVE  CacheIInv'
<1>1. /\ th' \in [Threads -> ThreadStates] /\ \A u \in Threads : u # t => th'[u] = th[u]
      /\ th'[t].pc = "sweep" /\ th'[t].to = to /\ th'[t].s = th[t].s /\ th'[t].own = th[t].own
      /\ th'[t].todo = Cached(cache) /\ th'[t].at = at
  <2>1. "sweep" \in Pcs /\ to \in Pcs
    BY ZenonT(30), PcNames
  <2> QED BY ZenonT(30), Before, <2>1 DEF Flush, ThreadStates
<1>2. UNCHANGED <<now, time, refs, cache, handshakes, ext>> /\ Unlocked
  BY Zenon DEF Flush
<1>3. th[t].own = NULL /\ (th[t].pc = "idle" => th[t].s = NULL) /\ (th[t].pc = "flush" => th[t].s # NULL)
  BY ZenonT(30), Before DEF ThreadInv
<1>4. ThreadInv(t)'
  BY ZenonT(30), <1>1, <1>2, <1>3 DEF ThreadInv
<1> QED BY Zenon, <1>1, <1>2, <1>4, StepQuiet

\* The clock is read for the flush, or the flush begins.
LEMMA StepClock ==
    ASSUME CacheIInv, NEW t \in Threads,
           \/ ssl_get_current_time(t) \/ ssl_update_cache_flush(t)
           \/ \E at \in {0, now} : SSL_CTX_flush_sessions(t, at)
    PROVE  CacheIInv'
<1>1. CASE ssl_get_current_time(t)
  <2>1. /\ th' \in [Threads -> ThreadStates] /\ \A u \in Threads : u # t => th'[u] = th[u]
        /\ th[t].pc = "clock" /\ th'[t].pc = "flush" /\ th'[t].s = th[t].s /\ th'[t].own = th[t].own
        /\ th'[t].todo = th[t].todo /\ th'[t].at = now
    <3>1. "flush" \in Pcs /\ now \in 0 .. MaxTime
      BY SMTT(30), PcNames, Before
    <3> QED BY ZenonT(30), Before, <3>1, <1>1 DEF ssl_get_current_time, ThreadStates
  <2>2. UNCHANGED <<now, time, refs, cache, handshakes, ext>> /\ now <= now
    BY SMTT(30), Before, <1>1 DEF ssl_get_current_time
  <2>3. th[t].own = NULL /\ th[t].s # NULL /\ th[t].todo = {}
    BY ZenonT(30), Before, <2>1 DEF ThreadInv
  <2>4. ThreadInv(t)'
    BY ZenonT(30), <2>1, <2>2, <2>3 DEF ThreadInv
  <2>5. th'[t].pc \notin Locking
    BY ZenonT(30), <2>1, PcNames
  <2> QED BY Zenon, <2>1, <2>2, <2>4, <2>5, StepQuiet
<1>2. CASE ssl_update_cache_flush(t)
  <2>1. th[t].pc = "flush" /\ Flush(t, th[t].at, "new_cb")
    BY Zenon, <1>2 DEF ssl_update_cache_flush
  <2>2. th[t].at \in 0 .. MaxTime /\ th[t].at <= now
    BY ZenonT(30), Before DEF ThreadInv, ThreadStates
  <2> QED BY ZenonT(30), <2>1, <2>2, StepFlush
<1>3. ASSUME NEW at \in {0, now}, SSL_CTX_flush_sessions(t, at) PROVE CacheIInv'
  <2>1. th[t].pc = "idle" /\ Flush(t, at, "idle")
    BY Zenon, <1>3 DEF SSL_CTX_flush_sessions
  <2>2. at \in 0 .. MaxTime /\ at <= now
    <3>1. now \in 1 .. MaxTime
      BY Zenon, Before
    <3> QED BY SMTT(30), <3>1, TimeAssumption
  <2> QED BY ZenonT(30), <2>1, <2>2, StepFlush
<1> QED BY Zenon, <1>1, <1>2, <1>3

\* One session is visited.
LEMMA StepVisit ==
    ASSUME CacheIInv, NEW t \in Threads, NEW s \in Sessions, timeout_doall_arg(t, s)
    PROVE  CacheIInv'
<1>1. /\ th' \in [Threads -> ThreadStates] /\ \A u \in Threads : u # t => th'[u] = th[u]
      /\ th[t].pc = "sweep" /\ th'[t].pc = "sweep" /\ th'[t].s = th[t].s /\ th'[t].own = th[t].own
      /\ th'[t].to = th[t].to /\ th'[t].todo = th[t].todo \ {s} /\ th'[t].at = th[t].at
      /\ s \in th[t].todo
  BY ZenonT(30), Before DEF timeout_doall_arg, ThreadStates
<1>2. UNCHANGED <<now, time, handshakes>> /\ th[t].pc \in Locking
  BY ZenonT(30), <1>1, PcNames DEF timeout_doall_arg
<1>3. ThreadInv(t) /\ s \in Cached(cache)
  BY ZenonT(30), Before, <1>1 DEF ThreadInv
<1>4. CASE Drop(s)
  <2>1. Cached(cache') = Cached(cache) \ {s}
    BY Zenon, <1>3, <1>4, DropOne
  <2>2. Cached(cache)' = Cached(cache') /\ th'[t].todo \subseteq Cached(cache')
    BY ZenonT(30), <1>1, <1>3, <2>1 DEF ThreadInv, Cached, Items
  <2>3. ThreadInv(t)'
    BY ZenonT(30), <1>1, <1>2, <1>3, <2>2 DEF ThreadInv
  <2> QED BY Zenon, <1>1, <1>2, <1>3, <1>4, <2>3, StepDrop
<1>5. CASE UNCHANGED <<cache, refs, ext>>
  <2>1. ThreadInv(t)'
    BY ZenonT(30), <1>1, <1>2, <1>3, <1>5 DEF ThreadInv
  <2>2. ASSUME NEW x \in Sessions
        PROVE  refs'[x] = refs[x] + Change(x, th[t], th'[t], Cached(cache), Cached(cache'), ext, ext')
    BY SMTT(30), Before, <1>1, <1>5 DEF Change
  <2>3. refs' \in [Sessions -> Int]
    BY SMTT(30), Before, <1>5
  <2> QED BY ZenonT(30), Before, <1>1, <1>2, <1>5, <2>1, <2>2, <2>3, ThreadStep
<1> QED BY Zenon, <1>4, <1>5 DEF timeout_doall_arg

\* The lock is released.
LEMMA StepFlushed ==
    ASSUME CacheIInv, NEW t \in Threads, flushed(t)
    PROVE  CacheIInv'
<1>1. /\ th' \in [Threads -> ThreadStates] /\ \A u \in Threads : u # t => th'[u] = th[u]
      /\ th[t].pc = "sweep" /\ th'[t].pc = th[t].to /\ th'[t].s = th[t].s /\ th'[t].own = th[t].own
      /\ th[t].todo = {} /\ th'[t].todo = {} /\ th'[t].at = 0
  <2>1. "idle" \in Pcs /\ th[t].to \in Pcs
    BY ZenonT(30), PcNames, Before DEF ThreadStates
  <2>2. 0 \in 0 .. MaxTime
    BY SMTT(30), TimeAssumption
  <2> QED BY ZenonT(30), Before, <2>1, <2>2 DEF flushed, ThreadStates
<1>2. UNCHANGED <<now, time, refs, cache, handshakes, ext>> /\ 0 <= now
  BY SMTT(30), Before DEF flushed
<1>3. ThreadInv(t)
  BY Zenon, Before
<1>4. /\ th[t].to \in {"idle", "new_cb"} /\ th[t].own = NULL
      /\ th[t].to = "idle" => th[t].s = NULL
      /\ th[t].to = "new_cb" => th[t].s # NULL
  BY ZenonT(30), <1>1, <1>3 DEF ThreadInv
<1>5. ThreadInv(t)'
  BY ZenonT(30), <1>1, <1>2, <1>4 DEF ThreadInv
<1>6. th'[t].pc \notin Locking
  BY ZenonT(30), <1>1, <1>4, PcNames
<1> QED BY Zenon, <1>1, <1>2, <1>5, <1>6, StepQuiet

\* A lookup takes a reference to what it finds.
LEMMA StepLookup ==
    ASSUME CacheIInv, NEW t \in Threads, NEW i \in Ids, ssl_lookup_session(t, i)
    PROVE  CacheIInv'
<1> DEFINE s == cache.table[i]
<1>0. s \in Sessions \cup {NULL}
  BY ZenonT(30), Before DEF GoodCache, Caches
<1>1. /\ th' \in [Threads -> ThreadStates] /\ \A u \in Threads : u # t => th'[u] = th[u]
      /\ th[t].pc = "idle" /\ th'[t].pc \in {"external", "check"}
      /\ (th'[t].pc = "external" => s = NULL)
      /\ th'[t].s = s /\ th'[t].own = th[t].own /\ th'[t].id = i
      /\ th'[t].todo = th[t].todo /\ th'[t].at = th[t].at
      /\ UNCHANGED <<now, time, cache, handshakes, ext>> /\ refs' = Refs(refs, s, 1)
  <2>1. "external" \in Pcs /\ "check" \in Pcs
    BY ZenonT(30), PcNames
  <2> QED BY ZenonT(30), Before, <1>0, <2>1 DEF ssl_lookup_session, ThreadStates
<1> HIDE DEF s
<1>2. th[t].s = NULL /\ th[t].own = NULL /\ th[t].todo = {} /\ th[t].at <= now
  BY ZenonT(30), Before, <1>1 DEF ThreadInv
<1>3. /\ refs' \in [Sessions -> Int]
      /\ \A x \in Sessions : refs'[x] = refs[x] + (IF x = s THEN 1 ELSE 0)
  <2>1. refs \in [Sessions -> Nat] /\ 1 \in Int
    BY SMTT(30), Before
  <2> QED BY Zenon, <1>0, <1>1, <2>1, RefsOfOne
<1>5. \A x \in Sessions : refs'[x] = refs[x]
              + (IF th'[t].s = x THEN 1 ELSE 0) - (IF th[t].s = x THEN 1 ELSE 0)
              + (IF th'[t].own = x THEN 1 ELSE 0) - (IF th[t].own = x THEN 1 ELSE 0)
              + (IF x \in ext' THEN 1 ELSE 0) - (IF x \in ext THEN 1 ELSE 0)
  BY SMTT(30), Before, <1>1, <1>2, <1>3, PointersAssumption
<1>6. th'[t].pc \notin Locking
  BY ZenonT(30), <1>1, PcNames
<1>4. ThreadInv(t)'
  BY ZenonT(30), <1>1, <1>2 DEF ThreadInv
<1> QED BY ZenonT(30), Before, <1>1, <1>3, <1>4, <1>5, <1>6, StepRefs

\* The external cache has nothing.
LEMMA StepNone ==
    ASSUME CacheIInv, NEW t \in Threads, get_session_cb_none(t)
    PROVE  CacheIInv'
<1>1. Idle \in ThreadStates
  BY SMTT(30), PcNames, TimeAssumption DEF Idle, ThreadStates
<1>2. /\ th' \in [Threads -> ThreadStates] /\ \A u \in Threads : u # t => th'[u] = th[u]
      /\ th[t].pc = "external" /\ th'[t] = Idle
      /\ UNCHANGED <<now, refs, time, cache, handshakes, ext>>
  BY ZenonT(30), Before, <1>1 DEF get_session_cb_none
<1>3. th[t].s = NULL /\ th[t].own = NULL /\ 0 <= now
  BY SMTT(30), Before, <1>2 DEF ThreadInv
<1>4. ThreadInv(t)'
  BY SMTT(30), <1>2, <1>3 DEF ThreadInv, Idle
<1>5. th'[t].s = NULL /\ th'[t].own = NULL /\ th'[t].pc \notin Locking
  BY SMTT(30), <1>2, PcNames DEF Idle
<1> QED BY Zenon, <1>2, <1>3, <1>4, <1>5, StepQuiet

\* It returns a session with a reference.
LEMMA StepExternal ==
    ASSUME CacheIInv, NEW t \in Threads, NEW s \in Sessions, get_session_cb(t, s)
    PROVE  CacheIInv'
<1>1. /\ th' \in [Threads -> ThreadStates] /\ \A u \in Threads : u # t => th'[u] = th[u]
      /\ th[t].pc = "external" /\ th'[t].pc = "add" /\ th'[t].to = "check"
      /\ th'[t].s = s /\ th'[t].own = th[t].own
      /\ th'[t].todo = th[t].todo /\ th'[t].at = th[t].at
      /\ UNCHANGED <<now, time, cache, handshakes, ext>> /\ refs' = Refs(refs, s, 1)
  <2>1. "add" \in Pcs /\ "check" \in Pcs
    BY ZenonT(30), PcNames
  <2> QED BY ZenonT(30), Before, <2>1 DEF get_session_cb, ThreadStates
<1>2. th[t].s = NULL /\ th[t].own = NULL /\ th[t].todo = {} /\ th[t].at <= now
  BY ZenonT(30), Before, <1>1 DEF ThreadInv
<1>3. /\ refs' \in [Sessions -> Int]
      /\ \A x \in Sessions : refs'[x] = refs[x] + (IF x = s THEN 1 ELSE 0)
  <2>1. refs \in [Sessions -> Nat] /\ 1 \in Int
    BY SMTT(30), Before
  <2> QED BY ZenonT(30), <1>1, <2>1, RefsOfOne
<1>4. ThreadInv(t)'
  BY ZenonT(30), <1>1, <1>2, PointersAssumption DEF ThreadInv
<1>5. \A x \in Sessions : refs'[x] = refs[x]
              + (IF th'[t].s = x THEN 1 ELSE 0) - (IF th[t].s = x THEN 1 ELSE 0)
              + (IF th'[t].own = x THEN 1 ELSE 0) - (IF th[t].own = x THEN 1 ELSE 0)
              + (IF x \in ext' THEN 1 ELSE 0) - (IF x \in ext THEN 1 ELSE 0)
  BY SMTT(30), Before, <1>1, <1>2, <1>3, PointersAssumption
<1>6. th'[t].pc \notin Locking
  BY ZenonT(30), <1>1, PcNames
<1> QED BY ZenonT(30), Before, <1>1, <1>3, <1>4, <1>5, <1>6, StepRefs

\* Is it still good, and what the application does next.
LEMMA StepCheck ==
    ASSUME CacheIInv, NEW t \in Threads, ssl_lookup_session_check(t) \/ App(t)
    PROVE  CacheIInv'
<1>0. UNCHANGED <<now, refs, time, cache, handshakes, ext>>
  BY Zenon DEF ssl_lookup_session_check, App
<1>1. /\ th' \in [Threads -> ThreadStates] /\ \A u \in Threads : u # t => th'[u] = th[u]
      /\ th[t].pc \in {"check", "held"} /\ th'[t].pc \in {"held", "remove", "add"}
      /\ th'[t].pc # "held" => th[t].s # NULL
      /\ th'[t].pc = "add" => th'[t].to = "held"
      /\ th'[t].pc = "remove" => \/ th'[t].to = "held"
                               \/ (th'[t].to = "expired" /\ ~ssl_session_is_time_valid(th[t].s))
      /\ th'[t].s = th[t].s /\ th'[t].own = th[t].own
      /\ th'[t].todo = th[t].todo /\ th'[t].at = th[t].at
  <2>1. /\ "held" \in Pcs /\ "add" \in Pcs /\ "remove" \in Pcs
        /\ "expired" \in Pcs /\ "idle" \in Pcs
    BY ZenonT(30), PcNames
  <2>2. CASE ssl_lookup_session_check(t)
    BY ZenonT(30), Before, <2>1, <2>2 DEF ssl_lookup_session_check, ThreadStates
  <2>3. CASE App(t)
    <3>1. PICK op \in {"add", "remove"} : th' = [th EXCEPT ![t].pc = op, ![t].to = "held"]
      BY Zenon, <2>3 DEF App
    <3>2. th[t].pc = "held" /\ th[t].s # NULL /\ op \in Pcs /\ op \in {"add", "remove"}
      BY ZenonT(30), <2>1, <2>3 DEF App
    <3>3. /\ th' \in [Threads -> ThreadStates] /\ \A u \in Threads : u # t => th'[u] = th[u]
          /\ th'[t].pc = op /\ th'[t].to = "held" /\ th'[t].s = th[t].s /\ th'[t].own = th[t].own
          /\ th'[t].todo = th[t].todo /\ th'[t].at = th[t].at
      BY ZenonT(30), Before, <2>1, <3>1, <3>2 DEF ThreadStates
    <3>4. CASE op = "add"
      BY ZenonT(30), <3>2, <3>3, <3>4
    <3>5. CASE op = "remove"
      BY Zenon, <3>2, <3>3, <3>5
    <3> QED BY Zenon, <3>2, <3>4, <3>5
  <2> QED BY Zenon, <2>2, <2>3
<1>2. th[t].own = NULL /\ th[t].todo = {} /\ th[t].at <= now
  BY ZenonT(30), Before, <1>1 DEF ThreadInv
<1>3. ssl_session_is_time_valid(th[t].s)' <=> ssl_session_is_time_valid(th'[t].s)
  BY Zenon, <1>0, <1>1 DEF ssl_session_is_time_valid
<1>4. ThreadInv(t)'
  BY ZenonT(30), <1>0, <1>1, <1>2, <1>3 DEF ThreadInv, ssl_session_is_time_valid
<1>5. th'[t].pc \notin Locking
  BY ZenonT(30), <1>1, PcNames
<1> QED BY Zenon, <1>0, <1>1, <1>4, <1>5, StepQuiet

\* remove_session takes the table's reference over.
LEMMA StepRemove ==
    ASSUME CacheIInv, NEW t \in Threads, remove_session(t)
    PROVE  CacheIInv'
<1> DEFINE s == th[t].s
<1>0. UNCHANGED <<now, refs, time, handshakes, ext>> /\ th[t].pc = "remove" /\ Unlocked
  BY Zenon DEF remove_session
<1>1. ThreadInv(t) /\ th[t] \in ThreadStates
  BY ZenonT(30), Before
<1>2. /\ s \in Sessions /\ s # NULL /\ th[t].own = NULL /\ th[t].todo = {} /\ th[t].at <= now
      /\ th[t].to \in {"held", "expired"}
      /\ th[t].to = "expired" => ~ssl_session_is_time_valid(s)
  BY ZenonT(30), <1>0, <1>1 DEF ThreadInv, ThreadStates
<1>3. th'[t].s = s => (ssl_session_is_time_valid(th[t].s)' <=> ssl_session_is_time_valid(s))
  BY Zenon, <1>0 DEF ssl_session_is_time_valid
<1>4. CASE cache.table[Id[s]] = s
  <2>1. cache' = Unlink(cache, s) /\ th' = [th EXCEPT ![t].pc = "unlinked", ![t].own = s]
    BY Zenon, <1>4 DEF remove_session
  <2>2. s \in Cached(cache) /\ GoodCache(cache)
    BY Zenon, Before, <1>2, <1>4, CachedByID DEF GoodCache
  <2>3. GoodCache(cache') /\ Cached(cache') = Cached(cache) \ {s}
    <3> HIDE DEF s
    <3> QED BY ZenonT(30), <1>2, <2>1, <2>2, UnlinkOne
  <2>4. /\ th' \in [Threads -> ThreadStates] /\ \A u \in Threads : u # t => th'[u] = th[u]
        /\ th'[t].pc = "unlinked" /\ th'[t].s = s /\ th'[t].own = s /\ th'[t].to = th[t].to
        /\ th'[t].todo = th[t].todo /\ th'[t].at = th[t].at
    <3>1. "unlinked" \in Pcs
      BY ZenonT(30), PcNames
    <3> QED BY SMTT(30), Before, <1>2, <2>1, <3>1 DEF ThreadStates
  <2>5. ThreadInv(t)'
    BY ZenonT(30), <1>0, <1>2, <1>3, <2>4 DEF ThreadInv, ssl_session_is_time_valid
  <2>6. ASSUME NEW x \in Sessions
        PROVE  refs'[x] = refs[x] + Change(x, th[t], th'[t], Cached(cache), Cached(cache'), ext, ext')
    <3>1. refs'[x] = refs[x] /\ refs[x] \in Nat
      BY ZenonT(30), Before, <1>0
    <3> QED BY SMTT(30), <1>0, <1>2, <2>2, <2>3, <2>4, <3>1, PointersAssumption DEF Change
  <2>7. th'[t].pc \notin Locking /\ refs' \in [Sessions -> Int]
    BY SMTT(30), Before, <1>0, <2>4, PcNames
  <2> QED BY ZenonT(30), Before, <1>0, <2>3, <2>4, <2>5, <2>6, <2>7, ThreadStep
<1>5. CASE cache.table[Id[s]] # s
  <2>1. cache' = cache /\ th' = [th EXCEPT ![t].pc = th[t].to]
    BY Zenon, <1>5 DEF remove_session
  <2>2. /\ th' \in [Threads -> ThreadStates] /\ \A u \in Threads : u # t => th'[u] = th[u]
        /\ th'[t].pc = th[t].to /\ th'[t].s = s /\ th'[t].own = th[t].own /\ th'[t].to = th[t].to
        /\ th'[t].todo = th[t].todo /\ th'[t].at = th[t].at
    <3>1. th[t].to \in Pcs
      BY ZenonT(30), <1>2, PcNames
    <3> QED BY ZenonT(30), Before, <2>1, <3>1 DEF ThreadStates
  <2>3. ThreadInv(t)'
    BY ZenonT(30), <1>0, <1>2, <1>3, <2>1, <2>2 DEF ThreadInv, ssl_session_is_time_valid
  <2>4. th'[t].pc \notin Locking
    BY ZenonT(30), <1>2, <2>2, PcNames
  <2> QED BY Zenon, <1>0, <2>1, <2>2, <2>3, <2>4, StepQuiet
<1> QED BY Zenon, <1>4, <1>5

\* Outside the lock, the reference that was the table's is given up, and so is
\* the external cache's.
LEMMA StepFree ==
    ASSUME CacheIInv, NEW t \in Threads, remove_session_free(t)
    PROVE  CacheIInv'
<1> DEFINE s == th[t].own
<1>0. /\ UNCHANGED <<now, time, cache, handshakes>> /\ th[t].pc = "unlinked" /\ ext' = ext \ {s}
      /\ refs' = Refs(refs, s, IF s \in ext THEN -2 ELSE -1)
      /\ th' = [th EXCEPT ![t].pc = th[t].to, ![t].own = NULL]
  BY Zenon DEF remove_session_free, Freed
<1>1. ThreadInv(t) /\ th[t] \in ThreadStates
  BY ZenonT(30), Before
<1>2. /\ s \in Sessions /\ s # NULL /\ th[t].s = s /\ th[t].todo = {} /\ th[t].at <= now
      /\ th[t].to \in {"held", "expired"}
      /\ th[t].to = "expired" => ~ssl_session_is_time_valid(s)
  BY ZenonT(30), <1>0, <1>1 DEF ThreadInv, ThreadStates
<1>3. /\ th' \in [Threads -> ThreadStates] /\ \A u \in Threads : u # t => th'[u] = th[u]
      /\ th'[t].pc = th[t].to /\ th'[t].s = th[t].s /\ th'[t].own = NULL /\ th'[t].to = th[t].to
      /\ th'[t].todo = th[t].todo /\ th'[t].at = th[t].at
  <2>1. th[t].to \in Pcs
    BY ZenonT(30), <1>2, PcNames
  <2> QED BY ZenonT(30), Before, <1>0, <2>1 DEF ThreadStates
<1>4. /\ refs' \in [Sessions -> Int]
      /\ \A x \in Sessions : refs'[x] = refs[x] + (IF x = s THEN IF s \in ext THEN -2 ELSE -1 ELSE 0)
  <2>1. (IF s \in ext THEN -2 ELSE -1) \in Int /\ refs \in [Sessions -> Nat]
    BY SMTT(30), Before
  <2> DEFINE n == IF s \in ext THEN -2 ELSE -1
  <2>2. n \in Int /\ refs' = Refs(refs, s, n) /\ s \in Sessions \cup {NULL}
    BY Zenon, <1>0, <1>2, <2>1
  <2> HIDE DEF s, n
  <2>3. /\ refs' \in [Sessions -> Int]
        /\ \A x \in Sessions : refs'[x] = refs[x] + (IF x = s THEN n ELSE 0)
    BY Zenon, <2>1, <2>2, RefsOfOne
  <2> QED BY Zenon, <2>3 DEF n
<1>5. ssl_session_is_time_valid(th[t].s)' <=> ssl_session_is_time_valid(s)
  BY Zenon, <1>0, <1>2, <1>3 DEF ssl_session_is_time_valid
<1>6. ThreadInv(t)'
  BY ZenonT(30), <1>0, <1>2, <1>3, <1>5 DEF ThreadInv
<1>7. \A x \in Sessions : refs'[x] = refs[x]
              + (IF th'[t].s = x THEN 1 ELSE 0) - (IF th[t].s = x THEN 1 ELSE 0)
              + (IF th'[t].own = x THEN 1 ELSE 0) - (IF th[t].own = x THEN 1 ELSE 0)
              + (IF x \in ext' THEN 1 ELSE 0) - (IF x \in ext THEN 1 ELSE 0)
  <2>1. \A x \in Sessions : refs[x] \in Nat /\ x # NULL
    BY ZenonT(30), Before, PointersAssumption
  <2> QED BY SMTT(30), <1>0, <1>2, <1>3, <1>4, <2>1
<1>8. th'[t].pc \notin Locking /\ ext' \in SUBSET Sessions
  BY ZenonT(30), Before, <1>0, <1>2, <1>3, PcNames
<1> QED BY ZenonT(30), Before, <1>0, <1>3, <1>4, <1>6, <1>7, <1>8, StepRefs

\* A thread lets go of its session.
LEMMA StepRelease ==
    ASSUME CacheIInv, NEW t \in Threads, ssl_lookup_session_reset(t) \/ SSL_free(t)
    PROVE  CacheIInv'
<1> DEFINE s == th[t].s
<1>0. /\ UNCHANGED <<now, time, cache, handshakes, ext>> /\ refs' = Refs(refs, s, -1)
      /\ th[t].pc \in {"expired", "held"}
  BY Zenon DEF ssl_lookup_session_reset, SSL_free
<1>1. /\ s \in Sessions \cup {NULL} /\ th[t].own = NULL /\ th[t].todo = {}
      /\ th[t].at <= now /\ 0 <= now
  BY SMTT(30), Before, <1>0 DEF ThreadInv, ThreadStates
<1>2. /\ th' \in [Threads -> ThreadStates] /\ \A u \in Threads : u # t => th'[u] = th[u]
      /\ th'[t].pc \in {"idle", "held"} /\ th'[t].s = NULL /\ th'[t].own = NULL
      /\ th'[t].todo = {} /\ th'[t].at <= now
  <2>1. "held" \in Pcs /\ "idle" \in Pcs
    BY ZenonT(30), PcNames
  <2>2. CASE ssl_lookup_session_reset(t)
    <3>1. th' = [th EXCEPT ![t].pc = "held", ![t].s = NULL, ![t].to = "idle"]
      BY Zenon, <2>2 DEF ssl_lookup_session_reset
    <3>2. th' \in [Threads -> ThreadStates]
      <4>1. th[t] \in ThreadStates /\ th \in [Threads -> ThreadStates]
        BY ZenonT(30), Before
      <4> DEFINE x == [th[t] EXCEPT !.pc = "held", !.s = NULL, !.to = "idle"]
      <4>2. x \in ThreadStates
        BY ZenonT(30), <2>1, <4>1 DEF ThreadStates
      <4>3. th' = [th EXCEPT ![t] = x]
        BY ZenonT(30), <3>1
      <4> HIDE DEF x
      <4> QED BY ZenonT(30), <4>1, <4>2, <4>3
    <3>3. /\ \A u \in Threads : u # t => th'[u] = th[u]
          /\ th'[t] = [th[t] EXCEPT !.pc = "held", !.s = NULL, !.to = "idle"] /\ th[t] \in ThreadStates
      BY ZenonT(30), Before, <3>1
    <3>4. /\ th'[t].pc = "held" /\ th'[t].s = NULL /\ th'[t].own = th[t].own
          /\ th'[t].todo = th[t].todo /\ th'[t].at = th[t].at
      BY ZenonT(30), <3>3 DEF ThreadStates
    <3> QED BY ZenonT(30), <1>1, <3>2, <3>3, <3>4
  <2>3. CASE SSL_free(t)
    <3>1. Idle \in ThreadStates
      BY SMTT(30), <2>1, TimeAssumption DEF Idle, ThreadStates
    <3>2. /\ Idle.pc = "idle" /\ Idle.s = NULL /\ Idle.own = NULL /\ Idle.todo = {} /\ Idle.at = 0
      BY ZenonT(30) DEF Idle
    <3>3. th' = [th EXCEPT ![t] = Idle]
      BY Zenon, <2>3 DEF SSL_free
    <3> QED BY ZenonT(30), Before, <1>1, <3>1, <3>2, <3>3
  <2> QED BY Zenon, <2>2, <2>3
<1>3. /\ refs' \in [Sessions -> Int]
      /\ \A x \in Sessions : refs'[x] = refs[x] + (IF x = s THEN -1 ELSE 0)
  <2>1. -1 \in Int /\ refs \in [Sessions -> Nat]
    BY SMTT(30), Before
  <2> HIDE DEF s
  <2> QED BY Zenon, <1>0, <1>1, <2>1, RefsOfOne
<1>4. ThreadInv(t)'
  BY ZenonT(30), <1>0, <1>2 DEF ThreadInv
<1>5. \A x \in Sessions : refs'[x] = refs[x]
              + (IF th'[t].s = x THEN 1 ELSE 0) - (IF th[t].s = x THEN 1 ELSE 0)
              + (IF th'[t].own = x THEN 1 ELSE 0) - (IF th[t].own = x THEN 1 ELSE 0)
              + (IF x \in ext' THEN 1 ELSE 0) - (IF x \in ext THEN 1 ELSE 0)
  <2>1. \A x \in Sessions : refs[x] \in Nat /\ x # NULL
    BY ZenonT(30), Before, PointersAssumption
  <2> QED BY SMTT(30), <1>0, <1>1, <1>2, <1>3, <2>1
<1>6. th'[t].pc \notin Locking
  BY ZenonT(30), <1>2, PcNames
<1> QED BY ZenonT(30), Before, <1>0, <1>2, <1>3, <1>4, <1>5, <1>6, StepRefs

\* Steps that leave the cache alone.
LEMMA SameCache ==
    ASSUME CacheIInv, cache' = cache
    PROVE  Cached(cache)' = Cached(cache) /\ ListMatchesTable'
<1>1. Cached(cache)' = Cached(cache)
  BY ZenonT(30) DEF Cached, Items
<1>2. Lists(cache, Cached(cache))
  BY Zenon DEF CacheIInv, ListMatchesTable
<1>3. Lists(cache', Cached(cache')) /\ Cached(cache)' = Cached(cache')
  BY Zenon, <1>1, <1>2
<1> QED BY Zenon, <1>1, <1>3 DEF ListMatchesTable, Lists, Linked

\* The external cache forgets a session.
LEMMA StepForget ==
    ASSUME CacheIInv, NEW s \in Sessions, ExternalDrop(s)
    PROVE  CacheIInv'
<1>0. /\ UNCHANGED <<now, time, cache, handshakes, th>> /\ s \in ext /\ ext' = ext \ {s}
      /\ refs' = Refs(refs, s, -1)
  BY Zenon DEF ExternalDrop
<1>1. /\ refs' \in [Sessions -> Int]
      /\ \A x \in Sessions : refs'[x] = refs[x] + (IF x = s THEN -1 ELSE 0)
  <2>1. -1 \in Int /\ refs \in [Sessions -> Nat]
    BY SMTT(30), Before
  <2> QED BY Zenon, <1>0, <2>1, RefsOfOne
<1>2. ASSUME NEW x \in Sessions
      PROVE  /\ refs'[x] = Cardinality({u \in Threads : th[u].s = x})
                           + Cardinality({u \in Threads : th[u].own = x})
                           + (IF x \in Cached(cache) THEN 1 ELSE 0) + (IF x \in ext' THEN 1 ELSE 0)
             /\ refs'[x] \in Nat
  <2> DEFINE A == {u \in Threads : th[u].s = x}
             C == {u \in Threads : th[u].own = x}
  <2>1. IsFiniteSet(A) /\ IsFiniteSet(C)
    BY ZenonT(30), SetsAssumption, FS_Subset
  <2>2. refs[x] = Cardinality(A) + Cardinality(C)
                  + (IF x \in Cached(cache) THEN 1 ELSE 0) + (IF x \in ext THEN 1 ELSE 0)
    BY Zenon DEF CacheIInv, ReferencesAreOwners
  <2> HIDE DEF A, C
  <2>3. Cardinality(A) \in Nat /\ Cardinality(C) \in Nat
    BY ZenonT(30), <2>1, FS_CardinalityType
  <2>4. /\ refs'[x] = Cardinality(A) + Cardinality(C)
                       + (IF x \in Cached(cache) THEN 1 ELSE 0) + (IF x \in ext' THEN 1 ELSE 0)
        /\ refs'[x] \in Nat
    BY SMTT(30), <1>0, <1>1, <2>2, <2>3
  <2> QED BY Zenon, <2>4 DEF A, C
<1>3. ReferencesAreOwners'
  BY ZenonT(30), <1>0, <1>2 DEF ReferencesAreOwners, Cached, Items
<1>4. TypeOK'
  BY ZenonT(30), <1>0, <1>1, <1>2 DEF CacheIInv, TypeOK
<1>5. CacheInv'
  BY ZenonT(30), <1>0 DEF CacheIInv, CacheInv, ThreadInv, ssl_session_is_time_valid, Cached, Items
<1>6. ListMatchesTable'
  BY Zenon, <1>0, SameCache
<1> QED BY Zenon, <1>3, <1>4, <1>5, <1>6 DEF CacheIInv

\* Time passes, and what had expired stays so.
LEMMA StepTick ==
    ASSUME CacheIInv, Tick
    PROVE  CacheIInv'
<1>0. UNCHANGED <<refs, time, cache, handshakes, ext, th>> /\ now' = now + 1 /\ now < MaxTime
  BY Zenon DEF Tick
<1>1. TypeOK'
  BY SMTT(30), <1>0, TimeAssumption DEF CacheIInv, TypeOK
<1>2. ReferencesAreOwners' /\ ListMatchesTable'
  BY Zenon, <1>0, SameCache DEF CacheIInv, ReferencesAreOwners
<1>3. ASSUME NEW t \in Threads PROVE ThreadInv(t)'
  <2>1. ThreadInv(t) /\ th[t] \in ThreadStates
    BY ZenonT(30), Before
  <2>2. ~ssl_session_is_time_valid(th[t].s) => ~ssl_session_is_time_valid(th[t].s)'
    <3>1. CASE th[t].s = NULL
      BY ZenonT(30), <1>0, <3>1 DEF ssl_session_is_time_valid
    <3>2. CASE th[t].s # NULL
      <4>1. th[t].s \in Sessions
        BY ZenonT(30), <2>1, <3>2 DEF ThreadStates
      <4>2. time[th[t].s] \in Nat /\ time[th[t].s] <= now /\ now \in Nat
        BY SMTT(30), Before, <4>1, TimeAssumption
      <4> QED BY SMTT(30), <1>0, <3>2, <4>2, TimeAssumption DEF ssl_session_is_time_valid
    <3> QED BY Zenon, <3>1, <3>2
  <2>3. th[t].at <= now'
    BY SMTT(30), <1>0, <2>1, Before DEF ThreadInv, ThreadStates
  <2>4. Cached(cache)' = Cached(cache)
    BY ZenonT(30), <1>0 DEF Cached, Items
  <2> QED BY Zenon, <1>0, <2>1, <2>2, <2>3, <2>4 DEF ThreadInv
<1>4. \A s \in Sessions : time'[s] <= now'
  BY SMTT(30), <1>0, Before
<1>5. CacheInv'
  BY Zenon, <1>0, <1>3, <1>4 DEF CacheIInv, CacheInv
<1> QED BY Zenon, <1>1, <1>2, <1>5 DEF CacheIInv

\* The empty cache.
LEMMA CacheInit == Init => CacheIInv
<1> SUFFICES ASSUME Init PROVE CacheIInv
  BY Zenon
<1>1. Idle \in ThreadStates
  BY SMTT(30), PcNames, TimeAssumption DEF Idle, ThreadStates
<1>2. TypeOK
  <2>1. cache \in Caches
    BY ZenonT(30) DEF Init, Caches, Pointers
  <2>2. now \in 1 .. MaxTime /\ handshakes \in 0 .. FlushEvery - 1
    BY SMTT(30), TimeAssumption, SizeAssumption DEF Init
  <2>3. /\ refs \in [Sessions -> Nat] /\ time \in [Sessions -> 0 .. MaxTime]
        /\ ext \subseteq Sessions /\ th \in [Threads -> ThreadStates]
    BY SMTT(30), <1>1, TimeAssumption DEF Init
  <2> QED BY Zenon, <2>1, <2>2, <2>3 DEF TypeOK
<1>3. Cached(cache) = {}
  BY ZenonT(30) DEF Init, Cached, Items
<1>4. ListMatchesTable
  <2> DEFINE w == [k \in 1 .. 0 |-> NULL]
  <2>1. 0 \in 0 .. Cardinality(Sessions)
    BY SMTT(30), SetsAssumption, FS_CardinalityType
  <2>2. w \in [1 .. 0 -> Sessions] /\ 1 .. 0 = {}
    OBVIOUS
  <2>3. /\ cache.head = NULL /\ cache.tail = NULL
        /\ \A s \in Sessions : cache.next[s] = NULL /\ cache.prev[s] = NULL
    BY ZenonT(30) DEF Init
  <2> HIDE DEF w
  <2>4. Linked(cache, w, 0)
    BY ZenonT(30), <2>2, <2>3 DEF Linked
  <2>5. {w[k] : k \in 1 .. 0} = {} /\ \A j, k \in 1 .. 0 : w[j] = w[k] => j = k
    BY ZenonT(30), <2>2
  <2> QED BY Zenon, <1>3, <2>1, <2>2, <2>4, <2>5 DEF ListMatchesTable, Lists
<1>5. ReferencesAreOwners
  <2> SUFFICES ASSUME NEW s \in Sessions
               PROVE  refs[s] = Cardinality({t \in Threads : th[t].s = s})
                                + Cardinality({t \in Threads : th[t].own = s})
                                + (IF s \in Cached(cache) THEN 1 ELSE 0) + (IF s \in ext THEN 1 ELSE 0)
    BY Zenon DEF ReferencesAreOwners
  <2>1. {t \in Threads : th[t].s = s} = {} /\ {t \in Threads : th[t].own = s} = {}
    BY ZenonT(30), PointersAssumption DEF Init, Idle
  <2>2. refs[s] = 0 /\ ext = {}
    BY ZenonT(30) DEF Init
  <2>3. Cardinality({}) = 0
    BY ZenonT(30), FS_EmptySet
  <2>4. s \notin Cached(cache) /\ s \notin ext
    BY ZenonT(30), <1>3, <2>2
  <2>5. Cardinality({t \in Threads : th[t].s = s}) = 0 /\ Cardinality({t \in Threads : th[t].own = s}) = 0
    BY Zenon, <2>1, <2>3
  <2> QED BY SMTT(30), <2>2, <2>4, <2>5
<1>6. CacheInv
  <2>1. ASSUME NEW t \in Threads PROVE ThreadInv(t) /\ th[t].pc \notin Locking
    BY SMTT(30), PcNames DEF Init, Idle, ThreadInv
  <2>2. \A i \in Ids : cache.table[i] = NULL
    BY ZenonT(30) DEF Init
  <2>3. \A s \in Sessions : time[s] <= now
    BY SMTT(30) DEF Init
  <2> QED BY Zenon, <2>1, <2>2, <2>3 DEF CacheInv
<1> QED BY Zenon, <1>2, <1>4, <1>5, <1>6 DEF CacheIInv

\* Every step of the cache.
LEMMA CacheStep ==
    ASSUME CacheIInv, [Next]_vars
    PROVE  CacheIInv'
<1>1. CASE Tick
  BY Zenon, <1>1, StepTick
<1>2. ASSUME NEW s \in Sessions, ExternalDrop(s) PROVE CacheIInv'
  BY Zenon, <1>2, StepForget
<1>3. ASSUME NEW t \in Threads,
             \/ ssl_update_cache(t) \/ evict(t) \/ ssl_update_cache_counted(t) \/ new_session_cb(t)
             \/ ssl_get_current_time(t) \/ ssl_update_cache_flush(t) \/ flushed(t)
             \/ SSL_CTX_add_session(t) \/ SSL_CTX_add_session_return(t) \/ ssl_lookup_session_check(t)
             \/ remove_session(t) \/ remove_session_free(t) \/ ssl_lookup_session_reset(t)
             \/ get_session_cb_none(t) \/ App(t) \/ SSL_free(t)
      PROVE  CacheIInv'
  BY Zenon, <1>3, StepUpdate, StepEvict, StepNewCb, StepClock, StepFlushed, StepAdd, StepCheck,
     StepRemove, StepFree, StepRelease, StepNone
<1>4. ASSUME NEW t \in Threads, NEW s \in Sessions,
             ssl_get_new_session(t, s) \/ get_session_cb(t, s) \/ timeout_doall_arg(t, s)
      PROVE  CacheIInv'
  BY Zenon, <1>4, StepNew, StepExternal, StepVisit
<1>5. ASSUME NEW t \in Threads, NEW i \in Ids, ssl_lookup_session(t, i) PROVE CacheIInv'
  BY Zenon, <1>5, StepLookup
<1>6. ASSUME NEW t \in Threads, \E at \in {0, now} : SSL_CTX_flush_sessions(t, at) PROVE CacheIInv'
  BY Zenon, <1>6, StepClock
<1>7. CASE UNCHANGED vars
  <2>1. UNCHANGED <<now, refs, time, cache, handshakes, ext, th>>
    BY Zenon, <1>7 DEF vars
  <2>2. TypeOK' /\ CacheInv'
    BY ZenonT(30), <2>1 DEF CacheIInv, TypeOK, CacheInv, ThreadInv, ssl_session_is_time_valid, Cached, Items
  <2>3. ReferencesAreOwners' /\ ListMatchesTable'
    BY Zenon, <2>1, SameCache DEF CacheIInv, ReferencesAreOwners
  <2> QED BY Zenon, <2>2, <2>3 DEF CacheIInv
<1> QED BY Zenon, <1>1, <1>2, <1>3, <1>4, <1>5, <1>6, <1>7 DEF Next

\* The inductive invariant of the session cache.
THEOREM CacheInvariant == Spec => []CacheIInv
BY CacheInit, CacheStep, PTL DEF Spec

\* Whatever the threads, sessions, sizes and clocks, the list and the table of
\* the session cache hold the same sessions (SSL_SESSION_list_add, _remove).
THEOREM ListAndTable == Spec => []ListMatchesTable
<1>1. CacheIInv => ListMatchesTable
  BY Zenon DEF CacheIInv
<1> QED BY <1>1, CacheInvariant, PTL

\* Whatever the threads do, a session's reference count is the number of its
\* owners: none is freed in use, none leaks.
THEOREM ReferencesCounted == Spec => []ReferencesAreOwners
<1>1. CacheIInv => ReferencesAreOwners
  BY Zenon DEF CacheIInv
<1> QED BY <1>1, CacheInvariant, PTL

\* The step of ValidSessionsStay.
StaysValid ==
    \A i \in Ids :
        LET s == cache.table[i]
        IN  ssl_session_is_time_valid(s) /\ cache'.table[i] # s =>
              \/ cache'.table[i] # NULL
              \/ TooMany /\ s = cache.tail
              \/ \E t \in Threads : th[t].s = s /\ th[t].pc = "remove" /\ th[t].to = "held"
              \/ \E t \in Threads : th[t].pc = "sweep" /\ th[t].at = 0

\* A session that leaves the table without a successor is the one dropped.
LEMMA OnlyTheDropped ==
    ASSUME CacheIInv, NEW s \in Sessions, s \in Cached(cache),
           cache'.table = [cache.table EXCEPT ![Id[s]] = NULL],
           NEW i \in Ids, cache'.table[i] # cache.table[i]
    PROVE  s = cache.table[i]
<1>1. GoodCache(cache)
  BY Zenon, Before
<1>2. cache.table[Id[s]] = s
  BY Zenon, <1>1, CachedByID DEF GoodCache
<1>3. cache.table \in [Ids -> Sessions \cup {NULL}]
  BY ZenonT(30), <1>1 DEF GoodCache, Caches
<1>4. i = Id[s]
  BY ZenonT(30), <1>3
<1> QED BY Zenon, <1>2, <1>4

\* What takes a session out of the table.
LEMMA ValidStep ==
    ASSUME CacheIInv, [Next]_vars
    PROVE  StaysValid
<1> SUFFICES ASSUME NEW i \in Ids, ssl_session_is_time_valid(cache.table[i]),
                    cache'.table[i] # cache.table[i]
             PROVE  \/ cache'.table[i] # NULL
                    \/ TooMany /\ cache.table[i] = cache.tail
                    \/ \E t \in Threads : th[t].s = cache.table[i] /\ th[t].pc = "remove" /\ th[t].to = "held"
                    \/ \E t \in Threads : th[t].pc = "sweep" /\ th[t].at = 0
  BY Zenon DEF StaysValid
<1>0. GoodCache(cache) /\ cache \in Caches /\ Keyed(cache)
  BY Zenon, Before DEF GoodCache
<1>1. ASSUME NEW t \in Threads, NEW p, Insert(t, p), ~Present(t), th[t].s \in Sessions
      PROVE  cache'.table[i] # NULL
  <2>1. cache' = Inserted(cache, th[t].s)
    BY Zenon, <1>1 DEF Insert, Inserted
  <2>2. cache'.table = [cache.table EXCEPT ![Id[th[t].s]] = th[t].s]
    BY ZenonT(30), <1>0, <1>1, <2>1, InsertOne DEF Present
  <2>3. cache.table \in [Ids -> Sessions \cup {NULL}] /\ th[t].s # NULL
    BY ZenonT(30), <1>0, <1>1, PointersAssumption DEF Caches
  <2> QED BY ZenonT(30), <2>2, <2>3
<1>2. ASSUME NEW t \in Threads, evict(t)
      PROVE  TooMany /\ cache.table[i] = cache.tail
  <2>1. TooMany /\ Drop(cache.tail)
    BY Zenon, <1>2 DEF evict
  <2>2. cache.tail \in Sessions
    BY ZenonT(30), <1>0, <2>1 DEF TooMany, Caches
  <2>3. cache.tail \in Cached(cache)
    BY Zenon, <1>0, <2>1, <2>2, CachedByID DEF TooMany
  <2>4. cache'.table = [cache.table EXCEPT ![Id[cache.tail]] = NULL]
    BY Zenon, <2>1, <2>2, <2>3, DropOne
  <2> QED BY Zenon, <2>1, <2>2, <2>3, <2>4, OnlyTheDropped
<1>3. ASSUME NEW t \in Threads, NEW s \in Sessions, timeout_doall_arg(t, s)
      PROVE  th[t].pc = "sweep" /\ th[t].at = 0
  <2>1. th[t].pc = "sweep" /\ s \in th[t].todo
    BY Zenon, <1>3 DEF timeout_doall_arg
  <2>2. s \in Cached(cache) /\ th[t].at <= now /\ th[t].at \in Nat
    BY SMTT(30), Before, <2>1 DEF ThreadInv, ThreadStates
  <2>3. Drop(s) /\ (th[t].at = 0 \/ th[t].at > time[s] + Timeout)
    BY Zenon, <1>3 DEF timeout_doall_arg
  <2>4. cache'.table = [cache.table EXCEPT ![Id[s]] = NULL]
    BY Zenon, <2>2, <2>3, DropOne
  <2>5. s = cache.table[i]
    BY Zenon, <2>2, <2>4, OnlyTheDropped
  <2>6. Timeout > now - time[s] /\ time[s] \in Nat /\ now \in Nat
    BY SMTT(30), Before, <2>5 DEF ssl_session_is_time_valid
  <2>7. th[t].at = 0
    BY SMTT(30), <2>2, <2>3, <2>6, TimeAssumption
  <2> QED BY Zenon, <2>1, <2>7
<1>4. ASSUME NEW t \in Threads, remove_session(t)
      PROVE  th[t].s = cache.table[i] /\ th[t].pc = "remove" /\ th[t].to = "held"
  <2>0. th[t].pc = "remove" /\ cache.table[Id[th[t].s]] = th[t].s /\ cache' = Unlink(cache, th[t].s)
    BY Zenon, <1>4 DEF remove_session
  <2>1. ThreadInv(t) /\ th[t] \in ThreadStates
    BY ZenonT(30), Before
  <2>2. /\ th[t].s \in Sessions /\ th[t].to \in {"held", "expired"}
        /\ th[t].to = "expired" => ~ssl_session_is_time_valid(th[t].s)
    BY ZenonT(30), <2>0, <2>1 DEF ThreadInv, ThreadStates
  <2>3. th[t].s \in Cached(cache)
    BY Zenon, <1>0, <2>0, <2>2, CachedByID
  <2>4. cache'.table = [cache.table EXCEPT ![Id[th[t].s]] = NULL]
    BY ZenonT(30), <1>0, <2>0, <2>2, <2>3, UnlinkOne
  <2>5. th[t].s = cache.table[i]
    BY Zenon, <2>2, <2>3, <2>4, OnlyTheDropped
  <2> QED BY Zenon, <2>0, <2>2, <2>5
<1>5. ASSUME NEW t \in Threads, ssl_update_cache(t) \/ SSL_CTX_add_session(t)
      PROVE  cache'.table[i] # NULL
  <2>1. th[t].pc \in {"update", "add"}
    BY ZenonT(30), <1>5 DEF ssl_update_cache, SSL_CTX_add_session
  <2>2. th[t].s \in Sessions
    BY ZenonT(30), Before, <2>1 DEF ThreadInv, ThreadStates
  <2>3. ~Present(t) /\ (Insert(t, "update_evict") \/ Insert(t, "add_evict"))
    BY Zenon, <1>5 DEF ssl_update_cache, SSL_CTX_add_session, CountHandshake, Return
  <2> QED BY Zenon, <1>1, <2>2, <2>3
<1>6. ASSUME cache' = cache PROVE FALSE
  BY Zenon, <1>6
<1>7. CASE Tick
  BY Zenon, <1>6, <1>7 DEF Tick
<1>8. ASSUME NEW s \in Sessions, ExternalDrop(s) PROVE FALSE
  BY Zenon, <1>6, <1>8 DEF ExternalDrop
<1>9. ASSUME NEW t \in Threads,
             \/ ssl_update_cache_counted(t) \/ new_session_cb(t)
             \/ ssl_get_current_time(t) \/ ssl_update_cache_flush(t) \/ flushed(t)
             \/ SSL_CTX_add_session_return(t) \/ ssl_lookup_session_check(t)
             \/ remove_session_free(t) \/ ssl_lookup_session_reset(t)
             \/ get_session_cb_none(t) \/ App(t) \/ SSL_free(t)
      PROVE  FALSE
  BY Zenon, <1>6, <1>9 DEF ssl_update_cache_counted, new_session_cb, ssl_get_current_time,
     ssl_update_cache_flush, flushed, SSL_CTX_add_session_return, ssl_lookup_session_check,
     remove_session_free, ssl_lookup_session_reset, get_session_cb_none, App, SSL_free,
     CountHandshake, Return, Flush
<1>10. ASSUME NEW t \in Threads, NEW s \in Sessions, ssl_get_new_session(t, s) \/ get_session_cb(t, s)
       PROVE  FALSE
  BY Zenon, <1>6, <1>10 DEF ssl_get_new_session, get_session_cb
<1>11. ASSUME NEW t \in Threads, NEW j \in Ids, ssl_lookup_session(t, j) PROVE FALSE
  BY Zenon, <1>6, <1>11 DEF ssl_lookup_session
<1>12. ASSUME NEW t \in Threads, \E at \in {0, now} : SSL_CTX_flush_sessions(t, at) PROVE FALSE
  BY Zenon, <1>6, <1>12 DEF SSL_CTX_flush_sessions, Flush
<1>13. CASE UNCHANGED vars
  BY Zenon, <1>6, <1>13 DEF vars
<1> QED BY Zenon, <1>2, <1>3, <1>4, <1>5, <1>7, <1>8, <1>9, <1>10, <1>11, <1>12, <1>13 DEF Next

\* A valid session leaves the cache only for the reasons the code has for it:
\* replaced, the oldest of too many, removed by the application, or swept with
\* everything else (remove_session, timeout_doall_arg).
THEOREM ValidSessionsRemain == Spec => ValidSessionsStay
<1>1. CacheIInv /\ [Next]_vars => [StaysValid]_vars
  BY Zenon, ValidStep
<1>2. [][StaysValid]_vars => ValidSessionsStay
  BY Zenon DEF StaysValid, ValidSessionsStay
<1> QED BY <1>1, <1>2, CacheInvariant, PTL DEF Spec
=============================================================================
