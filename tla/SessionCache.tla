---------------------------- MODULE SessionCache ----------------------------
(***************************************************************************)
(* The server's session cache (ssl/ssl_session.cc): a hash table by        *)
(* session ID and, through the sessions themselves, a doubly linked list   *)
(* from the newest to the oldest.  Threads share it under ctx->lock; what  *)
(* a thread does between two critical sections is a step of its own, and   *)
(* so is each turn of a loop inside one, for only the cache is locked and  *)
(* not the reference counts.  An external cache behind the callbacks holds *)
(* references too.                                                         *)
(***************************************************************************)
EXTENDS Integers, FiniteSets

CONSTANTS
    Threads,
    Sessions,           \* SSL_SESSION objects; a freed one is reused
    Ids, Id,            \* session IDs, and the one each object is filled with
    NULL, HEAD, TAIL,   \* no pointer; &ctx->session_cache_head and _tail
    CacheSize,          \* SSL_CTX_sess_get_cache_size; 0: no limit
    FlushEvery,         \* handshakes between two flushes (255)
    Timeout,            \* session->timeout
    MaxTime,            \* bound: how far the clock runs
    External            \* whether the callbacks are set

ASSUME SizeAssumption == CacheSize \in Nat /\ FlushEvery \in Nat \ {0}
ASSUME TimeAssumption == Timeout \in Nat /\ MaxTime \in Nat \ {0}
ASSUME SetsAssumption ==
    IsFiniteSet(Threads) /\ IsFiniteSet(Sessions) /\ Id \in [Sessions -> Ids]
ASSUME PointersAssumption ==
    /\ NULL \notin Sessions \cup {HEAD, TAIL} /\ HEAD \notin Sessions \cup {TAIL}
    /\ TAIL \notin Sessions

VARIABLES
    now,
    refs,               \* per session, its references; 0: freed
    time,               \* session->time
    cache,              \* [table, head, tail, next, prev]
    handshakes,         \* ctx->handshakes_since_cache_flush
    ext,                \* sessions the external cache owns a reference to
    th                  \* per thread, [pc, s, id, to, at, own, todo]

vars == <<now, refs, time, cache, handshakes, ext, th>>

\* A thread holds a reference to s, and one to own that it took over from the
\* table; todo are the sessions a flush has yet to visit.
Idle == [pc |-> "idle", s |-> NULL, id |-> NULL, to |-> "idle", at |-> 0,
         own |-> NULL, todo |-> {}]

\* The write lock is held from one step to the next.
Locking == {"update_evict", "add_evict", "sweep"}
Pcs == Locking \cup {"idle", "update", "clock", "flush", "new_cb", "held", "external", "add",
                     "check", "remove", "unlinked", "expired"}
Unlocked == \A t \in Threads : th[t].pc \notin Locking

Init ==
    /\ now = 1
    /\ refs = [s \in Sessions |-> 0]
    /\ time = [s \in Sessions |-> 0]
    /\ cache = [table |-> [i \in Ids |-> NULL], head |-> NULL, tail |-> NULL,
                next |-> [s \in Sessions |-> NULL], prev |-> [s \in Sessions |-> NULL]]
    /\ handshakes = 0
    /\ ext = {}
    /\ th = [t \in Threads |-> Idle]

Tick ==
    /\ now < MaxTime
    /\ now' = now + 1
    /\ UNCHANGED <<refs, time, cache, handshakes, ext, th>>

Items(c) == {i \in Ids : c.table[i] # NULL}
Cached(c) == {c.table[i] : i \in Items(c)}
Refs(f, s, n) == IF s = NULL THEN f ELSE [f EXCEPT ![s] = @ + n]

ssl_session_is_time_valid(s) == s # NULL /\ now >= time[s] /\ Timeout > now - time[s]

-----------------------------------------------------------------------------
\* Mutant: the only element is taken for the first of several.
SSL_SESSION_list_remove_NoSingle(c, s) ==
    IF c.next[s] = TAIL /\ c.prev[s] = HEAD
      THEN [c EXCEPT !.tail = NULL, !.next[s] = NULL, !.prev[s] = NULL]
      ELSE c

SSL_SESSION_list_remove(c, s) ==
    LET n == c.next[s]
        p == c.prev[s]
        rest == IF n = TAIL THEN IF p = HEAD THEN [c EXCEPT !.head = NULL, !.tail = NULL]
                                             ELSE [c EXCEPT !.tail = p, !.next[p] = TAIL]
                ELSE IF p = HEAD THEN [c EXCEPT !.head = n, !.prev[n] = HEAD]
                                 ELSE [c EXCEPT !.prev[n] = p, !.next[p] = n]
    IN  IF n = NULL \/ p = NULL THEN c ELSE [rest EXCEPT !.next[s] = NULL, !.prev[s] = NULL]

SSL_SESSION_list_add(c, s) ==
    LET d == IF c.next[s] # NULL /\ c.prev[s] # NULL THEN SSL_SESSION_list_remove(c, s) ELSE c
    IN  IF d.head = NULL
          THEN [d EXCEPT !.head = s, !.tail = s, !.prev[s] = HEAD, !.next[s] = TAIL]
          ELSE [d EXCEPT !.next[s] = d.head, !.prev[d.head] = s, !.prev[s] = HEAD, !.head = s]

\* Out of the table and off the list.
Unlink(c, s) == [SSL_SESSION_list_remove(c, s) EXCEPT !.table[Id[s]] = NULL]

\* Mutant: SSL_SESSION_free is left out.
Freed_NoFree(s) == Refs(refs, s, IF s \in ext THEN -1 ELSE 0)

\* remove_session_cb, then SSL_SESSION_free.
Freed(s) == Refs(refs, s, IF s \in ext THEN -2 ELSE -1)

\* A session leaves the cache under the lock, callback included.
Drop(s) ==
    /\ cache' = Unlink(cache, s)
    /\ refs' = Freed(s)
    /\ ext' = ext \ {s}

-----------------------------------------------------------------------------
\* add_session_locked.  The table's reference goes to s, and the one of a
\* session with the same ID to the thread; if s was in the cache already, so
\* was its reference.
Present(t) == cache.table[Id[th[t].s]] = th[t].s

Insert(t, loop) ==
    LET s == th[t].s
        old == cache.table[Id[s]]
        in == [cache EXCEPT !.table[Id[s]] = s]
    IN  /\ cache' = SSL_SESSION_list_add(IF old = NULL THEN in ELSE SSL_SESSION_list_remove(in, old), s)
        /\ refs' = Refs(refs, s, 1)
        /\ th' = [th EXCEPT ![t].pc = loop, ![t].own = old]

\* The loop that keeps the table within its size: remove_session of the oldest
\* session, which fails if the table does not hold it.
TooMany ==
    /\ CacheSize > 0 /\ Cardinality(Items(cache)) > CacheSize
    /\ cache.tail # NULL /\ cache.table[Id[cache.tail]] = cache.tail

evict(t) ==
    /\ th[t].pc \in {"update_evict", "add_evict"} /\ TooMany
    /\ Drop(cache.tail)
    /\ UNCHANGED <<now, time, handshakes, th>>

\* On return the reference of the replaced session is dropped.
Return(t, pc) ==
    /\ refs' = Refs(refs, th[t].own, -1)
    /\ th' = [th EXCEPT ![t].pc = pc, ![t].own = NULL]
    /\ UNCHANGED <<now, time, cache, ext>>

-----------------------------------------------------------------------------
\* A full handshake: ssl_get_new_session, filled in and established.
ssl_get_new_session(t, s) ==
    /\ th[t].pc = "idle" /\ refs[s] = 0
    /\ refs' = [refs EXCEPT ![s] = 1]
    /\ time' = [time EXCEPT ![s] = now]
    /\ th' = [th EXCEPT ![t].pc = "update", ![t].s = s]
    /\ UNCHANGED <<now, cache, handshakes, ext>>

\* ssl_update_cache: the handshakes are counted under the same lock.
CountHandshake(t) ==
    IF handshakes + 1 >= FlushEvery THEN handshakes' = 0 /\ Return(t, "clock")
                                    ELSE handshakes' = handshakes + 1 /\ Return(t, "new_cb")

ssl_update_cache(t) ==
    /\ th[t].pc = "update" /\ Unlocked
    /\ \/ Present(t) /\ CountHandshake(t)
       \/ ~Present(t) /\ Insert(t, "update_evict") /\ UNCHANGED <<now, time, handshakes, ext>>

ssl_update_cache_counted(t) ==
    /\ th[t].pc = "update_evict" /\ ~TooMany
    /\ CountHandshake(t)

\* new_session_cb, which may take ownership.
new_session_cb(t) ==
    LET s == th[t].s
    IN  /\ th[t].pc = "new_cb"
        /\ \/ External /\ s \notin ext /\ ext' = ext \cup {s} /\ refs' = Refs(refs, s, 1)
           \/ UNCHANGED <<ext, refs>>
        /\ th' = [th EXCEPT ![t].pc = "held"]
        /\ UNCHANGED <<now, time, cache, handshakes>>

-----------------------------------------------------------------------------
\* SSL_CTX_flush_sessions takes the lock and visits what is in the table.
Flush(t, at, to) ==
    /\ Unlocked
    /\ th' = [th EXCEPT ![t] = [@ EXCEPT !.pc = "sweep", !.at = at, !.to = to, !.todo = Cached(cache)]]
    /\ UNCHANGED <<now, refs, time, cache, handshakes, ext>>

\* The flush of ssl_update_cache: the clock is read between the two locks.
ssl_get_current_time(t) ==
    /\ th[t].pc = "clock"
    /\ th' = [th EXCEPT ![t].pc = "flush", ![t].at = now]
    /\ UNCHANGED <<now, refs, time, cache, handshakes, ext>>

ssl_update_cache_flush(t) == th[t].pc = "flush" /\ Flush(t, th[t].at, "new_cb")

\* The application's call, of the present time or of zero.
SSL_CTX_flush_sessions(t, at) == th[t].pc = "idle" /\ Flush(t, at, "idle")

timeout_doall_arg(t, s) ==
    /\ th[t].pc = "sweep" /\ s \in th[t].todo
    /\ IF th[t].at = 0 \/ th[t].at > time[s] + Timeout
         THEN Drop(s)
         ELSE UNCHANGED <<cache, refs, ext>>
    /\ th' = [th EXCEPT ![t].todo = @ \ {s}]
    /\ UNCHANGED <<now, time, handshakes>>

flushed(t) ==
    /\ th[t].pc = "sweep" /\ th[t].todo = {}
    /\ th' = [th EXCEPT ![t] = [@ EXCEPT !.pc = th[t].to, !.at = 0, !.to = "idle"]]
    /\ UNCHANGED <<now, refs, time, cache, handshakes, ext>>

-----------------------------------------------------------------------------
\* ssl_lookup_session: the internal cache, under the read lock.
ssl_lookup_session(t, i) ==
    LET s == cache.table[i]
    IN  /\ th[t].pc = "idle" /\ Unlocked
        /\ refs' = Refs(refs, s, 1)
        /\ th' = [th EXCEPT ![t] =
                    [@ EXCEPT !.pc = IF s = NULL /\ External THEN "external" ELSE "check",
                              !.s = s, !.id = i]]
        /\ UNCHANGED <<now, time, cache, handshakes, ext>>

\* get_session_cb finds nothing, or is not ready and will be asked again: no
\* session.
get_session_cb_none(t) ==
    /\ th[t].pc = "external"
    /\ th' = [th EXCEPT ![t] = Idle]
    /\ UNCHANGED <<now, refs, time, cache, handshakes, ext>>

\* It returns a session, with a reference (*out_copy = 0).
get_session_cb(t, s) ==
    /\ th[t].pc = "external" /\ s \in ext /\ Id[s] = th[t].id
    /\ refs' = Refs(refs, s, 1)
    /\ th' = [th EXCEPT ![t].pc = "add", ![t].to = "check", ![t].s = s]
    /\ UNCHANGED <<now, time, cache, handshakes, ext>>

\* SSL_CTX_add_session, from the lookup or from the application.
SSL_CTX_add_session(t) ==
    /\ th[t].pc = "add" /\ Unlocked
    /\ \/ Present(t) /\ Return(t, th[t].to)
       \/ ~Present(t) /\ Insert(t, "add_evict") /\ UNCHANGED <<now, time, ext>>
    /\ UNCHANGED handshakes

SSL_CTX_add_session_return(t) ==
    /\ th[t].pc = "add_evict" /\ ~TooMany
    /\ Return(t, th[t].to)
    /\ UNCHANGED handshakes

\* The rest of ssl_lookup_session: is it still good?
ssl_lookup_session_check(t) ==
    LET good == ssl_session_is_time_valid(th[t].s)
    IN  /\ th[t].pc = "check"
        /\ th' = [th EXCEPT ![t] =
             [@ EXCEPT !.pc = IF good \/ th[t].s = NULL THEN "held" ELSE "remove",
                       !.to = IF good \/ th[t].s = NULL THEN "idle" ELSE "expired"]]
        /\ UNCHANGED <<now, refs, time, cache, handshakes, ext>>

\* Mutant: whatever has the session's ID is removed.
remove_session_ById(t) ==
    LET s == cache.table[Id[th[t].s]]
    IN  /\ th[t].pc = "remove" /\ Unlocked
        /\ IF s # NULL
             THEN /\ cache' = Unlink(cache, s)
                  /\ th' = [th EXCEPT ![t].pc = "unlinked", ![t].own = s]
             ELSE th' = [th EXCEPT ![t].pc = th[t].to] /\ UNCHANGED cache
        /\ UNCHANGED <<now, refs, time, handshakes, ext>>

\* remove_session: only if the table holds this very session.
remove_session(t) ==
    LET s == th[t].s
    IN  /\ th[t].pc = "remove" /\ Unlocked
        /\ IF cache.table[Id[s]] = s
             THEN /\ cache' = Unlink(cache, s)
                  /\ th' = [th EXCEPT ![t].pc = "unlinked", ![t].own = s]
             ELSE th' = [th EXCEPT ![t].pc = th[t].to] /\ UNCHANGED cache
        /\ UNCHANGED <<now, refs, time, handshakes, ext>>

\* Unlocked again: remove_session_cb, and the table's reference is dropped.
remove_session_free(t) ==
    LET s == th[t].own
    IN  /\ th[t].pc = "unlinked"
        /\ refs' = Freed(s)
        /\ ext' = ext \ {s}
        /\ th' = [th EXCEPT ![t].pc = th[t].to, ![t].own = NULL]
        /\ UNCHANGED <<now, time, cache, handshakes>>

\* session.reset() of the expired one; the lookup returns no session.
ssl_lookup_session_reset(t) ==
    /\ th[t].pc = "expired"
    /\ refs' = Refs(refs, th[t].s, -1)
    /\ th' = [th EXCEPT ![t].pc = "held", ![t].s = NULL, ![t].to = "idle"]
    /\ UNCHANGED <<now, time, cache, handshakes, ext>>

-----------------------------------------------------------------------------
\* A connection that has its session: the application may add or remove it.
App(t) ==
    /\ th[t].pc = "held" /\ th[t].s # NULL
    /\ \E op \in {"add", "remove"} : th' = [th EXCEPT ![t].pc = op, ![t].to = "held"]
    /\ UNCHANGED <<now, refs, time, cache, handshakes, ext>>

\* The connection is freed.
SSL_free(t) ==
    LET s == th[t].s
    IN  /\ th[t].pc = "held"
        /\ refs' = Refs(refs, s, -1)
        /\ th' = [th EXCEPT ![t] = Idle]
        /\ UNCHANGED <<now, time, cache, handshakes, ext>>

\* The external cache forgets a session.
ExternalDrop(s) ==
    /\ s \in ext
    /\ ext' = ext \ {s}
    /\ refs' = Refs(refs, s, -1)
    /\ UNCHANGED <<now, time, cache, handshakes, th>>

Next ==
    \/ Tick
    \/ \E s \in Sessions : ExternalDrop(s)
    \/ \E t \in Threads :
        \/ ssl_update_cache(t) \/ evict(t) \/ ssl_update_cache_counted(t) \/ new_session_cb(t)
        \/ ssl_get_current_time(t) \/ ssl_update_cache_flush(t) \/ flushed(t)
        \/ SSL_CTX_add_session(t) \/ SSL_CTX_add_session_return(t) \/ ssl_lookup_session_check(t)
        \/ remove_session(t) \/ remove_session_free(t) \/ ssl_lookup_session_reset(t)
        \/ get_session_cb_none(t) \/ App(t) \/ SSL_free(t)
        \/ \E s \in Sessions :
             ssl_get_new_session(t, s) \/ get_session_cb(t, s) \/ timeout_doall_arg(t, s)
        \/ \E i \in Ids : ssl_lookup_session(t, i)
        \/ \E at \in {0, now} : SSL_CTX_flush_sessions(t, at)

Spec == Init /\ [][Next]_vars

-----------------------------------------------------------------------------
Pointers == Sessions \cup {NULL, HEAD, TAIL}

Caches == [table : [Ids -> Sessions \cup {NULL}],
           head : Sessions \cup {NULL}, tail : Sessions \cup {NULL},
           next : [Sessions -> Pointers], prev : [Sessions -> Pointers]]
ThreadStates == [pc : Pcs, s : Sessions \cup {NULL}, id : Ids \cup {NULL}, to : Pcs,
                 at : 0 .. MaxTime, own : Sessions \cup {NULL}, todo : SUBSET Sessions]

TypeOK ==
    /\ now \in 1 .. MaxTime
    /\ refs \in [Sessions -> Nat] /\ time \in [Sessions -> 0 .. MaxTime]
    /\ cache \in Caches
    /\ handshakes \in 0 .. FlushEvery - 1
    /\ ext \subseteq Sessions
    /\ th \in [Threads -> ThreadStates]

\* The list is w, of n sessions: its ends and its pointers, in both directions,
\* and no pointer into it from a session that is not part of it.
Linked(c, w, n) ==
    /\ c.head = (IF n = 0 THEN NULL ELSE w[1]) /\ c.tail = (IF n = 0 THEN NULL ELSE w[n])
    /\ \A k \in 1 .. n : /\ c.next[w[k]] = IF k = n THEN TAIL ELSE w[k + 1]
                        /\ c.prev[w[k]] = IF k = 1 THEN HEAD ELSE w[k - 1]
    /\ \A s \in Sessions : (\A k \in 1 .. n : w[k] # s) => c.next[s] = NULL /\ c.prev[s] = NULL

\* The list holds the sessions S, each once.
Lists(c, S) ==
    \E n \in 0 .. Cardinality(Sessions) : \E w \in [1 .. n -> Sessions] :
        /\ Linked(c, w, n)
        /\ \A j, k \in 1 .. n : w[j] = w[k] => j = k
        /\ {w[k] : k \in 1 .. n} = S

\* The list and the hash table hold the same sessions: SSL_SESSION_list_add,
\* SSL_SESSION_list_remove and the table's insertions and deletions, whichever
\* paths combined them, leave a list that can be walked from either end and
\* holds once what the table holds.
ListMatchesTable == Lists(cache, Cached(cache))

\* The reference count of a session is the number of its owners: the cache (one
\* reference for table and list), the external cache, each thread that holds
\* it, and a thread that has taken it over from the table and has not freed it
\* yet.  So no owner can see it freed, and none leaks it.
ReferencesAreOwners ==
    \A s \in Sessions :
        refs[s] = Cardinality({t \in Threads : th[t].s = s})
                  + Cardinality({t \in Threads : th[t].own = s})
                  + (IF s \in Cached(cache) THEN 1 ELSE 0) + (IF s \in ext THEN 1 ELSE 0)

\* A session that is still valid leaves the table only when one with the same
\* ID takes its place, as the oldest of too many, on the application's own
\* SSL_CTX_remove_session of that session, or by a flush of everything: never
\* by a lookup that had found an expired session under the same ID, nor by the
\* periodic flush.
ValidSessionsStay ==
    [][\A i \in Ids :
        LET s == cache.table[i]
        IN  ssl_session_is_time_valid(s) /\ cache'.table[i] # s =>
              \/ cache'.table[i] # NULL
              \/ TooMany /\ s = cache.tail
              \/ \E t \in Threads : th[t].s = s /\ th[t].pc = "remove" /\ th[t].to = "held"
              \/ \E t \in Threads : th[t].pc = "sweep" /\ th[t].at = 0]_vars
=============================================================================
