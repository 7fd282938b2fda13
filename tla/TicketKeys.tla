----------------------------- MODULE TicketKeys -----------------------------
(***************************************************************************)
(* The session ticket keys of an SSL_CTX: made on first use, replaced after *)
(* an interval, kept one more interval to open old tickets.  Handshakes on  *)
(* several threads share them; each reads the clock once, tests the keys    *)
(* under a read lock, may change them under a write lock and uses them      *)
(* under a second read lock, and any time may pass in between.              *)
(***************************************************************************)
EXTENDS Integers, FiniteSets

CONSTANTS Workers,    \* threads that seal and open tickets
          Interval,   \* SSL_DEFAULT_TICKET_KEY_ROTATION_INTERVAL
          MaxClock,   \* bound of the clock
          MaxSet      \* bound: the application sets keys while fewer were made

ASSUME IntervalAssumption == Interval \in Nat \ {0}

NoKey == [id |-> 0, next |-> 0]

VARIABLES clock,
          current, prev,   \* ticket_key_current, ticket_key_prev
          made,            \* keys made so far
          wk,              \* per worker: its step, operation and |now|
          tickets,         \* history: tickets minted, by key id, with the time
                           \* its key was to be replaced (0 for never)
          retired          \* history: keys the application replaced

ticket_vars == <<clock, current, prev, made, wk, tickets, retired>>

IdleWorker == [at |-> "idle", op |-> "none", now |-> 0, ticket |-> NoKey, got |-> NoKey]

TicketInit ==
  /\ clock = 1
  /\ current = NoKey /\ prev = NoKey
  /\ made = 0
  /\ wk = [t \in Workers |-> IdleWorker]
  /\ tickets = {}
  /\ retired = {}

TicketTick ==
  /\ clock < MaxClock
  /\ clock' = clock + 1
  /\ UNCHANGED <<current, prev, made, wk, tickets, retired>>

-----------------------------------------------------------------------------
(* An operation that needs a key starts with the time. *)
Start(t) ==
  /\ wk[t].at = "idle"
  /\ \/ \E op \in {"encrypt", "get"} :
          wk' = [wk EXCEPT ![t] = [IdleWorker EXCEPT !.at = "check", !.op = op, !.now = clock]]
     \/ \E k \in tickets :
          wk' = [wk EXCEPT ![t] = [IdleWorker EXCEPT !.at = "check", !.op = "decrypt",
                                               !.now = clock, !.ticket = k]]
  /\ UNCHANGED <<clock, current, prev, made, tickets, retired>>

(* Mutant: any current key will do. *)
Fresh_AnyKey(now) == current # NoKey /\ (prev = NoKey \/ prev.next > now)

(* Under the read lock: nothing to do for keys that are in their time. *)
Fresh(now) == /\ current # NoKey
              /\ current.next = 0 \/ current.next > now
              /\ prev = NoKey \/ prev.next > now

ReadCheck(t) ==
  /\ wk[t].at = "check"
  /\ wk' = [wk EXCEPT ![t].at = IF Fresh(wk[t].now) THEN "use" ELSE "rotate"]
  /\ UNCHANGED <<clock, current, prev, made, tickets, retired>>

(* Mutant: what the read lock showed is not looked at again. *)
Expired_NotRechecked(now) == TRUE

(* Under the write lock: is the current key missing or past its time? *)
Expired(now) == current = NoKey \/ (current.next # 0 /\ current.next <= now)

(* The key that stays behind, bumped by an interval. *)
Bumped(key) == [key EXCEPT !.next = @ + Interval]

(* Mutant: an old previous key is never dropped. *)
KeptPrev_Always(key, now) == key

KeptPrev(key, now) == IF key # NoKey /\ key.next <= now THEN NoKey ELSE key

Rotate(t) ==
  /\ wk[t].at = "rotate"
  /\ LET now == wk[t].now IN
     \/ /\ Expired(now)
        /\ made' = made + 1
        /\ current' = [id |-> made + 1, next |-> now + Interval]
        /\ prev' = KeptPrev(IF current # NoKey THEN Bumped(current) ELSE prev, now)
     \/ /\ ~Expired(now)
        /\ prev' = KeptPrev(prev, now)
        /\ UNCHANGED <<current, made>>
  /\ wk' = [wk EXCEPT ![t].at = "use"]
  /\ UNCHANGED <<clock, tickets, retired>>

(* Under the second read lock. *)
Encrypt(t) ==
  /\ wk[t].at = "use"
  /\ wk[t].op = "encrypt"
  /\ tickets' = tickets \cup {current}
  /\ wk' = [wk EXCEPT ![t].at = "used", ![t].got = current]
  /\ UNCHANGED <<clock, current, prev, made, retired>>

SSL_CTX_get_tlsext_ticket_keys(t) ==
  /\ wk[t].at = "use"
  /\ wk[t].op = "get"
  /\ wk' = [wk EXCEPT ![t].at = "used", ![t].got = current]
  /\ UNCHANGED <<clock, current, prev, made, tickets, retired>>

Decrypt(t) ==
  /\ wk[t].at = "use"
  /\ wk[t].op = "decrypt"
  /\ LET id == wk[t].ticket.id
         key == IF current.id = id THEN current
                ELSE IF prev.id = id THEN prev ELSE NoKey
     IN wk' = [wk EXCEPT ![t].at = "used", ![t].got = key]
  /\ UNCHANGED <<clock, current, prev, made, tickets, retired>>

(* The handshake goes on without the lock; time passes before the next. *)
Finish(t) ==
  /\ wk[t].at = "used"
  /\ wk' = [wk EXCEPT ![t] = IdleWorker]
  /\ UNCHANGED <<clock, current, prev, made, tickets, retired>>

(* SSL_CTX_set_tlsext_ticket_keys takes no lock: the SSL_CTX is configured  *)
(* while no connection uses it.  The key is the application's to replace.   *)
SSL_CTX_set_tlsext_ticket_keys ==
  /\ \A t \in Workers : wk[t].at = "idle"
  /\ made < MaxSet
  /\ made' = made + 1
  /\ current' = [id |-> made + 1, next |-> 0]
  /\ prev' = NoKey
  /\ retired' = retired \cup {current.id, prev.id}
  /\ UNCHANGED <<clock, wk, tickets>>

TicketNext ==
  \/ TicketTick
  \/ \E t \in Workers : Start(t) \/ ReadCheck(t) \/ Rotate(t) \/ Encrypt(t)
                        \/ SSL_CTX_get_tlsext_ticket_keys(t) \/ Decrypt(t) \/ Finish(t)
  \/ SSL_CTX_set_tlsext_ticket_keys

TicketSpec == TicketInit /\ [][TicketNext]_ticket_vars

-----------------------------------------------------------------------------
(* When a thread seals a ticket there is a key, and it is not one that had to *)
(* be replaced by the thread's own reading of the clock, however long ago     *)
(* that was and whatever other threads did since.                             *)
SealsWithLiveKey ==
  \A t \in Workers :
    (wk[t].at = "used" /\ wk[t].op # "decrypt") =>
       /\ wk[t].got # NoKey
       /\ wk[t].got.next = 0 \/ wk[t].got.next > wk[t].now

(* A ticket is never opened with a key whose second interval was over when    *)
(* the thread read the clock.                                                 *)
OldTicketsStayClosed ==
  \A t \in Workers :
    (wk[t].at = "used" /\ wk[t].op = "decrypt" /\ wk[t].got # NoKey) =>
       wk[t].ticket.next = 0 \/ wk[t].ticket.next + Interval > wk[t].now

(* A ticket can be opened until one interval after its key was replaced, by   *)
(* the time at which it is opened: a thread that rotates late, or with an old *)
(* reading of the clock, does not push a key out early.                       *)
TicketsLastAnInterval ==
  \A t \in Workers :
    (/\ wk[t].at = "use" /\ wk[t].op = "decrypt"
     /\ wk[t].ticket.id \notin retired
     /\ wk[t].ticket.next = 0 \/ clock < wk[t].ticket.next + Interval)
      => wk[t].ticket.id \in {current.id, prev.id}

=============================================================================
