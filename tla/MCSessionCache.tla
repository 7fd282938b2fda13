---------------------------- MODULE MCSessionCache ----------------------------
(***************************************************************************)
(* What the handshakes of one SSL_CTX share: the session cache, in which   *)
(* two sessions have the same ID (an external cache may return another     *)
(* object for an ID), the ticket keys, and the reference count that each   *)
(* session and each other shared object has.  SessionCache takes the       *)
(* operations on the count to be atomic, which is what RefCount shows of   *)
(* them.  The three share no variable, and a behaviour is one of the       *)
(* cache, one of the keys or one of the count.                             *)
(***************************************************************************)
EXTENDS SessionCache, TicketKeys, RefCount, TLC

CONSTANTS s1, s2, s3, a, b, t1, t2, r1, r2, r3, r4

VARIABLE part   \* what this behaviour is about

MCId == s1 :> a @@ s2 :> a @@ s3 :> b

MCInit == part \in {"cache", "keys", "count"} /\ Init /\ TicketInit /\ CountInit

MCNext ==
    \/ part = "cache" /\ Next /\ UNCHANGED <<part, ticket_vars, count_vars>>
    \/ part = "keys" /\ TicketNext /\ UNCHANGED <<part, vars, count_vars>>
    \/ part = "count" /\ CountNext /\ UNCHANGED <<part, vars, ticket_vars>>

MCSpec == MCInit /\ [][MCNext]_<<part, vars, ticket_vars, count_vars>>

Symmetry == Permutations(Threads) \cup Permutations({s1, s2}) \cup Permutations(Holders \ {First})
=============================================================================
