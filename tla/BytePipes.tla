------------------------------ MODULE BytePipes ------------------------------
(***************************************************************************)
(* What a BIO pair promises its two users: two byte pipes of bounded       *)
(* capacity, one in each direction.  A read returns the oldest bytes; it   *)
(* sees the end only when everything written has been read; a call is      *)
(* refused with "retry" only if the pipe is empty, or full.                *)
(***************************************************************************)
EXTENDS Integers, Sequences

CONSTANTS
    Ends,           \* the two ends
    Bytes,
    Capacity        \* per end, of the pipe it writes to

VARIABLES
    connected,      \* neither end has been freed
    queue,          \* per end, the bytes it has written that are still unread
    closed,         \* ends that have shut down writing
    result          \* outcome of the last call: [end, op, ret, bytes]

vars == <<connected, queue, closed, result>>

Peer(e) == CHOOSE p \in Ends : p # e
Returns(e, op, ret, bytes) == result' = [end |-> e, op |-> op, ret |-> ret, bytes |-> bytes]

Init ==
    /\ connected = TRUE
    /\ queue = [e \in Ends |-> <<>>]
    /\ closed = {}
    /\ result \in [end : Ends, op : {"none"}, ret : {"none"}, bytes : {<<>>}]

Put(e, s) ==
    /\ connected /\ e \notin closed
    /\ s # <<>> /\ Len(queue[e]) + Len(s) <= Capacity[e]
    /\ queue' = [queue EXCEPT ![e] = @ \o s]
    /\ Returns(e, "write", "done", s)
    /\ UNCHANGED <<connected, closed>>

Take(e, n) ==
    LET p == Peer(e)
    IN  /\ connected /\ n \in 1 .. Len(queue[p])
        /\ queue' = [queue EXCEPT ![p] = SubSeq(@, n + 1, Len(@))]
        /\ Returns(e, "read", "done", SubSeq(queue[p], 1, n))
        /\ UNCHANGED <<connected, closed>>

\* The calls that move nothing, each with its only reason.
Refusals(e) ==
    {r \in [end : {e}, op : {"read", "write"}, bytes : {<<>>},
            ret : {"retry", "end", "broken_pipe", "uninitialized"}] :
        CASE r.ret = "uninitialized" -> ~connected
          [] r.ret = "broken_pipe"   -> connected /\ r.op = "write" /\ e \in closed
          [] r.ret = "end"           -> /\ connected /\ r.op = "read"
                                        /\ queue[Peer(e)] = <<>> /\ Peer(e) \in closed
          [] r.ret = "retry"         -> /\ connected
                                        /\ \/ /\ r.op = "read" /\ queue[Peer(e)] = <<>>
                                              /\ Peer(e) \notin closed
                                           \/ /\ r.op = "write" /\ e \notin closed
                                              /\ Len(queue[e]) = Capacity[e]}

Refuse(e) ==
    /\ result' \in Refusals(e)
    /\ UNCHANGED <<connected, queue, closed>>

Shut(e) ==
    /\ closed' = closed \cup {e}
    /\ UNCHANGED <<connected, queue, result>>

Disconnect ==
    /\ connected' = FALSE
    /\ queue' = [e \in Ends |-> <<>>]
    /\ UNCHANGED <<closed, result>>

Next ==
    \/ Disconnect
    \/ \E e \in Ends : \/ Refuse(e) \/ Shut(e)
                       \/ \E n \in 1 .. Capacity[Peer(e)] : Take(e, n)
                       \/ \E s \in UNION {[1 .. n -> Bytes] : n \in 1 .. Capacity[e]} : Put(e, s)

Spec == Init /\ [][Next]_vars
=============================================================================
