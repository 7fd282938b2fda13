------------------------------- MODULE BioPair -------------------------------
(***************************************************************************)
(* A BIO pair (crypto/bio/pair.c): each of the two BIOs owns the ring      *)
(* buffer it writes to and its peer reads from.  BIO_read and BIO_write    *)
(* (crypto/bio/bio.c) turn calls away once the pair is gone.               *)
(***************************************************************************)
EXTENDS Integers, Sequences

CONSTANTS
    Ends,           \* the two BIOs
    Bytes,
    Size,           \* per BIO, bytes in its ring (writebuf_len)
    MaxCall         \* bound: bytes a call asks for

ASSUME EndsAssumption == \E a, b \in Ends : a # b /\ Ends = {a, b}
ASSUME SizeAssumption == Size \in [Ends -> Nat \ {0}]
ASSUME BytesAssumption == Bytes # {}
ASSUME CallAssumption == MaxCall \in Nat \ {0}

VARIABLES
    live,           \* BIOs that have not been freed
    buf,            \* per BIO, b->buf
    offset,         \* b->offset
    len,            \* b->len
    closed,         \* BIOs with b->closed
    request,        \* b->request
    result          \* what the last BIO_read or BIO_write returned

ring == <<buf, offset, len>>
pair_vars == <<live, ring, closed, request, result>>

Peer(e) == CHOOSE p \in Ends : p # e
Returns(e, op, ret, bytes) == result' = [end |-> e, op |-> op, ret |-> ret, bytes |-> bytes]

\* b->peer # NULL, and bio->init, from bio_make_pair to bio_destroy_pair.
Paired == live = Ends

\* BIO_new_bio_pair; what OPENSSL_malloc returns is not initialised.
PairInit ==
    /\ live = Ends
    /\ buf \in {f \in [Ends -> UNION {[0 .. Size[e] - 1 -> Bytes] : e \in Ends}] :
                  \A e \in Ends : DOMAIN f[e] = 0 .. Size[e] - 1}
    /\ offset = [e \in Ends |-> 0]
    /\ len = [e \in Ends |-> 0]
    /\ closed = {}
    /\ request = [e \in Ends |-> 0]
    /\ result \in [end : Ends, op : {"none"}, ret : {"none"}, bytes : {<<>>}]

-----------------------------------------------------------------------------
\* The i-th byte of a ring after its first slot (0 <= i < 2 * size).
Wrap(size, i) == IF i < size THEN i ELSE i - size
Unread(b, size, off, n) == [i \in 1 .. n |-> b[Wrap(size, off + i - 1)]]
Slice(b, off, n) == [i \in 1 .. n |-> b[off + i - 1]]
Content(e) == Unread(buf[e], Size[e], offset[e], len[e])

\* One iteration of the loop of bio_read, on a ring b of this size.
read_chunk(b, size, s) ==
    LET chunk == IF s.offset + s.rest <= size THEN s.rest ELSE size - s.offset
    IN  [rest |-> s.rest - chunk, len |-> s.len - chunk,
         offset |-> IF s.len = chunk \/ s.offset + chunk = size THEN 0 ELSE s.offset + chunk,
         out |-> s.out \o Slice(b, s.offset, chunk)]

\* "One or two iterations."
read_loop(b, size, off, l, n) ==
    LET one == read_chunk(b, size, [rest |-> n, len |-> l, offset |-> off, out |-> <<>>])
    IN  IF one.rest = 0 THEN one ELSE read_chunk(b, size, one)

\* Mutant: nothing can be read once the writer has shut down.
bio_read_NotClosed(e, size) ==
    LET p == Peer(e)
        end == read_loop(buf[p], Size[p], offset[p], len[p],
                         IF len[p] < size THEN len[p] ELSE size)
    IN  /\ Paired /\ len[p] > 0 /\ p \notin closed
        /\ len' = [len EXCEPT ![p] = end.len]
        /\ offset' = [offset EXCEPT ![p] = end.offset]
        /\ request' = [request EXCEPT ![p] = 0]
        /\ Returns(e, "read", "done", end.out)
        /\ UNCHANGED <<live, buf, closed>>

\* The buffer holds something.
bio_read(e, size) ==
    LET p == Peer(e)
        end == read_loop(buf[p], Size[p], offset[p], len[p],
                         IF len[p] < size THEN len[p] ELSE size)
    IN  /\ Paired /\ len[p] > 0
        /\ len' = [len EXCEPT ![p] = end.len]
        /\ offset' = [offset EXCEPT ![p] = end.offset]
        /\ request' = [request EXCEPT ![p] = 0]
        /\ Returns(e, "read", "done", end.out)
        /\ UNCHANGED <<live, buf, closed>>

\* Mutant: a closed pipe is at its end, whatever it still holds.
bio_read_empty_Closed(e, size) ==
    LET p == Peer(e)
    IN  /\ Paired /\ (len[p] = 0 \/ p \in closed)
        /\ IF p \in closed
             THEN request' = [request EXCEPT ![p] = 0] /\ Returns(e, "read", "end", <<>>)
             ELSE /\ request' = [request EXCEPT ![p] = IF size <= Size[p] THEN size ELSE Size[p]]
                  /\ Returns(e, "read", "retry", <<>>)
        /\ UNCHANGED <<live, ring, closed>>

\* It holds nothing: the peer is told how much was wanted.
bio_read_empty(e, size) ==
    LET p == Peer(e)
    IN  /\ Paired /\ len[p] = 0
        /\ IF p \in closed
             THEN request' = [request EXCEPT ![p] = 0] /\ Returns(e, "read", "end", <<>>)
             ELSE /\ request' = [request EXCEPT ![p] = IF size <= Size[p] THEN size ELSE Size[p]]
                  /\ Returns(e, "read", "retry", <<>>)
        /\ UNCHANGED <<live, ring, closed>>

-----------------------------------------------------------------------------
\* The first n bytes of s copied to slot at.
Splice(b, size, at, n, s) ==
    [i \in 0 .. size - 1 |-> IF at <= i /\ i < at + n THEN s[i - at + 1] ELSE b[i]]

\* One iteration of the loop of bio_write.
write_chunk(size, off, s) ==
    LET write_offset == Wrap(size, off + s.len)
        rest == Len(s.in)
        chunk == IF write_offset + rest <= size THEN rest ELSE size - write_offset
    IN  [in |-> SubSeq(s.in, chunk + 1, rest), len |-> s.len + chunk,
         buf |-> Splice(s.buf, size, write_offset, chunk, s.in)]

write_loop(b, size, off, l, s) ==
    LET one == write_chunk(size, off, [in |-> s, len |-> l, buf |-> b])
    IN  IF one.in = <<>> THEN one ELSE write_chunk(size, off, one)

\* Mutant: the peer's wish outlives the write that grants it.
bio_write_KeepRequest(e, s) ==
    LET room == Size[e] - len[e]
        in == SubSeq(s, 1, IF Len(s) > room THEN room ELSE Len(s))
        end == write_loop(buf[e], Size[e], offset[e], len[e], in)
    IN  /\ Paired /\ e \notin closed /\ room > 0
        /\ buf' = [buf EXCEPT ![e] = end.buf]
        /\ len' = [len EXCEPT ![e] = end.len]
        /\ Returns(e, "write", "done", in)
        /\ UNCHANGED <<live, offset, closed, request>>

bio_write(e, s) ==
    LET room == Size[e] - len[e]
        in == SubSeq(s, 1, IF Len(s) > room THEN room ELSE Len(s))
        end == write_loop(buf[e], Size[e], offset[e], len[e], in)
    IN  /\ Paired /\ e \notin closed /\ room > 0
        /\ buf' = [buf EXCEPT ![e] = end.buf]
        /\ len' = [len EXCEPT ![e] = end.len]
        /\ request' = [request EXCEPT ![e] = 0]
        /\ Returns(e, "write", "done", in)
        /\ UNCHANGED <<live, offset, closed>>

\* Closed, or full.
bio_write_refused(e) ==
    /\ Paired /\ (e \in closed \/ len[e] = Size[e])
    /\ request' = [request EXCEPT ![e] = 0]
    /\ Returns(e, "write", IF e \in closed THEN "broken_pipe" ELSE "retry", <<>>)
    /\ UNCHANGED <<live, ring, closed>>

-----------------------------------------------------------------------------
\* BIO_read and BIO_write after bio_destroy_pair cleared bio->init.
BIO_uninitialized(e, op) ==
    /\ e \in live /\ ~Paired
    /\ Returns(e, op, "uninitialized", <<>>)
    /\ UNCHANGED <<live, ring, closed, request>>

BIO_shutdown_wr(e) ==
    /\ e \in live
    /\ closed' = closed \cup {e}
    /\ UNCHANGED <<live, ring, request, result>>

BIO_reset_read_request(e) ==
    /\ e \in live
    /\ request' = [request EXCEPT ![e] = 0]
    /\ UNCHANGED <<live, ring, closed, result>>

\* BIO_free of one of them: bio_destroy_pair empties both rings.
bio_free(e) ==
    /\ e \in live
    /\ live' = live \ {e}
    /\ len' = [p \in Ends |-> 0]
    /\ offset' = [p \in Ends |-> 0]
    /\ UNCHANGED <<buf, closed, request, result>>

PairNext ==
    \E e \in Ends :
        \/ \E n \in 1 .. MaxCall : bio_read(e, n) \/ bio_read_empty(e, n)
        \/ \E n \in 1 .. MaxCall : \E s \in [1 .. n -> Bytes] : bio_write(e, s)
        \/ bio_write_refused(e)
        \/ \E op \in {"read", "write"} : BIO_uninitialized(e, op)
        \/ BIO_shutdown_wr(e)
        \/ BIO_reset_read_request(e)
        \/ bio_free(e)

PairSpec == PairInit /\ [][PairNext]_pair_vars

\* A user that goes on reading.
FairPairSpec == PairSpec /\ \A e \in Ends : WF_pair_vars(bio_read(e, 1))

-----------------------------------------------------------------------------
\* Indices stay inside the rings (struct bio_bio_st: "offset ... 0 if len == 0").
PairTypeOK ==
    /\ live \subseteq Ends
    /\ DOMAIN buf = Ends /\ \A e \in Ends : buf[e] \in [0 .. Size[e] - 1 -> Bytes]
    /\ offset \in [Ends -> Nat] /\ \A e \in Ends : offset[e] < Size[e]
    /\ len \in [Ends -> Nat] /\ \A e \in Ends : len[e] <= Size[e]
    /\ closed \subseteq Ends
    /\ request \in [Ends -> Nat]

Pipes == INSTANCE BytePipes
    WITH connected <- Paired, queue <- [e \in Ends |-> Content(e)], Capacity <- Size

\* The pair is two bounded pipes: every read returns the oldest unread bytes, in
\* order and once, wherever they wrap around the ring; the end is seen only
\* after the last byte; "retry" only when empty or full (bio_read, bio_write).
ImplementsPipes == Pipes!Spec

\* What BIO_ctrl_get_read_request answers is a wish the next write can grant:
\* the buffer is empty and has room for it (struct bio_bio_st, request).
RequestCanBeGranted == \A e \in Ends : request[e] > 0 => len[e] = 0 /\ request[e] <= Size[e]

\* What was written before a shutdown is not stuck in the ring: a peer that goes
\* on reading reads it all, unless one of the BIOs is freed (bio_read).
Drains == \A e \in Ends : (e \in closed) ~> (len[e] = 0)
=============================================================================
