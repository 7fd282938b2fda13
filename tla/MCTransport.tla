----------------------------- MODULE MCTransport -----------------------------
(***************************************************************************)
(* Instances of DtlsReassembly and of BioPair, which share no state, so    *)
(* that one run asks about both: a behaviour is one of a DTLS endpoint     *)
(* whose peer sends two flights of three and two messages, with what a     *)
(* misbehaving peer adds; or one of a pair of BIOs with rings of three     *)
(* bytes and of one, and calls of up to four.                              *)
(***************************************************************************)
EXTENDS DtlsReassembly, BioPair, TLC

CONSTANTS left, right

VARIABLE part       \* what this behaviour is about

MCEnds == {left, right}
MCSize == (left :> 3) @@ (right :> 1)

MCMsgLen == [m \in 0 .. 4 |-> CASE m = 0 -> 5 [] m = 1 -> 0 [] m = 2 -> 2 [] m = 3 -> 1 [] m = 4 -> 3]
MCFlightEnd == [m \in 0 .. 4 |-> IF m <= 2 THEN 2 ELSE 4]

Stray(seq, epoch, type, length, off, n) ==
    [kind |-> "handshake", epoch |-> epoch,
     hdr |-> [type |-> type, seq |-> seq, msg_len |-> length, frag_off |-> off,
              frag_len |-> n]]

\* An unencrypted Finished, later messages than were asked for, another length
\* or type, bounds outside the message, records out of place.
MCStray ==
    {Stray(2, 0, 2, 1, 0, 1), Stray(1, 0, 1, 1, 0, 1), Stray(3, 0, 3, 1, 0, 1),
     Stray(4, 0, 4, 3, 0, 3), Stray(0, 0, 0, 2, 0, 1), Stray(0, 0, 9, 3, 0, 3),
     Stray(1, 0, 1, 1, 2, 0), Stray(1, 0, 1, 1, 0, 2), Stray(1, 0, 1, 9, 0, 1),
     Stray(1, 1, 1, 1, 0, 1),
     [kind |-> "change_cipher_spec", epoch |-> 0],
     [kind |-> "change_cipher_spec", epoch |-> 1],
     [kind |-> "bad_ccs", epoch |-> 0],
     [kind |-> "application_data", epoch |-> 0],
     [kind |-> "other", epoch |-> 0]}

MCInit ==
    /\ part \in {"reassembly", "pair"}
    /\ Init /\ PairInit
    /\ part = "pair" => ~conforming
    /\ part = "reassembly" => /\ result.end = left
                              /\ \A e \in Ends : \A i \in DOMAIN buf[e] : buf[e][i] = 0

MCNext ==
    \/ part = "reassembly" /\ Next /\ UNCHANGED <<part, pair_vars>>
    \/ part = "pair" /\ PairNext /\ UNCHANGED <<part, vars>>

\* The fairness of both: what Fairness speaks of is disabled unless the peer is
\* conforming, and there is something to read only in a pair that is used.
MCSpec ==
    /\ MCInit /\ [][MCNext]_<<part, vars, pair_vars>>
    /\ Fairness /\ \A e \in Ends : WF_pair_vars(bio_read(e, 1))
=============================================================================
