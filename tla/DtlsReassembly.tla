--------------------------- MODULE DtlsReassembly ---------------------------
(***************************************************************************)
(* How one DTLS endpoint turns handshake fragments, which the network      *)
(* loses, duplicates, splits and reorders, back into the peer's sequence   *)
(* of messages (ssl/d1_both.cc, "Receiving handshake messages").           *)
(*                                                                         *)
(* The peer's messages are numbered 0 .. NumMsgs-1 and grouped in flights; *)
(* the peer sends a flight only after the previous one has been consumed   *)
(* and answered.  Its last message, the Finished, is the only one of the   *)
(* encrypted epoch and is preceded by a ChangeCipherSpec.  The fragments   *)
(* of every message sent so far stay available, so any of them may arrive  *)
(* late, again, or never; the records of an epoch other than r_epoch are   *)
(* dropped by the record layer (module DtlsRecord).                        *)
(***************************************************************************)
EXTENDS Integers, Sequences

CONSTANTS
    SSL_MAX_HANDSHAKE_FLIGHT,   \* slots of the ring incoming_messages (7)
    ByteBits,                   \* bits in a byte of the reassembly bitmask (8)
    MaxMessageLen,              \* ssl_max_handshake_message_len
    NumMsgs,                    \* messages the peer sends
    MsgLen,                     \* their body lengths, a function on 0 .. NumMsgs-1
    FlightEnd,                  \* the last message of each message's flight
    StrayRecords,               \* records only a peer that breaks the protocol sends
    NULL

ASSUME FlightAssumption == SSL_MAX_HANDSHAKE_FLIGHT \in Nat \ {0}
ASSUME BitsAssumption == ByteBits \in Nat \ {0}
ASSUME LenAssumption == MaxMessageLen \in Nat
ASSUME MsgsAssumption ==
    /\ NumMsgs \in Nat \ {0, 1}
    /\ MsgLen \in [0 .. NumMsgs - 1 -> 0 .. MaxMessageLen]
    /\ FlightEnd \in [0 .. NumMsgs - 1 -> 0 .. NumMsgs - 1]
    /\ \A m \in 0 .. NumMsgs - 1 :
          /\ m <= FlightEnd[m]
          /\ \A n \in m .. FlightEnd[m] : FlightEnd[n] = FlightEnd[m]

Headers == [type : Nat, seq : Nat, msg_len : Nat, frag_off : Nat, frag_len : Nat]
Records == [kind : {"handshake"}, epoch : {0, 1}, hdr : Headers]
              \cup [kind : {"change_cipher_spec", "bad_ccs", "application_data", "other"},
                    epoch : {0, 1}]

AllBits == 0 .. ByteBits - 1
MaskLen(len) == (len + ByteBits - 1) \div ByteBits
Masks(len) == [0 .. MaskLen(len) - 1 -> SUBSET AllBits]

\* hm_fragment of a message of length len: data is the set of the offsets
\* copied so far, epochs the read epochs its fragments arrived in (history).
Fragments(len) ==
    [type : Nat, seq : Nat, msg_len : {len}, data : SUBSET (0 .. len - 1),
     epochs : SUBSET {0, 1}, reassembly : Masks(len) \cup {NULL}]

ASSUME StrayAssumption == StrayRecords \subseteq Records
ASSUME NullAssumption ==
    \A len \in 0 .. MaxMessageLen : NULL \notin Masks(len) /\ NULL \notin Fragments(len)

VARIABLES
    handshake_read_seq,         \* d1->handshake_read_seq
    incoming_messages,          \* d1->incoming_messages
    has_message,                \* s3->has_message
    has_change_cipher_spec,     \* d1->has_change_cipher_spec
    r_epoch,                    \* d1->r_epoch
    wait,                       \* what the state machine waits for, or how it ended
    in_record,                  \* inside the loop over the fragments of a record
    sent,                       \* messages the peer has sent so far
    conforming,                 \* whether the peer keeps to the protocol
    delivered                   \* history: messages consumed, oldest first

vars == <<handshake_read_seq, incoming_messages, has_message,
          has_change_cipher_spec, r_epoch, wait, in_record, sent, conforming,
          delivered>>

Msgs == 0 .. NumMsgs - 1
Finished == NumMsgs - 1
Slots == 0 .. SSL_MAX_HANDSHAKE_FLIGHT - 1
Slot(seq) == seq % SSL_MAX_HANDSHAKE_FLIGHT
Current == incoming_messages[Slot(handshake_read_seq)]

-----------------------------------------------------------------------------
(***************************************************************************)
(* The reassembly bitmask: a byte is the set of its bits that are one.     *)
(***************************************************************************)
bit_range(start, end) == {b \in AllBits : start <= b /\ b < end}

\* An empty message has nothing to reassemble.
dtls1_hm_fragment_new(hdr) ==
    [type |-> hdr.type, seq |-> hdr.seq, msg_len |-> hdr.msg_len, data |-> {},
     epochs |-> {r_epoch},
     reassembly |-> IF hdr.msg_len = 0 THEN NULL
                    ELSE [i \in 0 .. MaskLen(hdr.msg_len) - 1 |-> {}]]

\* Mutated form: the partial last byte of the range is forgotten.
mark_bytes_NoTail(mask, start, end) ==
    LET first == start \div ByteBits
        last == end \div ByteBits
    IN  [i \in DOMAIN mask |->
           IF i = first THEN mask[i] \cup bit_range(start % ByteBits, ByteBits)
           ELSE IF first < i /\ i < last THEN AllBits
           ELSE mask[i]]

\* Bits start, inclusive, to end, exclusive, of the mask.
mark_bytes(mask, start, end) ==
    LET first == start \div ByteBits
        last == end \div ByteBits
    IN  IF start = end THEN mask
        ELSE IF first = last
          THEN [mask EXCEPT ![first] =
                   @ \cup bit_range(start % ByteBits, end % ByteBits)]
        ELSE [i \in DOMAIN mask |->
                IF i = first THEN mask[i] \cup bit_range(start % ByteBits, ByteBits)
                ELSE IF first < i /\ i < last THEN AllBits
                ELSE IF i = last /\ end % ByteBits # 0
                  THEN mask[i] \cup bit_range(0, end % ByteBits)
                ELSE mask[i]]

\* Mutated form: the partial last byte is not looked at.
mask_is_full_NoTail(mask, msg_len) ==
    \A i \in 0 .. (msg_len \div ByteBits) - 1 : mask[i] = AllBits

\* Mutated form: the partial last byte is expected to be all ones.
mask_is_full_AllOnes(mask, msg_len) == \A i \in DOMAIN mask : mask[i] = AllBits

mask_is_full(mask, msg_len) ==
    /\ \A i \in 0 .. (msg_len \div ByteBits) - 1 : mask[i] = AllBits
    /\ \/ msg_len % ByteBits = 0
       \/ mask[msg_len \div ByteBits] = bit_range(0, msg_len % ByteBits)

\* The copy into data and dtls1_hm_fragment_mark; an empty range returns
\* before the check for completeness.
dtls1_hm_fragment_mark(frag, start, end) ==
    LET mask == mark_bytes(frag.reassembly, start, end)
    IN  [frag EXCEPT !.data = @ \cup (start .. end - 1),
                     !.epochs = @ \cup {r_epoch},
                     !.reassembly = IF start # end /\ mask_is_full(mask, frag.msg_len)
                                      THEN NULL ELSE mask]

-----------------------------------------------------------------------------
(***************************************************************************)
(* The ring of incoming messages.                                          *)
(***************************************************************************)
dtls1_is_current_message_complete ==
    Current # NULL /\ Current.reassembly = NULL

dtls_has_unprocessed_handshake_data ==
    \E i \in Slots : /\ ~(has_message /\ i = Slot(handshake_read_seq))
                     /\ incoming_messages[i] # NULL

\* dtls1_get_incoming_message returns NULL.
incoming_message_fails(hdr) ==
    \/ hdr.seq < handshake_read_seq
    \/ hdr.seq - handshake_read_seq >= SSL_MAX_HANDSHAKE_FLIGHT
    \/ /\ incoming_messages[Slot(hdr.seq)] # NULL
       /\ \/ incoming_messages[Slot(hdr.seq)].type # hdr.type
          \/ incoming_messages[Slot(hdr.seq)].msg_len # hdr.msg_len

dtls1_get_incoming_message(hdr) ==
    IF incoming_messages[Slot(hdr.seq)] # NULL
      THEN incoming_messages[Slot(hdr.seq)]
      ELSE dtls1_hm_fragment_new(hdr)

\* A message already assembled stays as it is.
store_fragment(hdr) ==
    LET frag == dtls1_get_incoming_message(hdr)
    IN  IF frag.reassembly = NULL THEN frag
        ELSE dtls1_hm_fragment_mark(frag, hdr.frag_off, hdr.frag_off + hdr.frag_len)

\* The checks a fragment passes before its message is looked up.
bad_fragment(hdr) ==
    \/ hdr.frag_off > hdr.msg_len
    \/ hdr.frag_off + hdr.frag_len > hdr.msg_len
    \/ hdr.msg_len > MaxMessageLen
    \/ r_epoch = 1 /\ hdr.seq # handshake_read_seq

\* Mutated form: messages of the past are not ignored.
ignored_fragment_KeepPast(hdr) ==
    hdr.seq > handshake_read_seq + SSL_MAX_HANDSHAKE_FLIGHT

\* Fragments from the past, or too far in the future.
ignored_fragment(hdr) ==
    \/ hdr.seq < handshake_read_seq
    \/ hdr.seq > handshake_read_seq + SSL_MAX_HANDSHAKE_FLIGHT

-----------------------------------------------------------------------------
(***************************************************************************)
(* Records the network can deliver: fragments of the messages sent so far, *)
(* cut anywhere, the ChangeCipherSpec before the Finished, application     *)
(* data after it, and what a misbehaving peer adds.                        *)
(***************************************************************************)
PeerHeaders(seq) ==
    {[type |-> seq, seq |-> seq, msg_len |-> MsgLen[seq], frag_off |-> r[1],
      frag_len |-> r[2] - r[1]] :
        r \in {x \in (0 .. MsgLen[seq]) \X (0 .. MsgLen[seq]) : x[1] <= x[2]}}

MsgEpoch(seq) == IF seq = Finished THEN 1 ELSE 0

Arriving ==
    (UNION {[kind : {"handshake"}, epoch : {MsgEpoch(m)}, hdr : PeerHeaders(m)] :
               m \in {x \in Msgs : x < sent}})
        \cup {r \in {[kind |-> "change_cipher_spec", epoch |-> 0],
                     [kind |-> "application_data", epoch |-> 1]} : sent = NumMsgs}
        \cup {r \in StrayRecords : ~conforming}

\* ssl_read_message and ssl_open_change_cipher_spec ask for a record.
Reading ==
    \/ wait = "read_message" /\ ~dtls1_is_current_message_complete
    \/ wait = "read_change_cipher_spec" /\ ~has_change_cipher_spec

Init ==
    /\ handshake_read_seq = 0
    /\ incoming_messages = [i \in Slots |-> NULL]
    /\ has_message = FALSE
    /\ has_change_cipher_spec = FALSE
    /\ r_epoch = 0
    /\ wait = "read_message"
    /\ in_record = FALSE
    /\ sent = FlightEnd[0] + 1
    /\ conforming \in BOOLEAN
    /\ delivered = <<>>

\* The peer starts its next flight once the previous one was answered.
PeerSendsFlight ==
    /\ handshake_read_seq = sent
    /\ sent < NumMsgs
    /\ sent' = FlightEnd[sent] + 1
    /\ UNCHANGED <<handshake_read_seq, incoming_messages, has_message,
                   has_change_cipher_spec, r_epoch, wait, in_record, delivered>>

\* A fatal error of the handshake; nothing is read any more.
Fail ==
    /\ wait' = "error"
    /\ in_record' = FALSE
    /\ UNCHANGED <<handshake_read_seq, incoming_messages, has_message,
                   has_change_cipher_spec, r_epoch, sent, delivered>>

(***************************************************************************)
(* dtls1_open_handshake, one fragment of a record per step: when more is   *)
(* TRUE the loop goes on with a further fragment of the same record.       *)
(***************************************************************************)
open_fragment(hdr, more) ==
    \/ bad_fragment(hdr) /\ Fail
    \/ /\ ~bad_fragment(hdr)
       /\ ignored_fragment(hdr)
       /\ in_record' = more
       /\ UNCHANGED <<handshake_read_seq, incoming_messages, has_message,
                      has_change_cipher_spec, r_epoch, wait, sent, delivered>>
    \/ /\ ~bad_fragment(hdr)
       /\ ~ignored_fragment(hdr)
       /\ incoming_message_fails(hdr)
       /\ Fail
    \/ /\ ~bad_fragment(hdr)
       /\ ~ignored_fragment(hdr)
       /\ ~incoming_message_fails(hdr)
       /\ incoming_messages' =
             [incoming_messages EXCEPT ![Slot(hdr.seq)] = store_fragment(hdr)]
       /\ in_record' = more
       /\ UNCHANGED <<handshake_read_seq, has_message, has_change_cipher_spec,
                      r_epoch, wait, sent, delivered>>

\* The record layer opens only records of the current read epoch.
dtls1_open_handshake(rec, more) ==
    /\ rec.kind = "handshake"
    /\ rec.epoch = r_epoch
    /\ Reading \/ in_record
    /\ open_fragment(rec.hdr, more)

\* A ChangeCipherSpec is flagged for later; an encrypted one is an error.
dtls1_open_handshake_ccs(rec) ==
    /\ rec.kind = "change_cipher_spec"
    /\ rec.epoch = r_epoch
    /\ Reading /\ ~in_record
    /\ \/ /\ r_epoch = 0
          /\ has_change_cipher_spec' = TRUE
          /\ UNCHANGED <<handshake_read_seq, incoming_messages, has_message,
                         r_epoch, wait, in_record, sent, delivered>>
       \/ r_epoch # 0 /\ Fail

\* Application data is discarded between ChangeCipherSpec and Finished, and
\* illegal before; malformed and unknown records are illegal.
dtls1_open_handshake_other(rec) ==
    /\ rec.kind \notin {"handshake", "change_cipher_spec"}
    /\ rec.epoch = r_epoch
    /\ Reading /\ ~in_record
    /\ \/ rec.kind = "application_data" /\ r_epoch # 0 /\ UNCHANGED vars
       \/ ~(rec.kind = "application_data" /\ r_epoch # 0) /\ Fail

dtls1_get_message ==
    /\ wait = "read_message" /\ ~in_record
    /\ dtls1_is_current_message_complete
    /\ ~has_message
    /\ has_message' = TRUE
    /\ UNCHANGED <<handshake_read_seq, incoming_messages, has_change_cipher_spec,
                   r_epoch, wait, in_record, sent, delivered>>

\* What the state machine reads after message seq.
WaitAfter(seq) ==
    IF seq = Finished THEN "done"
    ELSE IF seq + 1 = Finished THEN "read_change_cipher_spec"
    ELSE "read_message"

dtls1_next_message ==
    /\ incoming_messages' =
          [incoming_messages EXCEPT ![Slot(handshake_read_seq)] = NULL]
    /\ handshake_read_seq' = handshake_read_seq + 1
    /\ has_message' = FALSE

(***************************************************************************)
(* The state machine consumes the current message.  At the end of a flight *)
(* (ClientHello, ServerHelloDone, Finished) it first insists that nothing  *)
(* else has been buffered.                                                 *)
(***************************************************************************)
consume_message ==
    /\ has_message
    /\ wait = "read_message"
    /\ \/ /\ FlightEnd[handshake_read_seq] = handshake_read_seq
          /\ dtls_has_unprocessed_handshake_data
          /\ Fail
       \/ /\ \/ FlightEnd[handshake_read_seq] # handshake_read_seq
             \/ ~dtls_has_unprocessed_handshake_data
          /\ delivered' = Append(delivered,
                [type |-> Current.type, msg_len |-> Current.msg_len,
                 data |-> Current.data, epochs |-> Current.epochs])
          /\ wait' = WaitAfter(handshake_read_seq)
          /\ dtls1_next_message
          /\ UNCHANGED <<has_change_cipher_spec, r_epoch, in_record, sent>>

\* Mutated form: the keys change although handshake data is left over.
dtls1_set_read_state_NoCheck ==
    /\ r_epoch' = r_epoch + 1
    /\ has_change_cipher_spec' = FALSE
    /\ wait' = "read_message"
    /\ UNCHANGED <<handshake_read_seq, incoming_messages, has_message, in_record,
                   sent, delivered>>

\* Cipher changes are forbidden if the current epoch has leftover data.
dtls1_set_read_state ==
    \/ dtls_has_unprocessed_handshake_data /\ Fail
    \/ /\ ~dtls_has_unprocessed_handshake_data
       /\ r_epoch' = r_epoch + 1
       /\ has_change_cipher_spec' = FALSE
       /\ wait' = "read_message"
       /\ UNCHANGED <<handshake_read_seq, incoming_messages, has_message, in_record,
                      sent, delivered>>

\* The flag raised earlier is taken, and the read keys change.
dtls1_open_change_cipher_spec ==
    /\ wait = "read_change_cipher_spec" /\ ~in_record
    /\ has_change_cipher_spec
    /\ dtls1_set_read_state

\* The kind of peer never changes.
Next ==
    /\ \/ PeerSendsFlight
       \/ \E rec \in Arriving :
             \/ \E more \in BOOLEAN : dtls1_open_handshake(rec, more)
             \/ dtls1_open_handshake_ccs(rec)
             \/ dtls1_open_handshake_other(rec)
       \/ dtls1_get_message
       \/ consume_message
       \/ dtls1_open_change_cipher_spec
    /\ UNCHANGED conforming

Spec == Init /\ [][Next]_vars

(***************************************************************************)
(* Fairness: a conforming peer goes on to its next flight, and retransmits *)
(* until it is answered over a network that does not lose the same record  *)
(* for ever (strong fairness: the endpoint need only ask for records again *)
(* and again); the application drives the handshake when it can move.      *)
(***************************************************************************)
Whole(seq) ==
    [kind |-> "handshake", epoch |-> MsgEpoch(seq),
     hdr |-> [type |-> seq, seq |-> seq, msg_len |-> MsgLen[seq],
              frag_off |-> 0, frag_len |-> MsgLen[seq]]]

Kept(A) == conforming /\ A /\ UNCHANGED conforming

Fairness ==
    /\ WF_vars(Kept(PeerSendsFlight))
    /\ \A m \in Msgs :
          SF_vars(Kept(m < sent /\ dtls1_open_handshake(Whole(m), FALSE)))
    /\ SF_vars(Kept(sent = NumMsgs /\ dtls1_open_handshake_ccs(
                       [kind |-> "change_cipher_spec", epoch |-> 0])))
    /\ WF_vars(Kept(dtls1_get_message))
    /\ WF_vars(Kept(consume_message))
    /\ WF_vars(Kept(dtls1_open_change_cipher_spec))

FairSpec == Spec /\ Fairness

-----------------------------------------------------------------------------
TypeOK ==
    /\ handshake_read_seq \in 0 .. NumMsgs
    /\ DOMAIN incoming_messages = Slots
    /\ \A i \in Slots : \/ incoming_messages[i] = NULL
                        \/ /\ incoming_messages[i].msg_len \in 0 .. MaxMessageLen
                           /\ incoming_messages[i] \in Fragments(incoming_messages[i].msg_len)
    /\ has_message \in BOOLEAN
    /\ has_change_cipher_spec \in BOOLEAN
    /\ r_epoch \in {0, 1}
    /\ wait \in {"read_message", "read_change_cipher_spec", "done", "error"}
    /\ in_record \in BOOLEAN
    /\ sent \in 1 .. NumMsgs
    /\ conforming \in BOOLEAN

\* The ring never confuses two messages: the fragment in a slot belongs there
\* and is one of the next SSL_MAX_HANDSHAKE_FLIGHT messages, so the assertion
\* frag->seq == msg_hdr->seq of dtls1_get_incoming_message holds whatever order
\* fragments of old, current and future messages arrive in.
RingSlots ==
    \A i \in Slots : incoming_messages[i] # NULL =>
        LET frag == incoming_messages[i]
        IN  /\ Slot(frag.seq) = i
            /\ handshake_read_seq <= frag.seq
            /\ frag.seq < handshake_read_seq + SSL_MAX_HANDSHAKE_FLIGHT

\* What a fragment's reassembly says of its data.
WholeOrMasked(frag) ==
    IF frag.reassembly = NULL THEN frag.data = 0 .. frag.msg_len - 1
    ELSE /\ frag.data # 0 .. frag.msg_len - 1
         /\ \A i \in DOMAIN frag.reassembly, b \in AllBits :
               b \in frag.reassembly[i] <=> ByteBits * i + b \in frag.data

\* A message counts as complete (reassembly is NULL) exactly when every byte of
\* it was copied: the byte-wise bitmask of dtls1_hm_fragment_mark neither
\* forgets a received byte nor invents one, however the message was cut up.
CompleteIsWhole ==
    \A i \in Slots : incoming_messages[i] # NULL => WholeOrMasked(incoming_messages[i])

\* The state machine is given the messages of a conforming peer in the order
\* they were sent, each once and whole.
DeliveredInOrder ==
    conforming => \A i \in 1 .. Len(delivered) :
        /\ delivered[i].type = i - 1
        /\ delivered[i].msg_len = MsgLen[i - 1]
        /\ delivered[i].data = 0 .. MsgLen[i - 1] - 1

\* No message mixes epochs: what dtls1_next_message hands over was received
\* entirely under the keys in force when it is consumed.  The leftover-data
\* check of dtls1_set_read_state keeps a Finished that came unencrypted from
\* being taken for the encrypted one.
DeliveredInEpoch ==
    \A i \in 1 .. Len(delivered) : delivered[i].epochs = {MsgEpoch(i - 1)}

\* Losing, repeating, cutting and reordering the records of a conforming peer
\* never makes the handshake fail: none of the error paths of
\* dtls1_open_handshake, the end-of-flight checks and dtls1_set_read_state is
\* taken.
NoSpuriousError == conforming => wait # "error"

\* Every message of a conforming peer is eventually consumed.
AllDelivered == conforming => <>(wait = "done")

-----------------------------------------------------------------------------
(***************************************************************************)
(* The inductive invariants of the proofs.                                 *)
(***************************************************************************)
\* Where the state machine is, and which epoch it reads there.
PhaseInv ==
    /\ wait = "read_message" =>
          /\ handshake_read_seq < NumMsgs
          /\ r_epoch = MsgEpoch(handshake_read_seq)
    /\ wait = "read_change_cipher_spec" =>
          handshake_read_seq = Finished /\ r_epoch = 0 /\ ~has_message
    /\ has_message => dtls1_is_current_message_complete
    /\ in_record =>
          ~has_message /\ wait \in {"read_message", "read_change_cipher_spec"}

\* Everything buffered arrived in the current read epoch, and the messages
\* consumed so far are counted by handshake_read_seq.
EpochInv ==
    /\ \A i \in Slots : incoming_messages[i] # NULL =>
          incoming_messages[i].epochs = {r_epoch}
    /\ delivered \in Seq([type : Nat, msg_len : Nat, data : SUBSET Nat,
                          epochs : SUBSET {0, 1}])
    /\ Len(delivered) = handshake_read_seq
    /\ DeliveredInEpoch

\* The ring has room for every flight of the peer.
FlightsFit == \A m \in Msgs : FlightEnd[m] - m < SSL_MAX_HANDSHAKE_FLIGHT

\* A peer that keeps to the protocol, with flights the ring has room for.
ConformingPeer == conforming /\ FlightsFit

\* With a conforming peer: what is buffered was sent, belongs to the flight
\* being read, and has the length and type it was sent with.
FlightInv ==
    /\ handshake_read_seq < sent => sent = FlightEnd[handshake_read_seq] + 1
    /\ handshake_read_seq <= sent
    /\ \A i \in Slots : incoming_messages[i] # NULL =>
          /\ incoming_messages[i].seq < sent
          /\ incoming_messages[i].type = incoming_messages[i].seq
          /\ incoming_messages[i].msg_len = MsgLen[incoming_messages[i].seq]
          /\ r_epoch = 0 => incoming_messages[i].seq # Finished
=============================================================================
