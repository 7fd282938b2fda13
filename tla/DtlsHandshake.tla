---------------------------- MODULE DtlsHandshake ----------------------------
(***************************************************************************)
(* A DTLS 1.2 handshake of two endpoints over a network that delays,       *)
(* reorders and loses records.  Each endpoint runs its state machine       *)
(* (ssl/handshake_client.cc, ssl/handshake_server.cc, as a Script of       *)
(* flights to send and items to read) on top of the flights and timers of  *)
(* DtlsFlight and the reassembly of DtlsReassembly; here a message is one  *)
(* record, a flight is sent in one step, and a record that was sent is     *)
(* delivered at most once, which is what DtlsRecord shows of the replay    *)
(* window.  A repeated flight makes new records.                           *)
(***************************************************************************)
EXTENDS Integers, Sequences, FiniteSets

CONSTANTS
    Ends,                       \* the two endpoints
    Script,                     \* per endpoint, steps [op, n]; n items in a "flight"
    Items,                      \* per endpoint, the kinds "msg", "fin", "ccs" it sends
    SSL_MAX_HANDSHAKE_FLIGHT,   \* 7
    DTLS1_MAX_TIMEOUTS,         \* 12
    MaxCopies,                  \* bound: records of one item under way to an endpoint
    Patient,                    \* timers outlast every record that is under way
    MaxLoss                     \* bound: records that go to waste if Patient

ASSUME EndsAssumption == \E a, b \in Ends : a # b /\ Ends = {a, b}
ASSUME BoundsAssumption ==
    /\ SSL_MAX_HANDSHAKE_FLIGHT \in Nat \ {0}
    /\ DTLS1_MAX_TIMEOUTS \in Nat
    /\ MaxCopies \in Nat \ {0}
    /\ MaxLoss \in Nat
    /\ Patient \in BOOLEAN

Peer(e) == CHOOSE p \in Ends : p # e

\* All that an endpoint sends ends with its ChangeCipherSpec and its Finished.
ASSUME ItemsAssumption ==
    /\ Items \in [Ends -> Seq({"msg", "fin", "ccs"})]
    /\ \A e \in Ends :
          /\ Len(Items[e]) >= 2
          /\ \A i \in DOMAIN Items[e] :
                Items[e][i] = CASE i = Len(Items[e]) -> "fin"
                                [] i = Len(Items[e]) - 1 -> "ccs"
                                [] OTHER -> "msg"

\* What e has sent and read when it comes to the k-th step of its script.
SentBefore(e, k) ==
    Cardinality(UNION {{j} \X (1 .. Script[e][j].n) :
                          j \in {l \in 1 .. k - 1 : Script[e][l].op = "flight"}})
ReadBefore(e, k) == Cardinality({j \in 1 .. k - 1 : Script[e][j].op # "flight"})

\* A read whose next step is a flight, or that is the last step.
EndsFlight(e, k) == k = Len(Script[e]) \/ Script[e][k + 1].op = "flight"

\* Each endpoint sends its items in flights and reads what the other sends, each
\* item as what it is; a flight answers the whole flight before it, and nothing
\* of the next is sent until it is answered; one endpoint begins, and one ends.
ASSUME ScriptAssumption ==
    /\ Script \in [Ends -> Seq([op : {"flight", "recv", "recv_ccs"}, n : Nat])]
    /\ \A e \in Ends :
          /\ SentBefore(e, Len(Script[e]) + 1) = Len(Items[e])
          /\ ReadBefore(e, Len(Script[e]) + 1) = Len(Items[Peer(e)])
          /\ \A k \in DOMAIN Script[e] :
                IF Script[e][k].op = "flight"
                  THEN /\ Script[e][k].n \in 1 .. SSL_MAX_HANDSHAKE_FLIGHT
                       /\ \A l \in 1 .. Len(Script[Peer(e)]) + 1 :
                             SentBefore(Peer(e), l) >= ReadBefore(e, k)
                               => ReadBefore(Peer(e), l) >= SentBefore(e, k)
                  ELSE /\ Script[e][k].op = "recv_ccs"
                            <=> Items[Peer(e)][ReadBefore(e, k) + 1] = "ccs"
                       /\ EndsFlight(e, k)
                            => \A l \in 1 .. Len(Script[Peer(e)]) + 1 :
                                  ReadBefore(Peer(e), l) <= SentBefore(e, k)
                                    => SentBefore(Peer(e), l) <= ReadBefore(e, k) + 1
    /\ \E e \in Ends : Script[e][1].op = "flight"
    /\ \E e \in Ends : Script[e][Len(Script[e])].op = "flight"

VARIABLES
    pos,                        \* hs->state: the next step of Script
    status,                     \* "handshake", "done", "timed_out" or "error"
    sent,                       \* items added to flights so far
    flight,                     \* d1->outgoing_messages, as indices into Items
    complete,                   \* d1->outgoing_messages_complete
    flight_has_reply,           \* d1->flight_has_reply
    timer,                      \* d1->next_timeout is set
    num_timeouts,               \* d1->num_timeouts
    r_epoch,                    \* d1->r_epoch
    read_seq,                   \* d1->handshake_read_seq
    incoming,                   \* d1->incoming_messages: numbers of the messages held
    has_ccs,                    \* d1->has_change_cipher_spec
    net,                        \* records under way to an endpoint, per item of its peer
    lost                        \* records wasted so far, counted if Patient

sender == <<sent, flight, complete, timer, num_timeouts>>
reader == <<r_epoch, read_seq, incoming, has_ccs>>
vars == <<pos, status, sender, flight_has_reply, reader, net, lost>>

\* The i-th item of p: its kind, the epoch it is sealed in, its message number.
Kind(p, i) == Items[p][i]
Before(p, i, kinds) == Cardinality({j \in 1 .. i - 1 : Items[p][j] \in kinds})
Epoch(p, i) == Before(p, i, {"ccs"})
MsgSeq(p, i) == Before(p, i, {"msg", "fin"})

Step(e) == Script[e][pos[e]]
AtStep(e, op) ==
    status[e] = "handshake" /\ pos[e] \in DOMAIN Script[e] /\ Step(e).op = op

\* A step asks the transport for a record only if what it needs is not there.
Reading(e) ==
    \/ AtStep(e, "recv") /\ read_seq[e] \notin incoming[e]
    \/ AtStep(e, "recv_ccs") /\ ~has_ccs[e]
    \/ status[e] = "done"

Init ==
    /\ pos = [e \in Ends |-> 1]
    /\ status = [e \in Ends |-> "handshake"]
    /\ sent = [e \in Ends |-> 0]
    /\ flight = [e \in Ends |-> {}]
    /\ complete = [e \in Ends |-> FALSE]
    /\ flight_has_reply = [e \in Ends |-> FALSE]
    /\ timer = [e \in Ends |-> FALSE]
    /\ num_timeouts = [e \in Ends |-> 0]
    /\ r_epoch = [e \in Ends |-> 0]
    /\ read_seq = [e \in Ends |-> 0]
    /\ incoming = [e \in Ends |-> {}]
    /\ has_ccs = [e \in Ends |-> FALSE]
    /\ net = [e \in Ends |-> [i \in DOMAIN Items[Peer(e)] |-> 0]]
    /\ lost = 0

-----------------------------------------------------------------------------
(***************************************************************************)
(* Sending.                                                                *)
(***************************************************************************)
\* One record more per item of the flight, up to the bound, on the channel c.
Transmit(c, items) ==
    [i \in DOMAIN c |-> IF i \in items /\ c[i] < MaxCopies THEN c[i] + 1 ELSE c[i]]

\* The messages of a flight are added (the first discards the flight before it
\* and its timer) and flushed (the timer starts, every record goes out).
send_flight(e) ==
    /\ AtStep(e, "flight")
    /\ LET items == sent[e] + 1 .. sent[e] + Step(e).n
       IN  /\ flight' = [flight EXCEPT ![e] = items]
           /\ net' = [net EXCEPT ![Peer(e)] = Transmit(@, items)]
           /\ sent' = [sent EXCEPT ![e] = @ + Step(e).n]
    /\ complete' = [complete EXCEPT ![e] = TRUE]
    /\ flight_has_reply' = [flight_has_reply EXCEPT ![e] = FALSE]
    /\ num_timeouts' = [num_timeouts EXCEPT ![e] = 0]
    /\ timer' = [timer EXCEPT ![e] = TRUE]
    /\ pos' = [pos EXCEPT ![e] = @ + 1]
    /\ UNCHANGED <<status, reader, lost>>

too_many_timeouts(e) == num_timeouts[e] + 1 > DTLS1_MAX_TIMEOUTS

\* dtls1_check_timeout_num and, if it passes, the flight again.
count_and_retransmit(e, c) ==
    /\ num_timeouts' = [num_timeouts EXCEPT ![e] = @ + 1]
    /\ net' = IF too_many_timeouts(e) THEN c
              ELSE [c EXCEPT ![Peer(e)] = Transmit(@, flight[e])]

\* A timer that outlasts the records expires only when nothing is under way any
\* more and both endpoints have dealt with all that arrived; and, as both double
\* their durations alike, not before the one that has expired less often.
Expires(e) ==
    /\ \A p \in Ends : Reading(p) \/ status[p] = "timed_out"
    /\ \A p \in Ends : \A i \in DOMAIN net[p] : net[p][i] = 0
    /\ timer[Peer(e)] => num_timeouts[e] <= num_timeouts[Peer(e)]

\* The application waits for the timer only when the handshake has returned
\* for want of a record (a flush that blocks is the matter of DtlsFlight).
DTLSv1_handle_timeout(e) ==
    /\ status[e] = "handshake" /\ timer[e] /\ Reading(e)
    /\ Patient => Expires(e)
    /\ count_and_retransmit(e, net)
    /\ status' = [status EXCEPT ![e] = IF too_many_timeouts(e) THEN "timed_out" ELSE @]
    /\ UNCHANGED <<pos, sent, flight, complete, timer, flight_has_reply, reader, lost>>

\* Mutant: the last flight is always discarded.
dtls1_on_handshake_complete_Clear(e) ==
    /\ status[e] = "handshake" /\ pos[e] = Len(Script[e]) + 1
    /\ status' = [status EXCEPT ![e] = "done"]
    /\ timer' = [timer EXCEPT ![e] = FALSE]
    /\ num_timeouts' = [num_timeouts EXCEPT ![e] = 0]
    /\ flight' = [flight EXCEPT ![e] = {}]
    /\ complete' = [complete EXCEPT ![e] = FALSE]
    /\ flight_has_reply' = [flight_has_reply EXCEPT ![e] = FALSE]
    /\ UNCHANGED <<pos, sent, reader, net, lost>>

dtls1_on_handshake_complete(e) ==
    /\ status[e] = "handshake" /\ pos[e] = Len(Script[e]) + 1
    /\ status' = [status EXCEPT ![e] = "done"]
    /\ timer' = [timer EXCEPT ![e] = FALSE]
    /\ num_timeouts' = [num_timeouts EXCEPT ![e] = 0]
    /\ flight' = [flight EXCEPT ![e] = IF flight_has_reply[e] THEN {} ELSE @]
    /\ complete' = [complete EXCEPT ![e] = @ /\ ~flight_has_reply[e]]
    /\ flight_has_reply' = [flight_has_reply EXCEPT ![e] = FALSE]
    /\ UNCHANGED <<pos, sent, reader, net, lost>>

-----------------------------------------------------------------------------
(***************************************************************************)
(* Receiving.                                                              *)
(***************************************************************************)
Taken(e, i) == [net EXCEPT ![e][i] = @ - 1]

\* The network, if Patient, wastes at most MaxLoss records that were needed.
Waste ==
    /\ Patient => lost < MaxLoss
    /\ lost' = IF Patient THEN lost + 1 ELSE lost

\* The record layer drops records of another epoch than the reader's; one of a
\* later epoch that overtook others is wasted.
dtls_open_record_discard(e, i) ==
    /\ Reading(e) /\ net[e][i] > 0
    /\ Epoch(Peer(e), i) # r_epoch[e]
    /\ net' = Taken(e, i)
    /\ IF Epoch(Peer(e), i) > r_epoch[e] /\ \E j \in 1 .. i - 1 : net[e][j] > 0
         THEN Waste ELSE UNCHANGED lost
    /\ UNCHANGED <<pos, status, sender, flight_has_reply, reader>>

Arrives(e, i) == Reading(e) /\ net[e][i] > 0 /\ Epoch(Peer(e), i) = r_epoch[e]

Fail(e) == status' = [status EXCEPT ![e] = "error"]

\* Mutant: messages from the past are kept.
keep_message_KeepOld(e, seq) ==
    IF \/ r_epoch[e] = 1 /\ seq # read_seq[e]
       \/ seq = read_seq[e] + SSL_MAX_HANDSHAKE_FLIGHT
      THEN Fail(e) /\ UNCHANGED incoming
      ELSE /\ incoming' = [incoming EXCEPT ![e] =
                 IF seq > read_seq[e] + SSL_MAX_HANDSHAKE_FLIGHT THEN @ ELSE @ \cup {seq}]
           /\ UNCHANGED status

\* A message is ignored if it is from the past or too far ahead; the first one
\* the ring has no slot for is an error, as is a second one in the encrypted
\* epoch.
keep_message(e, seq) ==
    IF \/ r_epoch[e] = 1 /\ seq # read_seq[e]
       \/ seq = read_seq[e] + SSL_MAX_HANDSHAKE_FLIGHT
      THEN Fail(e) /\ UNCHANGED incoming
      ELSE /\ incoming' = [incoming EXCEPT ![e] =
                 IF seq < read_seq[e] \/ seq > read_seq[e] + SSL_MAX_HANDSHAKE_FLIGHT
                   THEN @ ELSE @ \cup {seq}]
           /\ UNCHANGED status

\* During the handshake: a ChangeCipherSpec is noted, or, encrypted, an error.
dtls1_open_handshake(e, i) ==
    /\ Arrives(e, i) /\ status[e] = "handshake"
    /\ net' = Taken(e, i)
    /\ IF Kind(Peer(e), i) # "ccs"
         THEN keep_message(e, MsgSeq(Peer(e), i)) /\ UNCHANGED has_ccs
       ELSE IF r_epoch[e] # 0 THEN Fail(e) /\ UNCHANGED <<incoming, has_ccs>>
       ELSE has_ccs' = [has_ccs EXCEPT ![e] = TRUE] /\ UNCHANGED <<status, incoming>>
    /\ UNCHANGED <<pos, sender, flight_has_reply, r_epoch, read_seq, lost>>

\* After it: the peer's Finished again means that it may lack the last flight;
\* any other handshake record is an error, as is one Finished too many.
dtls1_open_app_data(e, i) ==
    /\ Arrives(e, i) /\ status[e] = "done"
    /\ IF Kind(Peer(e), i) = "fin" /\ MsgSeq(Peer(e), i) = read_seq[e] - 1
         THEN /\ count_and_retransmit(e, Taken(e, i))
              /\ status' = [status EXCEPT ![e] = IF too_many_timeouts(e) THEN "error" ELSE @]
         ELSE /\ net' = Taken(e, i)
              /\ Fail(e)
              /\ UNCHANGED num_timeouts
    /\ UNCHANGED <<pos, sent, flight, complete, timer, flight_has_reply, reader, lost>>

\* ClientHello, ServerHelloDone and Finished end a flight: nothing may be left.
\* The state machine takes the next message.
dtls1_next_message(e) ==
    /\ AtStep(e, "recv") /\ read_seq[e] \in incoming[e]
    /\ IF EndsFlight(e, pos[e]) /\ incoming[e] # {read_seq[e]}
         THEN Fail(e) /\ UNCHANGED <<pos, incoming, read_seq, flight_has_reply>>
         ELSE /\ incoming' = [incoming EXCEPT ![e] = @ \ {read_seq[e]}]
              /\ read_seq' = [read_seq EXCEPT ![e] = @ + 1]
              /\ flight_has_reply' = [flight_has_reply EXCEPT ![e] = @ \/ complete[e]]
              /\ pos' = [pos EXCEPT ![e] = @ + 1]
              /\ UNCHANGED status
    /\ UNCHANGED <<sender, r_epoch, has_ccs, net, lost>>

\* The ChangeCipherSpec is taken and the read keys change; messages left over
\* from the old epoch are an error.
dtls1_set_read_state(e) ==
    /\ AtStep(e, "recv_ccs") /\ has_ccs[e]
    /\ IF incoming[e] # {}
         THEN Fail(e) /\ UNCHANGED <<pos, reader>>
         ELSE /\ r_epoch' = [r_epoch EXCEPT ![e] = @ + 1]
              /\ has_ccs' = [has_ccs EXCEPT ![e] = FALSE]
              /\ pos' = [pos EXCEPT ![e] = @ + 1]
              /\ UNCHANGED <<status, read_seq, incoming>>
    /\ UNCHANGED <<sender, flight_has_reply, net, lost>>

Lose(e, i) ==
    /\ net[e][i] > 0
    /\ net' = Taken(e, i)
    /\ Waste
    /\ UNCHANGED <<pos, status, sender, flight_has_reply, reader>>

\* Both are through, or one has given up on a peer that may wait for ever.
Settled ==
    /\ \/ \A e \in Ends : status[e] = "done"
       \/ \E e \in Ends : status[e] = "timed_out"
    /\ UNCHANGED vars

Next ==
    \/ \E e \in Ends :
          \/ send_flight(e)
          \/ DTLSv1_handle_timeout(e)
          \/ dtls1_on_handshake_complete(e)
          \/ dtls1_next_message(e)
          \/ dtls1_set_read_state(e)
          \/ \E i \in DOMAIN net[e] :
                \/ dtls_open_record_discard(e, i)
                \/ dtls1_open_handshake(e, i)
                \/ dtls1_open_app_data(e, i)
                \/ Lose(e, i)
    \/ Settled

Spec == Init /\ [][Next]_vars

\* Applications run the state machine while it can run and read what arrives;
\* they call DTLSv1_handle_timeout when its timer has run out.
Fairness ==
    \A e \in Ends :
        /\ WF_vars(send_flight(e))
        /\ WF_vars(dtls1_on_handshake_complete(e))
        /\ WF_vars(dtls1_next_message(e))
        /\ WF_vars(dtls1_set_read_state(e))
        /\ WF_vars(DTLSv1_handle_timeout(e))
        /\ \A i \in DOMAIN Items[Peer(e)] :
              WF_vars(dtls_open_record_discard(e, i) \/ dtls1_open_handshake(e, i)
                        \/ dtls1_open_app_data(e, i))

FairSpec == Spec /\ Fairness

-----------------------------------------------------------------------------
(***************************************************************************)
(* Properties.                                                             *)
(***************************************************************************)
Status == {"handshake", "done", "timed_out", "error"}

\* The state stays well-formed, and no endpoint counts more timeouts than the one
\* that makes it give up (DTLS1_STATE).
TypeOK ==
    /\ pos \in [Ends -> Nat]
    /\ status \in [Ends -> Status]
    /\ sent \in [Ends -> Nat]
    /\ flight \in [Ends -> SUBSET Nat]
    /\ complete \in [Ends -> BOOLEAN]
    /\ flight_has_reply \in [Ends -> BOOLEAN]
    /\ timer \in [Ends -> BOOLEAN]
    /\ num_timeouts \in [Ends -> 0 .. DTLS1_MAX_TIMEOUTS + 1]
    /\ r_epoch \in [Ends -> Nat]
    /\ read_seq \in [Ends -> Nat]
    /\ incoming \in [Ends -> SUBSET Nat]
    /\ has_ccs \in [Ends -> BOOLEAN]
    /\ DOMAIN net = Ends
    /\ \A e \in Ends : net[e] \in [DOMAIN Items[Peer(e)] -> 0 .. MaxCopies]
    /\ lost \in 0 .. MaxLoss

\* What an endpoint has consumed: the messages, and the ChangeCipherSpecs that
\* took it to its read epoch.
received == [e \in Ends |-> read_seq[e] + r_epoch[e]]

Abstract == INSTANCE ReliableHandshake

\* Over any network that loses, delays, reorders and (by repeated flights)
\* multiplies records, the two state machines see a reliable channel: nothing
\* is consumed before the peer has sent it, in any order but the peer's, no
\* record of the network makes a handshake fail, and a completed connection is
\* never taken back by late handshake records (dtls1_open_app_data).
ImplementsReliable == Abstract!Spec

\* While one endpoint still waits and neither has given up, one of the two can
\* go on by itself or has a timer that will send its flight again, or the one
\* that is done still keeps the flight the other needs and the other's timer
\* prompts for it (dtls1_on_handshake_complete).
NobodyStranded ==
    (\E e \in Ends : status[e] = "handshake") /\ (\A e \in Ends : status[e] # "timed_out")
      => \E e \in Ends :
            /\ status[e] = "handshake"
            /\ Reading(e) => timer[e]
            /\ status[Peer(e)] = "done" /\ Reading(e)
                 => \/ flight[Peer(e)] # {}
                    \/ \E i \in DOMAIN net[e] : net[e][i] > 0

\* If timers outlast the records under way and no more records are lost, or
\* overtake a ChangeCipherSpec, than a flight may be repeated, both endpoints
\* complete.
BothComplete == <>(\A e \in Ends : status[e] = "done")
=============================================================================
