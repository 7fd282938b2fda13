----------------------------- MODULE DtlsFlight -----------------------------
(***************************************************************************)
(* How one DTLS endpoint sends its handshake flights: it collects the      *)
(* messages of a flight, packs them into packets no larger than the MTU,   *)
(* splitting a message where it must, and sends the flight again when a    *)
(* timer expires or when the peer repeats its Finished (ssl/d1_both.cc,    *)
(* "Sending handshake messages", and the timers of ssl/d1_lib.cc).         *)
(*                                                                         *)
(* Script is the path of the handshake state machine as far as sending     *)
(* cares: which messages it adds, where it flushes, where it waits to read.*)
(* The transport may refuse any packet (a non-blocking BIO), the timer may *)
(* expire and the MTU may change between any two calls of the application. *)
(***************************************************************************)
EXTENDS Integers, Sequences

CONSTANTS
    Script,                     \* steps [op, len]; op is one of Ops
    SSL_MAX_HANDSHAKE_FLIGHT,   \* slots of outgoing_messages (7)
    DTLS1_HM_HEADER_LENGTH,     \* 12
    DTLS1_MAX_TIMEOUTS,         \* 12
    DTLS1_MTU_TIMEOUTS,         \* 2
    MaxDuration,                \* the cap of dtls1_double_timeout (60000)
    InitialDuration,            \* initial_timeout_duration_ms
    Mtus,                       \* the MTUs the BIO or SSL_set_mtu may give
    Overhead,                   \* dtls_max_seal_overhead in epoch 0 and epoch 1
    Sealed                      \* what sealing a record really adds, per epoch

Ops == {"msg", "ccs", "flush", "read"}

Items == {"msg", "ccs"}

\* A handshake changes its write keys once, with a message of no body; a flight is
\* flushed before the state machine waits or ends; each state that asks for a
\* flush has added a message, and there is one; and no flight is longer than the
\* array.
ASSUME ScriptAssumption ==
    /\ Script \in Seq([op : Ops, len : Nat])
    /\ \A i, j \in 1 .. Len(Script) :
          Script[i].op = "ccs" /\ Script[j].op = "ccs" => i = j
    /\ \A i \in 1 .. Len(Script) : Script[i].op = "ccs" => Script[i].len = 0
    /\ \A i \in 1 .. Len(Script) : Script[i].op \in Items =>
          i < Len(Script) /\ Script[i + 1].op \in Items \cup {"flush"}
    /\ \A i \in 1 .. Len(Script) : Script[i].op = "flush" =>
          i > 1 /\ Script[i - 1].op \in Items
    /\ \E i \in 1 .. Len(Script) : Script[i].op = "flush"
    /\ \A i \in 1 .. Len(Script) : i > SSL_MAX_HANDSHAKE_FLIGHT =>
          \E j \in i - SSL_MAX_HANDSHAKE_FLIGHT .. i : Script[j].op \notin Items
ASSUME FlightAssumption == SSL_MAX_HANDSHAKE_FLIGHT \in Nat \ {0}
ASSUME HeaderAssumption == DTLS1_HM_HEADER_LENGTH \in Nat
ASSUME TimerAssumption ==
    /\ DTLS1_MAX_TIMEOUTS \in Nat
    /\ DTLS1_MTU_TIMEOUTS \in Nat
    /\ MaxDuration \in Nat
    /\ InitialDuration \in 1 .. MaxDuration
ASSUME OverheadAssumption ==
    /\ Overhead \in [{0, 1} -> Nat]
    /\ Sealed \in [{0, 1} -> SUBSET Nat]
    /\ \A e \in {0, 1} : Sealed[e] # {} /\ \A s \in Sealed[e] : s <= Overhead[e]
\* dtls1_min_mtu() leaves room for a fragment of one byte and for a CCS.
ASSUME MtuAssumption ==
    /\ Mtus \subseteq Nat
    /\ Mtus # {}
    /\ \A m \in Mtus, e \in {0, 1} : DTLS1_HM_HEADER_LENGTH + 1 + Overhead[e] <= m

VARIABLES
    pos,                        \* hs->state: the step of Script to do next
    status,                     \* "handshake", "done" or "failed"
    outgoing_messages,          \* d1->outgoing_messages[0 .. outgoing_messages_len - 1]
    outgoing_written,           \* d1->outgoing_written
    outgoing_offset,            \* d1->outgoing_offset
    outgoing_messages_complete, \* d1->outgoing_messages_complete
    flight_has_reply,           \* d1->flight_has_reply
    w_epoch,                    \* d1->w_epoch
    mtu,                        \* d1->mtu
    num_timeouts,               \* d1->num_timeouts
    timeout_duration_ms,        \* d1->timeout_duration_ms
    timer,                      \* d1->next_timeout is set
    write_shutdown,             \* s3->write_shutdown # ssl_shutdown_none
    phase,                      \* where send_flight is, "run" outside it
    caller,                     \* who called send_flight
    old,                        \* old_written, old_offset
    room,                       \* max_out of seal_next_packet
    packet,                     \* the fragments in the packet being filled
    result,                     \* what the last send_flight returned
    on_wire                     \* history: fragments written since the last rewind

flight == <<outgoing_messages, outgoing_messages_complete, flight_has_reply, w_epoch>>
cursor == <<outgoing_written, outgoing_offset>>
clock == <<num_timeouts, timeout_duration_ms, timer>>
sending == <<phase, caller, old, room, packet, result>>
vars == <<pos, status, flight, cursor, clock, mtu, write_shutdown, sending, on_wire>>

OutgoingMessages == [is_ccs : BOOLEAN, len : Nat, epoch : {0, 1}]
Fragments == [msg : Nat, off : Nat, len : Nat, epoch : {0, 1}]

Steps == 1 .. Len(Script)
AtStep(op) == status = "handshake" /\ phase = "run" /\ pos \in Steps /\ Script[pos].op = op

-----------------------------------------------------------------------------
(***************************************************************************)
(* The retransmission timer.                                               *)
(***************************************************************************)
dtls1_stop_timer ==
    /\ num_timeouts' = 0
    /\ timer' = FALSE
    /\ timeout_duration_ms' = InitialDuration

\* The wait a timer that starts now is given.
start_duration(duration) == IF timer THEN duration ELSE InitialDuration

double_timeout(duration) == IF 2 * duration > MaxDuration THEN MaxDuration ELSE 2 * duration

\* dtls1_check_timeout_num counts, may take the BIO's fallback MTU, and fails
\* past the limit.
check_timeout_num ==
    /\ num_timeouts' = num_timeouts + 1
    /\ \/ mtu' = mtu
       \/ num_timeouts' > DTLS1_MTU_TIMEOUTS /\ mtu' \in Mtus

too_many_timeouts == num_timeouts + 1 > DTLS1_MAX_TIMEOUTS

-----------------------------------------------------------------------------
(***************************************************************************)
(* Collecting a flight.                                                    *)
(***************************************************************************)
dtls_clear_outgoing_messages ==
    /\ outgoing_messages' = <<>>
    /\ outgoing_written' = 0
    /\ outgoing_offset' = 0
    /\ outgoing_messages_complete' = FALSE
    /\ flight_has_reply' = FALSE
    /\ on_wire' = {}

Init ==
    /\ pos = 1
    /\ status = "handshake"
    /\ outgoing_messages = <<>>
    /\ outgoing_written = 0
    /\ outgoing_offset = 0
    /\ outgoing_messages_complete = FALSE
    /\ flight_has_reply = FALSE
    /\ w_epoch = 0
    /\ mtu \in Mtus
    /\ num_timeouts = 0
    /\ timeout_duration_ms = InitialDuration
    /\ timer = FALSE
    /\ write_shutdown = FALSE
    /\ phase = "run"
    /\ caller = "none"
    /\ old = [written |-> 0, offset |-> 0]
    /\ room = 0
    /\ packet = {}
    /\ result = "none"
    /\ on_wire = {}

new_message(is_ccs, len) == [is_ccs |-> is_ccs, len |-> len, epoch |-> w_epoch]

\* Mutated form: the timer of the old flight goes on.
add_outgoing_KeepTimer(is_ccs, len) ==
    \/ /\ outgoing_messages_complete
       /\ outgoing_messages' = <<new_message(is_ccs, len)>>
       /\ outgoing_written' = 0
       /\ outgoing_offset' = 0
       /\ outgoing_messages_complete' = FALSE
       /\ flight_has_reply' = FALSE
       /\ on_wire' = {}
       /\ result' = "none"
       /\ UNCHANGED clock
    \/ /\ ~outgoing_messages_complete
       /\ outgoing_messages' = Append(outgoing_messages, new_message(is_ccs, len))
       /\ UNCHANGED <<cursor, outgoing_messages_complete, flight_has_reply, clock,
                      on_wire, result>>

\* A message added after a flush starts the next flight: the peer has answered,
\* so the old flight and its timer go.  The third way out, an array that is
\* full, is what NoInternalError excludes.
add_outgoing(is_ccs, len) ==
    \/ /\ outgoing_messages_complete
       /\ dtls1_stop_timer
       /\ outgoing_messages' = <<new_message(is_ccs, len)>>
       /\ outgoing_written' = 0
       /\ outgoing_offset' = 0
       /\ outgoing_messages_complete' = FALSE
       /\ flight_has_reply' = FALSE
       /\ on_wire' = {}
       /\ result' = "none"
    \/ /\ ~outgoing_messages_complete
       /\ Len(outgoing_messages) < SSL_MAX_HANDSHAKE_FLIGHT
       /\ outgoing_messages' = Append(outgoing_messages, new_message(is_ccs, len))
       /\ UNCHANGED <<cursor, outgoing_messages_complete, flight_has_reply, clock,
                      on_wire, result>>

dtls1_add_message ==
    /\ AtStep("msg")
    /\ add_outgoing(FALSE, Script[pos].len)
    /\ pos' = pos + 1
    /\ UNCHANGED <<status, w_epoch, mtu, write_shutdown, phase, caller, old, room, packet>>

\* tls1_change_cipher_state follows dtls1_add_change_cipher_spec in the same
\* step of the state machine.
dtls1_add_change_cipher_spec ==
    /\ AtStep("ccs")
    /\ add_outgoing(TRUE, 0)
    /\ w_epoch' = w_epoch + 1
    /\ pos' = pos + 1
    /\ UNCHANGED <<status, mtu, write_shutdown, phase, caller, old, room, packet>>

\* A message of the peer has been read and dealt with.
dtls1_next_message ==
    /\ AtStep("read")
    /\ flight_has_reply' = (flight_has_reply \/ outgoing_messages_complete)
    /\ pos' = pos + 1
    /\ UNCHANGED <<status, outgoing_messages, outgoing_messages_complete, w_epoch, cursor,
                   clock, mtu, write_shutdown, sending, on_wire>>

\* Mutated form: the flight is dropped whether or not it was answered.
dtls1_on_handshake_complete_Clear ==
    /\ status = "handshake" /\ phase = "run" /\ pos = Len(Script) + 1
    /\ status' = "done"
    /\ dtls1_stop_timer
    /\ dtls_clear_outgoing_messages
    /\ result' = "none"
    /\ UNCHANGED <<pos, w_epoch, mtu, write_shutdown, phase, caller, old, room, packet>>

\* If the last flight was answered it goes, else it is kept for the peer.
dtls1_on_handshake_complete ==
    /\ status = "handshake" /\ phase = "run" /\ pos = Len(Script) + 1
    /\ status' = "done"
    /\ dtls1_stop_timer
    /\ \/ flight_has_reply /\ dtls_clear_outgoing_messages /\ result' = "none"
       \/ /\ ~flight_has_reply
          /\ UNCHANGED <<outgoing_messages, outgoing_messages_complete, flight_has_reply,
                         cursor, on_wire, result>>
    /\ UNCHANGED <<pos, w_epoch, mtu, write_shutdown, phase, caller, old, room, packet>>

-----------------------------------------------------------------------------
(***************************************************************************)
(* send_flight, one packet after the other.                                *)
(***************************************************************************)
\* The test of the loop over packets, with the cursor at written, offset.
next_packet(written, offset, max_out) ==
    IF written < Len(outgoing_messages)
      THEN /\ phase' = "seal"
           /\ old' = [written |-> written, offset |-> offset]
           /\ room' = max_out
           /\ packet' = {}
      ELSE /\ phase' = "bio_flush"
           /\ packet' = {}
           /\ UNCHANGED <<old, room>>

send_flight(who, written, offset, max_out) ==
    IF write_shutdown
      THEN /\ result' = "protocol_is_shutdown"
           /\ caller' = who
           /\ UNCHANGED <<phase, old, room, packet>>
      ELSE /\ result' = "none"
           /\ caller' = who
           /\ next_packet(written, offset, max_out)

Return(ret) ==
    /\ phase' = "run"
    /\ packet' = {}
    /\ result' = ret
    /\ UNCHANGED <<caller, old, room>>

\* Called each time ssl_run_handshake is entered while it waits to flush: a
\* flush that was cut short goes on from the cursor, with its timer restarted.
dtls1_flush_flight ==
    /\ AtStep("flush")
    /\ outgoing_messages_complete' = TRUE
    /\ timer' = TRUE
    /\ timeout_duration_ms' = start_duration(timeout_duration_ms)
    /\ send_flight("flush", outgoing_written, outgoing_offset, mtu)
    /\ UNCHANGED <<pos, status, outgoing_messages, flight_has_reply, w_epoch, cursor,
                   num_timeouts, mtu, write_shutdown, on_wire>>

\* Mutated form: the offset into the message is not rewound.
rewind_KeepOffset ==
    /\ outgoing_written' = 0
    /\ outgoing_offset' = outgoing_offset
    /\ on_wire' = {}

rewind ==
    /\ outgoing_written' = 0
    /\ outgoing_offset' = 0
    /\ on_wire' = {}

dtls1_retransmit_outgoing_messages(who) ==
    /\ rewind
    /\ send_flight(who, outgoing_written', outgoing_offset', mtu')

\* The timer has expired; the application calls in between any two other calls.
DTLSv1_handle_timeout ==
    /\ status # "failed" /\ phase = "run"
    /\ timer
    /\ check_timeout_num
    /\ \/ /\ too_many_timeouts
          /\ status' = "failed"
          /\ UNCHANGED <<timeout_duration_ms, timer, cursor, sending, on_wire>>
       \/ /\ ~too_many_timeouts
          /\ timeout_duration_ms' = start_duration(double_timeout(timeout_duration_ms))
          /\ timer' = TRUE
          /\ dtls1_retransmit_outgoing_messages("timeout")
          /\ UNCHANGED status
    /\ UNCHANGED <<pos, flight, write_shutdown>>

\* The peer's Finished arrives again after the handshake.
dtls1_open_app_data ==
    /\ status = "done" /\ phase = "run"
    /\ check_timeout_num
    /\ \/ too_many_timeouts /\ status' = "failed" /\ UNCHANGED <<cursor, sending, on_wire>>
       \/ /\ ~too_many_timeouts
          /\ dtls1_retransmit_outgoing_messages("finished")
          /\ UNCHANGED status
    /\ UNCHANGED <<pos, flight, timeout_duration_ms, timer, write_shutdown>>

msg == outgoing_messages[outgoing_written + 1]

\* seal_next_message finds no keys for the message's epoch.
epoch_gone == msg.epoch # w_epoch /\ ~(w_epoch >= 1 /\ msg.epoch = w_epoch - 1)

min_room == Overhead[msg.epoch] + 1 + (IF msg.is_ccs THEN 0 ELSE DTLS1_HM_HEADER_LENGTH)

\* How much of the message's body goes into this packet.
todo ==
    LET rest == msg.len - outgoing_offset
        space == room - DTLS1_HM_HEADER_LENGTH - Overhead[msg.epoch]
    IN  IF rest > space THEN space ELSE rest

fragment(len) ==
    [msg |-> outgoing_written, off |-> outgoing_offset, len |-> len, epoch |-> msg.epoch]

seal_ccs ==
    /\ msg.is_ccs
    /\ \E s \in Sealed[msg.epoch] : room' = room - (1 + s)
    /\ packet' = packet \cup {fragment(0)}
    /\ outgoing_written' = outgoing_written + 1
    /\ UNCHANGED <<outgoing_offset, phase>>

seal_whole ==
    /\ ~msg.is_ccs
    /\ todo = msg.len - outgoing_offset
    /\ \E s \in Sealed[msg.epoch] : room' = room - (DTLS1_HM_HEADER_LENGTH + todo + s)
    /\ packet' = packet \cup {fragment(todo)}
    /\ outgoing_written' = outgoing_written + 1
    /\ outgoing_offset' = 0
    /\ UNCHANGED phase

\* seal_partial: the packet is full.
seal_part ==
    /\ ~msg.is_ccs
    /\ todo # msg.len - outgoing_offset
    /\ \E s \in Sealed[msg.epoch] : room' = room - (DTLS1_HM_HEADER_LENGTH + todo + s)
    /\ packet' = packet \cup {fragment(todo)}
    /\ outgoing_offset' = outgoing_offset + todo
    /\ phase' = "write"
    /\ UNCHANGED outgoing_written

seal_next_message ==
    /\ phase = "seal"
    /\ outgoing_written < Len(outgoing_messages)
    /\ ~epoch_gone
    /\ room >= min_room
    /\ seal_ccs \/ seal_whole \/ seal_part
    /\ UNCHANGED <<pos, status, flight, clock, mtu, write_shutdown, caller, old, result, on_wire>>

\* seal_no_progress, or no message is left.
packet_full ==
    /\ phase = "seal"
    /\ outgoing_written < Len(outgoing_messages) => room < min_room
    /\ packet # {}
    /\ phase' = "write"
    /\ UNCHANGED <<pos, status, flight, cursor, clock, mtu, write_shutdown, caller, old, room,
                   packet, result, on_wire>>

\* BIO_write takes the packet.
BIO_write ==
    /\ phase = "write"
    /\ on_wire' = on_wire \cup packet
    /\ next_packet(outgoing_written, outgoing_offset, mtu)
    /\ UNCHANGED <<pos, status, flight, cursor, clock, mtu, write_shutdown, caller, result>>

\* Mutated form: the offset is not put back.
BIO_write_blocked_KeepOffset ==
    /\ phase = "write"
    /\ outgoing_written' = old.written
    /\ Return("want_write")
    /\ UNCHANGED <<pos, status, flight, outgoing_offset, clock, mtu, write_shutdown, on_wire>>

\* Mutated form: the whole flight starts over.
BIO_write_blocked_StartOver ==
    /\ phase = "write"
    /\ outgoing_written' = 0
    /\ outgoing_offset' = 0
    /\ Return("want_write")
    /\ UNCHANGED <<pos, status, flight, clock, mtu, write_shutdown, on_wire>>

\* BIO_write refuses it: this packet is sealed again the next time around.
BIO_write_blocked ==
    /\ phase = "write"
    /\ outgoing_written' = old.written
    /\ outgoing_offset' = old.offset
    /\ Return("want_write")
    /\ UNCHANGED <<pos, status, flight, clock, mtu, write_shutdown, on_wire>>

\* The flight is out; the state machine goes on if it was waiting for that.
BIO_flush ==
    /\ phase = "bio_flush"
    /\ Return("sent")
    /\ pos' = IF caller = "flush" THEN pos + 1 ELSE pos
    /\ UNCHANGED <<status, flight, cursor, clock, mtu, write_shutdown, on_wire>>

BIO_flush_blocked ==
    /\ phase = "bio_flush"
    /\ Return("want_write")
    /\ UNCHANGED <<pos, status, flight, cursor, clock, mtu, write_shutdown, on_wire>>

SSL_set_mtu ==
    /\ phase = "run" /\ status # "failed"
    /\ mtu' \in Mtus \ {mtu}
    /\ UNCHANGED <<pos, status, flight, cursor, clock, write_shutdown, sending, on_wire>>

\* SSL_shutdown does nothing during the handshake.
SSL_shutdown ==
    /\ phase = "run" /\ status = "done" /\ ~write_shutdown
    /\ write_shutdown' = TRUE
    /\ UNCHANGED <<pos, status, flight, cursor, clock, mtu, sending, on_wire>>

\* The application gives up after READ_TIMEOUT_EXPIRED.
GaveUp == status = "failed" /\ UNCHANGED vars

Next ==
    \/ dtls1_add_message
    \/ dtls1_add_change_cipher_spec
    \/ dtls1_next_message
    \/ dtls1_on_handshake_complete
    \/ dtls1_flush_flight
    \/ DTLSv1_handle_timeout
    \/ dtls1_open_app_data
    \/ seal_next_message
    \/ packet_full
    \/ BIO_write
    \/ BIO_write_blocked
    \/ BIO_flush
    \/ BIO_flush_blocked
    \/ SSL_set_mtu
    \/ SSL_shutdown
    \/ GaveUp

Spec == Init /\ [][Next]_vars

\* Inside send_flight the code runs on; the application calls again until its
\* flush is through, and a transport that refuses packets takes one in the end.
Fairness ==
    /\ WF_vars(seal_next_message)
    /\ WF_vars(packet_full)
    /\ WF_vars(dtls1_flush_flight)
    /\ SF_vars(BIO_write)
    /\ SF_vars(BIO_flush)

FairSpec == Spec /\ Fairness

-----------------------------------------------------------------------------
(***************************************************************************)
(* Properties.                                                             *)
(***************************************************************************)
TypeOK ==
    /\ pos \in 1 .. Len(Script) + 1
    /\ status \in {"handshake", "done", "failed"}
    /\ outgoing_messages \in Seq(OutgoingMessages)
    /\ outgoing_written \in 0 .. Len(outgoing_messages)
    /\ outgoing_offset \in Nat
    /\ outgoing_messages_complete \in BOOLEAN
    /\ flight_has_reply \in BOOLEAN
    /\ w_epoch \in {0, 1}
    /\ mtu \in Mtus
    /\ num_timeouts \in 0 .. DTLS1_MAX_TIMEOUTS + 1
    /\ timeout_duration_ms \in 1 .. MaxDuration
    /\ timer \in BOOLEAN
    /\ write_shutdown \in BOOLEAN
    /\ phase \in {"run", "seal", "write", "bio_flush"}
    /\ caller \in {"none", "flush", "timeout", "finished"}
    /\ old \in [written : Nat, offset : Nat]
    /\ room \in Int
    /\ packet \subseteq Fragments
    /\ result \in {"none", "sent", "want_write", "protocol_is_shutdown"}
    /\ on_wire \subseteq Fragments

\* Fragments S are exactly the part of the flight msgs before the position
\* written, offset, each under the epoch its message was added in.
ExactlyUpTo(msgs, S, written, offset) ==
    /\ \A f \in S :
          /\ f.msg < Len(msgs)
          /\ f.off + f.len <= msgs[f.msg + 1].len
          /\ f.epoch = msgs[f.msg + 1].epoch
    /\ \A i \in 0 .. Len(msgs) - 1 :
          /\ i < written => \E f \in S : f.msg = i
          /\ \A k \in 0 .. msgs[i + 1].len - 1 :
                (\E f \in S : f.msg = i /\ f.off <= k /\ k < f.off + f.len)
                  <=> i < written \/ (i = written /\ k < offset)

\* The cursor of send_flight never lies: what the transport has taken since the
\* last rewind is exactly the flight up to the cursor (up to old while a packet
\* is being filled), however often BIO_write refused a packet, the MTU changed
\* or the timer sent the cursor back to the start.
CursorExact ==
    IF phase \in {"seal", "write"}
      THEN /\ ExactlyUpTo(outgoing_messages, on_wire, old.written, old.offset)
           /\ ExactlyUpTo(outgoing_messages, on_wire \cup packet, outgoing_written, outgoing_offset)
      ELSE ExactlyUpTo(outgoing_messages, on_wire, outgoing_written, outgoing_offset)

\* When send_flight returns 1 every byte of every message of the flight has been
\* handed to the transport since the last rewind, and so has each
\* ChangeCipherSpec, all of them under their own epoch.
WholeFlightSent ==
    result = "sent" => ExactlyUpTo(outgoing_messages, on_wire, Len(outgoing_messages), 0)

\* None of the internal errors on this path can happen: the array of messages
\* is never full when one is added, the keys of a message's epoch are still
\* there when it is sealed, and no packet stays empty (MTU_TOO_SMALL).
NoInternalError ==
    /\ (AtStep("msg") \/ AtStep("ccs")) /\ ~outgoing_messages_complete
          => Len(outgoing_messages) < SSL_MAX_HANDSHAKE_FLIGHT
    /\ phase = "seal" /\ outgoing_written < Len(outgoing_messages) => ~epoch_gone
    /\ phase = "seal" /\ packet = {}
          => outgoing_written < Len(outgoing_messages) /\ room >= min_room

\* A packet never outgrows the buffer of mtu bytes: max_out, a size_t in
\* seal_next_packet, does not wrap below zero.
PacketFits == phase \in {"seal", "write"} => room >= 0

\* While the timer runs there is a whole flight to repeat, never one that is
\* still being collected; and an endpoint that has sent a flight does not wait
\* for the peer without a timer.
TimedWhileWaiting ==
    /\ timer => outgoing_messages_complete
    /\ AtStep("read") /\ (\E i \in 1 .. pos - 1 : Script[i].op = "flush") => timer

Last(op) == CHOOSE i \in Steps : /\ Script[i].op = op
                                 /\ \A j \in Steps : Script[j].op = op => j <= i
Answered == \E i \in Steps : Script[i].op = "read" /\ i > Last("flush")

\* The messages added in the steps right before step f, whole and in order.
FlightBefore(f) ==
    \A i \in Steps : i < f /\ (\A j \in i .. f - 1 : Script[j].op \in Items) =>
        LET k == Len(outgoing_messages) - (f - 1 - i)
        IN  /\ k \in DOMAIN outgoing_messages
            /\ outgoing_messages[k].len = Script[i].len
            /\ outgoing_messages[k].is_ccs = (Script[i].op = "ccs")

\* After the handshake a last flight that had no answer is still there, whole
\* and in order, for the peer that asks for it by repeating its Finished; one
\* that was answered is gone.
UnansweredFlightKept ==
    status = "done" =>
      IF Answered THEN outgoing_messages = <<>>
      ELSE FlightBefore(Last("flush")) /\ outgoing_messages_complete

\* Auxiliary invariant: what send_flight relies on between two of its steps.
Position(written, offset) ==
    /\ written \in 0 .. Len(outgoing_messages)
    /\ \/ offset = 0
       \/ /\ written < Len(outgoing_messages)
          /\ ~outgoing_messages[written + 1].is_ccs
          /\ offset < outgoing_messages[written + 1].len

SendInv ==
    /\ Position(outgoing_written, outgoing_offset)
    /\ \A i \in DOMAIN outgoing_messages :
          outgoing_messages[i].is_ccs => outgoing_messages[i].len = 0
    /\ phase \in {"seal", "write"} =>
          /\ Position(old.written, old.offset)
          /\ old.written < Len(outgoing_messages)
          /\ packet = {} => /\ phase = "seal"
                            /\ outgoing_written = old.written
                            /\ outgoing_offset = old.offset
                            /\ room = mtu
    /\ phase = "bio_flush" => outgoing_written = Len(outgoing_messages)
    /\ result = "sent" => phase = "run" /\ outgoing_written = Len(outgoing_messages)
    /\ status = "handshake" /\ (phase # "run" \/ result = "sent")
          => outgoing_messages_complete

\* Auxiliary invariant: where the state machine is, against the flight, its
\* keys and its timer.
ScriptInv ==
    /\ phase # "run" /\ caller = "flush" =>
          status = "handshake" /\ pos \in Steps /\ Script[pos].op = "flush"
    /\ w_epoch = 1 => \E i \in 1 .. pos - 1 : Script[i].op = "ccs"
    /\ \A i \in DOMAIN outgoing_messages : outgoing_messages[i].epoch <= w_epoch
    /\ status # "failed" => num_timeouts <= DTLS1_MAX_TIMEOUTS
    /\ timer => outgoing_messages_complete
    /\ status = "handshake" /\ outgoing_messages_complete => timer
    /\ ~outgoing_messages_complete /\ status = "handshake" =>
          /\ Len(outgoing_messages) < pos
          /\ \A i \in pos - Len(outgoing_messages) .. pos - 1 : Script[i].op \in Items
          /\ (\E i \in 1 .. pos - 1 : Script[i].op = "flush") => outgoing_messages # <<>>

\* Auxiliary invariant: the flight that is collected or was sent, and whether it
\* was answered, follow from the steps done.
KeptInv ==
    /\ status = "handshake" =>
        IF outgoing_messages_complete
          THEN \E f \in Steps : /\ f <= pos /\ Script[f].op = "flush" /\ FlightBefore(f)
                                /\ \A j \in f + 1 .. pos - 1 : Script[j].op = "read"
                                /\ flight_has_reply <=> f + 1 < pos
          ELSE FlightBefore(pos) /\ ~flight_has_reply
    /\ UnansweredFlightKept

\* A flush gets through: the state machine goes on, or the timeouts run out.
FlushCompletes ==
    \A i \in Steps : pos = i /\ Script[i].op = "flush" ~> pos > i \/ status = "failed"
=============================================================================
