-------------------------- MODULE DtlsFlightProofs --------------------------
(***************************************************************************)
(* Proofs about DtlsFlight for every script, MTU and message length.       *)
(***************************************************************************)
EXTENDS DtlsFlight, TLAPS

\* Before anything is sent, nothing is covered.
LEMMA NothingSent ==
    ASSUME NEW msgs \in Seq(OutgoingMessages)
    PROVE  ExactlyUpTo(msgs, {}, 0, 0)
  BY SMTT(30) DEF ExactlyUpTo, OutgoingMessages

\* A message added at the end leaves the sent part as it was.
LEMMA AppendKeeps ==
    ASSUME NEW msgs \in Seq(OutgoingMessages), NEW m \in OutgoingMessages,
           NEW S \in SUBSET Fragments, NEW w \in 0 .. Len(msgs), NEW o \in Nat,
           ExactlyUpTo(msgs, S, w, o), w = Len(msgs) => o = 0
    PROVE  ExactlyUpTo(Append(msgs, m), S, w, o)
<1> DEFINE new == Append(msgs, m)
<1>1. /\ Len(new) = Len(msgs) + 1
      /\ \A i \in 1 .. Len(msgs) : new[i] = msgs[i]
      /\ new[Len(msgs) + 1] = m
  OBVIOUS
<1>2. \A f \in S : /\ f.msg \in Nat
                   /\ f.msg < Len(msgs)
                   /\ new[f.msg + 1] = msgs[f.msg + 1]
  BY SMTT(30), <1>1 DEF ExactlyUpTo, Fragments
<1> HIDE DEF new
<1>3. \A f \in S : /\ f.msg < Len(new)
                   /\ f.off + f.len <= new[f.msg + 1].len
                   /\ f.epoch = new[f.msg + 1].epoch
  BY SMTT(30), <1>1, <1>2 DEF ExactlyUpTo
<1>4. ASSUME NEW i \in 0 .. Len(new) - 1
      PROVE  /\ i < w => \E f \in S : f.msg = i
             /\ \A k \in 0 .. new[i + 1].len - 1 :
                   (\E f \in S : f.msg = i /\ f.off <= k /\ k < f.off + f.len)
                     <=> i < w \/ (i = w /\ k < o)
  <2>1. CASE i < Len(msgs)
    <3>1. i \in 0 .. Len(msgs) - 1 /\ new[i + 1] = msgs[i + 1]
      BY SMTT(30), <1>1, <2>1
    <3> QED
      BY ZenonT(30), <3>1 DEF ExactlyUpTo
  <2>2. CASE i = Len(msgs)
    <3>1. ~(\E f \in S : f.msg = i)
      BY SMTT(30), <1>2, <2>2
    <3>2. ~(i < w) /\ (i = w => o = 0)
      BY SMTT(30), <2>2
    <3> QED
      BY SMTT(30), <3>1, <3>2, <1>1, <2>2 DEF OutgoingMessages
  <2> QED
    BY SMTT(30), <1>1, <2>1, <2>2
<1> QED
  BY ZenonT(30), <1>3, <1>4 DEF ExactlyUpTo, new

\* Sealing t bytes of the message at the cursor covers exactly those: the
\* cursor moves within the message, or past its end.
LEMMA SealMoves ==
    ASSUME NEW msgs \in Seq(OutgoingMessages), NEW S \in SUBSET Fragments,
           NEW w \in 0 .. Len(msgs) - 1, NEW o \in Nat, NEW t \in Nat, NEW f,
           o + t <= msgs[w + 1].len,
           f = [msg |-> w, off |-> o, len |-> t, epoch |-> msgs[w + 1].epoch],
           ExactlyUpTo(msgs, S, w, o)
    PROVE  /\ f \in Fragments
           /\ ExactlyUpTo(msgs, S \cup {f}, w, o + t)
           /\ o + t = msgs[w + 1].len => ExactlyUpTo(msgs, S \cup {f}, w + 1, 0)
<1> DEFINE T == S \cup {f}
<1>0. msgs[w + 1] \in OutgoingMessages
  OBVIOUS
<1>1. f \in Fragments
  BY SMTT(30), <1>0 DEF Fragments, OutgoingMessages
<1>2. \A g \in T : /\ g.msg < Len(msgs)
                   /\ g.off + g.len <= msgs[g.msg + 1].len
                   /\ g.epoch = msgs[g.msg + 1].epoch
  BY SMTT(30) DEF ExactlyUpTo
<1>3. ASSUME NEW i \in 0 .. Len(msgs) - 1, NEW k \in 0 .. msgs[i + 1].len - 1
      PROVE  (\E g \in T : g.msg = i /\ g.off <= k /\ k < g.off + g.len)
               <=> i < w \/ (i = w /\ k < o + t)
  <2>a. msgs[i + 1] \in OutgoingMessages
    OBVIOUS
  <2>0. k \in Nat /\ i \in Nat /\ w \in Nat
    BY SMTT(30), <2>a DEF OutgoingMessages
  <2>1. (\E g \in S : g.msg = i /\ g.off <= k /\ k < g.off + g.len)
          <=> i < w \/ (i = w /\ k < o)
    BY ZenonT(30) DEF ExactlyUpTo
  <2>2. (\E g \in T : g.msg = i /\ g.off <= k /\ k < g.off + g.len)
          <=> \/ \E g \in S : g.msg = i /\ g.off <= k /\ k < g.off + g.len
              \/ f.msg = i /\ f.off <= k /\ k < f.off + f.len
    BY ZenonT(30)
  <2>3. (f.msg = i /\ f.off <= k /\ k < f.off + f.len) <=> w = i /\ o <= k /\ k < o + t
    BY ZenonT(30)
  <2> HIDE DEF T
  <2> QED
    BY SMTT(30), <2>0, <2>1, <2>2, <2>3
<1>4. ASSUME NEW i \in 0 .. Len(msgs) - 1, i < w
      PROVE  \E g \in T : g.msg = i
  BY ZenonT(30), <1>4 DEF ExactlyUpTo
<1>5. f \in T /\ f.msg = w
  BY ZenonT(30)
<1>6. ExactlyUpTo(msgs, T, w, o + t)
  BY ZenonT(30), <1>2, <1>3, <1>4 DEF ExactlyUpTo
<1>7. ASSUME o + t = msgs[w + 1].len
      PROVE  ExactlyUpTo(msgs, T, w + 1, 0)
  <2>1. ASSUME NEW i \in 0 .. Len(msgs) - 1, i < w + 1
        PROVE  \E g \in T : g.msg = i
    BY SMTT(30), <2>1, <1>4, <1>5
  <2>2. ASSUME NEW i \in 0 .. Len(msgs) - 1, NEW k \in 0 .. msgs[i + 1].len - 1
        PROVE  (i < w \/ (i = w /\ k < o + t)) <=> i < w + 1 \/ (i = w + 1 /\ k < 0)
    <3>a. msgs[i + 1] \in OutgoingMessages
      OBVIOUS
    <3>1. k \in Nat /\ k < msgs[i + 1].len /\ i \in Nat /\ w \in Nat
      BY SMTT(30), <3>a DEF OutgoingMessages
    <3> QED
      BY SMTT(30), <3>1, <1>7, <1>0 DEF OutgoingMessages
  <2> HIDE DEF T
  <2> QED
    BY ZenonT(30), <1>2, <1>3, <2>1, <2>2 DEF ExactlyUpTo
<1> QED
  BY ZenonT(30), <1>1, <1>6, <1>7

BaseInv == TypeOK /\ SendInv /\ ScriptInv /\ PacketFits

\* What send_flight does before its first packet: it refuses after SSL_shutdown,
\* starts a packet at the cursor, or has nothing left to seal.
LEMMA SendFlightStarts ==
    ASSUME TypeOK, phase = "run", NEW who \in {"flush", "timeout", "finished"},
           NEW w \in Nat, NEW o \in Nat, NEW m \in Nat, send_flight(who, w, o, m)
    PROVE  /\ phase' \in {"run", "seal", "bio_flush"}
           /\ caller' = who
           /\ old' \in [written : Nat, offset : Nat]
           /\ room' \in Int
           /\ packet' \subseteq Fragments
           /\ result' \in {"none", "protocol_is_shutdown"}
           /\ phase' = "seal" => /\ w < Len(outgoing_messages)
                                 /\ old' = [written |-> w, offset |-> o]
                                 /\ room' = m
                                 /\ packet' = {}
           /\ phase' = "bio_flush" => ~(w < Len(outgoing_messages))
<1>1. CASE write_shutdown
  BY ZenonT(30), <1>1 DEF send_flight, TypeOK
<1>2. CASE ~write_shutdown /\ w < Len(outgoing_messages)
  <2>1. /\ phase' = "seal" /\ packet' = {} /\ room' = m /\ caller' = who /\ result' = "none"
        /\ old' = [written |-> w, offset |-> o]
    BY ZenonT(30), <1>2 DEF send_flight, next_packet
  <2> QED
    BY SMTT(30), <2>1, <1>2
<1>3. CASE ~write_shutdown /\ ~(w < Len(outgoing_messages))
  <2>1. /\ phase' = "bio_flush" /\ packet' = {} /\ caller' = who /\ result' = "none"
        /\ old' = old /\ room' = room
    BY ZenonT(30), <1>3 DEF send_flight, next_packet
  <2> QED
    BY ZenonT(30), <2>1, <1>3 DEF TypeOK
<1> QED
  BY ZenonT(30), <1>1, <1>2, <1>3

\* A new message is well formed, with the current write epoch.
LEMMA AddedMessage ==
    ASSUME TypeOK, NEW is_ccs \in BOOLEAN, NEW len \in Nat
    PROVE  /\ new_message(is_ccs, len) \in OutgoingMessages
           /\ new_message(is_ccs, len).epoch = w_epoch
           /\ new_message(is_ccs, len).is_ccs = is_ccs
           /\ new_message(is_ccs, len).len = len
  BY ZenonT(30) DEF new_message, OutgoingMessages, TypeOK

\* Adding a message keeps the types and the bookkeeping of the flight.
LEMMA AddOutgoing ==
    ASSUME TypeOK, SendInv, phase = "run", UNCHANGED phase,
           NEW is_ccs \in BOOLEAN, NEW len \in Nat, is_ccs => len = 0,
           add_outgoing(is_ccs, len)
    PROVE  /\ outgoing_messages' \in Seq(OutgoingMessages)
           /\ Position(outgoing_written, outgoing_offset)'
           /\ outgoing_offset' \in Nat
           /\ outgoing_messages_complete' \in BOOLEAN
           /\ flight_has_reply' \in BOOLEAN
           /\ num_timeouts' \in 0 .. DTLS1_MAX_TIMEOUTS + 1
           /\ timeout_duration_ms' \in 1 .. MaxDuration
           /\ timer' \in BOOLEAN
           /\ result' \in {"none", "sent", "want_write", "protocol_is_shutdown"}
           /\ on_wire' \subseteq Fragments
           /\ \A i \in DOMAIN outgoing_messages' :
                 outgoing_messages'[i].is_ccs => outgoing_messages'[i].len = 0
<1> DEFINE m == new_message(is_ccs, len)
<1>0. m \in OutgoingMessages /\ (m.is_ccs => m.len = 0)
  BY ZenonT(30), AddedMessage
<1> HIDE DEF m
<1>1. CASE outgoing_messages_complete
  <2>1. /\ outgoing_messages' = <<m>>
        /\ outgoing_written' = 0 /\ outgoing_offset' = 0 /\ on_wire' = {}
        /\ outgoing_messages_complete' = FALSE /\ flight_has_reply' = FALSE
        /\ num_timeouts' = 0 /\ timer' = FALSE /\ timeout_duration_ms' = InitialDuration
        /\ result' = "none"
    BY ZenonT(30), <1>1 DEF add_outgoing, dtls1_stop_timer, m
  <2>2. /\ <<m>> \in Seq(OutgoingMessages)
        /\ Len(<<m>>) = 1
        /\ \A i \in DOMAIN <<m>> : <<m>>[i] = m
    BY SMTT(30), <1>0
  <2>3. Position(outgoing_written, outgoing_offset)'
    BY SMTT(30), <2>1, <2>2 DEF Position
  <2>4. \A i \in DOMAIN outgoing_messages' :
           outgoing_messages'[i].is_ccs => outgoing_messages'[i].len = 0
    BY ZenonT(30), <2>1, <2>2, <1>0
  <2>5. 0 \in 0 .. DTLS1_MAX_TIMEOUTS + 1 /\ InitialDuration \in 1 .. MaxDuration
    BY SMTT(30), TimerAssumption
  <2> QED
    BY ZenonT(30), <2>1, <2>2, <2>3, <2>4, <2>5
<1>2. CASE ~outgoing_messages_complete
  <2>1. /\ outgoing_messages' = Append(outgoing_messages, m)
        /\ UNCHANGED <<outgoing_written, outgoing_offset, outgoing_messages_complete,
                       flight_has_reply, num_timeouts, timer, timeout_duration_ms,
                       result, on_wire>>
    BY ZenonT(30), <1>2 DEF add_outgoing, cursor, clock, m
  <2>2. /\ outgoing_messages \in Seq(OutgoingMessages)
        /\ Append(outgoing_messages, m) \in Seq(OutgoingMessages)
        /\ Len(Append(outgoing_messages, m)) = Len(outgoing_messages) + 1
        /\ \A i \in 1 .. Len(outgoing_messages) :
              Append(outgoing_messages, m)[i] = outgoing_messages[i]
        /\ Append(outgoing_messages, m)[Len(outgoing_messages) + 1] = m
        /\ DOMAIN Append(outgoing_messages, m) = 1 .. Len(outgoing_messages) + 1
        /\ DOMAIN outgoing_messages = 1 .. Len(outgoing_messages)
        /\ Len(outgoing_messages) \in Nat
    BY SMTT(30), <1>0 DEF TypeOK
  <2>3. Position(outgoing_written, outgoing_offset)'
    <3>1. /\ outgoing_written \in 0 .. Len(outgoing_messages)
          /\ \/ outgoing_offset = 0
             \/ /\ outgoing_written < Len(outgoing_messages)
                /\ ~outgoing_messages[outgoing_written + 1].is_ccs
                /\ outgoing_offset < outgoing_messages[outgoing_written + 1].len
      BY ZenonT(30) DEF SendInv, Position
    <3>2. /\ outgoing_written \in 0 .. Len(outgoing_messages')
          /\ outgoing_written < Len(outgoing_messages) =>
                /\ outgoing_written < Len(outgoing_messages')
                /\ outgoing_messages'[outgoing_written + 1]
                     = outgoing_messages[outgoing_written + 1]
      BY SMTT(30), <2>1, <2>2, <3>1
    <3> QED
      BY ZenonT(30), <3>1, <3>2, <2>1 DEF Position
  <2>4. ASSUME NEW i \in DOMAIN outgoing_messages'
        PROVE  outgoing_messages'[i].is_ccs => outgoing_messages'[i].len = 0
    <3>1. CASE i \in 1 .. Len(outgoing_messages)
      BY ZenonT(30), <3>1, <2>1, <2>2 DEF SendInv
    <3>2. CASE i = Len(outgoing_messages) + 1
      BY ZenonT(30), <3>2, <2>1, <2>2, <1>0
    <3> QED
      BY SMTT(30), <3>1, <3>2, <2>1, <2>2
  <2> QED
    BY ZenonT(30), <2>1, <2>2, <2>3, <2>4 DEF TypeOK
<1> QED
  BY ZenonT(30), <1>1, <1>2

\* The step of the script at pos, when the state machine is at one.
LEMMA StepAt ==
    ASSUME NEW i \in Steps
    PROVE  Script[i].op \in Ops /\ Script[i].len \in Nat
<1> DEFINE S == [op : Ops, len : Nat]
<1>1. Script \in Seq(S) /\ i \in 1 .. Len(Script)
  BY ZenonT(30), ScriptAssumption DEF Steps
<1> HIDE DEF S
<1>2. Script[i] \in S
  BY SMTT(30), <1>1
<1> QED
  BY ZenonT(30), <1>2 DEF S

\* The write epoch is raised once: at a CCS no other CCS lies behind.
LEMMA FirstEpoch ==
    ASSUME TypeOK, ScriptInv, AtStep("ccs")
    PROVE  w_epoch = 0
<1>1. pos \in Steps /\ Script[pos].op = "ccs"
  BY ZenonT(30) DEF AtStep
<1>2. ASSUME w_epoch = 1
      PROVE  FALSE
  <2>1. PICK i \in 1 .. pos - 1 : Script[i].op = "ccs"
    BY ZenonT(30), <1>2 DEF ScriptInv
  <2>2. i \in 1 .. Len(Script) /\ pos \in 1 .. Len(Script) /\ i # pos
    BY SMTT(30), <1>1 DEF Steps, TypeOK
  <2> QED
    BY ZenonT(30), <1>1, <2>1, <2>2, ScriptAssumption
<1> QED
  BY ZenonT(30), <1>2 DEF TypeOK

\* How much of a message goes into the packet, and that it then fits.
LEMMA TodoBounds ==
    ASSUME TypeOK, SendInv, outgoing_written < Len(outgoing_messages),
           room >= min_room
    PROVE  /\ msg \in OutgoingMessages
           /\ msg.is_ccs => /\ outgoing_offset = 0
                            /\ msg.len = 0
                            /\ \A s \in Sealed[msg.epoch] :
                                  s \in Nat /\ room - (1 + s) >= 0
           /\ ~msg.is_ccs =>
                /\ todo \in Nat
                /\ outgoing_offset + todo <= msg.len
                /\ todo # msg.len - outgoing_offset => todo > 0
                /\ \A s \in Sealed[msg.epoch] :
                      /\ s \in Nat
                      /\ room - (DTLS1_HM_HEADER_LENGTH + todo + s) >= 0
<1>1. /\ outgoing_written + 1 \in DOMAIN outgoing_messages
      /\ msg \in OutgoingMessages
  BY SMTT(30) DEF TypeOK, msg
<1>2. /\ msg.is_ccs \in BOOLEAN /\ msg.len \in Nat /\ msg.epoch \in {0, 1}
  BY ZenonT(30), <1>1 DEF OutgoingMessages
<1>3. /\ msg.is_ccs => outgoing_offset = 0 /\ msg.len = 0
      /\ outgoing_offset <= msg.len
      /\ outgoing_offset \in Nat
  BY SMTT(30), <1>1, <1>2 DEF SendInv, Position, msg, TypeOK
<1>4. /\ Overhead[msg.epoch] \in Nat
      /\ \A s \in Sealed[msg.epoch] : s \in Nat /\ s <= Overhead[msg.epoch]
  BY ZenonT(30), <1>2, OverheadAssumption
<1>5. room \in Int /\ DTLS1_HM_HEADER_LENGTH \in Nat
  BY ZenonT(30), HeaderAssumption DEF TypeOK
<1>6. CASE msg.is_ccs
  <2>1. room >= Overhead[msg.epoch] + 1
    BY SMTT(30), <1>6, <1>4 DEF min_room
  <2> QED
    BY SMTT(30), <1>1, <1>3, <1>4, <1>5, <1>6, <2>1
<1>7. CASE ~msg.is_ccs
  <2>1. room >= Overhead[msg.epoch] + 1 + DTLS1_HM_HEADER_LENGTH
    BY ZenonT(30), <1>7 DEF min_room
  <2> DEFINE rest == msg.len - outgoing_offset
             space == room - DTLS1_HM_HEADER_LENGTH - Overhead[msg.epoch]
  <2>2. rest \in Nat /\ space \in Nat /\ space > 0
    BY SMTT(30), <1>2, <1>3, <1>4, <1>5, <2>1
  <2>3. todo = IF rest > space THEN space ELSE rest
    BY ZenonT(30) DEF todo
  <2>4. todo \in Nat /\ todo <= rest /\ todo <= space /\ (todo # rest => todo > 0)
    BY SMTT(30), <2>2, <2>3
  <2>5. outgoing_offset + todo <= msg.len
    BY SMTT(30), <2>4, <1>2, <1>3
  <2>6. ASSUME NEW s \in Sealed[msg.epoch]
        PROVE  s \in Nat /\ room - (DTLS1_HM_HEADER_LENGTH + todo + s) >= 0
    BY SMTT(30), <1>4, <1>5, <2>4
  <2> QED
    BY ZenonT(30), <1>1, <1>7, <2>4, <2>5, <2>6
<1> QED
  BY ZenonT(30), <1>2, <1>6, <1>7

\* Every step keeps the types.
LEMMA TypeStep ==
    ASSUME BaseInv, Next
    PROVE  TypeOK'
<1> USE DEF BaseInv
<1>1. CASE dtls1_add_message
  <2>1. /\ phase = "run" /\ UNCHANGED phase /\ pos \in Steps /\ Script[pos].len \in Nat
        /\ add_outgoing(FALSE, Script[pos].len) /\ pos' = pos + 1
        /\ UNCHANGED <<status, w_epoch, mtu, write_shutdown, caller, old, room, packet>>
    BY ZenonT(30), <1>1, StepAt DEF dtls1_add_message, AtStep
  <2>2. /\ outgoing_messages' \in Seq(OutgoingMessages)
        /\ outgoing_written' \in 0 .. Len(outgoing_messages')
        /\ outgoing_offset' \in Nat
        /\ outgoing_messages_complete' \in BOOLEAN
        /\ flight_has_reply' \in BOOLEAN
        /\ num_timeouts' \in 0 .. DTLS1_MAX_TIMEOUTS + 1
        /\ timeout_duration_ms' \in 1 .. MaxDuration
        /\ timer' \in BOOLEAN
        /\ result' \in {"none", "sent", "want_write", "protocol_is_shutdown"}
        /\ on_wire' \subseteq Fragments
    BY ZenonT(30), <2>1, AddOutgoing DEF Position
  <2>3. pos' \in 1 .. Len(Script) + 1
    BY SMTT(30), <2>1, ScriptAssumption DEF Steps
  <2> QED
    BY ZenonT(30), <2>1, <2>2, <2>3 DEF TypeOK
<1>2. CASE dtls1_add_change_cipher_spec
  <2>1. /\ phase = "run" /\ UNCHANGED phase /\ pos \in Steps
        /\ add_outgoing(TRUE, 0) /\ pos' = pos + 1 /\ w_epoch' = w_epoch + 1
        /\ UNCHANGED <<status, mtu, write_shutdown, caller, old, room, packet>>
    BY ZenonT(30), <1>2 DEF dtls1_add_change_cipher_spec, AtStep
  <2>2. /\ outgoing_messages' \in Seq(OutgoingMessages)
        /\ outgoing_written' \in 0 .. Len(outgoing_messages')
        /\ outgoing_offset' \in Nat
        /\ outgoing_messages_complete' \in BOOLEAN
        /\ flight_has_reply' \in BOOLEAN
        /\ num_timeouts' \in 0 .. DTLS1_MAX_TIMEOUTS + 1
        /\ timeout_duration_ms' \in 1 .. MaxDuration
        /\ timer' \in BOOLEAN
        /\ result' \in {"none", "sent", "want_write", "protocol_is_shutdown"}
        /\ on_wire' \subseteq Fragments
    BY ZenonT(30), <2>1, AddOutgoing DEF Position
  <2>3. pos' \in 1 .. Len(Script) + 1
    BY SMTT(30), <2>1, ScriptAssumption DEF Steps
  <2>4. w_epoch' \in {0, 1}
    BY SMTT(30), <1>2, <2>1, FirstEpoch DEF dtls1_add_change_cipher_spec
  <2> QED
    BY ZenonT(30), <2>1, <2>2, <2>3, <2>4 DEF TypeOK
<1>3. CASE dtls1_next_message
  <2>1. pos' \in 1 .. Len(Script) + 1
    BY SMTT(30), <1>3, ScriptAssumption DEF dtls1_next_message, AtStep, Steps
  <2>2. flight_has_reply' \in BOOLEAN
    BY ZenonT(30), <1>3 DEF dtls1_next_message, TypeOK
  <2>3. UNCHANGED <<status, outgoing_messages, outgoing_messages_complete, w_epoch,
                    outgoing_written, outgoing_offset, num_timeouts, timeout_duration_ms,
                    timer, mtu, write_shutdown, phase, caller, old, room, packet, result,
                    on_wire>>
    BY ZenonT(30), <1>3 DEF dtls1_next_message, cursor, clock, sending
  <2> QED
    BY SMTT(30), <2>1, <2>2, <2>3 DEF TypeOK
<1>4. CASE dtls1_on_handshake_complete
  <2>1. /\ num_timeouts' = 0 /\ timer' = FALSE /\ timeout_duration_ms' = InitialDuration
        /\ status' = "done"
        /\ UNCHANGED <<pos, w_epoch, mtu, write_shutdown, phase, caller, old, room, packet>>
    BY ZenonT(30), <1>4 DEF dtls1_on_handshake_complete, dtls1_stop_timer
  <2>2. /\ 0 \in 0 .. DTLS1_MAX_TIMEOUTS + 1 /\ InitialDuration \in 1 .. MaxDuration
        /\ <<>> \in Seq(OutgoingMessages) /\ Len(<<>>) = 0
    BY SMTT(30), TimerAssumption
  <2>3. /\ outgoing_messages' \in Seq(OutgoingMessages)
        /\ outgoing_written' \in 0 .. Len(outgoing_messages')
        /\ outgoing_offset' \in Nat
        /\ outgoing_messages_complete' \in BOOLEAN
        /\ flight_has_reply' \in BOOLEAN
        /\ result' \in {"none", "sent", "want_write", "protocol_is_shutdown"}
        /\ on_wire' \subseteq Fragments
    <3>1. CASE flight_has_reply
      <4>1. /\ outgoing_messages' = <<>> /\ outgoing_written' = 0 /\ outgoing_offset' = 0
            /\ outgoing_messages_complete' = FALSE /\ flight_has_reply' = FALSE
            /\ on_wire' = {} /\ result' = "none"
        BY ZenonT(30), <1>4, <3>1 DEF dtls1_on_handshake_complete, dtls_clear_outgoing_messages
      <4>2. Len(outgoing_messages') = 0
        BY ZenonT(30), <4>1
      <4>3. outgoing_messages' \in Seq(OutgoingMessages)
        BY SMTT(30), <4>1
      <4>4. outgoing_written' \in 0 .. Len(outgoing_messages') /\ outgoing_offset' \in Nat
        BY SMTT(30), <4>1, <4>2
      <4> QED
        BY ZenonT(30), <4>1, <4>3, <4>4
    <3>2. CASE ~flight_has_reply
      <4>1. UNCHANGED <<outgoing_messages, outgoing_messages_complete, flight_has_reply,
                        outgoing_written, outgoing_offset, on_wire, result>>
        BY ZenonT(30), <1>4, <3>2 DEF dtls1_on_handshake_complete, cursor
      <4> QED
        BY ZenonT(30), <4>1 DEF TypeOK
    <3> QED
      BY ZenonT(30), <3>1, <3>2
  <2> QED
    BY ZenonT(30), <2>1, <2>2, <2>3 DEF TypeOK
<1>5. CASE dtls1_flush_flight
  <2>1. /\ phase = "run"
        /\ outgoing_messages_complete' = TRUE /\ timer' = TRUE
        /\ send_flight("flush", outgoing_written, outgoing_offset, mtu)
        /\ UNCHANGED <<pos, status, outgoing_messages, flight_has_reply, w_epoch,
                       outgoing_written, outgoing_offset, num_timeouts, mtu,
                       write_shutdown, on_wire>>
    BY ZenonT(30), <1>5 DEF dtls1_flush_flight, AtStep, cursor
  <2>2. timeout_duration_ms' \in 1 .. MaxDuration
    BY ZenonT(30), <1>5, TimerAssumption DEF dtls1_flush_flight, start_duration, TypeOK
  <2>3. outgoing_written \in Nat /\ outgoing_offset \in Nat /\ mtu \in Nat
    BY SMTT(30), MtuAssumption DEF TypeOK
  <2>4. /\ phase' \in {"run", "seal", "bio_flush"} /\ caller' = "flush"
        /\ old' \in [written : Nat, offset : Nat] /\ room' \in Int
        /\ packet' \subseteq Fragments /\ result' \in {"none", "protocol_is_shutdown"}
    BY ZenonT(30), <2>1, <2>3, SendFlightStarts
  <2> QED
    BY ZenonT(30), <2>1, <2>2, <2>4 DEF TypeOK
<1>6. CASE DTLSv1_handle_timeout
  <2>1. /\ num_timeouts' \in 0 .. DTLS1_MAX_TIMEOUTS + 1
        /\ mtu' \in Mtus /\ mtu' \in Nat
    <3>1. check_timeout_num /\ status # "failed"
      BY ZenonT(30), <1>6 DEF DTLSv1_handle_timeout
    <3>2. num_timeouts <= DTLS1_MAX_TIMEOUTS /\ num_timeouts \in Nat /\ mtu \in Mtus
      BY SMTT(30), <3>1, TimerAssumption DEF ScriptInv, TypeOK
    <3>3. num_timeouts' = num_timeouts + 1 /\ mtu' \in Mtus
      BY ZenonT(30), <3>1, <3>2 DEF check_timeout_num
    <3> QED
      BY SMTT(30), <3>2, <3>3, TimerAssumption, MtuAssumption
  <2>2. /\ phase = "run"
        /\ UNCHANGED <<pos, outgoing_messages, outgoing_messages_complete, flight_has_reply,
                       w_epoch, write_shutdown>>
    BY ZenonT(30), <1>6 DEF DTLSv1_handle_timeout, flight
  <2>3. CASE too_many_timeouts
    <3>1. /\ status' = "failed"
          /\ UNCHANGED <<timeout_duration_ms, timer, outgoing_written, outgoing_offset,
                         phase, caller, old, room, packet, result, on_wire>>
      BY ZenonT(30), <1>6, <2>3 DEF DTLSv1_handle_timeout, cursor, sending
    <3> QED
      BY ZenonT(30), <2>1, <2>2, <3>1 DEF TypeOK
  <2>4. CASE ~too_many_timeouts
    <3>1. /\ timer' = TRUE /\ UNCHANGED status
          /\ outgoing_written' = 0 /\ outgoing_offset' = 0 /\ on_wire' = {}
          /\ send_flight("timeout", outgoing_written', outgoing_offset', mtu')
      BY ZenonT(30), <1>6, <2>4 DEF DTLSv1_handle_timeout, dtls1_retransmit_outgoing_messages, rewind
    <3>2. timeout_duration_ms' \in 1 .. MaxDuration
      <4>1. /\ timeout_duration_ms' = start_duration(double_timeout(timeout_duration_ms))
            /\ timer
        BY ZenonT(30), <1>6, <2>4 DEF DTLSv1_handle_timeout
      <4>2. timeout_duration_ms \in 1 .. MaxDuration
        BY ZenonT(30) DEF TypeOK
      <4> QED
        BY SMTT(30), <4>1, <4>2, TimerAssumption DEF start_duration, double_timeout
    <3>3. /\ phase' \in {"run", "seal", "bio_flush"} /\ caller' = "timeout"
          /\ old' \in [written : Nat, offset : Nat] /\ room' \in Int
          /\ packet' \subseteq Fragments /\ result' \in {"none", "protocol_is_shutdown"}
      BY ZenonT(30), <2>1, <2>2, <3>1, SendFlightStarts
    <3>4. 0 \in 0 .. Len(outgoing_messages) /\ 0 \in Nat
      BY SMTT(30) DEF TypeOK
    <3> QED
      BY ZenonT(30), <2>1, <2>2, <3>1, <3>2, <3>3, <3>4 DEF TypeOK
  <2> QED
    BY ZenonT(30), <2>3, <2>4
<1>7. CASE dtls1_open_app_data
  <2>1. /\ num_timeouts' \in 0 .. DTLS1_MAX_TIMEOUTS + 1
        /\ mtu' \in Mtus /\ mtu' \in Nat
    <3>1. check_timeout_num /\ status # "failed"
      BY ZenonT(30), <1>7 DEF dtls1_open_app_data
    <3>2. num_timeouts <= DTLS1_MAX_TIMEOUTS /\ num_timeouts \in Nat /\ mtu \in Mtus
      BY SMTT(30), <3>1, TimerAssumption DEF ScriptInv, TypeOK
    <3>3. num_timeouts' = num_timeouts + 1 /\ mtu' \in Mtus
      BY ZenonT(30), <3>1, <3>2 DEF check_timeout_num
    <3> QED
      BY SMTT(30), <3>2, <3>3, TimerAssumption, MtuAssumption
  <2>2. /\ phase = "run"
        /\ UNCHANGED <<pos, outgoing_messages, outgoing_messages_complete, flight_has_reply,
                       w_epoch, write_shutdown, timeout_duration_ms, timer>>
    BY ZenonT(30), <1>7 DEF dtls1_open_app_data, flight
  <2>3. CASE too_many_timeouts
    <3>1. /\ status' = "failed"
          /\ UNCHANGED <<outgoing_written, outgoing_offset,
                         phase, caller, old, room, packet, result, on_wire>>
      BY ZenonT(30), <1>7, <2>3 DEF dtls1_open_app_data, cursor, sending
    <3> QED
      BY ZenonT(30), <2>1, <2>2, <3>1 DEF TypeOK
  <2>4. CASE ~too_many_timeouts
    <3>1. /\ UNCHANGED status
          /\ outgoing_written' = 0 /\ outgoing_offset' = 0 /\ on_wire' = {}
          /\ send_flight("finished", outgoing_written', outgoing_offset', mtu')
      BY ZenonT(30), <1>7, <2>4 DEF dtls1_open_app_data, dtls1_retransmit_outgoing_messages, rewind
    <3>3. /\ phase' \in {"run", "seal", "bio_flush"} /\ caller' = "finished"
          /\ old' \in [written : Nat, offset : Nat] /\ room' \in Int
          /\ packet' \subseteq Fragments /\ result' \in {"none", "protocol_is_shutdown"}
      BY ZenonT(30), <2>1, <2>2, <3>1, SendFlightStarts
    <3>4. 0 \in 0 .. Len(outgoing_messages) /\ 0 \in Nat
      BY SMTT(30) DEF TypeOK
    <3> QED
      BY ZenonT(30), <2>1, <2>2, <3>1, <3>3, <3>4 DEF TypeOK
  <2> QED
    BY ZenonT(30), <2>3, <2>4
<1>8. CASE seal_next_message
  <2>1. /\ outgoing_written < Len(outgoing_messages) /\ room >= min_room
        /\ UNCHANGED <<pos, status, outgoing_messages, outgoing_messages_complete,
                       flight_has_reply, w_epoch, num_timeouts, timeout_duration_ms, timer,
                       mtu, write_shutdown, caller, old, result, on_wire>>
    BY ZenonT(30), <1>8 DEF seal_next_message, flight, clock
  <2>2. /\ msg \in OutgoingMessages
        /\ ~msg.is_ccs => todo \in Nat
        /\ \A s \in Sealed[msg.epoch] : s \in Int
    BY SMTT(30), <2>1, TodoBounds
  <2>3. /\ msg.epoch \in {0, 1} /\ outgoing_written \in Nat /\ outgoing_offset \in Nat
        /\ room \in Int /\ DTLS1_HM_HEADER_LENGTH \in Nat
        /\ outgoing_written + 1 \in 0 .. Len(outgoing_messages)
    BY SMTT(30), <2>1, <2>2, HeaderAssumption DEF OutgoingMessages, TypeOK
  <2>4. /\ fragment(0) \in Fragments
        /\ ~msg.is_ccs => fragment(todo) \in Fragments
    BY ZenonT(30), <2>2, <2>3 DEF fragment, Fragments
  <2>5. CASE seal_ccs
    <3>1. /\ room' \in Int /\ packet' \subseteq Fragments
          /\ outgoing_written' \in 0 .. Len(outgoing_messages)
          /\ UNCHANGED <<outgoing_offset, phase>>
      BY SMTT(30), <2>5, <2>2, <2>3, <2>4 DEF seal_ccs, TypeOK
    <3> QED
      BY SMTT(30), <2>1, <3>1 DEF TypeOK
  <2>6. CASE seal_whole
    <3>1. /\ room' \in Int /\ packet' \subseteq Fragments
          /\ outgoing_written' \in 0 .. Len(outgoing_messages)
          /\ outgoing_offset' \in Nat /\ UNCHANGED phase
      <4>1. PICK s \in Sealed[msg.epoch] : room' = room - (DTLS1_HM_HEADER_LENGTH + todo + s)
        BY ZenonT(30), <2>6 DEF seal_whole
      <4>2. room' \in Int
        BY SMTT(30), <4>1, <2>6, <2>2, <2>3 DEF seal_whole
      <4>3. packet' \subseteq Fragments
        BY ZenonT(30), <2>6, <2>4 DEF seal_whole, TypeOK
      <4> QED
        BY ZenonT(30), <2>6, <2>3, <4>2, <4>3 DEF seal_whole
    <3> QED
      BY SMTT(30), <2>1, <3>1 DEF TypeOK
  <2>7. CASE seal_part
    <3>1. /\ room' \in Int /\ packet' \subseteq Fragments
          /\ outgoing_offset' \in Nat /\ phase' = "write" /\ UNCHANGED outgoing_written
      <4>1. PICK s \in Sealed[msg.epoch] : room' = room - (DTLS1_HM_HEADER_LENGTH + todo + s)
        BY ZenonT(30), <2>7 DEF seal_part
      <4>2. room' \in Int /\ outgoing_offset' \in Nat
        BY SMTT(30), <4>1, <2>7, <2>2, <2>3 DEF seal_part
      <4>3. packet' \subseteq Fragments
        BY ZenonT(30), <2>7, <2>4 DEF seal_part, TypeOK
      <4> QED
        BY ZenonT(30), <2>7, <4>2, <4>3 DEF seal_part
    <3> QED
      BY ZenonT(30), <2>1, <3>1 DEF TypeOK
  <2> QED
    BY ZenonT(30), <1>8, <2>5, <2>6, <2>7 DEF seal_next_message
<1>9. CASE packet_full
  BY ZenonT(30), <1>9 DEF packet_full, flight, cursor, clock, TypeOK
<1>10. CASE BIO_write
  <2>1. /\ packet' = {} /\ on_wire' = on_wire \cup packet
        /\ UNCHANGED <<pos, status, outgoing_messages, outgoing_messages_complete,
                       flight_has_reply, w_epoch, outgoing_written, outgoing_offset,
                       num_timeouts, timeout_duration_ms, timer, mtu, write_shutdown,
                       caller, result>>
    BY ZenonT(30), <1>10 DEF BIO_write, next_packet, flight, cursor, clock
  <2>2. /\ phase' \in {"seal", "bio_flush"} /\ room' \in Int
        /\ old' \in [written : Nat, offset : Nat]
    <3>1. CASE outgoing_written < Len(outgoing_messages)
      <4>1. /\ phase' = "seal" /\ room' = mtu
            /\ old' = [written |-> outgoing_written, offset |-> outgoing_offset]
        BY ZenonT(30), <1>10, <3>1 DEF BIO_write, next_packet
      <4>2. outgoing_written \in Nat /\ outgoing_offset \in Nat /\ mtu \in Int
        BY SMTT(30), MtuAssumption DEF TypeOK
      <4> QED
        BY ZenonT(30), <4>1, <4>2
    <3>2. CASE ~(outgoing_written < Len(outgoing_messages))
      BY ZenonT(30), <1>10, <3>2 DEF BIO_write, next_packet, TypeOK
    <3> QED
      BY ZenonT(30), <3>1, <3>2
  <2> QED
    BY SMTT(30), <2>1, <2>2 DEF TypeOK
<1>11. CASE BIO_write_blocked
  <2>1. /\ phase' = "run" /\ packet' = {} /\ result' = "want_write"
        /\ outgoing_written' = old.written /\ outgoing_offset' = old.offset
        /\ UNCHANGED <<pos, status, outgoing_messages, outgoing_messages_complete,
                       flight_has_reply, w_epoch, num_timeouts, timeout_duration_ms, timer,
                       mtu, write_shutdown, caller, old, room, on_wire>>
    BY ZenonT(30), <1>11 DEF BIO_write_blocked, Return, flight, clock
  <2>2. old.written \in 0 .. Len(outgoing_messages) /\ old.offset \in Nat
    BY ZenonT(30), <1>11 DEF BIO_write_blocked, SendInv, Position, TypeOK
  <2> QED
    BY ZenonT(30), <2>1, <2>2 DEF TypeOK
<1>12. CASE BIO_flush
  <2>1. /\ phase' = "run" /\ packet' = {} /\ result' = "sent"
        /\ UNCHANGED <<status, outgoing_messages, outgoing_messages_complete,
                       flight_has_reply, w_epoch, outgoing_written, outgoing_offset,
                       num_timeouts, timeout_duration_ms, timer, mtu, write_shutdown,
                       caller, old, room, on_wire>>
    BY ZenonT(30), <1>12 DEF BIO_flush, Return, flight, cursor, clock
  <2>2. pos' \in 1 .. Len(Script) + 1
    BY SMTT(30), <1>12, ScriptAssumption DEF BIO_flush, ScriptInv, Steps, TypeOK
  <2> QED
    BY ZenonT(30), <2>1, <2>2 DEF TypeOK
<1>13. CASE BIO_flush_blocked
  BY ZenonT(30), <1>13 DEF BIO_flush_blocked, Return, flight, cursor, clock, TypeOK
<1>14. CASE SSL_set_mtu
  BY ZenonT(30), <1>14 DEF SSL_set_mtu, flight, cursor, clock, sending, TypeOK
<1>15. CASE SSL_shutdown
  BY ZenonT(30), <1>15 DEF SSL_shutdown, flight, cursor, clock, sending, TypeOK
<1>16. CASE GaveUp
  BY ZenonT(30), <1>16 DEF GaveUp, vars, flight, cursor, clock, sending, TypeOK
<1> QED
  BY ZenonT(30), <1>1, <1>2, <1>3, <1>4, <1>5, <1>6, <1>7, <1>8, <1>9, <1>10, <1>11, <1>12, <1>13,
     <1>14, <1>15, <1>16 DEF Next

\* Every step keeps the bookkeeping of send_flight and the packet within its
\* buffer.
LEMMA SendStep ==
    ASSUME BaseInv, Next, TypeOK'
    PROVE  SendInv' /\ PacketFits'
<1> USE DEF BaseInv
<1>1. CASE dtls1_add_message \/ dtls1_add_change_cipher_spec
  <2>1. \E is_ccs \in BOOLEAN, len \in Nat :
           /\ is_ccs => len = 0
           /\ add_outgoing(is_ccs, len)
    BY ZenonT(30), <1>1, StepAt DEF dtls1_add_message, dtls1_add_change_cipher_spec, AtStep
  <2>2. /\ phase = "run" /\ phase' = "run"
    BY ZenonT(30), <1>1 DEF dtls1_add_message, dtls1_add_change_cipher_spec, AtStep
  <2>3. PICK is_ccs \in BOOLEAN, len \in Nat :
           (is_ccs => len = 0) /\ add_outgoing(is_ccs, len)
    BY ZenonT(30), <2>1
  <2>4. /\ Position(outgoing_written, outgoing_offset)'
        /\ \A i \in DOMAIN outgoing_messages' :
              outgoing_messages'[i].is_ccs => outgoing_messages'[i].len = 0
    BY ZenonT(30), <2>2, <2>3, AddOutgoing
  <2>5. result' # "sent"
    <3>1. CASE outgoing_messages_complete
      BY ZenonT(30), <2>3, <3>1 DEF add_outgoing
    <3>2. CASE ~outgoing_messages_complete
      <4>1. status = "handshake"
        BY ZenonT(30), <1>1 DEF dtls1_add_message, dtls1_add_change_cipher_spec, AtStep
      <4>2. result # "sent"
        BY ZenonT(30), <4>1, <3>2 DEF SendInv
      <4> QED
        BY ZenonT(30), <2>3, <3>2, <4>2 DEF add_outgoing
    <3> QED
      BY ZenonT(30), <3>1, <3>2
  <2> QED
    BY ZenonT(30), <2>2, <2>4, <2>5 DEF SendInv, PacketFits
<1>2. CASE dtls1_next_message \/ SSL_shutdown \/ GaveUp \/ packet_full
  <2>1. /\ UNCHANGED <<status, outgoing_messages, outgoing_messages_complete, outgoing_written,
                       outgoing_offset, old, room, packet, result, mtu>>
        /\ UNCHANGED phase \/ (phase = "seal" /\ phase' = "write" /\ packet # {})
    BY ZenonT(30), <1>2 DEF dtls1_next_message, SSL_shutdown, GaveUp, packet_full, vars, flight, cursor,
                clock, sending
  <2> QED
    BY ZenonT(30), <2>1 DEF SendInv, PacketFits, Position
<1>3. CASE dtls1_on_handshake_complete
  <2>1. phase' = "run" /\ status' = "done"
    BY ZenonT(30), <1>3 DEF dtls1_on_handshake_complete
  <2>2. CASE flight_has_reply
    <3>1. /\ outgoing_messages' = <<>> /\ outgoing_written' = 0 /\ outgoing_offset' = 0
          /\ result' = "none"
      BY ZenonT(30), <1>3, <2>2 DEF dtls1_on_handshake_complete, dtls_clear_outgoing_messages
    <3>2. Position(outgoing_written, outgoing_offset)'
      BY SMTT(30), <3>1 DEF Position
    <3> QED
      BY SMTT(30), <2>1, <3>1, <3>2 DEF SendInv, PacketFits
  <2>3. CASE ~flight_has_reply
    <3>1. UNCHANGED <<outgoing_messages, outgoing_written, outgoing_offset, result>>
      BY ZenonT(30), <1>3, <2>3 DEF dtls1_on_handshake_complete, cursor
    <3> QED
      BY ZenonT(30), <2>1, <3>1 DEF SendInv, PacketFits, Position
  <2> QED
    BY ZenonT(30), <2>2, <2>3
<1>4. ASSUME NEW who \in {"flush", "timeout", "finished"}, phase = "run", mtu' \in Nat,
             UNCHANGED outgoing_messages,
             Position(outgoing_written, outgoing_offset)',
             status' = "handshake" => outgoing_messages_complete',
             send_flight(who, outgoing_written', outgoing_offset', mtu')
      PROVE  SendInv' /\ PacketFits'
  <2>1. outgoing_written' \in Nat /\ outgoing_offset' \in Nat
    BY SMTT(30) DEF TypeOK
  <2>2. /\ phase' \in {"run", "seal", "bio_flush"}
        /\ result' \in {"none", "protocol_is_shutdown"}
        /\ phase' = "seal" =>
              /\ outgoing_written' < Len(outgoing_messages)
              /\ old' = [written |-> outgoing_written', offset |-> outgoing_offset']
              /\ room' = mtu'
              /\ packet' = {}
        /\ phase' = "bio_flush" => ~(outgoing_written' < Len(outgoing_messages))
    BY ZenonT(30), <1>4, <2>1, SendFlightStarts
  <2>3. phase' = "seal" => old'.written = outgoing_written' /\ old'.offset = outgoing_offset'
    BY SMTT(30), <2>2
  <2>4. phase' = "seal" => Position(old.written, old.offset)'
    BY ZenonT(30), <1>4, <2>3 DEF Position
  <2>5. phase' = "bio_flush" => outgoing_written' = Len(outgoing_messages')
    BY SMTT(30), <1>4, <2>2 DEF TypeOK
  <2>6. \A i \in DOMAIN outgoing_messages' :
           outgoing_messages'[i].is_ccs => outgoing_messages'[i].len = 0
    BY ZenonT(30), <1>4 DEF SendInv
  <2>7. SendInv'
    BY ZenonT(30), <1>4, <2>2, <2>3, <2>4, <2>5, <2>6 DEF SendInv
  <2> QED
    BY SMTT(30), <1>4, <2>2, <2>7 DEF PacketFits
<1>5. CASE dtls1_flush_flight
  <2>1. /\ phase = "run" /\ outgoing_messages_complete' = TRUE
        /\ UNCHANGED <<outgoing_messages, outgoing_written, outgoing_offset, mtu>>
        /\ send_flight("flush", outgoing_written, outgoing_offset, mtu)
    BY ZenonT(30), <1>5 DEF dtls1_flush_flight, AtStep, cursor
  <2>2. /\ Position(outgoing_written, outgoing_offset)' /\ mtu' \in Nat
        /\ send_flight("flush", outgoing_written', outgoing_offset', mtu')
    BY ZenonT(30), <2>1, MtuAssumption DEF Position, SendInv, TypeOK
  <2> QED
    BY ZenonT(30), <2>1, <2>2, <1>4
<1>6. CASE DTLSv1_handle_timeout \/ dtls1_open_app_data
  <2>0. /\ phase = "run" /\ mtu' \in Nat
        /\ UNCHANGED <<outgoing_messages, outgoing_messages_complete>>
    BY ZenonT(30), <1>6, MtuAssumption DEF DTLSv1_handle_timeout, dtls1_open_app_data, flight, TypeOK
  <2>1. CASE too_many_timeouts
    <3>1. /\ status' = "failed" /\ UNCHANGED <<outgoing_written, outgoing_offset, phase, result>>
      BY ZenonT(30), <1>6, <2>1 DEF DTLSv1_handle_timeout, dtls1_open_app_data, cursor, sending
    <3> QED
      BY ZenonT(30), <2>0, <3>1 DEF SendInv, PacketFits, Position
  <2>2. CASE ~too_many_timeouts
    <3>1. \E who \in {"timeout", "finished"} :
             /\ outgoing_written' = 0 /\ outgoing_offset' = 0
             /\ send_flight(who, outgoing_written', outgoing_offset', mtu')
      BY ZenonT(30), <1>6, <2>2 DEF DTLSv1_handle_timeout, dtls1_open_app_data,
                        dtls1_retransmit_outgoing_messages, rewind
    <3>2. Position(outgoing_written, outgoing_offset)'
      BY ZenonT(30), <3>1 DEF Position, TypeOK
    <3>3. status' = "handshake" => outgoing_messages_complete'
      BY ZenonT(30), <1>6, <2>0, <2>2 DEF DTLSv1_handle_timeout, dtls1_open_app_data, ScriptInv
    <3> QED
      BY ZenonT(30), <2>0, <3>1, <3>2, <3>3, <1>4
  <2> QED
    BY ZenonT(30), <2>1, <2>2
<1>7. CASE seal_next_message
  <2>1. /\ phase = "seal" /\ outgoing_written < Len(outgoing_messages) /\ room >= min_room
        /\ UNCHANGED <<status, outgoing_messages, outgoing_messages_complete, old, result>>
    BY ZenonT(30), <1>7 DEF seal_next_message, flight
  <2>2. /\ msg \in OutgoingMessages
        /\ msg.is_ccs => /\ outgoing_offset = 0
                         /\ msg.len = 0
                         /\ \A s \in Sealed[msg.epoch] :
                               s \in Nat /\ room - (1 + s) >= 0
        /\ ~msg.is_ccs =>
             /\ todo \in Nat
             /\ outgoing_offset + todo <= msg.len
             /\ todo # msg.len - outgoing_offset => todo > 0
             /\ \A s \in Sealed[msg.epoch] :
                   /\ s \in Nat
                   /\ room - (DTLS1_HM_HEADER_LENGTH + todo + s) >= 0
    BY ZenonT(30), <2>1, TodoBounds
  <2>3. /\ phase' \in {"seal", "write"} /\ packet' # {} /\ room' >= 0
    BY ZenonT(30), <1>7, <2>1, <2>2 DEF seal_next_message, seal_ccs, seal_whole, seal_part
  <2>4. Position(outgoing_written, outgoing_offset)'
    <3>1. CASE seal_ccs
      BY ZenonT(30), <2>1, <2>2, <3>1 DEF seal_ccs, Position, TypeOK
    <3>2. CASE seal_whole
      BY ZenonT(30), <2>1, <3>2 DEF seal_whole, Position, TypeOK
    <3>3. CASE seal_part
      <4>1. /\ ~msg.is_ccs /\ outgoing_offset' = outgoing_offset + todo
            /\ todo # msg.len - outgoing_offset /\ outgoing_written' = outgoing_written
        BY ZenonT(30), <3>3 DEF seal_part
      <4>2. todo \in Nat /\ outgoing_offset + todo <= msg.len
        BY ZenonT(30), <2>2, <4>1
      <4>3. msg.len \in Nat /\ outgoing_offset \in Nat
        BY ZenonT(30), <2>2 DEF OutgoingMessages, TypeOK
      <4>4. outgoing_offset' < msg.len
        BY SMTT(30), <4>1, <4>2, <4>3
      <4> QED
        BY ZenonT(30), <2>1, <4>1, <4>4 DEF Position, TypeOK, msg
    <3> QED
      BY ZenonT(30), <1>7, <3>1, <3>2, <3>3 DEF seal_next_message
  <2>5. result # "sent"
    BY ZenonT(30), <2>1 DEF SendInv
  <2>6. Position(old.written, old.offset)' /\ old'.written < Len(outgoing_messages')
    BY ZenonT(30), <2>1 DEF SendInv, Position
  <2>7. \A i \in DOMAIN outgoing_messages' :
           outgoing_messages'[i].is_ccs => outgoing_messages'[i].len = 0
    BY ZenonT(30), <2>1 DEF SendInv
  <2>8. status' = "handshake" => outgoing_messages_complete'
    BY ZenonT(30), <2>1 DEF SendInv
  <2> QED
    BY ZenonT(30), <2>1, <2>3, <2>4, <2>5, <2>6, <2>7, <2>8 DEF SendInv, PacketFits
<1>8. CASE BIO_write
  <2>1. /\ phase = "write" /\ result # "sent"
        /\ next_packet(outgoing_written, outgoing_offset, mtu)
        /\ UNCHANGED <<status, outgoing_messages, outgoing_messages_complete,
                       outgoing_written, outgoing_offset, mtu, result>>
    BY ZenonT(30), <1>8 DEF BIO_write, flight, cursor, SendInv
  <2>2. Position(outgoing_written, outgoing_offset)'
    BY ZenonT(30), <2>1 DEF SendInv, Position
  <2>3. \A i \in DOMAIN outgoing_messages' :
           outgoing_messages'[i].is_ccs => outgoing_messages'[i].len = 0
    BY ZenonT(30), <2>1 DEF SendInv
  <2>4. status' = "handshake" => outgoing_messages_complete'
    BY ZenonT(30), <2>1 DEF SendInv
  <2>5. CASE outgoing_written < Len(outgoing_messages)
    <3>1. /\ phase' = "seal" /\ packet' = {} /\ room' = mtu
          /\ old' = [written |-> outgoing_written, offset |-> outgoing_offset]
      BY ZenonT(30), <2>1, <2>5 DEF next_packet
    <3>2. old'.written = outgoing_written' /\ old'.offset = outgoing_offset'
      BY ZenonT(30), <2>1, <3>1
    <3>3. Position(old.written, old.offset)'
      BY ZenonT(30), <2>2, <3>2 DEF Position
    <3>4. room' >= 0
      BY SMTT(30), <3>1, MtuAssumption DEF TypeOK
    <3> QED
      BY ZenonT(30), <2>1, <2>2, <2>3, <2>4, <2>5, <3>1, <3>2, <3>3, <3>4 DEF SendInv, PacketFits
  <2>6. CASE ~(outgoing_written < Len(outgoing_messages))
    <3>1. phase' = "bio_flush" /\ outgoing_written' = Len(outgoing_messages')
      BY SMTT(30), <2>1, <2>6 DEF next_packet, TypeOK
    <3> QED
      BY ZenonT(30), <2>1, <2>2, <2>3, <2>4, <3>1 DEF SendInv, PacketFits
  <2> QED
    BY ZenonT(30), <2>5, <2>6
<1>9. CASE BIO_write_blocked
  <2>1. /\ phase = "write" /\ phase' = "run" /\ result' = "want_write"
        /\ outgoing_written' = old.written /\ outgoing_offset' = old.offset
        /\ UNCHANGED outgoing_messages
    BY ZenonT(30), <1>9 DEF BIO_write_blocked, Return, flight
  <2>2. Position(outgoing_written, outgoing_offset)'
    BY ZenonT(30), <2>1 DEF SendInv, Position
  <2> QED
    BY ZenonT(30), <2>1, <2>2 DEF SendInv, PacketFits
<1>10. CASE BIO_flush \/ BIO_flush_blocked
  <2>1. /\ phase = "bio_flush" /\ phase' = "run"
        /\ UNCHANGED <<status, outgoing_messages, outgoing_messages_complete,
                       outgoing_written, outgoing_offset>>
    BY ZenonT(30), <1>10 DEF BIO_flush, BIO_flush_blocked, Return, flight, cursor
  <2>2. Position(outgoing_written, outgoing_offset)'
    BY ZenonT(30), <2>1 DEF SendInv, Position
  <2> QED
    BY ZenonT(30), <2>1, <2>2 DEF SendInv, PacketFits
<1>11. CASE SSL_set_mtu
  <2>1. /\ phase = "run"
        /\ UNCHANGED <<status, outgoing_messages, outgoing_messages_complete,
                       outgoing_written, outgoing_offset, phase, result>>
    BY ZenonT(30), <1>11 DEF SSL_set_mtu, flight, cursor, sending
  <2>2. Position(outgoing_written, outgoing_offset)'
    BY ZenonT(30), <2>1 DEF SendInv, Position
  <2> QED
    BY ZenonT(30), <2>1, <2>2 DEF SendInv, PacketFits
<1> QED
  BY ZenonT(30), <1>1, <1>2, <1>3, <1>5, <1>6, <1>7, <1>8, <1>9, <1>10, <1>11 DEF Next

\* What the types say of the positions and the epoch.
LEMMA TypeFacts ==
    ASSUME TypeOK
    PROVE  /\ pos \in Nat /\ pos >= 1 /\ pos <= Len(Script) + 1 /\ Len(Script) \in Nat
           /\ outgoing_messages \in Seq(OutgoingMessages)
           /\ Len(outgoing_messages) \in Nat
           /\ DOMAIN outgoing_messages = 1 .. Len(outgoing_messages)
           /\ w_epoch \in Nat
<1>1. Script \in Seq([op : Ops, len : Nat])
  BY ZenonT(30), ScriptAssumption
<1>2. Len(Script) \in Nat
  BY SMTT(30), <1>1
<1>3. pos \in 1 .. Len(Script) + 1 /\ w_epoch \in {0, 1}
      /\ outgoing_messages \in Seq(OutgoingMessages)
  BY ZenonT(30) DEF TypeOK
<1> QED
  BY SMTT(30), <1>2, <1>3

\* Adding a message keeps what ScriptInv says of the flight, its epochs and its
\* timer, with the state machine one step further.
LEMMA AddScript ==
    ASSUME TypeOK, ScriptInv, TypeOK', status = "handshake",
           NEW is_ccs \in BOOLEAN, NEW len \in Nat, add_outgoing(is_ccs, len),
           pos \in Steps, Script[pos].op \in Items, pos' = pos + 1,
           w_epoch <= w_epoch'
    PROVE  /\ \A i \in DOMAIN outgoing_messages' : outgoing_messages'[i].epoch <= w_epoch'
           /\ ~timer' /\ ~outgoing_messages_complete'
           /\ Len(outgoing_messages') < pos'
           /\ \A i \in pos' - Len(outgoing_messages') .. pos' - 1 : Script[i].op \in Items
           /\ outgoing_messages' # <<>>
           /\ num_timeouts' <= DTLS1_MAX_TIMEOUTS
<1> DEFINE m == new_message(is_ccs, len)
<1>0. /\ m \in OutgoingMessages /\ m.epoch = w_epoch /\ pos \in Nat /\ pos >= 1
      /\ w_epoch \in Nat /\ w_epoch' \in Nat
  <2>1. w_epoch' \in {0, 1}
    BY ZenonT(30) DEF TypeOK
  <2> QED
    BY SMTT(30), <2>1, AddedMessage, TypeFacts
<1> HIDE DEF m
<1>1. CASE outgoing_messages_complete
  <2>1. /\ outgoing_messages' = <<m>> /\ ~timer' /\ ~outgoing_messages_complete'
        /\ num_timeouts' = 0
    BY ZenonT(30), <1>1 DEF add_outgoing, dtls1_stop_timer, m
  <2>2. /\ Len(outgoing_messages') = 1
        /\ \A i \in DOMAIN outgoing_messages' : outgoing_messages'[i] = m
        /\ outgoing_messages' # <<>>
    BY SMTT(30), <2>1
  <2>3. \A i \in pos' - 1 .. pos' - 1 : i = pos
    BY SMTT(30), <1>0
  <2>4. 1 < pos' /\ 0 <= DTLS1_MAX_TIMEOUTS
    BY SMTT(30), <1>0, TimerAssumption
  <2> QED
    BY ZenonT(30), <1>0, <2>1, <2>2, <2>3, <2>4
<1>2. CASE ~outgoing_messages_complete
  <2>1. /\ outgoing_messages' = Append(outgoing_messages, m)
        /\ UNCHANGED <<outgoing_messages_complete, timer, num_timeouts>>
        /\ ~timer /\ num_timeouts <= DTLS1_MAX_TIMEOUTS
    BY ZenonT(30), <1>2 DEF add_outgoing, clock, m, ScriptInv
  <2>2. /\ Len(outgoing_messages) \in Nat
        /\ Len(outgoing_messages') = Len(outgoing_messages) + 1
        /\ \A i \in 1 .. Len(outgoing_messages) :
              outgoing_messages'[i] = outgoing_messages[i]
        /\ outgoing_messages'[Len(outgoing_messages) + 1] = m
        /\ DOMAIN outgoing_messages' = 1 .. Len(outgoing_messages) + 1
        /\ DOMAIN outgoing_messages = 1 .. Len(outgoing_messages)
    BY SMTT(30), <1>0, <2>1, TypeFacts
  <2>3. outgoing_messages' # <<>>
    BY SMTT(30), <2>2
  <2>4. Len(outgoing_messages') < pos'
    BY SMTT(30), <1>0, <1>2, <2>2 DEF ScriptInv
  <2>5. ASSUME NEW i \in pos' - Len(outgoing_messages') .. pos' - 1
        PROVE  Script[i].op \in Items
    <3>1. i = pos \/ i \in pos - Len(outgoing_messages) .. pos - 1
      BY SMTT(30), <1>0, <2>2
    <3> QED
      BY ZenonT(30), <3>1, <1>2 DEF ScriptInv
  <2>6. ASSUME NEW i \in DOMAIN outgoing_messages'
        PROVE  outgoing_messages'[i].epoch <= w_epoch'
    <3>1. CASE i \in 1 .. Len(outgoing_messages)
      <4>1. /\ outgoing_messages'[i].epoch = outgoing_messages[i].epoch
            /\ outgoing_messages[i].epoch <= w_epoch
        BY ZenonT(30), <3>1, <2>2 DEF ScriptInv
      <4>2. outgoing_messages[i] \in OutgoingMessages
        BY SMTT(30), <3>1, TypeFacts
      <4>3. outgoing_messages[i].epoch \in Nat
        BY SMTT(30), <4>2 DEF OutgoingMessages
      <4> QED
        BY SMTT(30), <4>1, <4>3, <1>0
    <3>2. CASE i = Len(outgoing_messages) + 1
      BY ZenonT(30), <3>2, <2>2, <1>0
    <3> QED
      BY SMTT(30), <3>1, <3>2, <2>2
  <2> QED
    BY ZenonT(30), <2>1, <1>2, <2>3, <2>4, <2>5, <2>6
<1> QED
  BY ZenonT(30), <1>1, <1>2

\* A state machine that waits for the peer has no half-collected flight.
LEMMA NotCollecting ==
    ASSUME TypeOK, ScriptInv, status = "handshake", ~outgoing_messages_complete,
           pos \in Steps, Script[pos].op = "read"
    PROVE  outgoing_messages = <<>>
<1>1. SUFFICES ASSUME outgoing_messages # <<>>
               PROVE  FALSE
  BY ZenonT(30)
<1>2. Len(outgoing_messages) > 0 /\ Len(outgoing_messages) < pos
  BY SMTT(30), <1>1, TypeFacts DEF ScriptInv
<1>3. pos - 1 \in pos - Len(outgoing_messages) .. pos - 1 /\ pos - 1 \in 1 .. Len(Script)
  BY SMTT(30), <1>2, TypeFacts DEF Steps
<1>4. Script[pos - 1].op \in Items
  BY ZenonT(30), <1>3 DEF ScriptInv
<1>5. Script[(pos - 1) + 1].op \in Items \cup {"flush"}
  BY ZenonT(30), <1>3, <1>4, ScriptAssumption
<1>6. (pos - 1) + 1 = pos
  BY SMTT(30), TypeFacts
<1> QED
  BY ZenonT(30), <1>5, <1>6 DEF Items

\* Every step keeps the state machine in line with the flight and its timer.
LEMMA ScriptStep ==
    ASSUME BaseInv, Next, TypeOK'
    PROVE  ScriptInv'
<1> USE DEF BaseInv
<1>0. pos \in Nat /\ pos >= 1 /\ Len(outgoing_messages) \in Nat /\ Len(Script) \in Nat
  BY ZenonT(30), TypeFacts
<1>1. CASE dtls1_add_message
  <2>1. /\ status = "handshake" /\ phase' = "run" /\ UNCHANGED <<status, w_epoch>>
        /\ pos \in Steps /\ Script[pos].op \in Items /\ Script[pos].len \in Nat
        /\ add_outgoing(FALSE, Script[pos].len) /\ pos' = pos + 1
    BY ZenonT(30), <1>1, StepAt DEF dtls1_add_message, AtStep, Items
  <2>2. w_epoch <= w_epoch'
    BY SMTT(30), <2>1, TypeFacts
  <2>3. /\ \A i \in DOMAIN outgoing_messages' : outgoing_messages'[i].epoch <= w_epoch'
        /\ ~timer' /\ ~outgoing_messages_complete'
        /\ Len(outgoing_messages') < pos'
        /\ \A i \in pos' - Len(outgoing_messages') .. pos' - 1 : Script[i].op \in Items
        /\ outgoing_messages' # <<>>
        /\ num_timeouts' <= DTLS1_MAX_TIMEOUTS
    BY ZenonT(30), <2>1, <2>2, AddScript
  <2>4. w_epoch' = 1 => \E i \in 1 .. pos' - 1 : Script[i].op = "ccs"
    <3>1. w_epoch = 1 => \E i \in 1 .. pos - 1 : Script[i].op = "ccs"
      BY ZenonT(30) DEF ScriptInv
    <3>2. \A i \in 1 .. pos - 1 : i \in 1 .. pos' - 1
      BY SMTT(30), <1>0, <2>1
    <3> QED
      BY ZenonT(30), <2>1, <3>1, <3>2
  <2> QED
    BY ZenonT(30), <2>1, <2>3, <2>4 DEF ScriptInv
<1>2. CASE dtls1_add_change_cipher_spec
  <2>1. /\ status = "handshake" /\ phase' = "run" /\ UNCHANGED status
        /\ pos \in Steps /\ Script[pos].op = "ccs" /\ Script[pos].op \in Items
        /\ add_outgoing(TRUE, 0) /\ pos' = pos + 1 /\ w_epoch' = w_epoch + 1
    BY ZenonT(30), <1>2 DEF dtls1_add_change_cipher_spec, AtStep, Items
  <2>2. w_epoch <= w_epoch'
    BY SMTT(30), <2>1, TypeFacts
  <2>3. /\ \A i \in DOMAIN outgoing_messages' : outgoing_messages'[i].epoch <= w_epoch'
        /\ ~timer' /\ ~outgoing_messages_complete'
        /\ Len(outgoing_messages') < pos'
        /\ \A i \in pos' - Len(outgoing_messages') .. pos' - 1 : Script[i].op \in Items
        /\ outgoing_messages' # <<>>
        /\ num_timeouts' <= DTLS1_MAX_TIMEOUTS
    BY ZenonT(30), <2>1, <2>2, AddScript
  <2>4. \E i \in 1 .. pos' - 1 : Script[i].op = "ccs"
    <3>1. pos \in 1 .. pos' - 1
      BY SMTT(30), <1>0, <2>1
    <3> QED
      BY ZenonT(30), <2>1, <3>1
  <2> QED
    BY ZenonT(30), <2>1, <2>3, <2>4 DEF ScriptInv
<1>3. CASE dtls1_next_message
  <2>1. /\ status = "handshake" /\ phase' = "run" /\ pos \in Steps /\ pos' = pos + 1
        /\ Script[pos].op = "read"
        /\ UNCHANGED <<status, outgoing_messages, outgoing_messages_complete, w_epoch,
                       num_timeouts, timer>>
    BY ZenonT(30), <1>3 DEF dtls1_next_message, AtStep, clock, sending
  <2>2. \A i \in 1 .. pos - 1 : i \in 1 .. pos' - 1
    BY SMTT(30), <1>0, <2>1
  <2>3. ASSUME ~outgoing_messages_complete
        PROVE  /\ outgoing_messages = <<>>
               /\ ~\E i \in 1 .. pos' - 1 : Script[i].op = "flush"
    <3>1. outgoing_messages = <<>>
      BY ZenonT(30), <2>1, <2>3, NotCollecting
    <3>2. \A i \in 1 .. pos - 1 : Script[i].op # "flush"
      BY ZenonT(30), <2>1, <2>3, <3>1 DEF ScriptInv
    <3>3. \A i \in 1 .. pos' - 1 : i = pos \/ i \in 1 .. pos - 1
      BY SMTT(30), <1>0, <2>1
    <3> QED
      BY ZenonT(30), <2>1, <3>1, <3>2, <3>3
  <2>4. w_epoch' = 1 => \E i \in 1 .. pos' - 1 : Script[i].op = "ccs"
    BY ZenonT(30), <2>1, <2>2 DEF ScriptInv
  <2>5. ASSUME ~outgoing_messages_complete'
        PROVE  /\ Len(outgoing_messages') < pos'
               /\ \A i \in pos' - Len(outgoing_messages') .. pos' - 1 : Script[i].op \in Items
               /\ (\E i \in 1 .. pos' - 1 : Script[i].op = "flush")
                     => outgoing_messages' # <<>>
    <3>1. Len(outgoing_messages') = 0 /\ ~\E i \in 1 .. pos' - 1 : Script[i].op = "flush"
      BY ZenonT(30), <2>1, <2>3, <2>5
    <3>2. \A i \in pos' - Len(outgoing_messages') .. pos' - 1 : FALSE
      BY SMTT(30), <3>1, <1>0, <2>1
    <3> QED
      BY SMTT(30), <3>1, <3>2, <1>0, <2>1
  <2> QED
    BY ZenonT(30), <2>1, <2>4, <2>5 DEF ScriptInv
<1>4. CASE dtls1_on_handshake_complete
  <2>1. /\ status' = "done" /\ phase' = "run" /\ timer' = FALSE /\ num_timeouts' = 0
        /\ UNCHANGED <<pos, w_epoch>>
        /\ outgoing_messages' = <<>> \/ outgoing_messages' = outgoing_messages
    BY ZenonT(30), <1>4 DEF dtls1_on_handshake_complete, dtls1_stop_timer, dtls_clear_outgoing_messages
  <2>2. \A i \in DOMAIN outgoing_messages' : outgoing_messages'[i].epoch <= w_epoch'
    BY SMTT(30), <2>1 DEF ScriptInv
  <2>3. 0 <= DTLS1_MAX_TIMEOUTS
    BY SMTT(30), TimerAssumption
  <2> QED
    BY ZenonT(30), <2>1, <2>2, <2>3 DEF ScriptInv
<1>5. CASE dtls1_flush_flight
  <2>1. /\ status = "handshake" /\ pos \in Steps /\ Script[pos].op = "flush"
        /\ outgoing_messages_complete' = TRUE /\ timer' = TRUE
        /\ UNCHANGED <<pos, status, outgoing_messages, w_epoch, num_timeouts>>
    BY ZenonT(30), <1>5 DEF dtls1_flush_flight, AtStep
  <2> QED
    BY ZenonT(30), <2>1 DEF ScriptInv
<1>6. CASE DTLSv1_handle_timeout \/ dtls1_open_app_data
  <2>1. /\ phase = "run" /\ num_timeouts' = num_timeouts + 1
        /\ UNCHANGED <<pos, outgoing_messages, outgoing_messages_complete, w_epoch>>
        /\ status # "failed"
    BY ZenonT(30), <1>6 DEF DTLSv1_handle_timeout, dtls1_open_app_data, check_timeout_num, flight
  <2>2. CASE too_many_timeouts
    <3>1. status' = "failed" /\ phase' = "run" /\ UNCHANGED timer
      BY ZenonT(30), <1>6, <2>1, <2>2 DEF DTLSv1_handle_timeout, dtls1_open_app_data, sending
    <3> QED
      BY ZenonT(30), <2>1, <3>1 DEF ScriptInv
  <2>3. CASE ~too_many_timeouts
    <3>1. UNCHANGED status /\ timer' = timer
      BY ZenonT(30), <1>6, <2>3 DEF DTLSv1_handle_timeout, dtls1_open_app_data
    <3>2. \E who \in {"timeout", "finished"} : caller' = who
      <4>1. \E who \in {"timeout", "finished"} :
               send_flight(who, outgoing_written', outgoing_offset', mtu')
        BY ZenonT(30), <1>6, <2>3 DEF DTLSv1_handle_timeout, dtls1_open_app_data,
                          dtls1_retransmit_outgoing_messages
      <4> QED
        BY ZenonT(30), <4>1 DEF send_flight
    <3>3. num_timeouts' <= DTLS1_MAX_TIMEOUTS
      BY SMTT(30), <2>1, <2>3, TimerAssumption DEF too_many_timeouts, TypeOK
    <3> QED
      BY ZenonT(30), <2>1, <3>1, <3>2, <3>3 DEF ScriptInv
  <2> QED
    BY ZenonT(30), <2>2, <2>3
<1>7. CASE seal_next_message \/ packet_full \/ BIO_write \/ BIO_write_blocked
             \/ BIO_flush_blocked \/ SSL_set_mtu \/ SSL_shutdown \/ GaveUp
  <2>1. /\ UNCHANGED <<pos, status, outgoing_messages, outgoing_messages_complete, w_epoch,
                       num_timeouts, timer, caller>>
        /\ phase = "run" => phase' = "run"
    BY ZenonT(30), <1>7 DEF seal_next_message, packet_full, BIO_write, BIO_write_blocked,
                BIO_flush_blocked, SSL_set_mtu, SSL_shutdown, GaveUp, vars, flight, clock,
                sending, Return
  <2> QED
    BY ZenonT(30), <2>1 DEF ScriptInv
<1>8. CASE BIO_flush
  <2>1. /\ phase = "bio_flush" /\ phase' = "run"
        /\ pos' = IF caller = "flush" THEN pos + 1 ELSE pos
        /\ UNCHANGED <<status, outgoing_messages, outgoing_messages_complete, w_epoch,
                       num_timeouts, timer>>
    BY ZenonT(30), <1>8 DEF BIO_flush, Return, flight, clock
  <2>2. \A i \in 1 .. pos - 1 : i \in 1 .. pos' - 1
    BY SMTT(30), <1>0, <2>1
  <2>3. status = "handshake" => outgoing_messages_complete'
    BY ZenonT(30), <2>1 DEF SendInv
  <2>4. w_epoch' = 1 => \E i \in 1 .. pos' - 1 : Script[i].op = "ccs"
    BY ZenonT(30), <2>1, <2>2 DEF ScriptInv
  <2> QED
    BY ZenonT(30), <2>1, <2>3, <2>4 DEF ScriptInv
<1> QED
  BY ZenonT(30), <1>1, <1>2, <1>3, <1>4, <1>5, <1>6, <1>7, <1>8 DEF Next

\* The initial states satisfy the invariants.
LEMMA BaseInit ==
    ASSUME Init
    PROVE  BaseInv /\ CursorExact
<1>1. Script \in Seq([op : Ops, len : Nat]) /\ Len(Script) \in Nat
  BY SMTT(30), ScriptAssumption
<1>2. TypeOK
  <2>1. <<>> \in Seq(OutgoingMessages) /\ Len(<<>>) = 0
    OBVIOUS
  <2>2. [written |-> 0, offset |-> 0] \in [written : Nat, offset : Nat]
    BY ZenonT(30)
  <2>3. /\ 1 \in 1 .. Len(Script) + 1 /\ 0 \in 0 .. DTLS1_MAX_TIMEOUTS + 1
        /\ InitialDuration \in 1 .. MaxDuration
    BY SMTT(30), <1>1, TimerAssumption
  <2>4. outgoing_written \in 0 .. Len(outgoing_messages)
    BY SMTT(30), <2>1 DEF Init
  <2>5. outgoing_messages \in Seq(OutgoingMessages) /\ outgoing_offset \in Nat
    BY ZenonT(30), <2>1 DEF Init
  <2>6. old \in [written : Nat, offset : Nat] /\ room \in Int
    BY SMTT(30), <2>2 DEF Init
  <2>7. /\ pos \in 1 .. Len(Script) + 1 /\ num_timeouts \in 0 .. DTLS1_MAX_TIMEOUTS + 1
        /\ timeout_duration_ms \in 1 .. MaxDuration
    BY ZenonT(30), <2>3 DEF Init
  <2>8. /\ packet \subseteq Fragments /\ on_wire \subseteq Fragments /\ mtu \in Mtus
        /\ w_epoch \in {0, 1}
    BY ZenonT(30) DEF Init
  <2>9. /\ outgoing_messages_complete = FALSE /\ flight_has_reply = FALSE /\ timer = FALSE
        /\ write_shutdown = FALSE /\ status = "handshake" /\ phase = "run"
        /\ caller = "none" /\ result = "none"
    BY ZenonT(30) DEF Init
  <2> QED
    BY ZenonT(30), <2>4, <2>5, <2>6, <2>7, <2>8, <2>9 DEF TypeOK
<1>3. SendInv /\ PacketFits
  BY SMTT(30) DEF Init, SendInv, PacketFits, Position
<1>4. ScriptInv
  BY SMTT(30), TimerAssumption DEF Init, ScriptInv
<1>5. CursorExact
  BY ZenonT(30), <1>2, NothingSent DEF Init, CursorExact, TypeOK
<1> QED
  BY ZenonT(30), <1>2, <1>3, <1>4, <1>5 DEF BaseInv

\* Every step, a stutter included, keeps the basic invariant.
LEMMA BaseStep ==
    ASSUME BaseInv, [Next]_vars
    PROVE  BaseInv'
<1>1. CASE Next
  <2>1. TypeOK'
    BY ZenonT(30), <1>1, TypeStep
  <2> QED
    BY ZenonT(30), <1>1, <2>1, SendStep, ScriptStep DEF BaseInv
<1>2. CASE UNCHANGED vars
  <2>1. /\ UNCHANGED <<pos, status, mtu, write_shutdown, on_wire>>
        /\ UNCHANGED <<outgoing_messages, outgoing_messages_complete, flight_has_reply, w_epoch>>
        /\ UNCHANGED <<outgoing_written, outgoing_offset, num_timeouts, timeout_duration_ms, timer>>
        /\ UNCHANGED <<phase, caller, old, room, packet, result>>
    BY ZenonT(30), <1>2 DEF vars, flight, cursor, clock, sending
  <2>2. TypeOK'
    BY SMTT(30), <2>1 DEF BaseInv, TypeOK
  <2>3. SendInv'
    BY <2>1, Zenon DEF BaseInv, SendInv, Position
  <2>4. ScriptInv'
    BY <2>1, Zenon DEF BaseInv, ScriptInv
  <2>5. PacketFits'
    BY <2>1, Zenon DEF BaseInv, PacketFits, Position
  <2> QED
    BY ZenonT(30), <2>2, <2>3, <2>4, <2>5 DEF BaseInv
<1> QED
  BY ZenonT(30), <1>1, <1>2

\* Every step keeps the cursor exact.
LEMMA CursorStep ==
    ASSUME BaseInv, CursorExact, Next, BaseInv'
    PROVE  CursorExact'
<1> USE DEF BaseInv
<1> DEFINE Exact(S, w, o) == ExactlyUpTo(outgoing_messages, S, w, o)
<1>0. outgoing_messages \in Seq(OutgoingMessages) /\ outgoing_messages' \in Seq(OutgoingMessages)
  BY ZenonT(30) DEF TypeOK
<1>1. CASE dtls1_add_message \/ dtls1_add_change_cipher_spec
  <2>1. phase = "run" /\ phase' = "run"
    BY ZenonT(30), <1>1 DEF dtls1_add_message, dtls1_add_change_cipher_spec, AtStep
  <2>2. PICK is_ccs \in BOOLEAN, len \in Nat : add_outgoing(is_ccs, len)
    BY ZenonT(30), <1>1, StepAt DEF dtls1_add_message, dtls1_add_change_cipher_spec, AtStep
  <2>3. CASE outgoing_messages_complete
    <3>1. on_wire' = {} /\ outgoing_written' = 0 /\ outgoing_offset' = 0
      BY ZenonT(30), <2>2, <2>3 DEF add_outgoing
    <3> QED
      BY ZenonT(30), <1>0, <2>1, <3>1, NothingSent DEF CursorExact
  <2>4. CASE ~outgoing_messages_complete
    <3>1. /\ outgoing_messages' = Append(outgoing_messages, new_message(is_ccs, len))
          /\ UNCHANGED <<outgoing_written, outgoing_offset, on_wire>>
      BY ZenonT(30), <2>2, <2>4 DEF add_outgoing, cursor
    <3>2. /\ ExactlyUpTo(outgoing_messages, on_wire, outgoing_written, outgoing_offset)
          /\ outgoing_written \in 0 .. Len(outgoing_messages) /\ outgoing_offset \in Nat
          /\ outgoing_written = Len(outgoing_messages) => outgoing_offset = 0
          /\ on_wire \in SUBSET Fragments
      <4>1. ExactlyUpTo(outgoing_messages, on_wire, outgoing_written, outgoing_offset)
        BY ZenonT(30), <2>1 DEF CursorExact
      <4>2. /\ outgoing_written \in 0 .. Len(outgoing_messages) /\ outgoing_offset \in Nat
            /\ on_wire \in SUBSET Fragments
        BY ZenonT(30) DEF TypeOK
      <4>3. outgoing_written = Len(outgoing_messages) => outgoing_offset = 0
        BY SMTT(30), <4>2, TypeFacts DEF SendInv, Position
      <4> QED
        BY ZenonT(30), <4>1, <4>2, <4>3
    <3>3. ExactlyUpTo(Append(outgoing_messages, new_message(is_ccs, len)), on_wire,
                      outgoing_written, outgoing_offset)
      BY ZenonT(30), <1>0, <3>2, AddedMessage, AppendKeeps
    <3> QED
      BY ZenonT(30), <2>1, <3>1, <3>3 DEF CursorExact
  <2> QED
    BY ZenonT(30), <2>3, <2>4
<1>2. CASE dtls1_next_message \/ SSL_shutdown \/ GaveUp \/ SSL_set_mtu \/ packet_full
             \/ BIO_flush \/ BIO_flush_blocked
  <2>1. /\ UNCHANGED <<outgoing_messages, outgoing_written, outgoing_offset, on_wire>>
        /\ \/ UNCHANGED <<phase, packet, old>>
           \/ phase = "bio_flush" /\ phase' = "run"
           \/ phase = "seal" /\ phase' = "write" /\ UNCHANGED <<packet, old>>
    BY ZenonT(30), <1>2 DEF dtls1_next_message, SSL_shutdown, GaveUp, SSL_set_mtu, packet_full, BIO_flush,
                BIO_flush_blocked, Return, vars, flight, cursor, clock, sending
  <2> QED
    BY ZenonT(30), <2>1 DEF CursorExact
<1>3. CASE dtls1_on_handshake_complete
  <2>1. phase = "run" /\ phase' = "run"
    BY ZenonT(30), <1>3 DEF dtls1_on_handshake_complete
  <2>2. CASE flight_has_reply
    <3>1. on_wire' = {} /\ outgoing_written' = 0 /\ outgoing_offset' = 0
      BY ZenonT(30), <1>3, <2>2 DEF dtls1_on_handshake_complete, dtls_clear_outgoing_messages
    <3> QED
      BY ZenonT(30), <1>0, <2>1, <3>1, NothingSent DEF CursorExact
  <2>3. CASE ~flight_has_reply
    <3>1. UNCHANGED <<outgoing_messages, outgoing_written, outgoing_offset, on_wire>>
      BY ZenonT(30), <1>3, <2>3 DEF dtls1_on_handshake_complete, cursor
    <3> QED
      BY ZenonT(30), <2>1, <3>1 DEF CursorExact
  <2> QED
    BY ZenonT(30), <2>2, <2>3
<1>4. ASSUME UNCHANGED outgoing_messages, phase' # "write",
             phase' = "seal" => /\ old' = [written |-> outgoing_written',
                                           offset |-> outgoing_offset']
                                /\ packet' = {},
             Exact(on_wire', outgoing_written', outgoing_offset')
      PROVE  CursorExact'
  <2>1. ExactlyUpTo(outgoing_messages, on_wire, outgoing_written, outgoing_offset)'
    BY ZenonT(30), <1>4
  <2>2. phase' = "seal" => /\ old'.written = outgoing_written' /\ old'.offset = outgoing_offset'
                           /\ on_wire' \cup packet' = on_wire'
    BY SMTT(30), <1>4
  <2> QED
    BY ZenonT(30), <1>4, <2>1, <2>2 DEF CursorExact
<1>5. CASE dtls1_flush_flight
  <2>1. /\ phase = "run" /\ UNCHANGED <<outgoing_messages, outgoing_written, outgoing_offset,
                                        on_wire>>
        /\ send_flight("flush", outgoing_written, outgoing_offset, mtu)
    BY ZenonT(30), <1>5 DEF dtls1_flush_flight, AtStep, cursor
  <2>2. outgoing_written \in Nat /\ outgoing_offset \in Nat /\ mtu \in Nat
    BY SMTT(30), MtuAssumption DEF TypeOK
  <2>3. /\ phase' \in {"run", "seal", "bio_flush"}
        /\ phase' = "seal" => /\ old' = [written |-> outgoing_written,
                                         offset |-> outgoing_offset]
                              /\ packet' = {}
    BY ZenonT(30), <2>1, <2>2, SendFlightStarts
  <2>4. Exact(on_wire, outgoing_written, outgoing_offset)
    BY ZenonT(30), <2>1 DEF CursorExact
  <2> QED
    BY ZenonT(30), <2>1, <2>3, <2>4, <1>4
<1>6. CASE DTLSv1_handle_timeout \/ dtls1_open_app_data
  <2>1. phase = "run" /\ UNCHANGED outgoing_messages
    BY ZenonT(30), <1>6 DEF DTLSv1_handle_timeout, dtls1_open_app_data, flight
  <2>2. CASE too_many_timeouts
    <3>1. UNCHANGED <<outgoing_written, outgoing_offset, phase, on_wire>>
      BY ZenonT(30), <1>6, <2>2 DEF DTLSv1_handle_timeout, dtls1_open_app_data, cursor, sending
    <3> QED
      BY ZenonT(30), <2>1, <3>1 DEF CursorExact
  <2>3. CASE ~too_many_timeouts
    <3>1. /\ outgoing_written' = 0 /\ outgoing_offset' = 0 /\ on_wire' = {}
          /\ \E who \in {"timeout", "finished"} :
                send_flight(who, outgoing_written', outgoing_offset', mtu')
      BY ZenonT(30), <1>6, <2>3 DEF DTLSv1_handle_timeout, dtls1_open_app_data,
                        dtls1_retransmit_outgoing_messages, rewind
    <3>2. mtu' \in Nat /\ outgoing_written' \in Nat /\ outgoing_offset' \in Nat
      BY ZenonT(30), <3>1, MtuAssumption DEF TypeOK
    <3>3. /\ phase' \in {"run", "seal", "bio_flush"}
          /\ phase' = "seal" => /\ old' = [written |-> outgoing_written',
                                           offset |-> outgoing_offset']
                                /\ packet' = {}
      BY ZenonT(30), <2>1, <3>1, <3>2, SendFlightStarts
    <3>4. Exact(on_wire', outgoing_written', outgoing_offset')
      BY ZenonT(30), <1>0, <3>1, NothingSent
    <3> QED
      BY ZenonT(30), <2>1, <3>3, <3>4, <1>4
  <2> QED
    BY ZenonT(30), <2>2, <2>3
<1>7. CASE seal_next_message
  <2>1. /\ phase = "seal" /\ outgoing_written < Len(outgoing_messages) /\ room >= min_room
        /\ UNCHANGED <<outgoing_messages, old, on_wire>>
    BY ZenonT(30), <1>7 DEF seal_next_message, flight
  <2> DEFINE S == on_wire \cup packet
             w == outgoing_written
             o == outgoing_offset
  <2>2. /\ Exact(on_wire, old.written, old.offset) /\ Exact(S, w, o)
        /\ w \in 0 .. Len(outgoing_messages) - 1 /\ o \in Nat /\ S \in SUBSET Fragments
    <3>1. Exact(on_wire, old.written, old.offset) /\ Exact(S, w, o)
      BY ZenonT(30), <2>1 DEF CursorExact
    <3>2. w \in 0 .. Len(outgoing_messages) /\ o \in Nat /\ S \in SUBSET Fragments
      BY ZenonT(30) DEF TypeOK
    <3> QED
      BY SMTT(30), <2>1, <3>1, <3>2, TypeFacts
  <2>3. /\ msg \in OutgoingMessages
        /\ msg.is_ccs => o = 0 /\ msg.len = 0
        /\ ~msg.is_ccs => todo \in Nat /\ o + todo <= msg.len
    BY ZenonT(30), <2>1, TodoBounds
  <2>4. msg.len \in Nat /\ msg = outgoing_messages[w + 1]
    BY ZenonT(30), <2>3 DEF OutgoingMessages, msg
  <2>5. ASSUME NEW t \in Nat, o + t <= msg.len
        PROVE  /\ Exact(S \cup {fragment(t)}, w, o + t)
               /\ o + t = msg.len => Exact(S \cup {fragment(t)}, w + 1, 0)
    <3>1. fragment(t) = [msg |-> w, off |-> o, len |-> t, epoch |-> outgoing_messages[w + 1].epoch]
      BY ZenonT(30), <2>4 DEF fragment
    <3> QED
      BY ZenonT(30), <1>0, <2>2, <2>4, <2>5, <3>1, SealMoves
  <2>6. Exact(on_wire \cup packet', outgoing_written', outgoing_offset')
    <3>1. CASE seal_ccs
      <4>1. /\ msg.is_ccs /\ packet' = packet \cup {fragment(0)}
            /\ outgoing_written' = w + 1 /\ outgoing_offset' = o
        BY ZenonT(30), <3>1 DEF seal_ccs
      <4>2. o = 0 /\ msg.len = 0
        BY ZenonT(30), <2>3, <4>1
      <4>3. Exact(S \cup {fragment(0)}, w + 1, 0)
        BY SMTT(30), <2>5, <4>2
      <4>4. on_wire \cup packet' = S \cup {fragment(0)}
        BY ZenonT(30), <4>1
      <4> QED
        BY ZenonT(30), <4>1, <4>2, <4>3, <4>4
    <3>2. CASE seal_whole
      <4>1. /\ ~msg.is_ccs /\ packet' = packet \cup {fragment(todo)}
            /\ outgoing_written' = w + 1 /\ outgoing_offset' = 0
            /\ todo = msg.len - o
        BY ZenonT(30), <3>2 DEF seal_whole
      <4>2. todo \in Nat /\ o + todo = msg.len
        BY SMTT(30), <2>2, <2>3, <2>4, <4>1
      <4>3. Exact(S \cup {fragment(todo)}, w + 1, 0)
        BY ZenonT(30), <2>3, <2>5, <4>1, <4>2
      <4>4. on_wire \cup packet' = S \cup {fragment(todo)}
        BY ZenonT(30), <4>1
      <4> QED
        BY ZenonT(30), <4>1, <4>3, <4>4
    <3>3. CASE seal_part
      <4>1. /\ ~msg.is_ccs /\ packet' = packet \cup {fragment(todo)}
            /\ outgoing_written' = w /\ outgoing_offset' = o + todo
        BY ZenonT(30), <3>3 DEF seal_part
      <4>2. Exact(S \cup {fragment(todo)}, w, o + todo)
        BY ZenonT(30), <2>3, <2>5, <4>1
      <4>3. on_wire \cup packet' = S \cup {fragment(todo)}
        BY ZenonT(30), <4>1
      <4> QED
        BY ZenonT(30), <4>1, <4>2, <4>3
    <3> QED
      BY ZenonT(30), <1>7, <3>1, <3>2, <3>3 DEF seal_next_message
  <2>7. phase' \in {"seal", "write"}
    BY ZenonT(30), <1>7, <2>1 DEF seal_next_message, seal_ccs, seal_whole, seal_part
  <2> QED
    BY ZenonT(30), <2>1, <2>2, <2>6, <2>7 DEF CursorExact
<1>8. CASE BIO_write
  <2>1. /\ phase = "write" /\ on_wire' = on_wire \cup packet
        /\ next_packet(outgoing_written, outgoing_offset, mtu)
        /\ UNCHANGED <<outgoing_messages, outgoing_written, outgoing_offset>>
    BY ZenonT(30), <1>8 DEF BIO_write, flight, cursor
  <2>2. Exact(on_wire', outgoing_written', outgoing_offset')
    BY ZenonT(30), <2>1 DEF CursorExact
  <2>3. /\ phase' \in {"seal", "bio_flush"}
        /\ phase' = "seal" => /\ old' = [written |-> outgoing_written',
                                         offset |-> outgoing_offset']
                              /\ packet' = {}
    BY ZenonT(30), <2>1 DEF next_packet
  <2> QED
    BY ZenonT(30), <2>1, <2>2, <2>3, <1>4
<1>9. CASE BIO_write_blocked
  <2>1. /\ phase = "write" /\ phase' = "run"
        /\ outgoing_written' = old.written /\ outgoing_offset' = old.offset
        /\ UNCHANGED <<outgoing_messages, on_wire>>
    BY ZenonT(30), <1>9 DEF BIO_write_blocked, Return, flight
  <2>2. Exact(on_wire', outgoing_written', outgoing_offset')
    BY ZenonT(30), <2>1 DEF CursorExact
  <2> QED
    BY ZenonT(30), <2>1, <2>2, <1>4
<1> QED
  BY ZenonT(30), <1>1, <1>2, <1>3, <1>5, <1>6, <1>7, <1>8, <1>9 DEF Next

\* A flush stands behind the message it sends, so right before one there is no
\* earlier flush and no read.
LEMMA FlushFollows ==
    ASSUME NEW f \in Steps, NEW q \in Steps, f <= q, Script[f].op = "flush",
           Script[q].op = "flush", \A j \in f + 1 .. q - 1 : Script[j].op = "read"
    PROVE  f = q
<1> SUFFICES ASSUME f < q PROVE FALSE
  BY SMTT(30) DEF Steps
<1>1. Len(Script) \in Nat
  BY SMTT(30), ScriptAssumption
<1>2. Script[q - 1].op \in Items
  BY ZenonT(30), ScriptAssumption DEF Steps
<1>3. q - 1 = f \/ q - 1 \in f + 1 .. q - 1
  BY SMTT(30), <1>1 DEF Steps
<1> QED BY ZenonT(30), <1>2, <1>3 DEF Items

\* The messages before the next step, when a message is added: those of the
\* flight so far and the new one, or the new one alone.
LEMMA AddKept ==
    ASSUME TypeOK, KeptInv, status = "handshake", pos \in Steps,
           NEW is_ccs \in BOOLEAN, add_outgoing(is_ccs, Script[pos].len),
           Script[pos].op \in Items, is_ccs <=> Script[pos].op = "ccs",
           pos' = pos + 1
    PROVE  FlightBefore(pos)' /\ ~outgoing_messages_complete' /\ ~flight_has_reply'
<1> DEFINE m == new_message(is_ccs, Script[pos].len)
           n == Len(outgoing_messages)
<1>0. /\ Len(Script) \in Nat /\ pos \in 1 .. Len(Script) /\ n \in Nat
      /\ DOMAIN outgoing_messages = 1 .. n
  <2>1. Len(Script) \in Nat /\ pos \in 1 .. Len(Script)
    BY SMTT(30), ScriptAssumption DEF Steps
  <2>2. n \in Nat /\ DOMAIN outgoing_messages = 1 .. n
    BY SMTT(30) DEF TypeOK
  <2> QED BY ZenonT(30), <2>1, <2>2
<1>m. m.len = Script[pos].len /\ m.is_ccs = (Script[pos].op = "ccs")
  BY ZenonT(30) DEF new_message
<1> HIDE DEF m
<1>1. CASE outgoing_messages_complete
  <2>1. outgoing_messages' = <<m>> /\ ~outgoing_messages_complete' /\ ~flight_has_reply'
    BY ZenonT(30), <1>1 DEF add_outgoing, m
  <2>2. PICK f \in Steps : /\ f <= pos /\ Script[f].op = "flush"
                           /\ \A j \in f + 1 .. pos - 1 : Script[j].op = "read"
    BY ZenonT(30), <1>1 DEF KeptInv
  <2>3. f \in 1 .. Len(Script) /\ f # pos
    BY ZenonT(30), <2>2 DEF Steps, Items
  <2>4. Script[pos - 1].op \notin Items
    <3>1. pos - 1 = f \/ pos - 1 \in f + 1 .. pos - 1
      BY SMTT(30), <2>2, <2>3, <1>0
    <3> QED BY ZenonT(30), <2>2, <3>1 DEF Items
  <2>5. ASSUME NEW i \in Steps, i < pos + 1, \A j \in i .. pos : Script[j].op \in Items
        PROVE  i = pos
    <3>1. i < pos => pos - 1 \in i .. pos
      BY SMTT(30), <1>0, <2>5 DEF Steps
    <3> QED BY SMTT(30), <2>4, <2>5, <3>1, <1>0 DEF Steps
  <2>6. ASSUME NEW i \in Steps, i < pos', \A j \in i .. pos' - 1 : Script[j].op \in Items,
               NEW k, k = Len(outgoing_messages') - (pos' - 1 - i)
        PROVE  /\ k \in DOMAIN outgoing_messages'
               /\ outgoing_messages'[k].len = Script[i].len
               /\ outgoing_messages'[k].is_ccs = (Script[i].op = "ccs")
    <3>1. pos' - 1 = pos
      BY SMTT(30), <1>0
    <3>2. i = pos
      BY ZenonT(30), <2>5, <2>6, <3>1
    <3>3. Len(<<m>>) = 1 /\ 1 \in DOMAIN <<m>> /\ <<m>>[1] = m
      OBVIOUS
    <3>4. k = 1
      BY SMTT(30), <2>1, <2>6, <3>1, <3>2, <3>3, <1>0
    <3> QED BY ZenonT(30), <2>1, <3>2, <3>3, <3>4, <1>m
  <2> QED BY ZenonT(30), <2>1, <2>6 DEF FlightBefore
<1>2. CASE ~outgoing_messages_complete
  <2>1. /\ outgoing_messages' = Append(outgoing_messages, m)
        /\ ~outgoing_messages_complete' /\ ~flight_has_reply'
    BY SMTT(30), <1>2 DEF add_outgoing, m, KeptInv
  <2>2. PICK new : new = Append(outgoing_messages, m)
    BY ZenonT(30)
  <2>3. /\ Len(new) = n + 1 /\ DOMAIN new = 1 .. n + 1 /\ new[n + 1] = m
        /\ \A k \in 1 .. n : new[k] = outgoing_messages[k]
    BY SMTT(30), <2>2 DEF TypeOK
  <2>4. FlightBefore(pos)
    BY ZenonT(30), <1>2 DEF KeptInv
  <2>5. ASSUME NEW i \in Steps, i < pos', \A j \in i .. pos' - 1 : Script[j].op \in Items,
               NEW k, k = Len(new) - (pos' - 1 - i)
        PROVE  /\ k \in DOMAIN new /\ new[k].len = Script[i].len
               /\ new[k].is_ccs = (Script[i].op = "ccs")
    <3>1. CASE i = pos
      <4>1. k = n + 1 /\ k \in 1 .. n + 1
        BY SMTT(30), <3>1, <2>3, <2>5, <1>0
      <4> QED BY ZenonT(30), <4>1, <3>1, <2>3, <1>m
    <3>2. CASE i # pos
      <4>1. i < pos /\ k = n - (pos - 1 - i)
        <5>1. k = (n + 1) - (pos' - 1 - i) /\ i < pos' /\ i \in 1 .. Len(Script)
          BY Zenon, <2>3, <2>5 DEF Steps
        <5> QED BY SMTT(30), <5>1, <3>2, <1>0
      <4>2. \A j \in i .. pos - 1 : Script[j].op \in Items
        BY SMTT(30), <2>5, <1>0 DEF Steps
      <4>3. /\ k \in 1 .. n /\ outgoing_messages[k].len = Script[i].len
            /\ outgoing_messages[k].is_ccs = (Script[i].op = "ccs")
        BY ZenonT(30), <4>1, <4>2, <2>4, <1>0 DEF FlightBefore
      <4>4. k \in 1 .. n + 1 /\ new[k] = outgoing_messages[k]
        BY SMTT(30), <4>3, <2>3, <1>0
      <4> QED BY ZenonT(30), <4>3, <4>4, <2>3
    <3> QED BY ZenonT(30), <3>1, <3>2
  <2> QED BY ZenonT(30), <2>1, <2>2, <2>5 DEF FlightBefore
<1> QED BY ZenonT(30), <1>1, <1>2 DEF TypeOK

\* Every step keeps the flight for as long as it may have to be sent again.
LEMMA KeptStep ==
    ASSUME BaseInv, KeptInv, [Next]_vars
    PROVE  KeptInv'
<1> USE DEF BaseInv
<1>0. /\ Len(Script) \in Nat /\ pos \in 1 .. Len(Script) + 1
  BY SMTT(30), ScriptAssumption DEF TypeOK
\* What happens inside send_flight and between the flights changes none of it.
<1>1. ASSUME pos' = pos, outgoing_messages' = outgoing_messages,
             outgoing_messages_complete' = outgoing_messages_complete,
             flight_has_reply' = flight_has_reply,
             status' = status \/ status' = "failed"
      PROVE  KeptInv'
  <2>1. \A f : FlightBefore(f)' <=> FlightBefore(f)
    BY ZenonT(30), <1>1 DEF FlightBefore
  <2> QED BY ZenonT(30), <1>1, <2>1 DEF KeptInv, UnansweredFlightKept
<1>2. CASE dtls1_add_message
  <2>1. /\ status = "handshake" /\ status' = status /\ pos \in Steps
        /\ Script[pos].op = "msg" /\ pos' = pos + 1
        /\ add_outgoing(FALSE, Script[pos].len)
    BY ZenonT(30), <1>2 DEF dtls1_add_message, AtStep
  <2>2. FlightBefore(pos)' /\ ~outgoing_messages_complete' /\ ~flight_has_reply'
    BY ZenonT(30), <2>1, AddKept DEF Items
  <2> QED BY ZenonT(30), <2>1, <2>2 DEF KeptInv, UnansweredFlightKept
<1>3. CASE dtls1_add_change_cipher_spec
  <2>1. /\ status = "handshake" /\ status' = status /\ pos \in Steps
        /\ Script[pos].op = "ccs" /\ pos' = pos + 1 /\ add_outgoing(TRUE, 0)
    BY ZenonT(30), <1>3 DEF dtls1_add_change_cipher_spec, AtStep
  <2>2. Script[pos].len = 0
    BY ZenonT(30), <2>1, ScriptAssumption DEF Steps
  <2>3. FlightBefore(pos)' /\ ~outgoing_messages_complete' /\ ~flight_has_reply'
    BY ZenonT(30), <2>1, <2>2, AddKept DEF Items
  <2> QED BY ZenonT(30), <2>1, <2>3 DEF KeptInv, UnansweredFlightKept
\* A message read answers the flight that was sent.
<1>4. CASE dtls1_next_message
  <2>1. /\ status = "handshake" /\ status' = status /\ pos \in Steps
        /\ Script[pos].op = "read" /\ pos' = pos + 1
        /\ flight_has_reply' = (flight_has_reply \/ outgoing_messages_complete)
        /\ outgoing_messages' = outgoing_messages
        /\ outgoing_messages_complete' = outgoing_messages_complete
    BY ZenonT(30), <1>4 DEF dtls1_next_message, AtStep
  <2>2. \A f : FlightBefore(f)' <=> FlightBefore(f)
    BY ZenonT(30), <2>1 DEF FlightBefore
  <2>3. CASE outgoing_messages_complete
    <3>1. PICK f \in Steps : /\ f <= pos /\ Script[f].op = "flush" /\ FlightBefore(f)
                             /\ \A j \in f + 1 .. pos - 1 : Script[j].op = "read"
      BY ZenonT(30), <2>1, <2>3 DEF KeptInv
    <3>2. f \in Nat /\ f < pos
      BY SMTT(30), <3>1, <2>1, <1>0 DEF Steps
    <3>3. f <= pos + 1 /\ f + 1 < pos + 1
      BY SMTT(30), <3>2, <1>0
    <3>4. \A j \in f + 1 .. pos + 1 - 1 : Script[j].op = "read"
      BY SMTT(30), <3>1, <3>2, <2>1, <1>0
    <3>5. FlightBefore(f)'
      BY ZenonT(30), <2>2, <3>1
    <3>6. f <= pos' /\ f + 1 < pos' /\ \A j \in f + 1 .. pos' - 1 : Script[j].op = "read"
      <4>1. pos' = pos + 1
        BY ZenonT(30), <2>1
      <4>2. f + 1 .. pos' - 1 = f + 1 .. pos + 1 - 1
        BY SMTT(30), <4>1, <3>2, <1>0
      <4> QED BY ZenonT(30), <3>3, <3>4, <4>1, <4>2
    <3>7. flight_has_reply'
      BY ZenonT(30), <2>1, <2>3
    <3> QED BY ZenonT(30), <3>1, <3>5, <3>6, <3>7, <2>1, <2>3 DEF KeptInv, UnansweredFlightKept
  <2>4. CASE ~outgoing_messages_complete
    <3>1. FlightBefore(pos)'
      <4>1. \A i \in Steps : i < pos + 1 => pos \in i .. pos + 1 - 1
        BY SMTT(30), <1>0 DEF Steps
      <4> QED BY SMTT(30), <4>1, <2>1 DEF FlightBefore, Items
    <3> QED BY ZenonT(30), <3>1, <2>1, <2>4 DEF KeptInv, UnansweredFlightKept, TypeOK
  <2> QED BY ZenonT(30), <2>3, <2>4
\* A flush completes the flight that was collected right before it.
<1>5. CASE dtls1_flush_flight
  <2>1. /\ status = "handshake" /\ status' = status /\ pos \in Steps
        /\ Script[pos].op = "flush" /\ pos' = pos
        /\ flight_has_reply' = flight_has_reply
        /\ outgoing_messages' = outgoing_messages /\ outgoing_messages_complete'
    BY ZenonT(30), <1>5 DEF dtls1_flush_flight, AtStep
  <2>2. FlightBefore(pos) /\ ~flight_has_reply
    <3>1. CASE outgoing_messages_complete
      <4>1. PICK f \in Steps : /\ f <= pos /\ Script[f].op = "flush" /\ FlightBefore(f)
                               /\ \A j \in f + 1 .. pos - 1 : Script[j].op = "read"
                               /\ flight_has_reply <=> f + 1 < pos
        BY ZenonT(30), <2>1, <3>1 DEF KeptInv
      <4>2. f = pos
        BY ZenonT(30), <4>1, <2>1, FlushFollows
      <4>3. ~(pos + 1 < pos)
        BY SMTT(30), <1>0
      <4> QED BY ZenonT(30), <4>1, <4>2, <4>3
    <3>2. CASE ~outgoing_messages_complete
      BY ZenonT(30), <3>2, <2>1 DEF KeptInv
    <3> QED BY ZenonT(30), <3>1, <3>2
  <2>3. FlightBefore(pos)'
    BY ZenonT(30), <2>1, <2>2 DEF FlightBefore
  <2>4. /\ pos <= pos /\ ~(pos + 1 < pos)
        /\ \A j \in pos + 1 .. pos - 1 : Script[j].op = "read"
    BY SMTT(30), <1>0
  <2> QED BY ZenonT(30), <2>1, <2>2, <2>3, <2>4 DEF KeptInv, UnansweredFlightKept
\* The flight is out.
<1>6. CASE BIO_flush
  <2>1. /\ status' = status /\ outgoing_messages' = outgoing_messages
        /\ outgoing_messages_complete' = outgoing_messages_complete
        /\ flight_has_reply' = flight_has_reply
        /\ pos' = IF caller = "flush" THEN pos + 1 ELSE pos
        /\ phase = "bio_flush"
    BY ZenonT(30), <1>6 DEF BIO_flush, flight
  <2>2. CASE caller # "flush"
    BY ZenonT(30), <2>1, <2>2, <1>1
  <2>3. CASE caller = "flush"
    <3>1. status = "handshake" /\ pos \in Steps /\ Script[pos].op = "flush"
      BY ZenonT(30), <2>1, <2>3 DEF ScriptInv
    <3>2. outgoing_messages_complete
      BY ZenonT(30), <2>1, <3>1 DEF SendInv
    <3>3. PICK f \in Steps : /\ f <= pos /\ Script[f].op = "flush" /\ FlightBefore(f)
                             /\ \A j \in f + 1 .. pos - 1 : Script[j].op = "read"
                             /\ flight_has_reply <=> f + 1 < pos
      BY ZenonT(30), <3>1, <3>2 DEF KeptInv
    <3>4. f = pos
      BY ZenonT(30), <3>1, <3>3, FlushFollows
    <3>5. /\ pos <= pos + 1 /\ ~(pos + 1 < pos + 1) /\ ~(pos + 1 < pos)
          /\ \A j \in pos + 1 .. pos + 1 - 1 : Script[j].op = "read"
      BY SMTT(30), <1>0
    <3>6. FlightBefore(f)'
      BY ZenonT(30), <2>1, <3>3 DEF FlightBefore
    <3> QED BY SMTT(30), <3>1, <3>2, <3>3, <3>4, <3>5, <3>6, <2>1, <2>3 DEF KeptInv, UnansweredFlightKept
  <2> QED BY ZenonT(30), <2>2, <2>3
\* The handshake ends after the last flush and what was read since.
<1>7. CASE dtls1_on_handshake_complete
  <2>1. /\ status = "handshake" /\ status' = "done" /\ pos = Len(Script) + 1
        /\ \/ flight_has_reply /\ outgoing_messages' = <<>>
           \/ /\ ~flight_has_reply /\ outgoing_messages' = outgoing_messages
              /\ outgoing_messages_complete' = outgoing_messages_complete
    BY ZenonT(30), <1>7 DEF dtls1_on_handshake_complete, dtls_clear_outgoing_messages
  <2>2. outgoing_messages_complete
    <3> SUFFICES ASSUME ~outgoing_messages_complete PROVE FALSE
      BY ZenonT(30) DEF TypeOK
    <3>1. PICK n : n = Len(outgoing_messages)
      BY ZenonT(30)
    <3>2. /\ n \in Nat /\ n < pos /\ \A i \in pos - n .. pos - 1 : Script[i].op \in Items
          /\ outgoing_messages # <<>>
      <4>1. \E i \in 1 .. pos - 1 : Script[i].op = "flush"
        BY SMTT(30), <2>1, <1>0, ScriptAssumption
      <4> QED BY SMTT(30), <4>1, <3>1, <2>1 DEF ScriptInv, TypeOK
    <3>3. n > 0
      BY SMTT(30), <3>1, <3>2 DEF TypeOK
    <3>4. Len(Script) \in pos - n .. pos - 1 /\ Len(Script) \in 1 .. Len(Script)
      BY SMTT(30), <3>2, <3>3, <2>1, <1>0
    <3>5. Script[Len(Script)].op \in Items
      BY ZenonT(30), <3>2, <3>4
    <3>6. Len(Script) < Len(Script)
      BY ZenonT(30), <3>4, <3>5, ScriptAssumption
    <3> QED BY SMTT(30), <3>6, <1>0
  <2>3. PICK f \in Steps : /\ f <= pos /\ Script[f].op = "flush" /\ FlightBefore(f)
                           /\ \A j \in f + 1 .. pos - 1 : Script[j].op = "read"
                           /\ flight_has_reply <=> f + 1 < pos
    BY ZenonT(30), <2>1, <2>2 DEF KeptInv
  <2>4. f = Last("flush")
    <3>1. \A j \in Steps : Script[j].op = "flush" => j <= f
      <4>1. \A j \in Steps : j > f => j \in f + 1 .. pos - 1
        BY SMTT(30), <2>1, <1>0 DEF Steps
      <4> QED BY SMTT(30), <4>1, <2>3 DEF Steps
    <3>2. \A x \in Steps : Script[x].op = "flush" /\ (\A j \in Steps : Script[j].op = "flush" => j <= x)
             => x = f
      BY SMTT(30), <3>1, <2>3 DEF Steps
    <3> QED BY ZenonT(30), <3>1, <3>2, <2>3 DEF Last
  <2>5. Answered <=> flight_has_reply
    <3>1. f \in 1 .. Len(Script)
      BY ZenonT(30) DEF Steps
    <3>2. CASE f < Len(Script)
      <4>1. f + 1 \in Steps /\ f + 1 \in f + 1 .. pos - 1 /\ f + 1 > f /\ f + 1 < pos
        BY SMTT(30), <3>1, <3>2, <2>1, <1>0 DEF Steps
      <4> QED BY ZenonT(30), <4>1, <2>3, <2>4 DEF Answered
    <3>3. CASE f = Len(Script)
      <4>1. ~(f + 1 < pos) /\ \A i \in Steps : ~(i > f)
        BY SMTT(30), <3>3, <2>1, <1>0 DEF Steps
      <4> QED BY ZenonT(30), <4>1, <2>3, <2>4 DEF Answered
    <3> QED BY SMTT(30), <3>1, <3>2, <3>3, <1>0
  <2>6. CASE Answered
    BY ZenonT(30), <2>1, <2>5, <2>6 DEF KeptInv, UnansweredFlightKept
  <2>7. CASE ~Answered
    <3>1. outgoing_messages' = outgoing_messages /\ outgoing_messages_complete'
      BY ZenonT(30), <2>1, <2>2, <2>5, <2>7
    <3>2. FlightBefore(Last("flush"))'
      BY ZenonT(30), <3>1, <2>3, <2>4 DEF FlightBefore
    <3> QED BY ZenonT(30), <2>1, <2>7, <3>1, <3>2 DEF KeptInv, UnansweredFlightKept
  <2> QED BY ZenonT(30), <2>6, <2>7
<1>8. CASE \/ DTLSv1_handle_timeout \/ dtls1_open_app_data \/ seal_next_message \/ packet_full
           \/ BIO_write \/ BIO_write_blocked \/ BIO_flush_blocked \/ SSL_set_mtu
           \/ SSL_shutdown \/ GaveUp \/ UNCHANGED vars
  <2>1. /\ pos' = pos /\ outgoing_messages' = outgoing_messages
        /\ outgoing_messages_complete' = outgoing_messages_complete
        /\ flight_has_reply' = flight_has_reply
        /\ status' = status \/ status' = "failed"
    BY ZenonT(30), <1>8 DEF DTLSv1_handle_timeout, dtls1_open_app_data, seal_next_message, packet_full,
        BIO_write, BIO_write_blocked, BIO_flush_blocked, SSL_set_mtu, SSL_shutdown, GaveUp,
        vars, flight
  <2> QED BY ZenonT(30), <2>1, <1>1
<1> QED BY ZenonT(30), <1>2, <1>3, <1>4, <1>5, <1>6, <1>7, <1>8 DEF Next

\* The variables keep their types: in particular the handshake counts at most
\* one timeout past DTLS1_MAX_TIMEOUTS and no epoch follows the second.
THEOREM TypeCorrect == Spec => []TypeOK
<1>1. Init => BaseInv
  BY ZenonT(30), BaseInit
<1>2. BaseInv /\ [Next]_vars => BaseInv'
  BY ZenonT(30), BaseStep
<1>3. BaseInv => TypeOK
  BY ZenonT(30) DEF BaseInv
<1> QED
  BY <1>1, <1>2, <1>3, PTL DEF Spec

\* seal_next_packet never writes past the packet buffer, for every MTU the
\* code accepts and every record overhead.
THEOREM PacketsFit == Spec => []PacketFits
<1>1. Init => BaseInv
  BY ZenonT(30), BaseInit
<1>2. BaseInv /\ [Next]_vars => BaseInv'
  BY ZenonT(30), BaseStep
<1>3. BaseInv => PacketFits
  BY ZenonT(30) DEF BaseInv
<1> QED
  BY <1>1, <1>2, <1>3, PTL DEF Spec

\* The cursor of send_flight is exact through refused packets, timeouts, MTU
\* changes and retransmissions.
THEOREM CursorCorrect == Spec => []CursorExact
<1>1. Init => BaseInv /\ CursorExact
  BY ZenonT(30), BaseInit
<1>2. BaseInv /\ CursorExact /\ [Next]_vars => (BaseInv /\ CursorExact)'
  <2> SUFFICES ASSUME BaseInv, CursorExact, [Next]_vars
               PROVE  (BaseInv /\ CursorExact)'
    BY ZenonT(30)
  <2>1. BaseInv'
    BY ZenonT(30), BaseStep
  <2>2. CASE Next
    BY ZenonT(30), <2>1, <2>2, CursorStep
  <2>3. CASE UNCHANGED vars
    BY ZenonT(30), <2>1, <2>3 DEF CursorExact, vars, flight, cursor, sending
  <2> QED
    BY ZenonT(30), <2>1, <2>2, <2>3
<1> QED
  BY <1>1, <1>2, PTL DEF Spec

\* When send_flight returns 1, the whole flight has been handed to the transport
\* since the last rewind.
THEOREM WholeFlight == Spec => []WholeFlightSent
<1>1. BaseInv /\ CursorExact => WholeFlightSent
  <2> SUFFICES ASSUME BaseInv, CursorExact, result = "sent"
               PROVE  ExactlyUpTo(outgoing_messages, on_wire, Len(outgoing_messages), 0)
    BY ZenonT(30) DEF WholeFlightSent
  <2>1. phase = "run" /\ outgoing_written = Len(outgoing_messages)
    BY ZenonT(30) DEF BaseInv, SendInv
  <2>2. outgoing_offset = 0
    <3>1. ~(outgoing_written < Len(outgoing_messages))
      BY SMTT(30), <2>1, TypeFacts DEF BaseInv
    <3> QED
      BY ZenonT(30), <3>1 DEF BaseInv, SendInv, Position
  <2> QED
    BY ZenonT(30), <2>1, <2>2 DEF CursorExact
<1>2. Init => BaseInv
  BY ZenonT(30), BaseInit
<1>3. BaseInv /\ [Next]_vars => BaseInv'
  BY ZenonT(30), BaseStep
<1> QED
  BY <1>1, <1>2, <1>3, CursorCorrect, PTL DEF Spec

\* The internal errors of add_outgoing, seal_next_message and seal_next_packet
\* are unreachable for every handshake whose flights fit the array.
THEOREM ErrorsUnreachable == Spec => []NoInternalError
<1>1. ASSUME BaseInv
      PROVE  NoInternalError
  <2> USE <1>1 DEF BaseInv
  <2>1. ASSUME AtStep("msg") \/ AtStep("ccs"), ~outgoing_messages_complete
        PROVE  Len(outgoing_messages) < SSL_MAX_HANDSHAKE_FLIGHT
    <3>1. SUFFICES ASSUME ~(Len(outgoing_messages) < SSL_MAX_HANDSHAKE_FLIGHT)
                   PROVE  FALSE
      BY ZenonT(30)
    <3>2. /\ status = "handshake" /\ pos \in 1 .. Len(Script) /\ Script[pos].op \in Items
      BY ZenonT(30), <2>1 DEF AtStep, Steps, Items
    <3>3. /\ Len(outgoing_messages) < pos
          /\ \A i \in pos - Len(outgoing_messages) .. pos - 1 : Script[i].op \in Items
      BY ZenonT(30), <2>1, <3>2 DEF ScriptInv
    <3>4. /\ SSL_MAX_HANDSHAKE_FLIGHT \in Nat /\ pos \in Nat
          /\ Len(outgoing_messages) \in Nat
          /\ SSL_MAX_HANDSHAKE_FLIGHT <= Len(outgoing_messages)
      BY SMTT(30), <3>1, FlightAssumption, TypeFacts
    <3>5. pos > SSL_MAX_HANDSHAKE_FLIGHT
      BY SMTT(30), <3>3, <3>4
    <3>6. PICK j \in pos - SSL_MAX_HANDSHAKE_FLIGHT .. pos : Script[j].op \notin Items
      BY ZenonT(30), <3>2, <3>5, ScriptAssumption
    <3>7. j = pos \/ j \in pos - Len(outgoing_messages) .. pos - 1
      BY SMTT(30), <3>4, <3>6
    <3> QED
      BY ZenonT(30), <3>2, <3>3, <3>6, <3>7
  <2>2. ASSUME outgoing_written < Len(outgoing_messages)
        PROVE  /\ ~epoch_gone
               /\ msg \in OutgoingMessages
    <3>1. /\ outgoing_written + 1 \in DOMAIN outgoing_messages
          /\ msg \in OutgoingMessages
      BY SMTT(30), <2>2 DEF TypeOK, msg
    <3>2. msg.epoch <= w_epoch
      BY ZenonT(30), <3>1 DEF ScriptInv, msg
    <3>3. msg.epoch \in {0, 1} /\ w_epoch \in {0, 1}
      BY ZenonT(30), <3>1 DEF OutgoingMessages, TypeOK
    <3> QED
      BY SMTT(30), <3>1, <3>2, <3>3 DEF epoch_gone
  <2>3. ASSUME phase = "seal", packet = {}
        PROVE  outgoing_written < Len(outgoing_messages) /\ room >= min_room
    <3>1. outgoing_written < Len(outgoing_messages) /\ room = mtu
      BY ZenonT(30), <2>3 DEF SendInv
    <3>2. msg.epoch \in {0, 1}
      BY ZenonT(30), <2>2, <3>1 DEF OutgoingMessages
    <3>3. /\ mtu \in Nat /\ Overhead[msg.epoch] \in Nat
          /\ DTLS1_HM_HEADER_LENGTH + 1 + Overhead[msg.epoch] <= mtu
      BY ZenonT(30), <3>2, MtuAssumption, OverheadAssumption DEF TypeOK
    <3> QED
      BY SMTT(30), <3>1, <3>3, HeaderAssumption DEF min_room
  <2> QED
    BY ZenonT(30), <2>1, <2>2, <2>3 DEF NoInternalError
<1>2. Init => BaseInv
  BY ZenonT(30), BaseInit
<1>3. BaseInv /\ [Next]_vars => BaseInv'
  BY ZenonT(30), BaseStep
<1> QED
  BY <1>1, <1>2, <1>3, PTL DEF Spec

\* No endpoint waits for an answer to its flight without a running timer, and
\* the timer never repeats a flight that is still being collected.
THEOREM WaitIsTimed == Spec => []TimedWhileWaiting
<1>1. ASSUME BaseInv
      PROVE  TimedWhileWaiting
  <2> USE <1>1 DEF BaseInv
  <2>1. timer => outgoing_messages_complete
    BY ZenonT(30) DEF ScriptInv
  <2>2. ASSUME AtStep("read"), \E i \in 1 .. pos - 1 : Script[i].op = "flush"
        PROVE  timer
    <3>1. status = "handshake" /\ pos \in Steps /\ Script[pos].op = "read"
      BY ZenonT(30), <2>2 DEF AtStep
    <3>2. CASE outgoing_messages_complete
      BY ZenonT(30), <3>1, <3>2 DEF ScriptInv
    <3>3. CASE ~outgoing_messages_complete
      <4>1. outgoing_messages = <<>>
        BY ZenonT(30), <3>1, <3>3, NotCollecting
      <4> QED
        BY ZenonT(30), <2>2, <3>1, <3>3, <4>1 DEF ScriptInv
    <3> QED
      BY ZenonT(30), <3>2, <3>3
  <2> QED
    BY ZenonT(30), <2>1, <2>2 DEF TimedWhileWaiting
<1>2. Init => BaseInv
  BY ZenonT(30), BaseInit
<1>3. BaseInv /\ [Next]_vars => BaseInv'
  BY ZenonT(30), BaseStep
<1> QED
  BY <1>1, <1>2, <1>3, PTL DEF Spec

(***************************************************************************)
(* After the handshake the last flight is there, whole and in order, if    *)
(* and only if nothing was read after it: whatever was refused, timed out  *)
(* or sent again in between (dtls1_on_handshake_complete).                 *)
(***************************************************************************)
THEOREM LastFlightKept == Spec => []UnansweredFlightKept
<1>1. Init => BaseInv /\ KeptInv
  <2> SUFFICES ASSUME Init PROVE BaseInv /\ KeptInv
    BY ZenonT(30)
  <2>1. BaseInv
    BY ZenonT(30), BaseInit
  <2>2. FlightBefore(pos)
    BY SMTT(30) DEF Init, FlightBefore, Steps
  <2> QED BY ZenonT(30), <2>1, <2>2 DEF Init, KeptInv, UnansweredFlightKept
<1>2. BaseInv /\ KeptInv /\ [Next]_vars => (BaseInv /\ KeptInv)'
  BY ZenonT(30), BaseStep, KeptStep
<1>3. KeptInv => UnansweredFlightKept
  BY ZenonT(30) DEF KeptInv
<1> QED
  BY <1>1, <1>2, <1>3, PTL DEF Spec
=============================================================================
