------------------------ MODULE DtlsHandshakeProofs -------------------------
(***************************************************************************)
(* Proofs about the DTLS handshake of two endpoints, for every pair of     *)
(* scripts that take turns, every bound on timeouts and records under way, *)
(* and a network that may lose, delay and reorder without limit.           *)
(***************************************************************************)
EXTENDS DtlsHandshakeInv

\* A new flight keeps the invariant.
LEMMA SendFlight ==
  ASSUME HandshakeInv, NEW e \in Ends, send_flight(e)
  PROVE  HandshakeInv'
<1>p. PICK p : p = Peer(e)
  BY ZenonT(30)
<1>t. /\ p \in Ends /\ p # e /\ Peer(p) = e /\ Ends = {e, p}
      /\ Len(Script[e]) \in Nat /\ Len(Script[e]) > 0
      /\ DOMAIN Script[e] = 1 .. Len(Script[e])
      /\ N(e) \in Nat /\ N(e) >= 2 /\ N(p) \in Nat /\ N(p) >= 2
      /\ DOMAIN Items[e] = 1 .. N(e) /\ DOMAIN Items[p] = 1 .. N(p)
      /\ DTLS1_MAX_TIMEOUTS \in Nat /\ SSL_MAX_HANDSHAKE_FLIGHT \in Nat
  BY ZenonT(30), <1>p, Constants
<1>i. TypeOK /\ EndInv(e) /\ EndInv(p)
  BY ZenonT(30), <1>t DEF HandshakeInv
<1>k. PICK k, n, items, np :
         /\ k = pos[e] /\ n = Script[e][k].n /\ items = sent[e] + 1 .. sent[e] + n
         /\ np = Transmit(net[p], items)
  BY ZenonT(30)
<1>g. k \in 1 .. Len(Script[e]) /\ Script[e][k].op = "flight" /\ status[e] = "handshake"
  BY ZenonT(30), <1>k, <1>t DEF send_flight, AtStep, Step
<1>n. n \in 1 .. SSL_MAX_HANDSHAKE_FLIGHT
  BY ZenonT(30), <1>g, <1>k, <1>t, ScriptAssumption
<1>c. net[p] \in [1 .. N(e) -> 0 .. MaxCopies] /\ net[e] \in [1 .. N(p) -> 0 .. MaxCopies]
  BY ZenonT(30), <1>i, <1>p, <1>t DEF TypeOK
<1>w. /\ np \in [1 .. N(e) -> 0 .. MaxCopies]
      /\ \A i \in 1 .. N(e) :
            /\ np[i] \in Nat /\ np[i] <= net[p][i] + 1
            /\ i \notin items => np[i] = net[p][i]
  <2>1. /\ Transmit(net[p], items) \in [1 .. N(e) -> 0 .. MaxCopies]
        /\ \A i \in 1 .. N(e) :
              /\ Transmit(net[p], items)[i] <= net[p][i] + 1
              /\ i \notin items => Transmit(net[p], items)[i] = net[p][i]
    <3>1. N(e) \in Nat
      BY ZenonT(30), <1>t
    <3> QED BY ZenonT(30), <3>1, <1>c, TransmitFacts
  <2>2. /\ np \in [1 .. N(e) -> 0 .. MaxCopies]
        /\ \A i \in 1 .. N(e) :
              np[i] <= net[p][i] + 1 /\ (i \notin items => np[i] = net[p][i])
    BY ZenonT(30), <2>1, <1>k
  <2>3. \A i \in 1 .. N(e) : np[i] \in Nat
    BY SMTT(30), <2>2, BoundsAssumption
  <2> QED BY ZenonT(30), <2>2, <2>3
<1>e. /\ pos'[e] = k + 1 /\ sent'[e] = sent[e] + n
      /\ flight'[e] = items /\ complete'[e] = TRUE /\ flight_has_reply'[e] = FALSE
      /\ timer'[e] = TRUE /\ num_timeouts'[e] = 0 /\ net'[e] = net[e]
      /\ net'[p] = np
  BY ZenonT(30), <1>i, <1>p, <1>t, <1>k DEF send_flight, TypeOK, Step
<1>q. /\ pos'[p] = pos[p] /\ sent'[p] = sent[p] /\ flight'[p] = flight[p]
      /\ complete'[p] = complete[p] /\ flight_has_reply'[p] = flight_has_reply[p]
      /\ timer'[p] = timer[p] /\ num_timeouts'[p] = num_timeouts[p]
  BY ZenonT(30), <1>i, <1>t DEF send_flight, TypeOK
<1>u. /\ status' = status /\ r_epoch' = r_epoch /\ read_seq' = read_seq
      /\ incoming' = incoming /\ has_ccs' = has_ccs /\ lost' = lost
  BY ZenonT(30) DEF send_flight, reader
<1>1. TypeOK'
  <2>1. /\ pos' \in [Ends -> Nat] /\ sent' \in [Ends -> Nat]
        /\ flight' \in [Ends -> SUBSET Nat]
    <3>1. k + 1 \in Nat /\ sent[e] + n \in Nat /\ items \in SUBSET Nat
      <4>1. sent[e] \in Nat /\ n \in Nat /\ k \in Nat
        BY SMTT(30), <1>i, <1>n, <1>t, <1>g, PointTypes
      <4>2. sent[e] + 1 .. sent[e] + n \subseteq Nat
        BY SMTT(30), <4>1
      <4> QED BY SMTT(30), <4>1, <4>2, <1>k
    <3>2. /\ pos' = [pos EXCEPT ![e] = k + 1] /\ sent' = [sent EXCEPT ![e] = sent[e] + n]
          /\ flight' = [flight EXCEPT ![e] = items]
      BY ZenonT(30), <1>k, <1>i DEF send_flight, Step, TypeOK
    <3> QED BY ZenonT(30), <3>1, <3>2, <1>i DEF TypeOK
  <2>2. /\ complete' \in [Ends -> BOOLEAN] /\ flight_has_reply' \in [Ends -> BOOLEAN]
        /\ timer' \in [Ends -> BOOLEAN]
        /\ num_timeouts' \in [Ends -> 0 .. DTLS1_MAX_TIMEOUTS + 1]
    BY SMTT(30), <1>i, BoundsAssumption DEF send_flight, TypeOK
  <2>3. DOMAIN net' = Ends
    BY ZenonT(30), <1>i DEF send_flight, TypeOK
  <2>4. \A x \in Ends : net'[x] \in [DOMAIN Items[Peer(x)] -> 0 .. MaxCopies]
    <3>1. net'[e] \in [DOMAIN Items[Peer(e)] -> 0 .. MaxCopies]
      BY ZenonT(30), <1>t, <1>p, <1>c, <1>e
    <3>2. net'[p] \in [DOMAIN Items[Peer(p)] -> 0 .. MaxCopies]
      BY ZenonT(30), <1>t, <1>w, <1>e
    <3> QED BY ZenonT(30), <3>1, <3>2, <1>t
  <2> QED BY ZenonT(30), <2>1, <2>2, <2>3, <2>4, <1>u, <1>i DEF TypeOK
<1>s. /\ SentBefore(e, k + 1) = SentBefore(e, k) + n
      /\ ReadBefore(e, k + 1) = ReadBefore(e, k)
      /\ k + 1 \in 1 .. Len(Script[e]) + 1
      /\ ReadBefore(e, k) \in 0 .. N(p) /\ SentBefore(e, k + 1) \in 0 .. N(e)
  <2>1. k \in 1 .. Len(Script[e]) + 1 /\ k + 1 \in 1 .. Len(Script[e]) + 1
    BY SMTT(30), <1>g, <1>t
  <2>2. SentBefore(e, k + 1) = SentBefore(e, k) + n /\ SentBefore(e, k + 1) \in Nat
    BY ZenonT(30), <1>g, <1>k, <2>1, SentStep
  <2>3. ReadBefore(e, k + 1) = ReadBefore(e, k) /\ ReadBefore(e, k) \in Nat
    BY SMTT(30), <1>g, <2>1, ReadStep
  <2> QED BY SMTT(30), <2>1, <2>2, <2>3, <1>p, <1>t, Totals
<1>b. /\ ReadBefore(p, pos[p]) \in 0 .. N(e) /\ sent[p] \in 0 .. N(p)
      /\ sent[e] \in 0 .. N(e) /\ sent[e] = SentBefore(e, k)
      /\ sent[p] = SentBefore(p, pos[p]) /\ pos[p] \in 1 .. Len(Script[p]) + 1
      /\ ReadBefore(e, k) <= sent[p] /\ ReadBefore(p, pos[p]) <= sent[e]
  BY ZenonT(30), <1>i, <1>p, <1>k, <1>t, PointBounds DEF EndInv, CountersInv, OrderInv
\* The flight answers all that the peer has sent, so the peer has read all of
\* the flight before it.
<1>a. ReadBefore(p, pos[p]) >= sent[e]
  BY ZenonT(30), <1>b, <1>g, <1>p, Turns
<1>2. EndInv(e)'
  <2>1. CountersInv(e)'
    BY ZenonT(30), <1>i, <1>e, <1>k, <1>u, <1>s, <1>b DEF EndInv, CountersInv
  <2>2. OrderInv(e)'
    BY ZenonT(30), <1>i, <1>e, <1>k, <1>q, <1>s, <1>p DEF EndInv, OrderInv
  <2>3. TransitInv(e)'
    <3>1. items \subseteq 1 .. sent'[e]
      BY SMTT(30), <1>e, <1>k, <1>b, <1>n, <1>t
    <3> QED BY ZenonT(30), <3>1, <1>i, <1>e, <1>q, <1>u, <1>p DEF EndInv, TransitInv
  <2>4. FlightInv(e)'
    <3>1. sent[e] \in Nat /\ n \in Nat /\ n > 0
      BY SMTT(30), <1>n, <1>b, <1>t
    <3>2. sent[e] + 1 \in items /\ sent'[e] > 0
      BY SMTT(30), <3>1, <1>e, <1>k
    <3>3. items # {} /\ sent'[e] > 0
      BY ZenonT(30), <3>2
    <3> QED BY SMTT(30), <3>3, <1>i, <1>e, <1>u, <1>g, <1>t DEF EndInv, FlightInv
  <2>5. FinishedInv(e)'
    <3>1. FinishedRecords(e)' = FinishedRecords(e)
      BY ZenonT(30), <1>e, <1>u, <1>g DEF FinishedRecords, GotFinished
    <3>2. MayRepeat(p)' = MayRepeat(p) /\ num_timeouts'[p] = num_timeouts[p]
      BY ZenonT(30), <1>q, <1>u DEF MayRepeat
    <3> QED BY ZenonT(30), <3>1, <3>2, <1>i, <1>p DEF EndInv, FinishedInv
  <2> QED BY ZenonT(30), <2>1, <2>2, <2>3, <2>4, <2>5 DEF EndInv
<1>3. EndInv(p)'
  <2>1. CountersInv(p)'
    BY ZenonT(30), <1>i, <1>q, <1>u DEF EndInv, CountersInv
  <2>2. OrderInv(p)'
    BY SMTT(30), <1>i, <1>e, <1>q, <1>t, <1>b, <1>a, <1>n DEF EndInv, OrderInv
  <2>3. TransitInv(p)'
    <3>1. \A i \in 1 .. N(e) : np[i] > 0 => i <= sent'[e]
      <4> TAKE i \in 1 .. N(e)
      <4>1. CASE i \in items
        BY SMTT(30), <4>1, <1>e, <1>k, <1>b, <1>n, <1>t
      <4>2. CASE i \notin items
        <5>1. np[i] = net[p][i] /\ (net[p][i] > 0 => i <= sent[e])
          BY ZenonT(30), <4>2, <1>w, <1>i, <1>t DEF EndInv, TransitInv
        <5> QED BY SMTT(30), <5>1, <1>e, <1>b, <1>n, <1>t
      <4> QED BY ZenonT(30), <4>1, <4>2
    <3>2. sent'[e] \in Nat /\ sent'[e] > sent[e] /\ sent'[e] <= N(e)
      BY SMTT(30), <1>e, <1>b, <1>n, <1>t, <1>s
    <3>3. \A s \in incoming[p] : s \in Nat
      BY ZenonT(30), <1>i, <1>t, PointTypes
    <3> QED BY SMTT(30), <3>1, <3>2, <3>3, <1>i, <1>e, <1>q, <1>u, <1>t, <1>b DEF EndInv, TransitInv
  <2>4. FlightInv(p)'
    BY ZenonT(30), <1>i, <1>q, <1>u DEF EndInv, FlightInv
  <2>5. FinishedInv(p)'
    <3>1. sent[e] < N(e) /\ net[p][N(e)] = 0
      <4>1. sent[e] < N(e)
        BY SMTT(30), <1>b, <1>s, <1>n, <1>t
      <4>2. N(e) \in 1 .. N(e) /\ net[p][N(e)] \in Nat
        BY SMTT(30), <1>t, <1>c, BoundsAssumption
      <4>3. net[p][N(e)] > 0 => N(e) <= sent[e]
        BY ZenonT(30), <4>2, <1>t, <1>i DEF EndInv, TransitInv
      <4> QED BY SMTT(30), <4>1, <4>2, <4>3, <1>b, <1>t
    <3>2. status[p] # "done"
      <4>1. status[p] = "done" => ReadBefore(p, pos[p]) = N(e)
        BY ZenonT(30), <1>i, <1>t, Totals DEF EndInv, FlightInv
      <4> QED BY SMTT(30), <4>1, <3>1, <1>b, <1>t
    <3>3. ~GotFinished(p)
      <4>1. /\ r_epoch[p] = 1 => read_seq[p] + 1 = ReadBefore(p, pos[p])
            /\ r_epoch[p] = 1 => \A s \in incoming[p] : sent[e] = N(e)
            /\ read_seq[p] \in Nat
        BY SMTT(30), <1>i, <1>t, PointBounds DEF EndInv, CountersInv, TransitInv
      <4> QED BY SMTT(30), <4>1, <3>1, <1>b, <1>t DEF GotFinished
    <3>4. FinishedRecords(p)' = np[N(e)]
      <4>1. ~GotFinished(p)'
        BY ZenonT(30), <3>3, <1>u DEF GotFinished
      <4>2. N(e) \in 1 .. N(e) /\ np[N(e)] \in Nat
        BY SMTT(30), <1>t, <1>w
      <4> QED BY SMTT(30), <4>1, <4>2, <3>2, <1>u, <1>e, <1>t DEF FinishedRecords
    <3>5. FinishedRecords(p)' <= 1
      BY SMTT(30), <3>1, <3>4, <1>t, <1>w
    <3> QED BY SMTT(30), <3>4, <3>5, <1>e, <1>t, <1>w DEF FinishedInv
  <2> QED BY ZenonT(30), <2>1, <2>2, <2>3, <2>4, <2>5 DEF EndInv
<1> QED BY ZenonT(30), <1>1, <1>2, <1>3, <1>t DEF HandshakeInv

\* The state machine finds every message in its place: nothing but the message
\* it takes is left at the end of a flight.
LEMMA NextMessage ==
  ASSUME HandshakeInv, NEW e \in Ends, dtls1_next_message(e)
  PROVE  /\ HandshakeInv'
         /\ UNCHANGED <<status, sent, r_epoch>>
         /\ pos' = [pos EXCEPT ![e] = @ + 1]
         /\ read_seq' = [read_seq EXCEPT ![e] = @ + 1]
         /\ read_seq[e] + r_epoch[e] < sent[Peer(e)]
<1>p. PICK p : p = Peer(e)
  BY ZenonT(30)
<1>t. /\ p \in Ends /\ p # e /\ Peer(p) = e /\ Ends = {e, p}
      /\ N(e) \in Nat /\ N(p) \in Nat /\ N(p) >= 2 /\ DOMAIN Items[p] = 1 .. N(p)
      /\ Len(Script[e]) \in Nat /\ DOMAIN Script[e] = 1 .. Len(Script[e])
      /\ Len(Script[p]) \in Nat
      /\ DTLS1_MAX_TIMEOUTS \in Nat /\ SSL_MAX_HANDSHAKE_FLIGHT \in Nat
  BY ZenonT(30), <1>p, Constants
<1>i. TypeOK /\ EndInv(e) /\ EndInv(p)
  BY ZenonT(30), <1>t DEF HandshakeInv
<1>r. PICK r, k : k = pos[e] /\ r = ReadBefore(e, k)
  BY ZenonT(30)
<1>b. /\ r \in 0 .. N(p) /\ read_seq[e] \in Nat /\ r_epoch[e] \in 0 .. 1
      /\ read_seq[e] + r_epoch[e] = r
      /\ r_epoch[e] = IF r >= N(p) - 1 THEN 1 ELSE 0
      /\ sent[p] \in 0 .. N(p) /\ r <= sent[p] /\ sent[p] <= r + SSL_MAX_HANDSHAKE_FLIGHT
      /\ incoming[e] \in SUBSET Nat /\ sent[e] \in 0 .. N(e)
      /\ sent[e] = SentBefore(e, k)
  BY ZenonT(30), <1>i, <1>p, <1>r, <1>t, PointBounds, PointTypes DEF EndInv, CountersInv, OrderInv
<1>c. /\ sent[p] = SentBefore(p, pos[p]) /\ pos[p] \in 1 .. Len(Script[p]) + 1
      /\ ReadBefore(p, pos[p]) <= sent[e] /\ ReadBefore(p, pos[p]) \in Nat
  BY SMTT(30), <1>i, <1>t, PointBounds DEF EndInv, CountersInv, OrderInv
<1>g. /\ k \in 1 .. Len(Script[e]) /\ Script[e][k].op = "recv" /\ status[e] = "handshake"
      /\ read_seq[e] \in incoming[e]
  BY ZenonT(30), <1>t, <1>r DEF dtls1_next_message, AtStep, Step
<1>h. \A s \in incoming[e] :
        /\ read_seq[e] <= s
        /\ IF r_epoch[e] = 0 THEN s < N(p) - 2 /\ s < sent[p]
                             ELSE s = N(p) - 2 /\ sent[p] = N(p)
  BY ZenonT(30), <1>i, <1>p DEF EndInv, TransitInv
<1>f. r < sent[p]
  <2>0. read_seq[e] \in Nat /\ read_seq[e] + r_epoch[e] = r /\ sent[p] \in Nat
        /\ N(p) \in Nat
    BY SMTT(30), <1>b, <1>t
  <2>1. CASE r_epoch[e] = 0
    <3>1. read_seq[e] < sent[p]
      BY ZenonT(30), <2>1, <1>g, <1>h
    <3> QED BY SMTT(30), <3>1, <2>0, <2>1
  <2>2. CASE r_epoch[e] = 1
    <3>1. read_seq[e] = N(p) - 2 /\ sent[p] = N(p)
      BY SMTT(30), <2>2, <1>g, <1>h
    <3> QED BY SMTT(30), <3>1, <2>0, <2>2
  <2> QED BY ZenonT(30), <2>1, <2>2, <1>b
<1>a. ~(EndsFlight(e, k) /\ incoming[e] # {read_seq[e]})
  <2> SUFFICES ASSUME EndsFlight(e, k) PROVE incoming[e] = {read_seq[e]}
    BY ZenonT(30)
  <2>1. sent[p] <= r + 1
    BY ZenonT(30), <1>p, <1>g, <1>c, <1>b, <1>r, Turns
  <2>2. \A s \in incoming[e] : s = read_seq[e]
    <3> TAKE s \in incoming[e]
    <3>1. s \in Nat
      BY ZenonT(30), <1>b
    <3>2. CASE r_epoch[e] = 0
      <4>1. read_seq[e] <= s /\ s < sent[p]
        BY ZenonT(30), <3>2, <1>h
      <4>2. read_seq[e] = r /\ sent[p] \in Nat /\ r \in Nat
        BY SMTT(30), <3>2, <1>b
      <4> QED BY SMTT(30), <4>1, <4>2, <3>1, <2>1
    <3>3. CASE r_epoch[e] = 1
      BY SMTT(30), <3>1, <3>3, <1>h, <1>b, <1>t, <1>g
    <3> QED BY ZenonT(30), <3>2, <3>3, <1>b
  <2> QED BY ZenonT(30), <2>2, <1>g
<1>u. /\ incoming' = [incoming EXCEPT ![e] = @ \ {read_seq[e]}]
      /\ read_seq' = [read_seq EXCEPT ![e] = @ + 1]
      /\ flight_has_reply' = [flight_has_reply EXCEPT ![e] = @ \/ complete[e]]
      /\ pos' = [pos EXCEPT ![e] = @ + 1]
      /\ status' = status
  BY ZenonT(30), <1>a, <1>r DEF dtls1_next_message
<1>v. /\ sent' = sent /\ flight' = flight /\ complete' = complete /\ timer' = timer
      /\ num_timeouts' = num_timeouts /\ r_epoch' = r_epoch /\ has_ccs' = has_ccs
      /\ net' = net /\ lost' = lost
  BY ZenonT(30) DEF dtls1_next_message, sender
<1>e. /\ incoming'[e] = incoming[e] \ {read_seq[e]} /\ read_seq'[e] = read_seq[e] + 1
      /\ flight_has_reply'[e] = (flight_has_reply[e] \/ complete[e])
      /\ pos'[e] = k + 1
  BY ZenonT(30), <1>u, <1>i, <1>r DEF TypeOK
<1>q. /\ incoming'[p] = incoming[p] /\ read_seq'[p] = read_seq[p]
      /\ flight_has_reply'[p] = flight_has_reply[p] /\ pos'[p] = pos[p]
  BY ZenonT(30), <1>u, <1>i, <1>t DEF TypeOK
<1>s. /\ ReadBefore(e, k + 1) = r + 1 /\ SentBefore(e, k + 1) = SentBefore(e, k)
      /\ k + 1 \in 1 .. Len(Script[e]) + 1
      /\ r + 1 # N(p) - 1
  <2>1. ReadBefore(e, k + 1) = r + 1
    BY ZenonT(30), <1>g, <1>r, ReadStep
  <2>2. SentBefore(e, k + 1) = SentBefore(e, k)
    <3>1. SentBefore(e, k) \in Nat
      BY SMTT(30), <1>b
    <3>2. SentBefore(e, k + 1) = SentBefore(e, k) + 0
      BY ZenonT(30), <1>g, SentStep
    <3> QED BY SMTT(30), <3>1, <3>2
  <2>3. r < N(p) /\ (Script[e][k].op = "recv_ccs" <=> r = N(p) - 2)
    BY ZenonT(30), <1>g, <1>p, <1>r, Totals
  <2>4. k + 1 \in 1 .. Len(Script[e]) + 1
    BY SMTT(30), <1>g, <1>t
  <2>5. r + 1 # N(p) - 1
    BY SMTT(30), <2>3, <1>g, <1>b, <1>t
  <2> QED BY ZenonT(30), <2>1, <2>2, <2>4, <2>5
<1>1. TypeOK'
  <2>1. /\ incoming' \in [Ends -> SUBSET Nat] /\ read_seq' \in [Ends -> Nat]
        /\ pos' \in [Ends -> Nat]
    BY SMTT(30), <1>u, <1>i DEF TypeOK
  <2>2. flight_has_reply' \in [Ends -> BOOLEAN]
    BY ZenonT(30), <1>u, <1>i DEF TypeOK
  <2> QED BY ZenonT(30), <2>1, <2>2, <1>u, <1>v, <1>i DEF TypeOK
<1>2. EndInv(p)'
  BY ZenonT(30), <1>q, <1>i, <1>t, <1>u, <1>v, Frame
<1>3. EndInv(e)'
  <2>1. CountersInv(e)'
    <3>1. r_epoch[e] = IF r + 1 >= N(p) - 1 THEN 1 ELSE 0
      BY SMTT(30), <1>b, <1>s, <1>t
    <3>2. sent[e] = SentBefore(e, k + 1)
      BY ZenonT(30), <1>b, <1>s
    <3>3. read_seq[e] + 1 + r_epoch[e] = ReadBefore(e, k + 1)
      BY SMTT(30), <1>b, <1>s, <1>t
    <3> QED BY ZenonT(30), <3>1, <3>2, <3>3, <1>e, <1>v, <1>s, <1>p DEF CountersInv
  <2>2. OrderInv(e)'
    BY SMTT(30), <1>e, <1>v, <1>s, <1>f, <1>b, <1>t, <1>p DEF OrderInv
  <2>3. TransitInv(e)'
    <3>1. \A s \in incoming'[e] : s \in incoming[e] /\ read_seq[e] + 1 <= s
      <4> TAKE s \in incoming'[e]
      <4>1. s \in incoming[e] /\ s # read_seq[e] /\ s \in Nat
        BY ZenonT(30), <1>e, <1>b
      <4> QED BY SMTT(30), <4>1, <1>h, <1>b
    <3> QED BY ZenonT(30), <3>1, <1>i, <1>e, <1>v DEF EndInv, TransitInv
  <2>4. FlightInv(e)'
    <3>1. k + 1 > 1 /\ k + 1 - 1 = k
      BY SMTT(30), <1>g, <1>t
    <3>2. complete[e] <=> sent[e] > 0
      BY ZenonT(30), <1>i, <1>g DEF EndInv, FlightInv
    <3>3. sent[e] > 0 => flight_has_reply'[e]
      BY ZenonT(30), <3>2, <1>e
    <3>4. /\ status'[e] = "handshake" /\ num_timeouts'[e] = num_timeouts[e]
          /\ sent'[e] = sent[e] /\ complete'[e] = complete[e] /\ timer'[e] = timer[e]
      BY ZenonT(30), <1>u, <1>v, <1>g
    <3>5. Script[e][pos'[e] - 1].op = "recv"
      BY SMTT(30), <3>1, <1>e, <1>g
    <3>6. num_timeouts[e] <= DTLS1_MAX_TIMEOUTS /\ (timer[e] <=> sent[e] > 0)
      BY ZenonT(30), <1>i, <1>g DEF EndInv, FlightInv
    <3> QED BY ZenonT(30), <3>2, <3>3, <3>4, <3>5, <3>6 DEF FlightInv
  <2>5. FinishedInv(e)'
    <3>1. GotFinished(e)' => GotFinished(e)
      <4>1. CASE r_epoch[e] = 1
        BY ZenonT(30), <4>1, <1>g DEF GotFinished
      <4>2. CASE r_epoch[e] # 1
        BY ZenonT(30), <4>2, <1>v DEF GotFinished
      <4> QED BY ZenonT(30), <4>1, <4>2
    <3>0. num_timeouts[e] \in Nat /\ num_timeouts[p] \in Nat
      BY SMTT(30), <1>i, <1>t, PointTypes
    <3>2. net[e][N(p)] \in Nat
      BY SMTT(30), <1>i, <1>t, <1>p, PointTypes, BoundsAssumption
    <3>3. /\ FinishedRecords(e)' <= FinishedRecords(e)
          /\ FinishedRecords(e) \in Nat /\ FinishedRecords(e)' \in Nat
      BY SMTT(30), <3>0, <3>1, <3>2, <1>u, <1>v, <1>p DEF FinishedRecords
    <3>4. MayRepeat(p)' = MayRepeat(p)
      BY ZenonT(30), <1>u, <1>v DEF MayRepeat
    <3> QED BY SMTT(30), <3>0, <3>3, <3>4, <1>i, <1>v, <1>p, <1>t DEF EndInv, FinishedInv
  <2> QED BY ZenonT(30), <2>1, <2>2, <2>3, <2>4, <2>5 DEF EndInv
<1> QED BY ZenonT(30), <1>1, <1>2, <1>3, <1>t, <1>u, <1>v, <1>f, <1>b, <1>p DEF HandshakeInv

\* At the change of the read epoch no message of the old one is left.
LEMMA SetReadState ==
  ASSUME HandshakeInv, NEW e \in Ends, dtls1_set_read_state(e)
  PROVE  /\ HandshakeInv'
         /\ UNCHANGED <<status, sent, read_seq>>
         /\ pos' = [pos EXCEPT ![e] = @ + 1]
         /\ r_epoch' = [r_epoch EXCEPT ![e] = @ + 1]
         /\ read_seq[e] + r_epoch[e] < sent[Peer(e)]
<1>p. PICK p : p = Peer(e)
  BY ZenonT(30)
<1>t. /\ p \in Ends /\ p # e /\ Peer(p) = e /\ Ends = {e, p}
      /\ N(e) \in Nat /\ N(p) \in Nat /\ N(p) >= 2 /\ DOMAIN Items[p] = 1 .. N(p)
      /\ Len(Script[e]) \in Nat /\ DOMAIN Script[e] = 1 .. Len(Script[e])
      /\ Len(Script[p]) \in Nat
      /\ DTLS1_MAX_TIMEOUTS \in Nat /\ SSL_MAX_HANDSHAKE_FLIGHT \in Nat
  BY ZenonT(30), <1>p, Constants
<1>i. TypeOK /\ EndInv(e) /\ EndInv(p)
  BY ZenonT(30), <1>t DEF HandshakeInv
<1>r. PICK r, k : k = pos[e] /\ r = ReadBefore(e, k)
  BY ZenonT(30)
<1>b. /\ r \in 0 .. N(p) /\ read_seq[e] \in Nat /\ r_epoch[e] \in 0 .. 1
      /\ read_seq[e] + r_epoch[e] = r
      /\ r_epoch[e] = IF r >= N(p) - 1 THEN 1 ELSE 0
      /\ sent[p] \in 0 .. N(p) /\ r <= sent[p] /\ sent[p] <= r + SSL_MAX_HANDSHAKE_FLIGHT
      /\ incoming[e] \in SUBSET Nat /\ sent[e] \in 0 .. N(e)
      /\ sent[e] = SentBefore(e, k)
  BY ZenonT(30), <1>i, <1>p, <1>r, <1>t, PointBounds, PointTypes DEF EndInv, CountersInv, OrderInv
<1>g. /\ k \in 1 .. Len(Script[e]) /\ Script[e][k].op = "recv_ccs"
      /\ status[e] = "handshake" /\ has_ccs[e]
  BY ZenonT(30), <1>t, <1>r DEF dtls1_set_read_state, AtStep, Step
<1>s. /\ ReadBefore(e, k + 1) = r + 1 /\ SentBefore(e, k + 1) = SentBefore(e, k)
      /\ k + 1 \in 1 .. Len(Script[e]) + 1
      /\ r = N(p) - 2
  <2>1. ReadBefore(e, k + 1) = r + 1
    BY ZenonT(30), <1>g, <1>r, ReadStep
  <2>2. SentBefore(e, k + 1) = SentBefore(e, k)
    <3>1. SentBefore(e, k) \in Nat
      BY SMTT(30), <1>b
    <3>2. SentBefore(e, k + 1) = SentBefore(e, k) + 0
      BY ZenonT(30), <1>g, SentStep
    <3> QED BY SMTT(30), <3>1, <3>2
  <2>3. r = N(p) - 2
    BY ZenonT(30), <1>g, <1>p, <1>r, Totals
  <2>4. k + 1 \in 1 .. Len(Script[e]) + 1
    BY SMTT(30), <1>g, <1>t
  <2> QED BY ZenonT(30), <2>1, <2>2, <2>3, <2>4
<1>z. r_epoch[e] = 0 /\ read_seq[e] = N(p) - 2
  <2>1. r = N(p) - 2 /\ N(p) \in Nat
    BY ZenonT(30), <1>s, <1>t
  <2>2. r_epoch[e] = 0
    BY SMTT(30), <2>1, <1>b
  <2> QED BY SMTT(30), <2>1, <2>2, <1>b
<1>f. r < sent[p]
  <2>1. sent[p] >= N(p) - 1
    BY ZenonT(30), <1>i, <1>g, <1>p DEF EndInv, TransitInv
  <2> QED BY SMTT(30), <2>1, <1>s, <1>b, <1>t
<1>a. incoming[e] = {}
  <2>1. \A s \in incoming[e] : s \in Nat /\ read_seq[e] <= s /\ s < N(p) - 2
    BY ZenonT(30), <1>z, <1>b, <1>i, <1>p DEF EndInv, TransitInv
  <2> QED BY SMTT(30), <2>1, <1>z, <1>t
<1>u. /\ r_epoch' = [r_epoch EXCEPT ![e] = @ + 1]
      /\ has_ccs' = [has_ccs EXCEPT ![e] = FALSE]
      /\ pos' = [pos EXCEPT ![e] = @ + 1]
      /\ status' = status /\ read_seq' = read_seq /\ incoming' = incoming
  BY ZenonT(30), <1>a DEF dtls1_set_read_state
<1>v. /\ sent' = sent /\ flight' = flight /\ complete' = complete /\ timer' = timer
      /\ num_timeouts' = num_timeouts /\ flight_has_reply' = flight_has_reply
      /\ net' = net /\ lost' = lost
  BY ZenonT(30) DEF dtls1_set_read_state, sender
<1>e. r_epoch'[e] = 1 /\ has_ccs'[e] = FALSE /\ pos'[e] = k + 1
  BY SMTT(30), <1>u, <1>i, <1>r, <1>z DEF TypeOK
<1>q. r_epoch'[p] = r_epoch[p] /\ has_ccs'[p] = has_ccs[p] /\ pos'[p] = pos[p]
  BY ZenonT(30), <1>u, <1>i, <1>t DEF TypeOK
<1>1. TypeOK'
  <2>1. r_epoch' \in [Ends -> Nat] /\ pos' \in [Ends -> Nat]
    BY SMTT(30), <1>u, <1>i DEF TypeOK
  <2>2. has_ccs' \in [Ends -> BOOLEAN]
    BY ZenonT(30), <1>u, <1>i DEF TypeOK
  <2> QED BY ZenonT(30), <2>1, <2>2, <1>u, <1>v, <1>i DEF TypeOK
<1>2. EndInv(p)'
  BY ZenonT(30), <1>q, <1>i, <1>t, <1>u, <1>v, Frame
<1>3. EndInv(e)'
  <2>1. CountersInv(e)'
    BY SMTT(30), <1>e, <1>u, <1>v, <1>s, <1>z, <1>b, <1>t, <1>p DEF CountersInv
  <2>2. OrderInv(e)'
    BY SMTT(30), <1>e, <1>v, <1>s, <1>f, <1>b, <1>t, <1>p DEF OrderInv
  <2>3. TransitInv(e)'
    BY ZenonT(30), <1>a, <1>i, <1>e, <1>u, <1>v DEF EndInv, TransitInv
  <2>4. FlightInv(e)'
    <3>1. k + 1 > 1 /\ k + 1 - 1 = k
      BY SMTT(30), <1>g, <1>t
    <3> QED BY SMTT(30), <3>1, <1>i, <1>e, <1>u, <1>v, <1>g DEF EndInv, FlightInv
  <2>5. FinishedInv(e)'
    <3>1. ~GotFinished(e)'
      BY SMTT(30), <1>a, <1>u, <1>z, <1>p, <1>t DEF GotFinished
    <3>0. num_timeouts[e] \in Nat /\ num_timeouts[p] \in Nat
      BY SMTT(30), <1>i, <1>t, PointTypes
    <3>2. net[e][N(p)] \in Nat
      BY SMTT(30), <1>i, <1>t, <1>p, PointTypes, BoundsAssumption
    <3>3. /\ FinishedRecords(e)' <= FinishedRecords(e)
          /\ FinishedRecords(e) \in Nat /\ FinishedRecords(e)' \in Nat
      BY SMTT(30), <3>0, <3>1, <3>2, <1>u, <1>v, <1>p DEF FinishedRecords
    <3>4. MayRepeat(p)' = MayRepeat(p)
      BY ZenonT(30), <1>u, <1>v DEF MayRepeat
    <3> QED BY SMTT(30), <3>0, <3>3, <3>4, <1>i, <1>v, <1>p, <1>t DEF EndInv, FinishedInv
  <2> QED BY ZenonT(30), <2>1, <2>2, <2>3, <2>4, <2>5 DEF EndInv
<1> QED BY ZenonT(30), <1>1, <1>2, <1>3, <1>t, <1>u, <1>v, <1>f, <1>b, <1>p DEF HandshakeInv

\* An endpoint whose timer expires repeats its flight or gives up.
LEMMA HandleTimeout ==
  ASSUME HandshakeInv, NEW e \in Ends, DTLSv1_handle_timeout(e)
  PROVE  HandshakeInv'
<1>p. PICK p : p = Peer(e)
  BY ZenonT(30)
<1>t. /\ p \in Ends /\ p # e /\ Peer(p) = e /\ Ends = {e, p}
      /\ N(e) \in Nat /\ N(e) >= 2 /\ DOMAIN Items[e] = 1 .. N(e)
      /\ Len(Script[e]) \in Nat /\ DOMAIN Script[e] = 1 .. Len(Script[e])
      /\ DTLS1_MAX_TIMEOUTS \in Nat
  BY ZenonT(30), <1>p, Constants
<1>i. TypeOK /\ EndInv(e) /\ EndInv(p)
  BY ZenonT(30), <1>t DEF HandshakeInv
<1>k. PICK t, c : t = num_timeouts[e] /\ c = Transmit(net[p], flight[e])
  BY ZenonT(30)
<1>g. /\ status[e] = "handshake" /\ timer[e] /\ Reading(e)
      /\ pos[e] \in 1 .. Len(Script[e])
  BY ZenonT(30), <1>t DEF DTLSv1_handle_timeout, Reading, AtStep
<1>b. t \in Nat /\ t <= DTLS1_MAX_TIMEOUTS
  BY SMTT(30), <1>i, <1>g, <1>k, PointTypes DEF EndInv, FlightInv
<1>n. net[p] \in [1 .. N(e) -> 0 .. MaxCopies]
  BY ZenonT(30), <1>i, <1>t DEF TypeOK
<1>w. /\ c \in [1 .. N(e) -> 0 .. MaxCopies]
      /\ \A i \in 1 .. N(e) :
            /\ c[i] \in Nat /\ net[p][i] \in Nat /\ c[i] <= net[p][i] + 1
            /\ c[i] > 0 => i <= sent[e]
  <2>1. \A i \in 1 .. N(e) : net[p][i] > 0 => i <= sent[e]
    BY ZenonT(30), <1>i, <1>t DEF EndInv, TransitInv
  <2> QED BY ZenonT(30), <2>1, <1>i, <1>n, <1>p, <1>k, Repeat
<1>u. /\ pos' = pos /\ sent' = sent /\ flight' = flight /\ complete' = complete
      /\ timer' = timer /\ flight_has_reply' = flight_has_reply /\ r_epoch' = r_epoch
      /\ read_seq' = read_seq /\ incoming' = incoming /\ has_ccs' = has_ccs
      /\ lost' = lost
  BY ZenonT(30) DEF DTLSv1_handle_timeout, reader
<1>e. num_timeouts'[e] = t + 1 /\ num_timeouts'[p] = num_timeouts[p]
  BY ZenonT(30), <1>i, <1>k, <1>t DEF DTLSv1_handle_timeout, count_and_retransmit, TypeOK
<1>x. /\ num_timeouts' \in [Ends -> 0 .. DTLS1_MAX_TIMEOUTS + 1]
  <2>1. num_timeouts' = [num_timeouts EXCEPT ![e] = t + 1]
    BY ZenonT(30), <1>i, <1>k DEF DTLSv1_handle_timeout, count_and_retransmit, TypeOK
  <2> QED BY SMTT(30), <2>1, <1>b, <1>t, <1>i DEF TypeOK
<1>1. CASE too_many_timeouts(e)
  <2>1. net' = net /\ status' = [status EXCEPT ![e] = "timed_out"]
    BY ZenonT(30), <1>1 DEF DTLSv1_handle_timeout, count_and_retransmit
  <2>2. status'[e] = "timed_out" /\ status'[p] = status[p]
    BY ZenonT(30), <2>1, <1>i, <1>t DEF TypeOK
  <2>3. TypeOK'
    BY ZenonT(30), <2>1, <1>x, <1>u, <1>i DEF TypeOK, Status
  <2>4. EndInv(e)'
    <3>1. CountersInv(e)' /\ OrderInv(e)' /\ TransitInv(e)' /\ FlightInv(e)'
      BY ZenonT(30), <2>1, <2>2, <1>i, <1>u
         DEF EndInv, CountersInv, OrderInv, TransitInv, FlightInv
    <3>2. FinishedRecords(e)' = FinishedRecords(e) /\ MayRepeat(p)' = MayRepeat(p)
      BY ZenonT(30), <2>1, <2>2, <1>u, <1>g DEF FinishedRecords, GotFinished, MayRepeat
    <3>3. FinishedInv(e)'
      BY ZenonT(30), <3>2, <1>e, <1>i, <1>p DEF EndInv, FinishedInv
    <3> QED BY ZenonT(30), <3>1, <3>3 DEF EndInv
  <2>5. EndInv(p)'
    <3>1. CountersInv(p)' /\ OrderInv(p)' /\ TransitInv(p)' /\ FlightInv(p)'
      BY ZenonT(30), <2>1, <2>2, <1>i, <1>u, <1>e
         DEF EndInv, CountersInv, OrderInv, TransitInv, FlightInv
    <3>2. FinishedRecords(p)' = FinishedRecords(p) /\ ~MayRepeat(e)'
      BY ZenonT(30), <2>1, <2>2, <1>u, <1>e DEF FinishedRecords, GotFinished, MayRepeat
    <3>3. FinishedInv(p)'
      BY ZenonT(30), <3>2, <1>i, <1>t DEF EndInv, FinishedInv
    <3> QED BY ZenonT(30), <3>1, <3>3 DEF EndInv
  <2> QED BY ZenonT(30), <2>3, <2>4, <2>5, <1>t DEF HandshakeInv
<1>2. CASE ~too_many_timeouts(e)
  <2>1. net' = [net EXCEPT ![p] = c] /\ status' = status
    <3>1. net' = [net EXCEPT ![Peer(e)] = Transmit(@, flight[e])]
      BY ZenonT(30), <1>2 DEF DTLSv1_handle_timeout, count_and_retransmit
    <3>2. status' = [status EXCEPT ![e] = @]
      BY ZenonT(30), <1>2 DEF DTLSv1_handle_timeout
    <3> QED BY ZenonT(30), <3>1, <3>2, <1>i, <1>k, <1>p DEF TypeOK
  <2>2. net'[p] = c /\ net'[e] = net[e] /\ DOMAIN net' = Ends
    BY ZenonT(30), <2>1, <1>i, <1>t DEF TypeOK
  <2>3. t + 1 <= DTLS1_MAX_TIMEOUTS
    BY SMTT(30), <1>2, <1>k, <1>b, <1>t DEF too_many_timeouts
  <2>4. TypeOK'
    <3>1. \A y \in Ends : net'[y] \in [DOMAIN Items[Peer(y)] -> 0 .. MaxCopies]
      BY ZenonT(30), <2>2, <1>w, <1>t, <1>i DEF TypeOK
    <3> QED BY ZenonT(30), <3>1, <2>1, <2>2, <1>x, <1>u, <1>i DEF TypeOK
  <2>5. EndInv(e)'
    <3>1. CountersInv(e)' /\ OrderInv(e)' /\ TransitInv(e)'
      BY ZenonT(30), <2>2, <1>i, <1>u DEF EndInv, CountersInv, OrderInv, TransitInv
    <3>2. FlightInv(e)'
      <4>1. pos[e] # Len(Script[e]) + 1
        BY SMTT(30), <1>g, <1>t
      <4> QED BY ZenonT(30), <4>1, <2>1, <2>3, <1>e, <1>i, <1>u DEF EndInv, FlightInv
    <3>3. FinishedRecords(e)' = FinishedRecords(e) /\ MayRepeat(p)' = MayRepeat(p)
      BY ZenonT(30), <2>1, <2>2, <1>u, <1>g DEF FinishedRecords, GotFinished, MayRepeat
    <3>4. FinishedInv(e)'
      BY ZenonT(30), <3>3, <1>e, <1>i, <1>p DEF EndInv, FinishedInv
    <3> QED BY ZenonT(30), <3>1, <3>2, <3>4 DEF EndInv
  <2>6. EndInv(p)'
    <3>1. CountersInv(p)' /\ OrderInv(p)' /\ FlightInv(p)'
      BY ZenonT(30), <2>1, <1>i, <1>u, <1>e DEF EndInv, CountersInv, OrderInv, FlightInv
    <3>2. TransitInv(p)'
      BY ZenonT(30), <2>2, <1>w, <1>i, <1>u, <1>t DEF EndInv, TransitInv
    <3>3. N(e) \in 1 .. N(e) /\ num_timeouts[p] \in Nat
      BY SMTT(30), <1>t, <1>i, PointTypes
    <3>4. /\ FinishedRecords(p)' <= FinishedRecords(p) + 1
          /\ FinishedRecords(p) \in Nat /\ FinishedRecords(p)' \in Nat
      <4>1. GotFinished(p)' = GotFinished(p)
        BY ZenonT(30), <1>u DEF GotFinished
      <4>2. /\ net'[p][N(e)] \in Nat /\ net[p][N(e)] \in Nat
            /\ net'[p][N(e)] <= net[p][N(e)] + 1
        BY ZenonT(30), <3>3, <2>2, <1>w
      <4>3. PICK g \in Nat, d \in Nat :
              /\ g = (IF GotFinished(p) THEN 1 ELSE 0)
              /\ d = (IF status[p] = "done" THEN num_timeouts[p] ELSE 0)
        BY SMTT(30), <3>3
      <4>4. /\ FinishedRecords(p) = net[p][N(e)] + g + d
            /\ FinishedRecords(p)' = net'[p][N(e)] + g + d
        BY ZenonT(30), <4>1, <4>3, <2>1, <1>e, <1>t DEF FinishedRecords
      <4> QED BY SMTT(30), <4>2, <4>4
    <3>5. sent[e] = N(e) => FinishedRecords(p) <= t + 1
      BY ZenonT(30), <1>i, <1>g, <1>k, <1>t DEF EndInv, FinishedInv, MayRepeat
    <3>6. ASSUME sent[e] = N(e) PROVE FinishedInv(p)'
      <4>1. FinishedRecords(p)' <= t + 1 + 1 /\ FinishedRecords(p)' <= DTLS1_MAX_TIMEOUTS + 1
        <5>1. PICK a \in Nat, b \in Nat : a = FinishedRecords(p) /\ b = FinishedRecords(p)'
          BY ZenonT(30), <3>4
        <5>2. b <= a + 1 /\ a <= t + 1
          BY ZenonT(30), <5>1, <3>4, <3>5, <3>6
        <5>3. a \in Nat /\ b \in Nat /\ DTLS1_MAX_TIMEOUTS \in Nat
          BY ZenonT(30), <5>1, <1>t
        <5>4. b <= t + 1 + 1 /\ b <= DTLS1_MAX_TIMEOUTS + 1
          BY SMTT(30), <5>2, <5>3, <2>3, <1>b
        <5> QED BY ZenonT(30), <5>1, <5>4
      <4> QED BY ZenonT(30), <4>1, <1>e, <1>t DEF FinishedInv
    <3>7. ASSUME sent[e] # N(e) PROVE FinishedInv(p)'
      <4>1. sent[e] < N(e) /\ sent[e] \in Nat
        BY SMTT(30), <3>7, <1>i, <1>t, PointBounds DEF EndInv
      <4>2. c[N(e)] = 0
        BY SMTT(30), <4>1, <3>3, <1>w, <1>t
      <4>3. GotFinished(p)' = GotFinished(p) /\ ~MayRepeat(e)'
        BY ZenonT(30), <3>7, <1>u DEF GotFinished, MayRepeat
      <4>4. FinishedRecords(p)' <= FinishedRecords(p)
        BY SMTT(30), <4>2, <4>3, <3>3, <2>1, <2>2, <1>w, <1>e, <1>t DEF FinishedRecords
      <4>5. FinishedRecords(p) <= DTLS1_MAX_TIMEOUTS + 1
        BY ZenonT(30), <1>i DEF EndInv, FinishedInv
      <4>6. FinishedRecords(p)' <= DTLS1_MAX_TIMEOUTS + 1
        <5>1. PICK a \in Nat, b \in Nat : a = FinishedRecords(p) /\ b = FinishedRecords(p)'
          BY ZenonT(30), <3>4
        <5>2. b <= a /\ a <= DTLS1_MAX_TIMEOUTS + 1
          BY ZenonT(30), <5>1, <4>4, <4>5
        <5>3. a \in Nat /\ b \in Nat /\ DTLS1_MAX_TIMEOUTS \in Nat
          BY ZenonT(30), <5>1, <1>t
        <5>4. b <= DTLS1_MAX_TIMEOUTS + 1
          BY SMTT(30), <5>2, <5>3
        <5> QED BY ZenonT(30), <5>1, <5>4
      <4> QED BY ZenonT(30), <4>3, <4>6, <1>t DEF FinishedInv
    <3> QED BY ZenonT(30), <3>1, <3>2, <3>6, <3>7 DEF EndInv
  <2> QED BY ZenonT(30), <2>4, <2>5, <2>6, <1>t DEF HandshakeInv
<1> QED BY ZenonT(30), <1>1, <1>2

\* An endpoint completes, and keeps its last flight if nothing answered it.
LEMMA Complete ==
  ASSUME HandshakeInv, NEW e \in Ends, dtls1_on_handshake_complete(e)
  PROVE  HandshakeInv'
<1>p. PICK p : p = Peer(e)
  BY ZenonT(30)
<1>t. /\ p \in Ends /\ p # e /\ Peer(p) = e /\ Ends = {e, p}
      /\ N(e) \in Nat /\ N(p) \in Nat /\ N(p) >= 2 /\ N(e) >= 2
      /\ Len(Script[e]) \in Nat /\ Len(Script[e]) > 0
      /\ \A k \in 1 .. Len(Script[e]) : Script[e][k].op \in {"flight", "recv", "recv_ccs"}
      /\ DTLS1_MAX_TIMEOUTS \in Nat
  BY ZenonT(30), <1>p, Constants
<1>i. TypeOK /\ EndInv(e) /\ EndInv(p)
  BY ZenonT(30), <1>t DEF HandshakeInv
<1>l. PICK l : l = Len(Script[e])
  BY ZenonT(30)
<1>m. l \in Nat /\ l \in 1 .. l /\ l + 1 > 1 /\ l + 1 - 1 = l
  BY SMTT(30), <1>l, <1>t
<1>g. status[e] = "handshake" /\ pos[e] = l + 1
  BY ZenonT(30), <1>l DEF dtls1_on_handshake_complete
<1>b. /\ ReadBefore(e, pos[e]) = N(p) /\ sent[e] = N(e)
      /\ r_epoch[e] = 1 /\ read_seq[e] = N(p) - 1
  <2>1. ReadBefore(e, pos[e]) = N(p) /\ SentBefore(e, pos[e]) = N(e)
    BY ZenonT(30), <1>g, <1>l, <1>p, Totals
  <2>2. sent[e] = N(e) /\ r_epoch[e] = 1 /\ read_seq[e] + 1 = N(p) /\ read_seq[e] \in Nat
    BY SMTT(30), <2>1, <1>i, <1>p, <1>t, PointTypes DEF EndInv, CountersInv
  <2> QED BY SMTT(30), <2>1, <2>2, <1>t
\* The last step is a flight that nothing answers, or the Finished that does.
<1>f. /\ Script[e][l].op = "flight" =>
            ~flight_has_reply[e] /\ flight[e] # {} /\ num_timeouts[e] = 0
      /\ Script[e][l].op # "flight" => flight_has_reply[e]
  <2>1. Script[e][l].op # "recv_ccs"
    <3> SUFFICES ASSUME Script[e][l].op = "recv_ccs" PROVE FALSE
      BY ZenonT(30)
    <3>1. ReadBefore(e, l) = N(p) - 2
      BY ZenonT(30), <1>l, <1>m, <1>p, Totals
    <3>2. ReadBefore(e, l + 1) = ReadBefore(e, l) + 1
      BY ZenonT(30), <1>l, <1>m, ReadStep
    <3> QED BY SMTT(30), <3>1, <3>2, <1>b, <1>g, <1>t
  <2>2. Script[e][l].op \in {"flight", "recv", "recv_ccs"}
    BY ZenonT(30), <1>t, <1>l, <1>m
  <2>3. sent[e] > 0
    BY SMTT(30), <1>b, <1>t
  <2> QED BY SMTT(30), <2>1, <2>2, <2>3, <1>i, <1>g, <1>l, <1>m DEF EndInv, FlightInv
<1>u. /\ status' = [status EXCEPT ![e] = "done"]
      /\ timer' = [timer EXCEPT ![e] = FALSE]
      /\ num_timeouts' = [num_timeouts EXCEPT ![e] = 0]
      /\ flight' = [flight EXCEPT ![e] = IF flight_has_reply[e] THEN {} ELSE @]
      /\ complete' = [complete EXCEPT ![e] = @ /\ ~flight_has_reply[e]]
      /\ flight_has_reply' = [flight_has_reply EXCEPT ![e] = FALSE]
  BY ZenonT(30) DEF dtls1_on_handshake_complete
<1>v. /\ pos' = pos /\ sent' = sent /\ r_epoch' = r_epoch /\ read_seq' = read_seq
      /\ incoming' = incoming /\ has_ccs' = has_ccs /\ net' = net /\ lost' = lost
  BY ZenonT(30) DEF dtls1_on_handshake_complete, reader
<1>e. /\ status'[e] = "done" /\ timer'[e] = FALSE /\ num_timeouts'[e] = 0
      /\ flight'[e] = (IF flight_has_reply[e] THEN {} ELSE flight[e])
      /\ flight_has_reply'[e] = FALSE
  BY ZenonT(30), <1>u, <1>i DEF TypeOK
<1>q. /\ status'[p] = status[p] /\ timer'[p] = timer[p]
      /\ num_timeouts'[p] = num_timeouts[p] /\ flight'[p] = flight[p]
      /\ complete'[p] = complete[p] /\ flight_has_reply'[p] = flight_has_reply[p]
  BY ZenonT(30), <1>u, <1>i, <1>t DEF TypeOK
<1>1. TypeOK'
  <2>1. /\ status' \in [Ends -> Status]
        /\ num_timeouts' \in [Ends -> 0 .. DTLS1_MAX_TIMEOUTS + 1]
    BY SMTT(30), <1>u, <1>i, <1>t DEF TypeOK, Status
  <2>2. flight' \in [Ends -> SUBSET Nat]
    <3>1. (IF flight_has_reply[e] THEN {} ELSE flight[e]) \in SUBSET Nat
      BY ZenonT(30), <1>i, PointTypes
    <3> QED BY ZenonT(30), <3>1, <1>u, <1>i DEF TypeOK
  <2>3. /\ timer' \in [Ends -> BOOLEAN] /\ complete' \in [Ends -> BOOLEAN]
        /\ flight_has_reply' \in [Ends -> BOOLEAN]
    BY ZenonT(30), <1>u, <1>i DEF TypeOK
  <2> QED BY ZenonT(30), <2>1, <2>2, <2>3, <1>v, <1>i DEF TypeOK
<1>2. EndInv(e)'
  <2>1. CountersInv(e)' /\ OrderInv(e)'
    BY ZenonT(30), <1>i, <1>v DEF EndInv, CountersInv, OrderInv
  <2>2. TransitInv(e)'
    <3>1. flight'[e] \subseteq flight[e]
      BY ZenonT(30), <1>e
    <3> QED BY ZenonT(30), <3>1, <1>i, <1>v DEF EndInv, TransitInv
  <2>3. FlightInv(e)'
    <3>1. flight'[e] = {} => Script[e][l].op # "flight"
      BY ZenonT(30), <1>e, <1>f
    <3> QED BY SMTT(30), <3>1, <1>e, <1>v, <1>g, <1>l, <1>t DEF FlightInv
  <2>4. FinishedInv(e)'
    <3>1. GotFinished(e) /\ GotFinished(e)'
      BY ZenonT(30), <1>b, <1>p, <1>v DEF GotFinished
    <3>2. net[e][N(p)] \in Nat
      <4>1. \A i \in 1 .. N(p) : net[e][i] \in 0 .. MaxCopies
        BY ZenonT(30), <1>i, <1>p, PointTypes
      <4>2. N(p) \in 1 .. N(p)
        BY SMTT(30), <1>t
      <4> QED BY SMTT(30), <4>1, <4>2, BoundsAssumption
    <3>3. FinishedRecords(e)' = FinishedRecords(e)
      BY ZenonT(30), <3>1, <3>2, <1>e, <1>v, <1>g, <1>p DEF FinishedRecords
    <3>4. MayRepeat(p)' = MayRepeat(p)
      BY ZenonT(30), <1>q, <1>v DEF MayRepeat
    <3> QED BY ZenonT(30), <3>3, <3>4, <1>q, <1>i, <1>p DEF EndInv, FinishedInv
  <2> QED BY ZenonT(30), <2>1, <2>2, <2>3, <2>4 DEF EndInv
<1>3. EndInv(p)'
  <2>1. CountersInv(p)' /\ OrderInv(p)'
    BY ZenonT(30), <1>i, <1>v DEF EndInv, CountersInv, OrderInv
  <2>2. TransitInv(p)' /\ FlightInv(p)'
    BY ZenonT(30), <1>i, <1>v, <1>q DEF EndInv, TransitInv, FlightInv
  <2>3. FinishedInv(p)'
    <3>1. FinishedRecords(p)' = FinishedRecords(p)
      BY ZenonT(30), <1>v, <1>q DEF FinishedRecords, GotFinished
    <3>2. MayRepeat(e)' => MayRepeat(e) /\ num_timeouts'[e] = num_timeouts[e]
      BY ZenonT(30), <1>e, <1>f, <1>g, <1>v, <1>b DEF MayRepeat
    <3> QED BY ZenonT(30), <3>1, <3>2, <1>i, <1>t DEF EndInv, FinishedInv
  <2> QED BY ZenonT(30), <2>1, <2>2, <2>3 DEF EndInv
<1> QED BY ZenonT(30), <1>1, <1>2, <1>3, <1>t DEF HandshakeInv

-----------------------------------------------------------------------------
\* A step that stutters keeps the invariant.
LEMMA Stutter ==
  ASSUME HandshakeInv, UNCHANGED vars
  PROVE  HandshakeInv'
<1>1. /\ pos' = pos /\ status' = status /\ sent' = sent /\ flight' = flight
      /\ complete' = complete /\ timer' = timer /\ num_timeouts' = num_timeouts
      /\ flight_has_reply' = flight_has_reply /\ r_epoch' = r_epoch
      /\ read_seq' = read_seq /\ incoming' = incoming /\ has_ccs' = has_ccs
      /\ net' = net /\ lost' = lost
  BY ZenonT(30) DEF vars, sender, reader
<1>2. TypeOK'
  BY ZenonT(30), <1>1 DEF HandshakeInv, TypeOK
<1>3. ASSUME NEW e \in Ends PROVE EndInv(e)'
  <2>1. EndInv(e)
    BY ZenonT(30) DEF HandshakeInv
  <2> QED BY ZenonT(30), <2>1, <1>1, Frame
<1> QED BY ZenonT(30), <1>2, <1>3 DEF HandshakeInv

\* Every step keeps the invariant.
LEMMA NextInv == HandshakeInv /\ [Next]_vars => HandshakeInv'
<1> SUFFICES ASSUME HandshakeInv, [Next]_vars PROVE HandshakeInv'
  BY ZenonT(30)
<1>1. ASSUME NEW e \in Ends, NEW i \in DOMAIN net[e],
             \/ dtls_open_record_discard(e, i) \/ Lose(e, i)
             \/ dtls1_open_handshake(e, i) \/ dtls1_open_app_data(e, i)
      PROVE  HandshakeInv'
  BY ZenonT(30), <1>1, Discard, OpenHandshake, OpenAppData
<1>2. ASSUME NEW e \in Ends,
             \/ send_flight(e) \/ DTLSv1_handle_timeout(e)
             \/ dtls1_on_handshake_complete(e)
             \/ dtls1_next_message(e) \/ dtls1_set_read_state(e)
      PROVE  HandshakeInv'
  BY ZenonT(30), <1>2, SendFlight, HandleTimeout, Complete, NextMessage, SetReadState
<1>3. ASSUME UNCHANGED vars PROVE HandshakeInv'
  BY ZenonT(30), <1>3, Stutter
<1> QED BY ZenonT(30), <1>1, <1>2, <1>3 DEF Next, Settled

\* The invariant of the handshake: what is read was sent, what is held belongs
\* to the epoch of the reader, nothing is an error, and no endpoint sees more
\* records of the peer's Finished than the limit on timeouts allows.
THEOREM HandshakeInvariant == Spec => []HandshakeInv
BY InitInv, NextInv, PTL DEF Spec

\* The state of both endpoints keeps its types (DTLS1_STATE).
THEOREM HandshakeTypes == Spec => []TypeOK
<1>1. HandshakeInv => TypeOK
  BY ZenonT(30) DEF HandshakeInv
<1> QED BY <1>1, HandshakeInvariant, PTL

-----------------------------------------------------------------------------
\* The reason why nobody is stranded: an endpoint waits without a timer only
\* before its first flight, when the other has something to send or a timer of
\* its own; and one that is done has discarded its last flight only because it
\* was answered, when the other has nothing left to wait for.
LEMMA StrandedStep == HandshakeInv => NobodyStranded
<1> SUFFICES ASSUME HandshakeInv, NEW x \in Ends, status[x] = "handshake",
                    \A e \in Ends : status[e] # "timed_out"
             PROVE  \E e \in Ends :
                      /\ status[e] = "handshake"
                      /\ Reading(e) => timer[e]
                      /\ status[Peer(e)] = "done" /\ Reading(e)
                           => \/ flight[Peer(e)] # {}
                              \/ \E i \in DOMAIN net[e] : net[e][i] > 0
  BY ZenonT(30) DEF NobodyStranded
<1>a. \A e \in Ends :
        /\ Peer(e) \in Ends /\ Peer(Peer(e)) = e /\ Ends = {e, Peer(e)}
        /\ TypeOK /\ EndInv(e)
        /\ sent[e] \in Nat /\ N(e) \in Nat /\ N(e) >= 2
  BY ZenonT(30), Peers, Shapes, PointTypes DEF HandshakeInv
<1>b. \A e \in Ends : status[e] = "done" =>
        /\ pos[e] = Len(Script[e]) + 1 /\ sent[Peer(e)] = N(Peer(e)) /\ sent[e] = N(e)
  <2> SUFFICES ASSUME NEW e \in Ends, status[e] = "done"
               PROVE  /\ pos[e] = Len(Script[e]) + 1 /\ sent[Peer(e)] = N(Peer(e))
                      /\ sent[e] = N(e)
    BY ZenonT(30)
  <2>1. pos[e] = Len(Script[e]) + 1
    BY ZenonT(30), <1>a DEF EndInv, FlightInv
  <2>2. ReadBefore(e, pos[e]) = N(Peer(e)) /\ SentBefore(e, pos[e]) = N(e)
    BY ZenonT(30), <2>1, Totals
  <2>3. /\ ReadBefore(e, pos[e]) <= sent[Peer(e)] /\ sent[e] = SentBefore(e, pos[e])
        /\ sent[Peer(e)] \in 0 .. N(Peer(e))
    BY ZenonT(30), <1>a, PointBounds DEF EndInv, CountersInv, OrderInv
  <2> QED BY SMTT(30), <2>1, <2>2, <2>3, <1>a
\* An endpoint in its handshake that has sent something is not stranded.
<1>1. ASSUME NEW e \in Ends, status[e] = "handshake", sent[e] > 0
      PROVE  /\ timer[e]
             /\ status[Peer(e)] = "done" /\ Reading(e) => flight[Peer(e)] # {}
  <2>1. timer[e]
    BY ZenonT(30), <1>1, <1>a DEF EndInv, FlightInv
  <2>2. ASSUME status[Peer(e)] = "done", flight[Peer(e)] = {} PROVE ~Reading(e)
    <3>1. Script[Peer(e)][Len(Script[Peer(e)])].op # "flight"
      BY ZenonT(30), <2>2, <1>a DEF EndInv, FlightInv
    <3>2. Script[e][Len(Script[e])].op = "flight"
      <4>1. PICK y \in Ends : Script[y][Len(Script[y])].op = "flight"
        BY ZenonT(30), ScriptAssumption
      <4> QED BY ZenonT(30), <4>1, <3>1, <1>a
    <3>3. SentBefore(e, pos[e]) = N(e) /\ pos[e] \in 1 .. Len(Script[e]) + 1
      BY ZenonT(30), <2>2, <1>a, <1>b DEF EndInv, CountersInv
    <3>4. pos[e] = Len(Script[e]) + 1
      BY ZenonT(30), <3>2, <3>3, AllSent
    <3>5. pos[e] \notin DOMAIN Script[e]
      BY SMTT(30), <3>4, Shapes
    <3> QED BY ZenonT(30), <3>5, <1>1 DEF Reading, AtStep
  <2> QED BY ZenonT(30), <2>1, <2>2
<1>2. CASE sent[x] > 0
  BY ZenonT(30), <1>1, <1>2
<1>3. CASE sent[x] = 0
  <2>1. PICK f \in Ends : Script[f][1].op = "flight"
    BY ZenonT(30), ScriptAssumption
  <2>2. CASE sent[f] > 0
    <3>1. status[f] = "handshake"
      <4>1. status[f] # "error" /\ status[f] # "timed_out" /\ status[f] \in Status
        BY ZenonT(30), <1>a, PointTypes DEF EndInv, FlightInv
      <4>2. status[f] # "done"
        <5>1. f = x \/ Peer(f) = x
          BY ZenonT(30), <1>a
        <5> QED BY SMTT(30), <5>1, <1>a, <1>b, <1>3, <2>2
      <4> QED BY ZenonT(30), <4>1, <4>2 DEF Status
    <3> QED BY ZenonT(30), <3>1, <2>2, <1>1
  <2>3. CASE sent[f] = 0
    <3>1. pos[f] = 1
      <4>1. SentBefore(f, pos[f]) = 0 /\ pos[f] \in 1 .. Len(Script[f]) + 1
        BY ZenonT(30), <2>3, <1>a DEF EndInv, CountersInv
      <4>2. Len(Script[f]) \in Nat /\ Len(Script[f]) > 0
        BY ZenonT(30), Shapes, Totals
      <4>3. 1 \in 1 .. Len(Script[f]) /\ DOMAIN Script[f] = 1 .. Len(Script[f])
        BY SMTT(30), <4>2, Shapes
      <4>4. Script[f][1].n \in 1 .. SSL_MAX_HANDSHAKE_FLIGHT
        BY ZenonT(30), <4>3, <2>1, ScriptAssumption
      <4>5. SentBefore(f, 2) = Script[f][1].n /\ 2 \in 1 .. Len(Script[f]) + 1
        <5>1. SentBefore(f, 1 + 1) = SentBefore(f, 1) + Script[f][1].n /\ SentBefore(f, 1) = 0
          BY ZenonT(30), <4>3, <2>1, SentStep
        <5> QED BY SMTT(30), <5>1, <4>2, <4>4, BoundsAssumption
      <4>6. pos[f] >= 2 => SentBefore(f, 2) <= SentBefore(f, pos[f])
        BY ZenonT(30), <4>1, <4>5, Monotone
      <4> QED BY SMTT(30), <4>1, <4>2, <4>4, <4>5, <4>6, BoundsAssumption
    <3>2. status[f] = "handshake"
      <4>1. status[f] # "error" /\ status[f] # "timed_out" /\ status[f] \in Status
        BY ZenonT(30), <1>a, PointTypes DEF EndInv, FlightInv
      <4>2. status[f] # "done"
        BY SMTT(30), <1>a, <1>b, <2>3
      <4> QED BY ZenonT(30), <4>1, <4>2 DEF Status
    <3>3. ~Reading(f)
      BY ZenonT(30), <3>1, <3>2, <2>1 DEF Reading, AtStep, Step
    <3> QED BY ZenonT(30), <3>2, <3>3
  <2> QED BY SMTT(30), <2>2, <2>3, <1>a
<1> QED BY SMTT(30), <1>2, <1>3, <1>a

\* For every pair of scripts that take turns, whatever the network loses,
\* repeats or reorders, nobody is stranded (dtls1_on_handshake_complete,
\* DTLSv1_handle_timeout).
THEOREM NeverStranded == Spec => []NobodyStranded
BY HandshakeInvariant, StrandedStep, PTL

-----------------------------------------------------------------------------
\* The handshake starts as the reliable one does.
LEMMA InitRefines == Init => Abstract!Init
<1> SUFFICES ASSUME Init PROVE Abstract!Init
  BY ZenonT(30)
<1>1. received = [e \in Ends |-> 0]
  BY SMTT(30) DEF Init, received
<1> QED BY ZenonT(30), <1>1 DEF Init, Abstract!Init

\* Every step of the handshake is one of the reliable handshake, or none.
LEMMA NextRefines ==
  HandshakeInv /\ [Next]_vars => [Abstract!Next]_Abstract!vars
<1> SUFFICES ASSUME HandshakeInv, [Next]_vars
             PROVE  Abstract!Next \/ UNCHANGED Abstract!vars
  BY ZenonT(30)
<1>i. TypeOK
  BY ZenonT(30) DEF HandshakeInv
<1>s. ASSUME UNCHANGED <<pos, status, sent, r_epoch, read_seq>>
      PROVE  UNCHANGED Abstract!vars
  BY ZenonT(30), <1>s DEF received, Abstract!vars
<1>1. ASSUME NEW e \in Ends, NEW i \in DOMAIN net[e],
             \/ dtls_open_record_discard(e, i) \/ Lose(e, i)
             \/ dtls1_open_handshake(e, i) \/ dtls1_open_app_data(e, i)
      PROVE  UNCHANGED Abstract!vars
  <2>1. CASE dtls_open_record_discard(e, i) \/ Lose(e, i)
    BY ZenonT(30), <2>1, <1>s DEF dtls_open_record_discard, Lose, sender, reader
  <2>2. CASE dtls1_open_handshake(e, i)
    BY ZenonT(30), <2>2, <1>s, OpenHandshake
  <2>3. CASE dtls1_open_app_data(e, i)
    BY ZenonT(30), <2>3, <1>s, OpenAppData
  <2> QED BY ZenonT(30), <1>1, <2>1, <2>2, <2>3
<1>2. ASSUME NEW e \in Ends, send_flight(e) PROVE Abstract!Send(e)
  <2>1. received' = received
    BY ZenonT(30), <1>2 DEF send_flight, reader, received
  <2> QED BY ZenonT(30), <1>2, <2>1
          DEF send_flight, AtStep, Step, Abstract!Send, Abstract!Running, Abstract!Step
<1>3. ASSUME NEW e \in Ends, DTLSv1_handle_timeout(e)
      PROVE  Abstract!GiveUp(e) \/ UNCHANGED Abstract!vars
  <2>1. received' = received /\ pos' = pos /\ sent' = sent
    BY ZenonT(30), <1>3 DEF DTLSv1_handle_timeout, reader, received
  <2>2. status[e] = "handshake"
        /\ status' = [status EXCEPT ![e] = IF too_many_timeouts(e) THEN "timed_out" ELSE @]
    BY ZenonT(30), <1>3 DEF DTLSv1_handle_timeout
  <2>3. CASE too_many_timeouts(e)
    BY ZenonT(30), <2>1, <2>2, <2>3 DEF Abstract!GiveUp
  <2>4. CASE ~too_many_timeouts(e)
    <3>1. status' = status
      BY ZenonT(30), <2>2, <2>4, <1>i DEF TypeOK
    <3> QED BY ZenonT(30), <3>1, <2>1 DEF Abstract!vars
  <2> QED BY ZenonT(30), <2>3, <2>4
<1>4. ASSUME NEW e \in Ends, dtls1_on_handshake_complete(e) PROVE Abstract!Finish(e)
  <2>1. received' = received
    BY ZenonT(30), <1>4 DEF dtls1_on_handshake_complete, reader, received
  <2> QED BY ZenonT(30), <1>4, <2>1 DEF dtls1_on_handshake_complete, Abstract!Finish
<1>5. ASSUME NEW e \in Ends, dtls1_next_message(e) PROVE Abstract!Receive(e)
  <2>1. /\ UNCHANGED <<status, sent, r_epoch>>
        /\ pos' = [pos EXCEPT ![e] = @ + 1]
        /\ read_seq' = [read_seq EXCEPT ![e] = @ + 1]
        /\ read_seq[e] + r_epoch[e] < sent[Peer(e)]
    BY ZenonT(30), <1>5, NextMessage
  <2>2. received' = [received EXCEPT ![e] = @ + 1]
    <3>1. \A x \in Ends : read_seq[x] \in Nat /\ r_epoch[x] \in Nat
      BY ZenonT(30), <1>i DEF TypeOK
    <3>2. read_seq'[e] = read_seq[e] + 1 /\ r_epoch'[e] = r_epoch[e]
      BY ZenonT(30), <2>1, <1>i DEF TypeOK
    <3>3. \A x \in Ends : x # e => read_seq'[x] = read_seq[x] /\ r_epoch'[x] = r_epoch[x]
      BY ZenonT(30), <2>1, <1>i DEF TypeOK
    <3>4. read_seq'[e] + r_epoch'[e] = read_seq[e] + r_epoch[e] + 1
      BY SMTT(30), <3>1, <3>2
    <3>5. \A x \in Ends : read_seq'[x] + r_epoch'[x] =
             IF x = e THEN read_seq[e] + r_epoch[e] + 1 ELSE read_seq[x] + r_epoch[x]
      BY ZenonT(30), <3>3, <3>4
    <3> QED BY ZenonT(30), <3>5 DEF received
  <2>3. received[e] < sent[Peer(e)]
    BY ZenonT(30), <2>1 DEF received
  <2>4. Abstract!Running(e) /\ Abstract!Step(e).op # "flight"
    BY ZenonT(30), <1>5 DEF dtls1_next_message, AtStep, Step, Abstract!Running, Abstract!Step
  <2> QED BY ZenonT(30), <2>1, <2>2, <2>3, <2>4 DEF Abstract!Receive, Abstract!Peer, Peer
<1>6. ASSUME NEW e \in Ends, dtls1_set_read_state(e) PROVE Abstract!Receive(e)
  <2>1. /\ UNCHANGED <<status, sent, read_seq>>
        /\ pos' = [pos EXCEPT ![e] = @ + 1]
        /\ r_epoch' = [r_epoch EXCEPT ![e] = @ + 1]
        /\ read_seq[e] + r_epoch[e] < sent[Peer(e)]
    BY ZenonT(30), <1>6, SetReadState
  <2>2. received' = [received EXCEPT ![e] = @ + 1]
    <3>1. \A x \in Ends : read_seq[x] \in Nat /\ r_epoch[x] \in Nat
      BY ZenonT(30), <1>i DEF TypeOK
    <3>2. r_epoch'[e] = r_epoch[e] + 1 /\ read_seq'[e] = read_seq[e]
      BY ZenonT(30), <2>1, <1>i DEF TypeOK
    <3>3. \A x \in Ends : x # e => r_epoch'[x] = r_epoch[x] /\ read_seq'[x] = read_seq[x]
      BY ZenonT(30), <2>1, <1>i DEF TypeOK
    <3>4. read_seq'[e] + r_epoch'[e] = read_seq[e] + r_epoch[e] + 1
      BY SMTT(30), <3>1, <3>2
    <3>5. \A x \in Ends : read_seq'[x] + r_epoch'[x] =
             IF x = e THEN read_seq[e] + r_epoch[e] + 1 ELSE read_seq[x] + r_epoch[x]
      BY ZenonT(30), <3>3, <3>4
    <3> QED BY ZenonT(30), <3>5 DEF received
  <2>3. received[e] < sent[Peer(e)]
    BY ZenonT(30), <2>1 DEF received
  <2>4. Abstract!Running(e) /\ Abstract!Step(e).op # "flight"
    BY ZenonT(30), <1>6 DEF dtls1_set_read_state, AtStep, Step, Abstract!Running, Abstract!Step
  <2> QED BY ZenonT(30), <2>1, <2>2, <2>3, <2>4 DEF Abstract!Receive, Abstract!Peer, Peer
<1>7. ASSUME UNCHANGED vars PROVE UNCHANGED Abstract!vars
  BY ZenonT(30), <1>7, <1>s DEF vars, sender, reader
<1> QED BY ZenonT(30), <1>1, <1>2, <1>3, <1>4, <1>5, <1>6, <1>7 DEF Next, Settled, Abstract!Next

\* Over any network that loses, delays, reorders and multiplies records, and for
\* every pair of scripts that take turns, the two state machines see a reliable
\* channel; no record makes a handshake fail, and a completed connection is not
\* taken back by late records (dtls1_open_handshake, dtls1_open_app_data).
THEOREM HandshakeIsReliable == Spec => ImplementsReliable
BY InitInv, NextInv, InitRefines, NextRefines, PTL
   DEF Spec, ImplementsReliable, Abstract!Spec
=============================================================================
