-------------------------- MODULE DtlsHandshakeInv --------------------------
(***************************************************************************)
(* The inductive invariant of the DTLS handshake of two endpoints, what it *)
(* rests on in the scripts, and that it survives every record the network  *)
(* loses or delivers.                                                      *)
(***************************************************************************)
EXTENDS DtlsHandshake, FiniteSetTheorems, TLAPS

N(e) == Len(Items[e])

\* The counters follow the script: what was sent and read is what the steps
\* before this one send and read, and the read epoch changes with the
\* ChangeCipherSpec, the last item but one.
CountersInv(e) ==
  /\ pos[e] \in 1 .. Len(Script[e]) + 1
  /\ sent[e] = SentBefore(e, pos[e])
  /\ read_seq[e] + r_epoch[e] = ReadBefore(e, pos[e])
  /\ r_epoch[e] = IF ReadBefore(e, pos[e]) >= N(Peer(e)) - 1 THEN 1 ELSE 0

\* An endpoint reads only what its peer has sent, and is at most a flight behind.
OrderInv(e) ==
  /\ ReadBefore(e, pos[e]) <= sent[Peer(e)]
  /\ sent[Peer(e)] <= ReadBefore(e, pos[e]) + SSL_MAX_HANDSHAKE_FLIGHT

\* What is under way, or held by the reader, was sent; and what is held belongs
\* to the read epoch and was not read yet.
TransitInv(e) ==
  /\ flight[e] \subseteq 1 .. sent[e]
  /\ \A i \in DOMAIN Items[Peer(e)] : net[e][i] > 0 => i <= sent[Peer(e)]
  /\ has_ccs[e] => r_epoch[e] = 0 /\ sent[Peer(e)] >= N(Peer(e)) - 1
  /\ \A s \in incoming[e] :
        /\ read_seq[e] <= s
        /\ IF r_epoch[e] = 0 THEN s < N(Peer(e)) - 2 /\ s < sent[Peer(e)]
                             ELSE s = N(Peer(e)) - 2 /\ sent[Peer(e)] = N(Peer(e))

\* Where the last flight, its timer and its reply stand.
FlightInv(e) ==
  /\ status[e] # "error"
  /\ status[e] = "done" => pos[e] = Len(Script[e]) + 1
  /\ status[e] # "timed_out" => num_timeouts[e] <= DTLS1_MAX_TIMEOUTS
  /\ status[e] = "handshake" =>
        /\ complete[e] <=> sent[e] > 0
        /\ timer[e] <=> sent[e] > 0
        /\ pos[e] > 1 /\ Script[e][pos[e] - 1].op = "flight"
             => ~flight_has_reply[e] /\ flight[e] # {}
        /\ pos[e] > 1 /\ Script[e][pos[e] - 1].op = "recv" /\ sent[e] > 0
             => flight_has_reply[e]
        /\ pos[e] = Len(Script[e]) + 1 /\ Script[e][pos[e] - 1].op = "flight"
             => num_timeouts[e] = 0
  /\ status[e] = "done" /\ flight[e] = {} => Script[e][Len(Script[e])].op # "flight"

\* The peer's Finished has reached e: it is held, or was read.
GotFinished(e) ==
  r_epoch[e] = 1 /\ (read_seq[e] = N(Peer(e)) - 1 \/ incoming[e] # {})

\* The records of the peer's Finished, by what became of them.
FinishedRecords(e) ==
  net[e][N(Peer(e))] + (IF GotFinished(e) THEN 1 ELSE 0)
    + (IF status[e] = "done" THEN num_timeouts[e] ELSE 0)

MayRepeat(e) ==
  /\ sent[e] = N(e)
  /\ status[e] = "handshake" \/ (status[e] = "done" /\ flight[e] # {})

\* While the peer may still repeat its last flight, e has seen no more of its
\* Finished than the peer has counted timeouts, and the first.
FinishedInv(e) ==
  /\ FinishedRecords(e) <= DTLS1_MAX_TIMEOUTS + 1
  /\ MayRepeat(Peer(e)) => FinishedRecords(e) <= num_timeouts[Peer(e)] + 1

EndInv(e) ==
  CountersInv(e) /\ OrderInv(e) /\ TransitInv(e) /\ FlightInv(e) /\ FinishedInv(e)

HandshakeInv == TypeOK /\ \A e \in Ends : EndInv(e)

-----------------------------------------------------------------------------
\* There are two endpoints, each the peer of the other.
LEMMA Peers ==
  ASSUME NEW e \in Ends
  PROVE  /\ Peer(e) \in Ends /\ Peer(e) # e /\ Peer(Peer(e)) = e
         /\ Ends = {e, Peer(e)}
<1>1. PICK a \in Ends, b \in Ends : a # b /\ Ends = {a, b}
  BY ZenonT(30), EndsAssumption
<1>2. \E q \in Ends : q # e
  BY SMTT(30), <1>1
<1>3. Peer(e) \in Ends /\ Peer(e) # e
  BY ZenonT(30), <1>2 DEF Peer
<1>4. Peer(Peer(e)) \in Ends /\ Peer(Peer(e)) # Peer(e)
  <2>1. \E q \in Ends : q # Peer(e)
    BY ZenonT(30), <1>3
  <2> QED BY ZenonT(30), <2>1 DEF Peer
<1> QED BY ZenonT(30), <1>1, <1>3, <1>4

\* Scripts and items are sequences of their steps and kinds.
LEMMA Shapes ==
  ASSUME NEW e \in Ends
  PROVE  /\ Len(Script[e]) \in Nat /\ DOMAIN Script[e] = 1 .. Len(Script[e])
         /\ \A k \in 1 .. Len(Script[e]) :
               /\ Script[e][k].op \in {"flight", "recv", "recv_ccs"}
               /\ Script[e][k].n \in Nat
         /\ N(e) \in Nat /\ N(e) >= 2 /\ DOMAIN Items[e] = 1 .. N(e)
         /\ \A i \in 1 .. N(e) :
               Items[e][i] = IF i = N(e) THEN "fin"
                             ELSE IF i = N(e) - 1 THEN "ccs" ELSE "msg"
<1>1. Script[e] \in Seq([op : {"flight", "recv", "recv_ccs"}, n : Nat])
  BY ZenonT(30), ScriptAssumption
<1>2. Items[e] \in Seq({"msg", "fin", "ccs"}) /\ Len(Items[e]) >= 2
  BY ZenonT(30), ItemsAssumption
<1>3. \A i \in DOMAIN Items[e] :
         Items[e][i] = CASE i = Len(Items[e]) -> "fin"
                         [] i = Len(Items[e]) - 1 -> "ccs"
                         [] OTHER -> "msg"
  BY ZenonT(30), ItemsAssumption
<1>4. \A i \in 1 .. Len(Items[e]) :
               Items[e][i] = IF i = N(e) THEN "fin"
                             ELSE IF i = N(e) - 1 THEN "ccs" ELSE "msg"
  BY SMTT(30), <1>2, <1>3 DEF N
<1>5. \A k \in 1 .. Len(Script[e]) :
         Script[e][k].op \in {"flight", "recv", "recv_ccs"} /\ Script[e][k].n \in Nat
  <2> TAKE k \in 1 .. Len(Script[e])
  <2>1. \A T : \A q \in Seq(T) : \A i \in 1 .. Len(q) : q[i] \in T
    OBVIOUS
  <2>2. Script[e][k] \in [op : {"flight", "recv", "recv_ccs"}, n : Nat]
    BY ZenonT(30), <1>1, <2>1
  <2> QED BY ZenonT(30), <2>2
<1>6. Len(Script[e]) \in Nat /\ DOMAIN Script[e] = 1 .. Len(Script[e])
  BY SMTT(30), <1>1
<1>7. N(e) \in Nat /\ N(e) >= 2 /\ DOMAIN Items[e] = 1 .. N(e)
  BY SMTT(30), <1>2 DEF N
<1> QED BY ZenonT(30), <1>4, <1>5, <1>6, <1>7 DEF N

\* Reading one step more reads one item more, unless the step is a flight.
LEMMA ReadStep ==
  ASSUME NEW e \in Ends
  PROVE  /\ ReadBefore(e, 1) = 0
         /\ \A k \in 1 .. Len(Script[e]) + 1 : ReadBefore(e, k) \in Nat
         /\ \A k \in 1 .. Len(Script[e]) :
               ReadBefore(e, k + 1) =
                 ReadBefore(e, k) + IF Script[e][k].op = "flight" THEN 0 ELSE 1
<1> DEFINE R(k) == {j \in 1 .. k - 1 : Script[e][j].op # "flight"}
<1>0. \A k \in Nat : ReadBefore(e, k) = Cardinality(R(k))
  BY ZenonT(30) DEF ReadBefore
<1>1. \A k \in Nat : IsFiniteSet(R(k)) /\ Cardinality(R(k)) \in Nat
  <2> TAKE k \in Nat
  <2>1. IsFiniteSet(1 .. k - 1)
    BY SMTT(30), FS_Interval
  <2> QED BY ZenonT(30), <2>1, FS_Subset, FS_CardinalityType
<1>2. R(1) = {}
  OBVIOUS
<1>3. Cardinality(R(1)) = 0
  BY ZenonT(30), <1>2, FS_EmptySet
<1>4. ASSUME NEW k \in 1 .. Len(Script[e])
      PROVE  ReadBefore(e, k + 1) =
                 ReadBefore(e, k) + IF Script[e][k].op = "flight" THEN 0 ELSE 1
  <2> k \in Nat /\ k + 1 \in Nat
    BY SMTT(30), Shapes
  <2>1. CASE Script[e][k].op = "flight"
    <3>1. R(k + 1) = R(k)
      BY SMTT(30), <2>1
    <3>2. ReadBefore(e, k + 1) = ReadBefore(e, k) /\ ReadBefore(e, k) \in Nat
      BY ZenonT(30), <3>1, <1>0, <1>1
    <3> QED BY SMTT(30), <3>2, <2>1
  <2>2. CASE Script[e][k].op # "flight"
    <3>1. R(k + 1) = R(k) \cup {k} /\ k \notin R(k)
      BY SMTT(30), <2>2
    <3>2. Cardinality(R(k) \cup {k}) = Cardinality(R(k)) + 1
      BY ZenonT(30), <3>1, <1>1, FS_AddElement
    <3> QED BY ZenonT(30), <3>1, <3>2, <2>2, <1>0
  <2> QED BY ZenonT(30), <2>1, <2>2
<1>5. Len(Script[e]) \in Nat
  BY ZenonT(30), Shapes
<1>6. \A k \in 1 .. Len(Script[e]) + 1 : ReadBefore(e, k) \in Nat
  <2> HIDE DEF R
  <2> QED BY SMTT(30), <1>0, <1>1, <1>5
<1>7. ReadBefore(e, 1) = 0
  BY ZenonT(30), <1>0, <1>3
<1> HIDE DEF R
<1> QED BY ZenonT(30), <1>4, <1>6, <1>7

\* A flight adds its items to those sent; other steps send nothing.
LEMMA SentStep ==
  ASSUME NEW e \in Ends
  PROVE  /\ SentBefore(e, 1) = 0
         /\ \A k \in 1 .. Len(Script[e]) + 1 : SentBefore(e, k) \in Nat
         /\ \A k \in 1 .. Len(Script[e]) :
               SentBefore(e, k + 1) =
                 SentBefore(e, k)
                   + IF Script[e][k].op = "flight" THEN Script[e][k].n ELSE 0
<1> DEFINE F(k) == {l \in 1 .. k - 1 : Script[e][l].op = "flight"}
           I(j) == {j} \X (1 .. Script[e][j].n)
           S(k) == UNION {I(j) : j \in F(k)}
<1>l. Len(Script[e]) \in Nat
  BY ZenonT(30), Shapes
<1>0. \A k \in Nat : SentBefore(e, k) = Cardinality(S(k))
  BY ZenonT(30) DEF SentBefore
<1>1. \A j \in 1 .. Len(Script[e]) : IsFiniteSet(I(j)) /\ Cardinality(I(j)) = Script[e][j].n
  <2> TAKE j \in 1 .. Len(Script[e])
  <2>1. Script[e][j].n \in Nat
    BY ZenonT(30), Shapes
  <2>2. IsFiniteSet(1 .. Script[e][j].n) /\ Cardinality(1 .. Script[e][j].n) = Script[e][j].n
    <3>1. 1 \in Int /\ Script[e][j].n \in Int
      BY SMTT(30), <2>1
    <3>2. IsFiniteSet(1 .. Script[e][j].n)
      BY ZenonT(30), <3>1, FS_Interval
    <3>3. Cardinality(1 .. Script[e][j].n)
            = IF 1 > Script[e][j].n THEN 0 ELSE Script[e][j].n - 1 + 1
      BY ZenonT(30), <3>1, FS_Interval
    <3> QED BY SMTT(30), <3>2, <3>3, <2>1
  <2>3. IsFiniteSet({j}) /\ Cardinality({j}) = 1
    BY ZenonT(30), FS_Singleton
  <2>4. IsFiniteSet(I(j)) /\ Cardinality(I(j)) = 1 * Script[e][j].n
    <3> DEFINE T == 1 .. Script[e][j].n
    <3> HIDE DEF T
    <3>1. IsFiniteSet(T) /\ Cardinality(T) = Script[e][j].n
      BY ZenonT(30), <2>2 DEF T
    <3>2. IsFiniteSet({j} \X T) /\ Cardinality({j} \X T) = 1 * Script[e][j].n
      BY SMTT(30), <3>1, <2>3, FS_Product
    <3> QED BY ZenonT(30), <3>2 DEF T
  <2> QED BY SMTT(30), <2>1, <2>4
<1>2. \A k \in 1 .. Len(Script[e]) + 1 : IsFiniteSet(S(k))
  <2> TAKE k \in 1 .. Len(Script[e]) + 1
  <2>1. IsFiniteSet(1 .. k - 1)
    BY SMTT(30), <1>l, FS_Interval
  <2>2. IsFiniteSet(1 .. SSL_MAX_HANDSHAKE_FLIGHT)
    BY SMTT(30), BoundsAssumption, FS_Interval
  <2>3. IsFiniteSet((1 .. k - 1) \X (1 .. SSL_MAX_HANDSHAKE_FLIGHT))
    BY ZenonT(30), <2>1, <2>2, FS_Product
  <2>4. \A j \in F(k) : Script[e][j].n \in 1 .. SSL_MAX_HANDSHAKE_FLIGHT
    BY SMTT(30), <1>l, Shapes, ScriptAssumption
  <2>5. \A j \in F(k) : I(j) \subseteq (1 .. k - 1) \X (1 .. SSL_MAX_HANDSHAKE_FLIGHT)
    <3> TAKE j \in F(k)
    <3>1. j \in 1 .. k - 1 /\ 1 .. Script[e][j].n \subseteq 1 .. SSL_MAX_HANDSHAKE_FLIGHT
      BY SMTT(30), <2>4, BoundsAssumption
    <3> QED BY ZenonT(30), <3>1
  <2>6. S(k) \subseteq (1 .. k - 1) \X (1 .. SSL_MAX_HANDSHAKE_FLIGHT)
    BY ZenonT(30), <2>5
  <2> QED BY ZenonT(30), <2>3, <2>6, FS_Subset
<1>3. SentBefore(e, 1) = 0
  <2>1. S(1) = {}
    OBVIOUS
  <2> QED BY ZenonT(30), <2>1, <1>0, FS_EmptySet
<1>4. \A k \in 1 .. Len(Script[e]) + 1 : SentBefore(e, k) \in Nat
  <2> HIDE DEF S
  <2> QED BY SMTT(30), <1>0, <1>2, <1>l, FS_CardinalityType
<1>5. ASSUME NEW k \in 1 .. Len(Script[e])
      PROVE  SentBefore(e, k + 1) =
                 SentBefore(e, k)
                   + IF Script[e][k].op = "flight" THEN Script[e][k].n ELSE 0
  <2>0. k \in Nat /\ k + 1 \in Nat /\ k \in 1 .. Len(Script[e]) + 1 /\ Script[e][k].n \in Nat
    BY SMTT(30), <1>l, Shapes
  <2>1. CASE Script[e][k].op # "flight"
    <3>1. F(k + 1) = F(k)
      BY SMTT(30), <2>1
    <3>2. SentBefore(e, k + 1) = SentBefore(e, k)
      BY ZenonT(30), <3>1, <2>0, <1>0
    <3> QED BY SMTT(30), <3>2, <2>1, <2>0, <1>4
  <2>2. CASE Script[e][k].op = "flight"
    <3>1. F(k + 1) = F(k) \cup {k} /\ k \notin F(k)
      BY SMTT(30), <2>2
    <3>2. S(k + 1) = S(k) \cup I(k)
      BY ZenonT(30), <3>1
    <3>3. S(k) \cap I(k) = {}
      BY SMTT(30), <3>1
    <3>4. Cardinality({}) = 0
      BY ZenonT(30), FS_EmptySet
    <3>5. Cardinality(S(k) \cup I(k)) = Cardinality(S(k)) + Cardinality(I(k))
      <4> HIDE DEF S, I
      <4>1. Cardinality(S(k) \cup I(k))
              = Cardinality(S(k)) + Cardinality(I(k)) - Cardinality(S(k) \cap I(k))
        BY ZenonT(30), <1>1, <1>2, <2>0, FS_Union
      <4>2. Cardinality(S(k)) \in Nat /\ Cardinality(I(k)) \in Nat
        BY ZenonT(30), <1>1, <1>2, <2>0, FS_CardinalityType
      <4>3. Cardinality(S(k) \cap I(k)) = 0
        BY ZenonT(30), <3>3, <3>4
      <4> QED BY SMTT(30), <4>1, <4>2, <4>3
    <3> HIDE DEF S, I
    <3> QED BY ZenonT(30), <3>2, <3>5, <2>2, <2>0, <1>0, <1>1
  <2> QED BY ZenonT(30), <2>1, <2>2
<1> QED BY ZenonT(30), <1>3, <1>4, <1>5

\* Later steps have sent and read no less.
LEMMA Monotone ==
  ASSUME NEW e \in Ends, NEW k \in 1 .. Len(Script[e]) + 1,
         NEW l \in 1 .. Len(Script[e]) + 1, k <= l
  PROVE  ReadBefore(e, k) <= ReadBefore(e, l) /\ SentBefore(e, k) <= SentBefore(e, l)
<1> DEFINE R(m) == {j \in 1 .. m - 1 : Script[e][j].op # "flight"}
           S(m) == UNION {{j} \X (1 .. Script[e][j].n) :
                             j \in {i \in 1 .. m - 1 : Script[e][i].op = "flight"}}
<1>l. Len(Script[e]) \in Nat
  BY ZenonT(30), Shapes
<1>0. 1 .. k - 1 \subseteq 1 .. l - 1
  BY SMTT(30), <1>l
<1>1. ReadBefore(e, k) <= ReadBefore(e, l)
  <2>1. IsFiniteSet(1 .. l - 1)
    BY SMTT(30), <1>l, FS_Interval
  <2>2. IsFiniteSet(R(l))
    BY ZenonT(30), <2>1, FS_Subset
  <2>3. R(k) \subseteq R(l)
    BY ZenonT(30), <1>0
  <2> HIDE DEF R
  <2>4. Cardinality(R(k)) <= Cardinality(R(l))
    BY ZenonT(30), <2>2, <2>3, FS_Subset
  <2> QED BY ZenonT(30), <2>4 DEF R, ReadBefore
<1>2. SentBefore(e, k) <= SentBefore(e, l)
  <2>1. IsFiniteSet(1 .. l - 1)
    BY SMTT(30), <1>l, FS_Interval
  <2>2. IsFiniteSet(1 .. SSL_MAX_HANDSHAKE_FLIGHT)
    BY SMTT(30), BoundsAssumption, FS_Interval
  <2>3. IsFiniteSet((1 .. l - 1) \X (1 .. SSL_MAX_HANDSHAKE_FLIGHT))
    BY ZenonT(30), <2>1, <2>2, FS_Product
  <2>4. \A j \in {i \in 1 .. l - 1 : Script[e][i].op = "flight"} :
           Script[e][j].n \in 1 .. SSL_MAX_HANDSHAKE_FLIGHT
    BY SMTT(30), <1>l, Shapes, ScriptAssumption
  <2>5. ASSUME NEW j \in {i \in 1 .. l - 1 : Script[e][i].op = "flight"}
        PROVE  {j} \X (1 .. Script[e][j].n)
                 \subseteq (1 .. l - 1) \X (1 .. SSL_MAX_HANDSHAKE_FLIGHT)
    <3>1. j \in 1 .. l - 1 /\ 1 .. Script[e][j].n \subseteq 1 .. SSL_MAX_HANDSHAKE_FLIGHT
      BY SMTT(30), <2>4, BoundsAssumption
    <3> QED BY ZenonT(30), <3>1
  <2>6. S(l) \subseteq (1 .. l - 1) \X (1 .. SSL_MAX_HANDSHAKE_FLIGHT)
    BY ZenonT(30), <2>5
  <2>7. S(k) \subseteq S(l)
    BY ZenonT(30), <1>0
  <2> HIDE DEF S
  <2>8. Cardinality(S(k)) <= Cardinality(S(l))
    BY ZenonT(30), <2>3, <2>6, <2>7, FS_Subset
  <2> QED BY ZenonT(30), <2>8 DEF S, SentBefore
<1> QED BY ZenonT(30), <1>1, <1>2

\* A script reads and sends no more than there is; a read step has an item left
\* to read, and is of the kind of that item.
LEMMA Totals ==
  ASSUME NEW e \in Ends
  PROVE  /\ Len(Script[e]) > 0
         /\ \A k \in 1 .. Len(Script[e]) + 1 :
               ReadBefore(e, k) <= N(Peer(e)) /\ SentBefore(e, k) <= N(e)
         /\ ReadBefore(e, Len(Script[e]) + 1) = N(Peer(e))
         /\ SentBefore(e, Len(Script[e]) + 1) = N(e)
         /\ \A k \in 1 .. Len(Script[e]) : Script[e][k].op # "flight" =>
               /\ ReadBefore(e, k) < N(Peer(e))
               /\ Script[e][k].op = "recv_ccs" <=> ReadBefore(e, k) = N(Peer(e)) - 2
<1>p. Peer(e) \in Ends
  BY ZenonT(30), Peers
<1>l. /\ Len(Script[e]) \in Nat /\ DOMAIN Script[e] = 1 .. Len(Script[e])
      /\ N(e) \in Nat /\ N(e) >= 2 /\ N(Peer(e)) \in Nat /\ N(Peer(e)) >= 2
  BY ZenonT(30), Shapes, <1>p
<1>1. /\ ReadBefore(e, Len(Script[e]) + 1) = N(Peer(e))
      /\ SentBefore(e, Len(Script[e]) + 1) = N(e)
  BY ZenonT(30), ScriptAssumption DEF N
<1>2. Len(Script[e]) > 0
  BY SMTT(30), <1>1, <1>l, ReadStep
<1>3. \A k \in 1 .. Len(Script[e]) + 1 :
         ReadBefore(e, k) <= N(Peer(e)) /\ SentBefore(e, k) <= N(e)
  BY SMTT(30), <1>1, <1>l, Monotone
<1>4. ASSUME NEW k \in 1 .. Len(Script[e]), Script[e][k].op # "flight"
      PROVE  /\ ReadBefore(e, k) < N(Peer(e))
             /\ Script[e][k].op = "recv_ccs" <=> ReadBefore(e, k) = N(Peer(e)) - 2
  <2>1. k + 1 \in 1 .. Len(Script[e]) + 1 /\ k \in 1 .. Len(Script[e]) + 1
    BY SMTT(30), <1>l
  <2>2. ReadBefore(e, k) \in Nat /\ ReadBefore(e, k + 1) = ReadBefore(e, k) + 1
    BY ZenonT(30), <1>4, <2>1, ReadStep
  <2>3. ReadBefore(e, k) < N(Peer(e))
    BY SMTT(30), <2>1, <2>2, <1>3, <1>l
  <2>4. ReadBefore(e, k) + 1 \in 1 .. N(Peer(e))
    BY SMTT(30), <2>2, <2>3, <1>l
  <2>5. Items[Peer(e)][ReadBefore(e, k) + 1] = "ccs"
           <=> ReadBefore(e, k) + 1 = N(Peer(e)) - 1
    BY SMTT(30), <2>4, <1>l, <1>p, Shapes
  <2>6. Script[e][k].op = "recv_ccs" <=> Items[Peer(e)][ReadBefore(e, k) + 1] = "ccs"
    BY ZenonT(30), <1>4, <1>l, ScriptAssumption
  <2> QED BY SMTT(30), <2>2, <2>3, <2>5, <2>6, <1>l
<1> QED BY ZenonT(30), <1>1, <1>2, <1>3, <1>4

\* The scripts take turns.
LEMMA Turns ==
  ASSUME NEW e \in Ends, NEW k \in 1 .. Len(Script[e]),
         NEW l \in 1 .. Len(Script[Peer(e)]) + 1
  PROVE  /\ Script[e][k].op = "flight" =>
              /\ Script[e][k].n \in 1 .. SSL_MAX_HANDSHAKE_FLIGHT
              /\ SentBefore(Peer(e), l) >= ReadBefore(e, k)
                   => ReadBefore(Peer(e), l) >= SentBefore(e, k)
         /\ /\ Script[e][k].op # "flight" /\ EndsFlight(e, k)
            /\ ReadBefore(Peer(e), l) <= SentBefore(e, k)
            => SentBefore(Peer(e), l) <= ReadBefore(e, k) + 1
<1>1. k \in DOMAIN Script[e]
  BY ZenonT(30), Shapes
<1>2. IF Script[e][k].op = "flight"
        THEN /\ Script[e][k].n \in 1 .. SSL_MAX_HANDSHAKE_FLIGHT
             /\ \A m \in 1 .. Len(Script[Peer(e)]) + 1 :
                   SentBefore(Peer(e), m) >= ReadBefore(e, k)
                     => ReadBefore(Peer(e), m) >= SentBefore(e, k)
        ELSE /\ Script[e][k].op = "recv_ccs"
                  <=> Items[Peer(e)][ReadBefore(e, k) + 1] = "ccs"
             /\ EndsFlight(e, k)
                  => \A m \in 1 .. Len(Script[Peer(e)]) + 1 :
                        ReadBefore(Peer(e), m) <= SentBefore(e, k)
                          => SentBefore(Peer(e), m) <= ReadBefore(e, k) + 1
  BY ZenonT(30), <1>1, ScriptAssumption
<1>3. CASE Script[e][k].op = "flight"
  BY ZenonT(30), <1>2, <1>3
<1>4. CASE Script[e][k].op # "flight"
  BY ZenonT(30), <1>2, <1>4
<1> QED BY ZenonT(30), <1>3, <1>4

\* Who has sent everything has only reads left, or nothing.
LEMMA AllSent ==
  ASSUME NEW e \in Ends, NEW k \in 1 .. Len(Script[e]) + 1, SentBefore(e, k) = N(e),
         Script[e][Len(Script[e])].op = "flight"
  PROVE  k = Len(Script[e]) + 1
<1>1. Len(Script[e]) \in Nat /\ Len(Script[e]) > 0 /\ DOMAIN Script[e] = 1 .. Len(Script[e])
  BY ZenonT(30), Shapes, Totals
<1>2. Script[e][Len(Script[e])].n \in 1 .. SSL_MAX_HANDSHAKE_FLIGHT
  BY SMTT(30), <1>1, ScriptAssumption
<1>3. SentBefore(e, Len(Script[e]) + 1)
        = SentBefore(e, Len(Script[e])) + Script[e][Len(Script[e])].n
  BY SMTT(30), <1>1, SentStep
<1>4. SentBefore(e, Len(Script[e])) \in Nat /\ SentBefore(e, Len(Script[e])) < N(e)
  BY SMTT(30), <1>1, <1>2, <1>3, SentStep, Totals, BoundsAssumption
<1>5. k <= Len(Script[e]) => SentBefore(e, k) <= SentBefore(e, Len(Script[e]))
  BY SMTT(30), <1>1, Monotone
<1> QED BY SMTT(30), <1>1, <1>4, <1>5, SentStep

\* The Finished is alone in the encrypted epoch; the other messages are numbered
\* from zero, and the Finished goes on after the ChangeCipherSpec.
LEMMA Numbering ==
  ASSUME NEW p \in Ends, NEW i \in 1 .. N(p)
  PROVE  /\ Epoch(p, i) = IF i = N(p) THEN 1 ELSE 0
         /\ MsgSeq(p, i) = IF i = N(p) THEN N(p) - 2 ELSE i - 1
<1>n. N(p) \in Nat /\ N(p) >= 2
  BY ZenonT(30), Shapes
<1>k. \A j \in 1 .. N(p) :
         Items[p][j] = IF j = N(p) THEN "fin" ELSE IF j = N(p) - 1 THEN "ccs" ELSE "msg"
  BY ZenonT(30), Shapes
<1>1. CASE i = N(p)
  <2>1. {j \in 1 .. i - 1 : Items[p][j] \in {"ccs"}} = {N(p) - 1}
    BY SMTT(30), <1>1, <1>n, <1>k
  <2>2. Epoch(p, i) = 1
    BY ZenonT(30), <2>1, FS_Singleton DEF Epoch, Before
  <2>3. {j \in 1 .. i - 1 : Items[p][j] \in {"msg", "fin"}} = 1 .. N(p) - 2
    BY SMTT(30), <1>1, <1>n, <1>k
  <2>4. Cardinality(1 .. N(p) - 2) = IF 1 > N(p) - 2 THEN 0 ELSE N(p) - 2 - 1 + 1
    <3>1. 1 \in Int /\ N(p) - 2 \in Int
      BY SMTT(30), <1>n
    <3> HIDE <1>n
    <3> QED BY ZenonT(30), <3>1, FS_Interval
  <2>5. MsgSeq(p, i) = Cardinality(1 .. N(p) - 2)
    BY ZenonT(30), <2>3 DEF MsgSeq, Before
  <2> QED BY SMTT(30), <1>1, <1>n, <2>2, <2>4, <2>5
<1>2. CASE i # N(p)
  <2>1. {j \in 1 .. i - 1 : Items[p][j] \in {"ccs"}} = {}
    BY SMTT(30), <1>2, <1>n, <1>k
  <2>2. Epoch(p, i) = 0
    BY ZenonT(30), <2>1, FS_EmptySet DEF Epoch, Before
  <2>3. {j \in 1 .. i - 1 : Items[p][j] \in {"msg", "fin"}} = 1 .. i - 1
    BY SMTT(30), <1>2, <1>n, <1>k
  <2>4. Cardinality(1 .. i - 1) = IF 1 > i - 1 THEN 0 ELSE i - 1 - 1 + 1
    BY SMTT(30), <1>n, FS_Interval
  <2>5. MsgSeq(p, i) = Cardinality(1 .. i - 1)
    BY ZenonT(30), <2>3 DEF MsgSeq, Before
  <2> QED BY SMTT(30), <1>2, <1>n, <2>2, <2>4, <2>5
<1> QED BY ZenonT(30), <1>1, <1>2

-----------------------------------------------------------------------------
\* The types of the state of one endpoint.
LEMMA PointTypes ==
  ASSUME TypeOK, NEW e \in Ends
  PROVE  /\ pos[e] \in Nat /\ status[e] \in Status /\ sent[e] \in Nat
         /\ flight[e] \in SUBSET Nat /\ complete[e] \in BOOLEAN
         /\ flight_has_reply[e] \in BOOLEAN /\ timer[e] \in BOOLEAN
         /\ num_timeouts[e] \in 0 .. DTLS1_MAX_TIMEOUTS + 1
         /\ r_epoch[e] \in Nat /\ read_seq[e] \in Nat
         /\ incoming[e] \in SUBSET Nat /\ has_ccs[e] \in BOOLEAN
         /\ DOMAIN net[e] = 1 .. N(Peer(e))
         /\ \A i \in 1 .. N(Peer(e)) : net[e][i] \in 0 .. MaxCopies
<1>1. DOMAIN Items[Peer(e)] = 1 .. N(Peer(e))
  BY ZenonT(30), Peers, Shapes
<1> QED BY ZenonT(30), <1>1 DEF TypeOK

\* What is constant about an endpoint and its peer.
LEMMA Constants ==
  ASSUME NEW e \in Ends, NEW p, p = Peer(e)
  PROVE  /\ p \in Ends /\ p # e /\ Peer(p) = e /\ Ends = {e, p}
         /\ Len(Script[e]) \in Nat /\ Len(Script[e]) > 0
         /\ DOMAIN Script[e] = 1 .. Len(Script[e])
         /\ \A k \in 1 .. Len(Script[e]) :
               Script[e][k].op \in {"flight", "recv", "recv_ccs"}
         /\ Len(Script[p]) \in Nat /\ Len(Script[p]) > 0
         /\ N(e) \in Nat /\ N(e) >= 2 /\ N(p) \in Nat /\ N(p) >= 2
         /\ DOMAIN Items[e] = 1 .. N(e) /\ DOMAIN Items[p] = 1 .. N(p)
         /\ DTLS1_MAX_TIMEOUTS \in Nat /\ SSL_MAX_HANDSHAKE_FLIGHT \in Nat
<1>1. p \in Ends /\ p # e /\ Peer(p) = e /\ Ends = {e, p}
  BY ZenonT(30), Peers
<1> QED BY ZenonT(30), <1>1, Shapes, Totals, BoundsAssumption

\* The types of an endpoint's counters, as the script bounds them.
LEMMA PointBounds ==
  ASSUME NEW e \in Ends, TypeOK, CountersInv(e)
  PROVE  /\ ReadBefore(e, pos[e]) \in 0 .. N(Peer(e)) /\ sent[e] \in 0 .. N(e)
         /\ pos[e] \in 1 .. Len(Script[e]) + 1
         /\ r_epoch[e] \in 0 .. 1 /\ read_seq[e] \in Nat
BY SMTT(30), ReadStep, SentStep, Totals, PointTypes DEF CountersInv

\* The handshake starts in the invariant.
LEMMA InitInv == Init => HandshakeInv
<1> SUFFICES ASSUME Init PROVE HandshakeInv
  BY ZenonT(30)
<1>1. TypeOK
  BY SMTT(30), BoundsAssumption DEF Init, TypeOK, Status
<1>2. ASSUME NEW e \in Ends PROVE EndInv(e)
  <2>p. Peer(e) \in Ends /\ Peer(Peer(e)) = e
    BY ZenonT(30), Peers
  <2>s. /\ Len(Script[e]) \in Nat /\ Len(Script[e]) > 0
        /\ N(e) \in Nat /\ N(e) >= 2 /\ N(Peer(e)) \in Nat /\ N(Peer(e)) >= 2
        /\ DOMAIN Items[Peer(e)] = 1 .. N(Peer(e))
    BY ZenonT(30), <2>p, Shapes, Totals
  <2>r. ReadBefore(e, 1) = 0 /\ SentBefore(e, 1) = 0
    BY ZenonT(30), ReadStep, SentStep
  <2>1. CountersInv(e)
    BY SMTT(30), <2>s, <2>r DEF Init, CountersInv
  <2>2. OrderInv(e)
    BY SMTT(30), <2>p, <2>r, BoundsAssumption DEF Init, OrderInv
  <2>3. TransitInv(e)
    BY SMTT(30), <2>p, <2>s DEF Init, TransitInv
  <2>4. FlightInv(e)
    BY SMTT(30), <2>s, BoundsAssumption DEF Init, FlightInv
  <2>5. FinishedInv(e)
    <3>1. net[e][N(Peer(e))] = 0 /\ r_epoch[e] = 0 /\ status[e] = "handshake"
          /\ num_timeouts[Peer(e)] = 0
      BY SMTT(30), <2>p, <2>s DEF Init
    <3>2. FinishedRecords(e) = 0
      BY SMTT(30), <3>1 DEF FinishedRecords, GotFinished
    <3> QED BY SMTT(30), <3>1, <3>2, BoundsAssumption DEF FinishedInv
  <2> QED BY ZenonT(30), <2>1, <2>2, <2>3, <2>4, <2>5 DEF EndInv
<1> QED BY ZenonT(30), <1>1, <1>2 DEF HandshakeInv

\* Sending adds at most one record per item, of the items sent.
LEMMA TransmitFacts ==
  ASSUME NEW c, NEW n \in Nat, c \in [1 .. n -> 0 .. MaxCopies], NEW items
  PROVE  /\ Transmit(c, items) \in [1 .. n -> 0 .. MaxCopies]
         /\ \A i \in 1 .. n :
               /\ Transmit(c, items)[i] <= c[i] + 1
               /\ i \notin items => Transmit(c, items)[i] = c[i]
BY SMTT(30), BoundsAssumption DEF Transmit

-----------------------------------------------------------------------------
\* What the invariant says of an endpoint depends on its own state and on what
\* its peer has sent and may repeat.
LEMMA Frame ==
  ASSUME NEW x \in Ends, NEW q, q = Peer(x), EndInv(x),
         pos'[x] = pos[x], status'[x] = status[x], sent'[x] = sent[x],
         flight'[x] = flight[x], complete'[x] = complete[x],
         flight_has_reply'[x] = flight_has_reply[x], timer'[x] = timer[x],
         num_timeouts'[x] = num_timeouts[x], r_epoch'[x] = r_epoch[x],
         read_seq'[x] = read_seq[x], incoming'[x] = incoming[x],
         has_ccs'[x] = has_ccs[x], net'[x] = net[x],
         sent'[q] = sent[q], status'[q] = status[q], flight'[q] = flight[q],
         num_timeouts'[q] = num_timeouts[q]
  PROVE  EndInv(x)'
<1>1. CountersInv(x)'
  BY ZenonT(30) DEF EndInv, CountersInv
<1>2. OrderInv(x)'
  BY ZenonT(30) DEF EndInv, OrderInv
<1>3. TransitInv(x)'
  BY ZenonT(30) DEF EndInv, TransitInv
<1>4. FlightInv(x)'
  BY ZenonT(30) DEF EndInv, FlightInv
<1>5. FinishedInv(x)'
  BY ZenonT(30) DEF EndInv, FinishedInv, FinishedRecords, GotFinished, MayRepeat
<1> QED BY ZenonT(30), <1>1, <1>2, <1>3, <1>4, <1>5 DEF EndInv

\* Taking a record from the network leaves one fewer of its item.
LEMMA TakenFacts ==
  ASSUME TypeOK, NEW e \in Ends, NEW p, p = Peer(e),
         NEW i \in 1 .. N(p), net[e][i] > 0
  PROVE  /\ DOMAIN Taken(e, i) = Ends /\ Taken(e, i)[p] = net[p]
         /\ Taken(e, i)[e] \in [1 .. N(p) -> 0 .. MaxCopies]
         /\ Taken(e, i)[e][i] = net[e][i] - 1
         /\ \A j \in 1 .. N(p) :
               /\ net[e][j] \in Nat /\ Taken(e, i)[e][j] \in Nat
               /\ Taken(e, i)[e][j] <= net[e][j]
               /\ j # i => Taken(e, i)[e][j] = net[e][j]
<1>1. p \in Ends /\ p # e /\ DOMAIN Items[p] = 1 .. N(p) /\ N(p) \in Nat
  BY ZenonT(30), Constants
<1>2. net[e] \in [1 .. N(p) -> 0 .. MaxCopies] /\ DOMAIN net = Ends
  BY ZenonT(30), <1>1 DEF TypeOK
<1>3. PICK t : t = [net[e] EXCEPT ![i] = net[e][i] - 1]
  BY ZenonT(30)
<1>4. Taken(e, i) = [net EXCEPT ![e] = t]
  BY ZenonT(30), <1>2, <1>3 DEF Taken
<1>5. MaxCopies \in Nat
  BY ZenonT(30), BoundsAssumption
<1>6. t \in [1 .. N(p) -> 0 .. MaxCopies]
  BY SMTT(30), <1>2, <1>3, <1>5
<1>7. /\ t[i] = net[e][i] - 1
      /\ \A j \in 1 .. N(p) : /\ net[e][j] \in Nat /\ t[j] \in Nat
                              /\ t[j] <= net[e][j] /\ (j # i => t[j] = net[e][j])
  BY SMTT(30), <1>2, <1>3, <1>5
<1>8. DOMAIN Taken(e, i) = Ends /\ Taken(e, i)[p] = net[p] /\ Taken(e, i)[e] = t
  BY ZenonT(30), <1>4, <1>1, <1>2
<1> QED BY ZenonT(30), <1>6, <1>7, <1>8

\* The type of the channels after such a step.
LEMMA TakenType ==
  ASSUME TypeOK, NEW e \in Ends, NEW i \in 1 .. N(Peer(e)), net[e][i] > 0
  PROVE  \A x \in Ends : Taken(e, i)[x] \in [DOMAIN Items[Peer(x)] -> 0 .. MaxCopies]
<1>p. PICK p : p = Peer(e)
  BY ZenonT(30)
<1>1. /\ p \in Ends /\ Ends = {e, p} /\ DOMAIN Items[p] = 1 .. N(p)
  BY ZenonT(30), <1>p, Constants
<1>2. Taken(e, i)[p] = net[p] /\ Taken(e, i)[e] \in [1 .. N(p) -> 0 .. MaxCopies]
  BY ZenonT(30), <1>p, TakenFacts
<1>3. net[p] \in [DOMAIN Items[Peer(p)] -> 0 .. MaxCopies]
  BY ZenonT(30), <1>1 DEF TypeOK
<1> QED BY ZenonT(30), <1>p, <1>1, <1>2, <1>3

\* A record that is lost or dropped leaves the invariant as it is.
LEMMA Removal ==
  ASSUME HandshakeInv, NEW e \in Ends, NEW i \in DOMAIN net[e], net[e][i] > 0,
         net' = Taken(e, i), lost' \in 0 .. MaxLoss,
         UNCHANGED <<pos, status, sender, flight_has_reply, reader>>
  PROVE  HandshakeInv'
<1>p. PICK p : p = Peer(e)
  BY ZenonT(30)
<1>t. /\ p \in Ends /\ p # e /\ Peer(p) = e /\ Ends = {e, p}
      /\ N(p) \in Nat /\ N(p) >= 2 /\ DOMAIN Items[p] = 1 .. N(p)
      /\ DTLS1_MAX_TIMEOUTS \in Nat
  BY ZenonT(30), <1>p, Constants
<1>i. TypeOK /\ EndInv(e) /\ EndInv(p)
  BY ZenonT(30), <1>t DEF HandshakeInv
<1>d. i \in 1 .. N(p)
  BY ZenonT(30), <1>i, <1>p, PointTypes
<1>u. /\ pos' = pos /\ status' = status /\ sent' = sent /\ flight' = flight
      /\ complete' = complete /\ timer' = timer /\ num_timeouts' = num_timeouts
      /\ flight_has_reply' = flight_has_reply /\ r_epoch' = r_epoch
      /\ read_seq' = read_seq /\ incoming' = incoming /\ has_ccs' = has_ccs
  BY ZenonT(30) DEF sender, reader
<1>n. /\ DOMAIN net' = Ends /\ net'[p] = net[p]
      /\ \A j \in 1 .. N(p) : /\ net[e][j] \in Nat /\ net'[e][j] \in Nat
                              /\ net'[e][j] <= net[e][j]
  BY ZenonT(30), <1>i, <1>p, <1>d, TakenFacts
<1>1. TypeOK'
  <2>1. \A x \in Ends : net'[x] \in [DOMAIN Items[Peer(x)] -> 0 .. MaxCopies]
    BY ZenonT(30), <1>i, <1>d, <1>p, TakenType
  <2> QED BY ZenonT(30), <2>1, <1>u, <1>n, <1>i DEF TypeOK
<1>2. EndInv(p)'
  BY ZenonT(30), <1>i, <1>t, <1>u, <1>n, Frame
<1>3. EndInv(e)'
  <2>1. CountersInv(e)' /\ OrderInv(e)' /\ FlightInv(e)'
    BY ZenonT(30), <1>i, <1>u DEF EndInv, CountersInv, OrderInv, FlightInv
  <2>2. TransitInv(e)'
    <3>1. \A j \in 1 .. N(p) : net'[e][j] > 0 => net[e][j] > 0
      BY SMTT(30), <1>n
    <3> QED BY ZenonT(30), <3>1, <1>i, <1>u, <1>t, <1>p DEF EndInv, TransitInv
  <2>3. FinishedInv(e)'
    <3>1. net'[e][N(p)] <= net[e][N(p)] /\ net'[e][N(p)] \in Nat /\ net[e][N(p)] \in Nat
      BY SMTT(30), <1>n, <1>t
    <3>2. GotFinished(e)' = GotFinished(e) /\ MayRepeat(p)' = MayRepeat(p)
      BY ZenonT(30), <1>u DEF GotFinished, MayRepeat
    <3>3. num_timeouts[e] \in Nat /\ num_timeouts[p] \in Nat
      BY SMTT(30), <1>i, <1>t, PointTypes
    <3>4. FinishedRecords(e)' <= FinishedRecords(e)
          /\ FinishedRecords(e) \in Nat /\ FinishedRecords(e)' \in Nat
      BY SMTT(30), <3>1, <3>2, <3>3, <1>u, <1>p DEF FinishedRecords
    <3> QED BY SMTT(30), <3>2, <3>3, <3>4, <1>i, <1>u, <1>p, <1>t DEF EndInv, FinishedInv
  <2> QED BY ZenonT(30), <2>1, <2>2, <2>3 DEF EndInv
<1> QED BY ZenonT(30), <1>1, <1>2, <1>3, <1>t DEF HandshakeInv

\* Records of another epoch are dropped.
LEMMA Discard ==
  ASSUME HandshakeInv, NEW e \in Ends, NEW i \in DOMAIN net[e],
         dtls_open_record_discard(e, i) \/ Lose(e, i)
  PROVE  HandshakeInv'
<1>1. lost' \in 0 .. MaxLoss
  <2>1. lost \in 0 .. MaxLoss /\ MaxLoss \in Nat
    BY ZenonT(30), BoundsAssumption DEF HandshakeInv, TypeOK
  <2> QED BY SMTT(30), <2>1 DEF dtls_open_record_discard, Lose, Waste
<1> QED BY ZenonT(30), <1>1, Removal DEF dtls_open_record_discard, Lose

\* No record that arrives during the handshake is an error.
LEMMA OpenHandshake ==
  ASSUME HandshakeInv, NEW e \in Ends, NEW i \in DOMAIN net[e], dtls1_open_handshake(e, i)
  PROVE  HandshakeInv' /\ UNCHANGED <<pos, status, sent, r_epoch, read_seq>>
<1>p. PICK p : p = Peer(e)
  BY ZenonT(30)
<1>t. /\ p \in Ends /\ p # e /\ Peer(p) = e /\ Ends = {e, p}
      /\ N(p) \in Nat /\ N(p) >= 2 /\ DOMAIN Items[p] = 1 .. N(p)
      /\ Len(Script[e]) \in Nat /\ DOMAIN Script[e] = 1 .. Len(Script[e])
      /\ DTLS1_MAX_TIMEOUTS \in Nat /\ SSL_MAX_HANDSHAKE_FLIGHT \in Nat
      /\ SSL_MAX_HANDSHAKE_FLIGHT > 0
  BY SMTT(30), <1>p, Constants, BoundsAssumption
<1>i. TypeOK /\ EndInv(e) /\ EndInv(p)
  BY ZenonT(30), <1>t DEF HandshakeInv
<1>d. i \in 1 .. N(p)
  BY ZenonT(30), <1>i, <1>p, PointTypes
<1>r. PICK r : r = ReadBefore(e, pos[e])
  BY ZenonT(30)
<1>b. /\ r \in 0 .. N(p) /\ read_seq[e] \in Nat /\ r_epoch[e] \in 0 .. 1
      /\ read_seq[e] + r_epoch[e] = r
      /\ r_epoch[e] = IF r >= N(p) - 1 THEN 1 ELSE 0
      /\ sent[p] \in 0 .. N(p) /\ sent[p] <= r + SSL_MAX_HANDSHAKE_FLIGHT
      /\ incoming[e] \in SUBSET Nat
  BY ZenonT(30), <1>i, <1>p, <1>r, <1>t, PointBounds, PointTypes DEF EndInv, CountersInv, OrderInv
<1>g. /\ Reading(e) /\ net[e][i] > 0 /\ Epoch(p, i) = r_epoch[e]
      /\ status[e] = "handshake"
  BY ZenonT(30), <1>p DEF dtls1_open_handshake, Arrives
<1>n. /\ r_epoch[e] = IF i = N(p) THEN 1 ELSE 0
      /\ MsgSeq(p, i) = IF i = N(p) THEN N(p) - 2 ELSE i - 1
      /\ Kind(p, i) = "ccs" <=> i = N(p) - 1
  BY SMTT(30), <1>g, <1>d, <1>t, Numbering, Shapes DEF Kind
<1>s. i <= sent[p]
  BY ZenonT(30), <1>i, <1>d, <1>g, <1>p, <1>t DEF EndInv, TransitInv
<1>m. /\ DOMAIN net' = Ends /\ net'[p] = net[p] /\ net'[e][i] = net[e][i] - 1
      /\ \A j \in 1 .. N(p) : /\ net[e][j] \in Nat /\ net'[e][j] \in Nat
                              /\ net'[e][j] <= net[e][j]
                              /\ j # i => net'[e][j] = net[e][j]
  BY SMTT(30), <1>i, <1>p, <1>d, <1>g, TakenFacts DEF dtls1_open_handshake
<1>y. \A x \in Ends : net'[x] \in [DOMAIN Items[Peer(x)] -> 0 .. MaxCopies]
  BY ZenonT(30), <1>i, <1>d, <1>g, <1>p, TakenType DEF dtls1_open_handshake
<1>u. /\ pos' = pos /\ sent' = sent /\ flight' = flight /\ complete' = complete
      /\ timer' = timer /\ num_timeouts' = num_timeouts
      /\ flight_has_reply' = flight_has_reply /\ r_epoch' = r_epoch
      /\ read_seq' = read_seq /\ lost' = lost
  BY ZenonT(30) DEF dtls1_open_handshake, sender
\* In the encrypted epoch the reader waits for the Finished, and holds nothing.
<1>f. i = N(p) => read_seq[e] = N(p) - 2 /\ incoming[e] = {}
  <2> SUFFICES ASSUME i = N(p) PROVE read_seq[e] = N(p) - 2 /\ incoming[e] = {}
    BY ZenonT(30)
  <2>1. r_epoch[e] = 1 /\ r >= N(p) - 1
    BY SMTT(30), <1>n, <1>b, <1>t
  <2>2. pos[e] \in 1 .. Len(Script[e]) /\ Script[e][pos[e]].op # "flight"
    BY ZenonT(30), <1>g, <1>t DEF Reading, AtStep, Step
  <2>3. r < N(p) /\ Script[e][pos[e]].op # "recv_ccs"
    <3>1. r < N(p) /\ (Script[e][pos[e]].op = "recv_ccs" <=> r = N(p) - 2)
      BY ZenonT(30), <2>2, <1>p, <1>r, Totals
    <3> QED BY SMTT(30), <3>1, <2>1, <1>b, <1>t
  <2>4. read_seq[e] \notin incoming[e]
    BY ZenonT(30), <2>3, <1>g DEF Reading, AtStep, Step
  <2>5. read_seq[e] = N(p) - 2
    BY SMTT(30), <2>1, <2>3, <1>b, <1>t
  <2>6. \A s \in incoming[e] : s = N(p) - 2
    BY SMTT(30), <2>1, <1>i, <1>p DEF EndInv, TransitInv
  <2> QED BY ZenonT(30), <2>4, <2>5, <2>6
<1>h. /\ status' = status
      /\ \/ i = N(p) - 1 /\ incoming' = incoming /\ has_ccs' = [has_ccs EXCEPT ![e] = TRUE]
         \/ i # N(p) - 1 /\ incoming' = incoming /\ has_ccs' = has_ccs /\ i # N(p)
         \/ /\ i # N(p) - 1 /\ has_ccs' = has_ccs /\ MsgSeq(p, i) >= read_seq[e]
            /\ incoming' = [incoming EXCEPT ![e] = incoming[e] \cup {MsgSeq(p, i)}]
  <2>1. CASE i = N(p) - 1
    BY SMTT(30), <2>1, <1>n, <1>p, <1>t DEF dtls1_open_handshake
  <2>2. CASE i # N(p) - 1
    <3>1. PICK m : m = MsgSeq(p, i)
      BY ZenonT(30)
    <3>2. keep_message(e, m) /\ has_ccs' = has_ccs
      BY ZenonT(30), <2>2, <3>1, <1>n, <1>p DEF dtls1_open_handshake
    <3>3. /\ m # read_seq[e] + SSL_MAX_HANDSHAKE_FLIGHT
          /\ ~ (r_epoch[e] = 1 /\ m # read_seq[e])
          /\ m \in Nat
      BY SMTT(30), <3>1, <2>2, <1>n, <1>f, <1>b, <1>s, <1>d, <1>t
    <3>4. /\ status' = status
          /\ incoming' = [incoming EXCEPT ![e] =
                 IF m < read_seq[e] \/ m > read_seq[e] + SSL_MAX_HANDSHAKE_FLIGHT
                   THEN incoming[e] ELSE incoming[e] \cup {m}]
      BY ZenonT(30), <3>2, <3>3 DEF keep_message
    <3>5. CASE m < read_seq[e] \/ m > read_seq[e] + SSL_MAX_HANDSHAKE_FLIGHT
      <4>1. incoming' = incoming
        BY ZenonT(30), <3>4, <3>5, <1>i DEF TypeOK
      <4>2. i # N(p)
        BY SMTT(30), <3>5, <3>1, <1>n, <1>f, <1>t, <1>b
      <4> QED BY ZenonT(30), <4>1, <4>2, <3>2, <3>4, <2>2
    <3>6. CASE ~(m < read_seq[e] \/ m > read_seq[e] + SSL_MAX_HANDSHAKE_FLIGHT)
      <4>1. m >= read_seq[e]
        BY SMTT(30), <3>6, <3>3, <1>b, <1>t
      <4> QED BY ZenonT(30), <4>1, <3>1, <3>2, <3>4, <3>6, <2>2
    <3> QED BY ZenonT(30), <3>5, <3>6
  <2> QED BY ZenonT(30), <2>1, <2>2
<1>1. TypeOK'
  <2>1. incoming' \in [Ends -> SUBSET Nat] /\ has_ccs' \in [Ends -> BOOLEAN]
    <3>1. MsgSeq(p, i) \in Nat
      BY SMTT(30), <1>n, <1>d, <1>t
    <3>2. incoming[e] \cup {MsgSeq(p, i)} \in SUBSET Nat
      BY ZenonT(30), <3>1, <1>b
    <3>3. incoming \in [Ends -> SUBSET Nat] /\ has_ccs \in [Ends -> BOOLEAN]
      BY ZenonT(30), <1>i DEF TypeOK
    <3>4. incoming' = incoming
            \/ incoming' = [incoming EXCEPT ![e] = incoming[e] \cup {MsgSeq(p, i)}]
      BY ZenonT(30), <1>h
    <3>5. incoming' \in [Ends -> SUBSET Nat]
      BY ZenonT(30), <3>2, <3>3, <3>4
    <3>6. has_ccs' = has_ccs \/ has_ccs' = [has_ccs EXCEPT ![e] = TRUE]
      BY ZenonT(30), <1>h
    <3>7. has_ccs' \in [Ends -> BOOLEAN]
      BY ZenonT(30), <3>3, <3>6
    <3> QED BY ZenonT(30), <3>5, <3>7
  <2> QED BY ZenonT(30), <2>1, <1>h, <1>u, <1>m, <1>y, <1>i DEF TypeOK
<1>2. EndInv(p)'
  <2>1. incoming'[p] = incoming[p] /\ has_ccs'[p] = has_ccs[p]
    BY ZenonT(30), <1>h, <1>i, <1>t DEF TypeOK
  <2> QED BY ZenonT(30), <2>1, <1>i, <1>t, <1>u, <1>h, <1>m, Frame
<1>3. EndInv(e)'
  <2>1. CountersInv(e)' /\ OrderInv(e)' /\ FlightInv(e)'
    BY ZenonT(30), <1>i, <1>u, <1>h DEF EndInv, CountersInv, OrderInv, FlightInv
  <2>2. TransitInv(e)'
    <3>1. flight'[e] \subseteq 1 .. sent'[e]
      BY ZenonT(30), <1>i, <1>u DEF EndInv, TransitInv
    <3>2. \A j \in 1 .. N(p) : net'[e][j] > 0 => j <= sent[p]
      BY SMTT(30), <1>m, <1>i, <1>t, <1>p DEF EndInv, TransitInv
    <3>3. has_ccs'[e] => r_epoch[e] = 0 /\ sent[p] >= N(p) - 1
      <4>1. has_ccs[e] => r_epoch[e] = 0 /\ sent[p] >= N(p) - 1
        BY ZenonT(30), <1>i, <1>p DEF EndInv, TransitInv
      <4>2. i = N(p) - 1 => r_epoch[e] = 0 /\ sent[p] >= N(p) - 1
        BY SMTT(30), <1>n, <1>s, <1>t
      <4> QED BY ZenonT(30), <4>1, <4>2, <1>h, <1>i DEF TypeOK
    <3>4. \A s \in incoming'[e] :
             /\ read_seq[e] <= s
             /\ IF r_epoch[e] = 0 THEN s < N(p) - 2 /\ s < sent[p]
                                  ELSE s = N(p) - 2 /\ sent[p] = N(p)
      <4>1. \A s \in incoming[e] :
             /\ read_seq[e] <= s
             /\ IF r_epoch[e] = 0 THEN s < N(p) - 2 /\ s < sent[p]
                                  ELSE s = N(p) - 2 /\ sent[p] = N(p)
        BY ZenonT(30), <1>i, <1>p DEF EndInv, TransitInv
      <4>2. \/ incoming'[e] = incoming[e]
            \/ /\ incoming'[e] = incoming[e] \cup {MsgSeq(p, i)}
               /\ i # N(p) - 1 /\ MsgSeq(p, i) >= read_seq[e]
        BY ZenonT(30), <1>h, <1>i DEF TypeOK
      <4>3. i # N(p) - 1 =>
              IF r_epoch[e] = 0 THEN MsgSeq(p, i) < N(p) - 2 /\ MsgSeq(p, i) < sent[p]
                                ELSE MsgSeq(p, i) = N(p) - 2 /\ sent[p] = N(p)
        BY SMTT(30), <1>n, <1>s, <1>d, <1>t, <1>b
      <4>4. MsgSeq(p, i) \in Nat
        BY SMTT(30), <1>n, <1>d, <1>t
      <4>5. CASE incoming'[e] = incoming[e]
        BY ZenonT(30), <4>1, <4>5
      <4>6. CASE /\ incoming'[e] = incoming[e] \cup {MsgSeq(p, i)}
                 /\ i # N(p) - 1 /\ MsgSeq(p, i) >= read_seq[e]
        BY ZenonT(30), <4>1, <4>3, <4>4, <4>6, <1>b
      <4> QED BY ZenonT(30), <4>2, <4>5, <4>6
    <3> QED BY ZenonT(30), <3>1, <3>2, <3>3, <3>4, <1>u, <1>t, <1>p DEF TransitInv
  <2>3. FinishedInv(e)'
    <3>0. num_timeouts[e] \in Nat /\ num_timeouts[p] \in Nat
      BY SMTT(30), <1>i, <1>t, PointTypes
    <3>1. N(p) \in 1 .. N(p) /\ net'[e][N(p)] \in Nat /\ net[e][N(p)] \in Nat
      BY SMTT(30), <1>m, <1>t
    <3>2. GotFinished(e)' => GotFinished(e) \/ i = N(p)
      BY SMTT(30), <1>h, <1>u, <1>n, <1>i, <1>b, <1>t DEF GotFinished, TypeOK
    <3>3. i = N(p) => ~GotFinished(e)
      BY SMTT(30), <1>f, <1>p, <1>t DEF GotFinished
    <3>4. /\ FinishedRecords(e)' <= FinishedRecords(e)
          /\ FinishedRecords(e) \in Nat /\ FinishedRecords(e)' \in Nat
      <4>1. CASE i = N(p)
        BY SMTT(30), <4>1, <3>0, <3>1, <3>3, <1>m, <1>g, <1>h, <1>p DEF FinishedRecords
      <4>2. CASE i # N(p)
        BY SMTT(30), <4>2, <3>0, <3>1, <3>2, <1>m, <1>g, <1>h, <1>p DEF FinishedRecords
      <4> QED BY ZenonT(30), <4>1, <4>2
    <3>5. MayRepeat(p)' = MayRepeat(p)
      BY ZenonT(30), <1>u, <1>h DEF MayRepeat
    <3> QED BY SMTT(30), <3>0, <3>4, <3>5, <1>i, <1>u, <1>p, <1>t DEF EndInv, FinishedInv
  <2> QED BY ZenonT(30), <2>1, <2>2, <2>3 DEF EndInv
<1> QED BY ZenonT(30), <1>1, <1>2, <1>3, <1>t, <1>h, <1>u DEF HandshakeInv

\* What a repetition of the flight of e does to the channel of its peer: of the
\* Finished it adds at most one record, and only if e has sent it.
LEMMA Repeat ==
  ASSUME TypeOK, NEW e \in Ends, EndInv(e), NEW p, p = Peer(e),
         net[p] \in [1 .. N(e) -> 0 .. MaxCopies],
         \A i \in 1 .. N(e) : net[p][i] > 0 => i <= sent[e]
  PROVE  /\ Transmit(net[p], flight[e]) \in [1 .. N(e) -> 0 .. MaxCopies]
         /\ \A i \in 1 .. N(e) :
               /\ Transmit(net[p], flight[e])[i] \in Nat /\ net[p][i] \in Nat
               /\ Transmit(net[p], flight[e])[i] <= net[p][i] + 1
               /\ i \notin flight[e] => Transmit(net[p], flight[e])[i] = net[p][i]
               /\ Transmit(net[p], flight[e])[i] > 0 => i <= sent[e]
<1>0. N(e) \in Nat /\ MaxCopies \in Nat
  BY ZenonT(30), Shapes, BoundsAssumption
<1>1. PICK c : c = Transmit(net[p], flight[e])
  BY ZenonT(30)
<1>2. /\ c \in [1 .. N(e) -> 0 .. MaxCopies]
      /\ \A i \in 1 .. N(e) :
            /\ c[i] <= net[p][i] + 1
            /\ i \notin flight[e] => c[i] = net[p][i]
  BY SMTT(30), <1>0, <1>1, TransmitFacts
<1>3. \A i \in 1 .. N(e) : c[i] \in Nat /\ net[p][i] \in Nat
  BY SMTT(30), <1>0, <1>2
<1>4. \A i \in flight[e] : i <= sent[e]
  <2>1. flight[e] \subseteq 1 .. sent[e] /\ sent[e] \in Nat
    BY ZenonT(30), PointTypes DEF EndInv, TransitInv
  <2> QED BY SMTT(30), <2>1
<1>5. \A i \in 1 .. N(e) : c[i] > 0 => i <= sent[e]
  BY ZenonT(30), <1>2, <1>4
<1> QED BY ZenonT(30), <1>1, <1>2, <1>3, <1>5

\* An endpoint that is done finds only repetitions of the peer's Finished, and
\* never one too many.
LEMMA OpenAppData ==
  ASSUME HandshakeInv, NEW e \in Ends, NEW i \in DOMAIN net[e], dtls1_open_app_data(e, i)
  PROVE  HandshakeInv' /\ UNCHANGED <<pos, status, sent, r_epoch, read_seq>>
<1>p. PICK p : p = Peer(e)
  BY ZenonT(30)
<1>t. /\ p \in Ends /\ p # e /\ Peer(p) = e /\ Ends = {e, p}
      /\ N(e) \in Nat /\ N(p) \in Nat /\ N(p) >= 2 /\ N(e) >= 2
      /\ DOMAIN Items[p] = 1 .. N(p) /\ DOMAIN Items[e] = 1 .. N(e)
      /\ DTLS1_MAX_TIMEOUTS \in Nat
  BY ZenonT(30), <1>p, Constants
<1>i. TypeOK /\ EndInv(e) /\ EndInv(p)
  BY ZenonT(30), <1>t DEF HandshakeInv
<1>d. i \in 1 .. N(p)
  BY ZenonT(30), <1>i, <1>p, PointTypes
<1>g. /\ net[e][i] > 0 /\ Epoch(p, i) = r_epoch[e] /\ status[e] = "done"
  BY ZenonT(30), <1>p DEF dtls1_open_app_data, Arrives
<1>b. r_epoch[e] = 1 /\ read_seq[e] = N(p) - 1 /\ sent[e] = N(e)
  <2>1. ReadBefore(e, pos[e]) = N(p) /\ SentBefore(e, pos[e]) = N(e)
    BY ZenonT(30), <1>g, <1>i, <1>p, Totals DEF EndInv, FlightInv
  <2>2. sent[e] = N(e) /\ r_epoch[e] = 1 /\ read_seq[e] + 1 = N(p) /\ read_seq[e] \in Nat
    BY SMTT(30), <2>1, <1>i, <1>p, <1>t, PointTypes DEF EndInv, CountersInv
  <2> QED BY SMTT(30), <2>1, <2>2, <1>t
<1>n. i = N(p) /\ MsgSeq(p, i) = read_seq[e] - 1 /\ Kind(p, i) = "fin"
  BY SMTT(30), <1>g, <1>b, <1>d, <1>t, Numbering, Shapes DEF Kind
<1>k. PICK t, c : t = num_timeouts[e] /\ c = Transmit(net[p], flight[e])
  BY ZenonT(30)
<1>m. t \in Nat /\ num_timeouts[p] \in Nat
  BY SMTT(30), <1>i, <1>k, <1>t, PointTypes
<1>x. /\ DOMAIN Taken(e, i) = Ends /\ Taken(e, i)[p] = net[p]
      /\ Taken(e, i)[e] \in [1 .. N(p) -> 0 .. MaxCopies]
      /\ Taken(e, i)[e][i] = net[e][i] - 1
      /\ \A j \in 1 .. N(p) :
            /\ net[e][j] \in Nat /\ Taken(e, i)[e][j] \in Nat
            /\ Taken(e, i)[e][j] <= net[e][j]
  BY ZenonT(30), <1>i, <1>p, <1>d, <1>g, TakenFacts
<1>r. net[e][N(p)] \in Nat /\ net[e][N(p)] > 0
  BY ZenonT(30), <1>x, <1>n, <1>d, <1>g
<1>f. FinishedRecords(e) = net[e][N(p)] + 1 + t
  BY ZenonT(30), <1>b, <1>g, <1>k, <1>p DEF FinishedRecords, GotFinished
\* One record is under way, one was read: fewer than the limit were answered.
<1>a. t + 1 <= DTLS1_MAX_TIMEOUTS /\ ~too_many_timeouts(e)
  <2>1. FinishedRecords(e) <= DTLS1_MAX_TIMEOUTS + 1
    BY ZenonT(30), <1>i DEF EndInv, FinishedInv
  <2>2. t + 1 <= DTLS1_MAX_TIMEOUTS
    BY SMTT(30), <2>1, <1>f, <1>r, <1>m, <1>t
  <2> QED BY SMTT(30), <2>2, <1>k, <1>m, <1>t DEF too_many_timeouts
<1>u. /\ num_timeouts' = [num_timeouts EXCEPT ![e] = @ + 1]
      /\ net' = [Taken(e, i) EXCEPT ![p] = c]
      /\ status' = status
  <2>1. /\ count_and_retransmit(e, Taken(e, i))
        /\ status' = [status EXCEPT ![e] = @]
    BY ZenonT(30), <1>n, <1>a, <1>p DEF dtls1_open_app_data
  <2>2. net' = [Taken(e, i) EXCEPT ![Peer(e)] = Transmit(@, flight[e])]
    BY ZenonT(30), <2>1, <1>a DEF count_and_retransmit
  <2> QED BY ZenonT(30), <2>1, <2>2, <1>x, <1>k, <1>p, <1>i DEF count_and_retransmit, TypeOK
<1>v. /\ pos' = pos /\ sent' = sent /\ flight' = flight /\ complete' = complete
      /\ timer' = timer /\ flight_has_reply' = flight_has_reply /\ r_epoch' = r_epoch
      /\ read_seq' = read_seq /\ incoming' = incoming /\ has_ccs' = has_ccs
      /\ lost' = lost
  BY ZenonT(30) DEF dtls1_open_app_data, reader
<1>c. net[p] \in [1 .. N(e) -> 0 .. MaxCopies]
  BY ZenonT(30), <1>i, <1>t DEF TypeOK
<1>w. /\ c \in [1 .. N(e) -> 0 .. MaxCopies]
      /\ \A j \in 1 .. N(e) :
            /\ c[j] \in Nat /\ net[p][j] \in Nat /\ c[j] <= net[p][j] + 1
            /\ j \notin flight[e] => c[j] = net[p][j]
            /\ c[j] > 0 => j <= sent[e]
  <2>1. \A j \in 1 .. N(e) : net[p][j] > 0 => j <= sent[e]
    BY ZenonT(30), <1>i, <1>t DEF EndInv, TransitInv
  <2> QED BY ZenonT(30), <2>1, <1>i, <1>c, <1>p, <1>k, Repeat
<1>e. /\ num_timeouts'[e] = t + 1 /\ num_timeouts'[p] = num_timeouts[p]
      /\ net'[p] = c /\ net'[e] = Taken(e, i)[e] /\ DOMAIN net' = Ends
  BY ZenonT(30), <1>u, <1>i, <1>k, <1>t, <1>x DEF TypeOK
<1>1. TypeOK'
  <2>1. num_timeouts' \in [Ends -> 0 .. DTLS1_MAX_TIMEOUTS + 1]
    <3>1. num_timeouts' = [num_timeouts EXCEPT ![e] = t + 1]
      BY ZenonT(30), <1>u, <1>k, <1>i DEF TypeOK
    <3> QED BY SMTT(30), <3>1, <1>a, <1>m, <1>t, <1>i DEF TypeOK
  <2>2. \A y \in Ends : net'[y] \in [DOMAIN Items[Peer(y)] -> 0 .. MaxCopies]
    <3>1. net'[e] \in [DOMAIN Items[Peer(e)] -> 0 .. MaxCopies]
      BY ZenonT(30), <1>t, <1>p, <1>x, <1>e
    <3>2. net'[p] \in [DOMAIN Items[Peer(p)] -> 0 .. MaxCopies]
      BY ZenonT(30), <1>t, <1>w, <1>e
    <3> QED BY ZenonT(30), <3>1, <3>2, <1>t
  <2> QED BY ZenonT(30), <2>1, <2>2, <1>u, <1>v, <1>e, <1>i DEF TypeOK
<1>2. EndInv(e)'
  <2>1. CountersInv(e)' /\ OrderInv(e)'
    BY ZenonT(30), <1>i, <1>v DEF EndInv, CountersInv, OrderInv
  <2>2. TransitInv(e)'
    <3>1. \A j \in 1 .. N(p) : net'[e][j] > 0 => net[e][j] > 0
      BY SMTT(30), <1>e, <1>x
    <3> QED BY ZenonT(30), <3>1, <1>i, <1>v, <1>t, <1>p DEF EndInv, TransitInv
  <2>3. FlightInv(e)'
    BY ZenonT(30), <1>i, <1>u, <1>v, <1>e, <1>a, <1>g DEF EndInv, FlightInv
  <2>4. FinishedInv(e)'
    <3>1. net'[e][N(p)] = net[e][N(p)] - 1
      BY ZenonT(30), <1>e, <1>x, <1>n
    <3>2. GotFinished(e)'
      BY ZenonT(30), <1>b, <1>v, <1>p DEF GotFinished
    <3>3. FinishedRecords(e)' = net[e][N(p)] - 1 + 1 + (t + 1)
      BY ZenonT(30), <3>1, <3>2, <1>u, <1>g, <1>e, <1>p DEF FinishedRecords
    <3>4. FinishedRecords(e)' = FinishedRecords(e)
      BY SMTT(30), <3>3, <1>f, <1>r, <1>m
    <3>5. MayRepeat(p)' = MayRepeat(p)
      BY ZenonT(30), <1>u, <1>v DEF MayRepeat
    <3> QED BY ZenonT(30), <3>4, <3>5, <1>e, <1>i, <1>p DEF EndInv, FinishedInv
  <2> QED BY ZenonT(30), <2>1, <2>2, <2>3, <2>4 DEF EndInv
<1>3. EndInv(p)'
  <2>1. CountersInv(p)' /\ OrderInv(p)' /\ FlightInv(p)'
    BY ZenonT(30), <1>i, <1>u, <1>v, <1>e DEF EndInv, CountersInv, OrderInv, FlightInv
  <2>2. TransitInv(p)'
    BY ZenonT(30), <1>e, <1>w, <1>i, <1>v, <1>t DEF EndInv, TransitInv
  <2>3. FinishedInv(p)'
    <3>1. N(e) \in 1 .. N(e)
      BY SMTT(30), <1>t
    <3>2. GotFinished(p)' = GotFinished(p)
      BY ZenonT(30), <1>v DEF GotFinished
    <3>3. CASE flight[e] # {}
      <4>1. /\ FinishedRecords(p)' <= FinishedRecords(p) + 1
            /\ FinishedRecords(p) \in Nat /\ FinishedRecords(p)' \in Nat
        <5>1. /\ net'[p][N(e)] \in Nat /\ net[p][N(e)] \in Nat
              /\ net'[p][N(e)] <= net[p][N(e)] + 1
          BY ZenonT(30), <3>1, <1>e, <1>w
        <5>2. status'[p] = status[p] /\ num_timeouts'[p] = num_timeouts[p]
          BY ZenonT(30), <1>e, <1>u
        <5>3. PICK g \in Nat, d \in Nat :
                /\ g = (IF GotFinished(p) THEN 1 ELSE 0)
                /\ d = (IF status[p] = "done" THEN num_timeouts[p] ELSE 0)
          BY SMTT(30), <1>m
        <5>4. /\ FinishedRecords(p) = net[p][N(e)] + g + d
              /\ FinishedRecords(p)' = net'[p][N(e)] + g + d
          BY ZenonT(30), <5>2, <5>3, <3>2, <1>t DEF FinishedRecords
        <5> QED BY SMTT(30), <5>1, <5>4
      <4>2. MayRepeat(e) /\ FinishedRecords(p) <= t + 1
        BY ZenonT(30), <3>3, <1>g, <1>b, <1>i, <1>t, <1>k DEF EndInv, FinishedInv, MayRepeat
      <4>3. FinishedRecords(p)' <= t + 1 + 1 /\ FinishedRecords(p)' <= DTLS1_MAX_TIMEOUTS + 1
        <5>1. PICK a \in Nat, b \in Nat : a = FinishedRecords(p) /\ b = FinishedRecords(p)'
          BY ZenonT(30), <4>1
        <5>2. b <= a + 1 /\ a <= t + 1
          BY ZenonT(30), <5>1, <4>1, <4>2
        <5> QED BY SMTT(30), <5>1, <5>2, <1>a, <1>m, <1>t
      <4> QED BY ZenonT(30), <4>3, <1>e, <1>t DEF FinishedInv
    <3>4. CASE flight[e] = {}
      <4>1. net'[p][N(e)] = net[p][N(e)]
        BY ZenonT(30), <3>4, <3>1, <1>e, <1>w
      <4>2. FinishedRecords(p)' = FinishedRecords(p)
        BY ZenonT(30), <4>1, <3>2, <1>e, <1>u, <1>t DEF FinishedRecords
      <4>3. ~MayRepeat(e)'
        BY ZenonT(30), <3>4, <1>u, <1>v, <1>g DEF MayRepeat
      <4> QED BY ZenonT(30), <4>2, <4>3, <1>i, <1>t DEF EndInv, FinishedInv
    <3> QED BY ZenonT(30), <3>3, <3>4
  <2> QED BY ZenonT(30), <2>1, <2>2, <2>3 DEF EndInv
<1> QED BY ZenonT(30), <1>1, <1>2, <1>3, <1>t, <1>u, <1>v DEF HandshakeInv
=============================================================================
