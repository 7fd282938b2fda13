--------------------------- MODULE TransportProofs ---------------------------
(***************************************************************************)
(* Proofs about what carries bytes: a BIO pair, which is two bounded byte  *)
(* pipes for every size of its rings; and the reassembly of DTLS handshake *)
(* messages.                                                               *)
(***************************************************************************)
EXTENDS DtlsReassembly, BioPair, TLAPS

\* The BIO pair.

\* A sequence is a function on 1 .. its length.
LEMMA LenProperties ==
  ASSUME NEW S, NEW seq \in Seq(S)
  PROVE  Len(seq) \in Nat /\ seq \in [1 .. Len(seq) -> S] /\ DOMAIN seq = 1 .. Len(seq)
OBVIOUS

\* Sequences are equal when their elements are.
LEMMA SeqEqual ==
  ASSUME NEW S, NEW s \in Seq(S), NEW t \in Seq(S), Len(s) = Len(t),
         \A i \in 1 .. Len(s) : s[i] = t[i]
  PROVE  s = t
OBVIOUS

\* Concatenation.
LEMMA ConcatProperties ==
  ASSUME NEW S, NEW s \in Seq(S), NEW t \in Seq(S)
  PROVE  /\ s \o t \in Seq(S) /\ Len(s \o t) = Len(s) + Len(t)
         /\ \A i \in 1 .. Len(s) + Len(t) : (s \o t)[i] = IF i <= Len(s) THEN s[i] ELSE t[i - Len(s)]
OBVIOUS

\* Concatenation with the empty sequence.
LEMMA ConcatEmptySeq ==
  ASSUME NEW S, NEW s \in Seq(S)
  PROVE  s \o <<>> = s /\ <<>> \o s = s
OBVIOUS

\* A part of a sequence.
LEMMA SubSeqProperties ==
  ASSUME NEW S, NEW s, NEW m \in Int, NEW n \in Int, \A i \in m .. n : s[i] \in S
  PROVE  /\ SubSeq(s, m, n) \in Seq(S) /\ Len(SubSeq(s, m, n)) = (IF m <= n THEN n - m + 1 ELSE 0)
         /\ \A i \in 1 .. n - m + 1 : SubSeq(s, m, n)[i] = s[m + i - 1]
OBVIOUS

\* An empty part.
LEMMA SubSeqEmpty ==
  ASSUME NEW s, NEW m \in Int, NEW n \in Int, n < m
  PROVE  SubSeq(s, m, n) = <<>>
OBVIOUS

\* The empty sequence.
LEMMA EmptySeq ==
   ASSUME NEW S
   PROVE  <<>> \in Seq(S) /\ Len(<<>>) = 0 /\ \A s \in Seq(S) : s # <<>> => Len(s) \in Nat \ {0}
OBVIOUS

\* A function on 1 .. n is a sequence of length n.
LEMMA FunIsSeq ==
    ASSUME NEW S, NEW n \in Nat, NEW f \in [1 .. n -> S]
    PROVE  f \in Seq(S) /\ Len(f) = n /\ <<>> \o f = f
<1>1. f \in Seq(S) /\ Len(f) = n
  OBVIOUS
<1> QED
  BY ZenonT(30), <1>1, ConcatEmptySeq

\* The peer is the other end.
LEMMA PeerIsOther ==
    ASSUME NEW e \in Ends
    PROVE  Peer(e) \in Ends /\ Peer(e) # e
BY SMTT(30), EndsAssumption DEF Peer

\* A ring of this size with n unread bytes from slot off.
IsPairRing(b, size, off, n) ==
    /\ size \in Nat /\ off \in Nat /\ n \in Nat /\ off < size /\ n <= size
    /\ b \in [0 .. size - 1 -> Bytes]

\* The type invariant, for one ring.
LEMMA RingFacts ==
    ASSUME PairTypeOK, NEW e \in Ends
    PROVE  IsPairRing(buf[e], Size[e], offset[e], len[e])
BY ZenonT(30), SizeAssumption DEF PairTypeOK, IsPairRing

\* The unread bytes of a ring are a sequence.
LEMMA UnreadType ==
    ASSUME NEW b, NEW size, NEW off, NEW n, IsPairRing(b, size, off, n)
    PROVE  /\ Unread(b, size, off, n) \in Seq(Bytes)
           /\ Len(Unread(b, size, off, n)) = n
           /\ \A i \in 1 .. n : Unread(b, size, off, n)[i] = b[Wrap(size, off + i - 1)]
<1> /\ size \in Nat /\ off \in Nat /\ n \in Nat /\ off < size /\ n <= size
    /\ b \in [0 .. size - 1 -> Bytes]
  BY ZenonT(30) DEF IsPairRing
<1>1. \A i \in 1 .. n : Wrap(size, off + i - 1) \in 0 .. size - 1
  BY SMTT(30) DEF Wrap
<1>2. Unread(b, size, off, n) \in [1 .. n -> Bytes]
  BY ZenonT(30), <1>1 DEF Unread
<1>3. Unread(b, size, off, n) \in Seq(Bytes) /\ Len(Unread(b, size, off, n)) = n
  BY ZenonT(30), <1>2, FunIsSeq
<1> QED
  BY ZenonT(30), <1>3 DEF Unread

\* What the loop of bio_read does: it takes the first n unread bytes and leaves
\* the others where they are.
LEMMA ReadLoop ==
    ASSUME NEW b, NEW size, NEW off, NEW l, IsPairRing(b, size, off, l), NEW n \in 1 .. l
    PROVE  LET end == read_loop(b, size, off, l, n)
           IN  /\ end.len = l - n
               /\ end.offset \in Nat /\ end.offset < size
               /\ end.out = Unread(b, size, off, n)
               /\ \A i \in 1 .. l - n :
                    Wrap(size, off + n + i - 1) = Wrap(size, end.offset + i - 1)
<1> /\ size \in Nat /\ off \in Nat /\ l \in Nat /\ off < size /\ l <= size
    /\ b \in [0 .. size - 1 -> Bytes]
  BY ZenonT(30) DEF IsPairRing
<1> DEFINE start == [rest |-> n, len |-> l, offset |-> off, out |-> <<>>]
           one == read_chunk(b, size, start)
<1>0. n \in Nat /\ 1 <= n /\ n <= l
  OBVIOUS
<1>1. CASE off + n <= size
  <2> DEFINE got == Slice(b, off, n)
  <2>1. got \in [1 .. n -> Bytes]
    BY SMTT(30), <1>0, <1>1 DEF Slice
  <2>2. <<>> \o got = got
    BY ZenonT(30), <2>1, <1>0, FunIsSeq
  <2>3. got = Unread(b, size, off, n)
    BY SMTT(30), <1>0, <1>1 DEF Unread, Wrap, Slice
  <2>4. one = [rest |-> 0, len |-> l - n,
               offset |-> IF l = n \/ off + n = size THEN 0 ELSE off + n, out |-> got]
    <3>1. one = [rest |-> n - n, len |-> l - n,
                 offset |-> IF l = n \/ off + n = size THEN 0 ELSE off + n, out |-> <<>> \o got]
      BY ZenonT(30), <1>1 DEF read_chunk
    <3> HIDE DEF one, got
    <3> QED
      BY SMTT(30), <3>1, <2>2, <1>0
  <2>5. read_loop(b, size, off, l, n) = one
    BY SMTT(30), <2>4 DEF read_loop
  <2> HIDE DEF one, got
  <2> QED
    BY SMTT(30), <1>0, <1>1, <2>3, <2>4, <2>5 DEF Wrap
<1>2. CASE off + n > size
  <2> DEFINE c == size - off
             got == Slice(b, off, c)
             out2 == Slice(b, 0, n - c)
             two == read_chunk(b, size, one)
  <2>0. c \in Nat /\ n - c \in Nat /\ c # l /\ 1 <= c /\ n - c <= off /\ n - c # 0 /\ n - c # size
    BY SMTT(30), <1>0, <1>2
  <2>1. got \in Seq(Bytes) /\ Len(got) = c /\ <<>> \o got = got
    <3>1. got \in [1 .. c -> Bytes]
      BY SMTT(30), <1>0, <1>2 DEF Slice
    <3> QED
      BY ZenonT(30), <3>1, <2>0, FunIsSeq
  <2>2. one = [rest |-> n - c, len |-> l - c, offset |-> 0, out |-> got]
    <3>1. c = IF off + n <= size THEN n ELSE size - off
      BY SMTT(30), <1>0, <1>2
    <3>2. one = [rest |-> n - c, len |-> l - c,
                 offset |-> IF l = c \/ off + c = size THEN 0 ELSE off + c, out |-> <<>> \o got]
      BY ZenonT(30), <3>1 DEF read_chunk
    <3> HIDE DEF one, got
    <3> QED
      BY SMTT(30), <3>2, <2>0, <2>1, <1>0
  <2>3. out2 \in Seq(Bytes) /\ Len(out2) = n - c
    <3>1. out2 \in [1 .. n - c -> Bytes]
      BY SMTT(30), <1>0, <1>2 DEF Slice
    <3> QED
      BY SMTT(30), <3>1, <2>0, FunIsSeq
  <2>4. two = [rest |-> 0, len |-> l - n, offset |-> IF l = n THEN 0 ELSE n - c, out |-> got \o out2]
    <3> DEFINE r == n - c
    <3>1. r = IF 0 + r <= size THEN r ELSE size - 0
      BY SMTT(30), <1>0, <1>2, <2>0
    <3> HIDE DEF one, got
    <3>2. two = [rest |-> r - r, len |-> l - c - r,
                 offset |-> IF l - c = r \/ 0 + r = size THEN 0 ELSE 0 + r, out |-> got \o out2]
      BY ZenonT(30), <2>2, <3>1 DEF read_chunk
    <3>3. r - r = 0 /\ l - c - r = l - n /\ (l - c = r <=> l = n) /\ 0 + r = r /\ r # size
      BY SMTT(30), <2>0, <1>0
    <3> HIDE DEF two, out2, c
    <3>4. r = n - c
      BY ZenonT(30)
    <3> HIDE DEF r
    <3> QED
      BY ZenonT(30), <3>2, <3>3, <3>4
  <2>5. read_loop(b, size, off, l, n) = two
    <3> HIDE DEF got
    <3> QED
      BY SMTT(30), <2>2, <2>0 DEF read_loop
  <2>6. /\ got \o out2 \in Seq(Bytes) /\ Len(got \o out2) = n
        /\ \A i \in 1 .. n : (got \o out2)[i] = IF i <= c THEN got[i] ELSE out2[i - c]
    <3> HIDE DEF got, out2, one, two, c
    <3>1. /\ got \o out2 \in Seq(Bytes) /\ Len(got \o out2) = Len(got) + Len(out2)
          /\ \A i \in 1 .. Len(got) + Len(out2) :
                (got \o out2)[i] = IF i <= Len(got) THEN got[i] ELSE out2[i - Len(got)]
      BY ZenonT(30), <2>1, <2>3, ConcatProperties
    <3>2. Len(got) + Len(out2) = n
      BY SMTT(30), <1>0, <2>0, <2>1, <2>3
    <3> QED
      BY ZenonT(30), <3>1, <3>2, <2>1
  <2>7. \A i \in 1 .. n : (IF i <= c THEN got[i] ELSE out2[i - c]) = b[Wrap(size, off + i - 1)]
    BY SMTT(30), <1>0, <1>2, <2>0 DEF Wrap, Slice
  <2>8. got \o out2 = Unread(b, size, off, n)
    <3> DEFINE u == Unread(b, size, off, n)
               v == got \o out2
    <3>1. IsPairRing(b, size, off, n)
      BY SMTT(30), <1>0 DEF IsPairRing
    <3>2. u \in Seq(Bytes) /\ Len(u) = n /\ \A i \in 1 .. n : u[i] = b[Wrap(size, off + i - 1)]
      BY SMTT(30), <3>1, UnreadType
    <3>3. v \in Seq(Bytes) /\ Len(v) = n /\ \A i \in 1 .. n : v[i] = b[Wrap(size, off + i - 1)]
      BY ZenonT(30), <2>6, <2>7
    <3> HIDE DEF u, v
    <3>4. u = v
      BY ZenonT(30), <3>2, <3>3, SeqEqual
    <3> QED
      BY ZenonT(30), <3>4 DEF u, v
  <2>9. \A i \in 1 .. l - n : Wrap(size, off + n + i - 1) = Wrap(size, n - c + i - 1)
    BY SMTT(30), <1>0, <1>2 DEF Wrap
  <2> HIDE DEF two, got, out2, one
  <2>10. two.len = l - n /\ two.out = got \o out2 /\ two.offset = IF l = n THEN 0 ELSE n - c
    BY ZenonT(30), <2>4
  <2>11. two.offset \in Nat /\ two.offset < size
    BY SMTT(30), <1>0, <1>2, <2>0, <2>10
  <2>12. \A i \in 1 .. l - n : l # n
    BY SMTT(30), <1>0
  <2>13. \A i \in 1 .. l - n : Wrap(size, off + n + i - 1) = Wrap(size, two.offset + i - 1)
    BY ZenonT(30), <2>9, <2>10, <2>12
  <2> QED
    BY ZenonT(30), <2>5, <2>8, <2>10, <2>11, <2>13
<1> QED
  BY SMTT(30), <1>0, <1>1, <1>2

\* What the loop of bio_write does: the bytes follow the unread ones.
LEMMA WriteLoop ==
    ASSUME NEW b, NEW size, NEW off, NEW l, IsPairRing(b, size, off, l),
           NEW s \in Seq(Bytes), 1 <= Len(s), l + Len(s) <= size
    PROVE  LET end == write_loop(b, size, off, l, s)
           IN  /\ end.len = l + Len(s)
               /\ end.buf \in [0 .. size - 1 -> Bytes]
               /\ Unread(end.buf, size, off, l + Len(s)) = Unread(b, size, off, l) \o s
<1> /\ size \in Nat /\ off \in Nat /\ l \in Nat /\ off < size /\ l <= size
    /\ b \in [0 .. size - 1 -> Bytes]
  BY ZenonT(30) DEF IsPairRing
<1> DEFINE k == Len(s)
           w == Wrap(size, off + l)
           one == write_chunk(size, off, [in |-> s, len |-> l, buf |-> b])
           end == write_loop(b, size, off, l, s)
<1>0. k \in Nat /\ 1 <= k /\ l + k <= size /\ \A i \in 1 .. k : s[i] \in Bytes
  OBVIOUS
<1> HIDE DEF k
<1>1. w \in Nat /\ w < size
  BY SMTT(30), <1>0 DEF Wrap
<1>2. /\ end.len = l + k
      /\ end.buf \in [0 .. size - 1 -> Bytes]
      /\ \A i \in 1 .. l + k : end.buf[Wrap(size, off + i - 1)] =
                                 IF i <= l THEN b[Wrap(size, off + i - 1)] ELSE s[i - l]
  <2>1. CASE w + k <= size
    <3>1. one = [in |-> SubSeq(s, k + 1, k), len |-> l + k, buf |-> Splice(b, size, w, k, s)]
      BY ZenonT(30), <2>1 DEF write_chunk, k
    <3>2. SubSeq(s, k + 1, k) = <<>>
      BY SMTT(30), <1>0, SubSeqEmpty
    <3>3. end = one
      <4>1. one.in = <<>>
        <5> HIDE DEF w, one
        <5> QED
          BY ZenonT(30), <3>1, <3>2
      <4> QED
        BY ZenonT(30), <4>1 DEF write_loop
    <3>4. Splice(b, size, w, k, s) \in [0 .. size - 1 -> Bytes]
      <4> HIDE DEF w
      <4> QED
        BY SMTT(30), <1>0, <1>1 DEF Splice
    <3>5. \A i \in 1 .. l + k : Splice(b, size, w, k, s)[Wrap(size, off + i - 1)] =
                                  IF i <= l THEN b[Wrap(size, off + i - 1)] ELSE s[i - l]
      <4> SUFFICES ASSUME NEW i \in 1 .. l + k
                   PROVE  Splice(b, size, w, k, s)[Wrap(size, off + i - 1)] =
                            IF i <= l THEN b[Wrap(size, off + i - 1)] ELSE s[i - l]
        BY ZenonT(30)
      <4> DEFINE j == Wrap(size, off + i - 1)
      <4>1. /\ j \in 0 .. size - 1
            /\ i <= l => ~(w <= j /\ j < w + k)
            /\ ~(i <= l) => w <= j /\ j < w + k /\ j - w + 1 = i - l
        BY SMTT(30), <1>0, <1>1, <2>1 DEF Wrap
      <4> HIDE DEF j, w
      <4>2. Splice(b, size, w, k, s)[j] = IF w <= j /\ j < w + k THEN s[j - w + 1] ELSE b[j]
        BY ZenonT(30), <4>1 DEF Splice
      <4>3. Splice(b, size, w, k, s)[j] = IF i <= l THEN b[j] ELSE s[i - l]
        BY ZenonT(30), <4>1, <4>2
      <4> QED
        BY ZenonT(30), <4>3 DEF j
    <3> HIDE DEF one, end, w
    <3> QED
      BY ZenonT(30), <3>1, <3>3, <3>4, <3>5
  <2>2. CASE w + k > size
    <3> DEFINE c == size - w
               s2 == SubSeq(s, c + 1, k)
               b1 == Splice(b, size, w, c, s)
               two == write_chunk(size, off, one)
    <3>0. c \in Nat /\ 1 <= c /\ c < k /\ w = off + l /\ k - c \in Nat
      BY SMTT(30), <1>0, <1>1, <2>2 DEF Wrap
    <3>1. one = [in |-> s2, len |-> l + c, buf |-> b1]
      <4>1. c = IF w + k <= size THEN k ELSE size - w
        BY SMTT(30), <2>2, <1>0, <1>1
      <4> HIDE DEF w, c
      <4> QED
        BY ZenonT(30), <4>1 DEF write_chunk, k, w
    <3>2. /\ s2 \in Seq(Bytes) /\ Len(s2) = k - c
          /\ \A i \in 1 .. k - c : s2[i] = s[c + i]
      <4> HIDE DEF w, c
      <4>1. \A i \in c + 1 .. k : s[i] \in Bytes
        BY SMTT(30), <1>0, <3>0
      <4>2. /\ s2 \in Seq(Bytes) /\ Len(s2) = IF c + 1 <= k THEN k - (c + 1) + 1 ELSE 0
            /\ \A i \in 1 .. k - (c + 1) + 1 : s2[i] = s[c + 1 + i - 1]
        BY SMTT(30), <4>1, <1>0, <3>0, SubSeqProperties
      <4> HIDE DEF s2
      <4>3. k - (c + 1) + 1 = k - c /\ c + 1 <= k /\ \A i \in 1 .. k - c : c + 1 + i - 1 = c + i
        BY SMTT(30), <1>0, <3>0
      <4> QED
        BY ZenonT(30), <4>2, <4>3
    <3>3. s2 # <<>>
      <4> HIDE DEF s2, w, c
      <4> QED
        BY SMTT(30), <3>0, <3>2, <1>0, EmptySeq
    <3>4. end = two
      <4> HIDE DEF w, s2, b1
      <4> QED
        BY SMTT(30), <3>1, <3>3 DEF write_loop
    <3>5. Wrap(size, off + (l + c)) = 0
      BY SMTT(30), <3>0 DEF Wrap
    <3>6. two.len = l + k /\ two.buf = Splice(b1, size, 0, k - c, s2)
      <4> HIDE DEF w, s2, b1, c, one
      <4>1. two = LET x == IF 0 + Len(s2) <= size THEN Len(s2) ELSE size - 0
                  IN  [in |-> SubSeq(s2, x + 1, Len(s2)), len |-> l + c + x,
                       buf |-> Splice(b1, size, 0, x, s2)]
        BY ZenonT(30), <3>1, <3>5 DEF write_chunk
      <4>2. (IF 0 + Len(s2) <= size THEN Len(s2) ELSE size - 0) = k - c /\ l + c + (k - c) = l + k
        <5>1. Len(s2) = k - c /\ k - c <= size
          BY SMTT(30), <3>0, <3>2, <1>0
        <5>2. l + c + (k - c) = l + k
          BY <3>0, <1>0
        <5> HIDE DEF s2
        <5> QED BY SMTT(30), <5>1, <5>2, <1>0, <3>0
      <4> HIDE DEF two
      <4> QED
        BY ZenonT(30), <4>1, <4>2
    <3>7. b1 \in [0 .. size - 1 -> Bytes]
      <4> HIDE DEF w, c
      <4>1. \A i \in 0 .. size - 1 : w <= i /\ i < w + c => i - w + 1 \in 1 .. k
        BY SMTT(30), <1>0, <1>1, <3>0
      <4> QED
        BY ZenonT(30), <1>0, <4>1 DEF Splice
    <3>8. Splice(b1, size, 0, k - c, s2) \in [0 .. size - 1 -> Bytes]
      <4> HIDE DEF w, c, b1, s2
      <4>1. \A i \in 0 .. size - 1 : 0 <= i /\ i < 0 + (k - c) => i - 0 + 1 \in 1 .. k - c
        BY SMTT(30), <1>0, <3>0
      <4>2. \A i \in 1 .. k - c : s2[i] \in Bytes
        BY SMTT(30), <3>2, <1>0, <3>0
      <4> QED
        BY ZenonT(30), <3>7, <4>1, <4>2 DEF Splice
    <3>9. \A i \in 1 .. l + k : Splice(b1, size, 0, k - c, s2)[Wrap(size, off + i - 1)] =
                                  IF i <= l THEN b[Wrap(size, off + i - 1)] ELSE s[i - l]
      <4> SUFFICES ASSUME NEW i \in 1 .. l + k
                   PROVE  Splice(b1, size, 0, k - c, s2)[Wrap(size, off + i - 1)] =
                            IF i <= l THEN b[Wrap(size, off + i - 1)] ELSE s[i - l]
        BY ZenonT(30)
      <4> DEFINE j == Wrap(size, off + i - 1)
      <4>1. /\ j \in 0 .. size - 1
            /\ i <= l => ~(j < 0 + (k - c)) /\ ~(w <= j)
            /\ i > l /\ i <= l + c => ~(j < 0 + (k - c)) /\ w <= j /\ j < w + c /\ j - w + 1 = i - l
            /\ i > l + c => 0 <= j /\ j < 0 + (k - c) /\ j - 0 + 1 \in 1 .. k - c
                            /\ c + (j - 0 + 1) = i - l
        BY SMTT(30), <1>0, <1>1, <3>0 DEF Wrap
      <4> HIDE DEF j, w, c, s2
      <4>2. b1[j] = IF w <= j /\ j < w + c THEN s[j - w + 1] ELSE b[j]
        BY ZenonT(30), <4>1 DEF Splice
      <4> HIDE DEF b1
      <4>3. Splice(b1, size, 0, k - c, s2)[j] = IF 0 <= j /\ j < 0 + (k - c) THEN s2[j - 0 + 1] ELSE b1[j]
        BY ZenonT(30), <4>1 DEF Splice
      <4>4. i <= l \/ (i > l /\ i <= l + c) \/ (i > l + c /\ ~(i <= l))
        BY SMTT(30), <3>0, <1>0
      <4>5. i > l => ~(i <= l)
        BY SMTT(30), <1>0
      <4>6. Splice(b1, size, 0, k - c, s2)[j] = IF i <= l THEN b[j] ELSE s[i - l]
        BY ZenonT(30), <4>1, <4>2, <4>3, <4>4, <4>5, <3>2
      <4> QED
        BY ZenonT(30), <4>6 DEF j
    <3> HIDE DEF one, end, w, two, b1, s2, c
    <3> QED
      BY ZenonT(30), <3>4, <3>6, <3>8, <3>9
  <2>3. w + k <= size \/ w + k > size
    BY SMTT(30), <1>0, <1>1
  <2> QED
    BY ZenonT(30), <2>1, <2>2, <2>3
<1> HIDE DEF end, w, one
<1>3. Unread(end.buf, size, off, l + k) = Unread(b, size, off, l) \o s
  <2> DEFINE u == Unread(end.buf, size, off, l + k)
             v == Unread(b, size, off, l)
             f == end.buf
  <2>1. l + k \in Nat /\ l + k <= size /\ l <= size /\ Len(s) = k
    BY SMTT(30), <1>0 DEF k
  <2>2. /\ Unread(f, size, off, l + k) \in Seq(Bytes)
        /\ Len(Unread(f, size, off, l + k)) = l + k
        /\ \A i \in 1 .. l + k : Unread(f, size, off, l + k)[i] = f[Wrap(size, off + i - 1)]
    <3>1. f \in [0 .. size - 1 -> Bytes]
      BY ZenonT(30), <1>2
    <3> DEFINE m == l + k
    <3>2. IsPairRing(f, size, off, m)
      BY ZenonT(30), <2>1, <3>1 DEF IsPairRing
    <3> HIDE DEF f, m
    <3>3. /\ Unread(f, size, off, m) \in Seq(Bytes) /\ Len(Unread(f, size, off, m)) = m
          /\ \A i \in 1 .. m : Unread(f, size, off, m)[i] = f[Wrap(size, off + i - 1)]
      BY SMTT(30), <3>2, UnreadType
    <3> QED
      BY ZenonT(30), <3>3 DEF m
  <2>3. v \in Seq(Bytes) /\ Len(v) = l /\ \A i \in 1 .. l : v[i] = b[Wrap(size, off + i - 1)]
    <3>2. /\ Unread(b, size, off, l) \in Seq(Bytes)
          /\ Len(Unread(b, size, off, l)) = l
          /\ \A i \in 1 .. l : Unread(b, size, off, l)[i] = b[Wrap(size, off + i - 1)]
      <4>1. IsPairRing(b, size, off, l)
        BY ZenonT(30) DEF IsPairRing
      <4> QED BY SMTT(30), <4>1, UnreadType
    <3> QED
      BY ZenonT(30), <3>2
  <2> HIDE DEF v
  <2>4. /\ v \o s \in Seq(Bytes) /\ Len(v \o s) = l + k
        /\ \A i \in 1 .. l + k : (v \o s)[i] = IF i <= l THEN v[i] ELSE s[i - l]
    BY ZenonT(30), <2>3, <2>1, ConcatProperties
  <2>5. \A i \in 1 .. l + k : i <= l => i \in 1 .. l
    BY SMTT(30), <1>0
  <2>6. \A i \in 1 .. l + k : u[i] = (v \o s)[i]
    BY ZenonT(30), <2>2, <2>3, <2>4, <2>5, <1>2
  <2>7. u \in Seq(Bytes) /\ Len(u) = l + k
    BY ZenonT(30), <2>2
  <2> HIDE DEF u
  <2>8. u = v \o s
    BY ZenonT(30), <2>4, <2>6, <2>7, SeqEqual
  <2> QED
    BY ZenonT(30), <2>8 DEF u, v
<1> QED
  BY ZenonT(30), <1>2, <1>3 DEF end, k

-----------------------------------------------------------------------------
\* The part of its argument a write takes.
LEMMA WriteTakes ==
    ASSUME NEW n \in Nat, 1 <= n, NEW s \in [1 .. n -> Bytes], NEW room \in Nat, room > 0
    PROVE  LET in == SubSeq(s, 1, IF Len(s) > room THEN room ELSE Len(s))
           IN  in \in Seq(Bytes) /\ 1 <= Len(in) /\ Len(in) <= room
<1> DEFINE m == IF n > room THEN room ELSE n
           in == SubSeq(s, 1, m)
<1>1. Len(s) = n
  BY ZenonT(30), FunIsSeq
<1>2. m \in Nat /\ 1 <= m /\ m <= room /\ m <= n
  OBVIOUS
<1> HIDE DEF m
<1>3. \A i \in 1 .. m : s[i] \in Bytes
  BY SMTT(30), <1>2
<1>4. in \in Seq(Bytes) /\ Len(in) = IF 1 <= m THEN m - 1 + 1 ELSE 0
  BY SMTT(30), <1>2, <1>3, SubSeqProperties
<1> HIDE DEF in
<1>5. 1 <= Len(in) /\ Len(in) <= room
  BY SMTT(30), <1>2, <1>4
<1> QED
  BY ZenonT(30), <1>1, <1>4, <1>5 DEF in, m

\* A read takes the oldest unread bytes of a ring.
LEMMA ReadEffect ==
    ASSUME NEW b, NEW size, NEW off, NEW l, IsPairRing(b, size, off, l), NEW k \in 1 .. l
    PROVE  LET end == read_loop(b, size, off, l, k)
               c == Unread(b, size, off, l)
           IN  /\ end.len = l - k
               /\ end.offset \in Nat /\ end.offset < size
               /\ end.out = SubSeq(c, 1, k)
               /\ Unread(b, size, end.offset, l - k) = SubSeq(c, k + 1, l)
<1> DEFINE end == read_loop(b, size, off, l, k)
           c == Unread(b, size, off, l)
<1>5. /\ end.len = l - k
      /\ end.offset \in Nat /\ end.offset < size
      /\ end.out = Unread(b, size, off, k)
      /\ \A i \in 1 .. l - k : Wrap(size, off + k + i - 1) = Wrap(size, end.offset + i - 1)
  BY SMTT(30), ReadLoop
<1> /\ size \in Nat /\ off \in Nat /\ l \in Nat /\ off < size /\ l <= size
    /\ b \in [0 .. size - 1 -> Bytes]
  BY ZenonT(30) DEF IsPairRing
<1>3. k \in Nat /\ 1 <= k /\ k <= l
  OBVIOUS
<1> HIDE DEF end
<1>6. c \in Seq(Bytes) /\ Len(c) = l /\ \A i \in 1 .. l : c[i] = b[Wrap(size, off + i - 1)]
  BY SMTT(30), UnreadType
<1>8. end.out = SubSeq(c, 1, k)
  <2> DEFINE u == Unread(b, size, off, k)
             v == SubSeq(c, 1, k)
  <2>0. IsPairRing(b, size, off, k)
    BY SMTT(30), <1>3 DEF IsPairRing
  <2>1. u \in Seq(Bytes) /\ Len(u) = k /\ \A i \in 1 .. k : u[i] = b[Wrap(size, off + i - 1)]
    BY SMTT(30), <2>0, UnreadType
  <2> HIDE DEF c
  <2>2. \A i \in 1 .. k : c[i] \in Bytes
    BY SMTT(30), <1>3, <1>6
  <2>3. v \in Seq(Bytes) /\ Len(v) = (IF 1 <= k THEN k - 1 + 1 ELSE 0)
        /\ \A i \in 1 .. k - 1 + 1 : v[i] = c[1 + i - 1]
    BY SMTT(30), <1>3, <2>2, SubSeqProperties
  <2> HIDE DEF u, v
  <2>4. Len(v) = k /\ \A i \in 1 .. k : v[i] = c[i]
    BY SMTT(30), <1>3, <2>3
  <2>5. \A i \in 1 .. k : i \in 1 .. l
    BY SMTT(30), <1>3
  <2>6. u = v
    BY ZenonT(30), <2>1, <2>3, <2>4, <2>5, <1>6, SeqEqual
  <2> QED
    BY ZenonT(30), <2>6, <1>5 DEF u, v
<1>9. Unread(b, size, end.offset, l - k) = SubSeq(c, k + 1, l)
  <2> DEFINE u == Unread(b, size, end.offset, l - k)
             v == SubSeq(c, k + 1, l)
             m == l - k
             o == end.offset
  <2>0. m \in Nat /\ m <= size /\ o \in Nat /\ o < size
    BY SMTT(30), <1>3, <1>5
  <2>0a. IsPairRing(b, size, o, m)
    BY ZenonT(30), <2>0 DEF IsPairRing
  <2> HIDE DEF m, o
  <2>1. /\ Unread(b, size, o, m) \in Seq(Bytes) /\ Len(Unread(b, size, o, m)) = m
        /\ \A i \in 1 .. m : Unread(b, size, o, m)[i] = b[Wrap(size, o + i - 1)]
    BY SMTT(30), <2>0a, UnreadType
  <2> HIDE DEF c
  <2>2. \A i \in k + 1 .. l : c[i] \in Bytes
    BY SMTT(30), <1>3, <1>6
  <2>3. v \in Seq(Bytes) /\ Len(v) = (IF k + 1 <= l THEN l - (k + 1) + 1 ELSE 0)
        /\ \A i \in 1 .. l - (k + 1) + 1 : v[i] = c[k + 1 + i - 1]
    BY SMTT(30), <1>3, <2>2, SubSeqProperties
  <2> HIDE DEF u, v
  <2>4. /\ (IF k + 1 <= l THEN l - (k + 1) + 1 ELSE 0) = m /\ l - (k + 1) + 1 = m
        /\ \A i \in 1 .. m : /\ k + i \in 1 .. l /\ k + 1 + i - 1 = k + i
                             /\ off + (k + i) - 1 = off + k + i - 1
    BY SMTT(30), <1>3 DEF m
  <2>5. \A i \in 1 .. m : v[i] = b[Wrap(size, off + k + i - 1)]
    BY SMTT(30), <2>3, <2>4, <1>6
  <2>6. \A i \in 1 .. m : v[i] = b[Wrap(size, o + i - 1)]
    BY ZenonT(30), <2>5, <1>5 DEF m, o
  <2>7. Len(v) = m
    BY ZenonT(30), <2>3, <2>4
  <2>8. Unread(b, size, o, m) = v
    BY ZenonT(30), <2>1, <2>3, <2>6, <2>7, SeqEqual
  <2> QED
    BY ZenonT(30), <2>8 DEF v, m, o
<1> QED
  BY ZenonT(30), <1>5, <1>8, <1>9 DEF end

\* A read takes the oldest unread bytes of the peer's ring.
LEMMA ReadStep ==
    ASSUME PairTypeOK, NEW e \in Ends, NEW n \in 1 .. MaxCall, bio_read(e, n)
    PROVE  LET p == Peer(e)
               k == IF len[p] < n THEN len[p] ELSE n
           IN  /\ k \in 1 .. len[p] /\ p \in Ends
               /\ len' = [len EXCEPT ![p] = len[p] - k]
               /\ offset' \in [Ends -> Nat] /\ offset'[p] < Size[p]
               /\ \A x \in Ends : x # p => offset'[x] = offset[x]
               /\ Content(p)' = SubSeq(Content(p), k + 1, Len(Content(p)))
               /\ Returns(e, "read", "done", SubSeq(Content(p), 1, k))
               /\ request' = [request EXCEPT ![p] = 0]
               /\ Paired /\ UNCHANGED <<live, buf, closed>>
<1> DEFINE p == Peer(e)
           k == IF len[p] < n THEN len[p] ELSE n
           end == read_loop(buf[p], Size[p], offset[p], len[p], k)
<1>0. p \in Ends
  BY ZenonT(30), PeerIsOther
<1>1. /\ len' = [len EXCEPT ![p] = end.len]
      /\ offset' = [offset EXCEPT ![p] = end.offset]
      /\ request' = [request EXCEPT ![p] = 0]
      /\ Paired /\ UNCHANGED <<live, buf, closed>> /\ len[p] > 0
      /\ Returns(e, "read", "done", end.out)
  BY Zenon DEF bio_read
<1> HIDE DEF p
<1>2a. IsPairRing(buf[p], Size[p], offset[p], len[p])
  BY ZenonT(30), <1>0, RingFacts
<1>2. /\ len[p] \in Nat /\ offset[p] \in Nat /\ Size[p] \in Nat
      /\ offset[p] < Size[p] /\ len[p] <= Size[p]
  BY ZenonT(30), <1>2a DEF IsPairRing
<1>3. k \in 1 .. len[p]
  BY SMTT(30), <1>1, <1>2, CallAssumption
<1> HIDE DEF k
<1>4. /\ end.len = len[p] - k
      /\ end.offset \in Nat /\ end.offset < Size[p]
      /\ end.out = SubSeq(Content(p), 1, k)
      /\ Unread(buf[p], Size[p], end.offset, len[p] - k) = SubSeq(Content(p), k + 1, len[p])
  <2> DEFINE c == Unread(buf[p], Size[p], offset[p], len[p])
  <2>1. /\ end.len = len[p] - k
        /\ end.offset \in Nat /\ end.offset < Size[p]
        /\ end.out = SubSeq(c, 1, k)
        /\ Unread(buf[p], Size[p], end.offset, len[p] - k) = SubSeq(c, k + 1, len[p])
    BY SMTT(30), <1>2a, <1>3, ReadEffect
  <2> HIDE DEF end
  <2> QED
    BY ZenonT(30), <2>1 DEF Content
<1>5. Len(Content(p)) = len[p]
  BY SMTT(30), <1>2a, UnreadType DEF Content
<1> HIDE DEF end
<1>6. len'[p] = len[p] - k /\ offset'[p] = end.offset /\ buf'[p] = buf[p]
  BY ZenonT(30), <1>0, <1>1, <1>4 DEF PairTypeOK
<1>7. Content(p)' = Unread(buf[p], Size[p], end.offset, len[p] - k)
  <2>1. Content(p)' = Unread(buf'[p], Size[p], offset'[p], len'[p])
    BY ZenonT(30) DEF Content, p, Peer
  <2> QED
    BY ZenonT(30), <2>1, <1>6
<1>8. offset' \in [Ends -> Nat] /\ \A x \in Ends : x # p => offset'[x] = offset[x]
  BY ZenonT(30), <1>0, <1>1, <1>4 DEF PairTypeOK
<1>9. /\ len' = [len EXCEPT ![p] = len[p] - k] /\ offset'[p] < Size[p]
      /\ Returns(e, "read", "done", SubSeq(Content(p), 1, k))
      /\ Content(p)' = SubSeq(Content(p), k + 1, Len(Content(p)))
  BY ZenonT(30), <1>1, <1>4, <1>5, <1>6, <1>7
<1> QED
  BY ZenonT(30), <1>0, <1>1, <1>3, <1>8, <1>9 DEF k, p

\* A write appends what it takes.
LEMMA WriteStep ==
    ASSUME PairTypeOK, NEW e \in Ends, NEW n \in 1 .. MaxCall, NEW s \in [1 .. n -> Bytes],
           bio_write(e, s)
    PROVE  \E in \in Seq(Bytes) :
              /\ 1 <= Len(in) /\ len[e] + Len(in) <= Size[e]
              /\ len' = [len EXCEPT ![e] = len[e] + Len(in)]
              /\ DOMAIN buf' = Ends
              /\ buf'[e] \in [0 .. Size[e] - 1 -> Bytes]
              /\ \A x \in Ends : x # e => buf'[x] = buf[x]
              /\ Content(e)' = Content(e) \o in
              /\ Returns(e, "write", "done", in)
              /\ request' = [request EXCEPT ![e] = 0]
              /\ Paired /\ e \notin closed /\ UNCHANGED <<live, offset, closed>>
<1> DEFINE room == Size[e] - len[e]
           in == SubSeq(s, 1, IF Len(s) > room THEN room ELSE Len(s))
           end == write_loop(buf[e], Size[e], offset[e], len[e], in)
<1>1. /\ buf' = [buf EXCEPT ![e] = end.buf]
      /\ len' = [len EXCEPT ![e] = end.len]
      /\ request' = [request EXCEPT ![e] = 0]
      /\ Paired /\ e \notin closed /\ UNCHANGED <<live, offset, closed>> /\ room > 0
      /\ Returns(e, "write", "done", in)
  BY Zenon DEF bio_write
<1>2a. IsPairRing(buf[e], Size[e], offset[e], len[e])
  BY ZenonT(30), RingFacts
<1>2. /\ len[e] \in Nat /\ offset[e] \in Nat /\ Size[e] \in Nat
      /\ offset[e] < Size[e] /\ len[e] <= Size[e]
  BY ZenonT(30), <1>2a DEF IsPairRing
<1>3. room \in Nat /\ room > 0
  BY SMTT(30), <1>1, <1>2
<1>4. in \in Seq(Bytes) /\ 1 <= Len(in) /\ Len(in) <= room
  <2>1. n \in Nat /\ 1 <= n
    BY SMTT(30), CallAssumption
  <2> HIDE DEF room
  <2> QED
    BY ZenonT(30), <2>1, <1>3, WriteTakes
<1> HIDE DEF in
<1>5. len[e] + Len(in) <= Size[e]
  BY SMTT(30), <1>2, <1>4, LenProperties
<1>6. /\ end.len = len[e] + Len(in)
      /\ end.buf \in [0 .. Size[e] - 1 -> Bytes]
      /\ Unread(end.buf, Size[e], offset[e], len[e] + Len(in)) = Content(e) \o in
  <2>1. /\ end.len = len[e] + Len(in)
        /\ end.buf \in [0 .. Size[e] - 1 -> Bytes]
        /\ Unread(end.buf, Size[e], offset[e], len[e] + Len(in)) =
             Unread(buf[e], Size[e], offset[e], len[e]) \o in
    BY SMTT(90), <1>2a, <1>4, <1>5, WriteLoop
  <2> HIDE DEF end
  <2> QED
    BY ZenonT(30), <2>1 DEF Content
<1> HIDE DEF end
<1>7. len'[e] = len[e] + Len(in) /\ buf'[e] = end.buf /\ offset'[e] = offset[e]
  BY ZenonT(30), <1>1, <1>6 DEF PairTypeOK
<1>8. Content(e)' = Content(e) \o in
  <2>1. Content(e)' = Unread(buf'[e], Size[e], offset'[e], len'[e])
    BY ZenonT(30) DEF Content
  <2> QED
    BY ZenonT(30), <2>1, <1>6, <1>7
<1>9. DOMAIN buf' = Ends /\ \A x \in Ends : x # e => buf'[x] = buf[x]
  BY ZenonT(30), <1>1 DEF PairTypeOK
<1>10. len' = [len EXCEPT ![e] = len[e] + Len(in)] /\ buf'[e] \in [0 .. Size[e] - 1 -> Bytes]
  BY ZenonT(30), <1>1, <1>6, <1>7
<1> QED
  BY ZenonT(30), <1>1, <1>4, <1>5, <1>8, <1>9, <1>10

-----------------------------------------------------------------------------
\* The type invariant, and how much may be asked of an empty ring.
PairInv == PairTypeOK /\ RequestCanBeGranted

\* The first state of the pair has the invariant.
LEMMA InitInv == PairInit => PairInv
<1> SUFFICES ASSUME PairInit PROVE PairInv
  BY ZenonT(30)
<1>1. \A e \in Ends : Size[e] \in Nat /\ 0 < Size[e]
  BY SMTT(30), SizeAssumption
<1>2. buf \in [Ends -> UNION {[0 .. Size[e] - 1 -> Bytes] : e \in Ends}]
  BY Zenon DEF PairInit
<1>3. \A e \in Ends : buf[e] \in [0 .. Size[e] - 1 -> Bytes]
  <2> TAKE e \in Ends
  <2>1. DOMAIN buf[e] = 0 .. Size[e] - 1
    BY ZenonT(30) DEF PairInit
  <2>2. PICK p \in Ends : buf[e] \in [0 .. Size[p] - 1 -> Bytes]
    BY SMTT(30), <1>2
  <2> QED
    BY ZenonT(30), <2>1, <2>2
<1>4. PairTypeOK
  <2>1. DOMAIN buf = Ends
    BY ZenonT(30), <1>2
  <2>2. /\ live = Ends /\ closed = {} /\ offset = [e \in Ends |-> 0]
        /\ len = [e \in Ends |-> 0] /\ request = [e \in Ends |-> 0]
    BY ZenonT(30) DEF PairInit
  <2> QED
    BY SMTT(30), <1>1, <1>3, <2>1, <2>2 DEF PairTypeOK
<1>5. RequestCanBeGranted
  BY SMTT(30) DEF PairInit, RequestCanBeGranted
<1> QED
  BY ZenonT(30), <1>4, <1>5 DEF PairInv

\* Every step of the pair keeps it.
LEMMA NextInv == PairInv /\ [PairNext]_pair_vars => PairInv'
<1> SUFFICES ASSUME PairInv, [PairNext]_pair_vars PROVE PairInv'
  BY ZenonT(30)
<1> USE DEF PairInv
<1>0. \A e \in Ends : Size[e] \in Nat /\ 0 < Size[e]
  BY SMTT(30), SizeAssumption
<1>1. ASSUME NEW e \in Ends, NEW n \in 1 .. MaxCall, bio_read(e, n) PROVE PairInv'
  <2> DEFINE p == Peer(e)
             k == IF len[p] < n THEN len[p] ELSE n
  <2>1. /\ k \in 1 .. len[p] /\ p \in Ends
        /\ len' = [len EXCEPT ![p] = len[p] - k]
        /\ offset' \in [Ends -> Nat] /\ offset'[p] < Size[p]
        /\ \A x \in Ends : x # p => offset'[x] = offset[x]
        /\ request' = [request EXCEPT ![p] = 0]
        /\ UNCHANGED <<live, buf, closed>>
    BY ZenonT(30), <1>1, ReadStep
  <2> HIDE DEF p, k
  <2>2. len[p] - k \in Nat /\ len[p] - k <= Size[p]
    BY SMTT(30), <2>1, RingFacts DEF IsPairRing
  <2>3. PairTypeOK'
    BY ZenonT(30), <1>0, <2>1, <2>2 DEF PairTypeOK
  <2>4. RequestCanBeGranted'
    BY SMTT(30), <1>0, <2>1, <2>2 DEF PairTypeOK, RequestCanBeGranted
  <2> QED
    BY ZenonT(30), <2>3, <2>4
<1>2. ASSUME NEW e \in Ends, NEW n \in 1 .. MaxCall, bio_read_empty(e, n) PROVE PairInv'
  <2> DEFINE p == Peer(e)
  <2>0. p \in Ends
    BY ZenonT(30), PeerIsOther
  <2>1. PICK r : /\ request' = [request EXCEPT ![p] = r]
                 /\ r \in Nat /\ r <= Size[p] /\ len[p] = 0
                 /\ UNCHANGED <<live, buf, offset, len, closed>>
    <3>1. n \in Nat /\ Size[p] \in Nat
      BY SMTT(30), <1>0, <2>0, CallAssumption
    <3>2. CASE p \in closed
      BY SMTT(30), <1>2, <3>1, <3>2 DEF bio_read_empty, ring
    <3>3. CASE p \notin closed /\ n <= Size[p]
      BY ZenonT(30), <1>2, <3>1, <3>3 DEF bio_read_empty, ring
    <3>4. CASE p \notin closed /\ ~(n <= Size[p])
      BY SMTT(30), <1>2, <3>1, <3>4 DEF bio_read_empty, ring
    <3> QED
      BY ZenonT(30), <3>2, <3>3, <3>4
  <2> HIDE DEF p
  <2>2. PairTypeOK'
    BY ZenonT(30), <2>0, <2>1 DEF PairTypeOK
  <2>3. RequestCanBeGranted'
    BY ZenonT(30), <2>0, <2>1 DEF PairTypeOK, RequestCanBeGranted
  <2> QED
    BY ZenonT(30), <2>2, <2>3
<1>3. ASSUME NEW e \in Ends, NEW n \in 1 .. MaxCall, NEW s \in [1 .. n -> Bytes], bio_write(e, s)
      PROVE  PairInv'
  <2>1. PICK in \in Seq(Bytes) :
           /\ 1 <= Len(in) /\ len[e] + Len(in) <= Size[e]
           /\ len' = [len EXCEPT ![e] = len[e] + Len(in)]
           /\ DOMAIN buf' = Ends
           /\ buf'[e] \in [0 .. Size[e] - 1 -> Bytes]
           /\ \A x \in Ends : x # e => buf'[x] = buf[x]
           /\ request' = [request EXCEPT ![e] = 0]
           /\ UNCHANGED <<live, offset, closed>>
    BY ZenonT(30), <1>3, WriteStep
  <2>2. len[e] + Len(in) \in Nat
    BY SMTT(30), <2>1, RingFacts, LenProperties DEF IsPairRing
  <2>3. PairTypeOK'
    BY ZenonT(30), <1>0, <2>1, <2>2 DEF PairTypeOK
  <2>4. RequestCanBeGranted'
    BY SMTT(30), <1>0, <2>1, <2>2 DEF PairTypeOK, RequestCanBeGranted
  <2> QED
    BY ZenonT(30), <2>3, <2>4
<1>4. ASSUME NEW e \in Ends,
             \/ bio_write_refused(e) \/ \E op \in {"read", "write"} : BIO_uninitialized(e, op)
             \/ BIO_shutdown_wr(e) \/ BIO_reset_read_request(e)
      PROVE  PairInv'
  <2>1. /\ request' = request \/ request' = [request EXCEPT ![e] = 0]
        /\ closed' = closed \/ closed' = closed \cup {e}
        /\ UNCHANGED <<live, buf, offset, len>>
    BY ZenonT(30), <1>4 DEF bio_write_refused, BIO_uninitialized, BIO_shutdown_wr, BIO_reset_read_request, ring
  <2>2. PairTypeOK'
    BY SMTT(30), <2>1 DEF PairTypeOK
  <2>3. RequestCanBeGranted'
    <3>1. CASE request' = request
      BY ZenonT(30), <2>1, <3>1 DEF RequestCanBeGranted
    <3>2. CASE request' = [request EXCEPT ![e] = 0]
      BY SMTT(30), <2>1, <3>2 DEF PairTypeOK, RequestCanBeGranted
    <3> QED
      BY ZenonT(30), <2>1, <3>1, <3>2
  <2> QED
    BY ZenonT(30), <2>2, <2>3
<1>5. ASSUME NEW e \in Ends, bio_free(e) PROVE PairInv'
  BY SMTT(30), <1>0, <1>5 DEF bio_free, PairTypeOK, RequestCanBeGranted
<1>6. ASSUME UNCHANGED pair_vars PROVE PairInv'
  BY ZenonT(30), <1>6 DEF pair_vars, ring, PairTypeOK, RequestCanBeGranted
<1> QED
  BY ZenonT(30), <1>1, <1>2, <1>3, <1>4, <1>5, <1>6 DEF PairNext

\* Reads and writes keep their indices inside the rings, whatever the sizes.
THEOREM PairTypeCorrect == PairSpec => []PairTypeOK
<1>1. PairInv => PairTypeOK
  BY ZenonT(30) DEF PairInv
<1> QED
  BY <1>1, InitInv, NextInv, PTL DEF PairSpec

\* The number BIO_ctrl_get_read_request returns is one the next write can grant.
THEOREM RequestsAreGrantable == PairSpec => []RequestCanBeGranted
<1>1. PairInv => RequestCanBeGranted
  BY ZenonT(30) DEF PairInv
<1> QED
  BY <1>1, InitInv, NextInv, PTL DEF PairSpec

-----------------------------------------------------------------------------
queue == [e \in Ends |-> Content(e)]

\* An empty ring has no content.
LEMMA EmptyContent ==
    ASSUME NEW e, len[e] = 0
    PROVE  Content(e) = <<>>
BY SMTT(30) DEF Content, Unread

\* The pipe of a ring is the content of the ring.
LEMMA QueueFacts ==
    ASSUME PairTypeOK, NEW e \in Ends
    PROVE  /\ queue[e] = Content(e) /\ queue[e] \in Seq(Bytes) /\ Len(queue[e]) = len[e]
           /\ (queue[e] = <<>> <=> len[e] = 0)
<1>1. queue[e] = Content(e)
  BY ZenonT(30) DEF queue
<1>2. Content(e) \in Seq(Bytes) /\ Len(Content(e)) = len[e]
  BY SMTT(30), RingFacts, UnreadType DEF Content
<1> QED
  BY SMTT(30), <1>1, <1>2, EmptyContent

\* A step that leaves the rings alone leaves the pipes alone.
LEMMA SameQueue ==
    ASSUME UNCHANGED <<buf, offset, len>>
    PROVE  queue' = queue
BY ZenonT(30) DEF queue, Content

\* The first state is one of the pipes.
LEMMA InitRefines == PairInit => Pipes!Init
<1> SUFFICES ASSUME PairInit PROVE Pipes!Init
  BY ZenonT(30)
<1>1. \A e \in Ends : Content(e) = <<>>
  BY ZenonT(30), EmptyContent DEF PairInit
<1>2. queue = [e \in Ends |-> <<>>]
  BY ZenonT(30), <1>1 DEF queue
<1> QED
  BY ZenonT(30), <1>2 DEF PairInit, Pipes!Init, Paired, queue

\* Every step is a step of the pipes, or leaves them alone.
LEMMA NextRefines == PairInv /\ [PairNext]_pair_vars => [Pipes!Next]_(Pipes!vars)
<1> SUFFICES ASSUME PairInv, [PairNext]_pair_vars PROVE [Pipes!Next]_(Pipes!vars)
  BY ZenonT(30)
<1> PairTypeOK
  BY ZenonT(30) DEF PairInv
<1>1. ASSUME NEW e \in Ends, NEW n \in 1 .. MaxCall, bio_read(e, n) PROVE Pipes!Next
  <2> DEFINE p == Peer(e)
             k == IF len[p] < n THEN len[p] ELSE n
  <2>1. /\ k \in 1 .. len[p] /\ p \in Ends
        /\ len' = [len EXCEPT ![p] = len[p] - k]
        /\ \A x \in Ends : x # p => offset'[x] = offset[x]
        /\ Content(p)' = SubSeq(Content(p), k + 1, Len(Content(p)))
        /\ Returns(e, "read", "done", SubSeq(Content(p), 1, k))
        /\ Paired /\ UNCHANGED <<live, buf, closed>>
    BY ZenonT(30), <1>1, ReadStep
  <2> HIDE DEF k
  <2>2. \A x \in Ends : x # p => Content(x)' = Content(x)
    BY ZenonT(30), <2>1 DEF Content, PairTypeOK
  <2>3. queue' = [queue EXCEPT ![p] = SubSeq(@, k + 1, Len(@))]
    <3>1. queue' = [x \in Ends |-> Content(x)']
      BY ZenonT(30) DEF queue
    <3> HIDE DEF p
    <3> QED
      BY ZenonT(30), <3>1, <2>1, <2>2 DEF queue
  <2>4. k \in 1 .. Len(queue[p])
    BY ZenonT(30), <2>1, QueueFacts
  <2>5. Pipes!Take(e, k)
    BY ZenonT(30), <2>1, <2>3, <2>4, QueueFacts DEF Pipes!Take, Pipes!Peer, Peer, Pipes!Returns, Returns, Paired, queue
  <2>6. k \in 1 .. Size[p]
    BY SMTT(30), <2>1, RingFacts DEF IsPairRing
  <2> QED
    BY ZenonT(30), <2>5, <2>6 DEF Pipes!Next, Pipes!Peer, Peer
<1>2. ASSUME NEW e \in Ends, NEW n \in 1 .. MaxCall, bio_read_empty(e, n) PROVE Pipes!Next
  <2> DEFINE p == Peer(e)
  <2>1. p \in Ends /\ Paired /\ queue[p] = <<>> /\ UNCHANGED <<live, closed>> /\ queue' = queue
    BY ZenonT(30), <1>2, PeerIsOther, QueueFacts, SameQueue DEF bio_read_empty, ring
  <2>2. result' = [end |-> e, op |-> "read", ret |-> IF p \in closed THEN "end" ELSE "retry",
                   bytes |-> <<>>]
    BY ZenonT(30), <1>2 DEF bio_read_empty, Returns
  <2>3. result' \in Pipes!Refusals(e)
    BY ZenonT(30), <2>1, <2>2 DEF Pipes!Refusals, Pipes!Peer, Peer, queue
  <2>4. Pipes!Refuse(e)
    BY ZenonT(30), <2>1, <2>3 DEF Pipes!Refuse, Paired, queue
  <2> QED
    BY ZenonT(30), <2>4 DEF Pipes!Next
<1>3. ASSUME NEW e \in Ends, NEW n \in 1 .. MaxCall, NEW s \in [1 .. n -> Bytes], bio_write(e, s)
      PROVE  Pipes!Next
  <2>1. PICK in \in Seq(Bytes) :
              /\ 1 <= Len(in) /\ len[e] + Len(in) <= Size[e]
              /\ len' = [len EXCEPT ![e] = len[e] + Len(in)]
              /\ \A x \in Ends : x # e => buf'[x] = buf[x]
              /\ Content(e)' = Content(e) \o in
              /\ Returns(e, "write", "done", in)
              /\ Paired /\ e \notin closed /\ UNCHANGED <<live, offset, closed>>
    BY ZenonT(30), <1>3, WriteStep
  <2>2. \A x \in Ends : x # e => Content(x)' = Content(x)
    BY ZenonT(30), <2>1 DEF Content, PairTypeOK
  <2>3. queue' = [queue EXCEPT ![e] = @ \o in]
    <3>1. queue' = [x \in Ends |-> Content(x)']
      BY ZenonT(30) DEF queue
    <3> QED
      BY ZenonT(30), <3>1, <2>1, <2>2 DEF queue
  <2>4. in # <<>> /\ Len(queue[e]) + Len(in) <= Size[e]
    <3>1. in # <<>>
      BY SMTT(30), <2>1
    <3>2. Len(queue[e]) = len[e]
      BY ZenonT(30), QueueFacts
    <3> QED
      BY ZenonT(30), <2>1, <3>1, <3>2
  <2>5. Pipes!Put(e, in)
    BY ZenonT(30), <2>1, <2>3, <2>4 DEF Pipes!Put, Pipes!Returns, Returns, Paired, queue
  <2>6. in \in UNION {[1 .. m -> Bytes] : m \in 1 .. Size[e]}
    <3>1. Len(in) \in 1 .. Size[e]
      BY SMTT(30), <2>1, RingFacts, LenProperties DEF IsPairRing
    <3>2. in \in [1 .. Len(in) -> Bytes]
      BY ZenonT(30), LenProperties
    <3> QED
      BY ZenonT(30), <3>1, <3>2
  <2> QED
    BY ZenonT(30), <2>5, <2>6 DEF Pipes!Next
<1>4. ASSUME NEW e \in Ends, bio_write_refused(e) PROVE Pipes!Next
  <2>1. Paired /\ UNCHANGED <<live, closed>> /\ queue' = queue
        /\ (e \in closed \/ Len(queue[e]) = Size[e])
    BY ZenonT(30), <1>4, QueueFacts, SameQueue DEF bio_write_refused, ring
  <2>2. result' = [end |-> e, op |-> "write", bytes |-> <<>>,
                   ret |-> IF e \in closed THEN "broken_pipe" ELSE "retry"]
    BY ZenonT(30), <1>4 DEF bio_write_refused, Returns
  <2>3. result' \in Pipes!Refusals(e)
    BY ZenonT(30), <2>1, <2>2 DEF Pipes!Refusals, Pipes!Peer, Peer, queue
  <2>4. Pipes!Refuse(e)
    BY ZenonT(30), <2>1, <2>3 DEF Pipes!Refuse, Paired, queue
  <2> QED
    BY ZenonT(30), <2>4 DEF Pipes!Next
<1>5. ASSUME NEW e \in Ends, NEW op \in {"read", "write"}, BIO_uninitialized(e, op) PROVE Pipes!Next
  <2>1. ~Paired /\ UNCHANGED <<live, closed>> /\ queue' = queue
    BY ZenonT(30), <1>5, SameQueue DEF BIO_uninitialized, ring
  <2>2. result' = [end |-> e, op |-> op, ret |-> "uninitialized", bytes |-> <<>>]
    BY ZenonT(30), <1>5 DEF BIO_uninitialized, Returns
  <2>3. result' \in Pipes!Refusals(e)
    BY ZenonT(30), <2>1, <2>2 DEF Pipes!Refusals, queue
  <2>4. Pipes!Refuse(e)
    BY ZenonT(30), <2>1, <2>3 DEF Pipes!Refuse, Paired, queue
  <2> QED
    BY ZenonT(30), <2>4 DEF Pipes!Next
<1>6. ASSUME NEW e \in Ends, BIO_shutdown_wr(e) PROVE Pipes!Next
  <2>1. queue' = queue
    BY ZenonT(30), <1>6, SameQueue DEF BIO_shutdown_wr, ring
  <2>2. Pipes!Shut(e)
    BY ZenonT(30), <1>6, <2>1 DEF BIO_shutdown_wr, ring, Pipes!Shut, Paired, queue
  <2> QED
    BY ZenonT(30), <2>2 DEF Pipes!Next
<1>7. ASSUME NEW e \in Ends, BIO_reset_read_request(e) PROVE UNCHANGED Pipes!vars
  <2>1. queue' = queue
    BY ZenonT(30), <1>7, SameQueue DEF BIO_reset_read_request, ring
  <2> QED
    BY ZenonT(30), <1>7, <2>1 DEF BIO_reset_read_request, Pipes!vars, Paired, queue
<1>8. ASSUME NEW e \in Ends, bio_free(e) PROVE Pipes!Next
  <2>1. \A x \in Ends : Content(x)' = <<>>
    <3> TAKE x \in Ends
    <3>1. len'[x] = 0
      BY ZenonT(30), <1>8 DEF bio_free
    <3> QED
      BY SMTT(30), <3>1 DEF Content, Unread
  <2>2. queue' = [x \in Ends |-> <<>>]
    BY ZenonT(30), <2>1 DEF queue
  <2>3. live' # Ends
    BY ZenonT(30), <1>8 DEF bio_free
  <2>4. Pipes!Disconnect
    BY ZenonT(30), <1>8, <2>2, <2>3 DEF bio_free, Pipes!Disconnect, Paired, queue
  <2> QED
    BY ZenonT(30), <2>4 DEF Pipes!Next
<1>9. ASSUME UNCHANGED pair_vars PROVE UNCHANGED Pipes!vars
  <2>1. queue' = queue
    BY ZenonT(30), <1>9, SameQueue DEF pair_vars, ring
  <2> QED
    BY ZenonT(30), <1>9, <2>1 DEF pair_vars, Pipes!vars, Paired, queue
<1> QED
  BY ZenonT(30), <1>1, <1>2, <1>3, <1>4, <1>5, <1>6, <1>7, <1>8, <1>9 DEF PairNext

\* Whatever the sizes of its rings and of the calls, a BIO pair behaves as two
\* bounded byte pipes (bio_read, bio_write, bio_destroy_pair).
THEOREM PairIsPipes == PairSpec => ImplementsPipes
BY InitInv, NextInv, InitRefines, NextRefines, PTL DEF PairSpec, ImplementsPipes, Pipes!Spec

-----------------------------------------------------------------------------
\* The reassembly of DTLS messages.

\* Records that arrive are well-formed.
LEMMA ArrivingType == ASSUME TypeOK PROVE Arriving \subseteq Records
<1>1. ASSUME NEW m \in Msgs PROVE PeerHeaders(m) \subseteq Headers
  <2>1. MsgLen[m] \in Nat /\ m \in Nat
    BY SMTT(30), <1>1, MsgsAssumption, LenAssumption DEF Msgs
  <2>2. SUFFICES ASSUME NEW x \in 0 .. MsgLen[m], NEW y \in 0 .. MsgLen[m], x <= y
                 PROVE  [type |-> m, seq |-> m, msg_len |-> MsgLen[m], frag_off |-> x,
                         frag_len |-> y - x] \in Headers
    BY ZenonT(30) DEF PeerHeaders
  <2>3. QED
    BY SMTT(30), <2>1, <2>2 DEF Headers
<1>2. SUFFICES ASSUME NEW rec \in Arriving, rec \notin StrayRecords
               PROVE  rec \in Records
  BY ZenonT(30), StrayAssumption
<1>3. \/ rec \in {[kind |-> "change_cipher_spec", epoch |-> 0],
                  [kind |-> "application_data", epoch |-> 1]}
      \/ \E m \in Msgs : rec \in [kind : {"handshake"}, epoch : {MsgEpoch(m)},
                                  hdr : PeerHeaders(m)]
  BY ZenonT(30), <1>2 DEF Arriving
<1>4. QED
  BY SMTT(30), <1>1, <1>3 DEF Records, MsgEpoch

\* Every sequence number has a slot.
LEMMA SlotType == \A seq \in Nat : Slot(seq) \in Slots
  BY SMTT(30), FlightAssumption DEF Slot, Slots

\* Marking a range keeps a bitmask a bitmask of the same length.
LEMMA MarkType ==
    ASSUME NEW length \in Nat, NEW mask \in Masks(length), NEW start \in Nat, NEW end \in Nat
    PROVE  mark_bytes(mask, start, end) \in Masks(length)
  BY ZenonT(30) DEF mark_bytes, Masks, bit_range, AllBits

\* The message found or created for a header has the header's length and fits
\* its slot.
LEMMA IncomingType ==
    ASSUME TypeOK, NEW hdr \in Headers, ~bad_fragment(hdr), ~incoming_message_fails(hdr)
    PROVE  /\ hdr.msg_len \in 0 .. MaxMessageLen
           /\ dtls1_get_incoming_message(hdr) \in Fragments(hdr.msg_len)
           /\ dtls1_get_incoming_message(hdr).type = hdr.type
<1> DEFINE old == incoming_messages[Slot(hdr.seq)]
<1>1. hdr.msg_len \in 0 .. MaxMessageLen
  BY SMTT(30), LenAssumption DEF bad_fragment, Headers
<1>2. Slot(hdr.seq) \in Slots
  BY ZenonT(30), SlotType DEF Headers
<1>3. CASE old # NULL
  BY ZenonT(30), <1>1, <1>2, <1>3 DEF TypeOK, incoming_message_fails, dtls1_get_incoming_message
<1>4. CASE old = NULL
  <2> DEFINE mask == [i \in 0 .. MaskLen(hdr.msg_len) - 1 |-> {}]
  <2>1. mask \in Masks(hdr.msg_len)
    BY ZenonT(30) DEF Masks
  <2>2. dtls1_hm_fragment_new(hdr) \in Fragments(hdr.msg_len)
    BY ZenonT(30), <2>1, <1>1 DEF dtls1_hm_fragment_new, Fragments, Headers, TypeOK
  <2>3. QED
    BY ZenonT(30), <2>2, <1>1, <1>4 DEF dtls1_get_incoming_message, dtls1_hm_fragment_new
<1>5. QED
  BY ZenonT(30), <1>3, <1>4

\* What open_fragment leaves in the slot is that message with more data.
LEMMA StoreType ==
    ASSUME TypeOK, NEW hdr \in Headers, ~bad_fragment(hdr), ~incoming_message_fails(hdr)
    PROVE  /\ store_fragment(hdr) \in Fragments(hdr.msg_len)
           /\ store_fragment(hdr).type = hdr.type
           /\ store_fragment(hdr).msg_len = hdr.msg_len
           /\ store_fragment(hdr).seq = dtls1_get_incoming_message(hdr).seq
           /\ store_fragment(hdr).epochs \in
                 {dtls1_get_incoming_message(hdr).epochs,
                  dtls1_get_incoming_message(hdr).epochs \cup {r_epoch}}
           /\ store_fragment(hdr) # NULL
<1> DEFINE frag == dtls1_get_incoming_message(hdr)
           start == hdr.frag_off
           end == hdr.frag_off + hdr.frag_len
<1>1. /\ hdr.msg_len \in 0 .. MaxMessageLen
      /\ frag \in Fragments(hdr.msg_len)
      /\ frag.type = hdr.type
  BY ZenonT(30), IncomingType
<1>2. hdr.msg_len \in Nat /\ start \in Nat /\ end \in Nat /\ end <= hdr.msg_len
  BY SMTT(30), <1>1 DEF Headers, bad_fragment
<1> HIDE DEF frag, start, end
<1>3. CASE frag.reassembly = NULL
  BY ZenonT(30), <1>1, <1>3, NullAssumption DEF store_fragment, frag, Fragments
<1>4. CASE frag.reassembly # NULL
  <2>1. frag.reassembly \in Masks(hdr.msg_len)
    BY ZenonT(30), <1>1, <1>4 DEF Fragments
  <2> DEFINE mask == mark_bytes(frag.reassembly, start, end)
             new == dtls1_hm_fragment_mark(frag, start, end)
  <2>2. mask \in Masks(hdr.msg_len)
    BY ZenonT(30), <2>1, <1>2, MarkType
  <2> HIDE DEF mask
  <2>3. /\ new = [frag EXCEPT !.data = frag.data \cup (start .. end - 1),
                              !.epochs = frag.epochs \cup {r_epoch},
                              !.reassembly = new.reassembly]
        /\ new.reassembly \in {mask, NULL}
    BY ZenonT(30), <1>1 DEF dtls1_hm_fragment_mark, mask, Fragments, new
  <2>4. frag.data \cup (start .. end - 1) \subseteq 0 .. hdr.msg_len - 1
    BY SMTT(30), <1>1, <1>2 DEF Fragments
  <2> HIDE DEF new
  <2>5. new \in Fragments(hdr.msg_len)
    <3>1. /\ new.reassembly \in Masks(hdr.msg_len) \cup {NULL}
          /\ frag.epochs \cup {r_epoch} \subseteq {0, 1}
      BY ZenonT(30), <2>2, <2>3, <1>1 DEF Fragments, TypeOK
    <3>2. QED
      BY ZenonT(30), <3>1, <2>3, <2>4, <1>1 DEF Fragments
  <2>6. store_fragment(hdr) = new
    BY ZenonT(30), <1>4 DEF store_fragment, frag, start, end, new
  <2>7. /\ new.type = frag.type
        /\ new.seq = frag.seq
        /\ new.epochs = frag.epochs \cup {r_epoch}
    BY ZenonT(30), <2>3, <1>1 DEF Fragments
  <2>8. new.msg_len = hdr.msg_len /\ new # NULL
    BY ZenonT(30), <2>5, <1>1, NullAssumption DEF Fragments
  <2>9. QED
    BY ZenonT(30), <2>5, <2>6, <2>7, <2>8, <1>1 DEF frag
<1>5. QED
  BY ZenonT(30), <1>3, <1>4

-----------------------------------------------------------------------------
(***************************************************************************)
(* The actions, one by one.                                                *)
(***************************************************************************)
StateInv == TypeOK /\ PhaseInv

\* The step of dtls1_open_handshake that stores a fragment.
Stores(hdr, more) ==
    /\ hdr \in Headers
    /\ ~bad_fragment(hdr)
    /\ ~ignored_fragment(hdr)
    /\ ~incoming_message_fails(hdr)
    /\ incoming_messages' =
          [incoming_messages EXCEPT ![Slot(hdr.seq)] = store_fragment(hdr)]
    /\ in_record' = more
    /\ UNCHANGED <<handshake_read_seq, has_message, has_change_cipher_spec,
                   r_epoch, wait, sent, delivered>>

\* Every step is one of eight: the records that are dropped leave everything
\* but the loop flag alone, the others are stored, flagged or fatal.
LEMMA NextCases ==
    ASSUME TypeOK, Next
    PROVE  \/ PeerSendsFlight
           \/ Fail
           \/ \E rec \in Arriving, more \in BOOLEAN :
                 /\ rec.kind = "handshake" /\ rec.epoch = r_epoch
                 /\ Reading \/ in_record
                 /\ Stores(rec.hdr, more)
           \/ /\ Reading \/ in_record
              /\ in_record' \in BOOLEAN
              /\ UNCHANGED <<handshake_read_seq, incoming_messages, has_message,
                             has_change_cipher_spec, r_epoch, wait, sent, delivered>>
           \/ /\ Reading /\ ~in_record
              /\ has_change_cipher_spec' = TRUE
              /\ UNCHANGED <<handshake_read_seq, incoming_messages, has_message,
                             r_epoch, wait, in_record, sent, delivered>>
           \/ dtls1_get_message
           \/ consume_message
           \/ dtls1_open_change_cipher_spec
<1>1. ASSUME NEW rec \in Arriving, NEW more \in BOOLEAN, dtls1_open_handshake(rec, more)
      PROVE  \/ Fail
             \/ /\ rec.kind = "handshake" /\ rec.epoch = r_epoch
                /\ Reading \/ in_record
                /\ Stores(rec.hdr, more)
             \/ /\ Reading \/ in_record
                /\ in_record' \in BOOLEAN
                /\ UNCHANGED <<handshake_read_seq, incoming_messages, has_message,
                               has_change_cipher_spec, r_epoch, wait, sent, delivered>>
  <2>1. rec \in Records /\ rec.kind = "handshake" /\ rec.epoch = r_epoch
    BY ZenonT(30), <1>1, ArrivingType DEF dtls1_open_handshake
  <2>2. rec.hdr \in Headers
    BY ZenonT(30), <2>1 DEF Records
  <2>3. (Reading \/ in_record) /\ open_fragment(rec.hdr, more)
    BY ZenonT(30), <1>1 DEF dtls1_open_handshake
  <2>4. QED
    BY ZenonT(30), <2>1, <2>2, <2>3, <1>1 DEF open_fragment, Stores
<1>2. ASSUME NEW rec \in Arriving, dtls1_open_handshake_ccs(rec)
      PROVE  \/ Fail
             \/ /\ Reading /\ ~in_record
                /\ has_change_cipher_spec' = TRUE
                /\ UNCHANGED <<handshake_read_seq, incoming_messages, has_message,
                               r_epoch, wait, in_record, sent, delivered>>
  BY ZenonT(30), <1>2 DEF dtls1_open_handshake_ccs
<1>3. ASSUME NEW rec \in Arriving, dtls1_open_handshake_other(rec)
      PROVE  \/ Fail
             \/ /\ Reading \/ in_record
                /\ in_record' \in BOOLEAN
                /\ UNCHANGED <<handshake_read_seq, incoming_messages, has_message,
                               has_change_cipher_spec, r_epoch, wait, sent, delivered>>
  BY ZenonT(30), <1>3 DEF dtls1_open_handshake_other, vars, TypeOK
<1>4. QED
  BY ZenonT(30), <1>1, <1>2, <1>3 DEF Next

\* No step makes a peer of the other kind.
LEMMA PeerKept == ASSUME [Next]_vars PROVE conforming' = conforming
  BY ZenonT(30) DEF Next, vars

\* While records are read, no message is lent to the state machine.
LEMMA ReadingHasNoMessage ==
    ASSUME StateInv, Reading \/ in_record
    PROVE  ~has_message /\ wait \in {"read_message", "read_change_cipher_spec"}
  BY ZenonT(30) DEF StateInv, PhaseInv, Reading

\* Stored fragments keep the ring well typed.
LEMMA StoresType ==
    ASSUME TypeOK, NEW hdr, NEW more \in BOOLEAN, Stores(hdr, more),
           conforming' = conforming
    PROVE  TypeOK'
<1>1. /\ store_fragment(hdr) \in Fragments(hdr.msg_len)
      /\ store_fragment(hdr).msg_len = hdr.msg_len
      /\ hdr.msg_len \in 0 .. MaxMessageLen
  BY ZenonT(30), StoreType, IncomingType DEF Stores
<1>2. \A i \in Slots : \/ incoming_messages'[i] = NULL
                       \/ /\ incoming_messages'[i].msg_len \in 0 .. MaxMessageLen
                          /\ incoming_messages'[i] \in Fragments(incoming_messages'[i].msg_len)
  BY ZenonT(30), <1>1 DEF Stores, TypeOK
<1>3. QED
  BY ZenonT(30), <1>2 DEF Stores, TypeOK

\* The type invariant and the phases of the reader: dtls1_get_message only
\* lends a complete message, the encrypted epoch is read only for the Finished
\* and the keys change only once.
LEMMA StateStep == StateInv /\ [Next]_vars => StateInv'
<1> SUFFICES ASSUME StateInv, [Next]_vars PROVE StateInv'
  BY ZenonT(30)
<1> USE MsgsAssumption
<1>0. conforming' = conforming
  BY ZenonT(30), PeerKept
<1>1. CASE PeerSendsFlight
  <2>1. sent \in 0 .. NumMsgs - 1 /\ sent' = FlightEnd[sent] + 1
    BY SMTT(30), <1>1 DEF StateInv, TypeOK, PeerSendsFlight
  <2>2. FlightEnd[sent] \in 0 .. NumMsgs - 1
    BY ZenonT(30), <2>1
  <2>3. sent' \in 1 .. NumMsgs
    BY SMTT(30), <2>1, <2>2
  <2>4. TypeOK'
    BY ZenonT(30), <1>0, <1>1, <2>3 DEF StateInv, TypeOK, PeerSendsFlight
  <2>5. PhaseInv'
    BY ZenonT(30), <1>1 DEF StateInv, PhaseInv, PeerSendsFlight, Current,
                dtls1_is_current_message_complete
  <2>6. QED
    BY ZenonT(30), <2>4, <2>5 DEF StateInv
<1>2. CASE Fail
  BY ZenonT(30), <1>0, <1>2 DEF StateInv, TypeOK, PhaseInv, Fail, Current, Fragments,
              dtls1_is_current_message_complete
<1>3. ASSUME NEW rec \in Arriving, NEW more \in BOOLEAN, Reading \/ in_record,
             Stores(rec.hdr, more)
      PROVE  StateInv'
  <2>1. TypeOK'
    BY ZenonT(30), <1>0, <1>3, StoresType DEF StateInv
  <2>2. ~has_message /\ wait \in {"read_message", "read_change_cipher_spec"}
    BY ZenonT(30), <1>3, ReadingHasNoMessage
  <2>3. QED
    BY ZenonT(30), <1>3, <2>1, <2>2 DEF StateInv, PhaseInv, Stores
<1>4. ASSUME Reading \/ in_record, in_record' \in BOOLEAN,
             UNCHANGED <<handshake_read_seq, incoming_messages, has_message,
                         has_change_cipher_spec, r_epoch, wait, sent, delivered>>
      PROVE  StateInv'
  BY ZenonT(30), <1>0, <1>4, ReadingHasNoMessage DEF StateInv, TypeOK, PhaseInv, Fragments
<1>5. ASSUME Reading, has_change_cipher_spec' = TRUE,
             UNCHANGED <<handshake_read_seq, incoming_messages, has_message,
                         r_epoch, wait, in_record, sent, delivered>>
      PROVE  StateInv'
  BY ZenonT(30), <1>0, <1>5, ReadingHasNoMessage DEF StateInv, TypeOK, PhaseInv, Fragments
<1>6. CASE dtls1_get_message
  BY ZenonT(30), <1>0, <1>6 DEF StateInv, TypeOK, PhaseInv, dtls1_get_message, Current, Fragments,
              dtls1_is_current_message_complete
<1>7. CASE consume_message
  <2>1. CASE Fail
    BY ZenonT(30), <1>2, <2>1
  <2>2. CASE ~Fail
    <3>1. /\ wait = "read_message" /\ has_message
          /\ wait' = WaitAfter(handshake_read_seq)
          /\ dtls1_next_message
          /\ UNCHANGED <<has_change_cipher_spec, r_epoch, in_record, sent>>
      BY ZenonT(30), <1>7, <2>2 DEF consume_message
    <3>2. handshake_read_seq \in 0 .. NumMsgs - 1 /\ r_epoch = MsgEpoch(handshake_read_seq)
      BY SMTT(30), <3>1 DEF StateInv, TypeOK, PhaseInv
    <3>3. TypeOK'
      <4>1. handshake_read_seq' \in 0 .. NumMsgs /\ has_message' \in BOOLEAN
        <5>1. handshake_read_seq' = handshake_read_seq + 1
          BY ZenonT(30), <3>1 DEF dtls1_next_message
        <5>2. handshake_read_seq' \in 0 .. NumMsgs
          BY SMTT(30), <5>1, <3>2
        <5>3. has_message' \in BOOLEAN
          BY ZenonT(30), <3>1 DEF dtls1_next_message
        <5>4. QED
          BY ZenonT(30), <5>2, <5>3
      <4>2. wait' \in {"read_message", "read_change_cipher_spec", "done", "error"}
        BY ZenonT(30), <3>1 DEF WaitAfter
      <4>3. /\ DOMAIN incoming_messages' = Slots
            /\ \A i \in Slots : incoming_messages'[i] \in {NULL, incoming_messages[i]}
        BY ZenonT(30), <3>1 DEF dtls1_next_message, StateInv, TypeOK
      <4>4. QED
        BY ZenonT(30), <1>0, <3>1, <4>1, <4>2, <4>3 DEF StateInv, TypeOK
    <3>4. PhaseInv'
      BY SMTT(30), <3>1, <3>2 DEF StateInv, PhaseInv, TypeOK, WaitAfter, MsgEpoch, Finished,
                        dtls1_next_message
    <3>5. QED
      BY ZenonT(30), <3>3, <3>4 DEF StateInv
  <2>3. QED
    BY ZenonT(30), <2>1, <2>2
<1>8. CASE dtls1_open_change_cipher_spec
  <2>1. CASE Fail
    BY ZenonT(30), <1>2, <2>1
  <2>2. CASE ~Fail
    <3>1. /\ wait = "read_change_cipher_spec"
          /\ r_epoch' = r_epoch + 1
          /\ has_change_cipher_spec' = FALSE
          /\ wait' = "read_message"
          /\ UNCHANGED <<handshake_read_seq, incoming_messages, has_message, in_record,
                         sent, delivered>>
      BY ZenonT(30), <1>8, <2>2 DEF dtls1_open_change_cipher_spec, dtls1_set_read_state
    <3>2. handshake_read_seq = Finished /\ r_epoch = 0 /\ ~has_message
      BY ZenonT(30), <3>1 DEF StateInv, PhaseInv
    <3>3. r_epoch' = 1 /\ ~has_message'
      BY SMTT(30), <3>1, <3>2
    <3>4. TypeOK'
      BY ZenonT(30), <1>0, <3>1, <3>3 DEF StateInv, TypeOK
    <3>5. PhaseInv'
      BY SMTT(30), <3>1, <3>2, <3>3 DEF StateInv, PhaseInv, TypeOK, MsgEpoch, Finished
    <3>6. QED
      BY ZenonT(30), <3>4, <3>5 DEF StateInv
  <2>3. QED
    BY ZenonT(30), <2>1, <2>2
<1>9. CASE UNCHANGED vars
  BY ZenonT(30), <1>9 DEF vars, StateInv, TypeOK, PhaseInv, Current, Fragments,
              dtls1_is_current_message_complete
<1>10. QED
  BY ZenonT(30), <1>1, <1>2, <1>3, <1>4, <1>5, <1>6, <1>7, <1>8, <1>9, NextCases DEF StateInv

\* The reader starts with an empty ring.
LEMMA StateInit == Init => StateInv
<1> SUFFICES ASSUME Init PROVE StateInv
  BY ZenonT(30)
<1>1. 0 \in 0 .. NumMsgs /\ FlightEnd[0] + 1 \in 1 .. NumMsgs
  BY SMTT(30), MsgsAssumption
<1>2. TypeOK
  BY ZenonT(30), <1>1 DEF Init, TypeOK
<1>3. PhaseInv
  BY SMTT(30), MsgsAssumption DEF Init, PhaseInv, MsgEpoch, Finished
<1>4. QED
  BY ZenonT(30), <1>2, <1>3 DEF StateInv

\* Type correctness of the receiving side of ssl/d1_both.cc.
THEOREM TypeCorrect == Spec => []TypeOK
<1>1. StateInv => TypeOK
  BY ZenonT(30) DEF StateInv
<1>2. QED
  BY <1>1, StateInit, StateStep, PTL DEF Spec

-----------------------------------------------------------------------------
(***************************************************************************)
(* The ring.                                                               *)
(***************************************************************************)
\* Two numbers less than a ring apart have different slots.
LEMMA SlotInjective ==
    ASSUME NEW a \in Nat, NEW b \in Nat, a <= b, b - a < SSL_MAX_HANDSHAKE_FLIGHT,
           Slot(a) = Slot(b)
    PROVE  a = b
<1> DEFINE F == SSL_MAX_HANDSHAKE_FLIGHT
           qa == a \div F
           qb == b \div F
           r == a % F
<1>1. F \in Nat \ {0}
  BY ZenonT(30), FlightAssumption
<1>2. a = F * qa + r /\ b = F * qb + r /\ qa \in Nat /\ qb \in Nat /\ r \in Nat
  BY SMTT(30), <1>1 DEF Slot
<1> HIDE DEF F, qa, qb, r
<1>3. F * (qb - qa) = b - a
  BY SMTT(30), <1>1, <1>2
<1>4. CASE qb >= qa + 1
  <2>1. F * (qb - qa) >= F
    <3>1. qb - qa - 1 \in Nat
      BY SMTT(30), <1>2, <1>4
    <3>2. F * (qb - qa) = F * (qb - qa - 1) + F
      BY SMTT(30), <1>1, <1>2
    <3>3. F * (qb - qa - 1) >= 0
      BY SMTT(30), <1>1, <3>1
    <3>4. QED
      BY SMTT(30), <3>2, <3>3, <3>1, <1>1, <1>2
  <2>2. QED
    BY SMTT(30), <2>1, <1>3, <1>1 DEF F
<1>5. CASE qb < qa
  <2>1. qa - qb - 1 \in Nat
    BY SMTT(30), <1>2, <1>5
  <2>2. F * (qa - qb - 1) >= 0
    BY SMTT(30), <2>1, <1>1
  <2>3. F * (qb - qa) = 0 - (F * (qa - qb - 1)) - F
    BY SMTT(30), <1>1, <1>2
  <2>4. QED
    BY SMTT(30), <2>2, <2>3, <1>3, <1>1, <1>2, <2>1
<1>6. CASE qb = qa
  BY ZenonT(30), <1>6, <1>2, <1>1
<1>7. QED
  BY SMTT(30), <1>4, <1>5, <1>6, <1>2

\* Storing, consuming and dropping fragments keeps the ring in order.
LEMMA RingStep == StateInv /\ RingSlots /\ [Next]_vars => RingSlots'
<1> SUFFICES ASSUME StateInv, RingSlots, [Next]_vars PROVE RingSlots'
  BY ZenonT(30)
<1>1. CASE UNCHANGED <<handshake_read_seq, incoming_messages>>
  BY ZenonT(30), <1>1 DEF RingSlots
<1>2. ASSUME NEW hdr, NEW more \in BOOLEAN, Stores(hdr, more)
      PROVE  RingSlots'
  <2> DEFINE old == incoming_messages[Slot(hdr.seq)]
  <2>1. /\ hdr \in Headers
        /\ hdr.seq \in Nat
        /\ Slot(hdr.seq) \in Slots
        /\ handshake_read_seq \in Nat
    BY SMTT(30), <1>2, SlotType, MsgsAssumption DEF Stores, Headers, StateInv, TypeOK
  <2>2. /\ handshake_read_seq <= hdr.seq
        /\ hdr.seq < handshake_read_seq + SSL_MAX_HANDSHAKE_FLIGHT
    BY SMTT(30), <1>2, <2>1, FlightAssumption DEF Stores, incoming_message_fails
  <2>3. store_fragment(hdr).seq = dtls1_get_incoming_message(hdr).seq
    BY ZenonT(30), <1>2, StoreType DEF Stores, StateInv
  <2>4. \/ store_fragment(hdr).seq = hdr.seq
        \/ old # NULL /\ store_fragment(hdr).seq = old.seq
    BY ZenonT(30), <2>3 DEF dtls1_get_incoming_message, dtls1_hm_fragment_new
  <2>5. /\ Slot(store_fragment(hdr).seq) = Slot(hdr.seq)
        /\ handshake_read_seq <= store_fragment(hdr).seq
        /\ store_fragment(hdr).seq < handshake_read_seq + SSL_MAX_HANDSHAKE_FLIGHT
    BY ZenonT(30), <2>1, <2>2, <2>4 DEF RingSlots
  <2>6. /\ handshake_read_seq' = handshake_read_seq
        /\ \A i \in Slots : incoming_messages'[i] =
              IF i = Slot(hdr.seq) THEN store_fragment(hdr) ELSE incoming_messages[i]
    BY ZenonT(30), <1>2 DEF Stores, StateInv, TypeOK
  <2>7. QED
    BY ZenonT(30), <2>5, <2>6 DEF RingSlots
<1>3. CASE consume_message /\ dtls1_next_message
  <2>1. /\ handshake_read_seq' = handshake_read_seq + 1
        /\ \A i \in Slots : incoming_messages'[i] =
              IF i = Slot(handshake_read_seq) THEN NULL ELSE incoming_messages[i]
    BY ZenonT(30), <1>3 DEF dtls1_next_message, StateInv, TypeOK
  <2>2. handshake_read_seq \in Nat
    BY SMTT(30), MsgsAssumption DEF StateInv, TypeOK
  <2>3. SUFFICES ASSUME NEW i \in Slots, incoming_messages'[i] # NULL
                 PROVE  /\ Slot(incoming_messages'[i].seq) = i
                        /\ handshake_read_seq' <= incoming_messages'[i].seq
                        /\ incoming_messages'[i].seq
                              < handshake_read_seq' + SSL_MAX_HANDSHAKE_FLIGHT
    BY ZenonT(30) DEF RingSlots
  <2>4. i # Slot(handshake_read_seq) /\ incoming_messages'[i] = incoming_messages[i]
    BY ZenonT(30), <2>1, <2>3
  <2>5. /\ Slot(incoming_messages[i].seq) = i
        /\ handshake_read_seq <= incoming_messages[i].seq
        /\ incoming_messages[i].seq < handshake_read_seq + SSL_MAX_HANDSHAKE_FLIGHT
    BY ZenonT(30), <2>3, <2>4 DEF RingSlots
  <2>6. incoming_messages[i].seq \in Nat /\ incoming_messages[i].seq # handshake_read_seq
    BY ZenonT(30), <2>3, <2>4, <2>5 DEF StateInv, TypeOK, Fragments
  <2>7. QED
    BY SMTT(30), <2>1, <2>2, <2>4, <2>5, <2>6, FlightAssumption
<1>4. CASE UNCHANGED vars
  BY ZenonT(30), <1>1, <1>4 DEF vars
<1>5. CASE consume_message
  BY ZenonT(30), <1>1, <1>3, <1>5 DEF consume_message, Fail
<1>6. CASE dtls1_open_change_cipher_spec
  BY ZenonT(30), <1>1, <1>6 DEF dtls1_open_change_cipher_spec, dtls1_set_read_state, Fail
<1>7. QED
  BY ZenonT(30), <1>1, <1>2, <1>4, <1>5, <1>6, NextCases
     DEF StateInv, PeerSendsFlight, Fail, dtls1_get_message

\* The ring holds the next SSL_MAX_HANDSHAKE_FLIGHT messages, each in its own
\* slot, for every ring size and whatever a peer sends.
THEOREM RingCorrect == Spec => []RingSlots
<1>1. Init => RingSlots
  BY ZenonT(30) DEF Init, RingSlots
<1>2. QED
  BY <1>1, StateInit, StateStep, RingStep, PTL DEF Spec

\* The assertion of dtls1_get_incoming_message: the message found in the slot
\* of a header it accepts is the header's message.
LEMMA SlotIsMessage ==
    ASSUME StateInv, RingSlots, NEW seq \in Nat, handshake_read_seq <= seq,
           seq < handshake_read_seq + SSL_MAX_HANDSHAKE_FLIGHT,
           incoming_messages[Slot(seq)] # NULL
    PROVE  incoming_messages[Slot(seq)].seq = seq
<1> DEFINE s == incoming_messages[Slot(seq)].seq
<1>1. Slot(seq) \in Slots /\ handshake_read_seq \in Nat
  BY SMTT(30), SlotType, MsgsAssumption DEF StateInv, TypeOK
<1>2. s \in Nat
  BY ZenonT(30), <1>1 DEF StateInv, TypeOK, Fragments
<1>3. /\ Slot(s) = Slot(seq)
      /\ handshake_read_seq <= s
      /\ s < handshake_read_seq + SSL_MAX_HANDSHAKE_FLIGHT
  BY ZenonT(30), <1>1 DEF RingSlots
<1> HIDE DEF s
<1>4. ASSUME s <= seq PROVE s = seq
  <2>1. seq - s < SSL_MAX_HANDSHAKE_FLIGHT
    BY SMTT(30), <1>1, <1>2, <1>3, FlightAssumption
  <2>2. QED
    BY ZenonT(30), <1>2, <1>3, <1>4, <2>1, SlotInjective
<1>5. ASSUME seq <= s PROVE s = seq
  <2>1. s - seq < SSL_MAX_HANDSHAKE_FLIGHT
    BY SMTT(30), <1>1, <1>2, <1>3, FlightAssumption
  <2>2. QED
    BY ZenonT(30), <1>2, <1>3, <1>5, <2>1, SlotInjective
<1>6. QED
  BY SMTT(30), <1>2, <1>4, <1>5 DEF s

-----------------------------------------------------------------------------
(***************************************************************************)
(* Epochs.                                                                 *)
(***************************************************************************)
\* The messages consumed are whole records of the history.
LEMMA CurrentType ==
    ASSUME StateInv, has_message
    PROVE  /\ Current # NULL
           /\ Current.reassembly = NULL
           /\ Slot(handshake_read_seq) \in Slots
           /\ Current.msg_len \in 0 .. MaxMessageLen
           /\ Current \in Fragments(Current.msg_len)
<1>1. Slot(handshake_read_seq) \in Slots
  BY SMTT(30), SlotType, MsgsAssumption DEF StateInv, TypeOK
<1>2. QED
  BY ZenonT(30), <1>1 DEF StateInv, TypeOK, PhaseInv, Current, dtls1_is_current_message_complete

\* The keys change only over an empty ring.
LEMMA EpochStep == StateInv /\ EpochInv /\ [Next]_vars => EpochInv'
<1> SUFFICES ASSUME StateInv, EpochInv, [Next]_vars PROVE EpochInv'
  BY ZenonT(30)
<1>1. CASE UNCHANGED <<handshake_read_seq, incoming_messages, r_epoch, delivered>>
  BY ZenonT(30), <1>1 DEF EpochInv, DeliveredInEpoch
<1>2. ASSUME NEW hdr, NEW more \in BOOLEAN, Stores(hdr, more)
      PROVE  EpochInv'
  <2>1. hdr \in Headers /\ Slot(hdr.seq) \in Slots
    BY ZenonT(30), <1>2, SlotType DEF Stores, Headers
  <2>2. dtls1_get_incoming_message(hdr).epochs = {r_epoch}
    BY ZenonT(30), <2>1 DEF dtls1_get_incoming_message, dtls1_hm_fragment_new, EpochInv
  <2>3. store_fragment(hdr).epochs = {r_epoch}
    BY ZenonT(30), <2>2, <1>2, StoreType DEF Stores, StateInv
  <2>4. \A i \in Slots : incoming_messages'[i] =
              IF i = Slot(hdr.seq) THEN store_fragment(hdr) ELSE incoming_messages[i]
    BY ZenonT(30), <1>2 DEF Stores, StateInv, TypeOK
  <2>5. QED
    BY ZenonT(30), <2>3, <2>4, <1>2 DEF EpochInv, DeliveredInEpoch, Stores
<1>3. CASE consume_message /\ dtls1_next_message /\ ~Fail
  <2> DEFINE m == [type |-> Current.type, msg_len |-> Current.msg_len,
                   data |-> Current.data, epochs |-> Current.epochs]
  <2>1. /\ delivered' = Append(delivered, m)
        /\ handshake_read_seq' = handshake_read_seq + 1
        /\ r_epoch' = r_epoch
        /\ has_message /\ wait = "read_message"
    BY ZenonT(30), <1>3 DEF consume_message, dtls1_next_message
  <2>2. /\ Current # NULL
        /\ Slot(handshake_read_seq) \in Slots
        /\ Current.msg_len \in 0 .. MaxMessageLen
        /\ Current \in Fragments(Current.msg_len)
    BY ZenonT(30), <2>1, CurrentType
  <2>3. m.epochs = {r_epoch} /\ r_epoch = MsgEpoch(handshake_read_seq)
    BY ZenonT(30), <2>1, <2>2 DEF EpochInv, StateInv, PhaseInv, Current
  <2>4. m \in [type : Nat, msg_len : Nat, data : SUBSET Nat, epochs : SUBSET {0, 1}]
    BY SMTT(30), <2>2, LenAssumption DEF Fragments
  <2>5. handshake_read_seq \in Nat
    BY SMTT(30), MsgsAssumption DEF StateInv, TypeOK
  <2> HIDE DEF m
  <2>6. /\ delivered' \in Seq([type : Nat, msg_len : Nat, data : SUBSET Nat,
                               epochs : SUBSET {0, 1}])
        /\ Len(delivered') = handshake_read_seq'
    BY SMTT(30), <2>1, <2>4, <2>5 DEF EpochInv
  <2>7. ASSUME NEW i \in 1 .. Len(delivered')
        PROVE  delivered'[i].epochs = {MsgEpoch(i - 1)}
    <3>1. CASE i = handshake_read_seq + 1
      <4>1. delivered'[i] = m
        BY SMTT(30), <2>1, <2>4, <2>5, <3>1 DEF EpochInv
      <4>2. i - 1 = handshake_read_seq
        BY SMTT(30), <3>1, <2>5
      <4>3. QED
        BY ZenonT(30), <4>1, <4>2, <2>3
    <3>2. CASE i # handshake_read_seq + 1
      <4>1. i \in 1 .. Len(delivered) /\ delivered'[i] = delivered[i]
        BY SMTT(30), <2>1, <2>4, <2>5, <2>6, <3>2 DEF EpochInv
      <4>2. QED
        BY ZenonT(30), <4>1 DEF EpochInv, DeliveredInEpoch
    <3>3. QED
      BY ZenonT(30), <3>1, <3>2
  <2>8. \A i \in Slots : incoming_messages'[i] \in {NULL, incoming_messages[i]}
    BY ZenonT(30), <1>3 DEF dtls1_next_message, StateInv, TypeOK
  <2>9. \A i \in Slots : incoming_messages'[i] # NULL =>
              incoming_messages'[i].epochs = {r_epoch'}
    BY ZenonT(30), <2>8, <2>1 DEF EpochInv
  <2>10. DeliveredInEpoch'
    BY ZenonT(30), <2>7 DEF DeliveredInEpoch, MsgEpoch, Finished
  <2>11. QED
    BY ZenonT(30), <2>6, <2>9, <2>10 DEF EpochInv
<1>4. CASE dtls1_open_change_cipher_spec /\ ~Fail
  <2>1. /\ ~dtls_has_unprocessed_handshake_data
        /\ wait = "read_change_cipher_spec"
        /\ UNCHANGED <<handshake_read_seq, incoming_messages, delivered>>
    BY ZenonT(30), <1>4 DEF dtls1_open_change_cipher_spec, dtls1_set_read_state
  <2>2. \A i \in Slots : incoming_messages[i] = NULL
    BY ZenonT(30), <2>1 DEF dtls_has_unprocessed_handshake_data, StateInv, PhaseInv
  <2>3. QED
    BY ZenonT(30), <2>1, <2>2 DEF EpochInv, DeliveredInEpoch
<1>5. CASE consume_message
  BY ZenonT(30), <1>1, <1>3, <1>5 DEF consume_message, Fail
<1>6. CASE dtls1_open_change_cipher_spec
  BY ZenonT(30), <1>1, <1>4, <1>6 DEF Fail
<1>7. CASE UNCHANGED vars
  BY ZenonT(30), <1>1, <1>7 DEF vars
<1>8. QED
  BY ZenonT(30), <1>1, <1>2, <1>5, <1>6, <1>7, NextCases
     DEF StateInv, PeerSendsFlight, Fail, dtls1_get_message

\* No message mixes bytes of two read epochs, whatever a peer sends before and
\* after its ChangeCipherSpec.
THEOREM EpochsNeverMix == Spec => []DeliveredInEpoch
<1>1. Init => EpochInv
  BY SMTT(30) DEF Init, EpochInv, DeliveredInEpoch
<1>2. EpochInv => DeliveredInEpoch
  BY ZenonT(30) DEF EpochInv
<1>3. QED
  BY <1>1, <1>2, StateInit, StateStep, EpochStep, PTL DEF Spec

-----------------------------------------------------------------------------
(***************************************************************************)
(* The bitmask.                                                            *)
(***************************************************************************)
\* A number is its byte and its bit.
LEMMA ByteAndBit ==
    ASSUME NEW n \in Nat
    PROVE  /\ n \div ByteBits \in Nat
           /\ n % ByteBits \in AllBits
           /\ n = ByteBits * (n \div ByteBits) + (n % ByteBits)
  BY SMTT(30), BitsAssumption DEF AllBits

\* Bytes do not overlap.
LEMMA ByteOrder ==
    ASSUME NEW i \in Nat, NEW j \in Nat, i < j
    PROVE  ByteBits * i + ByteBits <= ByteBits * j
<1>1. PICK d \in Nat : j = i + 1 + d
  <2>1. j - i - 1 \in Nat /\ j = i + 1 + (j - i - 1)
    OBVIOUS
  <2>2. QED
    BY ZenonT(30), <2>1
<1>2. ByteBits * j = ByteBits * i + ByteBits + ByteBits * d
  BY SMTT(30), <1>1, BitsAssumption
<1>3. ByteBits * d >= 0 /\ ByteBits * d \in Int /\ ByteBits * i \in Int
  BY SMTT(30), BitsAssumption
<1>4. QED
  BY SMTT(30), <1>2, <1>3, BitsAssumption

\* dtls1_hm_fragment_mark sets exactly the bits of its range.
LEMMA MarkExact ==
    ASSUME NEW length \in Nat, NEW mask \in Masks(length), NEW start \in Nat, NEW end \in Nat,
           start <= end, NEW i \in DOMAIN mask, NEW b \in AllBits
    PROVE  b \in mark_bytes(mask, start, end)[i]
              <=> \/ b \in mask[i]
                  \/ start <= ByteBits * i + b /\ ByteBits * i + b < end
<1> DEFINE first == start \div ByteBits
           last == end \div ByteBits
           sr == start % ByteBits
           er == end % ByteBits
           pi == ByteBits * i
           pf == ByteBits * first
           pl == ByteBits * last
<1>1. /\ first \in Nat /\ sr \in AllBits /\ start = pf + sr
      /\ last \in Nat /\ er \in AllBits /\ end = pl + er
  BY ZenonT(30), ByteAndBit
<1>2. i \in Nat /\ DOMAIN mask = 0 .. MaskLen(length) - 1 /\ mask[i] \subseteq AllBits
  <2>1. DOMAIN mask = 0 .. MaskLen(length) - 1
    BY ZenonT(30) DEF Masks
  <2>2. QED
    BY SMTT(30), <2>1 DEF Masks
<1>3. /\ i < first => pi + ByteBits <= pf
      /\ first < i => pf + ByteBits <= pi
      /\ i < last => pi + ByteBits <= pl
      /\ last < i => pl + ByteBits <= pi
      /\ first < last => pf + ByteBits <= pl
      /\ last < first => pl + ByteBits <= pf
      /\ i = first => pi = pf
      /\ i = last => pi = pl
      /\ first = last => pf = pl
  BY ZenonT(30), <1>1, <1>2, ByteOrder
<1>4. pi \in Int /\ pf \in Int /\ pl \in Int
  BY SMTT(30), <1>1, <1>2, BitsAssumption
<1>5. b \in Int /\ 0 <= b /\ b < ByteBits /\ sr \in Int /\ 0 <= sr /\ sr < ByteBits
      /\ er \in Int /\ 0 <= er /\ er < ByteBits /\ ByteBits \in Int
  BY SMTT(30), <1>1, BitsAssumption DEF AllBits
<1>a. start = pf + sr /\ end = pl + er
  BY ZenonT(30), <1>1
<1>6. CASE start = end
  <2>1. mark_bytes(mask, start, end) = mask
    BY ZenonT(30), <1>6 DEF mark_bytes
  <2>2. pi + b \in Int
    BY SMTT(30), <1>2, <1>4, <1>5
  <2> HIDE DEF pi
  <2>3. ~(start <= pi + b /\ pi + b < end)
    BY SMTT(30), <1>6, <2>2
  <2>4. QED
    BY ZenonT(30), <2>1, <2>3 DEF pi
<1>7. CASE start # end /\ first = last
  <2>1. mark_bytes(mask, start, end)[i] =
           IF i = first THEN mask[i] \cup bit_range(sr, er) ELSE mask[i]
    BY ZenonT(30), <1>7, <1>2 DEF mark_bytes, Masks
  <2> HIDE DEF pi, pf, pl, first, last, sr, er
  <2>2. (i = first /\ b \in bit_range(sr, er))
           <=> (start <= pi + b /\ pi + b < end)
    <3>1. CASE i = first
      BY SMTT(30), <3>1, <1>7, <1>1, <1>2, <1>3, <1>4, <1>5 DEF bit_range
    <3>2. CASE i < first
      <4>1. pi + ByteBits <= pf /\ i # first
        BY SMTT(30), <3>2, <1>1, <1>2, <1>3
      <4>2. ~(start <= pi + b)
        BY SMTT(30), <4>1, <1>a, <1>4, <1>5
      <4> QED BY ZenonT(30), <4>1, <4>2
    <3>3. CASE i > first
      <4>1. pl + ByteBits <= pi /\ i # first
        BY SMTT(30), <3>3, <1>7, <1>1, <1>2, <1>3
      <4>2. ~(pi + b < end)
        BY SMTT(30), <4>1, <1>a, <1>4, <1>5
      <4> QED BY ZenonT(30), <4>1, <4>2
    <3>4. QED
      BY SMTT(30), <3>1, <3>2, <3>3, <1>1, <1>2
  <2>3. QED
    BY ZenonT(30), <2>1, <2>2 DEF pi
<1>8. CASE start # end /\ first # last
  <2>1. mark_bytes(mask, start, end)[i] =
           IF i = first THEN mask[i] \cup bit_range(sr, ByteBits)
           ELSE IF first < i /\ i < last THEN AllBits
           ELSE IF i = last /\ er # 0 THEN mask[i] \cup bit_range(0, er)
           ELSE mask[i]
    BY ZenonT(30), <1>8, <1>2 DEF mark_bytes, Masks
  <2> HIDE DEF pi, pf, pl, first, last, sr, er
  <2>2. first < last
    <3>1. ~(last < first)
      <4>1. last < first => pl + ByteBits <= pf
        BY ZenonT(30), <1>3
      <4> QED BY SMTT(30), <4>1, <1>a, <1>4, <1>5
    <3> QED BY SMTT(30), <3>1, <1>8, <1>1
  <2>3. CASE i = first
    <3>1. pi + b < end
      <4>1. pi + ByteBits <= pl
        BY ZenonT(30), <2>2, <2>3, <1>3
      <4> QED BY SMTT(30), <4>1, <1>a, <1>4, <1>5
    <3>2. b \in bit_range(sr, ByteBits) <=> start <= pi + b
      BY SMTT(30), <2>3, <1>1, <1>2, <1>3, <1>4, <1>5 DEF bit_range
    <3>3. QED
      BY ZenonT(30), <2>1, <2>3, <3>1, <3>2 DEF pi
  <2>4. CASE first < i /\ i < last
    <3>1. start <= pi + b /\ pi + b < end
      <4>1. pf + ByteBits <= pi /\ pi + ByteBits <= pl
        BY ZenonT(30), <2>4, <1>3
      <4> QED BY SMTT(30), <4>1, <1>a, <1>4, <1>5
    <3>2. QED
      BY SMTT(30), <2>1, <2>4, <1>1, <1>2, <3>1 DEF pi
  <2>5. CASE i = last
    <3>1. start <= pi + b
      <4>1. pf + ByteBits <= pi
        BY ZenonT(30), <2>2, <2>5, <1>3
      <4> QED BY SMTT(30), <4>1, <1>a, <1>4, <1>5
    <3>2. (pi + b < end) <=> (er # 0 /\ b \in bit_range(0, er))
      BY SMTT(30), <2>5, <1>1, <1>2, <1>3, <1>4, <1>5 DEF bit_range
    <3>3. i # first /\ ~(i < last)
      BY SMTT(30), <2>2, <2>5, <1>1
    <3>4. QED
      BY ZenonT(30), <2>1, <2>5, <3>1, <3>2, <3>3 DEF pi
  <2>6. CASE i < first
    <3>1. ~(start <= pi + b)
      <4>1. pi + ByteBits <= pf
        BY ZenonT(30), <2>6, <1>3
      <4> QED BY SMTT(30), <4>1, <1>a, <1>4, <1>5
    <3>2. i # first /\ ~(first < i) /\ i # last
      BY SMTT(30), <2>6, <2>2, <1>1, <1>2
    <3>3. QED
      BY ZenonT(30), <2>1, <3>1, <3>2 DEF pi
  <2>7. CASE i > last
    <3>1. ~(pi + b < end)
      <4>1. pl + ByteBits <= pi
        BY ZenonT(30), <2>7, <1>3
      <4> QED BY SMTT(30), <4>1, <1>a, <1>4, <1>5
    <3>2. i # first /\ ~(i < last) /\ i # last
      BY SMTT(30), <2>7, <2>2, <1>1, <1>2
    <3>3. QED
      BY ZenonT(30), <2>1, <3>1, <3>2 DEF pi
  <2>8. QED
    BY SMTT(30), <2>2, <2>3, <2>4, <2>5, <2>6, <2>7, <1>1, <1>2
<1>9. QED
  BY ZenonT(30), <1>6, <1>7, <1>8

\* The bitmask of a message has a byte for every byte of bits it needs.
LEMMA MaskLength ==
    ASSUME NEW length \in Nat
    PROVE  /\ MaskLen(length) \in Nat
           /\ length \div ByteBits <= MaskLen(length)
           /\ length % ByteBits # 0 => length \div ByteBits < MaskLen(length)
<1> DEFINE q == length \div ByteBits
           r == length % ByteBits
           n == length + ByteBits - 1
           mq == n \div ByteBits
           mr == n % ByteBits
<1>1. q \in Nat /\ r \in AllBits /\ length = ByteBits * q + r
  BY ZenonT(30), ByteAndBit
<1>2. n \in Nat
  BY SMTT(30), BitsAssumption
<1>3. mq \in Nat /\ mr \in AllBits /\ n = ByteBits * mq + mr
  BY ZenonT(30), <1>2, ByteAndBit
<1>4. /\ mq < q => ByteBits * mq + ByteBits <= ByteBits * q
      /\ mq = q => ByteBits * mq = ByteBits * q
      /\ ByteBits * mq \in Int /\ ByteBits * q \in Int
  BY SMTT(30), <1>1, <1>3, ByteOrder, BitsAssumption
<1> DEFINE pq == ByteBits * q
           pm == ByteBits * mq
<1> HIDE DEF q, r, mq, mr
<1>5. /\ length = pq + r /\ n = pm + mr
      /\ mq < q => pm + ByteBits <= pq
      /\ mq = q => pm = pq
      /\ pm \in Int /\ pq \in Int
  BY ZenonT(30), <1>1, <1>3, <1>4
<1>6. r \in Int /\ 0 <= r /\ mr \in Int /\ mr < ByteBits /\ ByteBits \in Int /\ 1 <= ByteBits
  BY SMTT(30), <1>1, <1>3, BitsAssumption DEF AllBits
<1> HIDE DEF pq, pm
<1>7. q <= mq
  BY SMTT(30), <1>1, <1>3, <1>5, <1>6
<1>8. r # 0 => q # mq
  BY SMTT(30), <1>1, <1>3, <1>5, <1>6
<1>9. QED
  BY SMTT(30), <1>1, <1>3, <1>7, <1>8 DEF MaskLen, q, r, mq

\* The check at the end of dtls1_hm_fragment_mark: the mask is full exactly
\* when every byte of the message was received.
LEMMA FullExact ==
    ASSUME NEW length \in Nat, NEW mask \in Masks(length), NEW data \in SUBSET (0 .. length - 1),
           \A i \in DOMAIN mask, b \in AllBits :
              b \in mask[i] <=> ByteBits * i + b \in data
    PROVE  mask_is_full(mask, length) <=> data = 0 .. length - 1
<1> DEFINE q == length \div ByteBits
           r == length % ByteBits
<1>1. q \in Nat /\ r \in AllBits /\ length = ByteBits * q + r
  BY ZenonT(30), ByteAndBit
<1>2. /\ DOMAIN mask = 0 .. MaskLen(length) - 1
      /\ \A i \in DOMAIN mask : mask[i] \subseteq AllBits
  BY ZenonT(30) DEF Masks
<1>3. /\ \A i \in 0 .. q - 1 : i \in DOMAIN mask
      /\ r # 0 => q \in DOMAIN mask
  <2>1. MaskLen(length) \in Nat /\ q <= MaskLen(length) /\ (r # 0 => q < MaskLen(length))
    BY ZenonT(30), MaskLength
  <2> HIDE DEF q, r
  <2>2. QED
    BY SMTT(30), <1>1, <1>2, <2>1
<1>4. ASSUME mask_is_full(mask, length), NEW k \in 0 .. length - 1
      PROVE  k \in data
  <2> DEFINE kq == k \div ByteBits
             kr == k % ByteBits
             pk == ByteBits * kq
             pq == ByteBits * q
  <2>1. kq \in Nat /\ kr \in AllBits /\ k = pk + kr
    BY SMTT(30), ByteAndBit
  <2>2. /\ q < kq => pq + ByteBits <= pk
        /\ q = kq => pq = pk
        /\ pq \in Int /\ pk \in Int
    BY SMTT(30), <1>1, <2>1, ByteOrder, BitsAssumption
  <2>3. /\ length = pq + r
        /\ r \in Int /\ r < ByteBits /\ 0 <= r
        /\ kr \in Int /\ 0 <= kr /\ ByteBits \in Int
    BY SMTT(30), <1>1, <2>1, BitsAssumption DEF AllBits
  <2>4. CASE kq < q
    <3>1. kq \in 0 .. q - 1
      BY SMTT(30), <2>1, <2>4, <1>1
    <3>2. mask[kq] = AllBits /\ kq \in DOMAIN mask
      BY ZenonT(30), <3>1, <1>3, <1>4 DEF mask_is_full
    <3>3. QED
      BY ZenonT(30), <3>2, <2>1
  <2>5. CASE ~(kq < q)
    <3> HIDE DEF q, r, kq, kr, pk, pq
    <3>1. kq = q
      BY SMTT(30), <2>1, <2>2, <2>3, <2>5, <1>1
    <3>2. kr < r
      BY SMTT(30), <2>1, <2>2, <2>3, <3>1, <1>1
    <3>3. mask[q] = bit_range(0, r) /\ q \in DOMAIN mask
      <4>1. r # 0
        BY SMTT(30), <2>3, <3>2
      <4>2. QED
        BY ZenonT(30), <4>1, <1>3, <1>4 DEF mask_is_full, q, r
    <3>4. kr \in bit_range(0, r)
      BY ZenonT(30), <2>1, <2>3, <3>2 DEF bit_range
    <3>5. kr \in mask[kq] /\ kq \in DOMAIN mask
      BY ZenonT(30), <3>1, <3>3, <3>4
    <3>6. QED
      BY ZenonT(30), <3>5, <2>1 DEF pk
  <2>6. QED
    BY ZenonT(30), <2>4, <2>5
<1>5. ASSUME data = 0 .. length - 1
      PROVE  mask_is_full(mask, length)
  <2>1. ASSUME NEW i \in 0 .. q - 1
        PROVE  mask[i] = AllBits
    <3>1. ByteBits * i + ByteBits <= ByteBits * q
      BY SMTT(30), <1>1, ByteOrder
    <3>2. ASSUME NEW b \in AllBits PROVE ByteBits * i + b \in data
      <4> DEFINE pi == ByteBits * i
                 pq == ByteBits * q
      <4>1. /\ pi \in Int /\ 0 <= pi /\ pq \in Int
            /\ b \in Int /\ 0 <= b /\ b < ByteBits
            /\ r \in Int /\ 0 <= r /\ ByteBits \in Int
        BY SMTT(30), <1>1, BitsAssumption DEF AllBits
      <4>2. pi + ByteBits <= pq /\ length = pq + r
        BY ZenonT(30), <3>1, <1>1
      <4> HIDE DEF pi, pq, q, r
      <4>3. pi + b \in 0 .. length - 1
        BY SMTT(30), <4>1, <4>2
      <4>4. QED
        BY ZenonT(30), <4>3, <1>5 DEF pi
    <3>3. QED
      BY ZenonT(30), <3>2, <1>2, <1>3
  <2>2. ASSUME r # 0
        PROVE  mask[q] = bit_range(0, r)
    <3>1. ASSUME NEW b \in AllBits PROVE b \in mask[q] <=> b < r
      <4> DEFINE pq == ByteBits * q
      <4>1. /\ pq \in Int /\ 0 <= pq /\ length = pq + r
            /\ b \in Int /\ 0 <= b /\ r \in Int
        BY SMTT(30), <1>1, BitsAssumption DEF AllBits
      <4> HIDE DEF pq, q, r
      <4>2. pq + b \in 0 .. length - 1 <=> b < r
        BY SMTT(30), <4>1
      <4>3. b \in mask[q] <=> pq + b \in data
        BY ZenonT(30), <1>3, <2>2 DEF pq
      <4>4. QED
        BY ZenonT(30), <4>2, <4>3, <1>5
    <3>2. mask[q] \subseteq AllBits
      BY ZenonT(30), <1>2, <1>3, <2>2
    <3>3. \A b \in AllBits : 0 <= b
      BY SMTT(30) DEF AllBits
    <3> HIDE DEF q, r
    <3>4. QED
      BY ZenonT(30), <3>1, <3>2, <3>3 DEF bit_range
  <2>3. QED
    BY ZenonT(30), <2>1, <2>2 DEF mask_is_full
<1>6. QED
  BY ZenonT(30), <1>4, <1>5

\* Storing a fragment keeps data and bitmask in step.
LEMMA StoreExact ==
    ASSUME StateInv, CompleteIsWhole, NEW hdr \in Headers, ~bad_fragment(hdr),
           ~incoming_message_fails(hdr)
    PROVE  WholeOrMasked(store_fragment(hdr))
<1> DEFINE frag == dtls1_get_incoming_message(hdr)
           start == hdr.frag_off
           end == hdr.frag_off + hdr.frag_len
<1>1. /\ hdr.msg_len \in 0 .. MaxMessageLen
      /\ frag \in Fragments(hdr.msg_len)
  BY ZenonT(30), IncomingType DEF StateInv
<1>2. hdr.msg_len \in Nat /\ start \in Nat /\ end \in Nat /\ start <= end
      /\ end <= hdr.msg_len
  BY SMTT(30), <1>1 DEF Headers, bad_fragment
<1>3. WholeOrMasked(frag)
  <2>1. CASE incoming_messages[Slot(hdr.seq)] # NULL
    <3>1. Slot(hdr.seq) \in Slots
      BY ZenonT(30), SlotType DEF Headers
    <3>2. QED
      BY ZenonT(30), <2>1, <3>1 DEF CompleteIsWhole, dtls1_get_incoming_message
  <2>2. CASE incoming_messages[Slot(hdr.seq)] = NULL
    <3>1. frag = dtls1_hm_fragment_new(hdr)
      BY ZenonT(30), <2>2 DEF dtls1_get_incoming_message
    <3>2. frag.data = {} /\ frag.msg_len = hdr.msg_len
      BY SMTT(30), <3>1 DEF dtls1_hm_fragment_new
    <3>3. CASE hdr.msg_len = 0
      <4>1. frag.reassembly = NULL
        BY SMTT(30), <3>1, <3>3 DEF dtls1_hm_fragment_new
      <4>2. QED
        BY SMTT(30), <4>1, <3>2, <3>3 DEF WholeOrMasked
    <3>4. CASE hdr.msg_len # 0
      <4> DEFINE mask == [i \in 0 .. MaskLen(hdr.msg_len) - 1 |-> {}]
      <4>1. frag.reassembly = mask
        BY SMTT(30), <3>1, <3>4 DEF dtls1_hm_fragment_new
      <4>2. mask # NULL
        BY ZenonT(30), <1>1, NullAssumption DEF Masks
      <4>3. 0 \in 0 .. hdr.msg_len - 1
        BY SMTT(30), <3>4, <1>2
      <4>4. QED
        BY ZenonT(30), <4>1, <4>2, <4>3, <3>2 DEF WholeOrMasked
    <3>5. QED
      BY ZenonT(30), <3>3, <3>4
  <2>3. QED
    BY ZenonT(30), <2>1, <2>2
<1> HIDE DEF frag, start, end
<1>4. CASE frag.reassembly = NULL
  BY ZenonT(30), <1>3, <1>4 DEF store_fragment, frag
<1>5. CASE frag.reassembly # NULL
  <2> DEFINE mask == mark_bytes(frag.reassembly, start, end)
             data == frag.data \cup (start .. end - 1)
             new == dtls1_hm_fragment_mark(frag, start, end)
  <2>1. frag.reassembly \in Masks(hdr.msg_len) /\ frag.msg_len = hdr.msg_len
    BY ZenonT(30), <1>1, <1>5 DEF Fragments
  <2>2. mask \in Masks(hdr.msg_len)
    BY ZenonT(30), <2>1, <1>2, MarkType
  <2>3. data \subseteq 0 .. hdr.msg_len - 1
    BY SMTT(30), <1>1, <1>2 DEF Fragments
  <2>4. DOMAIN mask = DOMAIN frag.reassembly /\ DOMAIN mask \subseteq Nat
    <3> HIDE DEF mask
    <3>1. /\ DOMAIN mask = 0 .. MaskLen(hdr.msg_len) - 1
          /\ DOMAIN frag.reassembly = 0 .. MaskLen(hdr.msg_len) - 1
      BY ZenonT(30), <2>1, <2>2 DEF Masks
    <3>2. MaskLen(hdr.msg_len) \in Nat
      BY ZenonT(30), <1>2, MaskLength
    <3>3. QED
      BY SMTT(30), <3>1, <3>2
  <2>5. ASSUME NEW i \in DOMAIN mask, NEW b \in AllBits
        PROVE  b \in mask[i] <=> ByteBits * i + b \in data
    <3>1. b \in mask[i] <=> \/ b \in frag.reassembly[i]
                            \/ start <= ByteBits * i + b /\ ByteBits * i + b < end
      BY ZenonT(30), <2>1, <2>4, <1>2, MarkExact
    <3>2. b \in frag.reassembly[i] <=> ByteBits * i + b \in frag.data
      BY ZenonT(30), <1>3, <1>5, <2>4 DEF WholeOrMasked
    <3>3. ByteBits * i + b \in Int
      BY SMTT(30), <2>4, BitsAssumption DEF AllBits
    <3> DEFINE k == ByteBits * i + b
    <3> HIDE DEF k, mask
    <3>4. k \in start .. end - 1 <=> start <= k /\ k < end
      BY SMTT(30), <3>3, <1>2 DEF k
    <3>5. QED
      BY ZenonT(30), <3>1, <3>2, <3>4 DEF k
  <2>6. mask_is_full(mask, hdr.msg_len) <=> data = 0 .. hdr.msg_len - 1
    BY ZenonT(30), <2>2, <2>3, <2>5, <1>2, FullExact
  <2> HIDE DEF mask
  <2>7. /\ new.data = data
        /\ new.msg_len = hdr.msg_len
        /\ new.reassembly = IF start # end /\ mask_is_full(mask, hdr.msg_len)
                              THEN NULL ELSE mask
    BY ZenonT(30), <1>1, <2>1 DEF dtls1_hm_fragment_mark, mask, Fragments
  <2>8. mask # NULL
    BY ZenonT(30), <2>2, <1>1, NullAssumption
  <2>9. start = end => data = frag.data
    BY SMTT(30), <1>2
  <2>10. frag.data # 0 .. hdr.msg_len - 1
    BY ZenonT(30), <1>3, <1>5, <2>1 DEF WholeOrMasked
  <2> HIDE DEF new, data
  <2>11. WholeOrMasked(new)
    BY ZenonT(30), <2>5, <2>6, <2>7, <2>8, <2>9, <2>10 DEF WholeOrMasked
  <2>12. QED
    BY ZenonT(30), <2>11, <1>5 DEF store_fragment, new, frag, start, end
<1>6. QED
  BY ZenonT(30), <1>4, <1>5

\* The bytes of the messages in the ring.
LEMMA CompleteStep == StateInv /\ CompleteIsWhole /\ [Next]_vars => CompleteIsWhole'
<1> SUFFICES ASSUME StateInv, CompleteIsWhole, [Next]_vars PROVE CompleteIsWhole'
  BY ZenonT(30)
<1> USE DEF CompleteIsWhole
<1>1. ASSUME \A i \in Slots : incoming_messages'[i] \in {NULL, incoming_messages[i]}
      PROVE  CompleteIsWhole'
  BY ZenonT(30), <1>1 DEF WholeOrMasked
<1>2. ASSUME NEW hdr, NEW more \in BOOLEAN, Stores(hdr, more)
      PROVE  CompleteIsWhole'
  <2>1. WholeOrMasked(store_fragment(hdr))
    BY ZenonT(30), <1>2, StoreExact DEF Stores
  <2>2. \A i \in Slots : incoming_messages'[i] =
              IF i = Slot(hdr.seq) THEN store_fragment(hdr) ELSE incoming_messages[i]
    BY ZenonT(30), <1>2 DEF Stores, StateInv, TypeOK
  <2>3. QED
    BY ZenonT(30), <2>1, <2>2 DEF WholeOrMasked
<1>3. CASE consume_message
  BY ZenonT(30), <1>1, <1>3 DEF consume_message, dtls1_next_message, Fail, StateInv, TypeOK
<1>4. CASE dtls1_open_change_cipher_spec
  BY ZenonT(30), <1>1, <1>4 DEF dtls1_open_change_cipher_spec, dtls1_set_read_state, Fail
<1>5. CASE UNCHANGED vars
  BY ZenonT(30), <1>1, <1>5 DEF vars
<1>6. QED
  BY ZenonT(30), <1>1, <1>2, <1>3, <1>4, <1>5, NextCases
     DEF StateInv, PeerSendsFlight, Fail, dtls1_get_message

\* A message is complete exactly when every byte of it was copied, for every
\* length and every way to cut it into overlapping, repeated fragments.
THEOREM ReassemblyCorrect == Spec => []CompleteIsWhole
<1>1. Init => CompleteIsWhole
  BY ZenonT(30) DEF Init, CompleteIsWhole
<1>2. QED
  BY <1>1, StateInit, StateStep, CompleteStep, PTL DEF Spec

-----------------------------------------------------------------------------
(***************************************************************************)
(* A conforming peer over a network that loses, repeats, cuts up and       *)
(* reorders.                                                               *)
(***************************************************************************)
PeerInv == StateInv /\ RingSlots /\ FlightInv

\* What a conforming peer's handshake record holds.
LEMMA PeerRecord ==
    ASSUME ConformingPeer, StateInv, NEW rec \in Arriving, rec.kind = "handshake"
    PROVE  \E m \in Msgs : /\ m < sent
                           /\ rec.epoch = MsgEpoch(m)
                           /\ rec.hdr \in Headers
                           /\ rec.hdr.type = m /\ rec.hdr.seq = m
                           /\ rec.hdr.msg_len = MsgLen[m]
                           /\ rec.hdr.frag_off <= MsgLen[m]
                           /\ rec.hdr.frag_off + rec.hdr.frag_len <= MsgLen[m]
<1>1. PICK m \in Msgs : /\ m < sent
                        /\ rec \in [kind : {"handshake"}, epoch : {MsgEpoch(m)},
                                    hdr : PeerHeaders(m)]
  BY SMTT(30) DEF Arriving, ConformingPeer
<1>2. rec.epoch = MsgEpoch(m) /\ rec.hdr \in PeerHeaders(m)
  BY ZenonT(30), <1>1
<1>3. MsgLen[m] \in Nat /\ m \in Nat
  BY SMTT(30), MsgsAssumption, LenAssumption DEF Msgs
<1>4. PICK x \in 0 .. MsgLen[m], y \in 0 .. MsgLen[m] :
         /\ x <= y
         /\ rec.hdr = [type |-> m, seq |-> m, msg_len |-> MsgLen[m], frag_off |-> x,
                       frag_len |-> y - x]
  BY ZenonT(30), <1>2 DEF PeerHeaders
<1>5. rec.hdr \in Headers
  BY SMTT(30), <1>3, <1>4 DEF Headers
<1>6. x <= MsgLen[m] /\ x + (y - x) <= MsgLen[m]
  BY SMTT(30), <1>3, <1>4
<1>7. QED
  BY SMTT(30), <1>1, <1>2, <1>4, <1>5, <1>6

\* Its fragments pass every check of dtls1_open_handshake, or are old.
LEMMA PeerFragmentAccepted ==
    ASSUME ConformingPeer, PeerInv, NEW rec \in Arriving, rec.kind = "handshake",
           rec.epoch = r_epoch, Reading \/ in_record
    PROVE  /\ ~bad_fragment(rec.hdr)
           /\ ~ignored_fragment(rec.hdr) => ~incoming_message_fails(rec.hdr)
<1>1. PICK m \in Msgs : /\ m < sent
                        /\ rec.epoch = MsgEpoch(m)
                        /\ rec.hdr \in Headers
                        /\ rec.hdr.type = m /\ rec.hdr.seq = m
                        /\ rec.hdr.msg_len = MsgLen[m]
                        /\ rec.hdr.frag_off <= MsgLen[m]
                        /\ rec.hdr.frag_off + rec.hdr.frag_len <= MsgLen[m]
  BY ZenonT(30), PeerRecord DEF PeerInv
<1>2. /\ m \in Nat /\ MsgLen[m] \in Nat /\ MsgLen[m] <= MaxMessageLen
      /\ handshake_read_seq \in 0 .. NumMsgs /\ NumMsgs \in Nat /\ sent \in 1 .. NumMsgs
      /\ rec.hdr.frag_off \in Nat /\ rec.hdr.frag_len \in Nat
  BY SMTT(30), <1>1, MsgsAssumption, LenAssumption DEF Msgs, PeerInv, StateInv, TypeOK, Headers
<1>3. r_epoch = 1 => m = handshake_read_seq
  <2>1. ASSUME r_epoch = 1 PROVE m = Finished /\ wait = "read_message"
    <3>1. r_epoch = MsgEpoch(m)
      BY ZenonT(30), <1>1
    <3>2. m = Finished
      BY SMTT(30), <2>1, <3>1 DEF MsgEpoch
    <3>3. wait \in {"read_message", "read_change_cipher_spec"}
      BY ZenonT(30), ReadingHasNoMessage DEF PeerInv
    <3>4. QED
      BY SMTT(30), <2>1, <3>2, <3>3 DEF PeerInv, StateInv, PhaseInv
  <2>2. QED
    BY SMTT(30), <2>1 DEF PeerInv, StateInv, PhaseInv, MsgEpoch
<1>4. ~bad_fragment(rec.hdr)
  BY SMTT(30), <1>1, <1>2, <1>3, LenAssumption DEF bad_fragment
<1>5. ASSUME ~ignored_fragment(rec.hdr) PROVE ~incoming_message_fails(rec.hdr)
  <2>1. handshake_read_seq <= m
    BY SMTT(30), <1>1, <1>2, <1>5 DEF ignored_fragment
  <2>2. handshake_read_seq \in Msgs /\ sent = FlightEnd[handshake_read_seq] + 1
    BY SMTT(30), <1>1, <1>2, <2>1 DEF Msgs, PeerInv, FlightInv
  <2>3. /\ FlightEnd[handshake_read_seq] \in Nat
        /\ FlightEnd[handshake_read_seq] - handshake_read_seq < SSL_MAX_HANDSHAKE_FLIGHT
    BY SMTT(30), <2>2, MsgsAssumption DEF ConformingPeer, FlightsFit, Msgs
  <2>4. m < handshake_read_seq + SSL_MAX_HANDSHAKE_FLIGHT
    BY SMTT(30), <1>1, <1>2, <2>2, <2>3, FlightAssumption
  <2>5. Slot(m) \in Slots
    BY ZenonT(30), <1>2, SlotType
  <2>6. ASSUME incoming_messages[Slot(m)] # NULL
        PROVE  /\ incoming_messages[Slot(m)].type = m
               /\ incoming_messages[Slot(m)].msg_len = MsgLen[m]
    <3>1. incoming_messages[Slot(m)].seq = m
      BY ZenonT(30), <1>2, <2>1, <2>4, <2>6, SlotIsMessage DEF PeerInv
    <3>2. QED
      BY ZenonT(30), <2>5, <2>6, <3>1 DEF PeerInv, FlightInv
  <2>7. ~(m < handshake_read_seq) /\ ~(m - handshake_read_seq >= SSL_MAX_HANDSHAKE_FLIGHT)
    BY SMTT(30), <1>2, <2>1, <2>4, FlightAssumption
  <2>8. QED
    BY ZenonT(30), <1>1, <2>6, <2>7 DEF incoming_message_fails
<1>6. QED
  BY ZenonT(30), <1>4, <1>5

\* At the end of a flight, and before the keys change, nothing else of a
\* conforming peer is buffered.
LEMMA NothingLeftOver ==
    ASSUME PeerInv,
           \/ /\ has_message /\ wait = "read_message"
              /\ FlightEnd[handshake_read_seq] = handshake_read_seq
           \/ wait = "read_change_cipher_spec"
    PROVE  ~dtls_has_unprocessed_handshake_data
<1> SUFFICES ASSUME NEW i \in Slots, incoming_messages[i] # NULL,
                    ~(has_message /\ i = Slot(handshake_read_seq))
             PROVE  FALSE
  BY ZenonT(30) DEF dtls_has_unprocessed_handshake_data
<1> DEFINE s == incoming_messages[i].seq
<1>1. /\ s \in Nat /\ s < sent /\ handshake_read_seq <= s /\ Slot(s) = i
      /\ r_epoch = 0 => s # Finished
      /\ handshake_read_seq \in 0 .. NumMsgs /\ sent \in 1 .. NumMsgs
      /\ NumMsgs \in Nat
  BY ZenonT(30), MsgsAssumption DEF PeerInv, StateInv, TypeOK, Fragments, FlightInv, RingSlots
<1> HIDE DEF s
<1>2. CASE /\ has_message /\ wait = "read_message"
           /\ FlightEnd[handshake_read_seq] = handshake_read_seq
  <2>1. sent = handshake_read_seq + 1
    BY SMTT(30), <1>1, <1>2 DEF PeerInv, FlightInv
  <2>2. s = handshake_read_seq
    BY SMTT(30), <2>1, <1>1
  <2>3. QED
    BY ZenonT(30), <2>2, <1>1, <1>2
<1>3. CASE wait = "read_change_cipher_spec"
  <2>1. handshake_read_seq = NumMsgs - 1 /\ r_epoch = 0
    BY ZenonT(30), <1>3 DEF PeerInv, StateInv, PhaseInv, Finished
  <2>2. s = NumMsgs - 1
    BY SMTT(30), <1>1, <2>1
  <2>3. QED
    BY ZenonT(30), <1>1, <2>1, <2>2 DEF Finished
<1>4. QED
  BY ZenonT(30), <1>2, <1>3

\* No step of the reader fails on a conforming peer's records.
LEMMA NoFailStep ==
    ASSUME ConformingPeer, PeerInv, wait # "error", [Next]_vars
    PROVE  wait' # "error"
<1>1. ASSUME NEW rec \in Arriving, NEW more \in BOOLEAN, dtls1_open_handshake(rec, more)
      PROVE  wait' # "error"
  <2>1. /\ ~bad_fragment(rec.hdr)
        /\ ~ignored_fragment(rec.hdr) => ~incoming_message_fails(rec.hdr)
    BY ZenonT(30), <1>1, PeerFragmentAccepted DEF dtls1_open_handshake
  <2>2. QED
    BY ZenonT(30), <1>1, <2>1 DEF dtls1_open_handshake, open_fragment
<1>2. ASSUME NEW rec \in Arriving,
             dtls1_open_handshake_ccs(rec) \/ dtls1_open_handshake_other(rec)
      PROVE  wait' # "error"
  <2>1. rec.kind # "handshake"
    BY ZenonT(30), <1>2 DEF dtls1_open_handshake_ccs, dtls1_open_handshake_other
  <2>2. rec \in {[kind |-> "change_cipher_spec", epoch |-> 0],
                 [kind |-> "application_data", epoch |-> 1]}
    BY SMTT(30), <2>1 DEF Arriving, ConformingPeer
  <2>3. QED
    BY SMTT(30), <1>2, <2>2 DEF dtls1_open_handshake_ccs, dtls1_open_handshake_other, vars
<1>3. CASE consume_message
  BY ZenonT(30), <1>3, NothingLeftOver DEF consume_message, WaitAfter
<1>4. CASE dtls1_open_change_cipher_spec
  BY ZenonT(30), <1>4, NothingLeftOver DEF dtls1_open_change_cipher_spec, dtls1_set_read_state
<1>5. QED
  BY ZenonT(30), <1>1, <1>2, <1>3, <1>4 DEF Next, vars, PeerSendsFlight, dtls1_get_message

\* What is buffered belongs to the flight being read.
LEMMA FlightStep ==
    ASSUME ConformingPeer, PeerInv, [Next]_vars
    PROVE  FlightInv'
<1> DEFINE Ring == \A i \in Slots : incoming_messages[i] # NULL =>
                      /\ incoming_messages[i].seq < sent
                      /\ incoming_messages[i].type = incoming_messages[i].seq
                      /\ incoming_messages[i].msg_len = MsgLen[incoming_messages[i].seq]
                      /\ r_epoch = 0 => incoming_messages[i].seq # Finished
<1>0. /\ handshake_read_seq \in 0 .. NumMsgs /\ sent \in 1 .. NumMsgs /\ NumMsgs \in Nat
      /\ r_epoch \in {0, 1}
      /\ \A i \in Slots : incoming_messages[i] # NULL => incoming_messages[i].seq \in Nat
  BY ZenonT(30), MsgsAssumption DEF PeerInv, StateInv, TypeOK, Fragments
<1>1. CASE UNCHANGED <<handshake_read_seq, incoming_messages, r_epoch, sent>>
  BY ZenonT(30), <1>1 DEF PeerInv, FlightInv, Finished
<1>2. CASE PeerSendsFlight
  <2>1. /\ handshake_read_seq = sent /\ sent < NumMsgs
        /\ sent' = FlightEnd[sent] + 1
        /\ UNCHANGED <<handshake_read_seq, incoming_messages, r_epoch>>
    BY ZenonT(30), <1>2 DEF PeerSendsFlight
  <2>2. FlightEnd[sent] \in Nat /\ sent <= FlightEnd[sent]
    BY SMTT(30), <2>1, <1>0, MsgsAssumption
  <2>3. sent < sent'
    BY SMTT(30), <1>0, <2>1, <2>2
  <2>4. \A i \in Slots : incoming_messages[i] # NULL => incoming_messages[i].seq < sent'
    BY SMTT(30), <1>0, <2>1, <2>2 DEF PeerInv, FlightInv
  <2>5. /\ handshake_read_seq' < sent' => sent' = FlightEnd[handshake_read_seq'] + 1
        /\ handshake_read_seq' <= sent'
    BY SMTT(30), <1>0, <2>1, <2>3
  <2>6. QED
    BY ZenonT(30), <2>1, <2>4, <2>5 DEF PeerInv, FlightInv, Finished
<1>3. ASSUME NEW rec \in Arriving, NEW more \in BOOLEAN, rec.kind = "handshake",
             rec.epoch = r_epoch, Stores(rec.hdr, more)
      PROVE  FlightInv'
  <2>1. PICK m \in Msgs : /\ m < sent
                          /\ rec.epoch = MsgEpoch(m)
                          /\ rec.hdr.type = m /\ rec.hdr.seq = m
                          /\ rec.hdr.msg_len = MsgLen[m]
    BY ZenonT(30), <1>3, PeerRecord DEF PeerInv
  <2> DEFINE new == store_fragment(rec.hdr)
             old == incoming_messages[Slot(m)]
  <2>2. /\ new.type = m /\ new.msg_len = MsgLen[m]
        /\ new.seq = dtls1_get_incoming_message(rec.hdr).seq
    BY ZenonT(30), <1>3, <2>1, StoreType DEF Stores, PeerInv, StateInv
  <2>3. m \in Nat /\ Slot(m) \in Slots
    BY SMTT(30), SlotType DEF Msgs
  <2>4. new.seq = m
    <3>1. CASE old = NULL
      BY ZenonT(30), <2>1, <2>2, <3>1 DEF dtls1_get_incoming_message, dtls1_hm_fragment_new
    <3>2. CASE old # NULL
      <4>1. new.seq = old.seq
        BY ZenonT(30), <2>1, <2>2, <3>2 DEF dtls1_get_incoming_message
      <4>2. old.type = rec.hdr.type
        BY ZenonT(30), <1>3, <2>1, <3>2 DEF Stores, incoming_message_fails
      <4>3. old.type = old.seq
        BY ZenonT(30), <2>3, <3>2 DEF PeerInv, FlightInv
      <4>4. QED
        BY ZenonT(30), <4>1, <4>2, <4>3, <2>1
    <3>3. QED
      BY ZenonT(30), <3>1, <3>2
  <2>5. r_epoch = 0 => m # Finished
    <3>1. r_epoch = MsgEpoch(m)
      BY ZenonT(30), <1>3, <2>1
    <3>2. QED
      BY SMTT(30), <3>1 DEF MsgEpoch
  <2>6. /\ UNCHANGED <<handshake_read_seq, r_epoch, sent>>
        /\ \A i \in Slots : incoming_messages'[i] =
              IF i = Slot(m) THEN new ELSE incoming_messages[i]
    BY ZenonT(30), <1>3, <2>1 DEF Stores, PeerInv, StateInv, TypeOK
  <2> HIDE DEF new
  <2>7. QED
    BY ZenonT(30), <2>1, <2>2, <2>4, <2>5, <2>6 DEF PeerInv, FlightInv, Finished
<1>4. CASE consume_message /\ ~Fail
  <2>1. /\ has_message
        /\ handshake_read_seq' = handshake_read_seq + 1
        /\ UNCHANGED <<r_epoch, sent>>
        /\ \A i \in Slots : incoming_messages'[i] \in {NULL, incoming_messages[i]}
    BY ZenonT(30), <1>4 DEF consume_message, dtls1_next_message, PeerInv, StateInv, TypeOK
  <2>2. handshake_read_seq < sent
    <3>1. Current # NULL /\ Slot(handshake_read_seq) \in Slots
      BY ZenonT(30), <2>1, CurrentType DEF PeerInv
    <3>2. handshake_read_seq <= Current.seq /\ Current.seq < sent /\ Current.seq \in Nat
      BY ZenonT(30), <3>1, <1>0 DEF PeerInv, RingSlots, FlightInv, Current
    <3>3. QED
      BY SMTT(30), <3>2, <1>0
  <2>3. sent = FlightEnd[handshake_read_seq] + 1 /\ handshake_read_seq \in Msgs
    BY SMTT(30), <1>0, <2>2 DEF PeerInv, FlightInv, Msgs
  <2>4. FlightEnd[handshake_read_seq] \in Nat
    BY SMTT(30), <2>3, MsgsAssumption DEF Msgs
  <2>5. handshake_read_seq' < sent => sent = FlightEnd[handshake_read_seq'] + 1
    <3>1. SUFFICES ASSUME handshake_read_seq' < sent
                   PROVE  FlightEnd[handshake_read_seq'] = FlightEnd[handshake_read_seq]
      BY ZenonT(30), <2>3
    <3>2. handshake_read_seq' \in handshake_read_seq .. FlightEnd[handshake_read_seq]
      BY SMTT(30), <3>1, <1>0, <2>1, <2>3, <2>4
    <3>3. QED
      BY ZenonT(30), <3>2, <2>3, MsgsAssumption DEF Msgs
  <2>6. handshake_read_seq' <= sent
    BY SMTT(30), <1>0, <2>1, <2>2
  <2>7. QED
    BY ZenonT(30), <2>1, <2>5, <2>6 DEF PeerInv, FlightInv, Finished
<1>5. CASE dtls1_open_change_cipher_spec /\ ~Fail
  <2>1. /\ wait = "read_change_cipher_spec"
        /\ r_epoch' = r_epoch + 1
        /\ UNCHANGED <<handshake_read_seq, incoming_messages, sent>>
    BY ZenonT(30), <1>5 DEF dtls1_open_change_cipher_spec, dtls1_set_read_state
  <2>2. r_epoch' # 0
    BY SMTT(30), <2>1, <1>0
  <2>3. QED
    BY ZenonT(30), <2>1, <2>2 DEF PeerInv, FlightInv
<1>6. CASE UNCHANGED vars
  BY ZenonT(30), <1>1, <1>6 DEF vars
<1>7. CASE Fail
  BY ZenonT(30), <1>1, <1>7 DEF Fail
<1>8. QED
  BY ZenonT(30), <1>1, <1>2, <1>3, <1>4, <1>5, <1>6, <1>7, NextCases
     DEF PeerInv, StateInv, dtls1_get_message

\* Before the first record, the first flight is on its way.
LEMMA FlightInit == Init => FlightInv /\ RingSlots /\ CompleteIsWhole /\ EpochInv
<1> SUFFICES ASSUME Init PROVE FlightInv /\ RingSlots /\ CompleteIsWhole /\ EpochInv
  BY ZenonT(30)
<1>1. FlightEnd[0] \in Nat
  BY SMTT(30), MsgsAssumption
<1>2. FlightInv
  BY SMTT(30), <1>1 DEF Init, FlightInv
<1>3. QED
  BY SMTT(30), <1>2 DEF Init, RingSlots, CompleteIsWhole, EpochInv, DeliveredInEpoch

\* Loss, repetition, fragmentation and reordering alone never make the
\* handshake of a conforming peer fail, for every script and ring size.
THEOREM NeverSpurious == ASSUME FlightsFit PROVE Spec => []NoSpuriousError
<1> DEFINE Inv == StateInv /\ RingSlots /\ (conforming => FlightInv) /\ NoSpuriousError
<1>1. Init => Inv
  BY ZenonT(30), StateInit, FlightInit DEF Init, NoSpuriousError
<1>2. Inv /\ [Next]_vars => Inv'
  <2> SUFFICES ASSUME Inv, [Next]_vars PROVE Inv'
    BY ZenonT(30)
  <2>1. StateInv' /\ RingSlots'
    BY ZenonT(30), StateStep, RingStep
  <2>2. ASSUME conforming' PROVE FlightInv' /\ wait' # "error"
    <3>1. ConformingPeer /\ PeerInv /\ wait # "error"
      BY ZenonT(30), <2>2, PeerKept DEF ConformingPeer, PeerInv, NoSpuriousError
    <3>2. QED
      BY ZenonT(30), <3>1, FlightStep, NoFailStep
  <2>3. QED
    BY ZenonT(30), <2>1, <2>2 DEF NoSpuriousError
<1>3. QED
  BY <1>1, <1>2, PTL DEF Spec

\* Consuming the current message appends the next one of the peer's script.
LEMMA OrderStep ==
    ASSUME ConformingPeer, PeerInv, CompleteIsWhole, EpochInv, DeliveredInOrder, [Next]_vars
    PROVE  DeliveredInOrder'
<1>1. CASE UNCHANGED delivered
  BY ZenonT(30), <1>1, PeerKept DEF DeliveredInOrder
<1>2. CASE consume_message /\ ~UNCHANGED delivered
  <2> DEFINE m == [type |-> Current.type, msg_len |-> Current.msg_len,
                   data |-> Current.data, epochs |-> Current.epochs]
             rs == handshake_read_seq
  <2>1. delivered' = Append(delivered, m) /\ has_message
    BY ZenonT(30), <1>2 DEF consume_message, Fail
  <2>2. rs \in Nat /\ rs < rs + SSL_MAX_HANDSHAKE_FLIGHT
    BY SMTT(30), MsgsAssumption, FlightAssumption DEF PeerInv, StateInv, TypeOK
  <2>3. Current # NULL /\ Slot(rs) \in Slots /\ Current.reassembly = NULL
    BY ZenonT(30), <2>1, CurrentType DEF PeerInv
  <2>4. Current.seq = rs
    BY SMTT(30), <2>2, <2>3, SlotIsMessage DEF PeerInv, Current
  <2>5. Current.type = rs /\ Current.msg_len = MsgLen[rs]
    BY ZenonT(30), <2>3, <2>4 DEF PeerInv, FlightInv, Current
  <2>6. Current.data = 0 .. MsgLen[rs] - 1
    BY ZenonT(30), <2>3, <2>5 DEF CompleteIsWhole, WholeOrMasked, Current
  <2>7. m.type = rs /\ m.msg_len = MsgLen[rs] /\ m.data = 0 .. MsgLen[rs] - 1
    BY ZenonT(30), <2>5, <2>6
  <2> HIDE DEF m, rs
  <2>8. ASSUME NEW i \in 1 .. Len(delivered')
        PROVE  /\ delivered'[i].type = i - 1
               /\ delivered'[i].msg_len = MsgLen[i - 1]
               /\ delivered'[i].data = 0 .. MsgLen[i - 1] - 1
    <3>1. Len(delivered) = rs /\ Len(delivered') = rs + 1
      BY SMTT(30), <2>1, <2>2 DEF EpochInv, rs
    <3>2. CASE i = rs + 1
      <4>1. delivered'[i] = m
        BY SMTT(30), <2>1, <2>2, <3>1, <3>2 DEF EpochInv
      <4>2. i - 1 = rs
        BY SMTT(30), <3>2, <2>2
      <4>3. QED
        BY ZenonT(30), <4>1, <4>2, <2>7
    <3>3. CASE i # rs + 1
      <4>1. i \in 1 .. Len(delivered) /\ delivered'[i] = delivered[i]
        BY SMTT(30), <2>1, <2>2, <3>1, <3>3 DEF EpochInv
      <4>2. QED
        BY ZenonT(30), <4>1 DEF DeliveredInOrder, ConformingPeer
    <3>4. QED
      BY ZenonT(30), <3>2, <3>3
  <2>9. QED
    BY ZenonT(30), <2>8 DEF DeliveredInOrder
<1>3. CASE UNCHANGED vars
  BY ZenonT(30), <1>1, <1>3 DEF vars
<1>4. CASE dtls1_open_change_cipher_spec
  BY ZenonT(30), <1>1, <1>4 DEF dtls1_open_change_cipher_spec, dtls1_set_read_state, Fail
<1>5. QED
  BY ZenonT(30), <1>1, <1>2, <1>3, <1>4, NextCases
     DEF PeerInv, StateInv, PeerSendsFlight, Fail, Stores, dtls1_get_message

\* The state machine sees exactly a conforming peer's messages, in order and
\* whole.
THEOREM InOrder == ASSUME FlightsFit PROVE Spec => []DeliveredInOrder
<1> DEFINE Inv == /\ StateInv /\ RingSlots /\ CompleteIsWhole /\ EpochInv
                  /\ conforming => FlightInv
                  /\ DeliveredInOrder
<1>1. Init => Inv
  BY SMTT(30), StateInit, FlightInit DEF Init, DeliveredInOrder
<1>2. Inv /\ [Next]_vars => Inv'
  <2> SUFFICES ASSUME Inv, [Next]_vars PROVE Inv'
    BY ZenonT(30)
  <2>1. StateInv' /\ RingSlots' /\ CompleteIsWhole' /\ EpochInv'
    BY ZenonT(30), StateStep, RingStep, CompleteStep, EpochStep
  <2>2. ASSUME conforming' PROVE FlightInv' /\ DeliveredInOrder'
    <3>1. ConformingPeer /\ PeerInv
      BY ZenonT(30), <2>2, PeerKept DEF ConformingPeer, PeerInv
    <3>2. QED
      BY ZenonT(30), <3>1, FlightStep, OrderStep
  <2>3. DeliveredInOrder'
    BY ZenonT(30), <2>2 DEF DeliveredInOrder
  <2>4. QED
    BY ZenonT(30), <2>1, <2>2, <2>3
<1>3. QED
  BY <1>1, <1>2, PTL DEF Spec
=============================================================================
