-------------------------- MODULE DtlsRecordProofs --------------------------
(***************************************************************************)
(* Proofs about the record layer for every window size, every number of    *)
(* sequence numbers per epoch and every number of epochs, and about the    *)
(* retransmission timer for every clock and every duration.                *)
(***************************************************************************)
EXTENDS DtlsRecord, DtlsTimer, FiniteSetTheorems, TLAPS

USE DEF Seqs, Epochs, Nums, Num, InEpoch, Records

\* Sealing a record keeps the sender's histories and the network well typed.
LEMMA SealType ==
    ASSUME TypeOK, NEW e \in Epochs, NEW s \in Seqs, NEW kind \in Kinds, Seal(e, s, kind)
    PROVE  /\ wrapped' \subseteq Epochs
           /\ sealed' \subseteq Nat
           /\ resealed' \subseteq Nat
           /\ net' \subseteq Records
  <1>1. Num(e, s) \in Nat
    BY SeqAssumption
  <1>2. wrapped' \subseteq Epochs
    BY DEF Seal, TypeOK
  <1>3. sealed' \subseteq Nat /\ resealed' \subseteq Nat
    BY <1>1 DEF Seal, TypeOK
  <1>4. [epoch |-> e, seq |-> s, kind |-> kind] \in Records
    OBVIOUS
  <1>5. net' \subseteq Records
    BY <1>4 DEF Seal, TypeOK
  <1> QED BY <1>2, <1>3, <1>5

\* Where the numbers of an epoch, of the next and of the previous one start.
LEMMA EpochBase ==
    ASSUME NEW e \in Nat
    PROVE  /\ e * SeqLimit \in Nat
           /\ (e + 1) * SeqLimit = e * SeqLimit + SeqLimit
           /\ (e - 1) * SeqLimit = e * SeqLimit - SeqLimit
  BY SeqAssumption

(***************************************************************************)
(* Type correctness: every handler of the record layer keeps its counters, *)
(* the window and the shutdown state in range.                             *)
(***************************************************************************)
THEOREM TypeCorrect == Spec => []TypeOK
  <1> USE DEF window, ending
  <1> USE WindowAssumption, SeqAssumption, EpochAssumption, KindsAssumption
  <1>1. Init => TypeOK
    <2> SUFFICES ASSUME Init PROVE TypeOK
      OBVIOUS
    <2>1. alert_dispatch \in BOOLEAN /\ closed \in BOOLEAN
      BY Zenon DEF Init
    <2>2. /\ w_epoch \in Epochs /\ r_epoch \in Epochs
          /\ write_sequence \in Seqs /\ last_write_sequence \in Seqs
          /\ bitmap \in [map : SUBSET (0 .. kWindowSize - 1), max_seq_num : Nat]
          /\ warning_alert_count \in Nat
      BY DEF Init, ZeroBitmap
    <2> QED BY <2>1, <2>2 DEF Init, TypeOK
  <1>2. TypeOK /\ [Next]_vars => TypeOK'
    <2> SUFFICES ASSUME TypeOK, [Next]_vars PROVE TypeOK'
      OBVIOUS
    <2> USE DEF TypeOK
    <2>1. ASSUME NEW kind \in Kinds, dtls_seal_record_current(kind) PROVE TypeOK'
      <3>1. /\ wrapped' \subseteq Epochs
            /\ sealed' \subseteq Nat
            /\ resealed' \subseteq Nat
            /\ net' \subseteq Records
        BY <2>1, SealType DEF dtls_seal_record_current
      <3>2. write_sequence' \in Seqs
        BY <2>1 DEF dtls_seal_record_current
      <3> QED BY <2>1, <3>1, <3>2 DEF dtls_seal_record_current, reader
    <2>2. ASSUME NEW kind \in Kinds, dtls_seal_record_previous(kind) PROVE TypeOK'
      <3>0. w_epoch - 1 \in Epochs
        BY <2>2 DEF dtls_seal_record_previous
      <3>1. /\ wrapped' \subseteq Epochs
            /\ sealed' \subseteq Nat
            /\ resealed' \subseteq Nat
            /\ net' \subseteq Records
        BY <2>2, <3>0, SealType DEF dtls_seal_record_previous
      <3>2. last_write_sequence' \in Seqs
        BY <2>2 DEF dtls_seal_record_previous
      <3> QED BY <2>2, <3>1, <3>2 DEF dtls_seal_record_previous, reader
    <2>3. CASE dtls1_set_write_state
      BY <2>3 DEF dtls1_set_write_state, reader
    <2>4. CASE dtls1_set_read_state
      BY <2>4 DEF dtls1_set_read_state, writer, ZeroBitmap
    <2>5. ASSUME NEW r \in net, Current(r), dtls1_bitmap_record(Num(r.epoch, r.seq))
          PROVE  /\ bitmap' \in [map : SUBSET (0 .. kWindowSize - 1), max_seq_num : Nat]
                 /\ accepted' \subseteq Nat
                 /\ replayed' \subseteq Nat
      <3>1. Num(r.epoch, r.seq) \in Nat
        BY EpochBase
      <3> QED BY <2>5, <3>1 DEF dtls1_bitmap_record, bitmap_record, Shifted
    <2>6. ASSUME NEW r \in net, dtls_open_record_data(r) PROVE TypeOK'
      BY <2>5, <2>6 DEF dtls_open_record_data, writer
    <2>7. ASSUME NEW r \in net, dtls_open_record_alert(r) PROVE TypeOK'
      <3>1. /\ read_shutdown' \in {"none", "close_notify", "error"}
            /\ write_shutdown' \in {"none", "close_notify", "error"}
            /\ alert_dispatch' \in BOOLEAN
            /\ warning_alert_count' \in Nat
        <4> USE DEF Refuse, ssl_send_alert
        <4>1. CASE r.kind = "warning"
          BY <2>7, <4>1 DEF dtls_open_record_alert, ssl_process_alert
        <4>2. CASE r.kind = "close_notify"
          BY <2>7, <4>2 DEF dtls_open_record_alert, ssl_process_alert
        <4>3. CASE r.kind = "fatal"
          BY <2>7, <4>3 DEF dtls_open_record_alert, ssl_process_alert
        <4>4. CASE r.kind = "bad_alert"
          BY <2>7, <4>4 DEF dtls_open_record_alert, ssl_process_alert
        <4> QED BY <2>7, <4>1, <4>2, <4>3, <4>4 DEF dtls_open_record_alert
      <3> QED BY <2>5, <2>7, <3>1 DEF dtls_open_record_alert, writer
    <2>8. ASSUME NEW r \in net, dtls_open_record_too_long(r) PROVE TypeOK'
      BY <2>8 DEF dtls_open_record_too_long, Refuse, ssl_send_alert, writer
    <2>9. CASE SSL_shutdown_quiet
      BY <2>9 DEF SSL_shutdown_quiet, writer
    <2>10. CASE SSL_shutdown
      BY <2>10 DEF SSL_shutdown, ssl_send_alert, writer
    <2>11. CASE SSL_set_shutdown
      BY <2>11 DEF SSL_set_shutdown, writer
    <2>12. CASE UNCHANGED vars
      BY <2>12 DEF vars, writer, reader
    <2> QED
      BY <2>1, <2>2, <2>3, <2>4, <2>6, <2>7, <2>8, <2>9, <2>10, <2>11, <2>12
      DEF Next, dtls_open_record_damaged
  <1> QED BY <1>1, <1>2, PTL DEF Spec

(***************************************************************************)
(* Recording a fresh number n of the current epoch keeps the map equal to  *)
(* the accepted numbers of the epoch, seen from the new maximum.           *)
(***************************************************************************)
LEMMA RecordKeepsWindow ==
    ASSUME TypeOK, WindowInv, NEW n \in Nat, InEpoch(n, r_epoch),
           ~ bitmap_should_discard(bitmap, n),
           dtls1_bitmap_record(n), UNCHANGED r_epoch
    PROVE  WindowInv'
  <1> DEFINE base == r_epoch * SeqLimit
             old == bitmap.max_seq_num
             top == IF n > old THEN n ELSE old
             W == 0 .. kWindowSize - 1
  <1> USE WindowAssumption, SeqAssumption
  <1>1. /\ base \in Nat
        /\ old \in Nat
        /\ top \in Nat
        /\ top >= old
        /\ top >= n
    BY EpochBase DEF TypeOK
  <1>2. /\ base <= n
        /\ n < base + SeqLimit
        /\ base' = base
    OBVIOUS
  <1>3. /\ bitmap'.max_seq_num = top
        /\ bitmap'.map = Shifted(bitmap.map, top - old) \cup {i \in W : i = top - n}
        /\ accepted' = accepted \cup {n}
    BY DEF dtls1_bitmap_record, bitmap_record
  <1>4. \A i \in W : i \in bitmap.map <=> /\ old - i \in accepted
                                          /\ InEpoch(old - i, r_epoch)
    BY DEF WindowInv
  <1>5. \A m \in accepted : /\ m \in Nat
                            /\ m < base + SeqLimit
                            /\ base <= m => m <= old
    BY DEF WindowInv, TypeOK
  <1>6. n \notin accepted
    <2> SUFFICES ASSUME n \in accepted PROVE FALSE
      OBVIOUS
    <2>1. n <= old
      BY <1>2, <1>5
    <2>2. old - n < kWindowSize
      BY <2>1, <1>1 DEF bitmap_should_discard, TypeOK
    <2>3. old - n \in W /\ old - (old - n) = n
      BY <2>1, <2>2, <1>1
    <2>4. old - n \in bitmap.map
      BY <2>3, <1>4
    <2> QED BY <2>1, <2>4 DEF bitmap_should_discard
  <1>7. replayed' = {}
    BY <1>6 DEF dtls1_bitmap_record, WindowInv
  <1>8. \A m \in accepted' : m < base + SeqLimit /\ (base <= m => m <= top)
    <2> SUFFICES ASSUME NEW m \in accepted'
                 PROVE  m < base + SeqLimit /\ (base <= m => m <= top)
      OBVIOUS
    <2>1. CASE m = n
      BY <2>1, <1>1, <1>2
    <2>2. CASE m \in accepted
      <3> HIDE DEF base, old, top
      <3>1. m \in Nat /\ m < base + SeqLimit /\ (base <= m => m <= old)
        BY <2>2, <1>5
      <3> QED BY <3>1, <1>1
    <2> QED BY <2>1, <2>2, <1>3
  <1>9. ASSUME NEW i \in W
        PROVE  i \in bitmap'.map <=> /\ top - i \in accepted'
                                     /\ InEpoch(top - i, r_epoch)
    <2>1. CASE top - i = n
      <3>1. i = top - n
        BY <2>1, <1>1
      <3>2. i \in bitmap'.map
        BY <3>1, <1>3
      <3> QED BY <2>1, <3>2, <1>2, <1>3
    <2>2. CASE top - i # n
      <3>1. i # top - n
        BY <2>2, <1>1
      <3>2. i \in bitmap'.map <=> i - (top - old) \in bitmap.map
        BY <3>1, <1>3 DEF Shifted
      <3>3. CASE i - (top - old) \in W
        <4>1. old - (i - (top - old)) = top - i
          BY <1>1, <3>3
        <4>2. i - (top - old) \in bitmap.map <=> /\ top - i \in accepted
                                                 /\ InEpoch(top - i, r_epoch)
          BY <4>1, <1>4, <3>3
        <4> QED BY <2>2, <3>2, <4>2, <1>3
      <3>4. CASE i - (top - old) \notin W
        <4>1. i - (top - old) \notin bitmap.map
          BY <3>4 DEF TypeOK
        <4>2. i < top - old
          BY <3>4, <1>1
        <4>3. top - i > old
          BY <4>2, <1>1
        <4>4. ~ (top - i \in accepted /\ base <= top - i)
          BY <4>3, <1>1, <1>5
        <4> QED BY <2>2, <3>2, <4>1, <4>4, <1>3
      <3> QED BY <3>3, <3>4
    <2> QED BY <2>1, <2>2
  <1>10. (top \in accepted' /\ InEpoch(top, r_epoch)) \/ top = 0
    BY <1>1, <1>2, <1>3 DEF WindowInv
  <1> QED
    <2>1. \A m \in accepted' : /\ m < r_epoch' * SeqLimit + SeqLimit
                               /\ InEpoch(m, r_epoch)' => m <= bitmap'.max_seq_num
      BY <1>3, <1>8
    <2>2. \A i \in 0 .. kWindowSize - 1 :
            i \in bitmap'.map <=> /\ bitmap'.max_seq_num - i \in accepted'
                                  /\ InEpoch(bitmap'.max_seq_num - i, r_epoch')
      BY <1>3, <1>9
    <2>3. \/ bitmap'.max_seq_num = 0
          \/ /\ bitmap'.max_seq_num \in accepted'
             /\ InEpoch(bitmap'.max_seq_num, r_epoch')
      BY <1>3, <1>10
    <2> HIDE DEF base, old, top, W
    <2> QED BY <1>7, <2>1, <2>2, <2>3 DEF WindowInv

(***************************************************************************)
(* No record is let through twice, for any window size: the invariant of   *)
(* the proof is that the map holds exactly the accepted numbers of the     *)
(* epoch, so a number that is refused by neither test was never accepted.  *)
(***************************************************************************)
THEOREM WindowCorrect == Spec => []WindowInv
  <1> USE WindowAssumption, SeqAssumption, EpochAssumption
  <1>1. Init => WindowInv
    BY DEF Init, WindowInv, ZeroBitmap
  <1>2. TypeOK /\ WindowInv /\ [Next]_vars => WindowInv'
    <2> SUFFICES ASSUME TypeOK, WindowInv, [Next]_vars PROVE WindowInv'
      OBVIOUS
    <2>1. ASSUME NEW r \in net, Current(r), dtls1_bitmap_record(Num(r.epoch, r.seq)),
                 UNCHANGED r_epoch
          PROVE  WindowInv'
      <3>1. /\ Num(r.epoch, r.seq) \in Nat
            /\ InEpoch(Num(r.epoch, r.seq), r_epoch)
            /\ ~ bitmap_should_discard(bitmap, Num(r.epoch, r.seq))
        <4>1. r.epoch = r_epoch /\ r.epoch \in Nat /\ r.seq \in 0 .. SeqLimit - 1
          BY <2>1 DEF Current, TypeOK
        <4>2. r.epoch * SeqLimit \in Nat
          BY <4>1, EpochBase
        <4> QED BY <2>1, <4>1, <4>2 DEF Current
      <3> HIDE DEF Num, InEpoch
      <3> QED BY <2>1, <3>1, RecordKeepsWindow
    <2>2. ASSUME NEW r \in net, dtls_open_record_data(r) PROVE WindowInv'
      BY <2>1, <2>2 DEF dtls_open_record_data
    <2>3. ASSUME NEW r \in net, dtls_open_record_alert(r) PROVE WindowInv'
      BY <2>1, <2>3 DEF dtls_open_record_alert
    <2>4. CASE dtls1_set_read_state
      <3>1. /\ r_epoch' * SeqLimit = r_epoch * SeqLimit + SeqLimit
            /\ r_epoch * SeqLimit \in Nat
        BY <2>4, EpochBase DEF dtls1_set_read_state, TypeOK
      <3>2. /\ bitmap'.map = {}
            /\ bitmap'.max_seq_num = 0
            /\ accepted' = accepted
            /\ replayed' = {}
        BY <2>4 DEF dtls1_set_read_state, ZeroBitmap, WindowInv
      <3>3. \A m \in accepted' : m \in Nat /\ m < r_epoch' * SeqLimit
        <4>1. \A m \in accepted : m < r_epoch * SeqLimit + SeqLimit
          BY DEF WindowInv
        <4>2. accepted \subseteq Nat
          BY DEF TypeOK
        <4> QED BY <4>1, <4>2, <3>1, <3>2
      <3>4. \A m \in accepted' : ~ InEpoch(m, r_epoch')
        BY <3>1, <3>3
      <3>5. \A m \in accepted' : m < r_epoch' * SeqLimit + SeqLimit
        BY <3>1, <3>3
      <3> HIDE DEF InEpoch
      <3> QED BY <3>2, <3>4, <3>5 DEF WindowInv
    <2>5. CASE UNCHANGED <<r_epoch, bitmap, accepted, replayed>>
      BY <2>5 DEF WindowInv
    <2>6. QED
      BY <2>2, <2>3, <2>4, <2>5
      DEF Next, vars, reader, window, dtls_seal_record_current, dtls_seal_record_previous,
          dtls1_set_write_state, dtls_open_record_too_long, dtls_open_record_damaged,
          SSL_shutdown_quiet, SSL_shutdown, SSL_set_shutdown
  <1> QED BY <1>1, <1>2, TypeCorrect, PTL DEF Spec

(***************************************************************************)
(* dtls_open_record never accepts the same record twice.                   *)
(***************************************************************************)
THEOREM NeverReplayed == Spec => []NoReplay
  <1>1. WindowInv => NoReplay
    BY DEF WindowInv, NoReplay
  <1> QED BY <1>1, WindowCorrect, PTL

(***************************************************************************)
(* The window refuses exactly the numbers accepted before and those that   *)
(* have fallen out of it.                                                  *)
(***************************************************************************)
THEOREM WindowIsExact == Spec => []WindowExact
  <1>1. TypeOK /\ WindowInv => WindowExact
    <2> SUFFICES ASSUME TypeOK, WindowInv, NEW n \in Nums, InEpoch(n, r_epoch)
                 PROVE  bitmap_should_discard(bitmap, n)
                          <=> \/ n \in accepted
                              \/ \E m \in accepted :
                                    InEpoch(m, r_epoch) /\ m - n >= kWindowSize
      BY DEF WindowExact
    <2> DEFINE max == bitmap.max_seq_num
    <2>1. max \in Nat /\ n \in Nat /\ kWindowSize \in Nat \ {0}
      <3>1. EpochLimit * SeqLimit \in Nat
        BY EpochAssumption, EpochBase
      <3> QED BY <3>1, WindowAssumption DEF TypeOK
    <2>2. \A m \in accepted : m \in Nat /\ (InEpoch(m, r_epoch) => m <= max)
      BY DEF WindowInv, TypeOK
    <2>3. n <= max /\ max - n < kWindowSize =>
            (max - n \in bitmap.map <=> n \in accepted)
      <3> SUFFICES ASSUME n <= max, max - n < kWindowSize
                   PROVE  max - n \in bitmap.map <=> n \in accepted
        OBVIOUS
      <3>1. max - n \in 0 .. kWindowSize - 1 /\ max - (max - n) = n
        BY <2>1
      <3> HIDE DEF InEpoch
      <3> QED BY <3>1 DEF WindowInv
    <2>4. bitmap.map \subseteq 0 .. kWindowSize - 1
      BY DEF TypeOK
    <2>5. ASSUME bitmap_should_discard(bitmap, n)
          PROVE  \/ n \in accepted
                 \/ \E m \in accepted : InEpoch(m, r_epoch) /\ m - n >= kWindowSize
      <3>1. n <= max
        BY <2>5 DEF bitmap_should_discard
      <3>2. CASE max - n >= kWindowSize
        <4>1. max # 0
          BY <2>1, <3>1, <3>2
        <4>2. max \in accepted /\ InEpoch(max, r_epoch)
          BY <4>1 DEF WindowInv
        <4> HIDE DEF InEpoch, max
        <4> QED BY <4>2, <3>2
      <3>3. CASE max - n \in bitmap.map
        BY <3>1, <3>3, <2>1, <2>3, <2>4
      <3> QED BY <2>5, <3>2, <3>3 DEF bitmap_should_discard
    <2>6. ASSUME n \in accepted PROVE bitmap_should_discard(bitmap, n)
      <3>1. n <= max
        BY <2>2, <2>6
      <3> QED BY <3>1, <2>1, <2>3, <2>6 DEF bitmap_should_discard
    <2>7. ASSUME NEW m \in accepted, InEpoch(m, r_epoch), m - n >= kWindowSize
          PROVE  bitmap_should_discard(bitmap, n)
      <3>1. m \in Nat /\ m <= max
        BY <2>2, <2>7
      <3>2. max - n >= kWindowSize /\ n <= max
        BY <3>1, <2>1, <2>7
      <3> QED BY <3>2 DEF bitmap_should_discard
    <2> QED BY <2>5, <2>6, <2>7
  <1> QED BY <1>1, TypeCorrect, WindowCorrect, PTL

(***************************************************************************)
(* A seal under an epoch at most one behind, with that epoch's own counter *)
(* s, uses a fresh number unless the epoch has already overflowed.         *)
(***************************************************************************)
LEMMA SealIsFresh ==
    ASSUME TypeOK, NEW e \in Epochs, NEW s \in Seqs, NEW kind \in Kinds, Seal(e, s, kind),
           SealedOnce,
           \A n \in sealed : InEpoch(n, e) => e \in wrapped \/ n < Num(e, s)
    PROVE  /\ SealedOnce'
           /\ \A n \in sealed' :
                InEpoch(n, e) => e \in wrapped' \/ n < Num(e, (s + 1) % SeqLimit)
  <1> DEFINE base == e * SeqLimit
  <1>0. SeqLimit \in Nat \ {0} /\ base \in Nat /\ s \in 0 .. SeqLimit - 1
    BY EpochBase, SeqAssumption
  <1>1. sealed \subseteq Nat
    BY DEF TypeOK
  <1>2. /\ sealed' = sealed \cup {base + s}
        /\ resealed' = resealed \cup (sealed \cap {base + s})
        /\ wrapped \subseteq wrapped'
        /\ s + 1 = SeqLimit => e \in wrapped'
    BY DEF Seal
  <1>3. \A n \in sealed : base <= n /\ n < base + SeqLimit => e \in wrapped \/ n < base + s
    OBVIOUS
  <1> HIDE DEF base
  <1>4. base + s \in sealed => e \in wrapped
    BY <1>0, <1>1, <1>3
  <1>5. base + s \in sealed => e \in wrapped' /\ InEpoch(base + s, e)
    BY <1>0, <1>2, <1>4 DEF base
  <1>6. SealedOnce'
    <2> SUFFICES ASSUME NEW n \in resealed' PROVE \E f \in wrapped' : InEpoch(n, f)
      BY DEF SealedOnce
    <2> HIDE DEF InEpoch
    <2>1. CASE n \in resealed
      BY <2>1, <1>2 DEF SealedOnce
    <2>2. CASE n = base + s /\ base + s \in sealed
      BY <2>2, <1>5
    <2> QED BY <2>1, <2>2, <1>2
  <1>7. ASSUME NEW n \in sealed', base <= n, n < base + SeqLimit
        PROVE  e \in wrapped' \/ n < base + ((s + 1) % SeqLimit)
    <2>1. CASE s + 1 = SeqLimit
      BY <2>1, <1>2
    <2>2. CASE s + 1 # SeqLimit
      <3>1. (s + 1) % SeqLimit = s + 1
        BY <2>2, <1>0
      <3>2. CASE n = base + s
        BY <3>1, <3>2, <1>0
      <3>3. CASE n \in sealed
        <4>1. e \in wrapped \/ n < base + s
          BY <3>3, <1>3, <1>7
        <4>2. n \in Nat
          BY <3>3, <1>1
        <4> QED BY <4>1, <4>2, <3>1, <1>0, <1>2
      <3> QED BY <3>2, <3>3, <1>2
    <2> QED BY <2>1, <2>2
  <1> QED BY <1>6, <1>7 DEF base

(***************************************************************************)
(* dtls_seal_record never gives the AEAD a number twice before a seal of   *)
(* that epoch has failed with an overflow, however sealing under the       *)
(* current and under the previous epoch interleave.                        *)
(***************************************************************************)
THEOREM NumbersSealedOnce == Spec => []SealedOnce
  <1> USE SeqAssumption, EpochAssumption
  <1>1. Init => SealInv
    BY DEF Init, SealInv, SealedOnce
  <1>2. TypeOK /\ SealInv /\ [Next]_vars => SealInv'
    <2> SUFFICES ASSUME TypeOK, SealInv, [Next]_vars PROVE SealInv'
      OBVIOUS
    <2> DEFINE base == w_epoch * SeqLimit
    <2>0. /\ base \in Nat
          /\ (w_epoch - 1) * SeqLimit = base - SeqLimit
          /\ (w_epoch + 1) * SeqLimit = base + SeqLimit
          /\ w_epoch \in Nat
          /\ write_sequence \in 0 .. SeqLimit - 1
          /\ last_write_sequence \in 0 .. SeqLimit - 1
          /\ sealed \subseteq Nat
      BY EpochBase DEF TypeOK
    <2>a. /\ SealedOnce
          /\ \A n \in sealed :
                /\ n < base + SeqLimit
                /\ InEpoch(n, w_epoch) =>
                      w_epoch \in wrapped \/ n < Num(w_epoch, write_sequence)
                /\ InEpoch(n, w_epoch - 1) =>
                      w_epoch - 1 \in wrapped \/ n < Num(w_epoch - 1, last_write_sequence)
      BY DEF SealInv
    <2>1. ASSUME NEW kind \in Kinds, dtls_seal_record_current(kind) PROVE SealInv'
      <3>1. /\ SealedOnce'
            /\ \A n \in sealed' : InEpoch(n, w_epoch) =>
                  w_epoch \in wrapped' \/ n < Num(w_epoch, write_sequence')
        <4> HIDE DEF InEpoch, Num, base
        <4> QED BY <2>1, <2>a, SealIsFresh DEF dtls_seal_record_current, TypeOK
      <3>2. /\ sealed' = sealed \cup {base + write_sequence}
            /\ wrapped \subseteq wrapped'
            /\ UNCHANGED <<w_epoch, last_write_sequence>>
        BY <2>1 DEF dtls_seal_record_current, Seal
      <3>3. \A n \in sealed' : n < base + SeqLimit
        <4> HIDE DEF base
        <4> QED BY <2>0, <2>a, <3>2
      <3>4. \A n \in sealed' : InEpoch(n, w_epoch - 1) =>
                w_epoch - 1 \in wrapped' \/ n < Num(w_epoch - 1, last_write_sequence)
        <4>1. ~ InEpoch(base + write_sequence, w_epoch - 1)
          BY <2>0
        <4> HIDE DEF InEpoch, Num, base
        <4> QED BY <2>a, <3>2, <4>1
      <3> QED BY <3>1, <3>2, <3>3, <3>4 DEF SealInv
    <2>2. ASSUME NEW kind \in Kinds, dtls_seal_record_previous(kind) PROVE SealInv'
      <3>0. w_epoch - 1 \in Epochs
        BY <2>2 DEF dtls_seal_record_previous, TypeOK
      <3>1. /\ SealedOnce'
            /\ \A n \in sealed' : InEpoch(n, w_epoch - 1) =>
                  w_epoch - 1 \in wrapped' \/ n < Num(w_epoch - 1, last_write_sequence')
        <4> HIDE DEF InEpoch, Num, base
        <4> QED BY <2>2, <2>a, <3>0, SealIsFresh DEF dtls_seal_record_previous, TypeOK
      <3>2. /\ sealed' = sealed \cup {(w_epoch - 1) * SeqLimit + last_write_sequence}
            /\ wrapped \subseteq wrapped'
            /\ UNCHANGED <<w_epoch, write_sequence>>
        BY <2>2 DEF dtls_seal_record_previous, Seal
      <3>3. \A n \in sealed' : n < base + SeqLimit
        <4>1. sealed' = sealed \cup {base - SeqLimit + last_write_sequence}
          BY <2>0, <3>2
        <4> HIDE DEF base
        <4> QED BY <2>0, <2>a, <4>1
      <3>4. \A n \in sealed' : InEpoch(n, w_epoch) =>
                w_epoch \in wrapped' \/ n < Num(w_epoch, write_sequence)
        <4>1. ~ InEpoch((w_epoch - 1) * SeqLimit + last_write_sequence, w_epoch)
          BY <2>0
        <4> HIDE DEF InEpoch, Num, base
        <4> QED BY <2>a, <3>2, <4>1
      <3> QED BY <3>1, <3>2, <3>3, <3>4 DEF SealInv
    <2>3. CASE dtls1_set_write_state
      <3>1. /\ w_epoch' = w_epoch + 1
            /\ w_epoch' - 1 = w_epoch
            /\ last_write_sequence' = write_sequence
            /\ UNCHANGED <<sealed, resealed, wrapped>>
        BY <2>3, <2>0 DEF dtls1_set_write_state
      <3>2. SealedOnce'
        BY <2>a, <3>1 DEF SealedOnce
      <3>3. \A n \in sealed' : n < w_epoch' * SeqLimit
        BY <2>0, <2>a, <3>1
      <3>4. \A n \in sealed' : n < w_epoch' * SeqLimit + SeqLimit
        BY <2>0, <3>1, <3>3
      <3>5. \A n \in sealed' : ~ InEpoch(n, w_epoch')
        BY <2>0, <3>1, <3>3
      <3>6. \A n \in sealed' : InEpoch(n, w_epoch' - 1) =>
                w_epoch' - 1 \in wrapped' \/ n < Num(w_epoch' - 1, last_write_sequence')
        <4> HIDE DEF InEpoch, Num, base
        <4> QED BY <2>a, <3>1
      <3> HIDE DEF InEpoch, Num
      <3> QED BY <3>2, <3>4, <3>5, <3>6 DEF SealInv
    <2>4. CASE UNCHANGED writer
      BY <2>4 DEF writer, SealInv, SealedOnce
    <2> QED
      BY <2>1, <2>2, <2>3, <2>4
      DEF Next, vars, dtls1_set_read_state, dtls_open_record_data, dtls_open_record_alert,
          dtls_open_record_too_long, dtls_open_record_damaged, SSL_shutdown_quiet,
          SSL_shutdown, SSL_set_shutdown
  <1>3. SealInv => SealedOnce
    BY DEF SealInv
  <1> QED BY <1>1, <1>2, <1>3, TypeCorrect, PTL DEF Spec

(***************************************************************************)
(* What the peer has sent only grows, and stays finite.                    *)
(***************************************************************************)
LEMMA SealGrows ==
    ASSUME NEW e, NEW s, NEW kind, Seal(e, s, kind), IsFiniteSet(net)
    PROVE  net \subseteq net' /\ IsFiniteSet(net')
  <1> DEFINE new == {r \in {[epoch |-> e, seq |-> s, kind |-> kind]} : s + 1 # SeqLimit}
  <1>1. net' = net \cup new
    BY DEF Seal
  <1>2. new \subseteq {[epoch |-> e, seq |-> s, kind |-> kind]}
    OBVIOUS
  <1> HIDE DEF new
  <1>3. IsFiniteSet(new)
    BY SMTT(30), <1>2, FS_Singleton, FS_Subset
  <1> QED BY <1>1, <1>3, FS_Union

(***************************************************************************)
(* With more sent and more opened, as many warnings are there as before.   *)
(***************************************************************************)
LEMMA WarningsGrow ==
    ASSUME net \subseteq net', IsFiniteSet(net'), accepted \subseteq accepted'
    PROVE  /\ IsFiniteSet(Opened') /\ IsFiniteSet(Sent({"warning"})')
           /\ Cardinality(Opened) <= Cardinality(Opened')
           /\ Cardinality(Opened') <= Cardinality(Sent({"warning"})')
           /\ Cardinality(Sent({"warning"})) <= Cardinality(Sent({"warning"})')
           /\ Cardinality(Opened) \in Nat /\ Cardinality(Opened') \in Nat
           /\ Cardinality(Sent({"warning"})) \in Nat /\ Cardinality(Sent({"warning"})') \in Nat
  <1>1. /\ Opened \subseteq Opened' /\ Opened' \subseteq Sent({"warning"})'
        /\ Sent({"warning"}) \subseteq Sent({"warning"})' /\ Sent({"warning"})' \subseteq net'
    BY DEF Opened, Sent
  <1>2. IsFiniteSet(Sent({"warning"})')
    BY <1>1, FS_Subset
  <1>3. IsFiniteSet(Opened') /\ IsFiniteSet(Opened) /\ IsFiniteSet(Sent({"warning"}))
    BY <1>1, <1>2, FS_Subset
  <1> QED BY <1>1, <1>2, <1>3, FS_Subset, FS_CardinalityType

(***************************************************************************)
(* Reading goes on unless the peer or the application ended it, for every  *)
(* window and every limit of warnings: a warning is counted once because   *)
(* the window lets it through once.                                        *)
(***************************************************************************)
THEOREM ReadingEndsForCause == Spec => []ReadEndsForCause
  <1> USE WarningAssumption
  <1>1. Init => EndInv
    BY FS_EmptySet DEF Init, EndInv, ReadEndsForCause, Opened, Sent
  <1>2. TypeOK /\ WindowInv /\ WindowInv' /\ EndInv /\ [Next]_vars => EndInv'
    <2> SUFFICES ASSUME TypeOK, WindowInv, WindowInv', EndInv, [Next]_vars PROVE EndInv'
      OBVIOUS
    <2>0. warning_alert_count \in Nat /\ IsFiniteSet(net)
      BY DEF TypeOK, EndInv
    <2>1. ASSUME net \subseteq net', IsFiniteSet(net'), accepted \subseteq accepted',
                 warning_alert_count' \in {0, warning_alert_count}, closed => closed',
                 \/ read_shutdown' = read_shutdown
                 \/ read_shutdown' = "none"
                 \/ read_shutdown' = "close_notify" /\ closed'
          PROVE  EndInv'
      <3>1. /\ Cardinality(Opened) <= Cardinality(Opened')
            /\ Cardinality(Sent({"warning"})) <= Cardinality(Sent({"warning"})')
            /\ Cardinality(Opened) \in Nat /\ Cardinality(Opened') \in Nat
            /\ Cardinality(Sent({"warning"})) \in Nat /\ Cardinality(Sent({"warning"})') \in Nat
        BY <2>1, WarningsGrow
      <3>2. warning_alert_count' <= Cardinality(Opened')
        BY <2>0, <2>1, <3>1 DEF EndInv
      <3>3. /\ Sent({"fatal", "bad_alert", "too_long"}) # {} => Sent({"fatal", "bad_alert", "too_long"})' # {}
            /\ Sent({"close_notify"}) # {} => Sent({"close_notify"})' # {}
        BY <2>1 DEF Sent
      <3>4. ReadEndsForCause'
        BY <2>1, <3>1, <3>3 DEF EndInv, ReadEndsForCause
      <3> QED BY <2>1, <3>2, <3>4 DEF EndInv
    <2>2. ASSUME NEW kind \in Kinds, dtls_seal_record_current(kind) PROVE EndInv'
      BY <2>0, <2>1, <2>2, SealGrows DEF dtls_seal_record_current, reader, window, ending
    <2>3. ASSUME NEW kind \in Kinds, dtls_seal_record_previous(kind) PROVE EndInv'
      BY <2>0, <2>1, <2>3, SealGrows DEF dtls_seal_record_previous, reader, window, ending
    <2>4. CASE dtls1_set_write_state \/ dtls1_set_read_state
      BY <2>0, <2>1, <2>4
      DEF dtls1_set_write_state, dtls1_set_read_state, reader, window, ending, writer
    <2>5. ASSUME NEW r \in net, dtls_open_record_data(r) PROVE EndInv'
      BY <2>0, <2>1, <2>5 DEF dtls_open_record_data, dtls1_bitmap_record, ending, writer
    <2>6. ASSUME NEW r \in net, dtls_open_record_alert(r) PROVE EndInv'
      <3> DEFINE n == Num(r.epoch, r.seq)
      <3>1. /\ net' = net /\ accepted' = accepted \cup {n} /\ closed' = closed
            /\ replayed' = replayed \cup (accepted \cap {n})
        BY <2>6 DEF dtls_open_record_alert, dtls1_bitmap_record, writer
      <3>2. n \notin accepted
        BY <3>1 DEF WindowInv
      <3> HIDE DEF n
      <3>3. /\ Cardinality(Opened) <= Cardinality(Opened')
            /\ Cardinality(Opened') <= Cardinality(Sent({"warning"})')
            /\ Cardinality(Opened) \in Nat /\ Cardinality(Opened') \in Nat
            /\ Cardinality(Sent({"warning"})') \in Nat
            /\ IsFiniteSet(Opened')
        BY <2>0, <3>1, WarningsGrow
      <3>4. CASE r.kind = "warning"
        <4>1. r \notin Opened /\ Opened \cup {r} \subseteq Opened'
          BY <3>1, <3>2, <3>4 DEF Opened, Sent, n
        <4>2. IsFiniteSet(Opened)
          BY <3>3, <4>1, FS_Subset
        <4>3. /\ Cardinality(Opened \cup {r}) = Cardinality(Opened) + 1
              /\ Cardinality(Opened \cup {r}) <= Cardinality(Opened')
          BY <3>3, <4>1, <4>2, FS_AddElement, FS_Subset
        <4>4. /\ warning_alert_count' = warning_alert_count + 1
              /\ read_shutdown' = "error" => warning_alert_count + 1 > kMaxWarningAlerts
              /\ read_shutdown' # "close_notify"
          BY <2>6, <3>4 DEF dtls_open_record_alert, Current, ssl_process_alert, Refuse
        <4>5. warning_alert_count' <= Cardinality(Opened')
          BY <2>0, <3>3, <4>3, <4>4 DEF EndInv
        <4>6. ReadEndsForCause'
          BY <2>0, <3>3, <4>4, <4>5 DEF ReadEndsForCause
        <4> QED BY <2>0, <3>1, <4>5, <4>6 DEF EndInv
      <3>5. CASE r.kind # "warning"
        <4>1. /\ warning_alert_count' = warning_alert_count
              /\ \/ read_shutdown' = "close_notify" /\ r.kind = "close_notify"
                 \/ read_shutdown' = "error" /\ r.kind \in {"fatal", "bad_alert", "too_long"}
          BY <2>6, <3>5 DEF dtls_open_record_alert, ssl_process_alert, Refuse
        <4>2. r \in Sent({r.kind})' /\ (r.kind \in {"fatal", "bad_alert", "too_long"} =>
                                          r \in Sent({"fatal", "bad_alert", "too_long"})')
          BY <3>1 DEF Sent
        <4>3. ReadEndsForCause'
          BY <4>1, <4>2 DEF ReadEndsForCause
        <4> QED BY <2>0, <3>1, <3>3, <4>1, <4>3 DEF EndInv
      <3> QED BY <3>4, <3>5
    <2>7. ASSUME NEW r \in net, dtls_open_record_too_long(r) PROVE EndInv'
      <3>1. /\ UNCHANGED <<net, accepted, warning_alert_count>>
            /\ read_shutdown' = "error" /\ r.kind = "too_long"
        BY <2>7 DEF dtls_open_record_too_long, Refuse, writer, window
      <3>2. r \in Sent({"fatal", "bad_alert", "too_long"})' /\ Opened' = Opened
        BY <3>1 DEF Sent, Opened
      <3> QED BY <3>1, <3>2 DEF EndInv, ReadEndsForCause
    <2>8. CASE SSL_shutdown_quiet \/ SSL_shutdown \/ SSL_set_shutdown
      BY <2>0, <2>1, <2>8
      DEF SSL_shutdown_quiet, SSL_shutdown, SSL_set_shutdown, window, writer
    <2>9. CASE UNCHANGED vars
      BY <2>0, <2>1, <2>9 DEF vars, writer, reader, window, ending
    <2> QED
      BY <2>2, <2>3, <2>4, <2>5, <2>6, <2>7, <2>8, <2>9 DEF Next, dtls_open_record_damaged
  <1>3. EndInv => ReadEndsForCause
    BY DEF EndInv
  <1> QED BY <1>1, <1>2, <1>3, TypeCorrect, WindowCorrect, PTL DEF Spec

-----------------------------------------------------------------------------
(***************************************************************************)
(* The retransmission timer, for every set of clock readings and           *)
(* durations: the deadline is exact, the application that sleeps as told   *)
(* wakes up to an expired timer, and no flight is repeated early.          *)
(***************************************************************************)
\* The numbers of d1_lib.cc.
LEMMA Numbers ==
    /\ Second = 1000 * 1000 /\ Slack = 15 * 1000
    /\ Second \in Nat /\ Slack \in Nat /\ MaxTimeout \in Nat /\ MaxInitial \in Nat
BY DEF Second, Slack, MaxTimeout, MaxInitial

\* What a normalised time is made of, and what makes one.
LEMMA Parts ==
    ASSUME NEW t \in Timeval
    PROVE  t.sec \in Nat /\ t.usec \in Nat /\ t.usec < Second
<1>1. MaxUsec \in Nat
  BY Numbers DEF MaxUsec
<1>2. t.sec \in Nat /\ t.usec \in Nat /\ t.usec <= MaxUsec
  BY <1>1 DEF Timeval
<1> QED
  BY <1>2, Numbers DEF MaxUsec

\* The converse: parts in these ranges make an instant.
LEMMA Whole ==
    ASSUME NEW s \in Nat, NEW u \in Nat, u < Second
    PROVE  [sec |-> s, usec |-> u] \in Timeval
<1>1. MaxUsec \in Nat /\ u <= MaxUsec
  BY Numbers DEF MaxUsec
<1> QED
  BY <1>1 DEF Timeval

\* Lengths of time in microseconds are natural numbers.
LEMMA UsNat ==
    ASSUME NEW t \in Timeval
    PROVE  Us(t) \in Nat
BY Parts, Numbers DEF Us

\* {0, 0} is zero microseconds.
LEMMA UsZero == Us(Zero) = 0 /\ Zero \in Timeval
<1>1. Zero \in Timeval
  BY Whole, Numbers DEF Zero
<1> QED
  BY <1>1, Numbers DEF Us, Zero

\* dtls1_start_timer's addition is exact and its result normalised.
LEMMA AddMs ==
    ASSUME NEW t \in Timeval, NEW ms \in Nat
    PROVE  /\ add_ms(t, ms) \in Timeval
           /\ Us(add_ms(t, ms)) = Us(t) + ms * 1000
<1> DEFINE q == ms \div 1000
           r == ms % 1000
<1>1. q \in Nat /\ r \in 0 .. 999 /\ ms = q * 1000 + r
  OBVIOUS
<1>2. t.sec \in Nat /\ t.usec \in Nat /\ t.usec < Second
  BY Parts
<1> HIDE DEF q, r
<1>3. CASE t.usec + r * 1000 >= Second
  <2>1. add_ms(t, ms) = [sec |-> t.sec + q + 1, usec |-> t.usec + r * 1000 - Second]
    BY <1>1, <1>2, <1>3, Numbers DEF add_ms, q, r
  <2>2. Us(add_ms(t, ms)) = (t.sec + q + 1) * Second + (t.usec + r * 1000 - Second)
    BY <2>1 DEF Us
  <2>3. t.sec + q + 1 \in Nat /\ t.usec + r * 1000 - Second \in Nat /\ t.usec + r * 1000 - Second < Second
    BY <1>1, <1>2, <1>3, Numbers
  <2>4. add_ms(t, ms) \in Timeval
    BY <2>1, <2>3, Whole
  <2> QED
    BY <1>1, <1>2, <2>2, <2>4, Numbers DEF Us
<1>4. CASE ~(t.usec + r * 1000 >= Second)
  <2>1. add_ms(t, ms) = [sec |-> t.sec + q, usec |-> t.usec + r * 1000]
    BY <1>1, <1>2, <1>4, Numbers DEF add_ms, q, r
  <2>2. Us(add_ms(t, ms)) = (t.sec + q) * Second + (t.usec + r * 1000)
    BY <2>1 DEF Us
  <2>3. t.sec + q \in Nat /\ t.usec + r * 1000 \in Nat /\ t.usec + r * 1000 < Second
    BY <1>1, <1>2, <1>4, Numbers
  <2>4. add_ms(t, ms) \in Timeval
    BY <2>1, <2>3, Whole
  <2> QED
    BY <1>1, <1>2, <2>2, <2>4, Numbers DEF Us
<1> QED
  BY <1>3, <1>4

\* DTLSv1_get_timeout's subtraction: the time left is the difference, or
\* nothing if the difference is below 15 ms.
LEMMA TimeLeft ==
    ASSUME NEW next \in Timeval, NEW t \in Timeval
    PROVE  LET left == time_left(next, t)
           IN  /\ left \in Timeval
               /\ Us(next) - Us(t) < Slack => left = Zero
               /\ Us(next) - Us(t) >= Slack => Us(left) = Us(next) - Us(t)
<1>1. /\ next.sec \in Nat /\ next.usec \in Nat /\ next.usec < Second
      /\ t.sec \in Nat /\ t.usec \in Nat /\ t.usec < Second
  BY Parts
<1>2. Us(next) \in Nat /\ Us(t) \in Nat
  BY UsNat
<1>3. not_after(next, t) <=> Us(next) <= Us(t)
  BY <1>1, Numbers DEF not_after, Us
<1>4. CASE not_after(next, t)
  <2>1. time_left(next, t) = Zero
    BY <1>4 DEF time_left
  <2>2. ~(Us(next) - Us(t) >= Slack)
    BY <1>2, <1>3, <1>4, Numbers
  <2> QED
    BY <2>1, <2>2, UsZero
<1>5. CASE ~not_after(next, t)
  <2> DEFINE ret == difference(next, t)
  <2>1. ret \in Timeval /\ Us(ret) = Us(next) - Us(t)
    <3>1. next.sec >= t.sec /\ (next.sec = t.sec => next.usec > t.usec)
      BY <1>1, <1>5, Numbers DEF not_after
    <3>2. CASE next.usec >= t.usec
      <4>1. ret = [sec |-> next.sec - t.sec, usec |-> next.usec - t.usec]
        BY <3>2 DEF difference
      <4>2. next.sec - t.sec \in Nat /\ next.usec - t.usec \in Nat /\ next.usec - t.usec < Second
        BY <1>1, <3>1, <3>2, Numbers
      <4>3. Us(ret) = (next.sec - t.sec) * Second + (next.usec - t.usec)
        BY <4>1 DEF Us
      <4>4. ret \in Timeval
        BY <4>1, <4>2, Whole
      <4> QED
        BY <1>1, <4>3, <4>4, Numbers DEF Us
    <3>3. CASE ~(next.usec >= t.usec)
      <4>1. ret = [sec |-> next.sec - t.sec - 1, usec |-> Second + next.usec - t.usec]
        BY <3>3 DEF difference
      <4>2. /\ next.sec - t.sec - 1 \in Nat
            /\ Second + next.usec - t.usec \in Nat /\ Second + next.usec - t.usec < Second
        BY <1>1, <3>1, <3>3, Numbers
      <4>3. Us(ret) = (next.sec - t.sec - 1) * Second + (Second + next.usec - t.usec)
        BY <4>1 DEF Us
      <4>4. ret \in Timeval
        BY <4>1, <4>2, Whole
      <4> QED
        BY <1>1, <4>3, <4>4, Numbers DEF Us
    <3> QED
      BY <3>2, <3>3
  <2>2. time_left(next, t) = IF ret.sec = 0 /\ ret.usec < Slack THEN Zero ELSE ret
    BY <1>5 DEF time_left
  <2> HIDE DEF ret
  <2>3. ret.sec \in Nat /\ ret.usec \in Nat
    BY <2>1, Parts
  <2>4. (ret.sec = 0 /\ ret.usec < Slack) <=> Us(ret) < Slack
    BY <2>3, Numbers DEF Us
  <2>5. (Us(next) - Us(t) < Slack) <=> ~(Us(next) - Us(t) >= Slack)
    BY <1>2, Numbers
  <2> QED
    BY <2>1, <2>2, <2>4, <2>5, UsZero
<1> QED
  BY <1>4, <1>5

\* The clock always shows a proper time.
LEMMA NowIsTime ==
    ASSUME TimerTypeOK
    PROVE  now \in Timeval /\ now.sec > 0
BY TimesAssumption DEF TimerTypeOK

\* The timer counts as expired from 15 ms before its deadline on.
LEMMA Expired ==
    ASSUME TimerTypeOK
    PROVE  dtls1_is_timer_expired
             <=> next_timeout # Zero /\ Us(next_timeout) - Us(now) < Slack
<1> DEFINE left == time_left(next_timeout, now)
<1>1. now \in Timeval /\ next_timeout \in Timeval
  BY NowIsTime DEF TimerTypeOK
<1>2. /\ left \in Timeval
      /\ Us(next_timeout) - Us(now) < Slack => left = Zero
      /\ Us(next_timeout) - Us(now) >= Slack => Us(left) = Us(next_timeout) - Us(now)
  BY <1>1, TimeLeft
<1>3. dtls1_is_timer_expired <=> next_timeout # Zero /\ ~(left.sec > 0 \/ left.usec > 0)
  BY DEF dtls1_is_timer_expired
<1> HIDE DEF left
<1>4. left.sec \in Nat /\ left.usec \in Nat /\ Us(left) = left.sec * Second + left.usec
  BY <1>2, Parts DEF Us
<1>5. Us(next_timeout) \in Nat /\ Us(now) \in Nat
  BY <1>1, UsNat
<1>6. CASE Us(next_timeout) - Us(now) < Slack
  <2>1. left.sec = 0 /\ left.usec = 0
    BY <1>2, <1>6 DEF Zero
  <2> QED
    BY <1>3, <1>6, <2>1
<1>7. CASE Us(next_timeout) - Us(now) >= Slack
  <2>1. Us(left) > 0
    BY <1>2, <1>5, <1>7, Numbers
  <2>2. left.sec > 0 \/ left.usec > 0
    BY <1>4, <2>1, Numbers
  <2>3. ~(Us(next_timeout) - Us(now) < Slack)
    BY <1>5, <1>7, Numbers
  <2> QED
    BY <1>3, <2>2, <2>3
<1> QED
  BY <1>5, <1>6, <1>7, Numbers

\* When the application was told to sleep until `wake', the deadline is no
\* more than 15 ms after that.
SleepCovers ==
    wake # -1 => next_timeout # Zero /\ Us(next_timeout) - wake < Slack

TimerInv == TimerTypeOK /\ DeadlineExact /\ SleepCovers

\* The initial state satisfies the invariant.
LEMMA InitTimer ==
    ASSUME TimerInit
    PROVE  TimerInv
<1>1. TimerTypeOK
  BY UsZero DEF TimerInit, TimerTypeOK
<1> QED
  BY <1>1 DEF TimerInit, TimerInv, DeadlineExact, SleepCovers

\* Starting the timer, from whatever state, makes its deadline exact.
LEMMA StartTimer ==
    ASSUME TimerTypeOK, NEW d \in Nat, start_timer(d)
    PROVE  TimerInv'
<1> DEFINE ms == IF next_timeout = Zero THEN initial_timeout_duration_ms ELSE d
<1>1. ms \in Nat
  BY DEF TimerTypeOK
<1>2. now \in Timeval /\ Us(now) \in Nat
  BY NowIsTime, UsNat
<1>3. /\ timeout_duration_ms' = ms /\ next_timeout' = add_ms(now, ms)
      /\ started' = Us(now) /\ wake' = -1 /\ shift' = 0
      /\ now' = now /\ initial_timeout_duration_ms' = initial_timeout_duration_ms
  BY DEF start_timer
<1> HIDE DEF ms
<1>4. next_timeout' \in Timeval /\ Us(next_timeout') = started' + timeout_duration_ms' * 1000
  BY <1>1, <1>2, <1>3, AddMs
<1>5. TimerTypeOK'
  BY <1>1, <1>2, <1>3, <1>4 DEF TimerTypeOK
<1>6. DeadlineExact'
  BY <1>4 DEF DeadlineExact, Us
<1>7. SleepCovers'
  BY <1>3 DEF SleepCovers
<1> QED
  BY <1>5, <1>6, <1>7 DEF TimerInv

\* Every step keeps the invariant.
LEMMA StepTimer ==
    ASSUME TimerInv, [TimerNext]_timer_vars
    PROVE  TimerInv'
<1> USE DEF TimerInv
<1>1. CASE dtls1_start_timer
  <2>1. timeout_duration_ms \in Nat
    BY DEF TimerTypeOK
  <2> QED
    BY <1>1, <2>1, StartTimer DEF dtls1_start_timer
<1>2. CASE dtls1_stop_timer
  <2>1. /\ next_timeout' = Zero /\ timeout_duration_ms' = initial_timeout_duration_ms
        /\ wake' = -1 /\ shift' = 0 /\ now' = now /\ started' = started
        /\ initial_timeout_duration_ms' = initial_timeout_duration_ms
    BY <1>2 DEF dtls1_stop_timer
  <2>2. TimerTypeOK'
    BY <2>1, UsZero DEF TimerTypeOK
  <2>3. DeadlineExact' /\ SleepCovers'
    BY <2>1 DEF DeadlineExact, SleepCovers, Zero
  <2> QED
    BY <2>2, <2>3
<1>3. CASE DTLSv1_get_timeout
  <2> DEFINE left == time_left(next_timeout, now)
  <2>1. now \in Timeval /\ next_timeout \in Timeval
    BY NowIsTime DEF TimerTypeOK
  <2>2. /\ left \in Timeval
        /\ Us(next_timeout) - Us(now) < Slack => left = Zero
        /\ Us(next_timeout) - Us(now) >= Slack => Us(left) = Us(next_timeout) - Us(now)
    BY <2>1, TimeLeft
  <2>3. /\ wake' = Us(now) + Us(left) /\ shift' = 0 /\ next_timeout # Zero
        /\ now' = now /\ next_timeout' = next_timeout /\ started' = started
        /\ timeout_duration_ms' = timeout_duration_ms
        /\ initial_timeout_duration_ms' = initial_timeout_duration_ms
    BY <1>3 DEF DTLSv1_get_timeout
  <2> HIDE DEF left
  <2>4. Us(now) \in Nat /\ Us(left) \in Nat /\ Us(next_timeout) \in Nat
    BY <2>1, <2>2, UsNat
  <2>5. Us(next_timeout) - wake' < Slack
    <3>1. CASE Us(next_timeout) - Us(now) < Slack
      BY <2>2, <2>3, <2>4, <3>1, UsZero
    <3>2. CASE Us(next_timeout) - Us(now) >= Slack
      BY <2>2, <2>3, <2>4, <3>2, Numbers
    <3> QED
      BY <2>4, <3>1, <3>2, Numbers
  <2>6. TimerTypeOK'
    BY <2>3, <2>4 DEF TimerTypeOK
  <2>7. DeadlineExact'
    BY <2>3 DEF DeadlineExact
  <2>8. SleepCovers'
    BY <2>3, <2>5 DEF SleepCovers
  <2> QED
    BY <2>6, <2>7, <2>8
<1>4. CASE DTLSv1_handle_timeout
  <2>1. double_timeout(timeout_duration_ms) \in Nat
    BY Numbers DEF double_timeout, TimerTypeOK
  <2> QED
    BY <1>4, <2>1, StartTimer DEF DTLSv1_handle_timeout
<1>5. CASE DTLSv1_set_initial_timeout_duration
  <2>1. initial_timeout_duration_ms' \in Nat
    BY <1>5, DurationsAssumption, Numbers DEF DTLSv1_set_initial_timeout_duration
  <2> QED
    BY <1>5, <2>1 DEF DTLSv1_set_initial_timeout_duration, TimerTypeOK, DeadlineExact, SleepCovers
<1>6. CASE Elapse
  BY <1>6 DEF Elapse, TimerTypeOK, DeadlineExact, SleepCovers
<1>7. CASE SetClock
  <2>1. shift' \in Int
    BY <1>7, ShiftsAssumption DEF SetClock
  <2> QED
    BY <1>7, <2>1 DEF SetClock, TimerTypeOK, DeadlineExact, SleepCovers
<1>8. CASE UNCHANGED timer_vars
  BY <1>8 DEF timer_vars, TimerTypeOK, DeadlineExact, SleepCovers
<1> QED
  BY <1>1, <1>2, <1>3, <1>4, <1>5, <1>6, <1>7, <1>8 DEF TimerNext

\* While a timer runs its deadline is its start plus its duration, for every
\* duration and every reading of the clock (dtls1_start_timer).
THEOREM DeadlineCorrect == TimerSpec => []DeadlineExact
<1>1. TimerInit => TimerInv
  BY InitTimer
<1>2. TimerInv /\ [TimerNext]_timer_vars => TimerInv'
  BY StepTimer
<1>3. TimerInv => DeadlineExact
  BY DEF TimerInv
<1> QED
  BY <1>1, <1>2, <1>3, PTL DEF TimerSpec

\* Whoever sleeps for as long as DTLSv1_get_timeout says wakes up to an expired
\* timer, or, if the clock was set back meanwhile, has to sleep for no longer
\* than it was set back and 15 ms.
THEOREM SleepIsEnough == TimerSpec => []WakesExpired
<1>1. ASSUME TimerInv PROVE WakesExpired
  <2> SUFFICES ASSUME wake # -1, Us(now) - shift >= wake
               PROVE  IF shift >= 0 THEN dtls1_is_timer_expired
                      ELSE next_timeout # Zero /\ Us(time_left(next_timeout, now)) < Slack - shift
    BY DEF WakesExpired
  <2>1. TimerTypeOK /\ next_timeout # Zero /\ Us(next_timeout) - wake < Slack
    BY <1>1 DEF TimerInv, SleepCovers
  <2>2. now \in Timeval /\ next_timeout \in Timeval /\ wake \in Int /\ shift \in Int
    BY <2>1, NowIsTime DEF TimerTypeOK
  <2>3. Us(now) \in Nat /\ Us(next_timeout) \in Nat
    BY <2>2, UsNat
  <2>4. Us(next_timeout) - Us(now) < Slack - shift
    BY <2>1, <2>2, <2>3, Numbers
  <2>5. CASE shift >= 0
    <3>1. Us(next_timeout) - Us(now) < Slack
      BY <2>2, <2>3, <2>4, <2>5, Numbers
    <3> QED
      BY <2>1, <2>5, <3>1, Expired
  <2>6. CASE ~(shift >= 0)
    <3> DEFINE left == time_left(next_timeout, now)
    <3>1. /\ Us(next_timeout) - Us(now) < Slack => left = Zero
          /\ Us(next_timeout) - Us(now) >= Slack => Us(left) = Us(next_timeout) - Us(now)
      BY <2>2, TimeLeft
    <3> HIDE DEF left
    <3>2. CASE Us(next_timeout) - Us(now) < Slack
      <4>1. Us(left) = 0
        BY <3>1, <3>2, UsZero
      <4>2. Us(left) < Slack - shift
        BY <2>2, <2>6, <4>1, Numbers
      <4> QED
        BY <2>1, <2>6, <4>2 DEF left
    <3>3. CASE Us(next_timeout) - Us(now) >= Slack
      <4>1. Us(left) < Slack - shift
        BY <2>4, <3>1, <3>3
      <4> QED
        BY <2>1, <2>6, <4>1 DEF left
    <3> QED
      BY <2>3, <3>2, <3>3, Numbers
  <2> QED
    BY <2>5, <2>6
<1>2. TimerInit => TimerInv
  BY InitTimer
<1>3. TimerInv /\ [TimerNext]_timer_vars => TimerInv'
  BY StepTimer
<1> QED
  BY <1>1, <1>2, <1>3, PTL DEF TimerSpec

\* No flight is repeated more than 15 ms before its deadline.
THEOREM RetransmitsInTime == TimerSpec => NeverEarly
<1> DEFINE InTime == Us(now) + Slack > started + timeout_duration_ms * 1000
<1>1. ASSUME TimerInv, DTLSv1_handle_timeout PROVE InTime
  <2>1. TimerTypeOK /\ next_timeout # Zero /\ Us(next_timeout) - Us(now) < Slack
    BY <1>1, Expired DEF DTLSv1_handle_timeout, TimerInv
  <2>2. Us(next_timeout) = started + timeout_duration_ms * 1000
    BY <1>1, <2>1 DEF TimerInv, DeadlineExact
  <2>3. now \in Timeval /\ next_timeout \in Timeval
    BY <2>1, NowIsTime DEF TimerTypeOK
  <2>4. Us(now) \in Nat /\ Us(next_timeout) \in Nat
    BY <2>3, UsNat
  <2> QED
    BY <2>1, <2>2, <2>4, Numbers
<1>2. TimerInv /\ [TimerNext]_timer_vars => [DTLSv1_handle_timeout => InTime]_timer_vars
  BY <1>1
<1>3. TimerInit => TimerInv
  BY InitTimer
<1>4. TimerInv /\ [TimerNext]_timer_vars => TimerInv'
  BY StepTimer
<1> QED
  BY <1>2, <1>3, <1>4, PTL DEF TimerSpec, NeverEarly
=============================================================================
