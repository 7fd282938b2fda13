----------------------------- MODULE DtlsRecord -----------------------------
(***************************************************************************)
(* The DTLS record layer (ssl/dtls_record.cc) of one direction of a        *)
(* connection: the sender seals records under its current or its previous  *)
(* epoch, the datagram network loses, duplicates, reorders and damages     *)
(* them, and the receiver opens what arrives behind its epoch check and    *)
(* its sliding replay window.  The epoch changes are those of              *)
(* ssl/dtls_method.cc; the sticky read errors, SSL_shutdown and            *)
(* SSL_set_shutdown of the receiver are those of ssl/ssl_lib.cc.           *)
(*                                                                         *)
(* The eight header bytes epoch (2) and sequence number (6) are one 64-bit *)
(* number for the window, here Num(e, s) = e * SeqLimit + s.               *)
(***************************************************************************)
EXTENDS Integers, FiniteSets

CONSTANTS
    kWindowSize,        \* bits of DTLS1_BITMAP.map (64)
    SeqLimit,           \* sequence numbers per epoch (2^48)
    EpochLimit,         \* epochs of a connection (DTLS does not renegotiate: 2)
    Kinds,              \* kinds of record the peer sends
    kMaxWarningAlerts   \* consecutive warning alerts tolerated (4)

AllKinds == {"data", "warning", "close_notify", "fatal", "bad_alert", "too_long"}

ASSUME WindowAssumption == kWindowSize \in Nat \ {0}
ASSUME SeqAssumption == SeqLimit \in Nat \ {0}
ASSUME EpochAssumption == EpochLimit \in Nat \ {0}
ASSUME KindsAssumption == Kinds \subseteq AllKinds
ASSUME WarningAssumption == kMaxWarningAlerts \in Nat

VARIABLES
    w_epoch,                \* d1->w_epoch
    write_sequence,         \* s3->write_sequence, its low 6 bytes
    last_write_sequence,    \* d1->last_write_sequence, its low 6 bytes
    wrapped,                \* history: epochs whose sequence number overflowed
    sealed,                 \* history: numbers given to aead->Seal
    resealed,               \* history: numbers given to aead->Seal again
    net,                    \* every record handed to the transport
    r_epoch,                \* d1->r_epoch
    bitmap,                 \* d1->bitmap: map and max_seq_num
    read_shutdown,          \* s3->read_shutdown
    write_shutdown,         \* s3->write_shutdown of the receiver
    alert_dispatch,         \* s3->alert_dispatch of the receiver
    closed,                 \* history: the receiver's application asked for a shutdown
    warning_alert_count,    \* s3->warning_alert_count
    accepted,               \* history: numbers recorded in the window
    replayed                \* history: numbers recorded in it a second time

writer == <<w_epoch, write_sequence, last_write_sequence, wrapped, sealed, resealed, net>>
window == <<bitmap, accepted, replayed>>
ending == <<read_shutdown, write_shutdown, alert_dispatch, closed>>
reader == <<r_epoch, window, ending, warning_alert_count>>
vars == <<writer, reader>>

Seqs == 0 .. SeqLimit - 1
Epochs == 0 .. EpochLimit - 1
Num(e, s) == e * SeqLimit + s
InEpoch(n, e) == /\ e * SeqLimit <= n
                 /\ n < e * SeqLimit + SeqLimit
Nums == 0 .. EpochLimit * SeqLimit - 1
Records == [epoch : Epochs, seq : Seqs, kind : Kinds]
ZeroBitmap == [map |-> {}, max_seq_num |-> 0]

(***************************************************************************)
(* The replay window.  Bit i of the map stands for max_seq_num - i.        *)
(***************************************************************************)
bitmap_should_discard(b, n) ==
    /\ n <= b.max_seq_num
    /\ \/ b.max_seq_num - n >= kWindowSize
       \/ b.max_seq_num - n \in b.map

\* Bits shifted past the top of the 64-bit map are gone.
Shifted(map, shift) == {i \in 0 .. kWindowSize - 1 : i - shift \in map}

\* Mutated form: the window slides but its bits stay where they were.
bitmap_record_NoShift(b, n) ==
    [max_seq_num |-> IF n > b.max_seq_num THEN n ELSE b.max_seq_num,
     map |-> b.map \cup {i \in 0 .. kWindowSize - 1 :
                            i = (IF n > b.max_seq_num THEN n ELSE b.max_seq_num) - n}]

bitmap_record(b, n) ==
    LET top == IF n > b.max_seq_num THEN n ELSE b.max_seq_num
    IN  [max_seq_num |-> top,
         map |-> Shifted(b.map, top - b.max_seq_num)
                    \cup {i \in 0 .. kWindowSize - 1 : i = top - n}]

-----------------------------------------------------------------------------
Init ==
    /\ w_epoch = 0
    /\ write_sequence = 0
    /\ last_write_sequence = 0
    /\ wrapped = {}
    /\ sealed = {}
    /\ resealed = {}
    /\ net = {}
    /\ r_epoch = 0
    /\ bitmap = ZeroBitmap
    /\ read_shutdown = "none"
    /\ write_shutdown = "none"
    /\ alert_dispatch = FALSE
    /\ closed = FALSE
    /\ warning_alert_count = 0
    /\ accepted = {}
    /\ replayed = {}

(***************************************************************************)
(* dtls_seal_record.  The number is given to the AEAD, then incremented;   *)
(* when the increment wraps the call fails, the record is not sent and the *)
(* sequence number is left at zero.                                        *)
(***************************************************************************)
Seal(e, s, kind) ==
    /\ sealed' = sealed \cup {Num(e, s)}
    /\ resealed' = resealed \cup (sealed \cap {Num(e, s)})
    /\ wrapped' = wrapped \cup {x \in {e} : s + 1 = SeqLimit}
    /\ net' = net \cup {r \in {[epoch |-> e, seq |-> s, kind |-> kind]} :
                            s + 1 # SeqLimit}

dtls_seal_record_current(kind) ==
    /\ Seal(w_epoch, write_sequence, kind)
    /\ write_sequence' = (write_sequence + 1) % SeqLimit
    /\ UNCHANGED <<w_epoch, last_write_sequence, reader>>

\* The previous epoch's sequence number continues where the epoch was left.
dtls_seal_record_previous(kind) ==
    /\ w_epoch >= 1
    /\ Seal(w_epoch - 1, last_write_sequence, kind)
    /\ last_write_sequence' = (last_write_sequence + 1) % SeqLimit
    /\ UNCHANGED <<w_epoch, write_sequence, reader>>

\* Mutated form: the previous epoch's sequence number restarts at zero.
dtls1_set_write_state_NoSave ==
    /\ w_epoch + 1 < EpochLimit
    /\ w_epoch' = w_epoch + 1
    /\ last_write_sequence' = 0
    /\ write_sequence' = 0
    /\ UNCHANGED <<wrapped, sealed, resealed, net, reader>>

dtls1_set_write_state ==
    /\ w_epoch + 1 < EpochLimit
    /\ w_epoch' = w_epoch + 1
    /\ last_write_sequence' = write_sequence
    /\ write_sequence' = 0
    /\ UNCHANGED <<wrapped, sealed, resealed, net, reader>>

\* The receiver follows once it has the peer's ChangeCipherSpec, which is only
\* written out after the peer changed its own write state.
dtls1_set_read_state ==
    /\ r_epoch < w_epoch
    /\ r_epoch' = r_epoch + 1
    /\ bitmap' = ZeroBitmap
    /\ UNCHANGED <<writer, ending, warning_alert_count, accepted, replayed>>

(***************************************************************************)
(* dtls_open_record behind ssl_open_app_data/ssl_open_handshake: nothing   *)
(* is opened after an error (sticky) or a close_notify.                    *)
(***************************************************************************)
dtls1_bitmap_record(n) ==
    /\ bitmap' = bitmap_record(bitmap, n)
    /\ accepted' = accepted \cup {n}
    /\ replayed' = replayed \cup (accepted \cap {n})

\* An alert of the receiver's own.  It goes out at once, or stays to be
\* dispatched; none follows a closing one.
ssl_send_alert(how) ==
    IF write_shutdown = "none"
    THEN write_shutdown' = how /\ alert_dispatch' \in BOOLEAN
    ELSE UNCHANGED <<write_shutdown, alert_dispatch>>

\* ssl_set_read_error, and the fatal alert ssl_handle_open_record sends.
Refuse == read_shutdown' = "error" /\ ssl_send_alert("error")

\* A fatal alert is not answered with another.
ssl_process_alert(kind) ==
    CASE kind = "close_notify" ->
            /\ read_shutdown' = "close_notify"
            /\ UNCHANGED <<write_shutdown, alert_dispatch, warning_alert_count>>
      [] kind = "fatal" ->
            /\ read_shutdown' = "error"
            /\ UNCHANGED <<write_shutdown, alert_dispatch, warning_alert_count>>
      [] kind = "bad_alert" ->
            /\ Refuse
            /\ UNCHANGED warning_alert_count
      [] kind = "warning" ->
            /\ warning_alert_count' = warning_alert_count + 1
            /\ IF warning_alert_count + 1 > kMaxWarningAlerts THEN Refuse
               ELSE UNCHANGED <<read_shutdown, write_shutdown, alert_dispatch>>

\* The record is read at all, and passes the epoch and the replay check.
Current(r) ==
    /\ read_shutdown = "none"
    /\ r.epoch = r_epoch
    /\ ~ bitmap_should_discard(bitmap, Num(r.epoch, r.seq))

dtls_open_record_data(r) ==
    /\ r \in net
    /\ Current(r)
    /\ r.kind = "data"
    /\ dtls1_bitmap_record(Num(r.epoch, r.seq))
    /\ warning_alert_count' = 0
    /\ UNCHANGED <<writer, r_epoch, ending>>

\* Mutated form: the alert is processed before the window is updated.
dtls_open_record_alert_NotRecorded(r) ==
    /\ r \in net
    /\ Current(r)
    /\ r.kind \in {"close_notify", "fatal", "bad_alert", "warning"}
    /\ ssl_process_alert(r.kind)
    /\ UNCHANGED <<writer, r_epoch, window, closed>>

dtls_open_record_alert(r) ==
    /\ r \in net
    /\ Current(r)
    /\ r.kind \in {"close_notify", "fatal", "bad_alert", "warning"}
    /\ dtls1_bitmap_record(Num(r.epoch, r.seq))
    /\ ssl_process_alert(r.kind)
    /\ UNCHANGED <<writer, r_epoch, closed>>

\* Rejected after decryption and before the window is updated.
dtls_open_record_too_long(r) ==
    /\ r \in net
    /\ Current(r)
    /\ r.kind = "too_long"
    /\ Refuse
    /\ UNCHANGED <<writer, r_epoch, window, warning_alert_count, closed>>

\* Mutated form: the window is updated before the record is authenticated.
dtls_open_record_damaged_Recorded(n) ==
    /\ read_shutdown = "none"
    /\ r_epoch > 0
    /\ InEpoch(n, r_epoch)
    /\ bitmap' = bitmap_record(bitmap, n)
    /\ UNCHANGED <<writer, r_epoch, ending, warning_alert_count, accepted, replayed>>

\* A record damaged on the way, whatever number its header now shows, fails
\* aead_read_ctx->Open once the epoch is encrypted: it is dropped and leaves
\* no trace.  (The null cipher of epoch 0 opens anything.)
dtls_open_record_damaged(n) ==
    /\ read_shutdown = "none"
    /\ r_epoch > 0
    /\ InEpoch(n, r_epoch)
    /\ UNCHANGED vars

(***************************************************************************)
(* The receiver's application ends the connection.  SSL_shutdown does      *)
(* nothing during the handshake, which ends under an encrypted epoch.      *)
(***************************************************************************)
\* With quiet_shutdown, both directions are closed whatever happened before.
SSL_shutdown_quiet ==
    /\ r_epoch > 0
    /\ read_shutdown' = "close_notify"
    /\ write_shutdown' = "close_notify"
    /\ closed' = TRUE
    /\ UNCHANGED <<writer, r_epoch, window, alert_dispatch, warning_alert_count>>

\* Without, one call sends close_notify, or what is left of it; the next one
\* closes the other direction, unless an error did.
SSL_shutdown ==
    /\ r_epoch > 0
    /\ closed' = TRUE
    /\ \/ /\ write_shutdown # "close_notify"
          /\ ssl_send_alert("close_notify")
          /\ UNCHANGED read_shutdown
       \/ /\ write_shutdown = "close_notify" /\ alert_dispatch
          /\ alert_dispatch' \in BOOLEAN
          /\ UNCHANGED <<read_shutdown, write_shutdown>>
       \/ /\ write_shutdown = "close_notify" /\ ~alert_dispatch
          /\ read_shutdown' = IF read_shutdown = "error" THEN "error" ELSE "close_notify"
          /\ UNCHANGED <<write_shutdown, alert_dispatch>>
    /\ UNCHANGED <<writer, r_epoch, window, warning_alert_count>>

SSL_set_shutdown ==
    /\ \E received \in BOOLEAN, sent \in BOOLEAN :
          /\ read_shutdown' = IF received /\ read_shutdown = "none" THEN "close_notify"
                              ELSE read_shutdown
          /\ write_shutdown' = IF sent /\ write_shutdown = "none" THEN "close_notify"
                               ELSE write_shutdown
    /\ closed' = TRUE
    /\ UNCHANGED <<writer, r_epoch, window, alert_dispatch, warning_alert_count>>

Next ==
    \/ \E kind \in Kinds : dtls_seal_record_current(kind)
    \/ \E kind \in Kinds : dtls_seal_record_previous(kind)
    \/ dtls1_set_write_state
    \/ dtls1_set_read_state
    \/ \E r \in net : \/ dtls_open_record_data(r)
                      \/ dtls_open_record_alert(r)
                      \/ dtls_open_record_too_long(r)
    \/ \E n \in Nums : dtls_open_record_damaged(n)
    \/ SSL_shutdown_quiet
    \/ SSL_shutdown
    \/ SSL_set_shutdown

Spec == Init /\ [][Next]_vars

-----------------------------------------------------------------------------
TypeOK ==
    /\ w_epoch \in Epochs
    /\ write_sequence \in Seqs
    /\ last_write_sequence \in Seqs
    /\ wrapped \subseteq Epochs
    /\ sealed \subseteq Nat
    /\ resealed \subseteq Nat
    /\ net \subseteq Records
    /\ r_epoch \in Epochs
    /\ bitmap \in [map : SUBSET (0 .. kWindowSize - 1), max_seq_num : Nat]
    /\ read_shutdown \in {"none", "close_notify", "error"}
    /\ write_shutdown \in {"none", "close_notify", "error"}
    /\ alert_dispatch \in BOOLEAN
    /\ closed \in BOOLEAN
    /\ warning_alert_count \in Nat
    /\ accepted \subseteq Nat
    /\ replayed \subseteq Nat

(***************************************************************************)
(* However the network duplicates and reorders, dtls_open_record never     *)
(* lets the same record through twice.                                     *)
(***************************************************************************)
NoReplay == replayed = {}

(***************************************************************************)
(* The 64-bit window is an exact summary of the unbounded history: within  *)
(* the current epoch dtls1_bitmap_should_discard refuses a number exactly  *)
(* when it was accepted before or lies kWindowSize or more behind the      *)
(* newest accepted one.  In particular no late but fresh record inside the *)
(* window is lost, and damaged records do not move the window.             *)
(***************************************************************************)
WindowExact ==
    \A n \in Nums : InEpoch(n, r_epoch) =>
        ( bitmap_should_discard(bitmap, n)
            <=> \/ n \in accepted
                \/ \E m \in accepted : InEpoch(m, r_epoch) /\ m - n >= kWindowSize )

(***************************************************************************)
(* dtls_seal_record gives the AEAD every (epoch, sequence number) at most  *)
(* once, retransmissions under the previous epoch included, until a seal   *)
(* of that epoch has failed with the overflow error.                       *)
(***************************************************************************)
SealedOnce == \A n \in resealed : \E e \in wrapped : InEpoch(n, e)

(***************************************************************************)
(* The network alone never ends a connection: whatever it loses, repeats,  *)
(* reorders or, once the epoch is encrypted, damages, dtls_open_record     *)
(* fails for good only if the peer really sent a fatal alert, a malformed  *)
(* alert or a record that is too long, or sent more different warnings     *)
(* than kMaxWarningAlerts, so that one warning repeated by the network     *)
(* never counts as many.  A clean end of reading is the peer's             *)
(* close_notify or was asked for by the application.                       *)
(***************************************************************************)
Sent(kinds) == {r \in net : r.kind \in kinds}

ReadEndsForCause ==
    /\ read_shutdown = "error" =>
          \/ Sent({"fatal", "bad_alert", "too_long"}) # {}
          \/ Cardinality(Sent({"warning"})) > kMaxWarningAlerts
    /\ read_shutdown = "close_notify" => closed \/ Sent({"close_notify"}) # {}

(***************************************************************************)
(* Inductive strengthenings.  WindowInv: the bits of the map are the       *)
(* accepted numbers of the current epoch, counted back from the newest.    *)
(* SealInv: what was sealed under the current and the previous epoch lies  *)
(* below the epoch's sequence number, unless that epoch has overflowed.    *)
(* EndInv: the warnings counted are at most the different ones opened.     *)
(***************************************************************************)
WindowInv ==
    /\ replayed = {}
    /\ \A m \in accepted : /\ m < r_epoch * SeqLimit + SeqLimit
                           /\ InEpoch(m, r_epoch) => m <= bitmap.max_seq_num
    /\ \A i \in 0 .. kWindowSize - 1 :
          i \in bitmap.map <=> /\ bitmap.max_seq_num - i \in accepted
                               /\ InEpoch(bitmap.max_seq_num - i, r_epoch)
    /\ \/ bitmap.max_seq_num = 0
       \/ /\ bitmap.max_seq_num \in accepted
          /\ InEpoch(bitmap.max_seq_num, r_epoch)

SealInv ==
    /\ SealedOnce
    /\ \A n \in sealed :
          /\ n < w_epoch * SeqLimit + SeqLimit
          /\ InEpoch(n, w_epoch) =>
                w_epoch \in wrapped \/ n < Num(w_epoch, write_sequence)
          /\ InEpoch(n, w_epoch - 1) =>
                w_epoch - 1 \in wrapped \/ n < Num(w_epoch - 1, last_write_sequence)

Opened == {r \in Sent({"warning"}) : Num(r.epoch, r.seq) \in accepted}

EndInv ==
    /\ ReadEndsForCause
    /\ IsFiniteSet(net)
    /\ warning_alert_count <= Cardinality(Opened)
=============================================================================
