--------------------------- MODULE Tls13Handshake ---------------------------
(***************************************************************************)
(* A TLS 1.3 client and a TLS 1.3 server over a stream                     *)
(* (ssl/tls13_client.cc, ssl/tls13_server.cc, ssl/tls13_both.cc): full     *)
(* handshakes, HelloRetryRequest, resumption, early data that is accepted  *)
(* or rejected, half-RTT data and tickets, and KeyUpdate, over several     *)
(* connections after one another.                                          *)
(*                                                                         *)
(* Every do_ function is an action; a callback that asks to be called      *)
(* again is a stuttering step.  A key is the level, the PSK and the        *)
(* transcript it was derived from and how often it was updated, so that a  *)
(* record opens only if both sides derived its key from the same messages. *)
(* The transcript is kept as the types of the messages hashed.             *)
(***************************************************************************)
EXTENDS Naturals, Sequences, SequencesExt, FiniteSets

CONSTANTS
    FirstConfigs,   \* configurations of the first connection,
    Configs,        \* and of later ones
    Verify,         \* verify_mode of the server: subset of {"none", "peer", "require", "if_no_obc"}
    Ciphers,        \* subset of {"aes128", "chacha20", "aes256"}
    NumTickets,     \* num_tickets
    MaxEarly,       \* ticket_max_early_data, in records
    MaxSkipped,     \* kMaxEarlyDataSkipped, in records
    MaxConns, MaxWrites, MaxUpdates     \* bounds: connections; writes and KeyUpdates of a side

\* What the configuration of a connection fixes: the server issues and takes
\* tickets; each side enables early data; the server wants another group than
\* the client's first share; the client has a certificate and verifies again
\* on resumption; Channel ID is used; which of two protocols ALPN selects, and
\* whether it has application settings (ALPS).
ConfigKeys == {"tickets", "early_client", "early_server", "retry", "ccert", "reverify",
               "channel_id", "alpn", "alps"}

VARIABLES
    hs,         \* SSL_HANDSHAKE and SSL3_STATE of each side
    wire,       \* wire[s]: the records on their way to s
    store,      \* the client's session for the next connection
    conn, cfg, mode   \* the number of the connection, its configuration; verify_mode

vars == <<hs, wire, store, conn, cfg, mode>>

Sides == {"client", "server"}
Peer(s) == IF s = "client" THEN "server" ELSE "client"
NoSession == [secret |-> <<>>, cipher |-> "none", alpn |-> FALSE, alps |-> FALSE,
              early |-> FALSE, auth |-> FALSE, ticket |-> <<>>]
NullKey == [level |-> 0, psk |-> <<>>, tr |-> <<>>, updates |-> 0]

Fresh(s) ==
    [state |-> IF s = "client" THEN "start_connect" ELSE "read_client_hello",
     wait |-> "ok", flight |-> <<>>, flights |-> 0, tr |-> <<>>,
     r |-> NullKey, w |-> NullKey,                                  \* keys in use,
     early_key |-> NullKey, hs_key |-> NullKey, app_key |-> NullKey, \* and derived
     psk |-> <<>>, session |-> NoSession, new_session |-> NoSession, early_session |-> NoSession,
     cipher |-> "none", reused |-> FALSE, used_hrr |-> FALSE,
     early_offered |-> FALSE, early_accepted |-> FALSE, in_early |-> FALSE,
     can_early_read |-> FALSE, can_early_write |-> FALSE, skip |-> FALSE, skipped |-> 0,
     early_written |-> 0,
     cert_request |-> FALSE, channel_id |-> FALSE, peer_cert |-> FALSE,
     cert_verified |-> FALSE, can_release |-> FALSE, expected_finished |-> <<>>,
     key_update_pending |-> FALSE, updates |-> 0, writes |-> 0, sent |-> <<>>, got |-> <<>>,
     error |-> "none"]

Init ==
    /\ hs = [s \in Sides |-> Fresh(s)]
    /\ wire = [s \in Sides |-> <<>>]
    /\ store = NoSession
    /\ conn = 1
    /\ cfg \in FirstConfigs
    /\ mode \in Verify

-----------------------------------------------------------------------------
(* Keys, messages and records                                              *)

Prf(c) == IF c = "aes256" THEN "sha384" ELSE "sha256"

\* derive_secret and tls13_set_traffic_key
Key(x, level) == [level |-> level, psk |-> x.psk, tr |-> x.tr, updates |-> 0]

\* tls13_rotate_traffic_key
Rotate(k) == [k EXCEPT !.updates = @ + 1]

\* tls13_finished_mac
FinishedMac(role, x) == <<role, x.psk, x.tr>>

\* tls13_psk_binder: over the messages so far
Binder(secret, x) == <<secret, x.tr>>

\* tls13_derive_resumption_secret, and tls13_derive_session_psk for a nonce.
ResumptionSecret(x) == [x EXCEPT !.new_session.secret = <<conn, x.tr>>]
SessionPsk(z, nonce) == [z EXCEPT !.secret = Append(@, nonce)]

\* SSLTranscript::UpdateForHelloRetryRequest
UpdateForHelloRetryRequest(x) == [x EXCEPT !.tr = <<"message_hash">>]

Record(x, t, v) == [t |-> t, key |-> x.w, f |-> x.flights, v |-> v]

\* add_message and add_change_cipher_spec; handshake messages are hashed.
Add(x, t, v) == [x EXCEPT !.flight = Append(@, Record(x, t, v)), !.tr = Append(@, t)]
AddCCS(x) == [x EXCEPT !.flight = Append(@, Record(x, "change_cipher_spec", 0))]

Hash(x, m) == [x EXCEPT !.tr = Append(@, m.t)]

\* Whether the record of message m holds another message
\* (has_unprocessed_handshake_data).
Unprocessed(s, m) ==
    /\ Len(wire[s]) > 1
    /\ LET n == wire[s][2]
       IN  n.t \notin {"change_cipher_spec", "app", "alert", "eof"} /\ n.key = m.key /\ n.f = m.f

Go(x, st) == [x EXCEPT !.state = st]
Wrong(x, why) == [x EXCEPT !.error = why]

\* tls_set_read_state, after message m.
SetReadKey(s, x, m, k) ==
    IF Unprocessed(s, m) THEN Wrong(x, "excess_handshake_data") ELSE [x EXCEPT !.r = k]

Others == UNCHANGED <<store, conn, cfg, mode>>

\* An error: what is pending and an alert are sent, unless the error was the
\* peer's or none is to be sent; the application then closes the transport.
Fail(s, why) ==
    LET x == hs[s]
        last == IF why \in {"alert", "eof", "early_reverify_failed"} THEN <<>>
                ELSE Append(x.flight, Record(x, "alert", 0))
    IN  /\ hs' = [hs EXCEPT ![s] = [@ EXCEPT !.state = "error", !.error = why, !.flight = <<>>,
                                             !.can_early_write = FALSE, !.wait = "ok"]]
        /\ wire' = [wire EXCEPT ![Peer(s)] = @ \o last \o <<[Record(x, "eof", 0) EXCEPT !.key = NullKey]>>]
        /\ Others

At(s, st) == hs[s].state = st /\ hs[s].wait = "ok"

\* A step that reads nothing and leaves x behind.
Local(s, x) == hs' = [hs EXCEPT ![s] = x] /\ UNCHANGED wire /\ Others

\* tls_open_record drops a ChangeCipherSpec during the handshake, and what it
\* cannot open while rejected early data is skipped, which may be too much.
Ignored(x, m) == m.t = "change_cipher_spec" /\ m.key = NullKey /\ x.state # "done"
Skipped(x, m) == x.skip /\ m.key # x.r

discard(s) == wire' = [wire EXCEPT ![s] = Tail(@)] /\ UNCHANGED hs /\ Others

skip_early_data(s) ==
    IF hs[s].skipped >= MaxSkipped THEN Fail(s, "too_much_skipped_early_data")
    ELSE /\ hs' = [hs EXCEPT ![s].skipped = @ + 1]
         /\ wire' = [wire EXCEPT ![s] = Tail(@)]
         /\ Others

\* A state that reads: a message of type t is given to Then, which yields the
\* state it leaves, and is consumed; if Optional holds of the type of another
\* one, the state machine moves on to Else without it.
Read(s, st, t, Then(_, _), Optional(_), Else(_)) ==
    LET m == Head(wire[s])
        x == [hs[s] EXCEPT !.skip = FALSE]      \* once a record opens
    IN  /\ At(s, st) /\ wire[s] # <<>>
        /\ IF m.t = "eof" THEN Fail(s, "eof")
           ELSE IF Ignored(hs[s], m) THEN discard(s)
           ELSE IF Skipped(hs[s], m) THEN skip_early_data(s)
           ELSE IF m.key # x.r THEN Fail(s, "bad_record")
           ELSE IF m.t = "alert" THEN Fail(s, "alert")
           ELSE IF m.t = t
           THEN LET y == Then(x, m)
                IN  IF y.error # "none" THEN Fail(s, y.error)
                    ELSE /\ hs' = [hs EXCEPT ![s] = y]
                         /\ wire' = [wire EXCEPT ![s] = Tail(@)]
                         /\ Others
           ELSE IF m.t \notin {"change_cipher_spec", "app"} /\ Optional(m.t)
           THEN Local(s, Else(x))
           ELSE Fail(s, "unexpected_message")

Never(t) == FALSE
Same(x) == x
ReadOne(s, st, t, Then(_, _)) == Read(s, st, t, Then, Never, Same)

\* A message under the key in use is there to be looked at.
Available(s) == wire[s] # <<>> /\ Head(wire[s]).key = hs[s].r /\ Head(wire[s]).t # "eof"

\* ssl_run_handshake's flush.
flush_flight(s) ==
    /\ hs[s].wait = "flush"
    /\ wire' = [wire EXCEPT ![Peer(s)] = @ \o hs[s].flight]
    /\ hs' = [hs EXCEPT ![s].flight = <<>>, ![s].wait = "ok", ![s].flights = @ + 1]
    /\ Others

\* The handshake is over, and SSL_HANDSHAKE released.
Complete(x) == [x EXCEPT !.state = "done", !.in_early = FALSE, !.can_early_read = FALSE,
                         !.can_early_write = FALSE]

-----------------------------------------------------------------------------
(* The client: tls13_client.cc, and the start in handshake_client.cc       *)

\* should_offer_early_data; both protocols are allowed.
should_offer_early_data(z) ==
    cfg["early_client"] /\ z # NoSession /\ z.early /\ (z.alps => cfg["alps"])

\* should_offer_psk
should_offer_psk(x) == x.session # NoSession /\ (x.used_hrr => Prf(x.session.cipher) = Prf(x.cipher))

\* ssl_add_client_hello: the second one has the share asked for, and never
\* offers early data.
AddClientHello(x) ==
    Add(x, "client_hello",
        [psk |-> IF should_offer_psk(x)
                 THEN <<[session |-> x.session.ticket, binder |-> Binder(x.session.secret, x)]>>
                 ELSE <<>>,
         share |-> x.used_hrr \/ ~cfg["retry"],
         early |-> x.early_offered /\ ~x.used_hrr])

\* An expired session is dropped.
do_start_connect ==
    \E keep \in BOOLEAN :
        LET old == IF keep THEN store ELSE NoSession
            x   == [hs["client"] EXCEPT !.session = old, !.early_offered = should_offer_early_data(old)]
        IN  /\ At("client", "start_connect")
            /\ keep => store # NoSession
            /\ Local("client", [AddClientHello(x) EXCEPT !.state = "enter_early_data", !.wait = "flush"])

do_enter_early_data ==
    LET x == [hs["client"] EXCEPT !.psk = hs["client"].session.secret]
    IN  /\ At("client", "enter_early_data")
        /\ Local("client",
                 IF x.early_offered
                 THEN Go([AddCCS(x) EXCEPT !.early_key = Key(x, 1), !.early_session = x.session],
                         "early_reverify_server_certificate")
                 ELSE Go(hs["client"], "read_hello_retry_request"))

\* No alert is sent on failure.
do_early_reverify_server_certificate ==
    /\ At("client", "early_reverify_server_certificate")
    /\ \/ LET x == hs["client"]
          IN  Local("client", [x EXCEPT !.w = x.early_key, !.in_early = TRUE, !.can_early_write = TRUE,
                                        !.cert_verified = cfg["reverify"],
                                        !.state = "read_hello_retry_request"])
       \/ cfg["reverify"] /\ Fail("client", "early_reverify_failed")

close_early_data(x, k) == [x EXCEPT !.can_early_write = FALSE, !.w = k]

\* ssl_hs_early_data_rejected: the handshake stops until the application has
\* taken note.
Rejected(x) == [x EXCEPT !.wait = "early_data_rejected"]

\* The ChangeCipherSpec goes out with the next flight.
do_read_hello_retry_request ==
    LET Ccs(x) == IF x.early_offered THEN x ELSE AddCCS(x)
        Then(x, m) ==
            LET y == [Hash(UpdateForHelloRetryRequest(Ccs(x)), m) EXCEPT
                         !.cipher = m.v.cipher, !.used_hrr = TRUE, !.state = "send_second_client_hello"]
            IN  IF Unprocessed("client", m) THEN Wrong(x, "excess_handshake_data")
                ELSE IF x.in_early
                THEN Rejected(close_early_data(y, NullKey)) ELSE y
        Else(x) == Go([Ccs(x) EXCEPT !.cipher = Head(wire["client"]).v.cipher], "read_server_hello")
    IN  Read("client", "read_hello_retry_request", "hello_retry_request", Then,
             LAMBDA t : t = "server_hello", Else)

do_send_second_client_hello ==
    LET x == hs["client"]
    IN  /\ At("client", "send_second_client_hello")
        /\ Local("client", [AddClientHello(x) EXCEPT !.state = "read_server_hello", !.wait = "flush"])

\* SSL_SESSION_dup with SSL_SESSION_DUP_AUTH_ONLY
DupAuthOnly(z) == [NoSession EXCEPT !.secret = z.secret, !.cipher = z.cipher, !.auth = z.auth]

do_read_server_hello ==
    LET Then(x, m) ==
            LET y == Hash([x EXCEPT !.reused = m.v.psk,
                              !.can_release = m.v.psk,
                              !.psk = IF m.v.psk THEN x.session.secret ELSE <<>>,
                              !.new_session = [IF m.v.psk THEN DupAuthOnly(x.session) ELSE NoSession
                                                  EXCEPT !.cipher = x.cipher],
                              !.session = IF m.v.psk THEN NoSession ELSE @,
                              !.state = "read_encrypted_extensions"], m)
                k == Key(y, 2)
                z == [y EXCEPT !.hs_key = k, !.w = IF x.in_early THEN @ ELSE k]
            IN  IF m.v.cipher # x.cipher THEN Wrong(x, "wrong_cipher_returned")
                ELSE IF m.v.psk /\ x.session = NoSession THEN Wrong(x, "unexpected_extension")
                ELSE IF m.v.psk /\ Prf(x.session.cipher) # Prf(x.cipher)
                THEN Wrong(x, "old_session_prf_hash_mismatch")
                ELSE SetReadKey("client", z, m, k)
    IN  ReadOne("client", "read_server_hello", "server_hello", Then)

\* Application settings: with early data, the session's carry over.
AlpsOf(x, m) == IF m.v.early THEN x.early_session.alps ELSE m.v.alps

do_read_encrypted_extensions ==
    LET Then(x, m) ==
            LET y == Hash([x EXCEPT !.early_accepted = m.v.early, !.channel_id = m.v.channel_id,
                                    !.new_session.alpn = m.v.alpn,
                                    !.new_session.alps = AlpsOf(x, m),
                                    !.state = "read_certificate_request"], m)
            IN  IF m.v.early /\ (~x.early_offered \/ x.used_hrr \/ ~x.reused)
                THEN Wrong(x, "unexpected_extension")
                ELSE IF m.v.early /\ x.early_session.cipher # x.cipher THEN Wrong(x, "cipher_mismatch_on_early_data")
                ELSE IF m.v.early /\ x.early_session.alpn # m.v.alpn THEN Wrong(x, "alpn_mismatch_on_early_data")
                ELSE IF m.v.early /\ (m.v.channel_id \/ m.v.alps)
                THEN Wrong(x, "unexpected_extension_on_early_data")
                ELSE IF x.in_early /\ ~m.v.early
                THEN Rejected(close_early_data(y, x.hs_key)) ELSE y
    IN  ReadOne("client", "read_encrypted_extensions", "encrypted_extensions", Then)

do_read_certificate_request ==
    \/ /\ At("client", "read_certificate_request") /\ hs["client"].reused
       /\ Local("client", Go(hs["client"], IF cfg["reverify"] /\ ~hs["client"].early_accepted
                                           THEN "server_certificate_reverify" ELSE "read_server_finished"))
    \/ LET Then(x, m) == Go([Hash(x, m) EXCEPT !.cert_request = TRUE], "read_server_certificate")
           Else(x)    == Go(x, "read_server_certificate")
       IN  /\ ~hs["client"].reused
           /\ Read("client", "read_certificate_request", "certificate_request", Then, LAMBDA t : TRUE, Else)

do_read_server_certificate ==
    LET Then(x, m) == Go([Hash(x, m) EXCEPT !.peer_cert = TRUE], "read_server_certificate_verify")
    IN  ReadOne("client", "read_server_certificate", "certificate", Then)

\* The callback accepts or rejects once the message is there.
do_read_server_certificate_verify ==
    \/ LET Then(x, m) == IF m.v # x.tr THEN Wrong(x, "bad_signature")
                         ELSE Go([Hash(x, m) EXCEPT !.cert_verified = TRUE], "read_server_finished")
       IN  ReadOne("client", "read_server_certificate_verify", "certificate_verify", Then)
    \/ /\ At("client", "read_server_certificate_verify") /\ Available("client")
       /\ Fail("client", "certificate_verify_failed")

do_server_certificate_reverify ==
    /\ At("client", "server_certificate_reverify")
    /\ \/ Local("client", Go([hs["client"] EXCEPT !.cert_verified = TRUE], "read_server_finished"))
       \/ Fail("client", "certificate_verify_failed")

do_read_server_finished ==
    LET Then(x, m) ==
            LET y == Hash(x, m)
            IN  IF m.v # FinishedMac("server", x) THEN Wrong(x, "digest_check_failed")
                ELSE IF Unprocessed("client", m) THEN Wrong(x, "excess_handshake_data")
                ELSE Go([y EXCEPT !.app_key = Key(y, 3)], "send_end_of_early_data")
    IN  ReadOne("client", "read_server_finished", "finished", Then)

do_send_end_of_early_data ==
    LET x == hs["client"]
    IN  /\ At("client", "send_end_of_early_data")
        /\ Local("client", Go(IF x.early_accepted
                              THEN close_early_data(Add(x, "end_of_early_data", 0), x.hs_key) ELSE x,
                              "send_client_encrypted_extensions"))

\* Whether the client's settings follow: they are not sent with early data.
ClientSettings(x) == x.new_session.alps /\ ~x.early_accepted

do_send_client_encrypted_extensions ==
    LET x == hs["client"]
    IN  /\ At("client", "send_client_encrypted_extensions")
        /\ Local("client", Go(IF ClientSettings(x) THEN Add(x, "encrypted_extensions", 0) ELSE x,
                              "send_client_certificate"))

do_send_client_certificate ==
    LET x == hs["client"]
    IN  /\ At("client", "send_client_certificate")
        /\ Local("client", IF x.cert_request
                           THEN Go(Add(x, "certificate", cfg["ccert"]), "send_client_certificate_verify")
                           ELSE Go(x, "complete_second_flight"))

do_send_client_certificate_verify ==
    LET x == hs["client"]
    IN  /\ At("client", "send_client_certificate_verify")
        /\ Local("client", Go(IF cfg["ccert"] THEN Add(x, "certificate_verify", x.tr) ELSE x,
                              "complete_second_flight"))

do_complete_second_flight ==
    LET x   == [hs["client"] EXCEPT !.can_release = TRUE]
        cid == IF x.channel_id THEN Add(x, "channel_id", x.tr) ELSE x
        fin == Add(cid, "finished", FinishedMac("client", cid))
    IN  /\ At("client", "complete_second_flight")
        /\ Local("client", [ResumptionSecret(fin) EXCEPT
                               !.w = x.app_key, !.r = x.app_key,
                               !.state = "finish_client_handshake", !.wait = "flush"])

do_finish_client_handshake ==
    At("client", "finish_client_handshake") /\ Local("client", Complete(hs["client"]))

\* The application learns that its early data was not taken, and goes on.
SSL_reset_early_data_reject ==
    /\ hs["client"].wait = "early_data_rejected"
    /\ Local("client", [hs["client"] EXCEPT !.wait = "ok", !.in_early = FALSE,
                           !.early_session = NoSession, !.sent = <<>>])

-----------------------------------------------------------------------------
(* The server: tls13_server.cc                                             *)

do_read_client_hello ==
    /\ At("server", "read_client_hello") /\ wire["server"] # <<>>
    /\ Head(wire["server"]).t = "client_hello"
    /\ Local("server", Go(hs["server"], "select_parameters"))

\* The preferences of both sides may lead to any cipher.
do_select_parameters ==
    \E c \in Ciphers :
        /\ At("server", "select_parameters")
        /\ Local("server", Go([hs["server"] EXCEPT !.cipher = c], "select_session"))

\* ssl_session_is_resumable
Resumable(z, c) == z # NoSession /\ z.cipher = c

\* The chain of conditions of do_select_session, the clocks' skew apart.
AcceptsEarlyData(z, new, m) ==
    /\ cfg["early_server"] /\ z # NoSession /\ z.early /\ m.v.early
    /\ ~cfg["channel_id"] /\ cfg["alpn"] = z.alpn /\ new.alps = z.alps
    /\ m.v.share

CanRelease(z, m) == z # NoSession

\* A ticket may not be readable any more, or have expired; the clocks may
\* disagree too much for early data.
do_select_session ==
    \E readable \in BOOLEAN, skewed \in BOOLEAN :
        LET x == hs["server"]  m == Head(wire["server"])
            z == IF m.v.psk # <<>> /\ readable /\ cfg["tickets"]
                    /\ Resumable(m.v.psk[1].session[1], x.cipher)
                 THEN m.v.psk[1].session[1] ELSE NoSession
            reuse == z # NoSession
            new == [IF reuse THEN DupAuthOnly(z) ELSE NoSession
                       EXCEPT !.cipher = x.cipher, !.alps = cfg["alps"], !.alpn = cfg["alpn"]]
            early == AcceptsEarlyData(z, new, m) /\ ~skewed
            y == Hash([x EXCEPT !.reused = reuse, !.can_release = CanRelease(z, m), !.psk = z.secret,
                                !.session = z, !.new_session = new, !.channel_id = cfg["channel_id"],
                                !.early_offered = m.v.early, !.early_accepted = early,
                                !.skip = m.v.early /\ ~early], m)
        IN  /\ At("server", "select_session")
            /\ readable => m.v.psk # <<>>
            /\ skewed => AcceptsEarlyData(z, new, m)
            /\ IF reuse /\ m.v.psk[1].binder # Binder(z.secret, x) THEN Fail("server", "bad_binder")
               ELSE /\ hs' = [hs EXCEPT !["server"] =
                                 IF m.v.share
                                 THEN Go([y EXCEPT !.early_key = Key(y, 1)], "send_server_hello")
                                 ELSE Go(UpdateForHelloRetryRequest(y), "send_hello_retry_request")]
                    /\ wire' = [wire EXCEPT !["server"] = Tail(@)]
                    /\ Others

do_send_hello_retry_request ==
    LET x == Add(hs["server"], "hello_retry_request", [cipher |-> hs["server"].cipher])
    IN  /\ At("server", "send_hello_retry_request")
        /\ Local("server", [AddCCS(x) EXCEPT !.used_hrr = TRUE, !.wait = "flush",
                                             !.state = "read_second_client_hello"])

do_read_second_client_hello ==
    LET Then(x, m) ==
            IF x.reused /\ m.v.psk = <<>> THEN Wrong(x, "inconsistent_client_hello")
            ELSE IF x.reused /\ m.v.psk[1].binder # Binder(x.new_session.secret, x) THEN Wrong(x, "bad_binder")
            ELSE IF ~m.v.share THEN Wrong(x, "wrong_curve")
            ELSE IF Unprocessed("server", m) THEN Wrong(x, "excess_handshake_data")
            ELSE Go(Hash(x, m), "send_server_hello")
    IN  ReadOne("server", "read_second_client_hello", "client_hello", Then)

\* ServerHello, ChangeCipherSpec and, under the handshake key,
\* EncryptedExtensions, CertificateRequest and Certificate.
do_send_server_hello ==
    LET x   == hs["server"]
        sh  == Add(x, "server_hello", [cipher |-> x.cipher, psk |-> x.reused])
        ccs == IF x.used_hrr THEN sh ELSE AddCCS(sh)
        key == [ccs EXCEPT !.w = Key(sh, 2), !.hs_key = Key(sh, 2)]
        ee  == Add(key, "encrypted_extensions",
                   [early |-> x.early_accepted, alpn |-> x.new_session.alpn,
                    alps |-> x.new_session.alps /\ ~x.early_accepted, channel_id |-> x.channel_id])
        req == ~x.reused /\ mode # "none" /\ ~(mode = "if_no_obc" /\ x.channel_id)
        cr  == IF req THEN Add(ee, "certificate_request", 0) ELSE ee
    IN  /\ At("server", "send_server_hello")
        /\ Local("server", IF x.reused THEN Go(ee, "send_server_finished")
                           ELSE Go([Add(cr, "certificate", TRUE) EXCEPT !.cert_request = req],
                                   "send_server_certificate_verify"))

do_send_server_certificate_verify ==
    LET x == hs["server"]
    IN  /\ At("server", "send_server_certificate_verify")
        /\ Local("server", Go(Add(x, "certificate_verify", x.tr), "send_server_finished"))

do_send_server_finished ==
    LET x == hs["server"]
        y == [Add(x, "finished", FinishedMac("server", x)) EXCEPT !.can_release = TRUE]
    IN  /\ At("server", "send_server_finished")
        /\ Local("server", Go([y EXCEPT !.w = Key(y, 3), !.app_key = Key(y, 3)], "send_half_rtt_ticket"))

IssuedSession(x, i) == [SessionPsk(x.new_session, i) EXCEPT !.early = cfg["early_server"]]

\* add_new_session_tickets
AddNewSessionTickets(x) ==
    IF cfg["tickets"]
    THEN FoldLeft(LAMBDA y, i : Add(y, "new_session_ticket",
                                    [nonce |-> i, early |-> cfg["early_server"],
                                     ticket |-> <<IssuedSession(x, i)>>]),
                  x, [i \in 1..NumTickets |-> i])
    ELSE x

\* What the client will still send is known, and so is its Finished.
PredictFinished(x) ==
    LET y == [x EXCEPT !.tr = Append(@, "end_of_early_data")]
    IN  ResumptionSecret([y EXCEPT !.expected_finished = FinishedMac("client", y),
                                   !.tr = Append(@, "finished")])

do_send_half_rtt_ticket ==
    LET x == hs["server"]
    IN  /\ At("server", "send_half_rtt_ticket")
        /\ Local("server", [IF x.early_accepted THEN AddNewSessionTickets(PredictFinished(x)) ELSE x
                               EXCEPT !.state = "read_second_client_flight", !.wait = "flush"])

do_read_second_client_flight ==
    LET x == Go(hs["server"], "process_end_of_early_data")
    IN  /\ At("server", "read_second_client_flight")
        /\ Local("server", IF x.early_accepted
                           THEN [x EXCEPT !.r = x.early_key, !.can_early_read = TRUE,
                                          !.can_early_write = TRUE, !.in_early = TRUE,
                                          !.wait = "read_end_of_early_data"]
                           ELSE x)

do_process_end_of_early_data ==
    \/ /\ At("server", "process_end_of_early_data") /\ ~hs["server"].early_accepted
       /\ Local("server", Go([hs["server"] EXCEPT !.r = hs["server"].hs_key],
                             "read_client_encrypted_extensions"))
    \/ LET Then(x, m) == Go(SetReadKey("server", x, m, x.hs_key), "read_client_encrypted_extensions")
       IN  /\ hs["server"].early_accepted
           /\ ReadOne("server", "process_end_of_early_data", "end_of_early_data", Then)

do_read_client_encrypted_extensions ==
    \/ /\ At("server", "read_client_encrypted_extensions") /\ ~ClientSettings(hs["server"])
       /\ Local("server", Go(hs["server"], "read_client_certificate"))
    \/ LET Then(x, m) == Go(Hash(x, m), "read_client_certificate")
       IN  /\ ClientSettings(hs["server"])
           /\ ReadOne("server", "read_client_encrypted_extensions", "encrypted_extensions", Then)

MissingCertificate(m) == ~m.v /\ mode \in {"require", "if_no_obc"}

do_read_client_certificate ==
    \/ /\ At("server", "read_client_certificate") /\ ~hs["server"].cert_request
       /\ Local("server", Go(hs["server"], "read_channel_id"))
    \/ LET Then(x, m) ==
               IF MissingCertificate(m) THEN Wrong(x, "peer_did_not_return_a_certificate")
               ELSE Go([Hash(x, m) EXCEPT !.peer_cert = m.v], "read_client_certificate_verify")
       IN  /\ hs["server"].cert_request
           /\ ReadOne("server", "read_client_certificate", "certificate", Then)

do_read_client_certificate_verify ==
    \/ /\ At("server", "read_client_certificate_verify") /\ ~hs["server"].peer_cert
       /\ Local("server", Go(hs["server"], "read_channel_id"))
    \/ LET Then(x, m) == IF m.v # x.tr THEN Wrong(x, "bad_signature")
                         ELSE Go([Hash(x, m) EXCEPT !.cert_verified = TRUE, !.new_session.auth = TRUE],
                                 "read_channel_id")
       IN  /\ hs["server"].peer_cert
           /\ ReadOne("server", "read_client_certificate_verify", "certificate_verify", Then)
    \/ /\ At("server", "read_client_certificate_verify") /\ hs["server"].peer_cert
       /\ Available("server") /\ Fail("server", "certificate_verify_failed")

do_read_channel_id ==
    \/ /\ At("server", "read_channel_id") /\ ~hs["server"].channel_id
       /\ Local("server", Go(hs["server"], "read_client_finished"))
    \/ LET Then(x, m) == IF m.v # x.tr THEN Wrong(x, "channel_id_signature_invalid")
                         ELSE Go(Hash(x, m), "read_client_finished")
       IN  hs["server"].channel_id /\ ReadOne("server", "read_channel_id", "channel_id", Then)

\* With early data, Finished is compared with the predicted one.
do_read_client_finished ==
    LET Then(x, m) ==
            LET y == SetReadKey("server", x, m, x.app_key)
            IN  IF m.v # (IF x.early_accepted THEN x.expected_finished ELSE FinishedMac("client", x))
                THEN Wrong(x, "digest_check_failed")
                ELSE IF x.early_accepted THEN Complete(y)
                ELSE Go(ResumptionSecret(Hash(y, m)), "send_new_session_ticket")
    IN  ReadOne("server", "read_client_finished", "finished", Then)

\* The tickets are sent with what is written next.
do_send_new_session_ticket ==
    /\ At("server", "send_new_session_ticket")
    /\ Local("server", Complete(AddNewSessionTickets(hs["server"])))

-----------------------------------------------------------------------------
(* Data, KeyUpdate, tickets, and the next connection                       *)

\* States in which the application has the control while data may be written
\* early: the client's reads, the server's once it has returned early.
EarlyWriteStates == {"read_hello_retry_request", "read_server_hello", "read_encrypted_extensions",
                     "read_server_finished", "process_end_of_early_data", "read_client_finished"}

CanWrite(x) ==
    x.state = "done" \/ (x.can_early_write /\ x.state \in EarlyWriteStates)

IsEarlyWrite(s) == s = "client" /\ hs[s].in_early /\ hs[s].can_early_write

\* Mutant: a write that finds a pending flight sends that and nothing else.
SSL_write_FlightOnly(s) ==
    LET x == hs[s]
    IN  /\ CanWrite(x) /\ x.wait \in {"ok", "read_end_of_early_data"}
        /\ x.writes < MaxWrites
        /\ IF IsEarlyWrite(s) /\ x.early_written >= MaxEarly
           THEN /\ hs' = [hs EXCEPT ![s].can_early_write = FALSE]
                /\ UNCHANGED wire
           ELSE /\ hs' = [hs EXCEPT ![s].writes = @ + 1, ![s].sent = Append(@, x.writes), ![s].flight = <<>>,
                                    ![s].flights = @ + 1, ![s].key_update_pending = FALSE,
                                    ![s].early_written = IF IsEarlyWrite(s) THEN @ + 1 ELSE @]
                /\ wire' = [wire EXCEPT ![Peer(s)] = @ \o (IF x.flight # <<>> THEN x.flight ELSE <<Record(x, "app", x.writes)>>)]
        /\ Others

\* The pending flight goes first.
SSL_write(s) ==
    LET x == hs[s]
    IN  /\ CanWrite(x) /\ x.wait \in {"ok", "read_end_of_early_data"}
        /\ x.writes < MaxWrites
        /\ IF IsEarlyWrite(s) /\ x.early_written >= MaxEarly
           THEN /\ hs' = [hs EXCEPT ![s].can_early_write = FALSE]
                /\ UNCHANGED wire
           ELSE /\ hs' = [hs EXCEPT ![s].writes = @ + 1, ![s].sent = Append(@, x.writes), ![s].flight = <<>>,
                                    ![s].flights = @ + 1, ![s].key_update_pending = FALSE,
                                    ![s].early_written = IF IsEarlyWrite(s) THEN @ + 1 ELSE @]
                /\ wire' = [wire EXCEPT ![Peer(s)] = @ \o Append(x.flight, Record(x, "app", x.writes))]
        /\ Others

\* tls13_add_key_update
AddKeyUpdate(x, requested) ==
    [x EXCEPT !.flight = Append(@, Record(x, "key_update", requested)), !.w = Rotate(@),
              !.key_update_pending = TRUE]

SSL_key_update(s) ==
    \E requested \in BOOLEAN :
        /\ At(s, "done") /\ hs[s].updates < MaxUpdates /\ ~hs[s].key_update_pending
        /\ Local(s, AddKeyUpdate([hs[s] EXCEPT !.updates = @ + 1], requested))

Acknowledges(x, m) == m.v /\ ~x.key_update_pending

tls13_receive_key_update(s) ==
    LET Then(x, m) ==
            LET y == SetReadKey(s, x, m, Rotate(x.r))
            IN  IF Acknowledges(x, m) THEN AddKeyUpdate(y, FALSE) ELSE y
    IN  /\ wire[s] # <<>> /\ Head(wire[s]).t = "key_update"
        /\ ReadOne(s, "done", "key_update", Then)

\* tls13_create_session_with_ticket; the callback keeps the latest session.
tls13_process_new_session_ticket ==
    LET x == hs["client"]  m == Head(wire["client"])
    IN  /\ At("client", "done") /\ wire["client"] # <<>> /\ m.t = "new_session_ticket"
        /\ IF m.key # x.r THEN Fail("client", "bad_record")
           ELSE /\ store' = [SessionPsk(x.new_session, m.v.nonce)
                                EXCEPT !.early = m.v.early, !.ticket = m.v.ticket]
                /\ wire' = [wire EXCEPT !["client"] = Tail(@)]
                /\ UNCHANGED <<hs, conn, cfg, mode>>

SSL_read(s) ==
    LET Then(x, m) == [x EXCEPT !.got = Append(@, m.v)]
    IN  /\ wire[s] # <<>> /\ Head(wire[s]).t \notin {"key_update", "new_session_ticket"}
        /\ ReadOne(s, "done", "app", Then)

\* SSL_read on a server that has returned early: a handshake message sends it
\* back into the handshake.
SSL_read_early ==
    LET x == hs["server"]  m == Head(wire["server"])
    IN  /\ x.wait = "read_end_of_early_data" /\ wire["server"] # <<>>
        /\ IF m.t = "eof" THEN Fail("server", "eof")
           ELSE IF Ignored(x, m) THEN discard("server")
           ELSE IF m.key # x.r THEN Fail("server", "bad_record")
           ELSE IF m.t = "alert" THEN Fail("server", "alert")
           ELSE IF m.t = "app"
           THEN IF Len(x.got) >= MaxEarly THEN Fail("server", "too_much_read_early_data")
                ELSE /\ hs' = [hs EXCEPT !["server"].got = Append(@, m.v)]
                     /\ wire' = [wire EXCEPT !["server"] = Tail(@)] /\ Others
           ELSE Local("server", [x EXCEPT !.can_early_read = FALSE, !.wait = "ok"])

Over(s) == hs[s].state \in {"done", "error"}

reconnect ==
    /\ \A s \in Sides : Over(s)
    /\ conn < MaxConns
    /\ conn' = conn + 1
    /\ cfg' \in Configs
    /\ hs' = [s \in Sides |-> Fresh(s)]
    /\ wire' = [s \in Sides |-> <<>>]
    /\ UNCHANGED <<store, mode>>

\* What SSL_do_handshake and SSL_read do.
Client ==
    \/ do_start_connect \/ do_enter_early_data \/ do_early_reverify_server_certificate
    \/ do_read_hello_retry_request \/ do_send_second_client_hello \/ do_read_server_hello
    \/ do_read_encrypted_extensions \/ do_read_certificate_request \/ do_read_server_certificate
    \/ do_read_server_certificate_verify \/ do_server_certificate_reverify
    \/ do_read_server_finished \/ do_send_end_of_early_data \/ do_send_client_encrypted_extensions
    \/ do_send_client_certificate \/ do_send_client_certificate_verify
    \/ do_complete_second_flight \/ do_finish_client_handshake
    \/ SSL_reset_early_data_reject \/ tls13_process_new_session_ticket
    \/ flush_flight("client") \/ SSL_read("client") \/ tls13_receive_key_update("client")

Server ==
    \/ do_read_client_hello \/ do_select_parameters \/ do_select_session
    \/ do_send_hello_retry_request \/ do_read_second_client_hello \/ do_send_server_hello
    \/ do_send_server_certificate_verify \/ do_send_server_finished \/ do_send_half_rtt_ticket
    \/ do_read_second_client_flight \/ do_process_end_of_early_data
    \/ do_read_client_encrypted_extensions \/ do_read_client_certificate
    \/ do_read_client_certificate_verify \/ do_read_channel_id \/ do_read_client_finished
    \/ do_send_new_session_ticket
    \/ flush_flight("server") \/ SSL_read_early \/ SSL_read("server")
    \/ tls13_receive_key_update("server")

Next == Client \/ Server \/ reconnect \/ \E s \in Sides : SSL_write(s) \/ SSL_key_update(s)

Spec == Init /\ [][Next]_vars

-----------------------------------------------------------------------------
(* Properties                                                              *)

Done(s) == hs[s].state = "done"

\* SSL_can_release_private_key says that the key will not be used any more
\* only when CertificateVerify is behind or will not be sent.
KeyKept ==
    /\ hs["server"].can_release =>
           hs["server"].state # "send_server_certificate_verify"
           /\ (hs["server"].state \in {"send_hello_retry_request", "read_second_client_hello",
                                       "send_server_hello"} => hs["server"].reused)
    /\ hs["client"].can_release =>
           ~(hs["client"].state \in {"send_client_certificate", "send_client_certificate_verify"}
             /\ hs["client"].cert_request /\ cfg["ccert"])

\* Two sides that keep to the protocol fail only because a certificate is
\* rejected or missing, or because the client wrote more early data than a
\* server that rejects it will skip: whatever is negotiated, retried or resumed, each
\* opens what the other seals, expects what it sends and computes the same
\* binders and Finished, the predicted one included.  Neither gives up its
\* private key while it still needs it, and neither updates its keys more
\* often than the applications asked for: acknowledgments of a KeyUpdate are
\* not acknowledged.
HonestSucceeds ==
    /\ \A s \in Sides :
          /\ hs[s].error \in {"none", "alert", "eof", "certificate_verify_failed",
                              "early_reverify_failed", "peer_did_not_return_a_certificate",
                              "too_much_skipped_early_data"}
          /\ hs[s].error = "too_much_skipped_early_data" =>
                 s = "server" /\ hs["client"].early_written > MaxSkipped
          /\ hs[s].w.updates <= hs["client"].updates + hs["server"].updates
    /\ KeyKept

\* Two sides that both finish agree on what was resumed, on whether early data
\* was accepted, on the cipher, the protocol and its settings, and on the
\* secret later tickets are made from.
Agreement ==
    Done("client") /\ Done("server") =>
        LET c == hs["client"]  d == hs["server"]
        IN  /\ c.reused = d.reused /\ c.psk = d.psk /\ c.early_accepted = d.early_accepted
            /\ c.cipher = d.cipher /\ c.new_session.secret = d.new_session.secret
            /\ c.new_session.alpn = d.new_session.alpn /\ c.new_session.alps = d.new_session.alps

\* What the server's application reads is, in order, what the client's wrote
\* and was not told to be rejected: early data is never delivered and rejected,
\* and none is lost when both have finished and all was read; and the same in
\* the other direction.
StreamIntact ==
    \A s \in Sides :
        /\ IsPrefix(hs[s].got, hs[Peer(s)].sent)
        /\ Done("client") /\ Done("server") /\ wire[s] = <<>> => hs[s].got = hs[Peer(s)].sent


\* The client's session and the server's in the ticket have the same PSK,
\* cipher, protocol, settings and limit of early data, whether the ticket was
\* issued before or after the client's Finished arrived.
SessionsMatch ==
    \A i \in DOMAIN store.ticket :
        [store.ticket[i] EXCEPT !.auth = FALSE] = [store EXCEPT !.auth = FALSE, !.ticket = <<>>]
=============================================================================
