--------------------------- MODULE Tls12Handshake ---------------------------
(***************************************************************************)
(* A TLS 1.2 client and a TLS 1.2 server that handshake over a stream      *)
(* (ssl/handshake_client.cc, ssl/handshake_server.cc, ssl/handshake.cc),   *)
(* several connections after one another, so that a later one may resume   *)
(* the session of an earlier one by its ID or by a ticket.                 *)
(*                                                                         *)
(* Every do_ function of the two state machines is an action.  A callback  *)
(* that asks to be called again leaves the state as it was, and is a       *)
(* stuttering step.  Messages are kept as their type, the epoch (0: no     *)
(* cipher yet) under which they were sealed, and what the other side takes *)
(* from them; the transcript as the types of the messages hashed.  Both    *)
(* sides use the extended master secret.                                   *)
(***************************************************************************)
EXTENDS Naturals, Sequences, SequencesExt, FiniteSets

CONSTANTS
    Configs,    \* configurations of a connection
    Verify,     \* verify_mode of the server's context: subset of Modes
    Ciphers,    \* subset of {"ecdhe", "rsa", "psk", "ecdhe_psk"}: key exchanges both sides enable
    MaxConns    \* bound: connections

\* What the configuration of a connection fixes: the server issues and takes
\* tickets; its cache is on; the client has a certificate; it may False Start,
\* and verifies again on resumption; OCSP stapling, an identity hint for PSK,
\* NPN and Channel ID are used.
ConfigKeys == {"tickets", "cache", "ccert", "false_start", "reverify", "ocsp", "hint",
               "npn", "channel_id"}

\* SSL_VERIFY_NONE, SSL_VERIFY_PEER, with SSL_VERIFY_FAIL_IF_NO_PEER_CERT, and
\* with that and SSL_VERIFY_PEER_IF_NO_OBC.
Modes == {"none", "peer", "require", "if_no_obc"}

VARIABLES
    hs,         \* SSL_HANDSHAKE and SSL3_STATE of each side
    wire,       \* wire[s]: the records on their way to s
    store,      \* the client's session for the next connection
    cache,      \* the server's session cache
    conn,       \* the number of the connection
    cfg, mode   \* its configuration; verify_mode

vars == <<hs, wire, store, cache, conn, cfg, mode>>

Sides == {"client", "server"}
Peer(s) == IF s = "client" THEN "server" ELSE "client"
NoSession == [id |-> 0, cipher |-> "none", secret |-> 0, ticket |-> <<>>, auth |-> FALSE,
              original_hash |-> <<>>]

Fresh(s) ==
    [state |-> IF s = "client" THEN "start_connect" ELSE "read_client_hello",
     wait |-> "ok", flight |-> <<>>, flights |-> 0,
     tr |-> <<>>, buffer |-> TRUE,              \* the transcript, and its buffer
     r |-> 0, w |-> 0,                          \* epochs
     session |-> NoSession, new_session |-> NoSession,
     session_id |-> 0, cipher |-> "none",
     ticket_expected |-> FALSE, status_expected |-> FALSE, cert_request |-> FALSE,
     npn |-> FALSE, channel_id |-> FALSE, peer_key |-> FALSE,
     can_release |-> FALSE, can_early_write |-> FALSE,
     cert_verified |-> FALSE, signed |-> FALSE, finished |-> FALSE, wrote |-> FALSE,
     error |-> "none"]

Init ==
    /\ hs = [s \in Sides |-> Fresh(s)]
    /\ wire = [s \in Sides |-> <<>>]
    /\ store = NoSession
    /\ cache = {}
    /\ conn = 1
    /\ cfg \in Configs
    /\ mode \in Verify

-----------------------------------------------------------------------------
(* Messages                                                                *)

CertAuth(cipher) == cipher \in {"ecdhe", "rsa"}     \* ssl_cipher_uses_certificate_auth
Ecdhe(cipher) == cipher \in {"ecdhe", "ecdhe_psk"}   \* ssl_cipher_requires_server_key_exchange
Resumed(x) == x.session # NoSession

\* Mutant: the offered session's secret is used, if any was offered.
Secret_Session(x) == x.session.secret

\* ssl_handshake_session
Secret(x) == IF x.new_session # NoSession THEN x.new_session.secret ELSE x.session.secret

\* A record of a flight; handshake messages are hashed.
Add(x, t, v) ==
    [x EXCEPT !.flight = Append(@, [t |-> t, e |-> x.w, f |-> x.flights, v |-> v]),
              !.tr = IF t = "change_cipher_spec" THEN @ ELSE Append(@, t)]

Hash(x, m) == [x EXCEPT !.tr = Append(@, m.t)]

\* Whether the record of message m holds another message
\* (has_unprocessed_handshake_data).
Unprocessed(s, m) ==
    /\ Len(wire[s]) > 1
    /\ LET n == wire[s][2]
       IN  n.t \notin {"change_cipher_spec", "app", "alert"} /\ n.e = m.e /\ n.f = m.f

\* add_change_cipher_spec, tls1_change_cipher_state and ssl_send_finished.
SendFinished(x, role) ==
    LET y == [Add(x, "change_cipher_spec", 0) EXCEPT !.w = 1]
    IN  Add(y, "finished", <<role, y.tr, Secret(y)>>)

Others == UNCHANGED <<store, cache, conn, cfg, mode>>

\* An error: the flight and, unless the peer's alert was the error, an alert
\* are sent.
Fail(s, why) ==
    LET x == hs[s]
    IN  /\ hs' = [hs EXCEPT ![s] = [@ EXCEPT !.state = "error", !.error = why, !.flight = <<>>,
                                             !.can_early_write = FALSE]]
        /\ wire' = [wire EXCEPT ![Peer(s)] =
                       IF why = "alert" THEN @
                       ELSE @ \o x.flight \o <<[t |-> "alert", e |-> x.w, f |-> 0, v |-> 0]>>]
        /\ Others

At(s, st) == hs[s].state = st /\ hs[s].wait = "ok"

\* A step that reads nothing and leaves x behind.
Local(s, x) == hs' = [hs EXCEPT ![s] = x] /\ UNCHANGED wire

\* A state that reads: a message of type t is given to Then, which yields the
\* state it leaves, and is consumed; if Optional holds of the type of another
\* one, the state machine moves on to Else without it.
Read(s, st, t, Then(_, _), Optional(_), Else(_)) ==
    LET x == hs[s]  m == Head(wire[s])
    IN  /\ At(s, st) /\ wire[s] # <<>>
        /\ IF m.e # x.r THEN Fail(s, "bad_record")
           ELSE IF m.t = "alert" THEN Fail(s, "alert")
           ELSE IF m.t = t
           THEN LET y == Then(x, m)
                IN  IF y.error # "none" THEN Fail(s, y.error)
                    ELSE /\ hs' = [hs EXCEPT ![s] = y]
                         /\ wire' = [wire EXCEPT ![s] = Tail(@)]
                         /\ Others
           ELSE IF m.t \notin {"change_cipher_spec", "app"} /\ Optional(m.t)
           THEN Local(s, Else(x)) /\ Others
           ELSE Fail(s, "unexpected_message")

Never(t) == FALSE
Same(x) == x
ReadOne(s, st, t, Then(_, _)) == Read(s, st, t, Then, Never, Same)

Go(x, st) == [x EXCEPT !.state = st]
Wrong(x, why) == [x EXCEPT !.error = why]

\* ssl_get_finished
GetFinished(s, x, m) ==
    IF m.v # <<Peer(s), x.tr, Secret(x)>> THEN Wrong(x, "digest_check_failed")
    ELSE IF Unprocessed(s, m) THEN Wrong(x, "excess_handshake_data")
    ELSE [Hash(x, m) EXCEPT !.finished = TRUE]

\* ssl_run_handshake's flush.
flush_flight(s) ==
    /\ hs[s].wait = "flush"
    /\ wire' = [wire EXCEPT ![Peer(s)] = @ \o hs[s].flight]
    /\ hs' = [hs EXCEPT ![s].flight = <<>>, ![s].wait = "ok", ![s].flights = @ + 1]
    /\ Others

-----------------------------------------------------------------------------
(* The client: handshake_client.cc                                         *)

\* A session with neither an ID nor a ticket, or one that has expired, is
\* dropped.  The ClientHello holds the session's real ID, a made-up one for a
\* ticket, or none.
do_start_connect ==
    \E keep \in BOOLEAN :
        LET resumable == store.id # 0 /\ keep
            old == IF resumable THEN store ELSE NoSession
            id  == IF old.ticket # <<>> THEN 20 + conn ELSE old.id
            x   == [hs["client"] EXCEPT !.session = old, !.session_id = id]
        IN  /\ At("client", "start_connect")
            /\ keep => resumable
            /\ Local("client", [Add(x, "client_hello", [id |-> id, ticket |-> old.ticket])
                                   EXCEPT !.state = "read_server_hello", !.wait = "flush"])
            /\ Others

do_read_server_hello ==
    LET Then(x, m) ==
            LET echoed == x.session_id # 0 /\ m.v.id = x.session_id
                y == [x EXCEPT !.cipher = m.v.cipher, !.npn = m.v.npn, !.channel_id = m.v.channel_id,
                               !.ticket_expected = m.v.ticket, !.status_expected = m.v.status]
            IN  IF echoed
                THEN IF x.session = NoSession THEN Wrong(x, "echoed_invalid_session_id")
                     ELSE IF x.session.cipher # m.v.cipher THEN Wrong(x, "old_cipher")
                     ELSE Go([Hash(y, m) EXCEPT !.buffer = FALSE],
                             IF cfg["reverify"] /\ CertAuth(m.v.cipher)
                             THEN "reverify_server_certificate" ELSE "read_session_ticket")
                ELSE Go([Hash(y, m) EXCEPT
                            !.session = NoSession,
                            !.new_session = [NoSession EXCEPT !.id = m.v.id, !.cipher = m.v.cipher],
                            !.buffer = CertAuth(m.v.cipher)],
                        "read_server_certificate")
    IN  ReadOne("client", "read_server_hello", "server_hello", Then)

do_read_server_certificate ==
    \/ /\ At("client", "read_server_certificate") /\ ~CertAuth(hs["client"].cipher)
       /\ Local("client", Go(hs["client"], "read_certificate_status"))
       /\ Others
    \/ LET Then(x, m) == Go([Hash(x, m) EXCEPT !.peer_key = TRUE], "read_certificate_status")
       IN  /\ CertAuth(hs["client"].cipher)
           /\ ReadOne("client", "read_server_certificate", "certificate", Then)

do_read_certificate_status ==
    \/ /\ At("client", "read_certificate_status") /\ ~hs["client"].status_expected
       /\ Local("client", Go(hs["client"], "verify_server_certificate"))
       /\ Others
    \/ LET Then(x, m) == Go(Hash(x, m), "verify_server_certificate")
           Else(x)    == Go(x, "verify_server_certificate")
       IN  /\ hs["client"].status_expected
           /\ Read("client", "read_certificate_status", "certificate_status", Then,
                   LAMBDA t : TRUE, Else)

\* The callback accepts or rejects.
do_verify_server_certificate ==
    /\ At("client", "verify_server_certificate")
    /\ \/ Local("client", Go([hs["client"] EXCEPT !.cert_verified = CertAuth(hs["client"].cipher)],
                             "read_server_key_exchange")) /\ Others
       \/ CertAuth(hs["client"].cipher) /\ Fail("client", "certificate_verify_failed")

do_reverify_server_certificate ==
    /\ At("client", "reverify_server_certificate")
    /\ \/ Local("client", Go([hs["client"] EXCEPT !.cert_verified = TRUE], "read_session_ticket"))
          /\ Others
       \/ Fail("client", "certificate_verify_failed")

do_read_server_key_exchange ==
    LET Then(x, m) == IF x.cipher = "rsa" THEN Wrong(x, "unexpected_message")
                      ELSE Go([Hash(x, m) EXCEPT !.signed = CertAuth(x.cipher)],
                              "read_certificate_request")
        Else(x)    == Go(x, "read_certificate_request")
    IN  Read("client", "read_server_key_exchange", "server_key_exchange", Then,
             LAMBDA t : ~Ecdhe(hs["client"].cipher), Else)

do_read_certificate_request ==
    \/ /\ At("client", "read_certificate_request") /\ ~CertAuth(hs["client"].cipher)
       /\ Local("client", Go(hs["client"], "read_server_hello_done"))
       /\ Others
    \/ LET Then(x, m) == Go([Hash(x, m) EXCEPT !.cert_request = TRUE], "read_server_hello_done")
           Else(x)    == Go([x EXCEPT !.buffer = FALSE], "read_server_hello_done")
       IN  /\ CertAuth(hs["client"].cipher)
           /\ Read("client", "read_certificate_request", "certificate_request", Then,
                   LAMBDA t : t = "server_hello_done", Else)

do_read_server_hello_done ==
    LET Then(x, m) == IF Unprocessed("client", m) THEN Wrong(x, "excess_handshake_data")
                      ELSE Go(Hash(x, m), "send_client_certificate")
    IN  ReadOne("client", "read_server_hello_done", "server_hello_done", Then)

do_send_client_certificate ==
    LET x == hs["client"]
    IN  /\ At("client", "send_client_certificate")
        /\ Local("client", Go(IF x.cert_request
                              THEN [Add(x, "certificate", cfg["ccert"]) EXCEPT !.buffer = @ /\ cfg["ccert"]]
                              ELSE x, "send_client_key_exchange"))
        /\ Others

do_send_client_key_exchange ==
    LET x == Add(hs["client"], "client_key_exchange", conn)
    IN  /\ At("client", "send_client_key_exchange")
        /\ Local("client", Go([x EXCEPT !.new_session.secret = conn],
                              "send_client_certificate_verify"))
        /\ Others

do_send_client_certificate_verify ==
    LET x == hs["client"]
    IN  /\ At("client", "send_client_certificate_verify")
        /\ Local("client", Go(IF x.cert_request /\ cfg["ccert"]
                              THEN [Add(x, "certificate_verify", x.tr) EXCEPT !.buffer = FALSE]
                              ELSE x, "send_client_finished"))
        /\ Others

\* tls1_channel_id_hash: what a Channel ID signs.
ChannelIDHash(x) == <<x.session.original_hash, x.tr>>

do_send_client_finished ==
    LET x == [hs["client"] EXCEPT !.can_release = TRUE]
        ccs == [Add(x, "change_cipher_spec", 0) EXCEPT !.w = 1]
        np  == IF x.npn THEN Add(ccs, "next_proto", 0) ELSE ccs
        cid == IF x.channel_id THEN Add(np, "channel_id", ChannelIDHash(np)) ELSE np
        fin == Add(cid, "finished", <<"client", cid.tr, Secret(cid)>>)
    IN  /\ At("client", "send_client_finished")
        /\ Local("client", [fin EXCEPT !.state = "finish_flight", !.wait = "flush"])
        /\ Others

\* can_false_start; what it asks of the MAC and of ALPN is part of the
\* configuration.
can_false_start(x) == cfg["false_start"] /\ Ecdhe(x.cipher)

do_finish_flight ==
    LET x == hs["client"]
    IN  /\ At("client", "finish_flight")
        /\ Local("client", IF Resumed(x) THEN Go(x, "finish_client_handshake")
                           ELSE [x EXCEPT !.state = "read_session_ticket",
                                          !.can_early_write = can_false_start(x),
                                          !.new_session.original_hash = x.tr])
        /\ Others

\* The session a new ticket belongs to: as sessions are immutable, a copy.
RenewedSession(x) == IF Resumed(x) THEN x.session ELSE x.new_session

do_read_session_ticket ==
    \/ /\ At("client", "read_session_ticket") /\ ~hs["client"].ticket_expected
       /\ Local("client", Go(hs["client"], "process_change_cipher_spec"))
       /\ Others
    \/ LET Then(x, m) ==
               Go(IF m.v = <<>> THEN [Hash(x, m) EXCEPT !.ticket_expected = FALSE]
                  ELSE [Hash(x, m) EXCEPT
                           !.new_session = [RenewedSession(x) EXCEPT !.ticket = m.v, !.id = 10 + conn]],
                  "process_change_cipher_spec")
       IN  /\ hs["client"].ticket_expected
           /\ ReadOne("client", "read_session_ticket", "new_session_ticket", Then)

\* Of both sides: the ChangeCipherSpec is read, and the epoch changes.
ReadChangeCipherSpec(s, next) ==
    LET Then(x, m) == Go([x EXCEPT !.r = 1], next)
    IN  ReadOne(s, "process_change_cipher_spec", "change_cipher_spec", Then)

do_read_server_finished ==
    LET Then(x, m) == Go(GetFinished("client", x, m),
                         IF Resumed(x) THEN "send_client_finished" ELSE "finish_client_handshake")
    IN  ReadOne("client", "read_server_finished", "finished", Then)

do_finish_client_handshake ==
    LET x == hs["client"]
    IN  /\ At("client", "finish_client_handshake")
        /\ Local("client", Go(x, "done"))
        /\ store' = IF x.new_session # NoSession THEN x.new_session ELSE x.session
        /\ UNCHANGED <<cache, conn, cfg, mode>>

-----------------------------------------------------------------------------
(* The server: handshake_server.cc                                         *)

\* do_read_client_hello and do_read_client_hello_after_ech: the message stays
\* until its parameters are chosen.
do_read_client_hello ==
    /\ At("server", "read_client_hello") /\ wire["server"] # <<>>
    /\ IF Head(wire["server"]).t # "client_hello" THEN Fail("server", "unexpected_message")
       ELSE IF Unprocessed("server", Head(wire["server"])) THEN Fail("server", "excess_handshake_data")
       ELSE Local("server", Go(hs["server"], "select_certificate")) /\ Others

\* The preferences of both sides may lead to any cipher.
do_select_certificate ==
    \E c \in Ciphers :
        /\ At("server", "select_certificate")
        /\ Local("server", Go([hs["server"] EXCEPT !.cipher = c], "select_parameters"))
        /\ Others

\* ssl_get_prev_session: what a ticket or an ID may lead to.  A ticket may
\* have become unreadable, a session may have left the cache.
PrevSessions(hello) ==
    {NoSession} \cup
    (IF cfg["tickets"] /\ hello.ticket # <<>> THEN ToSet(hello.ticket)
     ELSE {z \in cache : z.id = hello.id /\ hello.id # 0})

\* ssl_session_is_resumable
Resumable(z, c) == z # NoSession /\ z.cipher = c

\* Whether a full handshake asks for a certificate.  Channel ID counts as
\* negotiated if both sides use it, whatever do_send_server_hello makes of it.
AsksCertificate(cipher) ==
    /\ mode # "none"
    /\ ~(mode = "if_no_obc" /\ cfg["channel_id"])
    /\ CertAuth(cipher)

do_select_parameters ==
    LET x == hs["server"]  m == Head(wire["server"])
    IN  /\ At("server", "select_parameters")
        /\ \E prev \in PrevSessions(m.v), renew \in BOOLEAN :
              LET resume == Resumable(prev, x.cipher)
                  issue  == IF resume THEN renew ELSE cfg["tickets"]
                  y == [Hash(x, m) EXCEPT
                           !.session_id = m.v.id,
                           !.session = IF resume THEN prev ELSE NoSession,
                           !.can_release = resume,
                           !.ticket_expected = issue,
                           !.new_session = IF resume THEN NoSession
                                           ELSE [NoSession EXCEPT !.cipher = x.cipher,
                                                    !.id = IF ~issue /\ cfg["cache"] THEN conn ELSE 0],
                           !.cert_request = ~resume /\ AsksCertificate(x.cipher)]
              IN  /\ renew => resume /\ cfg["tickets"] /\ m.v.ticket # <<>>
                  /\ hs' = [hs EXCEPT !["server"] =
                               Go([y EXCEPT !.buffer = y.cert_request], "send_server_hello")]
        /\ wire' = [wire EXCEPT !["server"] = Tail(@)]
        /\ Others

ChannelIDUsed(x) ==
    cfg["channel_id"] /\ Ecdhe(x.cipher) /\ (Resumed(x) => x.session.original_hash # <<>>)

do_send_server_hello ==
    LET old == hs["server"]
        x == [old EXCEPT !.channel_id = ChannelIDUsed(old), !.npn = cfg["npn"],
                         !.status_expected = cfg["ocsp"] /\ CertAuth(old.cipher) /\ ~Resumed(old)]
    IN  /\ At("server", "send_server_hello")
        /\ Local("server",
                 Go(Add(x, "server_hello",
                        [id |-> IF Resumed(x) THEN x.session_id ELSE x.new_session.id,
                         cipher |-> x.cipher, ticket |-> x.ticket_expected,
                         status |-> x.status_expected, npn |-> x.npn, channel_id |-> x.channel_id]),
                    IF Resumed(x) THEN "send_server_finished" ELSE "send_server_certificate"))
        /\ Others

do_send_server_certificate ==
    LET x == hs["server"]
        cert == IF CertAuth(x.cipher) THEN Add(x, "certificate", TRUE) ELSE x
        stat == IF x.status_expected THEN Add(cert, "certificate_status", 0) ELSE cert
    IN  /\ At("server", "send_server_certificate")
        /\ Local("server", Go(stat, "send_server_key_exchange"))
        /\ Others

HasServerParams(x) == Ecdhe(x.cipher) \/ (x.cipher = "psk" /\ cfg["hint"])

do_send_server_key_exchange ==
    LET x == hs["server"]
    IN  /\ At("server", "send_server_key_exchange")
        /\ Local("server", Go(IF HasServerParams(x)
                              THEN [Add(x, "server_key_exchange", 0) EXCEPT !.can_release = TRUE]
                              ELSE x, "send_server_hello_done"))
        /\ Others

do_send_server_hello_done ==
    LET x  == hs["server"]
        cr == IF x.cert_request THEN Add(x, "certificate_request", 0) ELSE x
    IN  /\ At("server", "send_server_hello_done")
        /\ Local("server", [Add(cr, "server_hello_done", 0)
                               EXCEPT !.state = "read_client_certificate", !.wait = "flush"])
        /\ Others


MissingCertificate(m) == ~m.v /\ mode \in {"require", "if_no_obc"}

do_read_client_certificate ==
    \/ /\ At("server", "read_client_certificate") /\ ~hs["server"].cert_request
       /\ Local("server", Go(hs["server"], "verify_client_certificate"))
       /\ Others
    \/ LET Then(x, m) ==
               IF MissingCertificate(m) THEN Wrong(x, "peer_did_not_return_a_certificate")
               ELSE Go([Hash(x, m) EXCEPT !.peer_key = m.v, !.buffer = @ /\ m.v],
                       "verify_client_certificate")
       IN  /\ hs["server"].cert_request
           /\ ReadOne("server", "read_client_certificate", "certificate", Then)

do_verify_client_certificate ==
    /\ At("server", "verify_client_certificate")
    /\ \/ Local("server", Go([hs["server"] EXCEPT !.cert_verified = hs["server"].peer_key],
                             "read_client_key_exchange")) /\ Others
       \/ hs["server"].peer_key /\ Fail("server", "certificate_verify_failed")

do_read_client_key_exchange ==
    LET Then(x, m) == Go([Hash(x, m) EXCEPT !.new_session.secret = m.v, !.can_release = TRUE],
                         "read_client_certificate_verify")
    IN  ReadOne("server", "read_client_key_exchange", "client_key_exchange", Then)

\* Mutant: a CertificateVerify is expected when one was asked for.
NeedsCertificateVerify_Asked(x) == x.cert_request

NeedsCertificateVerify(x) == x.peer_key

do_read_client_certificate_verify ==
    \/ /\ At("server", "read_client_certificate_verify") /\ ~NeedsCertificateVerify(hs["server"])
       /\ Local("server", Go([hs["server"] EXCEPT !.buffer = FALSE], "process_change_cipher_spec"))
       /\ Others
    \/ LET Then(x, m) == IF m.v # x.tr THEN Wrong(x, "bad_signature")
                         ELSE Go([Hash(x, m) EXCEPT !.signed = TRUE, !.buffer = FALSE],
                                 "process_change_cipher_spec")
       IN  /\ NeedsCertificateVerify(hs["server"])
           /\ ReadOne("server", "read_client_certificate_verify", "certificate_verify", Then)

do_read_next_proto ==
    \/ /\ At("server", "read_next_proto") /\ ~hs["server"].npn
       /\ Local("server", Go(hs["server"], "read_channel_id"))
       /\ Others
    \/ LET Then(x, m) == Go(Hash(x, m), "read_channel_id")
       IN  hs["server"].npn /\ ReadOne("server", "read_next_proto", "next_proto", Then)

do_read_channel_id ==
    \/ /\ At("server", "read_channel_id") /\ ~hs["server"].channel_id
       /\ Local("server", Go(hs["server"], "read_client_finished"))
       /\ Others
    \/ LET Then(x, m) == IF m.v # ChannelIDHash(x) THEN Wrong(x, "channel_id_signature_invalid")
                         ELSE Go(Hash(x, m), "read_client_finished")
       IN  hs["server"].channel_id /\ ReadOne("server", "read_channel_id", "channel_id", Then)

do_read_client_finished ==
    LET Then(x, m) ==
            LET y == GetFinished("server", x, m)
            IN  IF Resumed(x) THEN Go(y, "finish_server_handshake")
                ELSE Go([y EXCEPT !.new_session.original_hash = IF x.channel_id THEN y.tr ELSE <<>>],
                        "send_server_finished")
    IN  ReadOne("server", "read_client_finished", "finished", Then)

\* Mutant: a renewed ticket is made from the handshake's own session.
TicketSession_New(x) == [x.new_session EXCEPT !.auth = x.peer_key]

\* A ticket holds the session as it is now, the peer's certificate included.
TicketSession(x) == IF Resumed(x) THEN x.session ELSE [x.new_session EXCEPT !.auth = x.peer_key]

\* The application's ticket_aead_method may seal a session to nothing.
do_send_server_finished ==
    LET x == hs["server"]
        y(ticket) == SendFinished(IF x.ticket_expected THEN Add(x, "new_session_ticket", ticket)
                                  ELSE x, "server")
    IN  /\ At("server", "send_server_finished")
        /\ \E ticket \in {<<TicketSession(x)>>, <<>>} :
              Local("server", [y(ticket) EXCEPT !.wait = "flush",
                                  !.state = IF Resumed(x) THEN "process_change_cipher_spec"
                                            ELSE "finish_server_handshake"])
        /\ Others

\* with ssl_update_cache
do_finish_server_handshake ==
    LET x   == hs["server"]
        new == [x.new_session EXCEPT !.auth = x.peer_key]
    IN  /\ At("server", "finish_server_handshake")
        /\ Local("server", Go(IF Resumed(x) THEN x ELSE [x EXCEPT !.new_session = new], "done"))
        /\ cache' = IF ~Resumed(x) /\ new.id # 0 /\ cfg["cache"]
                    THEN {z \in cache : z.id # new.id} \cup {new} ELSE cache
        /\ UNCHANGED <<store, conn, cfg, mode>>

-----------------------------------------------------------------------------
(* Data, and the next connection                                           *)

\* SSL_write, once the handshake is over or has returned early.
SSL_write(s) ==
    /\ hs[s].wait = "ok" /\ ~hs[s].wrote
    /\ hs[s].state = "done" \/ hs[s].can_early_write
    /\ hs' = [hs EXCEPT ![s].wrote = TRUE]
    /\ wire' = [wire EXCEPT ![Peer(s)] = Append(@, [t |-> "app", e |-> hs[s].w, f |-> 0, v |-> 0])]
    /\ Others

SSL_read(s) ==
    LET Then(x, m) == x
    IN  ReadOne(s, "done", "app", Then)

Over(s) == hs[s].state \in {"done", "error"}

reconnect ==
    /\ \A s \in Sides : Over(s) /\ hs[s].wait = "ok"
    /\ conn < MaxConns
    /\ conn' = conn + 1
    /\ cfg' \in Configs
    /\ hs' = [s \in Sides |-> Fresh(s)]
    /\ wire' = [s \in Sides |-> <<>>]
    /\ UNCHANGED <<store, cache, mode>>

Client ==
    \/ do_start_connect \/ do_read_server_hello \/ do_read_server_certificate
    \/ do_read_certificate_status \/ do_verify_server_certificate
    \/ do_reverify_server_certificate \/ do_read_server_key_exchange
    \/ do_read_certificate_request \/ do_read_server_hello_done \/ do_send_client_certificate
    \/ do_send_client_key_exchange \/ do_send_client_certificate_verify
    \/ do_send_client_finished \/ do_finish_flight \/ do_read_session_ticket
    \/ ReadChangeCipherSpec("client", "read_server_finished")
    \/ do_read_server_finished \/ do_finish_client_handshake
    \/ flush_flight("client") \/ SSL_write("client") \/ SSL_read("client")

Server ==
    \/ do_read_client_hello \/ do_select_certificate \/ do_select_parameters \/ do_send_server_hello
    \/ do_send_server_certificate \/ do_send_server_key_exchange \/ do_send_server_hello_done
    \/ do_read_client_certificate \/ do_verify_client_certificate \/ do_read_client_key_exchange
    \/ do_read_client_certificate_verify
    \/ ReadChangeCipherSpec("server", "read_next_proto")
    \/ do_read_next_proto \/ do_read_channel_id \/ do_read_client_finished
    \/ do_send_server_finished \/ do_finish_server_handshake
    \/ flush_flight("server") \/ SSL_write("server") \/ SSL_read("server")

Next == Client \/ Server \/ reconnect

Spec == Init /\ [][Next]_vars

-----------------------------------------------------------------------------
(* Properties                                                              *)

Done(s) == hs[s].state = "done"

\* Whenever CertificateVerify is to be signed or checked, the transcript's
\* buffer is still there (FreeBuffer is called in nine places).
SigningHasTranscript ==
    /\ LET x == hs["client"]
       IN  x.state = "send_client_certificate_verify" /\ x.cert_request /\ cfg["ccert"] => x.buffer
    /\ LET x == hs["server"]
       IN  x.state = "read_client_certificate_verify" /\ x.peer_key => x.buffer

\* SSL_can_release_private_key says that the key will not be used any more
\* only when that is so: ServerKeyExchange, the RSA key exchange and
\* CertificateVerify are behind.
KeyKept ==
    /\ LET x == hs["server"]
       IN  x.can_release => /\ ~(x.state \in {"send_server_certificate", "send_server_key_exchange"}
                                 /\ x.cipher = "ecdhe")
                            /\ ~(x.cipher = "rsa" /\ ~Resumed(x) /\ x.new_session.secret = 0)
    /\ LET x == hs["client"]
       IN  x.can_release => x.state \notin {"send_client_certificate", "send_client_key_exchange",
                                            "send_client_certificate_verify"}

\* Two sides that keep to the protocol fail only because a certificate is
\* rejected or missing, never because one does not expect what the other sends
\* or cannot open it, whatever is negotiated or resumed; and neither gives up
\* its transcript or its private key while it still needs it.
HonestSucceeds ==
    /\ \A s \in Sides : hs[s].error \in {"none", "alert", "certificate_verify_failed",
                                         "peer_did_not_return_a_certificate"}
    /\ SigningHasTranscript
    /\ KeyKept

\* Two sides that both finish agree on whether they resumed, on the cipher and
\* on the secret, and hashed the same messages (ssl_get_finished); the secret
\* is this connection's own unless they resumed.
Agreement ==
    Done("client") /\ Done("server") =>
        LET c == hs["client"]  d == hs["server"]
        IN  /\ Resumed(c) = Resumed(d)
            /\ c.cipher = d.cipher /\ Secret(c) = Secret(d) /\ c.tr = d.tr
            /\ (Secret(c) = conn) = ~Resumed(c)


\* What the client would offer next leads the server to a session with the
\* same cipher and secret, whether it is found by its ID or is in the ticket,
\* renewed tickets included.
SessionsMatch ==
    /\ \A i \in DOMAIN store.ticket :
          store.ticket[i].cipher = store.cipher /\ store.ticket[i].secret = store.secret
    /\ \A z \in cache : z.id = store.id => z.cipher = store.cipher /\ z.secret = store.secret
=============================================================================
