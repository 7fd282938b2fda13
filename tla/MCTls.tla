-------------------------------- MODULE MCTls --------------------------------
(***************************************************************************)
(* Instances of Tls12Handshake and Tls13Handshake.  A behaviour is one of  *)
(* connections of one version, and the two modules share the variables for *)
(* what both versions have.  For TLS 1.2: one connection of any            *)
(* configuration, and three of which the later may resume the earlier.     *)
(* For TLS 1.3: one connection of any configuration, two of which the      *)
(* second offers early data, all of which a server that rejects it skips   *)
(* or, in records so small that their overhead counts, not all; and one    *)
(* with key updates.                                                       *)
(***************************************************************************)
EXTENDS Naturals, Sequences

VARIABLES
    part,                                           \* what this behaviour is about
    hs, wire, store, conn, cfg, mode, cache         \* of the two modules

\* The names of the configurations' switches (ConfigKeys of the two modules).
Keys12 == {"tickets", "cache", "ccert", "false_start", "reverify", "ocsp", "hint", "npn",
           "channel_id"}
Keys13 == {"tickets", "early_client", "early_server", "retry", "ccert", "reverify", "channel_id",
           "alpn", "alps"}
With(on) == [k \in Keys13 |-> k \in on]

\* For several TLS 1.2 connections: what resumption depends on varies.
Resume12 ==
    {[k \in Keys12 |-> CASE k \in {"cache", "ccert", "npn"} -> TRUE [] k = "tickets" -> t
                         [] k \in {"channel_id", "reverify"} -> i [] OTHER -> FALSE] :
        t \in BOOLEAN, i \in BOOLEAN}

\* A first TLS 1.3 connection that issues tickets for early data, with settings
\* or not, and a later one: everything early data depends on varies.
Ticket13 == {With({"tickets", "early_server", "ccert"}),
             With({"tickets", "early_server", "ccert", "alps"})}
Resume13 ==
    {With({"tickets", "early_client"} \cup on) :
        on \in SUBSET {"early_server", "retry", "reverify", "channel_id", "alpn", "alps"}}
SmallResume13 ==
    {With({"tickets", "early_client"} \cup on) : on \in SUBSET {"early_server", "retry"}}

Any12 == INSTANCE Tls12Handshake WITH
    Configs <- [Keys12 -> BOOLEAN], Verify <- {"none", "peer", "require", "if_no_obc"},
    Ciphers <- {"ecdhe", "rsa", "psk", "ecdhe_psk"}, MaxConns <- 1
Again12 == INSTANCE Tls12Handshake WITH
    Configs <- Resume12, Verify <- {"none", "require"}, Ciphers <- {"ecdhe", "rsa"}, MaxConns <- 3
Any13 == INSTANCE Tls13Handshake WITH
    FirstConfigs <- [Keys13 -> BOOLEAN], Configs <- {},
    Verify <- {"none", "peer", "require", "if_no_obc"}, Ciphers <- {"aes128", "aes256"},
    NumTickets <- 2, MaxEarly <- 1, MaxSkipped <- 1, MaxConns <- 1, MaxWrites <- 1, MaxUpdates <- 0
Early13 == INSTANCE Tls13Handshake WITH
    FirstConfigs <- Ticket13, Configs <- Resume13, Verify <- {"none", "require"},
    Ciphers <- {"aes128", "chacha20", "aes256"}, NumTickets <- 1, MaxEarly <- 1, MaxSkipped <- 1,
    MaxConns <- 2, MaxWrites <- 2, MaxUpdates <- 0
Small13 == INSTANCE Tls13Handshake WITH
    FirstConfigs <- {With({"tickets", "early_server"})}, Configs <- SmallResume13,
    Verify <- {"none"}, Ciphers <- {"aes128"}, NumTickets <- 1, MaxEarly <- 2, MaxSkipped <- 1,
    MaxConns <- 2, MaxWrites <- 2, MaxUpdates <- 0
Update13 == INSTANCE Tls13Handshake WITH
    FirstConfigs <- {With({"tickets"})}, Configs <- {}, Verify <- {"none"},
    Ciphers <- {"aes128"}, NumTickets <- 1, MaxEarly <- 0, MaxSkipped <- 1, MaxConns <- 1,
    MaxWrites <- 3, MaxUpdates <- 2

Is12 == part \in {"any 1.2", "again 1.2"}

Init ==
    \/ part = "any 1.2" /\ Any12!Init
    \/ part = "again 1.2" /\ Again12!Init
    \/ part = "any 1.3" /\ Any13!Init /\ cache = {}
    \/ part = "early 1.3" /\ Early13!Init /\ cache = {}
    \/ part = "small 1.3" /\ Small13!Init /\ cache = {}
    \/ part = "update 1.3" /\ Update13!Init /\ cache = {}

Next ==
    /\ UNCHANGED part
    /\ \/ part = "any 1.2" /\ Any12!Next
       \/ part = "again 1.2" /\ Again12!Next
       \/ part = "any 1.3" /\ Any13!Next /\ UNCHANGED cache
       \/ part = "early 1.3" /\ Early13!Next /\ UNCHANGED cache
       \/ part = "small 1.3" /\ Small13!Next /\ UNCHANGED cache
       \/ part = "update 1.3" /\ Update13!Next /\ UNCHANGED cache

Spec == Init /\ [][Next]_<<part, hs, wire, store, conn, cfg, mode, cache>>

-----------------------------------------------------------------------------
\* Two sides that keep to the protocol fail only because a certificate is
\* rejected or missing, or, in TLS 1.3, because a server that rejects early
\* data was sent more than it skips, whatever is negotiated, retried or
\* resumed, and neither gives up its transcript or its private key while it
\* still needs it (the do_ functions of the four state machines).
HonestSucceeds == IF Is12 THEN Any12!HonestSucceeds ELSE Any13!HonestSucceeds

\* Two sides that both finish agree on what was resumed, on the cipher and on
\* the secrets, and, in TLS 1.3, on whether early data was accepted and on the
\* protocol and its settings.
Agreement == IF Is12 THEN Any12!Agreement ELSE Any13!Agreement


\* What the client would offer next leads the server to a session with the
\* same cipher and secret (and, in TLS 1.3, protocol, settings and limit of
\* early data), whether it is found by its ID or is in the ticket.
SessionsMatch == IF Is12 THEN Any12!SessionsMatch ELSE Any13!SessionsMatch

\* What a TLS 1.3 application reads is, in order, what its peer wrote and was
\* not told to be rejected: early data is never both delivered and rejected,
\* and none is lost when both have finished and all was read.
StreamIntact == Is12 \/ Any13!StreamIntact
=============================================================================
