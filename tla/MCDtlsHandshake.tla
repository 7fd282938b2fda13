--------------------------- MODULE MCDtlsHandshake ---------------------------
(***************************************************************************)
(* Instances of DtlsHandshake: a full handshake with a session ticket, of  *)
(* a client and a server.                                                  *)
(***************************************************************************)
EXTENDS DtlsHandshake, TLC

CONSTANTS client, server

MCEnds == {client, server}

Flight(k) == [op |-> "flight", n |-> k]
Recv == [op |-> "recv", n |-> 1]
RecvCcs == [op |-> "recv_ccs", n |-> 1]

\* ClientHello; ClientKeyExchange, ChangeCipherSpec, Finished.
\* ServerHello, ServerHelloDone; NewSessionTicket, ChangeCipherSpec, Finished.
FullItems == (client :> <<"msg", "msg", "ccs", "fin">>)
          @@ (server :> <<"msg", "msg", "msg", "ccs", "fin">>)
FullScript ==
    (client :> <<Flight(1), Recv, Recv, Flight(3), Recv, RecvCcs, Recv>>)
 @@ (server :> <<Recv, Flight(2), Recv, RecvCcs, Recv, Flight(3)>>)
=============================================================================
