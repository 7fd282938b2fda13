--------------------------- MODULE MCDtlsFlight ---------------------------
(***************************************************************************)
(* Instances of DtlsFlight.  A body of n bytes stands for a message that   *)
(* needs n minimal fragments; the MTUs split the longest message of the    *)
(* server at every offset and let packets hold several messages.           *)
(***************************************************************************)
EXTENDS DtlsFlight

Msg(n) == [op |-> "msg", len |-> n]
Ccs == [op |-> "ccs", len |-> 0]
Flush == [op |-> "flush", len |-> 0]
Read == [op |-> "read", len |-> 0]

\* Server, full handshake: ClientHello read; ServerHello, Certificate and an
\* empty ServerHelloDone; ClientKeyExchange and Finished read; the last flight.
ServerScript ==
    <<Read, Msg(1), Msg(5), Msg(0), Flush, Read, Read, Msg(1), Ccs, Msg(2), Flush>>

MCMtus == {4, 5, 6, 7}
MCOverhead == [e \in {0, 1} |-> 1 + e]
MCSealed == [e \in {0, 1} |-> {1, 1 + e}]
=============================================================================
