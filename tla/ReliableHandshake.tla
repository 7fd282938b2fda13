-------------------------- MODULE ReliableHandshake --------------------------
(***************************************************************************)
(* What the DTLS handshake promises its two endpoints: that they may run   *)
(* the TLS state machine as if their messages and ChangeCipherSpecs went   *)
(* through a channel that loses, repeats and reorders nothing.  The one    *)
(* thing the network may force is that an endpoint gives up before it is   *)
(* done; an endpoint that is done stays so.                                *)
(***************************************************************************)
EXTENDS Integers, Sequences

CONSTANTS
    Ends,       \* the two endpoints
    Script      \* per endpoint, steps [op, n] of its state machine

VARIABLES
    pos,        \* the next step of each endpoint
    status,     \* "handshake", "done" or "timed_out"
    sent,       \* items (messages and ChangeCipherSpecs) each endpoint has sent
    received    \* items each endpoint has consumed, always in order

vars == <<pos, status, sent, received>>

Peer(e) == CHOOSE p \in Ends : p # e
Step(e) == Script[e][pos[e]]
Running(e) == status[e] = "handshake" /\ pos[e] \in DOMAIN Script[e]

Init ==
    /\ pos = [e \in Ends |-> 1]
    /\ status = [e \in Ends |-> "handshake"]
    /\ sent = [e \in Ends |-> 0]
    /\ received = [e \in Ends |-> 0]

Send(e) ==
    /\ Running(e) /\ Step(e).op = "flight"
    /\ sent' = [sent EXCEPT ![e] = @ + Step(e).n]
    /\ pos' = [pos EXCEPT ![e] = @ + 1]
    /\ UNCHANGED <<status, received>>

\* The next item, if the peer has sent it.
Receive(e) ==
    /\ Running(e) /\ Step(e).op # "flight"
    /\ received[e] < sent[Peer(e)]
    /\ received' = [received EXCEPT ![e] = @ + 1]
    /\ pos' = [pos EXCEPT ![e] = @ + 1]
    /\ UNCHANGED <<status, sent>>

Finish(e) ==
    /\ status[e] = "handshake" /\ pos[e] = Len(Script[e]) + 1
    /\ status' = [status EXCEPT ![e] = "done"]
    /\ UNCHANGED <<pos, sent, received>>

GiveUp(e) ==
    /\ status[e] = "handshake"
    /\ status' = [status EXCEPT ![e] = "timed_out"]
    /\ UNCHANGED <<pos, sent, received>>

Next == \E e \in Ends : Send(e) \/ Receive(e) \/ Finish(e) \/ GiveUp(e)

Spec == Init /\ [][Next]_vars
=============================================================================
