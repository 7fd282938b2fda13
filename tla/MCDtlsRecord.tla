---------------------------- MODULE MCDtlsRecord ----------------------------
(***************************************************************************)
(* Instances of DtlsRecord and of DtlsTimer for TLC.  The two share no     *)
(* state, so one run asks about both: a behaviour is one of the record     *)
(* layer, while the timer rests, or one of the timer.  Those of the record *)
(* layer carry either data over two epochs or records of every kind, the   *)
(* alerts among them and the receiver's shutdown, at the start of each.    *)
(*                                                                         *)
(* A two-bit window over a few numbers per epoch shows records inside the  *)
(* window, on its edge and behind it, jumps of the window by less than,    *)
(* exactly and more than its size, and the overflow of the sequence        *)
(* number.  The clock shows instants on both sides of a second and of the  *)
(* 15 ms the library rounds away.                                          *)
(***************************************************************************)
EXTENDS DtlsRecord, DtlsTimer

VARIABLE part   \* what this behaviour is about

AlertRecords == 3   \* bound: records of a behaviour with alerts

MCTimes == [sec : 1 .. 3, usec : {0, 14999, 15000, 500000, 985001, 999999}]
MCShifts == {-1500000, -1000000, -1, 0, 1, 485001, 1000000}
FirstTime == [sec |-> 1, usec |-> 0]

MCInit ==
    /\ part \in {"data", "alerts", "timer"}
    /\ Init
    /\ TimerInit /\ (part # "timer" => now = FirstTime)

MCNext ==
    \/ /\ part # "timer" /\ Next /\ UNCHANGED <<part, timer_vars>>
       /\ part = "data" => (\A r \in net' : r.kind = "data") /\ ~closed'
       /\ part = "alerts" => Cardinality(sealed') <= AlertRecords
    \/ part = "timer" /\ TimerNext /\ UNCHANGED <<part, vars>>

MCSpec == MCInit /\ [][MCNext]_<<part, vars, timer_vars>>
=============================================================================
