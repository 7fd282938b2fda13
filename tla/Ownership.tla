------------------------------ MODULE Ownership ------------------------------
(***************************************************************************)
(* Who frees what.  A C function is a short program over the pointers it   *)
(* holds: where it allocates, what it hands over to a container or to its  *)
(* caller, the steps that can fail and the label they fail to, its loops,  *)
(* and what its clean-up frees.  Calls are taken at their contract: a call *)
(* that makes an object returns one the caller owns, or fails and leaves   *)
(* nothing; the callee is a program of its own.  Behaviours run every      *)
(* program with every choice of failing step, branch and number of rounds. *)
(***************************************************************************)
EXTENDS Naturals, Sequences, SequencesExt

CONSTANT
    Code        \* the programs, by the name of the function

VARIABLES
    fn,         \* the function running, "" between two
    pc,         \* its next step
    st,         \* what each pointer of it is (see Status)
    fault       \* the rule that has been broken, "" while none has

vars == <<fn, pc, st, fault>>

(* A pointer is null; owned by the function; lent: the object belongs to    *)
(* the caller or to something the caller holds; held: the pointer is itself *)
(* a field of the caller's object, and the only one to what it points to;   *)
(* or freed.  The name of another pointer means that the object belongs to  *)
(* what that one holds.                                                     *)
Status == {"null", "owned", "lent", "held", "freed"}

-----------------------------------------------------------------------------
(* The steps of a program.                                                  *)
Param(v) == <<"param", v>>              \* an argument, which belongs to the caller
MayParam(v) == <<"may_param", v>>       \* an argument that may be NULL
Holds(v) == <<"holds", v>>              \* a field of the caller's, NULL or not
New(v, l) == <<"new", v, l>>            \* v = X_new(); on failure v is NULL and goto l
Own(v) == <<"own", v>>                  \* an allocation or reference that cannot fail
Give(v, l) == <<"give", v, "lent", l>>  \* hand v to something of the caller's
Put(v, c, l) == <<"give", v, c, l>>     \* hand v to what c holds
Given(v, c) == <<"given", v, c>>        \* the same, without a way to fail
Take(v) == <<"take", v>>                \* v is the function's own from here on
Free(S) == <<"free", S>>                \* X_free of each of S, which accepts NULL
Null(v) == <<"null", v>>                \* v = NULL
Move(w, v) == <<"move", w, v>>          \* w = v; v = NULL
Use(v) == <<"use", v>>                  \* v is dereferenced
Mark(v) == <<"mark", v>>                \* a flag
IfNull(v, l) == <<"if_null", v, l>>
Try(l) == <<"branch", l>>               \* something here may fail
Branch(l) == <<"branch", l>>            \* a condition, a loop left or taken
Goto(l) == <<"goto", l>>
Label(l) == <<"label", l>>
Return(v) == <<"return", v>>            \* return v, which the caller then owns
Done == <<"done">>                      \* return with nothing to own

(* Steps that occur together in many programs.                              *)

(* CBB_finish hands the buffer of c over to d, or fails.                    *)
Finish(c, d, l) == <<Try(l), Move(d, c)>>

(* v is given to c when there is one.                                       *)
GivenIfAny(v, c, none) == <<IfNull(v, none), Given(v, c), Label(none)>>

(* An argument v that is NULL or the caller's; where v is NULL, v is made   *)
(* and belongs to the function until it succeeds.                           *)
InOut(v) ==
    <<MayParam(v), IfNull(v, "was null"), Goto("was not"), Label("was null"), Mark("was_null"),
      Label("was not")>>
Make(v, l, make, made) == <<IfNull(v, make), Goto(made), Label(make), New(v, l), Label(made)>>
PassBack(v) == <<IfNull("was_null", "as given"), Given(v, "lent"), Label("as given"), Done>>
ReturnMade(v) == <<IfNull("was_null", "as given"), Return(v), Label("as given"), Done>>
DropMade(v) == <<IfNull("was_null", "not made"), Free({v}), Null(v), Label("not made"), Done>>

(* v is made, used by one call and freed.                                     *)
Temporary(v) == <<New(v, "fail"), Use(v), Free({v}), Label("fail"), Done>>

(* v is made and added to something of the caller's, or freed.                *)
AddNew(v) == <<New(v, "fail"), Give(v, "bad"), Done, Label("bad"), Free({v}), Label("fail"), Done>>

(* ret is made from v, which is freed.                                        *)
MadeFrom(v, ret) ==
    <<New(v, "fail"), New(ret, "none"), Label("none"), Free({v}), Return(ret),
      Label("fail"), Done>>

(* What a field of the caller's object holds is freed, if anything.           *)
FreeField(v, none) == <<IfNull(v, none), Take(v), Free({v}), Label(none)>>

(* The field f is assigned v, and is the owner of it from then on.            *)
Store(v, f) == <<Null(f), Given(v, "lent")>>

(* A field is replaced by a copy, which is made first.                        *)
Replace(old, new) ==
    <<Holds(old), Branch("same"), New(new, "same")>> \o FreeField(old, "no old") \o
    Store(new, old) \o <<Label("same"), Done>>

(* A field is freed, then set.                                                *)
FreeThenSet(old, new) ==
    <<Holds(old), Try("fail")>> \o FreeField(old, "no old") \o
    <<New(new, "fail")>> \o Store(new, old) \o <<Label("fail"), Done>>

(* A field v of c, which may be left empty.                                   *)
Field(v, c, l) == <<New(v, l), Given(v, c), Label(l)>>

(* The object is the caller's, or made here and freed on failure.             *)
SetUp(v) ==
    InOut(v) \o Make(v, "fail", "make", "made") \o <<Try("err")>> \o ReturnMade(v) \o
    <<Label("err")>> \o DropMade(v) \o <<Label("fail"), Done>>

(* v is made, filled in and returned, or freed.                               *)
MakeAndFill(v) ==
    <<New(v, "fail"), Try("bad"), Return(v), Label("bad"), Free({v}), Label("fail"), Done>>

NamesOf(i) ==
    CASE i[1] = "free" -> i[2]
      [] i[1] = "move" -> {i[2], i[3]}
      [] i[1] \in {"branch", "goto", "label", "done"} -> {}
      [] OTHER -> {i[2]}

Names(f) == UNION {NamesOf(Code[f][i]) : i \in DOMAIN Code[f]}

Instr == Code[fn][pc]
At(op) == fn # "" /\ fault = "" /\ Instr[1] = op

Target(l) == CHOOSE i \in DOMAIN Code[fn] : Code[fn][i][1] = "label" /\ Code[fn][i][2] = l

(* The steps' effects.  An object that is left behind while it is owned is  *)
(* lost, and so is one whose only pointer, the function's or the caller's   *)
(* field, is assigned over; what is freed must be the function's own.       *)
Goes(l) == pc' = Target(l)
Advances == pc' = pc + 1
Breaks(rule) == fault' = rule /\ UNCHANGED <<fn, pc, st>>
Sets(v, s) == st' = [st EXCEPT ![v] = s] /\ UNCHANGED <<fn, fault>>
OnlyPointer(v) == st[v] \in {"owned", "held"}

RECURSIVE Held(_, _)
Held(S, from) ==
    LET inside == {v \in DOMAIN from : from[v] \in S} \ S
    IN  IF inside = {} THEN S ELSE Held(S \cup inside, from)

Init ==
    /\ fn = ""
    /\ pc = 0
    /\ st = <<>>
    /\ fault = ""

Start(f) ==
    /\ fn = ""
    /\ fault = ""
    /\ fn' = f
    /\ pc' = 1
    /\ st' = [v \in Names(f) |-> "null"]
    /\ UNCHANGED fault

Argument ==
    \/ At("param") /\ Sets(Instr[2], "lent") /\ Advances
    \/ At("may_param") /\ Advances /\ \E s \in {"lent", "null"} : Sets(Instr[2], s)
    \/ At("holds") /\ Advances /\ \E s \in {"held", "null"} : Sets(Instr[2], s)
    \/ At("mark") /\ Sets(Instr[2], "lent") /\ Advances

Allocate ==
    /\ At("new") \/ At("own")
    /\ IF OnlyPointer(Instr[2]) THEN Breaks("leak")
       ELSE \/ Sets(Instr[2], "owned") /\ Advances
            \/ At("new") /\ Sets(Instr[2], "null") /\ Goes(Instr[3])

(* A hand-over works, and then the object is the recipient's; or it fails   *)
(* and the object stays where it was.                                       *)
HandOver ==
    /\ At("give") \/ At("given")
    /\ IF st[Instr[2]] # "owned" THEN Breaks("not owned")
       ELSE \/ Sets(Instr[2], Instr[3]) /\ Advances
            \/ At("give") /\ Goes(Instr[4]) /\ UNCHANGED <<fn, st, fault>>

TakeBack ==
    /\ At("take")
    /\ IF st[Instr[2]] \in {"null", "freed", "owned"} THEN Breaks("not owned")
       ELSE Sets(Instr[2], "owned") /\ Advances

Release ==
    /\ At("free")
    /\ IF \E v \in Instr[2] : st[v] \notin {"null", "owned"} THEN Breaks("not owned")
       ELSE LET gone == Held({v \in Instr[2] : st[v] = "owned"}, st)
            IN  /\ st' = [v \in DOMAIN st |-> IF v \in gone THEN "freed" ELSE st[v]]
                /\ Advances
                /\ UNCHANGED <<fn, fault>>

Assign ==
    \/ /\ At("null")
       /\ IF OnlyPointer(Instr[2]) THEN Breaks("leak") ELSE Sets(Instr[2], "null") /\ Advances
    \/ /\ At("move")
       /\ IF OnlyPointer(Instr[2]) THEN Breaks("leak")
          ELSE /\ st' = [v \in DOMAIN st |->
                            CASE v = Instr[2] -> st[Instr[3]]
                              [] v = Instr[3] -> "null"
                              [] st[v] = Instr[3] -> Instr[2]
                              [] OTHER -> st[v]]
               /\ Advances
               /\ UNCHANGED <<fn, fault>>

Dereference ==
    /\ At("use")
    /\ IF st[Instr[2]] \in {"null", "freed"} THEN Breaks("dangling")
       ELSE Advances /\ UNCHANGED <<fn, st, fault>>

Jump ==
    /\ \/ At("label") /\ Advances
       \/ At("goto") /\ Goes(Instr[2])
       \/ At("branch") /\ (Advances \/ Goes(Instr[2]))
       \/ At("if_null") /\ IF st[Instr[2]] = "null" THEN Goes(Instr[3]) ELSE Advances
    /\ UNCHANGED <<fn, st, fault>>

Leave ==
    /\ At("return") \/ At("done")
    /\ LET returned == IF Instr[1] = "return" THEN {Instr[2]} ELSE {}
       IN  IF \E v \in DOMAIN st \ returned : st[v] = "owned" THEN Breaks("leak")
           ELSE IF \E v \in returned : st[v] \notin {"null", "owned"} THEN Breaks("dangling")
           ELSE /\ fn' = ""
                /\ pc' = 0
                /\ st' = <<>>
                /\ UNCHANGED fault

Next ==
    \/ \E f \in DOMAIN Code : Start(f)
    \/ Argument
    \/ Allocate
    \/ HandOver
    \/ TakeBack
    \/ Release
    \/ Assign
    \/ Dereference
    \/ Jump
    \/ Leave

Spec == Init /\ [][Next]_vars

-----------------------------------------------------------------------------
(* Whichever step fails, whichever way a loop goes, every program keeps the *)
(* rules of ownership to its return.  Nothing it has allocated is lost, at  *)
(* an early return or by assigning over its pointer, nor what a field of    *)
(* the caller's object held, which is freed before the field is set; what   *)
(* it frees or hands over is its own at that point, so that nothing is      *)
(* freed twice or freed after a container has taken it; and no pointer is   *)
(* used or returned after its object went, with the container it was handed *)
(* to or by itself.                                                         *)
RulesKept == fault = ""
=============================================================================
