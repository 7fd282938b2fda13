------------------------------ MODULE RefCount ------------------------------
(***************************************************************************)
(* The reference count of one object (crypto/refcount_c11.c): a            *)
(* saturating counter changed by compare-and-swap loops.  Each reference   *)
(* is held by one thread; a new one is taken on behalf of a reference that *)
(* is kept meanwhile, as every caller of CRYPTO_refcount_inc does.         *)
(***************************************************************************)
EXTENDS Naturals, FiniteSets

CONSTANTS
    Holders,           \* the references that may exist, first holder included
    First,          \* the one the object is created with
    MAX             \* CRYPTO_REFCOUNT_MAX

ASSUME HoldersAssumption == IsFiniteSet(Holders) /\ First \in Holders
ASSUME MaxAssumption == MAX \in Nat /\ MAX > 1

VARIABLES
    count,
    st,             \* per reference: none, inc, live or dec
    expected,       \* the loops' local variable
    by,             \* while in inc: the reference it is taken on behalf of
    freed           \* some thread was told that the count is zero

count_vars == <<count, st, expected, by, freed>>

CountInit ==
    /\ count = 1
    /\ st = [r \in Holders |-> IF r = First THEN "live" ELSE "none"]
    /\ expected = [r \in Holders |-> 0]
    /\ by = [r \in Holders |-> r]
    /\ freed = FALSE

\* CRYPTO_refcount_inc: the load, the loop's exit at the maximum, the
\* compare-exchange and its failure (also without reason: it is the weak one).
inc_load(q, r) ==
    /\ st[q] = "live" /\ st[r] = "none"
    /\ st' = [st EXCEPT ![r] = "inc"]
    /\ by' = [by EXCEPT ![r] = q]
    /\ expected' = [expected EXCEPT ![r] = count]
    /\ UNCHANGED <<count, freed>>

inc_saturated(r) ==
    /\ st[r] = "inc" /\ expected[r] = MAX
    /\ st' = [st EXCEPT ![r] = "live"]
    /\ UNCHANGED <<count, expected, by, freed>>

inc_exchange(r) ==
    /\ st[r] = "inc" /\ expected[r] # MAX /\ count = expected[r]
    /\ count' = expected[r] + 1
    /\ st' = [st EXCEPT ![r] = "live"]
    /\ UNCHANGED <<expected, by, freed>>

inc_fail(r) ==
    /\ st[r] = "inc" /\ expected[r] # MAX
    /\ expected' = [expected EXCEPT ![r] = count]
    /\ UNCHANGED <<count, st, by, freed>>

\* CRYPTO_refcount_dec_and_test_zero, by a holder on whose behalf none is
\* taken. With expected = 0 it calls abort(): no step is left.
dec_load(r) ==
    /\ st[r] = "live"
    /\ \A q \in Holders : st[q] = "inc" => by[q] # r
    /\ st' = [st EXCEPT ![r] = "dec"]
    /\ expected' = [expected EXCEPT ![r] = count]
    /\ UNCHANGED <<count, by, freed>>

dec_saturated(r) ==
    /\ st[r] = "dec" /\ expected[r] = MAX
    /\ st' = [st EXCEPT ![r] = "none"]
    /\ UNCHANGED <<count, expected, by, freed>>

\* Mutant: whoever brings the count to one frees.
dec_exchange_Old(r) ==
    /\ st[r] = "dec" /\ expected[r] \notin {0, MAX} /\ count = expected[r]
    /\ count' = expected[r] - 1
    /\ freed' = (freed \/ count' <= 1)
    /\ st' = [st EXCEPT ![r] = "none"]
    /\ UNCHANGED <<expected, by>>

dec_exchange(r) ==
    /\ st[r] = "dec" /\ expected[r] \notin {0, MAX} /\ count = expected[r]
    /\ count' = expected[r] - 1
    /\ freed' = (freed \/ count' = 0)
    /\ st' = [st EXCEPT ![r] = "none"]
    /\ UNCHANGED <<expected, by>>

dec_fail(r) ==
    /\ st[r] = "dec" /\ expected[r] \notin {0, MAX}
    /\ expected' = [expected EXCEPT ![r] = count]
    /\ UNCHANGED <<count, st, by, freed>>

CountNext ==
    \E r \in Holders :
        \/ inc_saturated(r) \/ inc_exchange(r) \/ inc_fail(r)
        \/ dec_load(r) \/ dec_saturated(r) \/ dec_exchange(r) \/ dec_fail(r)
        \/ \E q \in Holders : inc_load(q, r)

CountSpec == CountInit /\ [][CountNext]_count_vars

\* The owners: who has a reference and has not given it up.
Owners == {r \in Holders : st[r] \in {"live", "dec"}}

-----------------------------------------------------------------------------
CountTypeOK ==
    /\ count \in 0 .. MAX
    /\ st \in [Holders -> {"none", "inc", "live", "dec"}]
    /\ expected \in [Holders -> 0 .. MAX]
    /\ by \in [Holders -> Holders]
    /\ freed \in BOOLEAN

\* However the loops of several threads interleave, the count is the number of
\* owners, or has saturated.
CountIsOwners == count = MAX \/ count = Cardinality(Owners)

\* CRYPTO_refcount_dec_and_test_zero says zero only when no reference is left
\* and none is being taken, and never after the count has saturated; its
\* abort() on a count of zero is out of reach of callers that own what they drop.
FreedIsUnowned ==
    /\ freed => \A r \in Holders : st[r] = "none"
    /\ \A r \in Holders : st[r] = "dec" => expected[r] # 0

\* A saturated count stays so: the object is never freed.
SaturatedForEver == [][count = MAX => count' = MAX]_count_vars
=============================================================================
