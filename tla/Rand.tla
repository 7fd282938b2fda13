-------------------------------- MODULE Rand --------------------------------
(***************************************************************************)
(* RAND_bytes and the detection of duplicated address spaces               *)
(* (crypto/fipsmodule/rand).  Each thread has a CTR-DRBG, which is         *)
(* deterministic: a process that forks, or a machine that is resumed from  *)
(* a snapshot, has two copies of it.  The state of a generator is the      *)
(* entropy that went into it last and the number of blocks generated since *)
(* then, and that pair is also the block it generates next.                *)
(***************************************************************************)
EXTENDS Integers, FiniteSets

CONSTANTS
    Procs, Threads,         \* address spaces, and threads in each
    NULL,                   \* no address space yet
    Origin,                 \* the address space there is at the start
    WipeOnFork,             \* the kernel knows MADV_WIPEONFORK
    Snapsafe,               \* snapsafety_state: "success", "failed", "unsupported"
    FastRdrand,             \* have_fast_rdrand
    kReseedInterval,
    MaxChunks,              \* bound: chunks of 64 kB in a request
    MaxEntropy,             \* bound: how often entropy is drawn
    MaxReturned             \* bound: calls start while fewer blocks were returned

ASSUME KernelAssumption == WipeOnFork \in BOOLEAN /\ Snapsafe \in {"success", "failed", "unsupported"}
ASSUME ChunksAssumption == MaxChunks \in Nat \ {0}

VARIABLES
    mem,        \* per address space, its memory and threads; NULL before it exists
    entropy,    \* how often entropy was drawn
    returned,   \* history: the blocks that RAND_bytes has returned
    blind       \* history: a snapshot was resumed that nothing tells from its original

rand_vars == <<mem, entropy, returned, blind>>

NoState == [seed |-> 0, n |-> 0, calls |-> 0, fork_generation |-> 0, unsafe |-> FALSE, sgn |-> 0]
Idle == [pc |-> "idle", gen |-> 0, unsafe |-> FALSE, sgn |-> 0, add |-> 0, out |-> {}]

\* An address space after init_fork_detect: the flag in the page that is wiped,
\* g_fork_generation, g_buffering_enabled, the generation of the snapshot, and per
\* thread the generator and the call.
RandInit ==
    /\ mem = [p \in Procs |->
                IF p # Origin THEN NULL
                ELSE [flag |-> 1, gen |-> IF WipeOnFork THEN 1 ELSE 0, unsafe |-> FALSE,
                      sgn |-> IF Snapsafe = "success" THEN 1 ELSE 0,
                      tls |-> [t \in Threads |-> NoState], th |-> [t \in Threads |-> Idle]]]
    /\ entropy = 0
    /\ returned = {}
    /\ blind = FALSE

Alive == {p \in Procs : mem[p] # NULL}
Calling(p, t, pc) == p \in Alive /\ mem[p].th[t].pc = pc

-----------------------------------------------------------------------------
\* The kernel and the application.
Wiped(m) == [m EXCEPT !.flag = 0]

\* fork(): the child has the calling thread only.
fork(p, q, t) ==
    /\ Calling(p, t, "idle") /\ q \notin Alive
    /\ ~mem[p].unsafe               \* what the application promised
    /\ LET child == [mem[p] EXCEPT !.th = [u \in Threads |->
                        IF u = t THEN Idle ELSE [Idle EXCEPT !.pc = "gone"]]]
       IN  mem' = [mem EXCEPT ![q] = IF WipeOnFork THEN Wiped(child) ELSE child]
    /\ UNCHANGED <<entropy, returned, blind>>

\* Without a generation of the snapshot, a copy of m is not told from m while a
\* call is under way, nor, if its page is not wiped, where the generators take no
\* additional data: unsafe buffering is on, or there is no SysGenID device, whose
\* generation is then read as 0 with success, and forks are detected.
Unnoticed(m, wiped) ==
    /\ Snapsafe # "success"
    /\ \/ \E t \in Threads : m.th[t].pc \notin {"idle", "gone"}
       \/ ~wiped /\ ~FastRdrand /\ (m.unsafe \/ (Snapsafe = "unsupported" /\ WipeOnFork))

\* A snapshot is resumed: all threads go on where they were, and the kernel may
\* wipe the page.
snapshot(p, q) ==
    /\ p \in Alive /\ q \notin Alive
    /\ \E wiped \in BOOLEAN :
        LET copy == [mem[p] EXCEPT !.sgn = IF Snapsafe = "success" THEN @ + 1 ELSE 0]
        IN  /\ wiped => WipeOnFork
            /\ mem' = [mem EXCEPT ![q] = IF wiped THEN Wiped(copy) ELSE copy]
            /\ blind' = (blind \/ Unnoticed(mem[p], wiped))
    /\ UNCHANGED <<entropy, returned>>

RAND_enable_fork_unsafe_buffering(p) ==
    /\ p \in Alive /\ ~mem[p].unsafe
    /\ mem' = [mem EXCEPT ![p].unsafe = TRUE]
    /\ UNCHANGED <<entropy, returned, blind>>

-----------------------------------------------------------------------------
\* RAND_bytes_with_additional_data, one step per access to what is shared.
\* CRYPTO_get_fork_generation under the read lock.
get_fork_generation(p, t) ==
    /\ Calling(p, t, "idle") /\ Cardinality(returned) < MaxReturned
    /\ mem' = [mem EXCEPT ![p].th[t] =
                 [@ EXCEPT !.pc = IF mem[p].flag = 1 \/ ~WipeOnFork THEN "additional" ELSE "fork_write",
                           !.gen = mem[p].gen]]
    /\ UNCHANGED <<entropy, returned, blind>>

\* Mutant: the child's generation is not raised.
get_fork_generation_write_Same(p, t) ==
    /\ Calling(p, t, "fork_write")
    /\ mem' = [mem EXCEPT ![p] = [@ EXCEPT !.flag = 1, !.th[t].pc = "additional", !.th[t].gen = mem[p].gen]]
    /\ UNCHANGED <<entropy, returned, blind>>

\* Under the write lock: another thread may have seen the wiped page first.
get_fork_generation_write(p, t) ==
    LET gen == IF mem[p].flag = 0 THEN mem[p].gen + 1 ELSE mem[p].gen
    IN  /\ Calling(p, t, "fork_write")
        /\ mem' = [mem EXCEPT ![p] = [@ EXCEPT !.flag = 1, !.gen = gen,
                                      !.th[t].pc = "additional", !.th[t].gen = gen]]
        /\ UNCHANGED <<entropy, returned, blind>>

\* The preference for unsafe buffering, the generation of the snapshot, and the
\* additional data: entropy from the hardware or the system, or none where the
\* code takes a duplicate to be noticed: the generation of the snapshot was read,
\* be it the 0 of a machine without one, and forks are detected.
additional_data(p, t) ==
    LET c == mem[p].th[t]
        fresh == FastRdrand \/ ~((Snapsafe # "failed" /\ c.gen # 0) \/ mem[p].unsafe)
    IN  /\ Calling(p, t, "additional")
        /\ fresh => entropy < MaxEntropy
        /\ entropy' = IF fresh THEN entropy + 1 ELSE entropy
        /\ mem' = [mem EXCEPT ![p].th[t] =
                     [@ EXCEPT !.pc = "generate", !.unsafe = mem[p].unsafe, !.sgn = mem[p].sgn,
                               !.add = IF fresh THEN entropy' ELSE 0]]
        /\ UNCHANGED <<returned, blind>>

MustReseed(s, c) ==
    \/ s.calls >= kReseedInterval
    \/ s.sgn # c.sgn
    \/ s.fork_generation # c.gen
    \/ s.unsafe # c.unsafe

\* CTR_DRBG_generate from state s, chunk by chunk; the additional data enters
\* with the first. The thread's own state is updated unless it is on the stack.
CTR_DRBG_generate_from(p, t, start, stack) ==
    LET c == mem[p].th[t]
        s == IF c.add = 0 THEN start ELSE [start EXCEPT !.seed = c.add, !.n = 0]
    IN  /\ \E chunks \in 1 .. MaxChunks :
            LET end == [s EXCEPT !.n = @ + chunks, !.calls = @ + chunks]
                call == [c EXCEPT !.pc = "check", !.sgn = s.sgn,
                                  !.out = {<<s.seed, s.n + i>> : i \in 1 .. chunks}]
            IN  mem' = [mem EXCEPT ![p] = [@ EXCEPT !.tls[t] = IF stack THEN mem[p].tls[t] ELSE end,
                                                    !.th[t] = call]]
        /\ UNCHANGED <<returned, blind>>

\* The first call of a thread, or every call while there is no memory for its
\* state; a state that must be reseeded; and one that need not.
rand_get_seed(p, t) ==
    LET c == mem[p].th[t]
        seeded == [seed |-> entropy + 1, n |-> 0, calls |-> 0,
                   fork_generation |-> c.gen, unsafe |-> c.unsafe, sgn |-> c.sgn]
    IN  /\ Calling(p, t, "generate") /\ entropy < MaxEntropy
        /\ entropy' = entropy + 1
        /\ \/ /\ mem[p].tls[t] = NoState
              /\ \E stack \in BOOLEAN : CTR_DRBG_generate_from(p, t, seeded, stack)
           \/ /\ mem[p].tls[t] # NoState /\ MustReseed(mem[p].tls[t], c)
              /\ CTR_DRBG_generate_from(p, t, seeded, FALSE)

no_reseed(p, t) ==
    /\ Calling(p, t, "generate")
    /\ mem[p].tls[t] # NoState /\ ~MustReseed(mem[p].tls[t], mem[p].th[t])
    /\ CTR_DRBG_generate_from(p, t, mem[p].tls[t], FALSE)
    /\ UNCHANGED entropy

\* The generation of the snapshot is read again and compared with the one the
\* generator was seeded under; if it has changed, abort().
RAND_bytes_return(p, t) ==
    LET c == mem[p].th[t]
    IN  /\ Calling(p, t, "check")
        /\ IF Snapsafe # "failed" /\ mem[p].sgn # c.sgn
             THEN mem' = [mem EXCEPT ![p].th = [u \in Threads |-> [Idle EXCEPT !.pc = "gone"]]]
                  /\ UNCHANGED returned
             ELSE mem' = [mem EXCEPT ![p].th[t] = Idle] /\ returned' = returned \cup c.out
        /\ UNCHANGED <<entropy, blind>>

RandNext ==
    \E p \in Procs :
        \/ RAND_enable_fork_unsafe_buffering(p)
        \/ \E q \in Procs : snapshot(p, q)
        \/ \E q \in Procs, t \in Threads : fork(p, q, t)
        \/ \E t \in Threads :
            \/ get_fork_generation(p, t) \/ get_fork_generation_write(p, t)
            \/ additional_data(p, t) \/ rand_get_seed(p, t) \/ no_reseed(p, t)
            \/ RAND_bytes_return(p, t)

RandSpec == RandInit /\ [][RandNext]_rand_vars

-----------------------------------------------------------------------------
\* No block is ever returned twice: not by a parent and its child, not by a
\* machine and its clone, not by two threads, and not by one after another,
\* whichever of the fork generation, the snapshot generation, the preference
\* for unsafe buffering and the additional data is what tells them apart. It
\* ends with the first snapshot that is resumed Unnoticed, which is what becomes
\* of "the mechanism is ignored" where there is no SysGenID (BUILDING.md).
NeverRepeated ==
    [][\A p \in Procs, t \in Threads :
        ~blind /\ Calling(p, t, "check") /\ mem'[p].th[t].pc = "idle" =>
            mem[p].th[t].out \cap returned = {}]_rand_vars
=============================================================================
