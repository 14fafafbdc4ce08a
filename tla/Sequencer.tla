------------------------------ MODULE Sequencer ------------------------------
(***************************************************************************)
(* The sequencers of examples/sequencer and examples/sequencer_generic: a  *)
(* thread, or the handler of a timer signal, counts cycles and posts the   *)
(* semaphores of the services that are due; services wait, work, and look  *)
(* at an abort flag.  The programs differ in rates, priorities and cores,  *)
(* in the service loop and in the order of the shutdown; the constant      *)
(* Programs holds these differences (SequencerPrograms).                   *)
(*                                                                         *)
(* Scheduling is SCHED_FIFO: a pinned thread runs only while no more       *)
(* urgent one of its core can, an unpinned one only while the more urgent  *)
(* ones leave it a core.  Cycles that release nothing are passed over.     *)
(* A program is overloaded when the work of a service takes more than      *)
(* Budget cycles or lasts beyond its next release; overload is not         *)
(* modelled.  The time a service waits for its device is not work: the     *)
(* cycles go on meanwhile.                                                 *)
(***************************************************************************)
EXTENDS Integers, Sequences, FiniteSets, FiniteSetsExt

CONSTANTS
    Programs,     \* name -> what is particular to that program
    Cores,        \* how many cores unpinned threads share
    Budget,       \* how many cycles a service may need
    MaxCycles     \* bound: no program runs for more cycles than this

Unpinned == 0     \* the core of a thread that may run on any

(* main creates the threads last.  A service's loop has one wait, after the *)
(* test of its flag, and ends with the end of its work, if that is more     *)
(* than to count; the shutdown sets the flag of every service and posts its *)
(* semaphore once.                                                          *)
WellFormed(q) ==
    /\ Len(q.rates) \in Nat \ {0} /\ DOMAIN q.rates = 1 .. Len(q.rates)
    /\ \A s \in DOMAIN q.rates : q.rates[s] \in Nat
    /\ Len(q.startup) \in Nat \ {0} /\ DOMAIN q.startup = 1 .. Len(q.startup)
    /\ \A i \in 1 .. Len(q.startup) : q.startup[i] = "create" <=> i = Len(q.startup)
    /\ q.first \in {0, 1} /\ q.last \in Nat
    /\ Len(q.loop) \in Nat /\ Len(q.loop) > 1 /\ DOMAIN q.loop = 1 .. Len(q.loop)
    /\ \A i \in 1 .. Len(q.loop) : q.loop[i] = "wait" <=> i = 2
    /\ q.loop[1] = "check"
    /\ \A i \in 3 .. Len(q.loop) :
           q.loop[i] \in {"check", "begin", "done"} /\ (q.loop[i] = "done" <=> i = Len(q.loop))
    /\ Len(q.shutdown) \in Nat \ {0} /\ DOMAIN q.shutdown = 1 .. Len(q.shutdown)
    /\ \A s \in DOMAIN q.rates :
        /\ \E i \in DOMAIN q.shutdown : s \in q.shutdown[i].posts
        /\ \E i \in DOMAIN q.shutdown : s \in q.shutdown[i].aborts
        /\ \A i, j \in DOMAIN q.shutdown :
               s \in q.shutdown[i].posts /\ s \in q.shutdown[j].posts => i = j
    /\ q.abortsFirst \in BOOLEAN

ASSUME ProgramsAssumption == \A p \in DOMAIN Programs : WellFormed(Programs[p])
ASSUME MaxCyclesAssumption == MaxCycles \in Nat

VARIABLES
    program,      \* which of the programs runs, chosen at the start
    punctual,     \* whether a device that a service reads is always ready
    stage,        \* what the sequencer, and before it main, is doing
    k,            \* the next step of that stage
    cycle,        \* seqCnt
    abortTest,    \* a service asked for the shutdown
    sem,          \* the value of each service's semaphore
    abort,        \* each service's abort flag
    pc,           \* where each service is in its loop; 0: it does not run
    work          \* how often each service did its work

seqVars == <<program, punctual, stage, k, cycle, abortTest, sem, abort, pc, work>>
mainVars == <<stage, k, cycle>>

P == Programs[program]
Services == DOMAIN P.rates
Last == Min({P.last, MaxCycles})
At(s) == IF pc[s] = 0 THEN "none" ELSE P.loop[pc[s]]

SeqInit ==
    /\ program \in DOMAIN Programs
    /\ punctual \in (IF P.blocking = {} THEN {TRUE} ELSE BOOLEAN)
    /\ stage = "startup" /\ k = 1
    /\ cycle = P.first - 1
    /\ abortTest = FALSE
    /\ sem = [s \in Services |-> 0]
    /\ abort = [s \in Services |-> FALSE]
    /\ pc = [s \in Services |-> 0]
    /\ work = [s \in Services |-> 0]

-----------------------------------------------------------------------------
(* Who may run *)

Ready(s) == pc[s] # 0 /\ (At(s) = "wait" => sem[s] > 0)

(* A service whose device may be late waits for it, at the end of its work, *)
(* as long as the device likes.                                             *)
Late(s) == ~punctual /\ s \in P.blocking
MayBlock(s) == Late(s) /\ At(s) = "done"

(* Thread 0 is the sequencer. *)
Runs(t) == IF t = 0 THEN stage \in {"release", "shutdown"}
                    ELSE Ready(t) /\ ~MayBlock(t)

Pinned(t) == P.cores[t] # Unpinned

(* The threads that the kernel prefers to s where s may run. *)
Ahead(s) ==
    {t \in {0} \union Services :
        P.cores[t] = P.cores[s] /\ P.priority[t] < P.priority[s] /\ Runs(t)}

MayRun(s) ==
    /\ stage # "exit"
    /\ IF Pinned(s) THEN Ahead(s) = {} ELSE Cardinality(Ahead(s)) < Cores

-----------------------------------------------------------------------------
(* Cycles *)

(* slip: the test before the count is raised *)
DueLate(c, s) == P.rates[s] # 0 /\ c % P.rates[s] = 1

Due(c, s) == P.rates[s] # 0 /\ c % P.rates[s] = 0

(* The next cycle that releases a service, or the one after a request to    *)
(* shut down, which may come at any time.                                   *)
NextRelease ==
    LET rated == {P.rates[s] : s \in Services} \ {0}
    IN Min({Last} \union {((cycle \div r) + 1) * r : r \in rated})

NextCycles == {NextRelease} \union (IF abortTest THEN {cycle + 1} ELSE {})

(* Every service that does not wait for its device ends its work in time. *)
InTime(c) ==
    \A s \in Services : Ready(s) /\ ~MayBlock(s) /\ P.rates[s] # 0 =>
        LET released == cycle - (cycle % P.rates[s])
        IN c < released + P.rates[s] /\ c <= released + Budget

-----------------------------------------------------------------------------
(* main: camera, semaphores and scheduler fail with exit(); the threads are *)
(* created last, the sequencer or its timer after the services.             *)
Startup ==
    /\ stage = "startup"
    /\ IF P.startup[k] = "create"
       THEN /\ stage' = "sleep" /\ k' = 1
            /\ pc' = [s \in Services |-> 1]
       ELSE /\ \/ stage' = stage /\ k' = k + 1
               \/ stage' = "exit" /\ k' = k
            /\ UNCHANGED pc
    /\ UNCHANGED <<program, punctual, cycle, abortTest, sem, abort, work>>

(* slip: the timer has no interval, it expires once *)
TickOnce ==
    /\ stage = "sleep" /\ cycle = P.first - 1
    /\ \E c \in NextCycles : cycle < c /\ c <= Last /\ InTime(c) /\ cycle' = c
    /\ stage' = IF P.abortsFirst /\ abortTest THEN "shutdown" ELSE "release"
    /\ k' = 1
    /\ UNCHANGED <<program, punctual, abortTest, sem, abort, pc, work>>

(* The sleep of the thread, or of the timer, ends; the bound is the last    *)
(* cycle also where the code has none.                                      *)
Tick ==
    /\ stage = "sleep"
    /\ \E c \in NextCycles : cycle < c /\ c <= Last /\ InTime(c) /\ cycle' = c
    /\ stage' = IF P.abortsFirst /\ abortTest THEN "shutdown" ELSE "release"
    /\ k' = 1
    /\ UNCHANGED <<program, punctual, abortTest, sem, abort, pc, work>>

AfterReleases ==
    IF P.abortsFirst THEN IF \A s \in Services : abort[s] THEN "ended" ELSE "sleep"
    ELSE IF abortTest \/ cycle >= Last THEN "shutdown" ELSE "sleep"

(* One test of the count, and the sem_post if the service is due. *)
Release ==
    /\ stage = "release"
    /\ sem' = IF Due(cycle, k) THEN [sem EXCEPT ![k] = @ + 1] ELSE sem
    /\ IF k = Len(P.rates) THEN stage' = AfterReleases /\ k' = 1
                           ELSE stage' = stage /\ k' = k + 1
    /\ UNCHANGED <<program, punctual, cycle, abortTest, abort, pc, work>>

(* slip: the last statement is missing *)
ShutdownButLast ==
    /\ stage = "shutdown"
    /\ LET op == P.shutdown[k]
       IN /\ sem' = [s \in Services |-> IF s \in op.posts THEN sem[s] + 1
                                                          ELSE sem[s]]
          /\ abort' = [s \in Services |-> abort[s] \/ s \in op.aborts]
    /\ IF k < Len(P.shutdown) - 1 THEN stage' = stage /\ k' = k + 1
       ELSE stage' = (IF P.abortsFirst THEN "release" ELSE "ended") /\ k' = 1
    /\ UNCHANGED <<program, punctual, cycle, abortTest, pc, work>>

(* One statement of the shutdown: it sets flags or posts semaphores. *)
Shutdown ==
    /\ stage = "shutdown"
    /\ LET op == P.shutdown[k]
       IN /\ sem' = [s \in Services |-> IF s \in op.posts THEN sem[s] + 1
                                                          ELSE sem[s]]
          /\ abort' = [s \in Services |-> abort[s] \/ s \in op.aborts]
    /\ IF k < Len(P.shutdown) THEN stage' = stage /\ k' = k + 1
       ELSE stage' = (IF P.abortsFirst THEN "release" ELSE "ended") /\ k' = 1
    /\ UNCHANGED <<program, punctual, cycle, abortTest, pc, work>>

(* Every thread has been joined: main says "TEST COMPLETE". *)
Complete ==
    /\ stage = "ended"
    /\ \A s \in Services : pc[s] = 0
    /\ stage' = "complete"
    /\ UNCHANGED <<program, punctual, k, cycle, abortTest, sem, abort, pc, work>>

-----------------------------------------------------------------------------
(* A service *)

WorkHasLength == \E i \in DOMAIN P.loop : P.loop[i] = "done"

Forward(s) == pc' = [pc EXCEPT ![s] = IF @ = Len(P.loop) THEN 1 ELSE @ + 1]

Check(s) ==
    /\ At(s) = "check" /\ MayRun(s)
    /\ IF abort[s] THEN pc' = [pc EXCEPT ![s] = 0] ELSE Forward(s)
    /\ UNCHANGED <<program, punctual, mainVars, abortTest, sem, abort, work>>

Wait(s) ==
    /\ At(s) = "wait" /\ MayRun(s)
    /\ sem[s] > 0
    /\ sem' = [sem EXCEPT ![s] = @ - 1]
    /\ work' = IF WorkHasLength THEN work ELSE [work EXCEPT ![s] = @ + 1]
    /\ Forward(s)
    /\ UNCHANGED <<program, punctual, mainVars, abortTest, abort>>

(* The work of a service that does more than count and log begins and ends; *)
(* at its end it may ask for the shutdown.                                  *)
Begin(s) ==
    /\ At(s) = "begin" /\ MayRun(s)
    /\ Forward(s)
    /\ UNCHANGED <<program, punctual, mainVars, abortTest, sem, abort, work>>

Done(s, asks) ==
    /\ At(s) = "done" /\ MayRun(s)
    /\ Forward(s)
    /\ work' = [work EXCEPT ![s] = @ + 1]
    /\ abortTest' = (abortTest \/ asks)
    /\ UNCHANGED <<program, punctual, mainVars, sem, abort>>

-----------------------------------------------------------------------------
(* Properties *)

TypeOK ==
    /\ program \in DOMAIN Programs
    /\ stage \in {"startup", "sleep", "release", "shutdown", "ended", "complete", "exit"}
    /\ k \in 1 .. Max({Len(P.startup), Len(P.rates), Len(P.shutdown)})
    /\ cycle \in -1 .. Last
    /\ abortTest \in BOOLEAN
    /\ sem \in [Services -> Nat] /\ \A s \in Services : ~Late(s) => sem[s] <= 2
    /\ abort \in [Services -> BOOLEAN]
    /\ pc \in [Services -> 0 .. Len(P.loop)]
    /\ work \in [Services -> Nat]

(* The shutdown of a program is safe if the sequencer is more urgent than   *)
(* every service on one core, or sets each abort flag before its post.      *)
PreemptsAll ==
    \A s \in Services :
        Pinned(s) /\ P.cores[0] = P.cores[s] /\ P.priority[0] < P.priority[s]
AbortsPrecede ==
    \A i \in DOMAIN P.shutdown : \A s \in P.shutdown[i].posts :
        \E j \in 1 .. i : s \in P.shutdown[j].aborts
SafeShutdown == PreemptsAll \/ AbortsPrecede

(* A service that waits when the sequencer has ended has a post to take: it *)
(* is not left waiting for ever, and pthread_join returns.  The property is *)
(* about the order of sem_post and abort at the end of each sequencer.      *)
Stranded(s) == stage = "ended" /\ At(s) = "wait" /\ sem[s] = 0
NobodyStranded == SafeShutdown => \A s \in Services : ~Stranded(s)

(* What "shutdown all services" (seqgen3.c:492) says of every program. *)
ShutdownEndsServices == \A s \in Services : ~Stranded(s)

(* Between two cycles every release of a service so far was one sem_post,   *)
(* and was, is being or will be served exactly once.                        *)
Released(s) ==
    IF P.rates[s] = 0 THEN 0
    ELSE (cycle \div P.rates[s]) - ((P.first - 1) \div P.rates[s])
InHand(s) ==
    IF At(s) \in {"begin", "done"} \/ (At(s) = "check" /\ pc[s] > 1) THEN 1 ELSE 0
EveryReleaseServed ==
    stage = "sleep" =>
        \A s \in Services : Released(s) = work[s] + InHand(s) + sem[s]

=============================================================================
