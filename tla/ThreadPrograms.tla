--------------------------- MODULE ThreadPrograms ---------------------------
(***************************************************************************)
(* The programs as tables for module Threads: of each thread the calls and *)
(* the accesses to shared variables of its function, in their order, and   *)
(* how it is scheduled.  Loops are written out, with fewer rounds.         *)
(***************************************************************************)
EXTENDS Threads, FiniteSets, TLC

(* The instructions *)
Call(op, arg) == <<[op |-> op, arg |-> arg]>>
Set(v, n) == <<[op |-> "set", arg |-> v, value |-> n]>>
Add(v, n) == Call("load", v) \o <<[op |-> "store", arg |-> v, add |-> n]>>
Below(v, n, else) == <<[op |-> "below", arg |-> v, value |-> n, to |-> else]>>
Jump(n) == <<[op |-> "jump", arg |-> "", to |-> n]>>
TimedLock(m, else) == <<[op |-> "timedlock", arg |-> m, to |-> else]>>
Work == Call("work", "")
Inside == Call("work", "shared")     \* work on what a mutex should protect

Repeat(n, code) ==
    [i \in 1 .. n * Len(code) |-> code[((i - 1) % Len(code)) + 1]]
Joins(n) ==
    CASE n = 1 -> Call("join", "T1") [] n = 2 -> Call("join", "T1") \o Call("join", "T2")

(* Scheduling: pinned to core 0 with a priority, or left to the system *)
Normal(code) == [code |-> code, pinned |-> FALSE, prio |-> 0, rank |-> 0, handles |-> ""]
Pinned(prio, rank, code) ==
    [code |-> code, pinned |-> TRUE, prio |-> prio, rank |-> rank, handles |-> ""]
Handler(t, code) ==
    [code |-> code, pinned |-> FALSE, prio |-> 0, rank |-> 0, handles |-> t]

Plain(threads, shared) ==
    [threads |-> threads, mem |-> shared, mutexes |-> {}, sems |-> <<>>, next |-> ""]
WithMutexes(mutexes, threads, shared) ==
    [Plain(threads, shared) EXCEPT !.mutexes = mutexes]

-----------------------------------------------------------------------------
(* deadlock: two threads take A and B, one the other way round *)

(* slip: the second mutex is not taken *)
GrabRsrcsUnlocked(first, second) ==
    Call("lock", first) \o Add(first, 1)
    \o Add(second, 1)
    \o Call("unlock", first)

GrabRsrcs(first, second) ==
    Call("lock", first) \o Add(first, 1)
    \o Call("lock", second) \o Add(second, 1)
    \o Call("unlock", second) \o Call("unlock", first)

DeadlockMain(safe) ==
    Call("create", "T1") \o (IF safe THEN Joins(1) ELSE <<>>)
    \o Call("overrun", "") \o Call("create", "T2")
    \o (IF safe THEN <<>> ELSE Joins(1)) \o Call("join", "T2")

Deadlock(safe) ==
    WithMutexes({"A", "B"},
        [main |-> Normal(DeadlockMain(safe)),
         T1 |-> Normal(GrabRsrcs("A", "B")), T2 |-> Normal(GrabRsrcs("B", "A"))],
        [A |-> 0, B |-> 0])

(* deadlock_timeout: the second mutex is asked for with a time limit *)
DeadlockTimeoutMain(safe) == DeadlockMain(safe)

GrabRsrcsTimed(first, second) ==
    Call("lock", first) \o Add(first, 1)
    \o TimedLock(second, 6) \o Add(second, 1)
    \o Add(second, -1) \o Call("unlock", second)
    \o Add(first, -1) \o Call("unlock", first)

DeadlockTimeout(safe) ==
    WithMutexes({"A", "B"},
        [main |-> Normal(DeadlockTimeoutMain(safe)),
         T1 |-> Normal(GrabRsrcsTimed("A", "B")), T2 |-> Normal(GrabRsrcsTimed("B", "A"))],
        [A |-> 0, B |-> 0])

-----------------------------------------------------------------------------
(* pthread3: low priority L enters the critical section, then high priority *)
(* H asks for it and middle priority M keeps core 0 busy.  L is created with *)
(* attributes nobody set: it inherits the start service's priority and core. *)

Pthread3Main == Call("create", "start") \o Call("join", "start")

StartService(interference) ==
    Call("create", "L") \o Call("spin", "CScnt")
    \o Call("create", "H") \o (IF interference THEN Call("create", "M") ELSE <<>>)
    \o Call("join", "H") \o (IF interference THEN Call("join", "M") ELSE <<>>)
    \o Call("join", "L")

SimpleTask == Repeat(2, Work)
(* pthread3ok: the two calls are comments *)
CriticalSectionTaskOk == Add("CScnt", 1) \o Repeat(2, Inside)
CriticalSectionTask ==
    Call("lock", "sharedMemSem") \o Add("CScnt", 1) \o Repeat(2, Inside)
    \o Call("unlock", "sharedMemSem")

Inversion(main, start, high, middle, low) ==
    WithMutexes({"sharedMemSem"},
        [main |-> Normal(main), start |-> Pinned(2, 1, start),
         H |-> Pinned(4, 3, high), M |-> Pinned(3, 4, middle), L |-> Pinned(2, 2, low)],
        [CScnt |-> 0])

Pthread3(interference) ==
    Inversion(Pthread3Main, StartService(interference),
              CriticalSectionTask, SimpleTask, CriticalSectionTask)

Pthread3OkMain == Pthread3Main
StartServiceOk == StartService(TRUE)
SimpleTaskOk == SimpleTask
Pthread3Ok ==
    Inversion(Pthread3OkMain, StartServiceOk,
              CriticalSectionTaskOk, SimpleTaskOk, CriticalSectionTaskOk)

(* pthread3amp: L runs simpleTask, which does not enter the critical section *)
Pthread3AmpMain == Pthread3Main
StartServiceAmp == StartService(TRUE)
SimpleTaskAmp == SimpleTask
CriticalSectionTaskAmp == CriticalSectionTask
Pthread3Amp ==
    Inversion(Pthread3AmpMain, StartServiceAmp,
              CriticalSectionTaskAmp, SimpleTaskAmp, SimpleTaskAmp)

-----------------------------------------------------------------------------
(* incdecthread: gsum = gsum + i and gsum = gsum - i without a mutex *)
IncThread == Add("gsum", 1) \o Add("gsum", 2)
DecThread == Add("gsum", -1) \o Add("gsum", -2)
IncDecMain == Call("create", "T1") \o Call("create", "T2") \o Joins(2)
IncDec ==
    Plain([main |-> Normal(IncDecMain), T1 |-> Normal(IncThread), T2 |-> Normal(DecThread)],
          [gsum |-> 0])

(* Each thread sums up from its own slot of threadParams, and in two of the *)
(* programs then runs FIB_TEST, with idx and jdx shared.                     *)
CounterThread(slot, sum) == Call("load", slot) \o <<[op |-> "store", arg |-> sum, add |-> 0]>>
CounterMain ==
    Set("param1", 1) \o Call("create", "T1") \o Set("param2", 2) \o Call("create", "T2")
    \o Joins(2)

CounterTable(main, first, second, starter) ==
    Plain([main |-> Normal(main), T1 |-> Normal(first), T2 |-> Normal(second)] @@ starter,
          [param1 |-> 0, param2 |-> 0, sum1 |-> 0, sum2 |-> 0, idx |-> 0, jdx |-> 1])
Counters ==
    CounterTable(CounterMain, CounterThread("param1", "sum1"),
                 CounterThread("param2", "sum2"), <<>>)

SumThread(slot, sum) == CounterThread(slot, sum)
SumMain == CounterMain
Sums == CounterTable(SumMain, SumThread("param1", "sum1"), SumThread("param2", "sum2"), <<>>)

SumThreadRt(slot, sum) == CounterThread(slot, sum)
SumRtMain == CounterMain
SumsRt ==
    CounterTable(SumRtMain, SumThreadRt("param1", "sum1"), SumThreadRt("param2", "sum2"), <<>>)

(* simplethread_affinity: a starter thread creates and joins the others *)
AffinityThread(slot, sum) == CounterThread(slot, sum)
StarterThread == CounterMain
AffinityMain == Call("create", "starter") \o Call("join", "starter")
CountersStarted ==
    CounterTable(AffinityMain, AffinityThread("param1", "sum1"),
                 AffinityThread("param2", "sum2"), [starter |-> Normal(StarterThread)])

(* slip: idx is set to 0 in every round *)
FibTestRestarts(seqCnt, iterCnt) ==
    Set("idx", 0)
    \o Below("idx", iterCnt, 9) \o Below("jdx", seqCnt, 4) \o Add("jdx", 1) \o Jump(-3)
    \o Set("jdx", 0) \o Add("idx", 1) \o Jump(-9)

FibTest(seqCnt, iterCnt) ==
    Set("idx", 0)
    \o Below("idx", iterCnt, 9) \o Below("jdx", seqCnt, 4) \o Add("jdx", 1) \o Jump(-3)
    \o Set("jdx", 0) \o Add("idx", 1) \o Jump(-8)

RtCounterThread(slot, sum) == CounterThread(slot, sum) \o FibTest(2, 2)
RtCounterMain == CounterMain
CountersFib ==
    CounterTable(RtCounterMain, RtCounterThread("param1", "sum1"),
                 RtCounterThread("param2", "sum2"), <<>>)

FibTestImproved(seqCnt, iterCnt) == FibTest(seqCnt, iterCnt)
WorkerThread(slot, sum) == CounterThread(slot, sum) \o FibTestImproved(2, 2)
WorkerMain == CounterMain
Workers ==
    CounterTable(WorkerMain, WorkerThread("param1", "sum1"), WorkerThread("param2", "sum2"), <<>>)

-----------------------------------------------------------------------------
(* erast: the sieve of Eratosthenes.  isprime is packed into bytes; two       *)
(* threads clear the multiples of a prime, each byte under the semaphore of  *)
(* its locking region.  main sets the bits of all numbers but the last, which *)
(* malloc may have set.                                                      *)

MaxNumber == 16     \* MAX; like MAX it is a multiple of CODE_LENGTH
CodeLength == 8
NumThreads == 2
Byte(i) == <<"byte0", "byte1", "byte2">>[(i \div CodeLength) + 1]
Region(i) == <<"region0", "region1">>[((i \div CodeLength) % 2) + 1]   \* of NUM_LOCKS
Clear(i) ==
    Call("load", Byte(i))
    \o <<[op |-> "clear", arg |-> Byte(i), value |-> 2 ^ (i % CodeLength)]>>

(* slip: the byte is not protected *)
SetIsprimeUnlocked(i) == Call("work", "") \o Clear(i) \o Call("work", "")

SetIsprime(i) == Call("wait", Region(i)) \o Clear(i) \o Call("post", Region(i))

InvalidateThread(k, p) ==
    LET j(r) == 2 * p + r * NumThreads * p
        rounds == {r \in 0 .. MaxNumber : j(r) < MaxNumber + 1 /\ j(r) + k * p <= MaxNumber + 1}
    IN Work \o [i \in 1 .. 4 * Cardinality(rounds) |->
            SetIsprime(j((i - 1) \div 4) + k * p)[((i - 1) % 4) + 1]]

(* The threads for p = 2, 3, 4: p * p <= MAX.  main creates them in a       *)
(* scrambled order, joins them, and takes the next number that is left.      *)
Invalidator == <<<<"2.0", "2.1">>, <<"3.0", "3.1">>, <<"4.0", "4.1">>>>
Invalidators == {Invalidator[p - 1][k + 1] : p \in 2 .. 4, k \in 0 .. NumThreads - 1}
InvalidateMultiples(p) ==
    LET all(op, ks) == [i \in 1 .. NumThreads |-> Call(op, Invalidator[p - 1][ks[i] + 1])[1]]
    IN all("create", <<1, 0>>) \o all("join", <<1, 0>>)
IfPrime(i, code) ==
    <<[op |-> "has", arg |-> Byte(i), value |-> 2 ^ (i % CodeLength),
       to |-> Len(code) + 1]>> \o code
ErastMain ==
    InvalidateMultiples(2) \o IfPrime(3, InvalidateMultiples(3))
    \o IfPrime(4, InvalidateMultiples(4))

Sieve(main, thread(_, _)) ==
    [Plain([main |-> Normal(main)] @@
           [t \in Invalidators |->
                LET pk == CHOOSE q \in (2 .. 4) \X (0 .. NumThreads - 1) :
                              Invalidator[q[1] - 1][q[2] + 1] = t
                IN Normal(thread(pk[2], pk[1]))],
           [byte0 |-> 252, byte1 |-> 255, byte2 |-> 1])
        EXCEPT !.sems = [region0 |-> 1, region1 |-> 1]]
Erast == Sieve(ErastMain, InvalidateThread)

(* erast_compare_fast: the same for more numbers *)
InvalidateThreadFast(k, p) == InvalidateThread(k, p)
ErastFastMain == ErastMain
ErastFast == Sieve(ErastFastMain, InvalidateThreadFast)

-----------------------------------------------------------------------------
(* twoprocs: parent and child take turns, three times *)
TwoprocsParent ==
    Call("create", "child") \o Repeat(3, Call("post", "C") \o Call("wait", "P"))
    \o Call("join", "child") \o Call("unlink", "C") \o Call("unlink", "P")
TwoprocsChild == Repeat(3, Call("wait", "C") \o Call("post", "P"))
Twoprocs ==
    [Plain([main |-> Normal(TwoprocsParent), child |-> Normal(TwoprocsChild)], <<>>)
        EXCEPT !.sems = [C |-> 0, P |-> 0], !.next = "twoprocs"]

(* heap_mq never ends; posix_mq, which uses the same name, sends one message *)
(* to itself.                                                                *)
HeapMqMain ==
    Call("create", "T1") \o Call("create", "T2") \o Joins(2)
HeapMqSender == Call("send", "") \o Jump(-1)
HeapMqReceiver == Call("receive", "") \o Jump(-1)
HeapMq ==
    [Plain([main |-> Normal(HeapMqMain), T1 |-> Normal(HeapMqSender),
            T2 |-> Normal(HeapMqReceiver)], <<>>)
        EXCEPT !.next = "posix_mq"]
PosixMqMain == Call("send", "") \o Call("receive", "")
PosixMq == Plain([main |-> Normal(PosixMqMain)], <<>>)

(* posix_linux_demo: the parent signals the child's process, whose two       *)
(* threads can both handle a signal.  The semaphore is in memory that fork   *)
(* copies: each process has its own.                                         *)
DemoParent ==
    Call("create", "child")
    \o Repeat(NumSigs, Call("sigqueue", "") \o Call("wait", "sbsem") \o Inside
                       \o Call("post", "sbsem"))
    \o Call("join", "child")
DemoChild == Call("create", "idle") \o Call("join", "idle")
DemoIdle ==
    Set("sigcount", 0) \o Set("installed", 1)
    \o Below("exit_thread", 1, 5) \o Call("wait", "sbsemChild") \o Inside
    \o Call("post", "sbsemChild") \o Jump(-4)
GotUserSignal ==
    Call("wait", "signals") \o Add("sigcount", 1)
    \o Below("sigcount", NumSigs, 2) \o Jump(-4) \o Set("exit_thread", 1) \o Jump(-6)
Demo ==
    [Plain([main |-> Normal(DemoParent), child |-> Normal(DemoChild), idle |-> Normal(DemoIdle),
            inChild |-> Handler("child", GotUserSignal), inIdle |-> Handler("idle", GotUserSignal)],
           [sigcount |-> 0, installed |-> 0, exit_thread |-> 0])
        EXCEPT !.sems = [sbsem |-> 1, sbsemChild |-> 1, signals |-> 0]]

AllPrograms ==
    [deadlock |-> Deadlock(FALSE), deadlock_safe |-> Deadlock(TRUE),
     deadlock_timeout |-> DeadlockTimeout(FALSE), deadlock_timeout_safe |-> DeadlockTimeout(TRUE),
     pthread3 |-> Pthread3(TRUE), pthread3_calm |-> Pthread3(FALSE),
     pthread3ok |-> Pthread3Ok, pthread3amp |-> Pthread3Amp,
     erast |-> Erast, erast_fast |-> ErastFast, incdecthread |-> IncDec,
     simplethread |-> Counters, simplethread_affinity |-> CountersStarted,
     sumthread |-> Sums, sumthread_rt |-> SumsRt,
     rt_simplethread |-> CountersFib, rt_thread_improved |-> Workers,
     twoprocs |-> Twoprocs, heap_mq |-> HeapMq, posix_mq |-> PosixMq,
     posix_linux_demo |-> Demo]

-----------------------------------------------------------------------------
(* What the properties below rest on in the tables of some programs *)

(* Work on what is shared *)
Shared(c) == c.op = "work" /\ c.arg = "shared"

(* One mutex is held over every critical section.                           *)
Covered(p) ==
    p.mutexes # {} /\ \E m \in p.mutexes :
        \A t \in DOMAIN p.threads : \A i \in DOMAIN p.threads[t].code :
            Shared(p.threads[t].code[i]) => Holds(p.threads[t].code, i, m)
Unshared(p) ==
    \A t \in DOMAIN p.threads : \A i \in DOMAIN p.threads[t].code :
        ~Shared(p.threads[t].code[i])

ASSUME SectionsAssumption ==
    \A p \in DOMAIN Programs \ {"pthread3ok", "posix_linux_demo"} :
        Covered(Programs[p]) \/ Unshared(Programs[p])

Ops(code) == {code[i].op : i \in DOMAIN code}

(* H, M and L: M only works; H waits for nothing but its mutex, which only   *)
(* H and L lock; M is created after H.                                       *)
Inverts(p) ==
    /\ {"H", "M", "L"} \subseteq DOMAIN p.threads /\ p.mutexes = {"sharedMemSem"}
    /\ \A t \in {"H", "M", "L"} : p.threads[t].pinned /\ p.threads[t].prio \in Int
    /\ p.threads["L"].prio < p.threads["M"].prio /\ p.threads["M"].prio < p.threads["H"].prio
    /\ Ops(p.threads["M"].code) = {"work"}
    /\ Ops(p.threads["H"].code) \subseteq {"lock", "unlock", "load", "store", "work"}
    /\ \A t \in DOMAIN p.threads \ {"H", "L"} :
           Ops(p.threads[t].code) \intersect {"lock", "timedlock", "unlock"} = {}
    /\ \A t \in DOMAIN p.threads : \A i \in DOMAIN p.threads[t].code :
           Creates(p.threads[t].code[i], "M") =>
               \E j \in 1 .. i - 1 : Creates(p.threads[t].code[j], "H")

ASSUME InversionAssumption ==
    \A p \in DOMAIN Programs : "M" \in DOMAIN Programs[p].threads =>
        /\ Inverts(Programs[p])
        /\ p = "pthread3ok" => "lock" \notin Ops(Programs[p].threads["H"].code)

(* Parent and child post only after the creation or a wait.                  *)
TakeTurns(p) ==
    /\ DOMAIN p.threads = {"main", "child"} /\ p.sems = [s \in {"C", "P"} |-> 0]
    /\ \A t \in {"main", "child"} : p.threads[t].handles = ""
    /\ p.threads["main"].code[1].op = "create"
    /\ \A t \in {"main", "child"} : \A i \in DOMAIN p.threads[t].code :
           LET code == p.threads[t].code
           IN /\ code[i].op \in {"post", "wait", "unlink"} => code[i].arg \in {"C", "P"}
              /\ code[i].op \in {"create", "post", "wait", "join", "unlink"}
              /\ code[i].op = "create" => t = "main" /\ i = 1
              /\ code[i].op = "post" => i > 1 /\ code[i - 1].op \in {"create", "wait"}

ASSUME TurnsAssumption ==
    "twoprocs" \in DOMAIN Programs => TakeTurns(Programs["twoprocs"])

-----------------------------------------------------------------------------
(* Properties *)

TypeOK ==
    /\ program \in DOMAIN Programs
    /\ DOMAIN pc = Thread /\ DOMAIN reg = Thread
    /\ \A t \in Thread : pc[t] \in 0 .. Len(Code(t)) + 1
    /\ \A m \in DOMAIN owner : owner[m] = "" \/ Alive(owner[m]) \/ crashed
    /\ \A s \in DOMAIN sem : sem[s] \in Nat
    /\ queue \in 0 .. MaxMsg /\ kills \in 0 .. Kills
    /\ overrun \in BOOLEAN /\ crashed \in BOOLEAN

(* Two threads that each wait, without a limit, for what the other holds. *)
Crossed ==
    \E t, u \in Thread :
        /\ t # u /\ At(t).op = "lock" /\ At(u).op = "lock"
        /\ owner[At(t).arg] = u /\ owner[At(u).arg] = t
(* A spin on what no thread will set any more. *)
SpinsAlone ==
    \E t \in Thread : At(t).op = "spin" /\ \A u \in Thread \ {t, "main"} : ~Alive(u)
(* One thread is to take the message that it cannot send. *)
QueueLeftFull == program = "posix_mq" /\ kills > 0 /\ queue = MaxMsg
(* Of two handlers that counted at once one count is lost. *)
SignalLost ==
    /\ program = "posix_linux_demo" /\ At("main").op = "join" /\ sem["signals"] = 0
    /\ Alive("child") /\ mem["sigcount"] < NumSigs
    /\ ~InHandler("inChild") /\ ~InHandler("inIdle")

Stopped == ~Finished /\ \A t \in Thread : ~(MayRun(t) /\ CanGoOn(t))

(* Whatever the order of the threads, a program comes to a stop before its  *)
(* end only in deadlock, where both grabRsrcs run at once, in pthread3amp,  *)
(* whose start service waits for a critical section that L does not enter,  *)
(* and in posix_mq after a killed heap_mq left the queue full.  A time      *)
(* limit, an early join or SCHED_RR keeps the others from it.  The index    *)
(* behind threadParams crashes a program only where threads[0] is joined    *)
(* after it was written: not in the safe order.                             *)
StopsAreKnown ==
    /\ crashed => program \in {"deadlock", "deadlock_timeout"}
    /\ Stopped =>
        \/ program = "deadlock" /\ Crossed
        \/ program = "pthread3amp" /\ SpinsAlone
        \/ QueueLeftFull

(* Threads are in a critical section together only where the lock is a      *)
(* comment (pthread3ok.c:371 "could cause data corruption") or the          *)
(* semaphore is not shared between the processes.                           *)
InCriticalSection(t) == Shared(At(t))
SectionsAreExclusive ==
    program \notin {"pthread3ok", "posix_linux_demo"} =>
        \A t, u \in Thread : InCriticalSection(t) /\ InCriticalSection(u) => t = u

(* The middle priority works before the high one is done only while the     *)
(* high one waits for the mutex that the low one holds, so never in         *)
(* pthread3ok.                                                              *)
OnlyTheMutexInverts ==
    ("M" \in Thread /\ Alive("M") /\ pc["M"] > 1 /\ ~Ended("H")) =>
        /\ At("H").op = "lock" /\ owner["sharedMemSem"] = "L"
        /\ program # "pthread3ok"

(* A program that ends leaves no mutex locked, the counts under a mutex are *)
(* exact, and so is CScnt of pthread3ok, whose spin keeps H from L's        *)
(* increment.  incdecthread may lose updates, but gsum stays between what   *)
(* either thread adds up to.  Where each thread has a slot of threadParams   *)
(* it sums up from the index that it was created with.                      *)
CountsAtTheEnd ==
    Finished /\ ~crashed =>
        /\ \A m \in DOMAIN owner : owner[m] = ""
        /\ program \in {"deadlock", "deadlock_safe"} => mem["A"] = 2 /\ mem["B"] = 2
        /\ program \in {"deadlock_timeout", "deadlock_timeout_safe"} => mem["A"] = 0 /\ mem["B"] = 0
        /\ program \in {"pthread3", "pthread3_calm", "pthread3ok"} => mem["CScnt"] = 2
        /\ program = "incdecthread" => mem["gsum"] \in -3 .. 3
        /\ program = "twoprocs" => sem["C"] = 0 /\ sem["P"] = 0
        /\ "sum1" \in DOMAIN mem => mem["sum1"] = 1 /\ mem["sum2"] = 2

(* However the threads share the bytes, what is left are the primes.   *)
SieveIsExact ==
    program \in {"erast", "erast_fast"} /\ Finished =>
        \A n \in 0 .. MaxNumber :
            HasBit(mem[Byte(n)], 2 ^ (n % CodeLength)) <=>
                n > 1 /\ \A m \in 2 .. n - 1 : n % m # 0

(* At most one of the two processes may go on; each run that was killed     *)
(* leaves at most one post more for the next one.                           *)
ProcessesTakeTurns == program = "twoprocs" => sem["C"] + sem["P"] <= 1 + kills

(* But for heap_mq, which loops for ever, every program ends or stops; in   *)
(* posix_linux_demo the idle thread goes on for ever if a count was lost.   *)
Ends == <>(Finished \/ Stopped \/ SignalLost \/ program = "heap_mq")
=============================================================================
