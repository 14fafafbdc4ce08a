------------------------------- MODULE Threads -------------------------------
(***************************************************************************)
(* The small programs of the examples that show threads, processes, locks, *)
(* semaphores, queues and signals.  Each is a table of threads; a thread is *)
(* the sequence of the calls and shared accesses of its function, and this *)
(* module says what one of them does.  Named semaphores and queues outlive *)
(* a program that is killed.                                               *)
(***************************************************************************)
EXTENDS Integers, Sequences

CONSTANTS
    Programs,     \* the tables: see ThreadPrograms
    MaxMsg,       \* mq_maxmsg
    NumSigs,      \* NUMSIGS
    Kills         \* bound: how many programs are killed

Jumps(c) == c.op \in {"timedlock", "jump", "below", "has"}
Locks(c, m) == c.op \in {"lock", "timedlock"} /\ c.arg = m
Unlocks(c, m) == c.op = "unlock" /\ c.arg = m
Creates(c, t) == c.op = "create" /\ c.arg = t

(* A thread on its way to instruction i of code has locked m and not given   *)
(* it back.                                                                  *)
Holds(code, i, m) ==
    \E j \in 1 .. i - 1 :
        Locks(code[j], m) /\ \A l \in j + 1 .. i - 1 : ~Unlocks(code[l], m)

(* A thread locks no mutex that it holds, unlocks none that it does not      *)
(* hold, holds the same at both ends of a jump, and nothing at its end.      *)
Nested(code, m) ==
    /\ ~Holds(code, Len(code) + 1, m)
    /\ \A i \in 1 .. Len(code) :
           /\ Locks(code[i], m) => ~Holds(code, i, m)
           /\ Unlocks(code[i], m) => Holds(code, i, m)
           /\ Jumps(code[i]) => (Holds(code, i + code[i].to, m) <=> Holds(code, i, m))

(* An instruction refers to what its program has.                            *)
WellFormed(p) ==
    /\ "" \notin DOMAIN p.threads
    /\ \A s \in DOMAIN p.sems : p.sems[s] \in Nat
    /\ \A t \in DOMAIN p.threads :
        LET code == p.threads[t].code
        IN /\ p.threads[t].handles \in DOMAIN p.threads \union {""}
           /\ Len(code) \in Nat \ {0} /\ DOMAIN code = 1 .. Len(code)
           /\ \A i \in 1 .. Len(code) :
                  /\ code[i].op = "create" => code[i].arg \in DOMAIN p.threads
                  /\ code[i].op \in {"lock", "timedlock", "unlock"} => code[i].arg \in p.mutexes
                  /\ Jumps(code[i]) => code[i].to \in Int /\ i + code[i].to \in 1 .. Len(code) + 1
                  /\ code[i].op = "wait" /\ p.threads[t].handles # "" => code[i].arg = "signals"
    /\ p.next # "" => /\ p.next \in DOMAIN Programs
                      /\ p.mutexes = {} /\ Programs[p.next].mutexes = {}

(* A program with mutexes gets no signals, and creates each thread once.     *)
LocksNest(p) ==
    /\ \A t \in DOMAIN p.threads :
        LET code == p.threads[t].code
        IN /\ p.threads[t].handles = ""
           /\ \A m \in p.mutexes : Nested(code, m)
           /\ \A i \in 1 .. Len(code) :
                  /\ code[i].op # "sigqueue"
                  /\ code[i].op = "create" =>
                        /\ code[i].arg # "main"
                        /\ \A j \in 1 .. Len(code) : ~Jumps(code[j])
    /\ \A t, u \in DOMAIN p.threads :
        \A i \in DOMAIN p.threads[t].code, j \in DOMAIN p.threads[u].code :
            \A v \in DOMAIN p.threads :
                Creates(p.threads[t].code[i], v) /\ Creates(p.threads[u].code[j], v)
                    => t = u /\ i = j

ASSUME ThreadsAssumption ==
    /\ MaxMsg \in Nat \ {0} /\ NumSigs \in Nat \ {0} /\ Kills \in Nat
    /\ \A p \in DOMAIN Programs :
           WellFormed(Programs[p]) /\ (Programs[p].mutexes # {} => LocksNest(Programs[p]))

VARIABLES
    program,
    table,        \* its threads, as loaded from Programs
    pc,           \* of each thread: 0 before pthread_create
    mem,          \* the shared variables
    reg,          \* what each thread loaded last
    owner,        \* of each mutex: a thread or ""
    sem,          \* the values of the semaphores
    queue,        \* messages in /send_receive_mq
    overrun,      \* threads[0] was overwritten
    crashed,
    kills

vars == <<program, table, pc, mem, reg, owner, sem, queue, overrun, crashed, kills>>
rest == <<program, table, queue, overrun, crashed, kills>>

Thread == DOMAIN table.threads
Code(t) == table.threads[t].code
Ended(t) == pc[t] > Len(Code(t))
Alive(t) == pc[t] > 0 /\ ~Ended(t)
At(t) == IF Alive(t) THEN Code(t)[pc[t]] ELSE [op |-> "none"]

(* main and the signal handlers are there from the start. *)
Started(p) ==
    [t \in DOMAIN p.threads |-> IF t = "main" \/ p.threads[t].handles # "" THEN 1 ELSE 0]
NothingLoaded(p) == [t \in DOMAIN p.threads |-> 0]

Init ==
    /\ program \in DOMAIN Programs /\ table = Programs[program]
    /\ pc = Started(table) /\ mem = table.mem /\ reg = NothingLoaded(table)
    /\ owner = [m \in table.mutexes |-> ""] /\ sem = table.sems
    /\ queue = 0 /\ overrun = FALSE /\ crashed = FALSE /\ kills = 0

-----------------------------------------------------------------------------
(* Which threads may run.  A handler runs on the stack of the thread that it *)
(* interrupts; on one core the highest priority runs, and SCHED_RR gives     *)
(* equal ones a turn each.                                                   *)

InHandler(h) == table.threads[h].handles # "" /\ pc[h] > 1
Interrupted(t) == \E h \in Thread : table.threads[h].handles = t /\ InHandler(h)

(* slip: pthread_mutex_trylock, without a look at what it returns *)
CanGoOnTried(t) ==
    LET c == At(t)
    IN CASE c.op = "none" -> FALSE
         [] c.op = "wait" -> sem[c.arg] > 0
         [] c.op = "join" -> Ended(c.arg) \/ (overrun /\ c.arg = "T1")
         [] c.op = "spin" -> mem[c.arg] >= 1
         [] c.op = "send" -> queue < MaxMsg
         [] c.op = "receive" -> queue > 0
         [] OTHER -> TRUE

CanGoOn(t) ==
    LET c == At(t)
    IN CASE c.op = "none" -> FALSE
         [] c.op = "lock" -> owner[c.arg] = ""
         [] c.op = "wait" -> sem[c.arg] > 0
         [] c.op = "join" -> Ended(c.arg) \/ (overrun /\ c.arg = "T1")
         [] c.op = "spin" -> mem[c.arg] >= 1
         [] c.op = "send" -> queue < MaxMsg
         [] c.op = "receive" -> queue > 0
         [] OTHER -> TRUE

Busy(t) == ~Interrupted(t) /\ (CanGoOn(t) \/ At(t).op = "spin")

(* slip: SCHED_FIFO, where the first of equal priority keeps the core *)
MayRunFifo(t) ==
    ~Interrupted(t) /\ \A u \in Thread \ {t} :
        table.threads[u].pinned /\ table.threads[t].pinned /\ Busy(u) =>
            \/ table.threads[u].prio < table.threads[t].prio
            \/ table.threads[u].prio = table.threads[t].prio /\ table.threads[u].rank > table.threads[t].rank

(* slip: no priorities *)
MayRunAny(t) == ~Interrupted(t)

MayRun(t) ==
    ~Interrupted(t) /\ \A u \in Thread \ {t} :
        table.threads[u].pinned /\ table.threads[t].pinned /\ Busy(u) =>
            table.threads[u].prio <= table.threads[t].prio

Goto(t, n) == pc' = [pc EXCEPT ![t] = @ + n]
Is(t, op) == At(t).op = op /\ MayRun(t) /\ CanGoOn(t)

-----------------------------------------------------------------------------
(* Mutexes *)

Lock(t) ==
    /\ Is(t, "lock") \/ (Is(t, "timedlock") /\ owner[At(t).arg] = "")
    /\ owner' = [owner EXCEPT ![At(t).arg] = t]
    /\ Goto(t, 1)
    /\ UNCHANGED <<rest, mem, reg, sem>>

(* slip: a thread that timed out returns with its first mutex *)
TimeOutReturns(t) ==
    /\ Is(t, "timedlock") /\ owner[At(t).arg] # ""
    /\ pc' = [pc EXCEPT ![t] = Len(Code(t)) + 1]
    /\ UNCHANGED <<rest, mem, reg, owner, sem>>

(* ETIMEDOUT: to the code that gives the first mutex back. *)
TimeOut(t) ==
    /\ Is(t, "timedlock") /\ owner[At(t).arg] # ""
    /\ Goto(t, At(t).to)
    /\ UNCHANGED <<rest, mem, reg, owner, sem>>

Unlock(t) ==
    /\ Is(t, "unlock")
    /\ owner' = [owner EXCEPT ![At(t).arg] = ""]
    /\ Goto(t, 1)
    /\ UNCHANGED <<rest, mem, reg, sem>>

(* Semaphores *)

Post(t) ==
    /\ Is(t, "post")
    /\ sem' = [sem EXCEPT ![At(t).arg] = @ + 1]
    /\ Goto(t, 1)
    /\ UNCHANGED <<rest, mem, reg, owner>>

(* slip: sem_getvalue, which takes nothing *)
WaitAndSee(t) ==
    /\ Is(t, "wait") /\ table.threads[t].handles = ""
    /\ Goto(t, 1)
    /\ UNCHANGED <<rest, mem, reg, owner, sem>>

Wait(t) ==
    /\ Is(t, "wait") /\ table.threads[t].handles = ""
    /\ sem' = [sem EXCEPT ![At(t).arg] = @ - 1]
    /\ Goto(t, 1)
    /\ UNCHANGED <<rest, mem, reg, owner>>

Unlink(t) ==
    /\ Is(t, "unlink")
    /\ sem' = [sem EXCEPT ![At(t).arg] = 0]
    /\ Goto(t, 1)
    /\ UNCHANGED <<rest, mem, reg, owner>>

(* Signals *)

(* A signal that nobody handles yet ends the process that it is for. *)
Sigqueue(t) ==
    /\ Is(t, "sigqueue")
    /\ IF mem["installed"] = 1
       THEN sem' = [sem EXCEPT !["signals"] = @ + 1] /\ Goto(t, 1)
       ELSE /\ UNCHANGED sem
            /\ pc' = [u \in Thread |-> IF u = t THEN pc[t] + 1
                                       ELSE IF table.threads[u].handles = "" THEN Len(Code(u)) + 1
                                       ELSE 1]
    /\ UNCHANGED <<rest, mem, reg, owner>>

(* A pending signal goes to a thread that is not handling one already. *)
Deliver(t) ==
    /\ Is(t, "wait") /\ table.threads[t].handles # "" /\ Alive(table.threads[t].handles)
    /\ sem' = [sem EXCEPT !["signals"] = @ - 1]
    /\ Goto(t, 1)
    /\ UNCHANGED <<rest, mem, reg, owner>>

(* Threads and processes *)

Create(t) ==
    /\ Is(t, "create")
    /\ pc' = [pc EXCEPT ![t] = @ + 1, ![At(t).arg] = 1]
    /\ UNCHANGED <<rest, mem, reg, owner, sem>>

(* threadParams[THREAD_2] is behind the array: what the write overwrites is  *)
(* the linker's choice, threads[0] for one.                                  *)
Overrun(t) ==
    /\ Is(t, "overrun")
    /\ overrun' \in BOOLEAN
    /\ Goto(t, 1)
    /\ UNCHANGED <<program, table, queue, crashed, kills, mem, reg, owner, sem>>

Join(t) ==
    /\ Is(t, "join") /\ ~(overrun /\ At(t).arg = "T1")
    /\ Goto(t, 1)
    /\ UNCHANGED <<rest, mem, reg, owner, sem>>

JoinNobody(t) ==
    /\ Is(t, "join") /\ overrun /\ At(t).arg = "T1"
    /\ crashed' = TRUE
    /\ pc' = [u \in Thread |-> Len(Code(u)) + 1]
    /\ UNCHANGED <<program, table, queue, overrun, kills, mem, reg, owner, sem>>

(* Shared variables *)

Load(t) ==
    /\ Is(t, "load")
    /\ reg' = [reg EXCEPT ![t] = mem[At(t).arg]]
    /\ Goto(t, 1)
    /\ UNCHANGED <<rest, mem, owner, sem>>

Store(t) ==
    /\ Is(t, "store")
    /\ mem' = [mem EXCEPT ![At(t).arg] = reg[t] + At(t).add]
    /\ Goto(t, 1)
    /\ UNCHANGED <<rest, reg, owner, sem>>

(* bit is a power of 2. *)
HasBit(byte, bit) == (byte \div bit) % 2 = 1
ClearBit(t) ==
    /\ Is(t, "clear")
    /\ mem' = [mem EXCEPT ![At(t).arg] =
                                IF HasBit(reg[t], At(t).value) THEN reg[t] - At(t).value
                                                               ELSE reg[t]]
    /\ Goto(t, 1)
    /\ UNCHANGED <<rest, reg, owner, sem>>

Assign(t) ==
    /\ Is(t, "set")
    /\ mem' = [mem EXCEPT ![At(t).arg] = At(t).value]
    /\ Goto(t, 1)
    /\ UNCHANGED <<rest, reg, owner, sem>>

(* The condition of a loop or an if. *)
Test(t) ==
    /\ Is(t, "below") \/ Is(t, "has")
    /\ LET holds == IF At(t).op = "has" THEN HasBit(mem[At(t).arg], At(t).value)
                                       ELSE mem[At(t).arg] < At(t).value
       IN Goto(t, IF holds THEN 1 ELSE At(t).to)
    /\ UNCHANGED <<rest, mem, reg, owner, sem>>

(* The end of a loop; work on the thread's own data; the end of a spin. *)
GoOn(t) ==
    /\ Is(t, "jump") \/ Is(t, "work") \/ Is(t, "spin")
    /\ Goto(t, IF At(t).op = "jump" THEN At(t).to ELSE 1)
    /\ UNCHANGED <<rest, mem, reg, owner, sem>>

(* Queues *)

Send(t) ==
    /\ Is(t, "send")
    /\ queue' = queue + 1
    /\ Goto(t, 1)
    /\ UNCHANGED <<program, table, overrun, crashed, kills, mem, reg, owner, sem>>

Receive(t) ==
    /\ Is(t, "receive")
    /\ queue' = queue - 1
    /\ Goto(t, 1)
    /\ UNCHANGED <<program, table, overrun, crashed, kills, mem, reg, owner, sem>>

-----------------------------------------------------------------------------
(* The user kills the program and starts the next one that uses the same     *)
(* names.                                                                    *)
Finished == \A t \in Thread : table.threads[t].handles = "" => Ended(t) \/ pc[t] = 0

Kill ==
    /\ table.next # "" /\ ~Finished /\ kills < Kills
    /\ kills' = kills + 1
    /\ program' = table.next /\ table' = Programs[table.next]
    /\ pc' = Started(table') /\ mem' = table'.mem /\ reg' = NothingLoaded(table')
    /\ sem' = IF table.next = program THEN sem ELSE table'.sems
    /\ UNCHANGED <<owner, queue, overrun, crashed>>

Run(t) ==
    \/ Lock(t) \/ TimeOut(t) \/ Unlock(t)
    \/ Post(t) \/ Wait(t) \/ Unlink(t) \/ Sigqueue(t) \/ Deliver(t)
    \/ Create(t) \/ Overrun(t) \/ Join(t) \/ JoinNobody(t)
    \/ Load(t) \/ Store(t) \/ Assign(t) \/ ClearBit(t) \/ Test(t) \/ GoOn(t)
    \/ Send(t) \/ Receive(t)

Next == (\E t \in Thread : Run(t)) \/ Kill

AllThreads == UNION {DOMAIN Programs[p].threads : p \in DOMAIN Programs}

Spec == Init /\ [][Next]_vars
FairSpec == Spec /\ \A t \in AllThreads : WF_vars(t \in Thread /\ Run(t))
=============================================================================
