------------------------ MODULE ThreadPrograms_proofs ------------------------
(***************************************************************************)
(* Theorems about the programs of threads, for every table that the        *)
(* assumptions of Threads and ThreadPrograms allow: the mutexes' owners    *)
(* are the threads that hold them by the code (IInv), so critical sections *)
(* are exclusive and every mutex is given back; processes that post only   *)
(* after a wait take turns (TInv); and the middle priority overtakes the   *)
(* high one only through the mutex of the low one (MInv).                  *)
(***************************************************************************)
EXTENDS ThreadPrograms, TLAPS

(* Where the threads are, and the types.                                    *)
Types ==
    /\ program \in DOMAIN Programs /\ table = Programs[program]
    /\ pc \in [Thread -> Nat] /\ \A t \in Thread : pc[t] \in 0 .. Len(Code(t)) + 1
    /\ DOMAIN reg = Thread
    /\ owner \in [table.mutexes -> Thread \union {""}]
    /\ \A s \in DOMAIN sem : sem[s] \in Nat
    /\ queue \in 0 .. MaxMsg /\ kills \in 0 .. Kills
    /\ overrun \in BOOLEAN /\ crashed \in BOOLEAN

(* A crash ends all threads.                                                *)
CrashEndsAll == crashed => \A t \in Thread : Ended(t)

(* A mutex is locked for the thread that holds it where it is in its code.  *)
OwnersHold ==
    ~crashed => \A m \in table.mutexes : \A t \in Thread :
        owner[m] = t <=> Holds(Code(t), pc[t], m)

(* A thread has been created once its creator is past the call.             *)
CreatedOnce ==
    table.mutexes # {} /\ ~crashed =>
        \A t, u \in Thread : \A i \in 1 .. Len(Code(t)) :
            Creates(Code(t)[i], u) => (pc[u] # 0 <=> pc[t] > i)

IInv == Types /\ CrashEndsAll /\ OwnersHold /\ CreatedOnce

-----------------------------------------------------------------------------
(* The tables *)

LEMMA TableFacts ==
    ASSUME Types
    PROVE  /\ WellFormed(table) /\ (table.mutexes # {} => LocksNest(table))
           /\ table.next # "" => /\ table.next \in DOMAIN Programs
                                 /\ table.mutexes = {} /\ Programs[table.next].mutexes = {}
           /\ "" \notin Thread
           /\ \A t \in Thread :
                  /\ Len(Code(t)) \in Nat \ {0} /\ DOMAIN Code(t) = 1 .. Len(Code(t))
                  /\ table.threads[t].handles \in Thread \union {""}
           /\ \A s \in DOMAIN table.sems : table.sems[s] \in Nat
<1>1. WellFormed(table) /\ (table.mutexes # {} => LocksNest(table))
  BY ThreadsAssumption DEF Types
<1> QED BY <1>1 DEF WellFormed, Thread, Code

(* The instruction of a thread that is alive.                               *)
LEMMA InstructionFacts ==
    ASSUME Types, NEW t \in Thread, Alive(t)
    PROVE  /\ pc[t] \in 1 .. Len(Code(t)) /\ At(t) = Code(t)[pc[t]]
           /\ pc[t] + 1 \in 1 .. Len(Code(t)) + 1
           /\ Creates(At(t), At(t).arg) => At(t).arg \in Thread
           /\ At(t).op \in {"lock", "timedlock", "unlock"} => At(t).arg \in table.mutexes
           /\ Jumps(At(t)) => At(t).to \in Int /\ pc[t] + At(t).to \in 1 .. Len(Code(t)) + 1
           /\ At(t).op = "wait" /\ table.threads[t].handles # "" => At(t).arg = "signals"
<1>1. WellFormed(table) /\ Len(Code(t)) \in Nat
  BY TableFacts
<1>2. pc[t] \in Nat /\ pc[t] > 0 /\ ~(pc[t] > Len(Code(t))) /\ At(t) = Code(t)[pc[t]]
  BY DEF Types, Alive, Ended, At
<1>3. pc[t] \in 1 .. Len(Code(t)) /\ pc[t] + 1 \in 1 .. Len(Code(t)) + 1
  BY <1>1, <1>2
<1>4. \A i \in 1 .. Len(Code(t)) :
          /\ Code(t)[i].op = "create" => Code(t)[i].arg \in Thread
          /\ Code(t)[i].op \in {"lock", "timedlock", "unlock"} => Code(t)[i].arg \in table.mutexes
          /\ Jumps(Code(t)[i]) =>
                 Code(t)[i].to \in Int /\ i + Code(t)[i].to \in 1 .. Len(Code(t)) + 1
          /\ Code(t)[i].op = "wait" /\ table.threads[t].handles # "" =>
                 Code(t)[i].arg = "signals"
  BY <1>1 DEF WellFormed, Thread, Code
<1> QED BY <1>2, <1>3, <1>4 DEF Creates

LEMMA NestingFacts ==
    ASSUME Types, table.mutexes # {}, NEW t \in Thread
    PROVE  /\ table.threads[t].handles = "" /\ table.next = ""
           /\ \A m \in table.mutexes : Nested(Code(t), m)
           /\ \A i \in 1 .. Len(Code(t)) :
                  /\ Code(t)[i].op # "sigqueue"
                  /\ Code(t)[i].op = "create" =>
                        /\ Code(t)[i].arg # "main"
                        /\ \A j \in 1 .. Len(Code(t)) : ~Jumps(Code(t)[j])
<1>1. LocksNest(table) /\ table.next = ""
  BY TableFacts
<1> QED BY <1>1 DEF LocksNest, Thread, Code

LEMMA OneCreation ==
    ASSUME Types, table.mutexes # {}, NEW t \in Thread, NEW u \in Thread, NEW v \in Thread,
           NEW i \in 1 .. Len(Code(t)), NEW j \in 1 .. Len(Code(u)),
           Creates(Code(t)[i], v), Creates(Code(u)[j], v)
    PROVE  t = u /\ i = j
<1>1. LocksNest(table) /\ DOMAIN Code(t) = 1 .. Len(Code(t)) /\ DOMAIN Code(u) = 1 .. Len(Code(u))
  BY TableFacts
<1> QED BY <1>1 DEF LocksNest, Thread, Code

(* What is held along the code.                                             *)
LEMMA HoldsNothingYet ==
    ASSUME NEW code, NEW m PROVE ~Holds(code, 0, m) /\ ~Holds(code, 1, m)
  BY DEF Holds

LEMMA HoldsNext ==
    ASSUME NEW code, NEW m, NEW i \in Nat \ {0}
    PROVE  Holds(code, i + 1, m) <=> Locks(code[i], m) \/ (Holds(code, i, m) /\ ~Unlocks(code[i], m))
<1>1. ASSUME Holds(code, i + 1, m), ~Locks(code[i], m)
      PROVE  Holds(code, i, m) /\ ~Unlocks(code[i], m)
  <2>1. PICK j \in 1 .. i : Locks(code[j], m) /\ \A l \in j + 1 .. i : ~Unlocks(code[l], m)
    BY <1>1 DEF Holds
  <2>2. j \in 1 .. i - 1 /\ i \in j + 1 .. i /\ \A l \in j + 1 .. i - 1 : l \in j + 1 .. i
    BY <1>1, <2>1
  <2> QED BY <2>1, <2>2 DEF Holds
<1>2. ASSUME Locks(code[i], m) PROVE Holds(code, i + 1, m)
  <2>1. i \in 1 .. i + 1 - 1 /\ i + 1 .. i + 1 - 1 = {}
    OBVIOUS
  <2> QED BY <1>2, <2>1 DEF Holds
<1>3. ASSUME Holds(code, i, m), ~Unlocks(code[i], m) PROVE Holds(code, i + 1, m)
  <2>1. PICK j \in 1 .. i - 1 : Locks(code[j], m) /\ \A l \in j + 1 .. i - 1 : ~Unlocks(code[l], m)
    BY <1>3 DEF Holds
  <2>2. j \in 1 .. i + 1 - 1 /\ \A l \in j + 1 .. i + 1 - 1 : l = i \/ l \in j + 1 .. i - 1
    BY <2>1
  <2> QED BY <1>3, <2>1, <2>2 DEF Holds
<1> QED BY <1>1, <1>2, <1>3

LEMMA HoldsMeansStarted ==
    ASSUME NEW code, NEW m, NEW i \in Nat, Holds(code, i, m)
    PROVE  i > 1 /\ \E j \in 1 .. i - 1 : Locks(code[j], m)
  BY DEF Holds

-----------------------------------------------------------------------------
(* What a step of a thread does *)

PlainSteps == {"post", "wait", "unlink", "overrun", "join", "load", "store", "set", "clear",
               "work", "spin", "send", "receive"}

Creation(t) ==
    /\ At(t).op = "create" /\ At(t).arg \in Thread
    /\ pc' = [pc EXCEPT ![t] = @ + 1, ![At(t).arg] = 1]
    /\ UNCHANGED <<owner, sem, crashed>>
Crash == crashed' = TRUE /\ pc' = [u \in Thread |-> Len(Code(u)) + 1] /\ UNCHANGED <<owner, sem>>
Signal(t) ==
    /\ At(t).op = "sigqueue" /\ UNCHANGED <<owner, crashed>>
    /\ \/ Goto(t, 1)
       \/ pc' = [u \in Thread |-> IF u = t THEN pc[t] + 1
                                  ELSE IF table.threads[u].handles = "" THEN Len(Code(u)) + 1
                                  ELSE 1]
Locking(t) ==
    /\ At(t).op \in {"lock", "timedlock"} /\ At(t).arg \in table.mutexes
    /\ owner[At(t).arg] = "" /\ owner' = [owner EXCEPT ![At(t).arg] = t]
    /\ Goto(t, 1) /\ UNCHANGED <<sem, crashed>>
Unlocking(t) ==
    /\ At(t).op = "unlock" /\ At(t).arg \in table.mutexes
    /\ owner' = [owner EXCEPT ![At(t).arg] = ""]
    /\ Goto(t, 1) /\ UNCHANGED <<sem, crashed>>
Plainly(t) == At(t).op \in PlainSteps /\ Goto(t, 1) /\ UNCHANGED <<owner, crashed>>
Jumping(t) == Jumps(At(t)) /\ (Goto(t, 1) \/ Goto(t, At(t).to)) /\ At(t).op # "timedlock"
              /\ UNCHANGED <<owner, sem, crashed>>
TimingOut(t) == Jumps(At(t)) /\ Goto(t, At(t).to) /\ UNCHANGED <<owner, sem, crashed>>

LEMMA RunSteps ==
    ASSUME Types, NEW t \in Thread, Run(t)
    PROVE  /\ Alive(t) /\ MayRun(t) /\ CanGoOn(t)
           /\ UNCHANGED <<program, table, kills>>
           /\ \/ Creation(t) \/ Crash \/ Signal(t) \/ Locking(t) \/ Unlocking(t)
              \/ Plainly(t) \/ Jumping(t) \/ TimingOut(t)
<1>1. Alive(t) /\ MayRun(t) /\ CanGoOn(t)
  <2>1. At(t).op # "none" => Alive(t)
    BY DEF At
  <2>2. MayRun(t) /\ CanGoOn(t) /\ At(t).op # "none"
    BY DEF Is, Run, Lock, TimeOut, Unlock, Post, Wait, Unlink, Sigqueue, Deliver, Create, Overrun,
           Join, JoinNobody, Load, Store, Assign, ClearBit, Test, GoOn, Send, Receive
  <2> QED BY <2>1, <2>2
<1>2. UNCHANGED <<program, table, kills>>
  BY DEF Run, Lock, TimeOut, Unlock, Post, Wait, Unlink, Sigqueue, Deliver, Create, Overrun, rest,
         Join, JoinNobody, Load, Store, Assign, ClearBit, Test, GoOn, Send, Receive
<1>3. CASE Lock(t)
  <2>1. At(t).op \in {"lock", "timedlock"} /\ At(t).arg \in table.mutexes
    BY <1>1, <1>3, InstructionFacts DEF Lock, Is
  <2>2. owner[At(t).arg] = ""
    BY <1>1, <1>3 DEF Lock, Is, CanGoOn
  <2> QED BY <1>1, <1>2, <1>3, <2>1, <2>2 DEF Lock, rest, Locking
<1>4. CASE TimeOut(t)
  BY <1>1, <1>2, <1>4 DEF TimeOut, Is, rest, TimingOut, Jumps
<1>5. CASE Unlock(t)
  <2>1. At(t).op = "unlock" /\ At(t).arg \in table.mutexes
    BY <1>1, <1>5, InstructionFacts DEF Unlock, Is
  <2> QED BY <1>1, <1>2, <1>5, <2>1 DEF Unlock, rest, Unlocking
<1>6. CASE Post(t) \/ Wait(t) \/ Unlink(t) \/ Deliver(t) \/ Overrun(t) \/ Join(t)
           \/ Load(t) \/ Store(t) \/ Assign(t) \/ ClearBit(t) \/ Send(t) \/ Receive(t)
  BY <1>1, <1>2, <1>6
     DEF Post, Wait, Unlink, Deliver, Overrun, Join, Load, Store, Assign, ClearBit, Send, Receive,
         Is, rest, Plainly, PlainSteps
<1>7. CASE Sigqueue(t)
  <2>1. At(t).op = "sigqueue" /\ UNCHANGED <<owner, crashed>>
    BY <1>7 DEF Sigqueue, Is, rest
  <2>2. CASE mem["installed"] = 1
    BY <1>1, <1>2, <1>7, <2>1, <2>2 DEF Sigqueue, Signal
  <2>3. CASE mem["installed"] # 1
    BY <1>1, <1>2, <1>7, <2>1, <2>3 DEF Sigqueue, Signal
  <2> QED BY <2>2, <2>3
<1>8. CASE Create(t)
  <2>1. At(t).op = "create" /\ At(t).arg \in Thread
    BY <1>1, <1>8, InstructionFacts DEF Create, Is, Creates
  <2> QED BY <1>1, <1>2, <1>8, <2>1 DEF Create, rest, Creation
<1>9. CASE JoinNobody(t)
  BY <1>1, <1>2, <1>9 DEF JoinNobody, Crash
<1>10. CASE Test(t)
  <2>1. At(t).op \in {"below", "has"} /\ (Goto(t, 1) \/ Goto(t, At(t).to))
    BY <1>10 DEF Test, Is
  <2> QED BY <1>1, <1>2, <1>10, <2>1 DEF Test, rest, Jumping, Jumps
<1>11. CASE GoOn(t)
  <2>1. CASE At(t).op = "jump"
    BY <1>1, <1>2, <1>11, <2>1 DEF GoOn, rest, Jumping, Jumps
  <2>2. CASE At(t).op \in {"work", "spin"}
    BY <1>1, <1>2, <1>11, <2>2 DEF GoOn, rest, Plainly, PlainSteps
  <2> QED BY <1>11, <2>1, <2>2 DEF GoOn, Is
<1> QED BY <1>3, <1>4, <1>5, <1>6, <1>7, <1>8, <1>9, <1>10, <1>11 DEF Run

(* A thread that moves stays within its code.                               *)
LEMMA PcTypes ==
    ASSUME Types, NEW t \in Thread, Run(t)
    PROVE  pc' \in [Thread -> Nat] /\ \A u \in Thread : pc'[u] \in 0 .. Len(Code(u)) + 1
<1>1. \A u \in Thread : Len(Code(u)) \in Nat \ {0} /\ pc[u] \in 0 .. Len(Code(u)) + 1
  BY TableFacts DEF Types
<1>2. pc \in [Thread -> Nat]
  BY DEF Types
<1>3. Alive(t)
  BY RunSteps
<1>4. pc[t] + 1 \in 1 .. Len(Code(t)) + 1
      /\ (Jumps(At(t)) => At(t).to \in Int /\ pc[t] + At(t).to \in 1 .. Len(Code(t)) + 1)
  BY <1>3, InstructionFacts
<1>5. ASSUME NEW n, pc[t] + n \in 1 .. Len(Code(t)) + 1, Goto(t, n)
      PROVE  pc' \in [Thread -> Nat] /\ \A u \in Thread : pc'[u] \in 0 .. Len(Code(u)) + 1
  <2>1. pc[t] + n \in Nat /\ pc[t] + n \in 0 .. Len(Code(t)) + 1
    BY <1>1, <1>5
  <2>2. pc' = [pc EXCEPT ![t] = pc[t] + n]
    BY <1>5 DEF Goto
  <2> QED BY <1>1, <1>2, <2>1, <2>2
<1>6. CASE Creation(t)
  <2>1. pc[t] + 1 \in Nat /\ pc[t] + 1 \in 0 .. Len(Code(t)) + 1 /\ 1 \in Nat
    BY <1>1, <1>4
  <2>2. \A u \in Thread : 1 \in 0 .. Len(Code(u)) + 1
    BY <1>1
  <2>3. \A u \in Thread : pc'[u] = IF u = At(t).arg THEN 1 ELSE IF u = t THEN pc[t] + 1 ELSE pc[u]
    BY <1>2, <1>6 DEF Creation
  <2>4. pc' \in [Thread -> Nat]
    BY <1>2, <1>6, <2>1 DEF Creation
  <2> QED BY <1>1, <2>1, <2>2, <2>3, <2>4
<1>7. CASE Crash
  <2>1. \A u \in Thread : Len(Code(u)) + 1 \in Nat /\ Len(Code(u)) + 1 \in 0 .. Len(Code(u)) + 1
    BY <1>1
  <2> QED BY <1>7, <2>1 DEF Crash
<1>8. CASE Signal(t)
  <2>1. \A u \in Thread : /\ Len(Code(u)) + 1 \in Nat /\ Len(Code(u)) + 1 \in 0 .. Len(Code(u)) + 1
                          /\ 1 \in 0 .. Len(Code(u)) + 1 /\ 1 \in Nat
    BY <1>1
  <2>2. pc[t] + 1 \in Nat /\ pc[t] + 1 \in 0 .. Len(Code(t)) + 1
    BY <1>1, <1>4
  <2>3. CASE Goto(t, 1)
    BY <1>4, <1>5, <2>3
  <2>4. CASE ~Goto(t, 1)
    BY <1>8, <2>1, <2>2, <2>4 DEF Signal
  <2> QED BY <2>3, <2>4
<1>9. CASE Locking(t) \/ Unlocking(t) \/ Plainly(t)
  BY <1>4, <1>5, <1>9 DEF Locking, Unlocking, Plainly
<1>10. CASE Jumping(t) \/ TimingOut(t)
  BY <1>4, <1>5, <1>10 DEF Jumping, TimingOut
<1> QED BY <1>6, <1>7, <1>8, <1>9, <1>10, RunSteps

LEMMA OwnerTypes ==
    ASSUME Types, NEW t \in Thread, Run(t)
    PROVE  owner' \in [table.mutexes -> Thread \union {""}]
<1>1. owner \in [table.mutexes -> Thread \union {""}]
  BY DEF Types
<1>2. \/ owner' = owner \/ owner' = [owner EXCEPT ![At(t).arg] = t]
      \/ owner' = [owner EXCEPT ![At(t).arg] = ""]
  BY RunSteps DEF Creation, Crash, Signal, Locking, Unlocking, Plainly, Jumping, TimingOut
<1> QED BY <1>1, <1>2

LEMMA SemTypes ==
    ASSUME Types, NEW t \in Thread, Run(t)
    PROVE  \A s \in DOMAIN sem' : sem'[s] \in Nat
<1>1. \A s \in DOMAIN sem : sem[s] \in Nat
  BY DEF Types
<1>2. Alive(t) /\ CanGoOn(t)
  BY RunSteps
<1>3. CASE Post(t) \/ Sigqueue(t)
  <2>1. \E s : sem' = [sem EXCEPT ![s] = @ + 1] \/ sem' = sem
    BY <1>3 DEF Post, Sigqueue
  <2> QED BY <1>1, <2>1
<1>4. CASE Wait(t) \/ Deliver(t)
  <2>1. At(t).op = "wait" /\ sem[At(t).arg] > 0
    BY <1>2, <1>4 DEF Wait, Deliver, Is, CanGoOn
  <2>2. sem' = [sem EXCEPT ![At(t).arg] = @ - 1]
    <3>1. CASE Wait(t)
      BY <3>1 DEF Wait
    <3>2. CASE Deliver(t)
      BY <1>2, <2>1, <3>2, InstructionFacts DEF Deliver
    <3> QED BY <1>4, <3>1, <3>2
  <2> QED BY <1>1, <2>1, <2>2
<1>5. CASE Unlink(t)
  BY <1>1, <1>5 DEF Unlink
<1>6. CASE ~(Post(t) \/ Sigqueue(t) \/ Wait(t) \/ Deliver(t) \/ Unlink(t))
  BY <1>1, <1>6
     DEF Run, Lock, TimeOut, Unlock, Create, Overrun, rest,
         Join, JoinNobody, Load, Store, Assign, ClearBit, Test, GoOn, Send, Receive
<1> QED BY <1>3, <1>4, <1>5, <1>6

LEMMA OtherTypes ==
    ASSUME Types, NEW t \in Thread, Run(t)
    PROVE  /\ DOMAIN reg' = Thread /\ queue' \in 0 .. MaxMsg
           /\ overrun' \in BOOLEAN /\ crashed' \in BOOLEAN
<1>1. DOMAIN reg = Thread /\ queue \in 0 .. MaxMsg /\ overrun \in BOOLEAN /\ crashed \in BOOLEAN
      /\ MaxMsg \in Nat
  BY ThreadsAssumption DEF Types
<1>2. DOMAIN reg' = DOMAIN reg
  <2>1. CASE Load(t)
    BY <2>1 DEF Load
  <2>2. CASE ~Load(t)
    BY <2>2 DEF Run, Lock, TimeOut, Unlock, Post, Wait, Unlink, Sigqueue, Deliver, Create, Overrun,
         Join, JoinNobody, Store, Assign, ClearBit, Test, GoOn, Send, Receive
  <2> QED BY <2>1, <2>2
<1>3. queue' \in 0 .. MaxMsg
  <2>1. CASE Send(t)
    <3>1. queue < MaxMsg /\ queue' = queue + 1
      BY <2>1 DEF Send, Is, CanGoOn
    <3> QED BY <1>1, <3>1
  <2>2. CASE Receive(t)
    <3>1. queue > 0 /\ queue' = queue - 1
      BY <2>2 DEF Receive, Is, CanGoOn
    <3> QED BY <1>1, <3>1
  <2>3. CASE ~(Send(t) \/ Receive(t))
    BY <1>1, <2>3 DEF Run, Lock, TimeOut, Unlock, Post, Wait, Unlink, Sigqueue, Deliver, Create,
         Overrun, Join, JoinNobody, Load, Store, Assign, ClearBit, Test, GoOn, rest
  <2> QED BY <2>1, <2>2, <2>3
<1>4. overrun' \in BOOLEAN /\ crashed' \in BOOLEAN
  BY <1>1 DEF Run, Lock, TimeOut, Unlock, Post, Wait, Unlink, Sigqueue, Deliver, Create, Overrun,
         Join, JoinNobody, Load, Store, Assign, ClearBit, Test, GoOn, Send, Receive, rest
<1> QED BY <1>1, <1>2, <1>3, <1>4

-----------------------------------------------------------------------------
(* The invariant *)

LEMMA IInit == ASSUME Init PROVE IInv
<1>1. program \in DOMAIN Programs /\ table = Programs[program]
  BY DEF Init
<1>2. WellFormed(table) /\ (table.mutexes # {} => LocksNest(table))
  BY <1>1, ThreadsAssumption
<1>3. /\ pc = [t \in Thread |-> IF t = "main" \/ table.threads[t].handles # "" THEN 1 ELSE 0]
      /\ reg = [t \in Thread |-> 0] /\ owner = [m \in table.mutexes |-> ""] /\ sem = table.sems
      /\ queue = 0 /\ overrun = FALSE /\ crashed = FALSE /\ kills = 0
  BY DEF Init, Started, NothingLoaded, Thread
<1>4. \A t \in Thread : Len(Code(t)) \in Nat \ {0}
  BY <1>2 DEF WellFormed, Thread, Code
<1>5. \A t \in Thread : pc[t] \in {0, 1}
  BY <1>3
<1>6. Types
  <2>1. pc \in [Thread -> Nat] /\ \A t \in Thread : pc[t] \in 0 .. Len(Code(t)) + 1
    <3>1. \A t \in Thread : 0 \in 0 .. Len(Code(t)) + 1 /\ 1 \in 0 .. Len(Code(t)) + 1
      BY <1>4
    <3> QED BY <1>3, <1>5, <3>1
  <2>2. \A s \in DOMAIN sem : sem[s] \in Nat
    BY <1>2, <1>3 DEF WellFormed
  <2>3. 0 \in 0 .. MaxMsg /\ 0 \in 0 .. Kills
    BY ThreadsAssumption
  <2> QED BY <1>1, <1>3, <2>1, <2>2, <2>3 DEF Types
<1>7. OwnersHold
  <2> SUFFICES ASSUME NEW m \in table.mutexes, NEW t \in Thread
               PROVE  owner[m] = t <=> Holds(Code(t), pc[t], m)
    BY DEF OwnersHold
  <2>1. ~Holds(Code(t), pc[t], m)
    BY <1>5, HoldsNothingYet
  <2>2. owner[m] # t
    BY <1>3, <1>6, TableFacts
  <2> QED BY <2>1, <2>2
<1>8. CreatedOnce
  <2> SUFFICES ASSUME table.mutexes # {}, NEW t \in Thread, NEW u \in Thread,
                      NEW i \in 1 .. Len(Code(t)), Creates(Code(t)[i], u)
               PROVE  pc[u] = 0 /\ ~(pc[t] > i)
    BY DEF CreatedOnce
  <2>1. u # "main" /\ table.threads[u].handles = ""
    BY <1>6, NestingFacts DEF Creates
  <2>2. pc[u] = 0
    BY <1>3, <2>1
  <2>3. i \in Int /\ i >= 1
    BY <1>4
  <2> QED BY <1>5, <2>2, <2>3
<1> QED BY <1>3, <1>6, <1>7, <1>8 DEF IInv, CrashEndsAll

(* Who is alive, has not ended; nobody runs after a crash.                  *)
LEMMA RunsBeforeCrash ==
    ASSUME IInv, NEW t \in Thread, Run(t) PROVE ~crashed
  BY RunSteps DEF IInv, CrashEndsAll, Alive

(* A program that is killed has no mutexes and no crash behind it.          *)
LEMMA KillFacts ==
    ASSUME IInv, Kill
    PROVE  /\ ~crashed /\ ~crashed' /\ table.mutexes = {} /\ table'.mutexes = {}
           /\ program' \in DOMAIN Programs /\ table' = Programs[program']
           /\ kills \in Nat /\ kills' = kills + 1 /\ kills' \in 0 .. Kills
           /\ pc' = [t \in Thread' |-> IF t = "main" \/ table'.threads[t].handles # "" THEN 1 ELSE 0]
           /\ Types'
<1>1. Types /\ CrashEndsAll
  BY DEF IInv
<1>2. ~crashed /\ crashed' = crashed
  BY <1>1 DEF Kill, Finished, CrashEndsAll
<1>3. /\ table.mutexes = {} /\ table'.mutexes = {} /\ program' \in DOMAIN Programs
      /\ table' = Programs[program'] /\ table.next = program'
  BY <1>1, TableFacts DEF Kill
<1>4. kills \in Nat /\ kills' = kills + 1 /\ kills' \in 0 .. Kills
  <2>1. kills \in 0 .. Kills /\ Kills \in Nat
    BY <1>1, ThreadsAssumption DEF Types
  <2>2. kills < Kills /\ kills' = kills + 1
    BY DEF Kill
  <2> QED BY <2>1, <2>2
<1>5. WellFormed(table')
  BY <1>3, ThreadsAssumption
<1>6. /\ pc' = [t \in Thread' |-> IF t = "main" \/ table'.threads[t].handles # "" THEN 1 ELSE 0]
      /\ reg' = [t \in Thread' |-> 0]
  BY DEF Kill, Started, NothingLoaded, Thread
<1>7. \A t \in Thread' : Len(Code(t)') \in Nat \ {0}
  BY <1>5 DEF WellFormed, Thread, Code
<1>8. pc' \in [Thread' -> Nat] /\ \A t \in Thread' : pc'[t] \in 0 .. Len(Code(t)') + 1
  <2>1. \A t \in Thread' : 0 \in 0 .. Len(Code(t)') + 1 /\ 1 \in 0 .. Len(Code(t)') + 1
    BY <1>7
  <2>2. \A t \in Thread' : pc'[t] \in {0, 1}
    BY <1>6
  <2> QED BY <1>6, <2>1, <2>2
<1>9. \A s \in DOMAIN sem' : sem'[s] \in Nat
  <2>1. CASE table.next = program
    BY <1>1, <2>1 DEF Kill, Types
  <2>2. CASE table.next # program
    BY <1>5, <2>2 DEF Kill, WellFormed
  <2> QED BY <2>1, <2>2
<1>10. owner' \in [table'.mutexes -> Thread' \union {""}]
  BY <1>1, <1>3 DEF Kill, Types
<1>11. queue' \in 0 .. MaxMsg /\ overrun' \in BOOLEAN /\ crashed' \in BOOLEAN
  BY <1>1 DEF Kill, Types
<1>12. Types'
  BY <1>3, <1>4, <1>6, <1>8, <1>9, <1>10, <1>11 DEF Types
<1> QED BY <1>2, <1>3, <1>4, <1>6, <1>12

LEMMA IKill == ASSUME IInv, Kill PROVE IInv'
<1>1. Types' /\ ~crashed' /\ table'.mutexes = {}
  BY KillFacts
<1> QED BY <1>1 DEF IInv, CrashEndsAll, OwnersHold, CreatedOnce

LEMMA TypesRun == ASSUME Types, NEW t \in Thread, Run(t) PROVE Types'
<1>1. UNCHANGED <<program, table, kills>>
  BY RunSteps
<1>2. Thread' = Thread /\ \A u : Code(u)' = Code(u)
  BY <1>1 DEF Thread, Code
<1>3. pc' \in [Thread -> Nat] /\ \A u \in Thread : pc'[u] \in 0 .. Len(Code(u)) + 1
  BY PcTypes
<1> QED BY <1>1, <1>2, <1>3, OwnerTypes, SemTypes, OtherTypes DEF Types

(* In a program with mutexes a thread that does not crash it goes to         *)
(* another instruction, and may create one thread.                          *)
LEMMA MutexSteps ==
    ASSUME IInv, NEW t \in Thread, Run(t), ~crashed', table.mutexes # {}
    PROVE  /\ Alive(t) /\ ~crashed /\ UNCHANGED <<program, table, crashed>>
           /\ \/ Creation(t) \/ Locking(t) \/ Unlocking(t)
              \/ Plainly(t) \/ Jumping(t) \/ TimingOut(t)
<1>1. Types /\ Alive(t) /\ ~crashed /\ UNCHANGED <<program, table>>
  BY RunSteps, RunsBeforeCrash DEF IInv
<1>2. crashed' = crashed
  BY <1>1, OtherTypes DEF Types
<1>3. At(t).op # "sigqueue"
  BY <1>1, InstructionFacts, NestingFacts
<1> QED BY <1>1, <1>2, <1>3, RunSteps DEF Signal, Crash

LEMMA CreatedOnceRun ==
    ASSUME IInv, NEW t \in Thread, Run(t) PROVE CreatedOnce'
<1> SUFFICES ASSUME ~crashed', table'.mutexes # {}, NEW v \in Thread', NEW u \in Thread',
                    NEW i \in 1 .. Len(Code(v)'), Creates(Code(v)'[i], u)
             PROVE  pc'[u] # 0 <=> pc'[v] > i
  BY DEF CreatedOnce
<1>1. Types /\ UNCHANGED <<program, table>> /\ Types'
  BY RunSteps, TypesRun DEF IInv
<1>2. Thread' = Thread /\ (\A w : Code(w)' = Code(w)) /\ table.mutexes # {}
  BY <1>1 DEF Thread, Code
<1>3. v \in Thread /\ u \in Thread /\ i \in 1 .. Len(Code(v)) /\ Creates(Code(v)[i], u)
  BY <1>2
<1>4. Alive(t) /\ ~crashed /\ \/ Creation(t) \/ Locking(t) \/ Unlocking(t)
                              \/ Plainly(t) \/ Jumping(t) \/ TimingOut(t)
  BY <1>2, MutexSteps
<1>5. pc[u] # 0 <=> pc[v] > i
  BY <1>2, <1>3, <1>4 DEF IInv, CreatedOnce
<1>6. pc \in [Thread -> Nat] /\ i \in Nat \ {0} /\ pc[t] \in 1 .. Len(Code(t)) /\ At(t) = Code(t)[pc[t]]
      /\ Len(Code(t)) \in Nat
  <2>1. pc \in [Thread -> Nat] /\ \A w \in Thread : Len(Code(w)) \in Nat
    BY <1>1, TableFacts DEF Types
  <2>2. pc[t] \in 1 .. Len(Code(t)) /\ At(t) = Code(t)[pc[t]]
    BY <1>1, <1>4, InstructionFacts
  <2>3. i \in Nat \ {0}
    BY <1>3, <2>1
  <2> QED BY <2>1, <2>2, <2>3
<1>7. CASE Creation(t)
  <2>1. At(t).arg \in Thread /\ Creates(At(t), At(t).arg)
    BY <1>7 DEF Creation, Creates
  <2>2. pc[At(t).arg] = 0 /\ At(t).arg # t
    <3>1. pc[At(t).arg] # 0 <=> pc[t] > pc[t]
      BY <1>2, <1>4, <1>6, <2>1 DEF IInv, CreatedOnce
    <3> QED BY <1>6, <2>1, <3>1
  <2>3. \A w \in Thread : pc'[w] = IF w = At(t).arg THEN 1 ELSE IF w = t THEN pc[t] + 1 ELSE pc[w]
    BY <1>6, <1>7 DEF Creation
  <2>4. u = At(t).arg => v = t /\ i = pc[t]
    BY <1>1, <1>2, <1>3, <1>6, <2>1, OneCreation
  <2>5. v = t /\ i = pc[t] => u = At(t).arg
    BY <1>3, <1>6, <2>1 DEF Creates
  <2>6. CASE u = At(t).arg
    BY <1>6, <2>1, <2>2, <2>3, <2>4, <2>6
  <2>7. CASE u # At(t).arg /\ v = t
    BY <1>3, <1>5, <1>6, <2>1, <2>2, <2>3, <2>5, <2>7
  <2>8. CASE u # At(t).arg /\ v # t
    <3>1. pc'[u] # 0 <=> pc[u] # 0
      BY <1>3, <1>6, <2>3, <2>8
    <3>2. pc'[v] = IF v = At(t).arg THEN 1 ELSE pc[v]
      BY <1>3, <2>3, <2>8
    <3>3. pc'[v] > i <=> pc[v] > i
      BY <1>3, <1>6, <2>2, <3>2
    <3> QED BY <1>5, <3>1, <3>3
  <2> QED BY <2>6, <2>7, <2>8
<1>8. ASSUME NEW n \in Int, pc[t] + n \in 1 .. Len(Code(t)) + 1, Goto(t, n),
             v = t => (pc[t] + n > i <=> pc[t] > i)
      PROVE  pc'[u] # 0 <=> pc'[v] > i
  <2>1. \A w \in Thread : pc'[w] = IF w = t THEN pc[t] + n ELSE pc[w]
    BY <1>6, <1>8 DEF Goto
  <2>2. pc'[u] # 0 <=> pc[u] # 0
    BY <1>3, <1>6, <1>8, <2>1
  <2> QED BY <1>3, <1>5, <1>8, <2>1, <2>2
<1>9. CASE Locking(t) \/ Unlocking(t) \/ Plainly(t)
  <2>1. Goto(t, 1) /\ At(t).op # "create"
    BY <1>9 DEF Locking, Unlocking, Plainly, PlainSteps
  <2>2. v = t => i # pc[t]
    BY <1>3, <1>6, <2>1 DEF Creates
  <2>3. v = t => (pc[t] + 1 > i <=> pc[t] > i)
    BY <1>6, <2>2
  <2> QED BY <1>6, <1>8, <2>1, <2>3
<1>10. CASE Jumping(t) \/ TimingOut(t)
  <2>1. Jumps(At(t)) /\ (Goto(t, 1) \/ Goto(t, At(t).to))
    BY <1>10 DEF Jumping, TimingOut
  <2>2. v # t
    BY <1>1, <1>2, <1>3, <1>6, <2>1, NestingFacts DEF Creates
  <2>3. At(t).to \in Int /\ pc[t] + At(t).to \in 1 .. Len(Code(t)) + 1
        /\ pc[t] + 1 \in 1 .. Len(Code(t)) + 1
    BY <1>1, <1>4, <2>1, InstructionFacts
  <2> QED BY <1>8, <2>1, <2>2, <2>3
<1> QED BY <1>4, <1>7, <1>9, <1>10

LEMMA OwnersHoldRun ==
    ASSUME IInv, NEW t \in Thread, Run(t) PROVE OwnersHold'
<1> SUFFICES ASSUME ~crashed', NEW m \in table'.mutexes, NEW u \in Thread'
             PROVE  owner'[m] = u <=> Holds(Code(u)', pc'[u], m)
  BY DEF OwnersHold
<1>1. Types /\ UNCHANGED <<program, table>>
  BY RunSteps DEF IInv
<1>2. Thread' = Thread /\ (\A w : Code(w)' = Code(w)) /\ table.mutexes # {}
      /\ m \in table.mutexes /\ u \in Thread
  BY <1>1 DEF Thread, Code
<1> SUFFICES owner'[m] = u <=> Holds(Code(u), pc'[u], m)
  BY <1>2
<1>3. Alive(t) /\ ~crashed /\ \/ Creation(t) \/ Locking(t) \/ Unlocking(t)
                              \/ Plainly(t) \/ Jumping(t) \/ TimingOut(t)
  BY <1>2, MutexSteps
<1>4. \A w \in Thread : owner[m] = w <=> Holds(Code(w), pc[w], m)
  BY <1>2, <1>3 DEF IInv, OwnersHold
<1>5. pc \in [Thread -> Nat] /\ pc[t] \in 1 .. Len(Code(t)) /\ At(t) = Code(t)[pc[t]]
      /\ Len(Code(t)) \in Nat /\ pc[t] \in Nat \ {0} /\ "" \notin Thread
      /\ owner \in [table.mutexes -> Thread \union {""}]
  <2>1. /\ pc \in [Thread -> Nat] /\ Len(Code(t)) \in Nat /\ "" \notin Thread
        /\ owner \in [table.mutexes -> Thread \union {""}]
    BY <1>1, TableFacts DEF Types
  <2>2. pc[t] \in 1 .. Len(Code(t)) /\ At(t) = Code(t)[pc[t]]
    BY <1>1, <1>3, InstructionFacts
  <2>3. pc[t] \in Nat \ {0}
    <3>1. pc[t] \in Nat /\ pc[t] > 0
      BY <1>1, <1>3 DEF Types, Alive
    <3> QED BY <3>1
  <2> QED BY <2>1, <2>2, <2>3
<1>6. Holds(Code(t), pc[t] + 1, m) <=>
        Locks(At(t), m) \/ (Holds(Code(t), pc[t], m) /\ ~Unlocks(At(t), m))
  <2>1. pc[t] \in Nat \ {0} /\ At(t) = Code(t)[pc[t]]
    BY <1>5
  <2> QED BY <2>1, HoldsNext
<1>7. ASSUME NEW n \in Int, Goto(t, n), owner'[m] = owner[m],
             Holds(Code(t), pc[t] + n, m) <=> Holds(Code(t), pc[t], m)
      PROVE  owner'[m] = u <=> Holds(Code(u), pc'[u], m)
  <2>1. pc'[u] = IF u = t THEN pc[t] + n ELSE pc[u]
    BY <1>2, <1>5, <1>7 DEF Goto
  <2> QED BY <1>2, <1>4, <1>7, <2>1
<1>8. CASE Creation(t)
  <2>1. At(t).arg \in Thread /\ Creates(At(t), At(t).arg) /\ owner' = owner
    BY <1>8 DEF Creation, Creates
  <2>2. pc[At(t).arg] = 0 /\ At(t).arg # t
    <3>1. pc[At(t).arg] # 0 <=> pc[t] > pc[t]
      BY <1>2, <1>3, <1>5, <2>1 DEF IInv, CreatedOnce
    <3>2. pc[t] \in Nat /\ pc[t] # 0
      BY <1>5
    <3>3. pc[At(t).arg] = 0
      BY <3>1, <3>2
    <3> QED BY <3>2, <3>3
  <2>3. pc'[u] = IF u = At(t).arg THEN 1 ELSE IF u = t THEN pc[t] + 1 ELSE pc[u]
    BY <1>2, <1>5, <1>8 DEF Creation
  <2>4. CASE u = At(t).arg
    BY <1>2, <1>4, <2>1, <2>2, <2>3, <2>4, HoldsNothingYet
  <2>5. CASE u = t
    BY <1>2, <1>4, <1>6, <2>1, <2>2, <2>3, <2>5 DEF Creates, Locks, Unlocks
  <2>6. CASE u # t /\ u # At(t).arg
    BY <1>2, <1>4, <2>1, <2>3, <2>6
  <2> QED BY <1>2, <2>4, <2>5, <2>6
<1>9. CASE Plainly(t) \/ (Jumping(t) /\ Goto(t, 1))
  <2>1. At(t).op \notin {"lock", "timedlock", "unlock"} /\ Goto(t, 1) /\ owner' = owner
    BY <1>9 DEF Plainly, PlainSteps, Jumping, Jumps
  <2>2. Holds(Code(t), pc[t] + 1, m) <=> Holds(Code(t), pc[t], m)
    BY <1>6, <2>1 DEF Locks, Unlocks
  <2> QED BY <1>7, <2>1, <2>2
<1>10. CASE TimingOut(t) \/ (Jumping(t) /\ Goto(t, At(t).to))
  <2>1. Jumps(At(t)) /\ Goto(t, At(t).to) /\ owner' = owner
    BY <1>10 DEF TimingOut, Jumping
  <2>2. Holds(Code(t), pc[t] + At(t).to, m) <=> Holds(Code(t), pc[t], m)
    <3>1. Nested(Code(t), m)
      BY <1>1, <1>2, NestingFacts
    <3>2. Jumps(Code(t)[pc[t]]) =>
              (Holds(Code(t), pc[t] + Code(t)[pc[t]].to, m) <=> Holds(Code(t), pc[t], m))
      BY <1>5, <3>1 DEF Nested
    <3> QED BY <1>5, <2>1, <3>2
  <2>3. At(t).to \in Int
    BY <1>1, <1>3, <2>1, InstructionFacts
  <2> QED BY <1>2, <1>7, <2>1, <2>2, <2>3
<1>11. CASE Locking(t)
  <2>1. Goto(t, 1) /\ owner[At(t).arg] = "" /\ owner' = [owner EXCEPT ![At(t).arg] = t]
        /\ At(t).op \in {"lock", "timedlock"} /\ At(t).arg \in table.mutexes
    BY <1>11 DEF Locking
  <2>2. CASE m # At(t).arg
    <3>1. owner'[m] = owner[m] /\ ~Locks(At(t), m) /\ ~Unlocks(At(t), m)
      BY <1>2, <1>5, <2>1, <2>2 DEF Locks, Unlocks
    <3>2. Holds(Code(t), pc[t] + 1, m) <=> Holds(Code(t), pc[t], m)
      BY <1>6, <3>1
    <3>3. Goto(t, 1)
      BY <2>1
    <3>4. 1 \in Int
      OBVIOUS
    <3> QED BY <1>7, <3>1, <3>2, <3>3, <3>4
  <2>3. CASE m = At(t).arg
    <3>1. owner'[m] = t /\ Locks(At(t), m) /\ owner[m] = ""
      BY <1>2, <1>5, <2>1, <2>3 DEF Locks
    <3>2. pc'[u] = IF u = t THEN pc[t] + 1 ELSE pc[u]
      BY <1>2, <1>5, <2>1 DEF Goto
    <3> QED BY <1>2, <1>4, <1>5, <1>6, <3>1, <3>2
  <2> QED BY <2>2, <2>3
<1>12. CASE Unlocking(t)
  <2>1. Goto(t, 1) /\ owner' = [owner EXCEPT ![At(t).arg] = ""]
        /\ At(t).op = "unlock" /\ At(t).arg \in table.mutexes
    BY <1>12 DEF Unlocking
  <2>2. CASE m # At(t).arg
    <3>1. owner'[m] = owner[m] /\ ~Locks(At(t), m) /\ ~Unlocks(At(t), m)
      BY <1>2, <1>5, <2>1, <2>2 DEF Locks, Unlocks
    <3>2. Holds(Code(t), pc[t] + 1, m) <=> Holds(Code(t), pc[t], m)
      BY <1>6, <3>1
    <3>3. Goto(t, 1)
      BY <2>1
    <3>4. 1 \in Int
      OBVIOUS
    <3> QED BY <1>7, <3>1, <3>2, <3>3, <3>4
  <2>3. CASE m = At(t).arg
    <3>1. owner'[m] = "" /\ Unlocks(At(t), m) /\ ~Locks(At(t), m)
      BY <1>2, <1>5, <2>1, <2>3 DEF Locks, Unlocks
    <3>2. owner[m] = t
      <4>1. Nested(Code(t), m)
        BY <1>1, <1>2, NestingFacts
      <4>2. Holds(Code(t), pc[t], m)
        BY <1>5, <3>1, <4>1 DEF Nested
      <4> QED BY <1>4, <4>2
    <3>3. pc'[u] = IF u = t THEN pc[t] + 1 ELSE pc[u]
      BY <1>2, <1>5, <2>1 DEF Goto
    <3> QED BY <1>2, <1>4, <1>5, <1>6, <3>1, <3>2, <3>3
  <2> QED BY <2>2, <2>3
<1> QED BY <1>2, <1>3, <1>8, <1>9, <1>10, <1>11, <1>12 DEF Jumping

LEMMA CrashRun ==
    ASSUME IInv, NEW t \in Thread, Run(t) PROVE CrashEndsAll'
<1> SUFFICES ASSUME crashed' PROVE \A u \in Thread' : Ended(u)'
  BY DEF CrashEndsAll
<1>1. ~crashed /\ Types /\ UNCHANGED <<program, table>>
  BY RunsBeforeCrash, RunSteps DEF IInv
<1>2. Crash
  BY <1>1, RunSteps DEF Creation, Signal, Locking, Unlocking, Plainly, Jumping, TimingOut
<1>3. \A u \in Thread : Len(Code(u)) \in Nat /\ pc'[u] = Len(Code(u)) + 1
  BY <1>1, <1>2, TableFacts DEF Crash
<1> QED BY <1>1, <1>3 DEF Ended, Thread, Code

LEMMA IStep == IInv /\ [Next]_vars => IInv'
<1>1. ASSUME IInv, NEW t \in Thread, Run(t) PROVE IInv'
  <2>1. Types
    BY <1>1 DEF IInv
  <2> QED BY <1>1, <2>1, TypesRun, CrashRun, OwnersHoldRun, CreatedOnceRun DEF IInv
<1>2. ASSUME IInv, UNCHANGED vars PROVE IInv'
  BY <1>2 DEF IInv, vars, Types, CrashEndsAll, OwnersHold, CreatedOnce, Thread, Code, Ended
<1> QED BY <1>1, <1>2, IKill DEF Next

THEOREM Invariance == Spec => []IInv
<1> QED BY IInit, IStep, PTL DEF Spec

-----------------------------------------------------------------------------
(* The owner of a mutex is on its way to give it back.                      *)
LEMMA OwnersAreAlive ==
    ASSUME IInv, ~crashed, NEW m \in table.mutexes, NEW o \in Thread, owner[m] = o
    PROVE  Alive(o) /\ Holds(Code(o), pc[o], m)
<1>1. Types /\ Holds(Code(o), pc[o], m)
  BY DEF IInv, OwnersHold
<1>2. pc[o] \in Nat /\ pc[o] > 1 /\ pc[o] \in 0 .. Len(Code(o)) + 1 /\ Len(Code(o)) \in Nat
  BY <1>1, TableFacts, HoldsMeansStarted DEF Types
<1>3. pc[o] # Len(Code(o)) + 1
  <2>1. ~Holds(Code(o), Len(Code(o)) + 1, m)
    BY <1>1, NestingFacts DEF Nested
  <2> QED BY <1>1, <2>1
<1>4. pc[o] > 0 /\ ~(pc[o] > Len(Code(o)))
  <2> DEFINE n == Len(Code(o))
             p == pc[o]
  <2>1. p \in Nat /\ p > 1 /\ p \in 0 .. n + 1 /\ n \in Nat
    BY <1>2
  <2>2. p # n + 1
    BY <1>3
  <2> HIDE DEF n, p
  <2>3. p > 0 /\ ~(p > n)
    BY <2>1, <2>2
  <2> QED BY <2>3 DEF n, p
<1> QED BY <1>1, <1>4 DEF Alive, Ended

(* TypeOK: the states of threads, mutexes, semaphores and queues are what   *)
(* the calls of the examples may leave; a mutex is owned by a live thread.  *)
THEOREM ThreadsTypes == Spec => []TypeOK
<1>1. IInv => TypeOK
  <2> SUFFICES ASSUME IInv PROVE TypeOK
    OBVIOUS
  <2>1. Types
    BY DEF IInv
  <2>2. \A m \in DOMAIN owner : owner[m] = "" \/ Alive(owner[m]) \/ crashed
    <3>1. DOMAIN owner = table.mutexes /\ \A m \in table.mutexes : owner[m] \in Thread \union {""}
      BY <2>1 DEF Types
    <3> QED BY <3>1, OwnersAreAlive
  <2> QED BY <2>1, <2>2 DEF TypeOK, Types
<1> QED BY <1>1, Invariance, PTL

(* SectionsAreExclusive: two threads are not in a critical section at once, *)
(* but in pthread3ok and posix_linux_demo.                                  *)
THEOREM SectionsExclude == Spec => []SectionsAreExclusive
<1>1. IInv => SectionsAreExclusive
  <2> SUFFICES ASSUME IInv, program \notin {"pthread3ok", "posix_linux_demo"},
                      NEW t \in Thread, NEW u \in Thread,
                      InCriticalSection(t), InCriticalSection(u)
               PROVE  t = u
    BY DEF SectionsAreExclusive
  <2>1. Types /\ Alive(t) /\ Alive(u)
    BY DEF IInv, InCriticalSection, Shared, At
  <2>2. Covered(table) \/ Unshared(table)
    BY <2>1, SectionsAssumption DEF Types
  <2>3. /\ pc[t] \in DOMAIN Code(t) /\ Shared(Code(t)[pc[t]])
        /\ pc[u] \in DOMAIN Code(u) /\ Shared(Code(u)[pc[u]])
    BY <2>1, InstructionFacts, TableFacts DEF InCriticalSection
  <2>4. ~Unshared(table)
    BY <2>3 DEF Unshared, Thread, Code
  <2>5. PICK m \in table.mutexes : \A v \in Thread : \A i \in DOMAIN Code(v) :
            Shared(Code(v)[i]) => Holds(Code(v), i, m)
    BY <2>2, <2>4 DEF Covered, Thread, Code
  <2>6. ~crashed
    BY <2>1 DEF IInv, CrashEndsAll, Alive
  <2>7. owner[m] = t /\ owner[m] = u
    BY <2>3, <2>5, <2>6 DEF IInv, OwnersHold
  <2> QED BY <2>7
<1> QED BY <1>1, Invariance, PTL

(* A program that ends without a crash has given every mutex back.          *)
THEOREM MutexesAreGivenBack ==
    Spec => [](Finished /\ ~crashed => \A m \in DOMAIN owner : owner[m] = "")
<1>1. IInv => (Finished /\ ~crashed => \A m \in DOMAIN owner : owner[m] = "")
  <2> SUFFICES ASSUME IInv, Finished, ~crashed, NEW m \in table.mutexes,
                      NEW o \in Thread, owner[m] = o
               PROVE  FALSE
    BY DEF IInv, Types
  <2>1. Types /\ Alive(o)
    BY OwnersAreAlive DEF IInv
  <2>2. table.threads[o].handles = ""
    BY <2>1, NestingFacts
  <2>3. Ended(o) \/ pc[o] = 0
    BY <2>2 DEF Finished
  <2>4. pc[o] # 0
    <3>1. pc[o] > 0 /\ pc[o] \in Nat
      BY <2>1 DEF Alive, Types
    <3> QED BY <3>1
  <2> QED BY <2>1, <2>3, <2>4 DEF Alive
<1> QED BY <1>1, Invariance, PTL

-----------------------------------------------------------------------------
(* Parent and child: what is posted and what the two may still post         *)

MayPost(t) == IF At(t).op \in {"create", "post"} THEN 1 ELSE 0
TInv ==
    program = "twoprocs" =>
        /\ DOMAIN sem = {"C", "P"}
        /\ sem["C"] + sem["P"] + MayPost("main") + MayPost("child") <= 1 + kills

LEMMA TurnFacts ==
    ASSUME Types, program = "twoprocs"
    PROVE  /\ Thread = {"main", "child"} /\ table.sems = [s \in {"C", "P"} |-> 0]
           /\ table.threads["main"].handles = "" /\ table.threads["child"].handles = ""
           /\ Code("main")[1].op = "create"
           /\ \A t \in Thread : \A i \in 1 .. Len(Code(t)) :
                /\ Code(t)[i].op \in {"post", "wait", "unlink"} => Code(t)[i].arg \in {"C", "P"}
                /\ Code(t)[i].op \in {"create", "post", "wait", "join", "unlink"}
                /\ Code(t)[i].op = "create" => t = "main" /\ i = 1
                /\ Code(t)[i].op = "post" =>
                       i > 1 /\ Code(t)[i - 1].op \in {"create", "wait"}
<1>1. TakeTurns(table)
  BY TurnsAssumption DEF Types
<1>2. Thread = {"main", "child"}
  BY <1>1 DEF TakeTurns, Thread
<1>3. \A t \in Thread : DOMAIN Code(t) = 1 .. Len(Code(t))
  BY TableFacts
<1>4. \A t \in Thread : \A i \in DOMAIN Code(t) :
          /\ Code(t)[i].op \in {"post", "wait", "unlink"} => Code(t)[i].arg \in {"C", "P"}
          /\ Code(t)[i].op \in {"create", "post", "wait", "join", "unlink"}
          /\ Code(t)[i].op = "create" => t = "main" /\ i = 1
          /\ Code(t)[i].op = "post" =>
                 i > 1 /\ Code(t)[i - 1].op \in {"create", "wait"}
  BY <1>1, <1>2 DEF TakeTurns, Code
<1>5. /\ table.sems = [s \in {"C", "P"} |-> 0]
      /\ table.threads["main"].handles = "" /\ table.threads["child"].handles = ""
      /\ Code("main")[1].op = "create"
  BY <1>1 DEF TakeTurns, Code
<1>6. \A t \in Thread : \A i \in 1 .. Len(Code(t)) :
          /\ Code(t)[i].op \in {"post", "wait", "unlink"} => Code(t)[i].arg \in {"C", "P"}
          /\ Code(t)[i].op \in {"create", "post", "wait", "join", "unlink"}
          /\ Code(t)[i].op = "create" => t = "main" /\ i = 1
          /\ Code(t)[i].op = "post" =>
                 i > 1 /\ Code(t)[i - 1].op \in {"create", "wait"}
  <2> SUFFICES ASSUME NEW t \in Thread, NEW i \in 1 .. Len(Code(t))
               PROVE  /\ Code(t)[i].op \in {"post", "wait", "unlink"} => Code(t)[i].arg \in {"C", "P"}
                      /\ Code(t)[i].op \in {"create", "post", "wait", "join", "unlink"}
                      /\ Code(t)[i].op = "create" => t = "main" /\ i = 1
                      /\ Code(t)[i].op = "post" =>
                             i > 1 /\ Code(t)[i - 1].op \in {"create", "wait"}
    OBVIOUS
  <2>1. i \in DOMAIN Code(t)
    BY <1>3
  <2> QED BY <1>4, <2>1, Zenon
<1> QED BY <1>2, <1>5, <1>6, Zenon

(* The same of one instruction.                                             *)
LEMMA TurnCode ==
    ASSUME Types, program = "twoprocs", NEW t \in Thread, NEW i \in 1 .. Len(Code(t))
    PROVE  /\ Code(t)[i].op \in {"post", "wait", "unlink"} => Code(t)[i].arg \in {"C", "P"}
           /\ Code(t)[i].op \in {"create", "post", "wait", "join", "unlink"}
           /\ Code(t)[i].op = "create" => t = "main" /\ i = 1
           /\ Code(t)[i].op = "post" =>
                  i > 1 /\ Code(t)[i - 1].op \in {"create", "wait"}
           /\ t = "main" /\ i = 1 => Code(t)[i].op = "create"
           /\ t \in {"main", "child"} /\ table.threads[t].handles = ""
<1>1. /\ Thread = {"main", "child"}
      /\ table.threads["main"].handles = "" /\ table.threads["child"].handles = ""
      /\ Code("main")[1].op = "create"
  BY TurnFacts
<1>2. /\ Code(t)[i].op \in {"post", "wait", "unlink"} => Code(t)[i].arg \in {"C", "P"}
      /\ Code(t)[i].op \in {"create", "post", "wait", "join", "unlink"}
      /\ Code(t)[i].op = "create" => t = "main" /\ i = 1
      /\ Code(t)[i].op = "post" =>
             i > 1 /\ Code(t)[i - 1].op \in {"create", "wait"}
  BY TurnFacts, Zenon
<1> QED BY <1>1, <1>2, Zenon

LEMMA AtTheStart ==
    ASSUME Types, NEW t \in Thread
    PROVE  (pc[t] = 0 => ~Alive(t)) /\ (pc[t] = 1 => Alive(t))
<1>1. Len(Code(t)) \in Nat \ {0}
  BY TableFacts
<1>2. ~(1 > Len(Code(t))) /\ 1 > 0
  BY <1>1
<1>3. pc[t] = 1 => Alive(t)
  BY <1>2 DEF Alive, Ended
<1>4. pc[t] = 0 => ~Alive(t)
  BY DEF Alive
<1> QED BY <1>3, <1>4

(* At the start main is about to create the child, which is not there yet.  *)
LEMMA TurnsBegin ==
    ASSUME Types, program = "twoprocs",
           pc = [t \in Thread |-> IF t = "main" \/ table.threads[t].handles # "" THEN 1 ELSE 0]
    PROVE  MayPost("main") = 1 /\ MayPost("child") = 0
<1>1. pc["main"] = 1 /\ pc["child"] = 0
  BY TurnFacts
<1>2. "main" \in Thread /\ "child" \in Thread
  BY TurnFacts
<1>3. ~Alive("child") /\ Alive("main")
  BY <1>1, <1>2, AtTheStart
<1>4. At("child").op = "none" /\ At("main").op = "create"
  BY <1>1, <1>3, TurnFacts DEF At
<1> QED BY <1>4 DEF MayPost

LEMMA TInit == ASSUME Init PROVE TInv
<1> SUFFICES ASSUME program = "twoprocs"
             PROVE  /\ DOMAIN sem = {"C", "P"}
                    /\ sem["C"] + sem["P"] + MayPost("main") + MayPost("child") <= 1 + kills
  BY DEF TInv
<1>1. Types
  BY IInit DEF IInv
<1>2. pc = [t \in Thread |-> IF t = "main" \/ table.threads[t].handles # "" THEN 1 ELSE 0]
      /\ sem = table.sems /\ kills = 0
  BY DEF Init, Started, Thread
<1>3. sem = [s \in {"C", "P"} |-> 0]
  BY <1>1, <1>2, TurnFacts
<1>4. sem["C"] = 0 /\ sem["P"] = 0 /\ DOMAIN sem = {"C", "P"}
  BY <1>3
<1>5. MayPost("main") = 1 /\ MayPost("child") = 0
  BY <1>1, <1>2, TurnsBegin
<1>6. kills = 0
  BY <1>2
<1> QED BY <1>4, <1>5, <1>6

LEMMA TKill == ASSUME IInv, TInv, Kill PROVE TInv'
<1> SUFFICES ASSUME program' = "twoprocs"
             PROVE  /\ DOMAIN sem' = {"C", "P"}
                    /\ sem'["C"] + sem'["P"] + MayPost("main")' + MayPost("child")' <= 1 + kills'
  BY DEF TInv
<1>1. Types' /\ Types /\ kills \in Nat /\ kills' = kills + 1
      /\ pc' = [t \in Thread' |-> IF t = "main" \/ table'.threads[t].handles # "" THEN 1 ELSE 0]
  BY KillFacts DEF IInv
<1>2. MayPost("main")' = 1 /\ MayPost("child")' = 0
  <2>1. (Types /\ program = "twoprocs"
         /\ pc = [t \in Thread |-> IF t = "main" \/ table.threads[t].handles # "" THEN 1 ELSE 0]
         => MayPost("main") = 1 /\ MayPost("child") = 0)'
    BY TurnsBegin, PTL
  <2> QED BY <1>1, <2>1
<1>0. kills \in Nat /\ kills' = kills + 1
  BY <1>1
<1>3. CASE program = "twoprocs"
  <2>1. sem' = sem
    BY <1>3 DEF Kill
  <2>2. DOMAIN sem = {"C", "P"}
        /\ sem["C"] + sem["P"] + MayPost("main") + MayPost("child") <= 1 + kills
    BY <1>3 DEF TInv
  <2>3. MayPost("main") \in {0, 1} /\ MayPost("child") \in {0, 1}
        /\ sem["C"] \in Nat /\ sem["P"] \in Nat
    BY <1>1, <2>2 DEF MayPost, Types
  <2>4. sem["C"] + sem["P"] <= 1 + kills
    BY <1>0, <2>2, <2>3
  <2>5. sem'["C"] + sem'["P"] + 1 + 0 <= 1 + (kills + 1)
    BY <1>0, <2>1, <2>3, <2>4
  <2> QED BY <1>0, <1>2, <2>1, <2>2, <2>5
<1>4. CASE program # "twoprocs"
  <2>1. sem' = table'.sems
    BY <1>4 DEF Kill
  <2>2. (Types /\ program = "twoprocs" => table.sems = [s \in {"C", "P"} |-> 0])'
    BY TurnFacts, PTL
  <2>3. sem' = [s \in {"C", "P"} |-> 0]
    BY <1>1, <2>1, <2>2
  <2>4. sem'["C"] = 0 /\ sem'["P"] = 0 /\ DOMAIN sem' = {"C", "P"}
    BY <2>3
  <2>5. sem'["C"] + sem'["P"] + 1 + 0 <= 1 + (kills + 1)
    BY <1>0, <2>4
  <2> QED BY <1>0, <1>2, <2>4, <2>5
<1> QED BY <1>3, <1>4

LEMMA KillsTypes == ASSUME Types PROVE kills \in Nat
<1>1. kills \in 0 .. Kills /\ Kills \in Nat
  BY ThreadsAssumption DEF Types
<1> QED BY <1>1

LEMMA MayPostTypes == ASSUME NEW t PROVE MayPost(t) \in {0, 1}
  BY DEF MayPost

(* A thread that stays where it is may do what it could.                    *)
LEMMA StaysTurn ==
    ASSUME Types, UNCHANGED table, NEW t \in Thread, pc'[t] = pc[t]
    PROVE  MayPost(t)' = MayPost(t)
  BY DEF MayPost, At, Alive, Ended, Code

(* The next instruction of one that goes on posts only after a wait or the  *)
(* creation of the child.                                                   *)
LEMMA GoesOnTurn ==
    ASSUME Types, program = "twoprocs", UNCHANGED table, NEW t \in Thread, Alive(t),
           pc'[t] = pc[t] + 1, MayPost(t)' # 0
    PROVE  At(t).op \in {"wait", "create"}
<1> DEFINE i == pc[t]
           n == Len(Code(t))
<1>0. ASSUME NEW k \in 1 .. n
      PROVE  /\ Code(t)[k].op = "create" => k = 1
             /\ Code(t)[k].op = "post" => Code(t)[k - 1].op \in {"create", "wait"}
  BY TurnCode, Zenon
<1>1. i \in 1 .. n /\ At(t) = Code(t)[i] /\ n \in Nat
  BY InstructionFacts, TableFacts
<1>2. Code(t)' = Code(t) /\ Alive(t)' /\ At(t)' = Code(t)[i + 1] /\ At(t)'.op \in {"create", "post"}
  BY DEF MayPost, At, Code
<1> DEFINE k == i + 1
<1>3. k \in 1 .. n /\ k # 1 /\ k - 1 = i
  <2>1. ~(i + 1 > n)
    BY <1>2 DEF Alive, Ended
  <2> HIDE DEF i, n
  <2> QED BY <1>1, <2>1
<1>4. At(t)' = Code(t)[k]
  BY <1>2
<1>5. At(t) = Code(t)[k - 1]
  BY <1>1, <1>3
<1> HIDE DEF i, n, k
<1>6. Code(t)[k].op = "post"
  BY <1>0, <1>2, <1>3, <1>4, Zenon
<1> QED BY <1>0, <1>3, <1>5, <1>6, Zenon

LEMMA TurnSteps ==
    ASSUME IInv, NEW t \in Thread, Run(t), program = "twoprocs"
    PROVE  /\ Types /\ Types' /\ Alive(t) /\ CanGoOn(t) /\ UNCHANGED <<program, table, kills>>
           /\ \/ Creation(t)
              \/ Crash
              \/ Post(t) \/ Wait(t) \/ Unlink(t) \/ Join(t)
           /\ At(t).op \in {"post", "wait", "unlink"} => At(t).arg \in {"C", "P"}
           /\ At(t).op = "create" => t = "main"
<1>1. /\ Types /\ Types' /\ Alive(t) /\ CanGoOn(t) /\ UNCHANGED <<program, table, kills>>
      /\ \/ Creation(t) \/ Crash \/ Signal(t) \/ Locking(t) \/ Unlocking(t)
         \/ Plainly(t) \/ Jumping(t) \/ TimingOut(t)
  BY RunSteps, TypesRun DEF IInv
<1>2. pc[t] \in 1 .. Len(Code(t)) /\ At(t) = Code(t)[pc[t]]
  BY <1>1, InstructionFacts
<1>3. /\ At(t).op \in {"create", "post", "wait", "join", "unlink"}
      /\ At(t).op \in {"post", "wait", "unlink"} => At(t).arg \in {"C", "P"}
      /\ At(t).op = "create" => t = "main"
  <2>1. /\ Code(t)[pc[t]].op \in {"create", "post", "wait", "join", "unlink"}
        /\ Code(t)[pc[t]].op \in {"post", "wait", "unlink"} => Code(t)[pc[t]].arg \in {"C", "P"}
        /\ Code(t)[pc[t]].op = "create" => t = "main" /\ pc[t] = 1
    BY <1>1, <1>2, TurnCode, Zenon
  <2> QED BY <1>2, <2>1
<1>4. table.threads[t].handles = ""
  BY <1>1, <1>2, TurnCode, Zenon
<1>5. CASE Creation(t)
  BY <1>1, <1>3, <1>5 DEF Creation
<1>6. CASE Crash
  BY <1>1, <1>3, <1>6
<1>7. CASE Plainly(t)
  <2>1. At(t).op \in {"post", "wait", "join", "unlink"} /\ crashed' = crashed
    BY <1>3, <1>7 DEF Plainly, PlainSteps
  <2>2. Post(t) \/ Wait(t) \/ Unlink(t) \/ Join(t) \/ JoinNobody(t)
    BY <1>4, <2>1 DEF Run, Is, Lock, TimeOut, Unlock, Sigqueue, Deliver, Create, Overrun,
           Load, Store, Assign, ClearBit, Test, GoOn, Send, Receive
  <2>3. ~crashed
    BY RunsBeforeCrash
  <2> QED BY <1>1, <1>3, <2>1, <2>2, <2>3 DEF JoinNobody
<1>8. CASE Signal(t) \/ Locking(t) \/ Unlocking(t) \/ Jumping(t) \/ TimingOut(t)
  BY <1>3, <1>8 DEF Signal, Locking, Unlocking, Jumping, TimingOut, Jumps
<1> QED BY <1>1, <1>5, <1>6, <1>7, <1>8

(* What a step does to the two semaphores, in numbers.                      *)
LEMMA SemSteps ==
    ASSUME DOMAIN sem = {"C", "P"}, NEW s \in {"C", "P"}, sem["C"] \in Nat, sem["P"] \in Nat
    PROVE  /\ sem' = [sem EXCEPT ![s] = @ + 1] => sem'["C"] + sem'["P"] = sem["C"] + sem["P"] + 1
           /\ sem' = [sem EXCEPT ![s] = @ - 1] => sem'["C"] + sem'["P"] = sem["C"] + sem["P"] - 1
           /\ sem' = [sem EXCEPT ![s] = 0] => sem'["C"] + sem'["P"] <= sem["C"] + sem["P"]
<1>1. CASE s = "C"
  BY <1>1
<1>2. CASE s = "P"
  BY <1>2
<1> QED BY <1>1, <1>2

LEMMA TRun == ASSUME IInv, TInv, NEW t \in Thread, Run(t) PROVE TInv'
<1> SUFFICES ASSUME program' = "twoprocs"
             PROVE  /\ DOMAIN sem' = {"C", "P"}
                    /\ sem'["C"] + sem'["P"] + MayPost("main")' + MayPost("child")' <= 1 + kills'
  BY DEF TInv
<1>1. program = "twoprocs"
  BY RunSteps DEF IInv
<1>2. /\ Types /\ Alive(t) /\ CanGoOn(t) /\ UNCHANGED <<program, table, kills>>
      /\ \/ Creation(t)
         \/ Crash
         \/ Post(t) \/ Wait(t) \/ Unlink(t) \/ Join(t)
      /\ At(t).op \in {"post", "wait", "unlink"} => At(t).arg \in {"C", "P"}
      /\ At(t).op = "create" => t = "main"
  BY <1>1, TurnSteps
<1>3. Thread = {"main", "child"} /\ t \in {"main", "child"}
  BY <1>1, <1>2, TurnFacts
<1>4. pc \in [Thread -> Nat] /\ \A s \in DOMAIN sem : sem[s] \in Nat
  BY <1>2 DEF Types
<1>5. DOMAIN sem = {"C", "P"}
      /\ sem["C"] + sem["P"] + MayPost("main") + MayPost("child") <= 1 + kills
  BY <1>1 DEF TInv
<1>6. sem["C"] \in Nat /\ sem["P"] \in Nat
  BY <1>4, <1>5
<1>7. kills \in Nat /\ kills' = kills
  BY <1>2, KillsTypes
<1> DEFINE both == sem["C"] + sem["P"]
           other == IF t = "main" THEN "child" ELSE "main"
<1>8. other \in Thread /\ other # t
  BY <1>3
<1>9. both \in Nat /\ both + MayPost(t) + MayPost(other) <= 1 + kills
  <2>1. CASE t = "main"
    BY <1>5, <1>6, <2>1
  <2>2. CASE t = "child"
    <3>1. MayPost("main") \in {0, 1} /\ MayPost("child") \in {0, 1}
      BY MayPostTypes
    <3>2. sem["C"] + sem["P"] + MayPost("child") + MayPost("main") <= 1 + kills
      BY <1>5, <1>6, <1>7, <3>1
    <3> QED BY <1>6, <2>2, <3>2
  <2> QED BY <1>3, <2>1, <2>2
<1>10. DOMAIN sem' = DOMAIN sem
  BY <1>2 DEF Creation, Crash, Post, Wait, Unlink, Join
<1>11. MayPost(t) \in {0, 1} /\ MayPost(other) \in {0, 1}
       /\ MayPost(t)' \in {0, 1} /\ MayPost(other)' \in {0, 1}
  <2>1. \A u : MayPost(u)' \in {0, 1}
    BY DEF MayPost
  <2> QED BY <2>1, MayPostTypes
<1>12. ASSUME sem'["C"] + sem'["P"] + MayPost(t)' + MayPost(other)' <= 1 + kills,
              sem'["C"] \in Int, sem'["P"] \in Int
       PROVE  sem'["C"] + sem'["P"] + MayPost("main")' + MayPost("child")' <= 1 + kills
  <2>1. CASE t = "main"
    BY <1>12, <2>1
  <2>2. CASE t = "child"
    <3>1. sem'["C"] + sem'["P"] + MayPost("child")' + MayPost("main")' <= 1 + kills
      BY <1>12, <2>2
    <3>2. MayPost("main")' \in {0, 1} /\ MayPost("child")' \in {0, 1}
      BY DEF MayPost
    <3> QED BY <1>7, <1>12, <3>1, <3>2
  <2> QED BY <1>3, <2>1, <2>2
<1>13. sem'["C"] \in Nat /\ sem'["P"] \in Nat
  BY <1>2, <1>5, <1>10, SemTypes
<1>14. CASE Creation(t)
  <2>1. t = "main" /\ sem' = sem /\ At(t).arg \in {"main", "child"}
        /\ pc' = [pc EXCEPT ![t] = @ + 1, ![At(t).arg] = 1] /\ At(t).op = "create"
    BY <1>2, <1>3, <1>14 DEF Creation
  <2>2. MayPost(t) = 1
    BY <2>1 DEF MayPost
  <2>3. MayPost(other)' <= MayPost(other)
    <3>1. CASE At(t).arg = other
      <4>1. pc'[other] = 1
        BY <1>3, <1>4, <1>8, <2>1, <3>1
      <4>2. ~(MayPost(other)' = 1)
        <5>1. other = "child" /\ Code(other)' = Code(other)
          BY <1>2, <2>1 DEF Code
        <5>2. Len(Code(other)) \in Nat \ {0}
          BY <1>2, <1>8, TableFacts
        <5>3. 1 \in 1 .. Len(Code(other))
          BY <5>2
        <5>4. Code(other)[1].op \notin {"create", "post"}
          <6>1. /\ Code(other)[1].op = "create" => other = "main"
                /\ Code(other)[1].op = "post" => 1 > 1
            BY <1>1, <1>2, <1>8, <5>3, TurnCode, Zenon
          <6> QED BY <5>1, <6>1
        <5>5. At(other)' \in {Code(other)[1], [op |-> "none"]}
          BY <4>1, <5>1 DEF At
        <5>6. At(other)'.op \notin {"create", "post"}
          BY <5>4, <5>5
        <5> QED BY <5>6 DEF MayPost
      <4> QED BY <1>11, <4>2
    <3>2. CASE At(t).arg # other
      <4>1. pc'[other] = pc[other]
        BY <1>4, <1>8, <2>1, <3>2
      <4>2. MayPost(other)' = MayPost(other)
        BY <1>2, <1>8, <4>1, StaysTurn
      <4> QED BY <1>11, <4>2
    <3> QED BY <3>1, <3>2
  <2>4. both + MayPost(t)' + MayPost(other)' <= 1 + kills
    <3> HIDE DEF both, other
    <3> QED BY <1>7, <1>9, <1>11, <2>2, <2>3
  <2> QED BY <1>5, <1>7, <1>10, <1>12, <1>13, <2>1, <2>4
<1>15. CASE Crash
  <2>1. sem' = sem /\ \A u \in Thread : pc'[u] = Len(Code(u)) + 1
    BY <1>15 DEF Crash
  <2>2. \A u \in Thread : MayPost(u)' = 0
    <3> SUFFICES ASSUME NEW u \in Thread PROVE MayPost(u)' = 0
      OBVIOUS
    <3>1. Code(u)' = Code(u) /\ Len(Code(u)) \in Nat
      BY <1>2, TableFacts DEF Code
    <3>2. Len(Code(u)) + 1 > Len(Code(u))
      BY <3>1
    <3>3. ~Alive(u)'
      BY <2>1, <3>1, <3>2 DEF Alive, Ended
    <3> QED BY <3>3 DEF MayPost, At
  <2>3. both + MayPost(t)' + MayPost(other)' <= 1 + kills
    <3>1. MayPost(t)' = 0 /\ MayPost(other)' = 0
      BY <1>8, <2>2
    <3> HIDE DEF both, other
    <3> QED BY <1>7, <1>9, <1>11, <3>1
  <2> QED BY <1>5, <1>7, <1>10, <1>12, <1>13, <2>1, <2>3
<1>16. CASE Post(t) \/ Wait(t) \/ Unlink(t) \/ Join(t)
  <2>1. Goto(t, 1) /\ At(t).op \in {"post", "wait", "unlink", "join"}
    BY <1>16 DEF Post, Wait, Unlink, Join, Is
  <2>2. pc'[t] = pc[t] + 1 /\ pc'[other] = pc[other]
    BY <1>4, <1>8, <2>1 DEF Goto
  <2>3. MayPost(other)' = MayPost(other)
    BY <1>2, <1>8, <2>2, StaysTurn
  <2>4. MayPost(t)' # 0 => At(t).op = "wait"
    BY <1>1, <1>2, <2>1, <2>2, GoesOnTurn
  <2>5. sem'["C"] + sem'["P"] + MayPost(t)' <= both + MayPost(t)
    <3>1. CASE Post(t)
      <4>1. At(t).op = "post" /\ At(t).arg \in {"C", "P"} /\ sem' = [sem EXCEPT ![At(t).arg] = @ + 1]
        BY <1>2, <3>1 DEF Post, Is
      <4>2. sem'["C"] + sem'["P"] = both + 1
        BY <1>5, <1>6, <4>1, SemSteps
      <4>3. MayPost(t) = 1 /\ MayPost(t)' = 0
        BY <2>4, <4>1 DEF MayPost
      <4> QED BY <1>9, <4>2, <4>3
    <3>2. CASE Wait(t)
      <4>1. At(t).op = "wait" /\ At(t).arg \in {"C", "P"} /\ sem' = [sem EXCEPT ![At(t).arg] = @ - 1]
        BY <1>2, <3>2 DEF Wait, Is
      <4>2. sem'["C"] + sem'["P"] = both - 1
        BY <1>5, <1>6, <4>1, SemSteps
      <4> HIDE DEF both
      <4> QED BY <1>9, <1>11, <4>2
    <3>3. CASE Unlink(t)
      <4>1. At(t).op = "unlink" /\ At(t).arg \in {"C", "P"} /\ sem' = [sem EXCEPT ![At(t).arg] = 0]
        BY <1>2, <3>3 DEF Unlink, Is
      <4>2. sem'["C"] + sem'["P"] <= both
        BY <1>5, <1>6, <4>1, SemSteps
      <4>3. MayPost(t)' = 0
        BY <2>4, <4>1
      <4> HIDE DEF both
      <4> QED BY <1>9, <1>11, <1>13, <4>2, <4>3
    <3>4. CASE Join(t)
      <4>1. At(t).op = "join" /\ sem' = sem
        BY <3>4 DEF Join, Is
      <4>2. MayPost(t)' = 0
        BY <2>4, <4>1
      <4> QED BY <1>9, <1>11, <4>1, <4>2
    <3> QED BY <1>16, <3>1, <3>2, <3>3, <3>4
  <2>6. sem'["C"] + sem'["P"] + MayPost(t)' + MayPost(other)' <= 1 + kills
    <3> HIDE DEF both, other
    <3> QED BY <1>7, <1>9, <1>11, <1>13, <2>3, <2>5
  <2> QED BY <1>5, <1>7, <1>10, <1>12, <1>13, <2>6
<1> QED BY <1>2, <1>14, <1>15, <1>16

(* ProcessesTakeTurns: of parent and child at most one may go on, but for   *)
(* one post that every killed run may have left.                            *)
THEOREM OneTurnAtATime == Spec => []ProcessesTakeTurns
<1>1. IInv /\ TInv => ProcessesTakeTurns
  <2> SUFFICES ASSUME IInv, TInv, program = "twoprocs" PROVE sem["C"] + sem["P"] <= 1 + kills
    BY DEF ProcessesTakeTurns
  <2>1. DOMAIN sem = {"C", "P"}
        /\ sem["C"] + sem["P"] + MayPost("main") + MayPost("child") <= 1 + kills
    BY DEF TInv
  <2>2. sem["C"] \in Nat /\ sem["P"] \in Nat
    BY <2>1 DEF IInv, Types
  <2>3. MayPost("main") \in {0, 1} /\ MayPost("child") \in {0, 1} /\ kills \in Nat
    BY MayPostTypes, KillsTypes DEF IInv
  <2> QED BY <2>1, <2>2, <2>3
<1>2. IInv /\ TInv /\ [Next]_vars => TInv'
  <2>1. ASSUME IInv, TInv, UNCHANGED vars PROVE TInv'
    BY <2>1 DEF TInv, vars, MayPost, At, Alive, Ended, Code
  <2> QED BY <2>1, TRun, TKill DEF Next
<1> QED BY <1>1, <1>2, TInit, Invariance, PTL DEF Spec

-----------------------------------------------------------------------------
(* The middle priority M overtakes H, which waits for the mutex of L.        *)

MInv ==
    "M" \in Thread /\ ~crashed =>
        /\ pc["M"] # 0 => pc["H"] # 0
        /\ Alive("M") /\ pc["M"] > 1 /\ ~Ended("H") =>
               At("H").op = "lock" /\ owner["sharedMemSem"] = "L"

LEMMA InvertFacts ==
    ASSUME Types, "M" \in Thread
    PROVE  /\ "H" \in Thread /\ "L" \in Thread /\ table.mutexes = {"sharedMemSem"}
           /\ \A i \in 1 .. Len(Code("M")) : Code("M")[i].op = "work"
           /\ \A i \in 1 .. Len(Code("H")) :
                  /\ Code("H")[i].op \in {"lock", "unlock", "load", "store", "work"}
                  /\ Code("H")[i].op = "lock" => program # "pthread3ok"
           /\ \A t \in Thread \ {"H", "L"} : \A i \in 1 .. Len(Code(t)) :
                  Code(t)[i].op \notin {"lock", "timedlock", "unlock"}
           /\ \A t \in Thread : \A i \in 1 .. Len(Code(t)) :
                  Creates(Code(t)[i], "M") => \E j \in 1 .. i - 1 : Creates(Code(t)[j], "H")
<1>1. Inverts(table) /\ (program = "pthread3ok" => "lock" \notin Ops(table.threads["H"].code))
  BY InversionAssumption DEF Types, Thread
<1>2. "H" \in Thread /\ "L" \in Thread /\ table.mutexes = {"sharedMemSem"}
  BY <1>1 DEF Inverts, Thread
<1>3. \A t \in Thread : DOMAIN Code(t) = 1 .. Len(Code(t))
  BY TableFacts
<1>4. ASSUME NEW t \in Thread, NEW i \in 1 .. Len(Code(t))
      PROVE  i \in DOMAIN Code(t) /\ Code(t)[i].op \in Ops(Code(t))
  BY <1>3, <1>4 DEF Ops
<1>5. /\ Ops(Code("M")) = {"work"}
      /\ Ops(Code("H")) \subseteq {"lock", "unlock", "load", "store", "work"}
      /\ program = "pthread3ok" => "lock" \notin Ops(Code("H"))
      /\ \A t \in Thread \ {"H", "L"} : Ops(Code(t)) \intersect {"lock", "timedlock", "unlock"} = {}
  BY <1>1 DEF Inverts, Thread, Code
<1>6. \A t \in Thread : \A i \in DOMAIN Code(t) :
          Creates(Code(t)[i], "M") => \E j \in 1 .. i - 1 : Creates(Code(t)[j], "H")
  BY <1>1 DEF Inverts, Thread, Code
<1>7. \A i \in 1 .. Len(Code("M")) : Code("M")[i].op = "work"
  BY <1>4, <1>5
<1>8. \A i \in 1 .. Len(Code("H")) :
          /\ Code("H")[i].op \in {"lock", "unlock", "load", "store", "work"}
          /\ Code("H")[i].op = "lock" => program # "pthread3ok"
  BY <1>2, <1>4, <1>5
<1>9. \A t \in Thread \ {"H", "L"} : \A i \in 1 .. Len(Code(t)) :
          Code(t)[i].op \notin {"lock", "timedlock", "unlock"}
  BY <1>4, <1>5
<1> QED BY <1>2, <1>4, <1>6, <1>7, <1>8, <1>9

LEMMA PriorityFacts ==
    ASSUME Types, "M" \in Thread
    PROVE  /\ \A t \in {"H", "M", "L"} : table.threads[t].pinned
           /\ ~(table.threads["M"].prio <= table.threads["L"].prio)
           /\ ~(table.threads["H"].prio <= table.threads["M"].prio)
           /\ \A t \in Thread : ~Interrupted(t)
<1>1. Inverts(table)
  BY InversionAssumption DEF Types, Thread
<1>2. /\ \A t \in {"H", "M", "L"} : table.threads[t].pinned /\ table.threads[t].prio \in Int
      /\ table.threads["L"].prio < table.threads["M"].prio
      /\ table.threads["M"].prio < table.threads["H"].prio
  BY <1>1 DEF Inverts
<1>3. table.mutexes # {}
  BY <1>1 DEF Inverts
<1>4. \A t, h \in Thread : table.threads[h].handles # t
  BY <1>3, NestingFacts, TableFacts
<1> QED BY <1>2, <1>4 DEF Interrupted

(* L does not run while M does: M waits for nothing.                        *)
LEMMA LWaitsForM ==
    ASSUME Types, "M" \in Thread, Alive("M") PROVE ~MayRun("L")
<1>1. At("M").op = "work"
  BY InstructionFacts, InvertFacts
<1>2. CanGoOn("M")
  BY <1>1 DEF CanGoOn
<1>3. Busy("M")
  BY <1>2, PriorityFacts DEF Busy
<1> QED BY <1>3, PriorityFacts DEF MayRun

(* M runs only when H has ended or waits for the mutex that L holds.        *)
LEMMA MWaitsForH ==
    ASSUME IInv, "M" \in Thread, MayRun("M"), Alive("H"), ~crashed
    PROVE  At("H").op = "lock" /\ owner["sharedMemSem"] = "L"
<1>1. Types /\ "H" \in Thread /\ "L" \in Thread /\ table.mutexes = {"sharedMemSem"}
  BY InvertFacts DEF IInv
<1>2. ~Busy("H")
  BY <1>1, PriorityFacts DEF MayRun
<1>3. ~CanGoOn("H")
  BY <1>1, <1>2, PriorityFacts DEF Busy
<1>4. pc["H"] \in 1 .. Len(Code("H")) /\ At("H") = Code("H")[pc["H"]]
  BY <1>1, InstructionFacts
<1>5. At("H").op \in {"lock", "unlock", "load", "store", "work"}
  BY <1>1, <1>4, InvertFacts
<1>6. At("H").op = "lock" /\ owner[At("H").arg] # ""
  BY <1>3, <1>5 DEF CanGoOn
<1>7. At("H").arg = "sharedMemSem"
  BY <1>1, <1>6, InstructionFacts
<1>8. PICK o \in Thread : owner["sharedMemSem"] = o
  BY <1>1, <1>6, <1>7 DEF Types
<1>9. Alive(o) /\ Holds(Code(o), pc[o], "sharedMemSem")
  BY <1>1, <1>8, OwnersAreAlive
<1>10. o # "H"
  <2>1. Locks(Code("H")[pc["H"]], "sharedMemSem")
    BY <1>4, <1>6, <1>7 DEF Locks
  <2>2. Nested(Code("H"), "sharedMemSem")
    BY <1>1, NestingFacts
  <2>3. ~Holds(Code("H"), pc["H"], "sharedMemSem")
    BY <1>4, <2>1, <2>2 DEF Nested
  <2> QED BY <1>9, <2>3
<1>11. PICK j \in 1 .. pc[o] - 1 : Locks(Code(o)[j], "sharedMemSem")
  <2>1. pc[o] \in Nat
    BY <1>1 DEF Types
  <2> QED BY <1>9, <2>1, HoldsMeansStarted
<1>12. j \in 1 .. Len(Code(o))
  <2>1. pc[o] \in 1 .. Len(Code(o)) /\ Len(Code(o)) \in Nat
    BY <1>1, <1>9, InstructionFacts, TableFacts
  <2> QED BY <2>1
<1>13. o \in {"H", "L"}
  <2>1. Code(o)[j].op \in {"lock", "timedlock"}
    BY <1>11 DEF Locks
  <2> QED BY <1>1, <1>12, <2>1, InvertFacts
<1> QED BY <1>6, <1>8, <1>10, <1>13

LEMMA MInit == ASSUME Init PROVE MInv
<1> SUFFICES ASSUME "M" \in Thread PROVE pc["M"] = 0
  BY DEF MInv, Alive
<1>1. Types
  BY IInit DEF IInv
<1>2. pc = [t \in Thread |-> IF t = "main" \/ table.threads[t].handles # "" THEN 1 ELSE 0]
  BY DEF Init, Started, Thread
<1>3. table.threads["M"].handles = ""
  BY <1>1, InvertFacts, NestingFacts
<1> QED BY <1>2, <1>3

LEMMA MKill == ASSUME IInv, Kill PROVE MInv'
<1>1. Types' /\ table'.mutexes = {}
  BY KillFacts
<1>2. (Types /\ "M" \in Thread => table.mutexes = {"sharedMemSem"})'
  BY InvertFacts, PTL
<1> QED BY <1>1, <1>2 DEF MInv

(* A thread once created stays so, and only it moves itself.                *)
LEMMA CreatedStay ==
    ASSUME IInv, NEW t \in Thread, Run(t), ~crashed', table.mutexes # {}, NEW w \in Thread
    PROVE  /\ pc[w] # 0 => pc'[w] # 0
           /\ pc[w] # 0 /\ w # t => pc'[w] = pc[w]
           /\ pc[w] = 0 /\ pc'[w] # 0 => Creation(t) /\ At(t).arg = w /\ pc'[w] = 1
           /\ pc[t] \in Nat \ {0}
<1>1. Types /\ Alive(t) /\ ~crashed /\ \/ Creation(t) \/ Locking(t) \/ Unlocking(t)
                                       \/ Plainly(t) \/ Jumping(t) \/ TimingOut(t)
  BY MutexSteps DEF IInv
<1>2. pc \in [Thread -> Nat]
  BY <1>1 DEF Types
<1>3. /\ pc[t] \in 1 .. Len(Code(t)) /\ At(t) = Code(t)[pc[t]]
      /\ pc[t] + 1 \in 1 .. Len(Code(t)) + 1
      /\ Jumps(At(t)) => At(t).to \in Int /\ pc[t] + At(t).to \in 1 .. Len(Code(t)) + 1
  BY <1>1, InstructionFacts
<1>4. pc[t] \in Nat \ {0}
  <2>1. pc[t] \in Nat /\ pc[t] > 0
    BY <1>1, <1>2 DEF Alive
  <2> QED BY <2>1
<1>5. ASSUME NEW n, pc[t] + n \in 1 .. Len(Code(t)) + 1, Goto(t, n)
      PROVE  /\ pc[w] # 0 => pc'[w] # 0
             /\ pc[w] # 0 /\ w # t => pc'[w] = pc[w]
             /\ pc[w] = 0 => pc'[w] = 0
  <2>1. pc'[w] = IF w = t THEN pc[t] + n ELSE pc[w]
    BY <1>2, <1>5 DEF Goto
  <2>2. pc[t] + n # 0
    <3>1. ~(0 \in 1 .. Len(Code(t)) + 1)
      <4>1. Len(Code(t)) \in Nat
        BY <1>1, TableFacts
      <4> QED BY <4>1
    <3> QED BY <1>5, <3>1
  <2> QED BY <1>4, <2>1, <2>2
<1>6. CASE Creation(t)
  <2>1. At(t).arg \in Thread /\ Creates(At(t), At(t).arg)
    BY <1>6 DEF Creation, Creates
  <2>2. pc[At(t).arg] = 0
    <3>1. pc[At(t).arg] # 0 <=> pc[t] > pc[t]
      BY <1>1, <1>3, <2>1 DEF IInv, CreatedOnce
    <3> QED BY <1>4, <3>1
  <2>3. pc'[w] = IF w = At(t).arg THEN 1 ELSE IF w = t THEN pc[t] + 1 ELSE pc[w]
    BY <1>2, <1>6 DEF Creation
  <2>4. pc[t] + 1 # 0
    BY <1>4
  <2> QED BY <1>4, <1>6, <2>2, <2>3, <2>4
<1>7. CASE Locking(t) \/ Unlocking(t) \/ Plainly(t)
  <2>1. Goto(t, 1)
    BY <1>7 DEF Locking, Unlocking, Plainly
  <2> QED BY <1>3, <1>4, <1>5, <2>1
<1>8. CASE Jumping(t) \/ TimingOut(t)
  <2>1. Jumps(At(t)) /\ (Goto(t, 1) \/ Goto(t, At(t).to))
    BY <1>8 DEF Jumping, TimingOut
  <2> QED BY <1>3, <1>4, <1>5, <2>1
<1> QED BY <1>1, <1>6, <1>7, <1>8

LEMMA MRun == ASSUME IInv, MInv, NEW t \in Thread, Run(t) PROVE MInv'
<1> SUFFICES ASSUME "M" \in Thread', ~crashed'
             PROVE  /\ pc'["M"] # 0 => pc'["H"] # 0
                    /\ Alive("M")' /\ pc'["M"] > 1 /\ ~Ended("H")' =>
                           At("H")'.op = "lock" /\ owner'["sharedMemSem"] = "L"
  BY DEF MInv
<1>1. Types /\ UNCHANGED <<program, table>> /\ MayRun(t) /\ CanGoOn(t) /\ "M" \in Thread
  BY RunSteps DEF IInv, Thread
<1>2. "H" \in Thread /\ "L" \in Thread /\ table.mutexes = {"sharedMemSem"} /\ table.mutexes # {}
  BY <1>1, InvertFacts
<1>3. Alive(t) /\ ~crashed /\ \/ Creation(t) \/ Locking(t) \/ Unlocking(t)
                              \/ Plainly(t) \/ Jumping(t) \/ TimingOut(t)
  BY <1>2, MutexSteps
<1>4. \A w \in Thread : /\ pc[w] # 0 => pc'[w] # 0
                        /\ pc[w] # 0 /\ w # t => pc'[w] = pc[w]
                        /\ pc[w] = 0 /\ pc'[w] # 0 => Creation(t) /\ At(t).arg = w /\ pc'[w] = 1
  BY <1>2, CreatedStay
<1>5. pc[t] \in Nat /\ pc[t] # 0
  BY <1>2, CreatedStay
<1>6. (pc["M"] # 0 => pc["H"] # 0)
      /\ (Alive("M") /\ pc["M"] > 1 /\ ~Ended("H") =>
              At("H").op = "lock" /\ owner["sharedMemSem"] = "L")
  BY <1>1, <1>3 DEF MInv
<1>7. \A w : Code(w)' = Code(w) /\ (pc'[w] = pc[w] =>
          (Alive(w)' <=> Alive(w)) /\ (Ended(w)' <=> Ended(w)) /\ At(w)' = At(w))
  BY <1>1 DEF Code, Alive, Ended, At
<1>8. pc[t] \in 1 .. Len(Code(t)) /\ At(t) = Code(t)[pc[t]]
  BY <1>1, <1>3, InstructionFacts
<1>9. ASSUME pc'["M"] # 0 PROVE pc'["H"] # 0
  <2>1. CASE pc["M"] # 0
    BY <1>2, <1>4, <1>6, <2>1
  <2>2. CASE pc["M"] = 0
    <3>1. Creates(Code(t)[pc[t]], "M")
      BY <1>1, <1>4, <1>8, <1>9, <2>2 DEF Creation, Creates
    <3>2. PICK j \in 1 .. pc[t] - 1 : Creates(Code(t)[j], "H")
      BY <1>1, <1>8, <3>1, InvertFacts
    <3>3. Len(Code(t)) \in Nat
      BY <1>1, TableFacts
    <3>4. j \in 1 .. Len(Code(t)) /\ pc[t] > j
      BY <1>5, <1>8, <3>3
    <3>5. pc["H"] # 0
      BY <1>2, <1>3, <3>2, <3>4 DEF IInv, CreatedOnce
    <3> QED BY <1>2, <1>4, <3>5
  <2> QED BY <2>1, <2>2
<1>10. ASSUME Alive("M")', pc'["M"] > 1, ~Ended("H")'
       PROVE  At("H")'.op = "lock" /\ owner'["sharedMemSem"] = "L"
  <2>1. pc["M"] # 0
    <3>1. ~(0 > 1) /\ ~(1 > 1)
      OBVIOUS
    <3>2. pc'["M"] # 0 /\ pc'["M"] # 1
      BY <1>10, <3>1
    <3> QED BY <1>1, <1>4, <3>2
  <2>2. pc["H"] # 0
    BY <1>6, <2>1
  <2>3. t # "H" => pc'["H"] = pc["H"]
    BY <1>2, <1>4, <2>2
  <2>4. pc["H"] > 0
    <3>1. pc["H"] \in Nat /\ pc["H"] # 0
      BY <1>1, <1>2, <2>2 DEF Types
    <3> QED BY <3>1
  <2>5. CASE t = "M"
    <3>1. At("M").op = "work" /\ owner' = owner
      <4>1. At("M").op = "work"
        BY <1>1, <1>8, <2>5, InvertFacts
      <4> QED BY <1>3, <2>5, <4>1 DEF Creation, Locking, Unlocking, Plainly, Jumping, TimingOut, Jumps
    <3>2. pc'["H"] = pc["H"]
      BY <2>3, <2>5
    <3>3. Alive("H")
      BY <1>7, <1>10, <2>4, <3>2 DEF Alive
    <3> QED BY <1>1, <1>3, <1>7, <2>5, <3>1, <3>2, <3>3, MWaitsForH
  <2>6. CASE t # "M"
    <3>1. pc'["M"] = pc["M"]
      BY <1>1, <1>4, <2>1, <2>6
    <3>2. Alive("M") /\ pc["M"] > 1
      BY <1>7, <1>10, <3>1
    <3>3. t # "L"
      BY <1>1, <3>2, LWaitsForM
    <3>4. t # "H"
      <4> SUFFICES ASSUME t = "H" PROVE FALSE
        OBVIOUS
      <4>1. At("H").op = "lock" /\ owner["sharedMemSem"] = "L"
        BY <1>3, <1>6, <3>2 DEF Alive
      <4>2. At("H").arg = "sharedMemSem"
        BY <1>1, <1>2, <1>3, <4>1, InstructionFacts
      <4>3. owner["sharedMemSem"] = ""
        BY <1>1, <4>1, <4>2 DEF CanGoOn
      <4> QED BY <4>1, <4>3
    <3>5. owner' = owner
      <4>1. At(t).op \notin {"lock", "timedlock", "unlock"}
        BY <1>1, <1>8, <3>3, <3>4, InvertFacts
      <4> QED BY <1>3, <4>1 DEF Creation, Locking, Unlocking, Plainly, Jumping, TimingOut
    <3> QED BY <1>6, <1>7, <1>10, <2>3, <3>2, <3>4, <3>5
  <2> QED BY <2>5, <2>6
<1> QED BY <1>9, <1>10

(* OnlyTheMutexInverts: M works before H is done only while H waits for the *)
(* mutex that L holds, so never in pthread3ok.                              *)
THEOREM InversionNeedsTheMutex == Spec => []OnlyTheMutexInverts
<1>1. IInv /\ MInv => OnlyTheMutexInverts
  <2> SUFFICES ASSUME IInv, MInv, "M" \in Thread, Alive("M"), pc["M"] > 1, ~Ended("H")
               PROVE  /\ At("H").op = "lock" /\ owner["sharedMemSem"] = "L"
                      /\ program # "pthread3ok"
    BY DEF OnlyTheMutexInverts
  <2>1. Types /\ "H" \in Thread
    BY InvertFacts DEF IInv
  <2>2. ~crashed
    BY <2>1 DEF IInv, CrashEndsAll, Alive
  <2>3. At("H").op = "lock" /\ owner["sharedMemSem"] = "L"
    BY <2>2 DEF MInv
  <2>4. Alive("H")
    BY <2>3 DEF At
  <2>5. pc["H"] \in 1 .. Len(Code("H")) /\ At("H") = Code("H")[pc["H"]]
    BY <2>1, <2>4, InstructionFacts
  <2>6. program # "pthread3ok"
    BY <2>1, <2>3, <2>5, InvertFacts
  <2> QED BY <2>3, <2>6
<1>2. IInv /\ MInv /\ [Next]_vars => MInv'
  <2>1. ASSUME MInv, UNCHANGED vars PROVE MInv'
    BY <2>1 DEF MInv, vars, Thread, At, Alive, Ended, Code
  <2> QED BY <2>1, MRun, MKill DEF Next
<1> QED BY <1>1, <1>2, MInit, Invariance, PTL DEF Spec
=============================================================================
