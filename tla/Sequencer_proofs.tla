-------------------------- MODULE Sequencer_proofs --------------------------
(***************************************************************************)
(* A sequencer that sets the abort flags before it posts the semaphores,   *)
(* or that no service can interrupt, leaves no service waiting, whatever   *)
(* its services, rates and cores are.                                      *)
(*                                                                         *)
(* From the moment a service has been posted for the shutdown it is at its *)
(* wait only with a post to take: it takes it, leaves the wait, and finds  *)
(* its flag set when it would come back.  That holds because the flag was  *)
(* set before the post, or because it cannot run until the flags are set.  *)
(*                                                                         *)
(* While no flag is set, what was posted for a service is what it has      *)
(* served, has in hand, or finds in its semaphore: no release is lost, and *)
(* none is served twice.                                                   *)
(*                                                                         *)
(* So a service has one release at most to serve, which bounds what the    *)
(* semaphores hold; and in the programs whose services share frames the    *)
(* count of the releases says how far each service is when another one     *)
(* runs: that is why they need no lock.                                    *)
(***************************************************************************)
EXTENDS FrameSequencer, WellFoundedInduction, TLAPS

Stages == {"startup", "sleep", "release", "shutdown", "ended", "complete", "exit"}

Shape ==
    /\ program \in DOMAIN Programs
    /\ stage \in Stages
    /\ k \in Nat \ {0}
    /\ stage = "shutdown" => k \in 1 .. Len(P.shutdown)
    /\ sem \in [Services -> Nat]
    /\ abort \in [Services -> BOOLEAN]
    /\ pc \in [Services -> 0 .. Len(P.loop)]

Posted(s) ==
    \/ stage = "shutdown" /\ \E j \in 1 .. Len(P.shutdown) :
            j < k /\ s \in P.shutdown[j].posts
    \/ stage = "release" /\ abort[s]
    \/ stage = "ended"

PostedCanGo(s) == SafeShutdown /\ Posted(s) /\ pc[s] = 2 => sem[s] > 0

Flags ==
    /\ stage \in {"startup", "sleep"} => \A s \in Services : ~abort[s]
    /\ stage = "release" =>
        \/ \A s \in Services : ~abort[s]
        \/ P.abortsFirst /\ \A s \in Services : abort[s]
    /\ stage = "shutdown" =>
        \A j \in 1 .. Len(P.shutdown) : j < k =>
            \A s \in Services : s \in P.shutdown[j].aborts => abort[s]
    /\ stage = "ended" => \A s \in Services : abort[s]

IInv == Shape /\ Flags /\ \A s \in Services : PostedCanGo(s)

-----------------------------------------------------------------------------
(* A service at its wait is at step 2 of its loop. *)
LEMMA WaitIsSecond ==
    ASSUME Shape, NEW s \in Services
    PROVE  /\ WellFormed(P)
           /\ Services = 1 .. Len(P.rates) /\ Len(P.rates) \in Nat \ {0}
           /\ pc[s] \in 0 .. Len(P.loop)
           /\ At(s) = "wait" <=> pc[s] = 2
<1>1. WellFormed(P)
  BY ProgramsAssumption DEF Shape, P
<1>2. Services = 1 .. Len(P.rates) /\ Len(P.rates) \in Nat \ {0}
  BY <1>1 DEF WellFormed, Services
<1>3. pc[s] \in 0 .. Len(P.loop) /\ Len(P.loop) \in Nat /\ Len(P.loop) > 1
  BY <1>1 DEF WellFormed, Shape
<1>4. \A i \in 1 .. Len(P.loop) : P.loop[i] = "wait" <=> i = 2
  BY <1>1 DEF WellFormed
<1>5. CASE pc[s] = 0
  BY <1>5, <1>1, <1>2, <1>3 DEF At
<1>6. CASE pc[s] # 0
  <2>1. pc[s] \in 1 .. Len(P.loop)
    BY <1>3, <1>6
  <2> QED BY <2>1, <1>1, <1>2, <1>3, <1>4, <1>6 DEF At
<1> QED BY <1>5, <1>6

(* The step after any step but the first is not the wait. *)
LEMMA ForwardLeaves ==
    ASSUME Shape, NEW s \in Services, Forward(s), pc[s] # 0
    PROVE  /\ pc' \in [Services -> 0 .. Len(P.loop)]
           /\ pc[s] # 1 => pc'[s] # 2
           /\ \A t \in Services : t # s => pc'[t] = pc[t]
<1>1. pc[s] \in 0 .. Len(P.loop) /\ Len(P.loop) \in Nat /\ Len(P.loop) > 1
  BY WaitIsSecond DEF WellFormed
<1>2. pc \in [Services -> 0 .. Len(P.loop)]
  BY DEF Shape
<1>3. pc' = [pc EXCEPT ![s] = IF pc[s] = Len(P.loop) THEN 1 ELSE pc[s] + 1]
  BY DEF Forward
<1>4. pc'[s] = IF pc[s] = Len(P.loop) THEN 1 ELSE pc[s] + 1
  BY <1>2, <1>3
<1>5. pc'[s] \in 0 .. Len(P.loop) /\ (pc[s] # 1 => pc'[s] # 2)
  BY <1>1, <1>4
<1>6. \A t \in Services : t # s => pc'[t] = pc[t]
  BY <1>2, <1>3
<1>7. pc' \in [Services -> 0 .. Len(P.loop)]
  BY <1>2, <1>3, <1>5, <1>4
<1> QED BY <1>5, <1>6, <1>7

(* Where the shutdown is safe, a service that runs after its post finds its *)
(* flag set.                                                                *)
LEMMA PostedIsFlagged ==
    ASSUME IInv, SafeShutdown, NEW s \in Services,
           MayRun(s), Posted(s)
    PROVE  abort[s]
<1>1. CASE stage = "ended"
  BY <1>1 DEF IInv, Flags
<1>2. CASE stage = "release"
  BY <1>2 DEF Posted
<1>3. CASE stage = "shutdown"
  <2>1. CASE PreemptsAll
    <3>1. Runs(0)
      BY <1>3 DEF Runs
    <3>2. 0 \in Ahead(s)
      BY <2>1, <3>1 DEF PreemptsAll, Ahead
    <3>3. Pinned(s)
      BY <2>1 DEF PreemptsAll
    <3> QED BY <3>2, <3>3 DEF MayRun
  <2>2. CASE AbortsPrecede
    <3>0. WellFormed(P)
      BY WaitIsSecond DEF IInv
    <3>1. k \in 1 .. Len(P.shutdown) /\ DOMAIN P.shutdown = 1 .. Len(P.shutdown) /\ Len(P.shutdown) \in Nat
      BY <1>3, <3>0 DEF IInv, Shape, WellFormed
    <3>2. PICK j \in 1 .. Len(P.shutdown) : j < k /\ s \in P.shutdown[j].posts
      BY <1>3 DEF Posted
    <3>3. PICK i \in 1 .. j : s \in P.shutdown[i].aborts
      BY <2>2, <3>1, <3>2 DEF AbortsPrecede
    <3>4. i \in 1 .. Len(P.shutdown) /\ i < k
      BY <3>1, <3>2, <3>3
    <3> QED BY <1>3, <3>3, <3>4 DEF IInv, Flags
  <2> QED BY <2>1, <2>2 DEF SafeShutdown
<1> QED BY <1>1, <1>2, <1>3 DEF Posted

-----------------------------------------------------------------------------
(* The initial states *)
LEMMA InitIInv == SeqInit => IInv
<1> SUFFICES ASSUME SeqInit PROVE IInv
  OBVIOUS
<1>1. WellFormed(P)
  BY ProgramsAssumption DEF SeqInit, P
<1>2. Shape
  BY <1>1 DEF Shape, SeqInit, Stages, WellFormed
<1>3. Flags
  BY DEF Flags, SeqInit
<1>4. ASSUME NEW s \in Services PROVE PostedCanGo(s)
  BY DEF PostedCanGo, SeqInit
<1> QED BY <1>2, <1>3, <1>4 DEF IInv

(* No step changes the program. *)
LEMMA SameProgram ==
    ASSUME program' = program
    PROVE  P' = P /\ Services' = Services /\ (SafeShutdown <=> SafeShutdown')
<1>1. P' = P /\ Services' = Services
  BY DEF P, Services
<1>2. PreemptsAll <=> PreemptsAll'
  BY <1>1 DEF PreemptsAll, Pinned
<1>3. AbortsPrecede <=> AbortsPrecede'
  BY <1>1 DEF AbortsPrecede
<1> QED BY <1>1, <1>2, <1>3 DEF SafeShutdown

(* The invariant is kept by each step of the start, *)
LEMMA StartupIInv == ASSUME IInv, Startup PROVE IInv'
<1>1. P' = P /\ Services' = Services /\ (SafeShutdown <=> SafeShutdown')
  BY SameProgram DEF Startup
<1>2. WellFormed(P)
  BY ProgramsAssumption DEF IInv, Shape, P
<1>3. stage = "startup" /\ stage' \in {"startup", "sleep", "exit"} /\ abort' = abort
  BY DEF Startup
<1>4. Shape'
  <2>1. pc' \in [Services -> 0 .. Len(P.loop)]
    BY <1>2 DEF IInv, Shape, Startup, WellFormed
  <2>2. k' \in Nat \ {0}
    BY DEF IInv, Shape, Startup
  <2> QED BY <1>1, <1>3, <2>1, <2>2 DEF Shape, IInv, Startup, Stages
<1>5. Flags'
  BY <1>1, <1>3 DEF IInv, Flags
<1>6. ASSUME NEW s \in Services PROVE PostedCanGo(s)'
  BY <1>3 DEF PostedCanGo, Posted
<1> QED BY <1>1, <1>4, <1>5, <1>6 DEF IInv

(* by the sequencer's wake-up, *)
LEMMA TickIInv == ASSUME IInv, Tick PROVE IInv'
<1>1. P' = P /\ Services' = Services /\ (SafeShutdown <=> SafeShutdown')
  BY SameProgram DEF Tick
<1>2. WellFormed(P)
  BY ProgramsAssumption DEF IInv, Shape, P
<1>3. /\ stage = "sleep" /\ stage' \in {"shutdown", "release"} /\ k' = 1
      /\ abort' = abort /\ sem' = sem /\ pc' = pc /\ program' = program
  BY DEF Tick
<1>4. Shape'
  BY <1>1, <1>2, <1>3 DEF Shape, IInv, Stages, WellFormed
<1>5. \A s \in Services : ~abort[s]
  BY <1>3 DEF IInv, Flags
<1>6. Flags'
  BY <1>1, <1>3, <1>5 DEF Flags
<1>7. ASSUME NEW s \in Services PROVE PostedCanGo(s)'
  BY <1>1, <1>3, <1>5 DEF PostedCanGo, Posted
<1> QED BY <1>1, <1>4, <1>6, <1>7 DEF IInv

(* by its posts, *)
LEMMA ReleaseIInv == ASSUME IInv, Release PROVE IInv'
<1>1. P' = P /\ Services' = Services /\ (SafeShutdown <=> SafeShutdown')
  BY SameProgram DEF Release
<1>2. WellFormed(P)
  BY ProgramsAssumption DEF IInv, Shape, P
<1>3. /\ stage = "release" /\ abort' = abort /\ pc' = pc /\ program' = program
      /\ sem' = IF Due(cycle, k) THEN [sem EXCEPT ![k] = @ + 1] ELSE sem
      /\ \/ stage' = AfterReleases /\ k' = 1
         \/ stage' = stage /\ k' = k + 1
  BY DEF Release
<1>4. AfterReleases \in {"ended", "sleep", "shutdown"}
  BY DEF AfterReleases
<1>5. sem \in [Services -> Nat]
  BY DEF IInv, Shape
<1>6. sem' \in [Services -> Nat] /\ \A s \in Services : sem[s] > 0 => sem'[s] > 0
  <2>1. CASE Due(cycle, k)
    <3>1. sem' = [sem EXCEPT ![k] = sem[k] + 1]
      BY <1>3, <2>1
    <3>2. \A s \in Services : sem'[s] = IF s = k THEN sem[s] + 1 ELSE sem[s]
      BY <1>5, <3>1
    <3>3. DOMAIN sem' = Services /\ \A s \in Services : sem[s] \in Nat
      BY <1>5, <3>1
    <3>4. \A s \in Services : sem'[s] \in Nat /\ (sem[s] > 0 => sem'[s] > 0)
      BY <3>2, <3>3
    <3> QED BY <1>5, <3>1, <3>3, <3>4
  <2>2. CASE ~Due(cycle, k)
    BY <1>3, <1>5, <2>2
  <2> QED BY <2>1, <2>2
<1>7. Shape'
  BY <1>1, <1>2, <1>3, <1>4, <1>6 DEF Shape, IInv, Stages, WellFormed
<1>8. \/ \A s \in Services : ~abort[s]
      \/ P.abortsFirst /\ \A s \in Services : abort[s]
  BY <1>3 DEF IInv, Flags
<1>9. 1 \in Services
  BY <1>2 DEF Services, WellFormed
<1>10. CASE stage' = stage
  <2>1. Flags'
    BY <1>1, <1>3, <1>8, <1>10 DEF Flags
  <2>2. ASSUME NEW s \in Services PROVE PostedCanGo(s)'
    BY <1>1, <1>3, <1>6, <1>10 DEF PostedCanGo, Posted, IInv
  <2> QED BY <1>1, <1>7, <2>1, <2>2 DEF IInv
<1>11. CASE stage' = AfterReleases /\ k' = 1
  <2>1. CASE \A s \in Services : ~abort[s]
    <3>1. stage' \in {"sleep", "shutdown"}
      BY <1>9, <1>11, <2>1 DEF AfterReleases
    <3>2. Flags'
      BY <1>1, <1>3, <1>11, <2>1, <3>1 DEF Flags
    <3>3. ASSUME NEW s \in Services PROVE PostedCanGo(s)'
      BY <1>11, <3>1 DEF PostedCanGo, Posted
    <3> QED BY <1>1, <1>7, <3>2, <3>3 DEF IInv
  <2>2. CASE P.abortsFirst /\ \A s \in Services : abort[s]
    <3>1. stage' = "ended"
      BY <1>11, <2>2 DEF AfterReleases
    <3>2. Flags'
      BY <1>1, <1>3, <2>2, <3>1 DEF Flags
    <3>3. ASSUME NEW s \in Services PROVE PostedCanGo(s)'
      BY <1>1, <1>3, <1>6, <2>2 DEF PostedCanGo, Posted, IInv
    <3> QED BY <1>1, <1>7, <3>2, <3>3 DEF IInv
  <2> QED BY <1>8, <2>1, <2>2
<1> QED BY <1>3, <1>10, <1>11

(* The last step of the shutdown leaves every flag set. *)
LEMMA ShutdownSetsFlags ==
    ASSUME IInv, Shutdown, ~(k < Len(P.shutdown))
    PROVE  \A s \in Services : abort'[s]
<1>1. WellFormed(P)
  BY ProgramsAssumption DEF IInv, Shape, P
<1>2. /\ stage = "shutdown" /\ Len(P.shutdown) \in Nat /\ DOMAIN P.shutdown = 1 .. Len(P.shutdown)
      /\ k \in 1 .. Len(P.shutdown)
      /\ abort' = [s \in Services |-> abort[s] \/ s \in P.shutdown[k].aborts]
  BY <1>1 DEF Shutdown, WellFormed, IInv, Shape
<1>3. TAKE s \in Services
<1>4. PICK i \in 1 .. Len(P.shutdown) : s \in P.shutdown[i].aborts
  BY <1>1, <1>2 DEF WellFormed, Services
<1>5. i < k \/ i = k
  BY <1>2
<1>6. i < k => abort[s]
  BY <1>2, <1>4 DEF IInv, Flags
<1> QED BY <1>2, <1>4, <1>5, <1>6, Zenon

(* by each step of its shutdown, *)
LEMMA ShutdownIInv == ASSUME IInv, Shutdown PROVE IInv'
<1> DEFINE op == P.shutdown[k]
<1>1. P' = P /\ Services' = Services /\ (SafeShutdown <=> SafeShutdown')
  BY SameProgram DEF Shutdown
<1>2. WellFormed(P)
  BY ProgramsAssumption DEF IInv, Shape, P
<1>3. /\ stage = "shutdown" /\ pc' = pc /\ program' = program
      /\ sem' = [s \in Services |-> IF s \in op.posts THEN sem[s] + 1 ELSE sem[s]]
      /\ abort' = [s \in Services |-> abort[s] \/ s \in op.aborts]
      /\ IF k < Len(P.shutdown) THEN stage' = stage /\ k' = k + 1
         ELSE stage' = (IF P.abortsFirst THEN "release" ELSE "ended") /\ k' = 1
  BY DEF Shutdown
<1>4. /\ Len(P.shutdown) \in Nat \ {0} /\ DOMAIN P.shutdown = 1 .. Len(P.shutdown)
      /\ k \in 1 .. Len(P.shutdown)
  BY <1>2, <1>3 DEF WellFormed, IInv, Shape
<1>5. \A s \in Services : /\ sem[s] \in Nat /\ sem'[s] \in Nat
                          /\ sem[s] > 0 => sem'[s] > 0
                          /\ s \in op.posts => sem'[s] > 0
  BY <1>3 DEF IInv, Shape
<1>6. \A s \in Services : /\ abort[s] => abort'[s]
                          /\ s \in op.aborts => abort'[s]
  BY <1>3, Zenon
<1>7. Shape'
  <2>1. sem' \in [Services -> Nat]
    BY <1>3, <1>5
  <2>2. abort' \in [Services -> BOOLEAN]
    BY <1>3, Zenon
  <2>3. stage' \in Stages /\ k' \in Nat \ {0}
    BY <1>3, <1>4 DEF Stages
  <2>4. stage' = "shutdown" => k' \in 1 .. Len(P.shutdown)
    BY <1>3, <1>4
  <2>5. program \in DOMAIN Programs /\ pc \in [Services -> 0 .. Len(P.loop)]
    BY DEF IInv, Shape
  <2> QED BY <1>1, <1>3, <2>1, <2>2, <2>3, <2>4, <2>5 DEF Shape
<1>8. \A j \in 1 .. Len(P.shutdown) : j < k =>
        \A s \in Services : s \in P.shutdown[j].aborts => abort[s]
  BY <1>3 DEF IInv, Flags
<1>9. \A j \in 1 .. Len(P.shutdown) : j <= k =>
        \A s \in Services : s \in P.shutdown[j].aborts => abort'[s]
  <2> SUFFICES ASSUME NEW j \in 1 .. Len(P.shutdown), j <= k, NEW s \in Services,
                      s \in P.shutdown[j].aborts
               PROVE  abort'[s]
    OBVIOUS
  <2>1. j < k \/ j = k
    BY <1>4
  <2> QED BY <2>1, <1>6, <1>8, Zenon
<1>10. CASE k < Len(P.shutdown)
  <2>1. stage' = "shutdown" /\ k' = k + 1
    BY <1>3, <1>10
  <2>2. \A j \in 1 .. Len(P.shutdown) : j < k' => j <= k
    BY <1>4, <2>1
  <2>3. Flags'
    BY <1>1, <1>9, <2>1, <2>2 DEF Flags
  <2>4. ASSUME NEW s \in Services PROVE PostedCanGo(s)'
    <3> SUFFICES ASSUME SafeShutdown, Posted(s)', pc[s] = 2 PROVE sem'[s] > 0
      BY <1>1, <1>3 DEF PostedCanGo
    <3>1. PICK j \in 1 .. Len(P.shutdown) : j < k' /\ s \in P.shutdown[j].posts
      BY <1>1, <2>1 DEF Posted
    <3>2. CASE j = k
      BY <1>5, <3>1, <3>2
    <3>3. CASE j < k
      <4>1. Posted(s)
        BY <1>3, <3>1, <3>3 DEF Posted
      <4> QED BY <1>5, <4>1 DEF IInv, PostedCanGo
    <3> QED BY <2>2, <1>4, <3>1, <3>2, <3>3
  <2> QED BY <1>1, <1>7, <2>3, <2>4 DEF IInv
<1>11. CASE ~(k < Len(P.shutdown))
  <2>1. k = Len(P.shutdown) /\ stage' = (IF P.abortsFirst THEN "release" ELSE "ended")
    BY <1>3, <1>4, <1>11
  <2>2. \A s \in Services : abort'[s]
    BY <1>11, ShutdownSetsFlags
  <2>3. Flags'
    BY <1>1, <2>1, <2>2 DEF Flags
  <2>4. ASSUME NEW s \in Services PROVE PostedCanGo(s)'
    <3> SUFFICES ASSUME SafeShutdown, pc[s] = 2 PROVE sem'[s] > 0
      BY <1>1, <1>3 DEF PostedCanGo
    <3>1. PICK i \in 1 .. Len(P.shutdown) : s \in P.shutdown[i].posts
      BY <1>2, <1>4 DEF WellFormed, Services
    <3>2. CASE i = k
      BY <1>5, <3>1, <3>2
    <3>3. CASE i < k
      <4>1. Posted(s)
        BY <1>3, <3>1, <3>3 DEF Posted
      <4> QED BY <1>5, <4>1 DEF IInv, PostedCanGo
    <3> QED BY <1>4, <2>1, <3>1, <3>2, <3>3
  <2> QED BY <1>1, <1>7, <2>3, <2>4 DEF IInv
<1> QED BY <1>10, <1>11

(* by main when it has joined every thread, *)
LEMMA CompleteIInv == ASSUME IInv, Complete PROVE IInv'
<1>1. P' = P /\ Services' = Services
  BY SameProgram DEF Complete
<1>2. /\ stage' = "complete" /\ k' = k /\ sem' = sem /\ abort' = abort /\ pc' = pc
      /\ program' = program
  BY DEF Complete
<1>3. Shape' /\ Flags'
  BY <1>1, <1>2 DEF IInv, Shape, Flags, Stages
<1>4. ASSUME NEW s \in Services PROVE PostedCanGo(s)'
  BY <1>2 DEF PostedCanGo, Posted
<1> QED BY <1>1, <1>3, <1>4 DEF IInv

(* by a camera that has no frame, *)
LEMMA NoFrameIInv == ASSUME IInv, NoFrame PROVE IInv'
<1>1. P' = P /\ Services' = Services
  BY SameProgram DEF NoFrame
<1>2. /\ stage' = "exit" /\ k' = k /\ sem' = sem /\ abort' = abort /\ pc' = pc
      /\ program' = program
  BY DEF NoFrame
<1>3. Shape' /\ Flags'
  BY <1>1, <1>2 DEF IInv, Shape, Flags, Stages
<1>4. ASSUME NEW s \in Services PROVE PostedCanGo(s)'
  BY <1>2 DEF PostedCanGo, Posted
<1> QED BY <1>1, <1>3, <1>4 DEF IInv

(* A step of service s may move s out of its wait, or into it with its flag *)
(* not set, and take a post as it leaves.                                   *)
LEMMA ServiceIInv ==
    ASSUME IInv, NEW s \in Services,
           program' = program, stage' = stage, k' = k, abort' = abort,
           pc' \in [Services -> 0 .. Len(P.loop)], sem' \in [Services -> Nat],
           \A t \in Services : t # s => pc'[t] = pc[t] /\ sem'[t] = sem[t],
           SafeShutdown /\ Posted(s) => pc'[s] # 2
    PROVE  IInv'
<1>1. P' = P /\ Services' = Services /\ (SafeShutdown <=> SafeShutdown')
  BY SameProgram
<1>2. Shape' /\ Flags'
  BY <1>1 DEF IInv, Shape, Flags
<1>3. ASSUME NEW t \in Services PROVE PostedCanGo(t)'
  <2>1. Posted(t)' <=> Posted(t)
    BY <1>1 DEF Posted
  <2> QED BY <1>1, <2>1 DEF IInv, PostedCanGo
<1> QED BY <1>1, <1>2, <1>3 DEF IInv

(* by a service that looks at its abort flag, *)
LEMMA CheckIInv == ASSUME IInv, NEW s \in Services, Check(s) PROVE IInv'
<1>1. /\ At(s) = "check" /\ MayRun(s) /\ program' = program /\ stage' = stage /\ k' = k
      /\ abort' = abort /\ sem' = sem
      /\ IF abort[s] THEN pc' = [pc EXCEPT ![s] = 0] ELSE Forward(s)
  BY DEF Check, mainVars
<1>2. sem' \in [Services -> Nat] /\ \A t \in Services : sem'[t] = sem[t]
  BY <1>1 DEF IInv, Shape
<1>3. pc[s] # 0
  BY <1>1 DEF At
<1>4. CASE abort[s]
  <2>1. pc' = [pc EXCEPT ![s] = 0] /\ pc \in [Services -> 0 .. Len(P.loop)] /\ Len(P.loop) \in Nat
    BY <1>1, <1>4, WaitIsSecond DEF IInv, Shape, WellFormed
  <2>2. /\ pc' \in [Services -> 0 .. Len(P.loop)] /\ pc'[s] # 2
        /\ \A t \in Services : t # s => pc'[t] = pc[t]
    BY <2>1
  <2> QED BY <1>1, <1>2, <2>2, ServiceIInv
<1>5. CASE ~abort[s]
  <2>1. Forward(s)
    BY <1>1, <1>5
  <2>2. /\ pc' \in [Services -> 0 .. Len(P.loop)]
        /\ \A t \in Services : t # s => pc'[t] = pc[t]
    BY <1>3, <2>1, ForwardLeaves DEF IInv
  <2>3. ~(SafeShutdown /\ Posted(s))
    BY <1>1, <1>5, PostedIsFlagged
  <2> QED BY <1>1, <1>2, <2>2, <2>3, ServiceIInv
<1> QED BY <1>4, <1>5

(* and by a service that waits for its release: *)
LEMMA WaitIInv == ASSUME IInv, NEW s \in Services, Wait(s) PROVE IInv'
<1>1. /\ At(s) = "wait" /\ sem[s] > 0 /\ sem' = [sem EXCEPT ![s] = @ - 1] /\ Forward(s)
      /\ program' = program /\ stage' = stage /\ k' = k /\ abort' = abort
  BY DEF Wait, mainVars
<1>2. pc[s] = 2
  BY <1>1, WaitIsSecond DEF IInv
<1>3. /\ pc' \in [Services -> 0 .. Len(P.loop)] /\ pc'[s] # 2
      /\ \A t \in Services : t # s => pc'[t] = pc[t]
  BY <1>1, <1>2, ForwardLeaves DEF IInv
<1>4. sem' \in [Services -> Nat] /\ \A t \in Services : t # s => sem'[t] = sem[t]
  BY <1>1 DEF IInv, Shape
<1> QED BY <1>1, <1>3, <1>4, ServiceIInv

(* The two halves of the work leave a step that is not the first. *)
LEMMA WorkIInv ==
    ASSUME IInv, NEW s \in Services, At(s) \in {"begin", "done"}, Forward(s),
           program' = program, stage' = stage, k' = k, abort' = abort, sem' = sem
    PROVE  IInv'
<1>1. WellFormed(P)
  BY WaitIsSecond DEF IInv
<1>2. pc[s] # 0 /\ pc[s] # 1
  BY <1>1 DEF At, WellFormed
<1>3. /\ pc' \in [Services -> 0 .. Len(P.loop)] /\ pc'[s] # 2
      /\ \A t \in Services : t # s => pc'[t] = pc[t]
  BY <1>2, ForwardLeaves DEF IInv
<1>4. sem' \in [Services -> Nat] /\ \A t \in Services : sem'[t] = sem[t]
  BY DEF IInv, Shape
<1> QED BY <1>3, <1>4, ServiceIInv

(* by every step. *)
LEMMA StepIInv == ASSUME IInv, [Next]_vars PROVE IInv'
<1>1. CASE Drive
  BY <1>1, StartupIInv, TickIInv, ReleaseIInv, ShutdownIInv, CompleteIInv DEF Drive
<1>2. ASSUME NEW s \in Services, Serve(s) PROVE IInv'
  <2>1. CASE Check(s)
    BY <2>1, CheckIInv
  <2>2. CASE Wait(s)
    BY <2>2, WaitIInv
  <2>3. CASE Begin(s)
    BY <2>3, WorkIInv DEF Begin, mainVars
  <2>4. CASE Done(s, AsksForShutdown(s))
    BY <2>4, WorkIInv DEF Done, mainVars
  <2> QED BY <1>2, <2>1, <2>2, <2>3, <2>4 DEF Serve
<1>3. CASE NoFrame
  BY <1>3, NoFrameIInv
<1>4. CASE UNCHANGED vars
  <2>1. P' = P /\ Services' = Services /\ (SafeShutdown <=> SafeShutdown')
    BY <1>4, SameProgram DEF vars, seqVars
  <2>2. program' = program /\ stage' = stage /\ k' = k /\ sem' = sem /\ abort' = abort /\ pc' = pc
    BY <1>4 DEF vars, seqVars
  <2>3. Shape' /\ Flags'
    BY <2>1, <2>2 DEF IInv, Shape, Flags
  <2>4. ASSUME NEW s \in Services PROVE PostedCanGo(s)'
    BY <2>1, <2>2 DEF IInv, PostedCanGo, Posted
  <2> QED BY <2>1, <2>3, <2>4 DEF IInv
<1> QED BY <1>1, <1>2, <1>3, <1>4 DEF Next

(* The invariant behind the safe shutdown holds of every set of programs. *)
THEOREM SequencerInvariant == Spec => []IInv
<1>1. Init => IInv
  BY InitIInv DEF Init
<1>2. IInv /\ [Next]_vars => IInv'
  BY StepIInv
<1> QED BY <1>1, <1>2, PTL DEF Spec

(* When the sequencer of a program with a safe shutdown has ended, every    *)
(* service at its sem_wait has a post to take: pthread_join returns.        *)
THEOREM SafeShutdownStrandsNobody == Spec => []NobodyStranded
<1>1. IInv => NobodyStranded
  <2> SUFFICES ASSUME IInv, SafeShutdown, NEW s \in Services PROVE ~Stranded(s)
    BY DEF NobodyStranded
  <2>1. At(s) = "wait" <=> pc[s] = 2
    BY WaitIsSecond DEF IInv
  <2>2. PostedCanGo(s)
    BY DEF IInv
  <2> QED BY <2>1, <2>2 DEF Stranded, PostedCanGo, Posted
<1> QED BY <1>1, SequencerInvariant, PTL

-----------------------------------------------------------------------------
(* Releases.  What division says of cycles and rates:                       *)
LEMMA Quotient ==
    ASSUME NEW r \in Nat \ {0}, NEW c \in Int
    PROVE  /\ c \div r \in Int
           /\ r * (c \div r) <= c /\ c < r * (c \div r) + r
           /\ c % r = c - r * (c \div r)
OBVIOUS

(* it is the only number of whole periods,                                  *)
LEMMA OneQuotient ==
    ASSUME NEW r \in Nat \ {0}, NEW c \in Int, NEW q \in Int, r * q <= c, c < r * q + r
    PROVE  c \div r = q
<1> DEFINE p == c \div r
<1>1. p \in Int /\ r * p <= c /\ c < r * p + r
  BY Quotient
<1> HIDE DEF p
<1>2. r \in Int /\ r >= 1
  OBVIOUS
<1>3. CASE p < q
  <2>1. q >= p + 1
    BY <1>1, <1>3
  <2>2. r * q >= r * (p + 1)
    BY <1>1, <1>2, <2>1
  <2>3. r * (p + 1) = r * p + r
    BY <1>1, <1>2
  <2> QED BY <1>1, <1>2, <2>2, <2>3
<1>4. CASE q < p
  <2>1. p >= q + 1
    BY <1>1, <1>4
  <2>2. r * p >= r * (q + 1)
    BY <1>1, <1>2, <2>1
  <2>3. r * (q + 1) = r * q + r
    BY <1>1, <1>2
  <2> QED BY <1>1, <1>2, <2>2, <2>3
<1> QED BY <1>1, <1>3, <1>4 DEF p

(* and a later cycle, up to the next whole period, is one more or no more.  *)
LEMMA NextQuotient ==
    ASSUME NEW r \in Nat \ {0}, NEW c \in Int, NEW d \in Int,
           c < d, d <= ((c \div r) + 1) * r
    PROVE  d \div r = (c \div r) + (IF d % r = 0 THEN 1 ELSE 0)
<1> DEFINE q == c \div r
<1>1. q \in Int /\ r * q <= c /\ c < r * q + r
  BY Quotient
<1> HIDE DEF q
<1>2. (q + 1) * r = r * q + r /\ r * (q + 1) = r * q + r /\ r \in Nat /\ r > 0 /\ r * q \in Int
  BY <1>1
<1>3. r * q < d /\ d <= r * q + r
  BY <1>1, <1>2 DEF q
<1>6. d % r = d - r * (d \div r)
  BY Quotient
<1>4. CASE d = r * q + r
  <2>1. d \div r = q + 1
    <3>1. q + 1 \in Int /\ r * (q + 1) <= d /\ d < r * (q + 1) + r
      BY <1>1, <1>2, <1>4
    <3> QED BY <3>1, OneQuotient
  <2>2. d % r = 0
    BY <1>2, <1>4, <1>6, <2>1
  <2> QED BY <2>1, <2>2 DEF q
<1>5. CASE d # r * q + r
  <2>1. d \div r = q
    <3>1. r * q <= d /\ d < r * q + r
      BY <1>2, <1>3, <1>5
    <3> QED BY <1>1, <3>1, OneQuotient
  <2>2. d % r # 0
    BY <1>2, <1>3, <1>6, <2>1
  <2> QED BY <1>1, <2>1, <2>2 DEF q
<1> QED BY <1>4, <1>5

(* A set of natural numbers has a least one.                                *)
LEMMA LeastNumber ==
    ASSUME NEW T, T \subseteq Nat, T # {}
    PROVE  Min(T) \in T /\ \A y \in T : Min(T) <= y
<1>1. PICK x \in T : \A y \in T : ~(<<y, x>> \in OpToRel(<, Nat))
  BY NatLessThanWellFounded, WFMin, Zenon
<1>2. \A y \in T : ~(y < x)
  BY <1>1 DEF OpToRel
<1>3. \A y \in T : x <= y
  BY <1>2
<1> QED BY <1>3 DEF Min

-----------------------------------------------------------------------------
(* How far the count of cycles is, and that the services are not there yet. *)
Cycles ==
    /\ cycle \in Int /\ cycle >= P.first - 1
    /\ stage = "startup" => cycle = P.first - 1 /\ \A s \in Services : pc[s] = 0
    /\ stage = "release" => k <= Len(P.rates)

(* In a cycle the releases from k on are still to be posted.                *)
StillDue(s) == IF stage = "release" /\ s >= k /\ Due(cycle, s) THEN 1 ELSE 0
Tally(s) == Released(s) - StillDue(s) = work[s] + InHand(s) + sem[s]

Serving == stage \in {"startup", "sleep", "release"} /\ \A s \in Services : ~abort[s]

Counted == work \in [Services -> Nat] /\ (Serving => \A s \in Services : Tally(s))

CInv == IInv /\ Cycles /\ Counted

(* What a service has in hand is what it does behind its wait.              *)
LEMMA HandIsBehindWait ==
    ASSUME Shape, NEW s \in Services
    PROVE  /\ InHand(s) = IF pc[s] > 2 THEN 1 ELSE 0
           /\ pc[s] \in Nat /\ Len(P.loop) \in Nat /\ Len(P.loop) > 1 /\ pc[s] <= Len(P.loop)
           /\ WorkHasLength <=> Len(P.loop) > 2
           /\ At(s) = "done" => pc[s] = Len(P.loop) /\ pc[s] > 2
           /\ At(s) = "begin" => pc[s] > 2 /\ pc[s] < Len(P.loop)
           /\ At(s) = "check" => pc[s] = 1 \/ (pc[s] > 2 /\ pc[s] < Len(P.loop))
<1>1. /\ WellFormed(P) /\ pc[s] \in 0 .. Len(P.loop)
  BY WaitIsSecond
<1>2. /\ Len(P.loop) \in Nat /\ Len(P.loop) > 1 /\ DOMAIN P.loop = 1 .. Len(P.loop)
      /\ P.loop[1] = "check" /\ P.loop[2] = "wait"
      /\ \A i \in 3 .. Len(P.loop) :
            P.loop[i] \in {"check", "begin", "done"} /\ (P.loop[i] = "done" <=> i = Len(P.loop))
  BY <1>1 DEF WellFormed
<1>3. WorkHasLength <=> Len(P.loop) > 2
  <2>1. ASSUME Len(P.loop) > 2 PROVE WorkHasLength
    <3>1. Len(P.loop) \in 3 .. Len(P.loop) /\ Len(P.loop) \in DOMAIN P.loop
      BY <1>2, <2>1
    <3> QED BY <1>2, <3>1 DEF WorkHasLength
  <2>2. ASSUME WorkHasLength PROVE Len(P.loop) > 2
    <3>1. PICK i \in 1 .. Len(P.loop) : P.loop[i] = "done"
      BY <1>2, <2>2 DEF WorkHasLength
    <3>2. i # 1 /\ i # 2
      BY <1>2, <3>1
    <3> QED BY <1>2, <3>1, <3>2
  <2> QED BY <2>1, <2>2
<1>4. CASE pc[s] = 0
  BY <1>1, <1>2, <1>3, <1>4 DEF InHand, At
<1>5. CASE pc[s] = 1
  BY <1>1, <1>2, <1>3, <1>5 DEF InHand, At
<1>6. CASE pc[s] = 2
  BY <1>1, <1>2, <1>3, <1>6 DEF InHand, At
<1>7. CASE pc[s] > 2
  <2>1. pc[s] \in 3 .. Len(P.loop) /\ At(s) = P.loop[pc[s]] /\ pc[s] \in Nat
    BY <1>1, <1>2, <1>7 DEF At
  <2>2. At(s) \in {"check", "begin", "done"} /\ (At(s) = "done" <=> pc[s] = Len(P.loop))
    BY <1>2, <2>1
  <2>3. InHand(s) = 1
    BY <2>1, <2>2 DEF InHand
  <2> QED BY <1>2, <1>3, <1>7, <2>1, <2>2, <2>3
<1> QED BY <1>1, <1>2, <1>4, <1>5, <1>6, <1>7

(* What HandIsBehindWait says of every service, and of the next state.      *)
Hands == \A s \in Services : InHand(s) = IF pc[s] > 2 THEN 1 ELSE 0

(* It holds in the next state too.                                          *)
LEMMA NextHands == Shape' => Hands'
<1>1. Shape => Hands
  BY HandIsBehindWait DEF Hands
<1> QED BY <1>1, PTL

(* The count of the releases of a service is a whole number.                *)
LEMMA WholeReleases ==
    ASSUME CInv, NEW s \in Services
    PROVE  Released(s) \in Int
<1>1. WellFormed(P) /\ cycle \in Int
  BY ProgramsAssumption DEF CInv, IInv, Shape, P, Cycles
<1>2. P.first - 1 \in Int /\ P.rates[s] \in Nat
  BY <1>1 DEF WellFormed, Services
<1>3. CASE P.rates[s] = 0
  BY <1>3 DEF Released
<1>4. CASE P.rates[s] # 0
  <2>1. cycle \div P.rates[s] \in Int /\ (P.first - 1) \div P.rates[s] \in Int
    BY <1>1, <1>2, <1>4, Quotient
  <2> QED BY <1>4, <2>1 DEF Released
<1> QED BY <1>3, <1>4

(* Nothing is released, served or posted at the start.                      *)
LEMMA InitCInv == SeqInit => CInv
<1> SUFFICES ASSUME SeqInit PROVE CInv
  OBVIOUS
<1>1. IInv /\ WellFormed(P)
  BY InitIInv, ProgramsAssumption DEF SeqInit, P
<1>2. P.first \in Nat /\ \A s \in Services : P.rates[s] \in Nat
  BY <1>1 DEF WellFormed, Services
<1>3. Cycles
  BY <1>2 DEF Cycles, SeqInit
<1>4. ASSUME NEW s \in Services PROVE Tally(s)
  <2>1. InHand(s) = 0
    BY <1>1, HandIsBehindWait DEF SeqInit, IInv
  <2>2. Released(s) = 0
    <3>1. CASE P.rates[s] = 0
      BY <3>1 DEF Released
    <3>2. CASE P.rates[s] # 0
      <4>1. P.rates[s] \in Nat \ {0} /\ P.first - 1 \in Int
        BY <1>2, <3>2
      <4>2. (P.first - 1) \div P.rates[s] \in Int
        BY <4>1, Quotient
      <4> QED BY <3>2, <4>2 DEF Released, SeqInit
    <3> QED BY <3>1, <3>2
  <2>3. StillDue(s) = 0 /\ work[s] = 0 /\ sem[s] = 0
    BY DEF StillDue, SeqInit
  <2> QED BY <2>1, <2>2, <2>3 DEF Tally
<1>5. work \in [Services -> Nat]
  BY DEF SeqInit
<1> QED BY <1>1, <1>3, <1>4, <1>5 DEF CInv, Counted

(* Creating the threads serves nothing.                                     *)
LEMMA StartupCInv == ASSUME CInv, Startup PROVE CInv'
<1>1. P' = P /\ Services' = Services
  BY SameProgram DEF Startup
<1>2. IInv /\ IInv' /\ Shape /\ Shape' /\ WellFormed(P)
  BY StartupIInv, ProgramsAssumption DEF CInv, IInv, Shape, P
<1>3. /\ stage = "startup" /\ stage' \in {"startup", "sleep", "exit"}
      /\ cycle' = cycle /\ abort' = abort /\ sem' = sem /\ work' = work
      /\ \/ pc' = pc /\ stage' \in {"startup", "exit"}
         \/ pc' = [s \in Services |-> 1]  /\ stage' = "sleep"
  BY DEF Startup
<1>4. Cycles'
  BY <1>1, <1>3 DEF CInv, Cycles
<1>5. ASSUME NEW s \in Services, Serving' PROVE Tally(s)'
  <2>1. Serving
    BY <1>1, <1>3, <1>5 DEF Serving
  <2>2. Tally(s) /\ pc[s] = 0 /\ pc'[s] \in {0, 1}
    BY <1>3, <2>1 DEF CInv, Counted, Cycles
  <2>3. InHand(s) = 0 /\ InHand(s)' = 0
    <3>1. InHand(s) = 0
      BY <1>2, <2>2, HandIsBehindWait
    <3>2. InHand(s)' = IF pc'[s] > 2 THEN 1 ELSE 0
      BY <1>1, <1>2, NextHands DEF Hands
    <3> QED BY <2>2, <3>1, <3>2
  <2>4. Released(s)' = Released(s) /\ StillDue(s)' = 0 /\ StillDue(s) = 0
    BY <1>1, <1>3, <1>5 DEF Released, StillDue, Serving
  <2> QED BY <1>3, <2>2, <2>3, <2>4 DEF Tally
<1>6. work' \in [Services' -> Nat]
  BY <1>1, <1>3 DEF CInv, Counted
<1> QED BY <1>1, <1>2, <1>4, <1>5, <1>6 DEF CInv, Counted

(* The next cycle is the first that is due after this one, or comes before  *)
(* it: the rates that are due have one release more, the others none.       *)
LEMMA TickCInv == ASSUME CInv, Tick PROVE CInv'
<1>1. P' = P /\ Services' = Services
  BY SameProgram DEF Tick
<1>2. IInv /\ IInv' /\ WellFormed(P)
  BY TickIInv, ProgramsAssumption DEF CInv, IInv, Shape, P
<1>3. /\ stage = "sleep" /\ stage' \in {"release", "shutdown"} /\ k' = 1
      /\ abort' = abort /\ sem' = sem /\ work' = work /\ pc' = pc
      /\ \E c \in NextCycles : cycle < c /\ cycle' = c
  BY DEF Tick
<1>4. /\ P.first \in Nat /\ P.last \in Nat /\ MaxCycles \in Nat
      /\ Len(P.rates) \in Nat \ {0} /\ Services = 1 .. Len(P.rates)
      /\ \A s \in Services : P.rates[s] \in Nat
      /\ cycle \in Int /\ cycle >= P.first - 1
  BY <1>2, MaxCyclesAssumption DEF WellFormed, Services, CInv, Cycles, MaxCyclesAssumption
<1> DEFINE rated == {P.rates[s] : s \in Services} \ {0}
           next(r) == ((cycle \div r) + 1) * r
           times == {Last} \union {next(r) : r \in rated}
<1>5. Last \in Nat
  <2>1. {P.last, MaxCycles} \subseteq Nat /\ {P.last, MaxCycles} # {}
    BY <1>4
  <2> QED BY <2>1, LeastNumber DEF Last
<1>6. ASSUME NEW r \in rated
      PROVE  /\ r \in Nat \ {0} /\ next(r) \in Nat /\ cycle + 1 <= next(r)
  <2>1. r \in Nat \ {0}
    BY <1>4
  <2> HIDE DEF rated
  <2> DEFINE q == cycle \div r
  <2>2. q \in Int /\ r * q <= cycle /\ cycle < r * q + r
    BY <1>4, <2>1, Quotient
  <2>3. next(r) = (q + 1) * r
    OBVIOUS
  <2> HIDE DEF q, next
  <2>4. (q + 1) * r = r * q + r /\ r * q + r \in Int
    BY <2>1, <2>2
  <2>5. cycle >= -1
    BY <1>4
  <2> QED BY <1>4, <2>1, <2>2, <2>3, <2>4, <2>5
<1>7. NextRelease \in Int /\ \A r \in rated : NextRelease <= next(r)
  <2>1. NextRelease = Min(times)
    BY DEF NextRelease
  <2> HIDE DEF next, rated
  <2>2. times \subseteq Nat /\ times # {}
    BY <1>5, <1>6
  <2>3. Min(times) \in times /\ \A y \in times : Min(times) <= y
    BY <2>2, LeastNumber
  <2>4. \A r \in rated : next(r) \in times
    OBVIOUS
  <2> HIDE DEF times
  <2>5. Min(times) \in Nat
    BY <2>2, <2>3
  <2>6. \A r \in rated : Min(times) <= next(r)
    BY <2>3, <2>4, Zenon
  <2> QED BY <2>1, <2>5, <2>6
<1>8. cycle' \in Int /\ cycle < cycle' /\ \A r \in rated : cycle' <= next(r)
  <2>1. cycle' = NextRelease \/ cycle' = cycle + 1
    BY <1>3 DEF NextCycles
  <2> HIDE DEF rated, next
  <2> QED BY <1>3, <1>4, <1>6, <1>7, <2>1
<1>9. Cycles'
  BY <1>1, <1>3, <1>4, <1>8 DEF Cycles
<1>10. ASSUME NEW s \in Services, Serving' PROVE Tally(s)'
  <2>1. stage' = "release" /\ Serving /\ Tally(s)
    BY <1>1, <1>3, <1>10 DEF Serving, CInv, Counted
  <2>2. InHand(s)' = InHand(s) /\ StillDue(s) = 0
    BY <1>1, <1>3 DEF InHand, At, StillDue
  <2>3. s >= k'
    BY <1>3, <1>4
  <2>4. Released(s)' = Released(s) + StillDue(s)'
    <3>1. CASE P.rates[s] = 0
      BY <1>1, <3>1 DEF Released, StillDue, Due
    <3>2. CASE P.rates[s] # 0
      <4> DEFINE r == P.rates[s]
      <4>1. r \in rated /\ r \in Nat \ {0} /\ cycle' <= ((cycle \div r) + 1) * r
        BY <1>4, <1>8, <3>2
      <4>2. cycle' \div r = (cycle \div r) + (IF cycle' % r = 0 THEN 1 ELSE 0)
        BY <1>4, <1>8, <4>1, NextQuotient
      <4>3. cycle \div r \in Int /\ (P.first - 1) \div r \in Int
        <5>1. P.first - 1 \in Int
          BY <1>4
        <5> QED BY <1>4, <4>1, <5>1, Quotient
      <4>4. StillDue(s)' = IF cycle' % r = 0 THEN 1 ELSE 0
        BY <1>1, <2>1, <2>3, <3>2 DEF StillDue, Due
      <4>5. /\ Released(s) = (cycle \div r) - ((P.first - 1) \div r)
            /\ Released(s)' = (cycle' \div r) - ((P.first - 1) \div r)
        BY <1>1, <3>2 DEF Released
      <4> HIDE DEF r
      <4> QED BY <4>2, <4>3, <4>4, <4>5
    <3> QED BY <3>1, <3>2
  <2>5. Released(s) \in Int /\ StillDue(s)' \in Int
    BY WholeReleases DEF StillDue
  <2> QED BY <1>3, <2>1, <2>2, <2>4, <2>5 DEF Tally
<1>11. work' \in [Services' -> Nat]
  BY <1>1, <1>3 DEF CInv, Counted
<1> QED BY <1>1, <1>2, <1>9, <1>10, <1>11 DEF CInv, Counted

(* A post counts for the service that was due.                              *)
LEMMA ReleaseCInv == ASSUME CInv, Release PROVE CInv'
<1>1. P' = P /\ Services' = Services
  BY SameProgram DEF Release
<1>2. IInv /\ IInv' /\ WellFormed(P)
  BY ReleaseIInv, ProgramsAssumption DEF CInv, IInv, Shape, P
<1>3. /\ stage = "release" /\ abort' = abort /\ pc' = pc /\ work' = work /\ cycle' = cycle
      /\ sem' = IF Due(cycle, k) THEN [sem EXCEPT ![k] = sem[k] + 1] ELSE sem
      /\ IF k = Len(P.rates) THEN stage' = AfterReleases /\ k' = 1
                             ELSE stage' = stage /\ k' = k + 1
  BY DEF Release
<1>4. /\ Len(P.rates) \in Nat \ {0} /\ Services = 1 .. Len(P.rates)
      /\ k \in Services /\ sem \in [Services -> Nat] /\ work \in [Services -> Nat]
      /\ cycle \in Int /\ cycle >= P.first - 1
  BY <1>2, <1>3 DEF WellFormed, Services, CInv, Counted, Cycles, IInv, Shape
<1>5. stage' \in {"release", "sleep", "shutdown", "ended"}
  BY <1>3 DEF AfterReleases
<1>6. Cycles'
  BY <1>1, <1>3, <1>4, <1>5 DEF Cycles, AfterReleases
<1>7. ASSUME NEW s \in Services, Serving' PROVE Tally(s)'
  <2>1. Tally(s)
    BY <1>1, <1>3, <1>7 DEF CInv, Counted, Serving
  <2>2. InHand(s)' = InHand(s) /\ Released(s)' = Released(s)
    BY <1>1, <1>3 DEF InHand, At, Released
  <2>3. StillDue(s)' = IF s > k /\ Due(cycle, s) THEN 1 ELSE 0
    <3>1. Due(cycle, s)' <=> Due(cycle, s)
      BY <1>1, <1>3 DEF Due
    <3>2. CASE k = Len(P.rates)
      <4>1. stage' # "release" /\ ~(s > k)
        BY <1>3, <1>4, <3>2 DEF AfterReleases
      <4> QED BY <4>1 DEF StillDue
    <3>3. CASE k # Len(P.rates)
      <4>1. stage' = "release" /\ k' = k + 1 /\ (s >= k' <=> s > k)
        BY <1>3, <1>4, <3>3
      <4> QED BY <3>1, <4>1 DEF StillDue
    <3> QED BY <3>2, <3>3
  <2>4. StillDue(s) = IF s >= k /\ Due(cycle, s) THEN 1 ELSE 0
    BY <1>3 DEF StillDue
  <2>5. sem'[s] = IF s = k /\ Due(cycle, s) THEN sem[s] + 1 ELSE sem[s]
    BY <1>3, <1>4
  <2>6. s \in Nat /\ k \in Nat /\ sem[s] \in Nat /\ work[s] \in Nat
    BY <1>4
  <2>7. InHand(s) \in {0, 1}
    BY DEF InHand
  <2>8. Released(s) \in Int
    BY <1>2, WholeReleases DEF CInv, IInv
  <2>9. CASE s = k /\ Due(cycle, s)
    <3>1. StillDue(s) = 1 /\ StillDue(s)' = 0 /\ sem'[s] = sem[s] + 1
      BY <2>3, <2>4, <2>5, <2>6, <2>9
    <3> QED BY <1>3, <2>1, <2>2, <2>6, <2>7, <2>8, <3>1 DEF Tally
  <2>10. CASE ~(s = k /\ Due(cycle, s))
    <3>1. StillDue(s) = StillDue(s)' /\ sem'[s] = sem[s]
      BY <2>3, <2>4, <2>5, <2>6, <2>10
    <3> QED BY <1>3, <2>1, <2>2, <3>1 DEF Tally
  <2> QED BY <2>9, <2>10
<1>8. work' \in [Services' -> Nat]
  BY <1>1, <1>3, <1>4
<1> QED BY <1>1, <1>2, <1>6, <1>7, <1>8 DEF CInv, Counted

(* The shutdown ends with every flag set: nothing is released any more.     *)
LEMMA EndCInv == ASSUME CInv, Shutdown \/ Complete \/ NoFrame PROVE CInv'
<1>1. P' = P /\ Services' = Services
  BY SameProgram DEF Shutdown, Complete, NoFrame
<1>2. IInv' /\ WellFormed(P)
  BY ShutdownIInv, CompleteIInv, NoFrameIInv, ProgramsAssumption DEF CInv, IInv, Shape, P
<1>3. /\ cycle' = cycle /\ work' = work
      /\ stage' \in {"shutdown", "release", "ended", "complete", "exit"}
      /\ stage' = "release" => Shutdown /\ k' = 1 /\ ~(k < Len(P.shutdown))
  BY DEF Shutdown, Complete, NoFrame
<1>4. 1 \in Services /\ Len(P.rates) >= 1
  BY <1>2 DEF WellFormed, Services
<1>5. Cycles'
  BY <1>1, <1>3, <1>4 DEF CInv, Cycles
<1>6. ~Serving'
  <2>1. CASE stage' = "release"
    <3>1. \E s \in Services : abort'[s]
      BY <1>3, <1>4, <2>1, ShutdownSetsFlags DEF CInv
    <3> QED BY <1>1, <3>1 DEF Serving
  <2>2. CASE stage' # "release"
    BY <1>3, <2>2 DEF Serving
  <2> QED BY <2>1, <2>2
<1>7. work' \in [Services' -> Nat]
  BY <1>1, <1>3 DEF CInv, Counted
<1> QED BY <1>2, <1>5, <1>6, <1>7 DEF CInv, Counted

Hand(s) == IF pc[s] > 2 THEN 1 ELSE 0

(* A service that moves a release along keeps its tally.                    *)
LEMMA ServeCInv ==
    ASSUME CInv, IInv', NEW s \in Services,
           UNCHANGED <<program, stage, k, cycle, abort>>,
           work' \in [Services -> Nat],
           \A t \in Services : t # s => pc'[t] = pc[t] /\ sem'[t] = sem[t] /\ work'[t] = work[t],
           stage # "startup",
           Serving => work'[s] + Hand(s)' + sem'[s] = work[s] + Hand(s) + sem[s]
    PROVE  CInv'
<1>1. P' = P /\ Services' = Services
  BY SameProgram
<1>2. Cycles' /\ (Serving' <=> Serving)
  BY <1>1 DEF CInv, Cycles, Serving
<1>3. ASSUME NEW t \in Services, Serving PROVE Tally(t)'
  <2>1. Tally(t) /\ Released(t)' = Released(t) /\ StillDue(t)' = StillDue(t)
    BY <1>1, <1>3 DEF CInv, Counted, Released, StillDue, Due
  <2>2. InHand(t) = Hand(t)
    BY HandIsBehindWait DEF Hand, CInv, IInv
  <2>3. InHand(t)' = Hand(t)'
    BY <1>1, NextHands DEF Hands, Hand, IInv
  <2>4. CASE t = s
    BY <1>3, <2>1, <2>2, <2>3, <2>4 DEF Tally
  <2>5. CASE t # s
    BY <2>1, <2>2, <2>3, <2>5 DEF Tally, Hand
  <2> QED BY <2>4, <2>5
<1> QED BY <1>1, <1>2, <1>3 DEF CInv, Counted

(* What every step of a service finds.                                      *)
LEMMA ServedTypes ==
    ASSUME CInv, NEW s \in Services, At(s) # "none"
    PROVE  /\ stage # "startup" /\ pc[s] # 0
           /\ pc \in [Services -> 0 .. Len(P.loop)] /\ Len(P.loop) \in Nat
           /\ sem \in [Services -> Nat] /\ work \in [Services -> Nat]
<1>1. pc[s] # 0
  BY DEF At
<1> QED BY <1>1, HandIsBehindWait DEF CInv, Counted, Cycles, IInv, Shape

(* A flag that is set ends a service, which no longer counts; one that is   *)
(* not lets it go on with what it has.                                      *)
LEMMA CheckCInv == ASSUME CInv, NEW s \in Services, Check(s) PROVE CInv'
<1>1. /\ At(s) = "check" /\ UNCHANGED <<program, stage, k, cycle, abort>>
      /\ sem' = sem /\ work' = work
      /\ IF abort[s] THEN pc' = [pc EXCEPT ![s] = 0] ELSE Forward(s)
  BY DEF Check, mainVars
<1>2. IInv' /\ IInv
  BY CheckIInv DEF CInv
<1>3. /\ stage # "startup" /\ pc[s] # 0
      /\ pc \in [Services -> 0 .. Len(P.loop)] /\ Len(P.loop) \in Nat
      /\ sem \in [Services -> Nat] /\ work \in [Services -> Nat]
  BY <1>1, ServedTypes
<1>4. pc[s] = 1 \/ (pc[s] > 2 /\ pc[s] < Len(P.loop))
  BY <1>1, <1>2, HandIsBehindWait DEF IInv
<1>5. CASE abort[s]
  <2>1. ~Serving
    BY <1>5 DEF Serving
  <2>2. pc' = [pc EXCEPT ![s] = 0]
    BY <1>1, <1>5
  <2>3. \A t \in Services : t # s => pc'[t] = pc[t] /\ sem'[t] = sem[t] /\ work'[t] = work[t]
    BY <1>1, <1>3, <2>2
  <2> QED BY <1>1, <1>2, <1>3, <2>1, <2>3, ServeCInv
<1>6. CASE ~abort[s]
  <2>1. pc' = [pc EXCEPT ![s] = IF pc[s] = Len(P.loop) THEN 1 ELSE pc[s] + 1]
    BY <1>1, <1>6 DEF Forward
  <2>2. pc'[s] = IF pc[s] = Len(P.loop) THEN 1 ELSE pc[s] + 1
    BY <1>3, <2>1
  <2>3. Len(P.loop) > 1
    BY <1>2, HandIsBehindWait DEF IInv
  <2>4. Hand(s)' = Hand(s)
    BY <1>3, <1>4, <2>2, <2>3 DEF Hand
  <2>5. \A t \in Services : t # s => pc'[t] = pc[t] /\ sem'[t] = sem[t] /\ work'[t] = work[t]
    BY <1>1, <1>3, <2>1
  <2>6. work'[s] + Hand(s)' + sem'[s] = work[s] + Hand(s) + sem[s]
    BY <1>1, <2>4
  <2> QED BY <1>1, <1>2, <1>3, <2>5, <2>6, ServeCInv
<1> QED BY <1>5, <1>6

(* A post becomes work in hand, or work done where the work is to count.    *)
LEMMA WaitCInv == ASSUME CInv, NEW s \in Services, Wait(s) PROVE CInv'
<1>1. /\ At(s) = "wait" /\ UNCHANGED <<program, stage, k, cycle, abort>>
      /\ sem[s] > 0 /\ sem' = [sem EXCEPT ![s] = sem[s] - 1]
      /\ work' = IF WorkHasLength THEN work ELSE [work EXCEPT ![s] = work[s] + 1]
      /\ pc' = [pc EXCEPT ![s] = IF pc[s] = Len(P.loop) THEN 1 ELSE pc[s] + 1]
  BY DEF Wait, mainVars, Forward
<1>2. IInv' /\ IInv
  BY WaitIInv DEF CInv
<1>3. /\ stage # "startup" /\ pc[s] # 0
      /\ pc \in [Services -> 0 .. Len(P.loop)] /\ Len(P.loop) \in Nat
      /\ sem \in [Services -> Nat] /\ work \in [Services -> Nat]
  BY <1>1, ServedTypes
<1>4. pc[s] = 2 /\ (WorkHasLength <=> Len(P.loop) > 2) /\ Len(P.loop) > 1
  BY <1>1, <1>2, WaitIsSecond, HandIsBehindWait DEF IInv
<1>5. work' \in [Services -> Nat]
  BY <1>1, <1>3
<1>6. \A t \in Services : t # s => pc'[t] = pc[t] /\ sem'[t] = sem[t] /\ work'[t] = work[t]
  BY <1>1, <1>3
<1>7. sem'[s] = sem[s] - 1 /\ sem[s] \in Nat /\ work[s] \in Nat /\ Hand(s) = 0
  BY <1>1, <1>3, <1>4 DEF Hand
<1>8. work'[s] + Hand(s)' = work[s] + 1
  <2> DEFINE n == Len(P.loop)
  <2>1. pc[s] = 2 /\ n \in Nat /\ n > 1 /\ pc'[s] = IF 2 = n THEN 1 ELSE 3
    BY <1>1, <1>3, <1>4
  <2>2. work' = IF n > 2 THEN work ELSE [work EXCEPT ![s] = work[s] + 1]
    BY <1>1, <1>4, Zenon
  <2> HIDE DEF n
  <2>3. CASE n > 2
    BY <1>7, <2>1, <2>2, <2>3 DEF Hand
  <2>4. CASE ~(n > 2)
    <3>1. n = 2 /\ pc'[s] = 1 /\ work'[s] = work[s] + 1
      BY <1>3, <2>1, <2>2, <2>4
    <3> QED BY <1>7, <3>1 DEF Hand
  <2> QED BY <2>3, <2>4
<1>9. Hand(s)' \in {0, 1} /\ work'[s] \in Nat
  BY <1>5 DEF Hand
<1>10. work'[s] + Hand(s)' + sem'[s] = work[s] + Hand(s) + sem[s]
  BY <1>7, <1>8, <1>9
<1> QED BY <1>1, <1>2, <1>3, <1>5, <1>6, <1>10, ServeCInv

(* Work in hand stays in hand until it is done.                             *)
LEMMA WorkCInv ==
    ASSUME CInv, NEW s \in Services, Forward(s),
           UNCHANGED <<program, stage, k, cycle, abort, sem>>,
           \/ At(s) = "begin" /\ work' = work
           \/ At(s) = "done" /\ work' = [work EXCEPT ![s] = work[s] + 1]
    PROVE  CInv'
<1>1. IInv' /\ IInv
  BY WorkIInv DEF CInv
<1>2. /\ stage # "startup" /\ pc[s] # 0
      /\ pc \in [Services -> 0 .. Len(P.loop)] /\ Len(P.loop) \in Nat
      /\ sem \in [Services -> Nat] /\ work \in [Services -> Nat]
  BY ServedTypes
<1>3. /\ pc[s] > 2 /\ pc[s] \in Nat /\ Len(P.loop) > 1
      /\ At(s) = "done" => pc[s] = Len(P.loop)
      /\ At(s) = "begin" => pc[s] < Len(P.loop)
  BY <1>1, HandIsBehindWait DEF IInv
<1>4. pc' = [pc EXCEPT ![s] = IF pc[s] = Len(P.loop) THEN 1 ELSE pc[s] + 1]
  BY DEF Forward
<1>5. pc'[s] = IF pc[s] = Len(P.loop) THEN 1 ELSE pc[s] + 1
  BY <1>2, <1>4
<1>6. work' \in [Services -> Nat]
  BY <1>2
<1>7. \A t \in Services : t # s => pc'[t] = pc[t] /\ sem'[t] = sem[t] /\ work'[t] = work[t]
  BY <1>2, <1>4
<1>8. work'[s] + Hand(s)' = work[s] + Hand(s) /\ sem'[s] = sem[s]
  <2>1. CASE At(s) = "begin" /\ work' = work
    <3>1. pc'[s] > 2
      BY <1>2, <1>3, <1>5, <2>1
    <3> QED BY <1>3, <2>1, <3>1 DEF Hand
  <2>2. CASE At(s) = "done" /\ work' = [work EXCEPT ![s] = work[s] + 1]
    <3>1. pc'[s] = 1 /\ work'[s] = work[s] + 1 /\ work[s] \in Nat
      BY <1>2, <1>3, <1>5, <2>2
    <3> QED BY <1>3, <3>1 DEF Hand
  <2> QED BY <2>1, <2>2
<1>9. work'[s] + Hand(s)' + sem'[s] = work[s] + Hand(s) + sem[s]
  BY <1>8
<1> QED BY <1>1, <1>2, <1>6, <1>7, <1>9, ServeCInv

(* No step loses a release or serves one twice.                             *)
LEMMA StepCInv == ASSUME CInv, [Next]_vars PROVE CInv'
<1>1. CASE Drive
  BY <1>1, StartupCInv, TickCInv, ReleaseCInv, EndCInv DEF Drive
<1>2. ASSUME NEW s \in Services, Serve(s) PROVE CInv'
  <2>1. CASE Check(s)
    BY <2>1, CheckCInv
  <2>2. CASE Wait(s)
    BY <2>2, WaitCInv
  <2>3. CASE Begin(s)
    <3>1. /\ At(s) = "begin" /\ Forward(s) /\ work' = work
          /\ UNCHANGED <<program, stage, k, cycle, abort, sem>>
      BY <2>3 DEF Begin, mainVars
    <3> QED BY <3>1, WorkCInv
  <2>4. CASE Done(s, AsksForShutdown(s))
    <3>1. /\ At(s) = "done" /\ Forward(s) /\ work' = [work EXCEPT ![s] = work[s] + 1]
          /\ UNCHANGED <<program, stage, k, cycle, abort, sem>>
      BY <2>4 DEF Done, mainVars
    <3> QED BY <3>1, WorkCInv
  <2> QED BY <1>2, <2>1, <2>2, <2>3, <2>4 DEF Serve
<1>3. CASE NoFrame
  BY <1>3, EndCInv
<1>4. CASE UNCHANGED vars
  <2>1. IInv'
    BY <1>4, StepIInv DEF CInv
  <2>2. P' = P /\ Services' = Services
    BY <1>4, SameProgram DEF vars, seqVars
  <2>3. UNCHANGED <<stage, k, cycle, abort, sem, pc, work>>
    BY <1>4 DEF vars, seqVars
  <2> QED BY <2>1, <2>2, <2>3 DEF CInv, Cycles, Counted, Serving, Tally, Released, InHand, At,
                                  StillDue, Due
<1> QED BY <1>1, <1>2, <1>3, <1>4 DEF Next

(* Between two cycles every release that was due has been posted once, and  *)
(* is waiting, in hand or done, for all rates, first cycles and loops; the  *)
(* cycles that are passed over release nobody.                              *)
THEOREM ReleasesAreServed == Spec => []EveryReleaseServed
<1>1. Init => CInv
  BY InitCInv DEF Init
<1>2. CInv /\ [Next]_vars => CInv'
  BY StepCInv
<1>3. CInv => EveryReleaseServed
  <2> SUFFICES ASSUME CInv, stage = "sleep", NEW s \in Services
               PROVE  Released(s) = work[s] + InHand(s) + sem[s]
    BY DEF EveryReleaseServed
  <2>1. Tally(s)
    BY DEF CInv, Counted, Serving, IInv, Flags
  <2>2. Released(s) \in Int
    BY WholeReleases
  <2> QED BY <2>1, <2>2 DEF Tally, StillDue
<1> QED BY <1>1, <1>2, <1>3, PTL DEF Spec
-----------------------------------------------------------------------------
(* Types.  A semaphore holds at most two posts, unless the service's device *)
(* is late: one of a release, since the service has served one before the   *)
(* next is due, and one of the shutdown.                                    *)

(* What is still to be posted in this cycle, also where the shutdown comes  *)
(* before the releases.                                                     *)
Coming(s) ==
    IF /\ Due(cycle, s)
       /\ \/ stage = "release" /\ s >= k
          \/ stage = "shutdown" /\ P.abortsFirst
    THEN 1 ELSE 0

Limit(s) == IF Posted(s) THEN 2 ELSE 1

Load(s) ==
    /\ stage \notin {"complete", "exit"} => Hand(s) + sem[s] + Coming(s) <= Limit(s)
    /\ sem[s] <= 2

(* Between its creation and its flag a service runs, and nobody is left at  *)
(* the end.                                                                 *)
Alive(s) ==
    /\ pc[s] = 0 => abort[s] \/ stage \in {"startup", "exit"}
    /\ stage = "complete" => pc[s] = 0

Steps == {Len(P.startup), Len(P.rates), Len(P.shutdown)}

Bounds ==
    /\ k \in 1 .. Max(Steps)
    /\ stage = "startup" => k <= Len(P.startup)
    /\ cycle <= Last
    /\ abortTest \in BOOLEAN

Lives == \A s \in Services : Alive(s)
Loaded == \A s \in Services : ~Late(s) => Load(s)
Loads == Lives /\ Loaded

DInv == CInv /\ Bounds /\ Loads

(* The largest of three numbers is none of them less.                       *)
LEMMA LargestOfThree ==
    ASSUME NEW a \in Nat, NEW b \in Nat, NEW c \in Nat
    PROVE  LET m == Max({a, b, c}) IN m \in Nat /\ a <= m /\ b <= m /\ c <= m
<1> DEFINE T == {a, b, c}
<1>1. \E x \in T : \A y \in T : x >= y
  <2>1. CASE a >= b /\ a >= c
    BY <2>1
  <2>2. CASE b >= a /\ b >= c
    BY <2>2
  <2>3. CASE c >= a /\ c >= b
    BY <2>3
  <2> QED BY <2>1, <2>2, <2>3
<1>2. Max(T) \in T /\ \A y \in T : Max(T) >= y
  BY <1>1 DEF Max
<1> QED BY <1>2

(* The lengths of the three lists of a program.                             *)
LEMMA Lengths ==
    ASSUME program \in DOMAIN Programs
    PROVE  /\ Len(P.startup) \in Nat \ {0} /\ Len(P.rates) \in Nat \ {0}
           /\ Len(P.shutdown) \in Nat \ {0} /\ Max(Steps) \in Nat
           /\ Len(P.startup) <= Max(Steps) /\ Len(P.rates) <= Max(Steps)
           /\ Len(P.shutdown) <= Max(Steps)
           /\ P.first \in {0, 1} /\ Last \in Nat
           /\ \A i \in 1 .. Len(P.startup) : P.startup[i] = "create" <=> i = Len(P.startup)
           /\ Services = 1 .. Len(P.rates) /\ \A s \in Services : P.rates[s] \in Nat
<1>1. WellFormed(P)
  BY ProgramsAssumption DEF P
<1>2. /\ Len(P.startup) \in Nat \ {0} /\ Len(P.rates) \in Nat \ {0}
      /\ Len(P.shutdown) \in Nat \ {0}
  BY <1>1 DEF WellFormed
<1>3. /\ Max(Steps) \in Nat /\ Len(P.startup) <= Max(Steps)
      /\ Len(P.rates) <= Max(Steps) /\ Len(P.shutdown) <= Max(Steps)
  BY <1>2, LargestOfThree DEF Steps
<1>4. Last \in Nat
  <2>1. {P.last, MaxCycles} \subseteq Nat /\ {P.last, MaxCycles} # {}
    BY <1>1, MaxCyclesAssumption DEF WellFormed, MaxCyclesAssumption
  <2> QED BY <2>1, LeastNumber DEF Last
<1> QED BY <1>1, <1>2, <1>3, <1>4 DEF WellFormed, Services

(* Nothing is posted and nobody runs at the start.                          *)
LEMMA InitDInv == SeqInit => DInv
<1> SUFFICES ASSUME SeqInit PROVE DInv
  OBVIOUS
<1>1. CInv
  BY InitCInv
<1>2. Bounds
  <2>1. /\ program \in DOMAIN Programs /\ stage = "startup" /\ k = 1
        /\ cycle = P.first - 1 /\ abortTest = FALSE
    BY DEF SeqInit
  <2>2. 1 \in 1 .. Max(Steps) /\ 1 <= Len(P.startup)
    BY <2>1, Lengths
  <2>3. cycle <= Last
    BY <2>1, Lengths
  <2> QED BY <2>1, <2>2, <2>3 DEF Bounds
<1>3. ASSUME NEW s \in Services PROVE Load(s) /\ Alive(s)
  BY DEF SeqInit, Load, Alive, Hand, Coming, Limit
<1> QED BY <1>1, <1>2, <1>3 DEF DInv, Loads, Lives, Loaded

(* Every count stays within its list, and the cycles within the last one.   *)
LEMMA StepBounds == ASSUME DInv, [Next]_vars PROVE Bounds'
<1>1. program \in DOMAIN Programs /\ k \in Nat /\ (stage = "shutdown" => k <= Len(P.shutdown))
  BY DEF DInv, CInv, IInv, Shape
<1>2. program' = program
  BY DEF Next, Drive, Startup, Tick, Release, Shutdown, Complete, Serve, Check, Wait, Begin, Done,
         NoFrame, vars, seqVars
<1>3. P' = P /\ Last' = Last /\ Steps' = Steps
  BY <1>2 DEF P, Last, Steps
<1>4. CASE Startup
  <2>1. k' = 1 \/ k' = k \/ (k' = k + 1 /\ k # Len(P.startup))
    BY <1>1, <1>4, Lengths DEF Startup
  <2>2. stage' = "startup" => k' = k + 1 /\ k # Len(P.startup)
    BY <1>1, <1>4, Lengths DEF Startup
  <2>3. stage = "startup" /\ cycle' = cycle /\ abortTest' = abortTest
    BY <1>4 DEF Startup
  <2> QED BY <1>1, <1>3, <2>1, <2>2, <2>3, Lengths DEF Bounds, DInv
<1>5. CASE Tick
  BY <1>1, <1>3, <1>5, Lengths DEF Tick, Bounds, DInv
<1>6. CASE Release
  <2>1. k' = 1 \/ (k' = k + 1 /\ k # Len(P.rates) /\ k <= Len(P.rates))
    BY <1>6 DEF Release, DInv, CInv, Cycles
  <2>2. stage' # "startup" /\ cycle' = cycle /\ abortTest' = abortTest
    BY <1>6 DEF Release, AfterReleases
  <2> QED BY <1>1, <1>3, <2>1, <2>2, Lengths DEF Bounds, DInv
<1>7. CASE Shutdown
  <2>1. k' = 1 \/ (k' = k + 1 /\ k < Len(P.shutdown))
    BY <1>7 DEF Shutdown
  <2>2. stage' # "startup" /\ cycle' = cycle /\ abortTest' = abortTest
    BY <1>7 DEF Shutdown
  <2> QED BY <1>1, <1>3, <2>1, <2>2, Lengths DEF Bounds, DInv
<1>8. CASE Complete \/ NoFrame \/ UNCHANGED vars
  <2>1. /\ k' = k /\ cycle' = cycle /\ abortTest' = abortTest
        /\ stage' = "startup" => stage = "startup"
    BY <1>8 DEF Complete, NoFrame, vars, seqVars
  <2> QED BY <1>3, <2>1 DEF Bounds, DInv
<1>9. ASSUME NEW s \in Services, Serve(s) PROVE Bounds'
  <2>1. /\ k' = k /\ cycle' = cycle /\ stage' = stage
        /\ \/ abortTest' = abortTest
           \/ abortTest' = (abortTest \/ AsksForShutdown(s))
    BY <1>9 DEF Serve, Check, Wait, Begin, Done, mainVars
  <2>2. abortTest' \in BOOLEAN
    BY <2>1, Zenon DEF DInv, Bounds
  <2> QED BY <1>3, <2>1, <2>2 DEF Bounds, DInv
<1> QED BY <1>4, <1>5, <1>6, <1>7, <1>8, <1>9 DEF Next, Drive

(* A service that has still a release to serve, and does not wait for its   *)
(* device, is not past the next one.                                        *)
LEMMA IdleWhenDue ==
    ASSUME DInv, Tick, NEW s \in Services, ~Late(s), Due(cycle', s)
    PROVE  ~Ready(s)
<1> DEFINE r == P.rates[s]
<1>1. r \in Nat \ {0} /\ cycle \in Int
  BY Lengths DEF Due, DInv, CInv, IInv, Shape, Cycles
<1>2. cycle < cycle' /\ cycle' % r = 0 /\ cycle' \in Int
  <2>1. program' = program
    BY DEF Tick
  <2>2. cycle' \in Int
    BY TickCInv DEF DInv, CInv, Cycles
  <2> QED BY <2>1, <2>2 DEF Tick, Due
<1>3. Ready(s) => cycle' < cycle - (cycle % r) + r
  BY <1>1 DEF Tick, InTime, MayBlock
<1> DEFINE q == cycle \div r
           p == cycle' \div r
<1>4. q \in Int /\ r * q <= cycle /\ cycle % r = cycle - r * q
  BY <1>1, Quotient
<1>5. p \in Int /\ r * p <= cycle' /\ cycle' % r = cycle' - r * p
  BY <1>1, <1>2, Quotient
<1> HIDE DEF p, q, r
<1>9. r * p \in Int /\ r * q + r \in Int /\ r * q \in Int
  BY <1>1, <1>4, <1>5
<1>6. cycle' = r * p /\ (Ready(s) => r * p < r * q + r) /\ r * q < r * p
  <2>1. cycle' = r * p
    BY <1>2, <1>5, <1>9
  <2>2. r * q < r * p
    BY <1>1, <1>2, <1>4, <1>9, <2>1
  <2>3. ASSUME Ready(s) PROVE r * p < r * q + r
    BY <1>1, <1>3, <1>4, <1>9, <2>1, <2>3
  <2> QED BY <2>1, <2>2, <2>3
<1>7. q < p
  <2>1. CASE p <= q
    <3>1. r * p <= r * q
      BY <1>1, <1>4, <1>5, <2>1
    <3> QED BY <1>6, <1>9, <3>1
  <2> QED BY <1>4, <1>5, <2>1
<1>8. r * q + r <= r * p
  <2>1. q + 1 <= p
    BY <1>4, <1>5, <1>7
  <2>2. r * (q + 1) <= r * p
    BY <1>1, <1>4, <1>5, <2>1
  <2>3. r * (q + 1) = r * q + r
    BY <1>1, <1>4
  <2> QED BY <2>2, <2>3
<1> QED BY <1>6, <1>8, <1>9

(* Starting the threads posts nothing.                                      *)
LEMMA StartupLoads == ASSUME DInv, Startup PROVE Loaded'
<1>1. P' = P /\ Services' = Services /\ punctual' = punctual
  BY SameProgram DEF Startup
<1>2. /\ stage = "startup" /\ stage' \in {"startup", "sleep", "exit"}
      /\ cycle' = cycle /\ abort' = abort /\ sem' = sem
      /\ \/ pc' = pc /\ stage' # "sleep"
         \/ pc' = [s \in Services |-> 1]
  BY DEF Startup
<1>3. ASSUME NEW s \in Services, ~Late(s) PROVE Load(s)'
  <2>1. Load(s) /\ Alive(s) /\ pc[s] = 0 /\ ((pc'[s] = 0 /\ stage' # "sleep") \/ pc'[s] = 1)
    BY <1>2, <1>3 DEF DInv, Loads, Lives, Loaded, CInv, Cycles
  <2>2. Hand(s) = 0 /\ Hand(s)' = 0 /\ Coming(s) = 0 /\ Coming(s)' = 0
    BY <1>2, <2>1 DEF Hand, Coming
  <2>3. Limit(s) = 1 /\ Limit(s)' = 1
    BY <1>2 DEF Limit, Posted
  <2> QED BY <1>2, <2>1, <2>2, <2>3 DEF Load
<1> QED BY <1>1, <1>3 DEF Loaded, Late

(* A service that is due in the new cycle has nothing left of the last one. *)
LEMMA TickLoads == ASSUME DInv, Tick PROVE Loaded'
<1>1. P' = P /\ Services' = Services /\ punctual' = punctual
  BY SameProgram DEF Tick
<1>2. /\ stage = "sleep" /\ stage' \in {"release", "shutdown"} /\ k' = 1
      /\ abort' = abort /\ sem' = sem /\ pc' = pc
  BY DEF Tick
<1>3. ASSUME NEW s \in Services, ~Late(s) PROVE Load(s)'
  <2>1. Load(s) /\ Alive(s) /\ ~abort[s] /\ sem[s] \in Nat /\ Hand(s) \in {0, 1}
    BY <1>2, <1>3 DEF DInv, Loads, Lives, Loaded, CInv, IInv, Flags, Shape, Hand
  <2>2. Coming(s) = 0 /\ Limit(s) = 1 /\ Limit(s)' = 1 /\ Hand(s)' = Hand(s)
    BY <1>2, <2>1, Lengths DEF Coming, Limit, Posted, Hand
  <2>3. Hand(s) + sem[s] <= 1 /\ sem[s] <= 2
    BY <1>2, <2>1, <2>2 DEF Load
  <2>4. CASE ~Due(cycle', s)
    <3>1. Coming(s)' = 0
      BY <1>1, <2>4 DEF Coming, Due
    <3> QED BY <1>2, <2>1, <2>2, <2>3, <3>1 DEF Load
  <2>5. CASE Due(cycle', s)
    <3>1. pc[s] # 0
      BY <1>2, <2>1 DEF Alive
    <3>2. pc[s] = 2 /\ ~(sem[s] > 0)
      BY <1>3, <2>5, <3>1, IdleWhenDue, WaitIsSecond DEF Ready, DInv, CInv, IInv
    <3>3. Hand(s) = 0 /\ sem[s] = 0 /\ Coming(s)' \in {0, 1}
      BY <2>1, <3>2 DEF Hand, Coming
    <3> QED BY <1>2, <2>1, <2>2, <3>3 DEF Load
  <2> QED BY <2>4, <2>5
<1> QED BY <1>1, <1>3 DEF Loaded, Late

(* A post that was still to come has come.                                  *)
LEMMA ReleaseLoads == ASSUME DInv, Release PROVE Loaded'
<1>1. P' = P /\ Services' = Services /\ punctual' = punctual
  BY SameProgram DEF Release
<1>2. /\ stage = "release" /\ abort' = abort /\ pc' = pc /\ cycle' = cycle
      /\ sem' = IF Due(cycle, k) THEN [sem EXCEPT ![k] = sem[k] + 1] ELSE sem
      /\ IF k = Len(P.rates) THEN stage' = AfterReleases /\ k' = 1
                             ELSE stage' = stage /\ k' = k + 1
  BY DEF Release
<1>3. /\ sem \in [Services -> Nat] /\ k \in Nat /\ k <= Len(P.rates) /\ IInv
      /\ Len(P.rates) \in Nat /\ Services = 1 .. Len(P.rates)
  BY <1>2, Lengths DEF DInv, CInv, IInv, Shape, Cycles
<1>4. stage' \in {"release", "sleep", "ended"} \/ (stage' = "shutdown" /\ ~P.abortsFirst)
  BY <1>2 DEF AfterReleases
<1>5. ASSUME NEW s \in Services, ~Late(s) PROVE Load(s)'
  <2>1. Load(s) /\ s \in Nat /\ sem[s] \in Nat /\ Hand(s) \in {0, 1}
    BY <1>3, <1>5 DEF DInv, Loads, Lives, Loaded, Hand
  <2>2. Hand(s)' = Hand(s)
    BY <1>2 DEF Hand
  <2>3. Limit(s)' = Limit(s)
    <3>1. stage' = "ended" => \A t \in Services : abort[t]
      BY <1>2 DEF AfterReleases
    <3>2. stage' # "ended" => stage' = "release" \/ (~abort[s] /\ (stage' = "shutdown" => k' = 1))
      <4>1. \/ \A t \in Services : ~abort[t]
            \/ P.abortsFirst /\ \A t \in Services : abort[t]
        BY <1>2, <1>3 DEF IInv, Flags
      <4> QED BY <1>2, <1>4, <4>1 DEF AfterReleases
    <3>3. stage' = "shutdown" => ~\E j \in 1 .. Len(P.shutdown) : j < k' /\ s \in P.shutdown[j].posts
      BY <3>2
    <3>4. Posted(s) <=> abort[s]
      BY <1>2 DEF Posted
    <3>5. Posted(s)' <=> abort[s]
      <4>1. CASE stage' = "ended"
        BY <1>1, <3>1, <4>1 DEF Posted
      <4>2. CASE stage' = "release"
        BY <1>2, <4>2 DEF Posted
      <4>3. CASE stage' \in {"sleep", "shutdown"}
        BY <1>1, <3>2, <3>3, <4>3 DEF Posted
      <4> QED BY <1>4, <4>1, <4>2, <4>3
    <3> QED BY <3>4, <3>5 DEF Limit
  <2>4. Coming(s) = IF s >= k /\ Due(cycle, s) THEN 1 ELSE 0
    BY <1>2 DEF Coming
  <2>5. Coming(s)' = IF s > k /\ Due(cycle, s) THEN 1 ELSE 0
    <3>1. Due(cycle, s)' <=> Due(cycle, s)
      BY <1>1, <1>2 DEF Due
    <3>2. CASE stage' = "release" /\ k' = k + 1
      <4>1. s >= k' <=> s > k
        BY <1>3, <2>1, <3>2
      <4> QED BY <3>1, <3>2, <4>1 DEF Coming
    <3>3. CASE k = Len(P.rates) /\ stage' = AfterReleases
      <4>1. ~(s > k) /\ stage' # "release" /\ ~(stage' = "shutdown" /\ P'.abortsFirst)
        BY <1>1, <1>3, <3>3 DEF AfterReleases
      <4> QED BY <4>1 DEF Coming
    <3> QED BY <1>2, <3>2, <3>3
  <2>6. sem'[s] = IF s = k /\ Due(cycle, s) THEN sem[s] + 1 ELSE sem[s]
    BY <1>2, <1>3
  <2>7. sem'[s] + Coming(s)' = sem[s] + Coming(s)
    <3>1. CASE s = k /\ Due(cycle, s)
      BY <1>3, <2>1, <2>4, <2>5, <2>6, <3>1
    <3>2. CASE ~(s = k /\ Due(cycle, s))
      BY <1>3, <2>1, <2>4, <2>5, <2>6, <3>2
    <3> QED BY <3>1, <3>2
  <2>8. Limit(s) \in {1, 2} /\ Coming(s) \in {0, 1} /\ Coming(s)' \in {0, 1} /\ sem'[s] \in Nat
    BY <2>1, <2>4, <2>5, <2>6 DEF Limit
  <2>9. Hand(s) + sem[s] + Coming(s) <= Limit(s)
    BY <1>2, <2>1 DEF Load
  <2> QED BY <2>1, <2>2, <2>3, <2>7, <2>8, <2>9 DEF Load
<1> QED BY <1>1, <1>5 DEF Loaded, Late

(* The shutdown adds one post, where there was none of it before.           *)
LEMMA ShutdownLoads == ASSUME DInv, Shutdown PROVE Loaded'
<1> DEFINE op == P.shutdown[k]
<1>1. P' = P /\ Services' = Services /\ punctual' = punctual
  BY SameProgram DEF Shutdown
<1>2. /\ stage = "shutdown" /\ pc' = pc /\ cycle' = cycle
      /\ sem' = [s \in Services |-> IF s \in op.posts THEN sem[s] + 1 ELSE sem[s]]
      /\ abort' = [s \in Services |-> abort[s] \/ s \in op.aborts]
      /\ IF k < Len(P.shutdown) THEN stage' = stage /\ k' = k + 1
         ELSE stage' = (IF P.abortsFirst THEN "release" ELSE "ended") /\ k' = 1
  BY DEF Shutdown
<1>3. /\ WellFormed(P) /\ IInv /\ sem \in [Services -> Nat]
      /\ Len(P.shutdown) \in Nat /\ k \in 1 .. Len(P.shutdown)
      /\ DOMAIN P.shutdown = 1 .. Len(P.shutdown)
      /\ Len(P.rates) \in Nat /\ Services = 1 .. Len(P.rates)
  BY <1>2, Lengths, ProgramsAssumption DEF DInv, CInv, IInv, Shape, P, WellFormed
<1>4. ASSUME NEW s \in Services, ~Late(s) PROVE Load(s)'
  <2>1. Load(s) /\ s \in Nat /\ s >= 1 /\ sem[s] \in Nat /\ Hand(s) \in {0, 1}
    BY <1>3, <1>4 DEF DInv, Loads, Lives, Loaded, Hand
  <2>2. Hand(s)' = Hand(s) /\ Coming(s)' = Coming(s) /\ Coming(s) \in {0, 1}
    <3>1. Due(cycle, s)' <=> Due(cycle, s)
      BY <1>1, <1>2 DEF Due
    <3>2. CASE k < Len(P.shutdown)
      BY <1>1, <1>2, <3>1, <3>2 DEF Hand, Coming
    <3>3. CASE ~(k < Len(P.shutdown))
      <4>1. stage' = (IF P.abortsFirst THEN "release" ELSE "ended") /\ s >= k'
        BY <1>2, <2>1, <3>3
      <4> QED BY <1>1, <1>2, <3>1, <4>1 DEF Hand, Coming
    <3> QED BY <3>2, <3>3
  <2>3. Posted(s) <=> \E j \in 1 .. Len(P.shutdown) : j < k /\ s \in P.shutdown[j].posts
    BY <1>2 DEF Posted
  <2>4. Posted(s)' <=> Posted(s) \/ s \in op.posts
    <3>1. CASE k < Len(P.shutdown)
      <4>1. stage' = "shutdown" /\ k' = k + 1
        BY <1>2, <3>1
      <4>2. Posted(s)' <=> \E j \in 1 .. Len(P.shutdown) : j < k + 1 /\ s \in P.shutdown[j].posts
        BY <1>1, <4>1 DEF Posted
      <4>3. \A j \in 1 .. Len(P.shutdown) : j < k + 1 <=> j < k \/ j = k
        BY <1>3
      <4> QED BY <1>3, <2>3, <4>2, <4>3
    <3>2. CASE ~(k < Len(P.shutdown))
      <4>1. abort'[s]
        BY <3>2, ShutdownSetsFlags, <1>3
      <4>2. Posted(s)'
        BY <1>2, <3>2, <4>1 DEF Posted
      <4>3. PICK i \in 1 .. Len(P.shutdown) : s \in P.shutdown[i].posts
        BY <1>3 DEF WellFormed, Services
      <4>4. i < k \/ i = k
        BY <1>3, <3>2
      <4> QED BY <2>3, <4>2, <4>3, <4>4
    <3> QED BY <3>1, <3>2
  <2>5. ~(Posted(s) /\ s \in op.posts)
    <3> SUFFICES ASSUME NEW j \in 1 .. Len(P.shutdown), j < k, s \in P.shutdown[j].posts, s \in op.posts
                 PROVE  FALSE
      BY <2>3
    <3>1. j = k
      BY <1>3 DEF WellFormed, Services
    <3> QED BY <1>3, <3>1
  <2>6. sem'[s] = IF s \in op.posts THEN sem[s] + 1 ELSE sem[s]
    BY <1>2
  <2>7. Hand(s) + sem[s] + Coming(s) <= Limit(s)
    BY <1>2, <2>1 DEF Load
  <2>8. CASE s \in op.posts
    <3>1. Limit(s) = 1 /\ Limit(s)' = 2 /\ sem'[s] = sem[s] + 1
      BY <2>4, <2>5, <2>6, <2>8 DEF Limit
    <3> QED BY <2>1, <2>2, <2>7, <3>1 DEF Load
  <2>9. CASE s \notin op.posts
    <3>1. Limit(s)' = Limit(s) /\ sem'[s] = sem[s] /\ Limit(s) \in {1, 2}
      BY <2>4, <2>6, <2>9 DEF Limit
    <3> QED BY <2>1, <2>2, <2>7, <3>1 DEF Load
  <2> QED BY <2>8, <2>9
<1> QED BY <1>1, <1>4 DEF Loaded, Late

(* After the end nothing is posted.                                         *)
LEMMA EndLoads == ASSUME DInv, Complete \/ NoFrame PROVE Loaded'
<1>1. P' = P /\ Services' = Services /\ punctual' = punctual
  BY SameProgram DEF Complete, NoFrame
<1>2. /\ stage' \in {"complete", "exit"} /\ sem' = sem /\ abort' = abort /\ pc' = pc
      /\ stage' = "complete" => stage = "ended" /\ \A s \in Services : pc[s] = 0
  BY DEF Complete, NoFrame
<1>3. ASSUME NEW s \in Services, ~Late(s) PROVE Load(s)'
  <2>1. Load(s)
    BY <1>3 DEF DInv, Loads, Loaded
  <2> QED BY <1>2, <2>1 DEF Load
<1> QED BY <1>1, <1>3 DEF Loaded, Late

(* A service only uses up what it has.                                      *)
LEMMA ServeLoads ==
    ASSUME DInv, NEW s \in Services, Serve(s)
    PROVE  Loaded'
<1>1. /\ program' = program /\ punctual' = punctual /\ stage' = stage /\ k' = k
      /\ cycle' = cycle /\ abort' = abort
      /\ \/ pc' = [pc EXCEPT ![s] = IF pc[s] = Len(P.loop) THEN 1 ELSE pc[s] + 1]
         \/ At(s) = "check" /\ abort[s] /\ pc' = [pc EXCEPT ![s] = 0]
      /\ \/ At(s) = "wait" /\ sem[s] > 0 /\ sem' = [sem EXCEPT ![s] = sem[s] - 1]
         \/ At(s) # "wait" /\ sem' = sem
      /\ At(s) # "none"
  BY DEF Serve, Check, Wait, Begin, Done, mainVars, Forward
<1>2. P' = P /\ Services' = Services
  BY <1>1, SameProgram
<1>3. /\ pc \in [Services -> 0 .. Len(P.loop)] /\ sem \in [Services -> Nat]
      /\ Len(P.loop) \in Nat /\ Len(P.loop) > 1 /\ pc[s] # 0 /\ (At(s) = "wait" <=> pc[s] = 2)
  BY <1>1, ServedTypes, WaitIsSecond, HandIsBehindWait DEF DInv, CInv, IInv
<1>4. ASSUME NEW t \in Services, ~Late(t) PROVE Load(t)'
  <2>1. Load(t) /\ sem[t] \in Nat
    BY <1>3, <1>4 DEF DInv, Loads, Loaded
  <2>2. (Posted(t)' <=> Posted(t)) /\ (Due(cycle, t)' <=> Due(cycle, t))
    BY <1>1, <1>2 DEF Posted, Due
  <2>3. Limit(t)' = Limit(t) /\ Coming(t)' = Coming(t)
    BY <1>1, <1>2, <2>2 DEF Limit, Coming
  <2>4. Limit(t) \in {1, 2} /\ Coming(t) \in {0, 1}
    BY DEF Limit, Coming
  <2>5. CASE t # s
    <3>1. pc'[t] = pc[t] /\ sem'[t] = sem[t]
      BY <1>1, <1>3, <2>5
    <3> QED BY <1>1, <2>1, <2>3, <3>1 DEF Load, Hand
  <2>6. CASE t = s
    <3>1. Hand(s) \in {0, 1} /\ Hand(s)' \in {0, 1} /\ sem'[s] \in Nat /\ sem'[s] <= sem[s]
      BY <1>1, <1>3, <2>1, <2>6 DEF Hand
    <3>2. Hand(s)' + sem'[s] <= Hand(s) + sem[s]
      <4>1. CASE pc[s] = 2
        <5>1. sem'[s] = sem[s] - 1 /\ Hand(s) = 0
          BY <1>1, <1>3, <4>1 DEF Hand
        <5> QED BY <2>1, <2>6, <3>1, <5>1
      <4>2. CASE pc[s] # 2
        <5>1. pc'[s] > 2 => pc[s] > 2
          BY <1>1, <1>3, <4>2
        <5>2. sem'[s] = sem[s]
          BY <1>1, <1>3, <4>2
        <5> QED BY <2>1, <2>6, <5>1, <5>2 DEF Hand
      <4> QED BY <4>1, <4>2
    <3> QED BY <1>1, <2>1, <2>3, <2>4, <2>6, <3>1, <3>2 DEF Load
  <2> QED BY <2>5, <2>6
<1> QED BY <1>1, <1>2, <1>4 DEF Loaded, Late

(* A service ends only by its flag, and main ends after all of them.        *)
LEMMA StepLives == ASSUME DInv, [Next]_vars PROVE Lives'
<1>1. /\ P' = P /\ Services' = Services /\ Lives /\ IInv /\ Cycles
      /\ pc \in [Services -> 0 .. Len(P.loop)] /\ abort \in [Services -> BOOLEAN]
  <2>1. program' = program
    BY DEF Next, Drive, Startup, Tick, Release, Shutdown, Complete, Serve, Check, Wait, Begin,
           Done, NoFrame, vars, seqVars
  <2> QED BY <2>1, SameProgram DEF DInv, Loads, CInv, IInv, Shape
<1>2. SUFFICES ASSUME NEW s \in Services PROVE Alive(s)'
  BY <1>1 DEF Lives
<1>3. Alive(s)
  BY <1>1 DEF Lives
<1>4. CASE Startup
  <2>1. /\ stage = "startup" /\ abort' = abort
        /\ \/ pc' = pc /\ stage' \in {"startup", "exit"}
           \/ pc' = [t \in Services |-> 1] /\ stage' = "sleep"
    BY <1>4 DEF Startup
  <2> QED BY <2>1 DEF Alive
<1>5. CASE Tick \/ Release
  <2>1. pc' = pc /\ abort' = abort /\ stage \in {"sleep", "release"}
        /\ stage' \in {"release", "shutdown", "sleep", "ended"}
    BY <1>5 DEF Tick, Release, AfterReleases
  <2> QED BY <1>3, <2>1 DEF Alive
<1>6. CASE Shutdown
  <2>1. /\ pc' = pc /\ stage = "shutdown" /\ stage' \in {"release", "shutdown", "ended"}
        /\ abort' = [t \in Services |-> abort[t] \/ t \in P.shutdown[k].aborts]
    BY <1>6 DEF Shutdown
  <2>2. abort[s] => abort'[s]
    BY <2>1, Zenon
  <2> QED BY <1>3, <2>1, <2>2 DEF Alive
<1>7. CASE Complete
  <2>1. \A t \in Services : pc[t] = 0
    BY <1>7 DEF Complete
  <2>2. stage = "ended" /\ stage' = "complete" /\ pc' = pc /\ abort' = abort
    BY <1>7 DEF Complete
  <2> QED BY <1>3, <2>1, <2>2 DEF Alive
<1>8. CASE NoFrame
  BY <1>3, <1>8 DEF Alive, NoFrame
<1>9. ASSUME NEW t \in Services, Serve(t) PROVE Alive(s)'
  <2>1. /\ stage' = stage /\ abort' = abort /\ At(t) # "none"
        /\ \/ pc' = [pc EXCEPT ![t] = IF pc[t] = Len(P.loop) THEN 1 ELSE pc[t] + 1]
           \/ abort[t] /\ pc' = [pc EXCEPT ![t] = 0]
    BY <1>9 DEF Serve, Check, Wait, Begin, Done, mainVars, Forward
  <2>2. pc[t] \in Nat /\ pc[t] # 0
    BY <1>1, <2>1 DEF At
  <2>3. \/ pc'[s] = pc[s]
        \/ s = t /\ abort[s]
        \/ s = t /\ pc'[s] # 0 /\ pc[s] # 0
    BY <1>1, <2>1, <2>2
  <2>4. CASE pc'[s] = pc[s]
    BY <1>3, <2>1, <2>4 DEF Alive
  <2>5. CASE s = t /\ pc[s] # 0 /\ (abort[s] \/ pc'[s] # 0)
    BY <1>3, <2>1, <2>5 DEF Alive
  <2> QED BY <2>2, <2>3, <2>4, <2>5
<1>10. CASE UNCHANGED vars
  BY <1>3, <1>10 DEF vars, seqVars, Alive
<1> QED BY <1>4, <1>5, <1>6, <1>7, <1>8, <1>9, <1>10 DEF Next, Drive

(* No step overfills a semaphore.                                           *)
LEMMA StepDInv == ASSUME DInv, [Next]_vars PROVE DInv'
<1>1. CInv' /\ Bounds'
  BY StepCInv, StepBounds DEF DInv
<1>2. CASE Drive
  <2>1. Loaded'
    BY <1>2, StartupLoads, TickLoads, ReleaseLoads, ShutdownLoads, EndLoads DEF Drive
  <2> QED BY <1>1, <2>1, StepLives DEF DInv, Loads
<1>3. CASE UNCHANGED vars
  <2>1. P' = P /\ Services' = Services
    BY <1>3, SameProgram DEF vars, seqVars
  <2>2. UNCHANGED <<punctual, stage, k, cycle, abort, sem, pc>>
    BY <1>3 DEF vars, seqVars
  <2>3. Loaded'
    BY <2>1, <2>2 DEF DInv, Loads, Loaded, Late, Load, Hand, Coming, Limit, Posted, Due
  <2> QED BY <1>1, <2>3, StepLives DEF DInv, Loads
<1>4. CASE NoFrame \/ \E s \in Services : Serve(s)
  <2>1. Loaded'
    BY <1>4, ServeLoads, EndLoads
  <2> QED BY <1>1, <2>1, StepLives DEF DInv, Loads
<1> QED BY <1>2, <1>3, <1>4 DEF Next

(* Every variable of the sequencers keeps its type.                         *)
LEMMA TypesFollow == DInv => TypeOK
<1> SUFFICES ASSUME DInv PROVE TypeOK
  OBVIOUS
<1>1. \A s \in Services : ~Late(s) => sem[s] <= 2
  BY DEF DInv, Loads, Loaded, Load
<1>2. sem \in [Services -> Nat]
  BY DEF DInv, CInv, IInv, Shape
<1>3. cycle \in -1 .. Last
  BY Lengths DEF DInv, Bounds, CInv, Cycles, IInv, Shape
<1> QED BY <1>1, <1>2, <1>3 DEF TypeOK, DInv, CInv, IInv, Shape, Stages, Bounds, Steps, Counted

-----------------------------------------------------------------------------
(* The ring of the programs whose services share frames.                    *)

RingTypes ==
    /\ frames \in Nat /\ count \in Int /\ called \in Nat /\ (~HasRing => count = 0)
    /\ tail \in 0 .. RingSize - 1 /\ head \in 0 .. RingSize - 1

(* Whether main has read its frame, before it creates the threads.          *)
ReadAtStart ==
    stage = "startup" => \E j \in 1 .. Len(P.startup) : j < k /\ P.startup[j] = "read"

FramesCounted ==
    stage # "exit" => frames = work[1] + (IF ReadAtStart THEN 1 ELSE 0)

(* S2 has begun, or will begin before it looks at its flag again.           *)
Pending(s) == pc[s] > 3 \/ (~abort[s] /\ (pc[s] = 3 \/ sem[s] > 0))

(* What S2 takes off the count is there before S2 is released, if the       *)
(* camera is never late.                                                    *)
Supply ==
    /\ count = frames - 5 * work[2]
    /\ punctual => frames >= 5 * work[2]
    /\ punctual /\ Pending(2) => frames >= 5 * (work[2] + 1)

(* While S3 stores, S2 has nothing to do but to end.                        *)
Apart ==
    pc[3] = 5 => \/ pc[2] = 0
                 \/ pc[2] = 2 /\ sem[2] = 0
                 \/ abort[2] /\ pc[2] <= 3

RInv == FramesCounted /\ Supply /\ Apart

FInv == DInv /\ RingTypes /\ (HasRing => RInv)

(* A program with a ring.                                                   *)
LEMMA RingPrograms ==
    ASSUME Shape, HasRing
    PROVE  /\ RingProgram(P) /\ Services = 1 .. 3
           /\ P.rates[1] \in Nat \ {0}
           /\ Len(P.loop) = 5
           /\ \A s \in 1 .. 3 : /\ pc[s] \in 0 .. 5 /\ sem[s] \in Nat
                                /\ At(s) = "check" <=> pc[s] = 1 \/ pc[s] = 3
                                /\ At(s) = "wait" <=> pc[s] = 2
                                /\ At(s) = "begin" <=> pc[s] = 4
                                /\ At(s) = "done" <=> pc[s] = 5
<1>1. RingProgram(P) /\ WellFormed(P)
  BY ProgramsAssumption, RingAssumption DEF Shape, HasRing, P, RingAssumption
<1>2. Services = 1 .. 3
  BY <1>1 DEF RingProgram, WellFormed, Services
<1>3. P.rates[1] \in Nat \ {0}
  BY <1>1, <1>2 DEF RingProgram, WellFormed, Services
<1>4. P.loop = <<"check", "wait", "check", "begin", "done">> /\ Len(P.loop) = 5
  BY <1>1 DEF RingProgram
<1>5. ASSUME NEW s \in 1 .. 3
      PROVE  /\ pc[s] \in 0 .. 5 /\ sem[s] \in Nat
             /\ At(s) = "check" <=> pc[s] = 1 \/ pc[s] = 3
             /\ At(s) = "wait" <=> pc[s] = 2
             /\ At(s) = "begin" <=> pc[s] = 4
             /\ At(s) = "done" <=> pc[s] = 5
  <2>1. pc[s] \in 0 .. 5 /\ sem[s] \in Nat
    BY <1>2, <1>4 DEF Shape
  <2>2. pc[s] = 0 \/ pc[s] = 1 \/ pc[s] = 2 \/ pc[s] = 3 \/ pc[s] = 4 \/ pc[s] = 5
    BY <2>1
  <2> QED BY <1>4, <2>1, <2>2 DEF At
<1> QED BY <1>1, <1>2, <1>3, <1>4, <1>5

(* A service has been posted for the shutdown only with its flag set.       *)
LEMMA FlagBeforePost ==
    ASSUME IInv, HasRing, NEW s \in Services, Posted(s)
    PROVE  abort[s]
<1>1. CASE stage = "ended"
  BY <1>1 DEF IInv, Flags
<1>2. CASE stage = "release"
  BY <1>2 DEF Posted
<1>3. CASE stage = "shutdown"
  <2>1. RingProgram(P) /\ WellFormed(P)
    BY RingPrograms, WaitIsSecond DEF IInv
  <2>2. k \in 1 .. Len(P.shutdown) /\ DOMAIN P.shutdown = 1 .. Len(P.shutdown) /\ Len(P.shutdown) \in Nat
    BY <1>3, <2>1 DEF IInv, Shape, WellFormed
  <2>3. PICK j \in 1 .. Len(P.shutdown) : j < k /\ s \in P.shutdown[j].posts
    BY <1>3 DEF Posted
  <2>4. PICK i \in 1 .. j : s \in P.shutdown[i].aborts
    BY <2>1, <2>2, <2>3 DEF RingProgram
  <2>5. i \in 1 .. Len(P.shutdown) /\ i < k
    BY <2>2, <2>3, <2>4
  <2> QED BY <1>3, <2>4, <2>5 DEF IInv, Flags
<1> QED BY <1>1, <1>2, <1>3 DEF Posted

(* Until its flag is set, a service has one release at most to serve.       *)
LEMMA OneRelease ==
    ASSUME DInv, HasRing, NEW s \in 1 .. 3, punctual \/ s # 1,
           ~abort[s], stage \notin {"complete", "exit"}
    PROVE  /\ Hand(s) + sem[s] + Coming(s) <= 1
           /\ Hand(s) \in {0, 1} /\ sem[s] \in Nat /\ Coming(s) \in {0, 1}
           /\ StillDue(s) <= Coming(s) /\ StillDue(s) \in {0, 1}
<1>1. Services = 1 .. 3 /\ sem[s] \in Nat /\ P.blocking = {1}
  BY RingPrograms DEF DInv, CInv, IInv, RingProgram
<1>2. ~Posted(s)
  BY <1>1, FlagBeforePost DEF DInv, CInv
<1>3. Hand(s) + sem[s] + Coming(s) <= 1
  <2>1. ~Late(s)
    BY <1>1 DEF Late
  <2>2. Load(s)
    BY <1>1, <2>1 DEF DInv, Loads, Loaded
  <2> QED BY <1>2, <2>2 DEF Load, Limit
<1> QED BY <1>1, <1>3 DEF Hand, Coming, StillDue

(* On the core a service runs only when the more urgent one cannot.         *)
LEMMA LessUrgentWaits ==
    ASSUME Shape, HasRing
    PROVE  /\ MayRun(2) => MayBlock(1) \/ pc[1] = 0 \/ (pc[1] = 2 /\ sem[1] = 0)
           /\ MayRun(3) => pc[2] = 0 \/ (pc[2] = 2 /\ sem[2] = 0)
<1>1. RingProgram(P) /\ Services = 1 .. 3
  BY RingPrograms
<1>2. Pinned(2) /\ Pinned(3)
  BY <1>1 DEF RingProgram, Pinned
<1>3. MayRun(2) => ~Runs(1)
  <2>1. P.cores[1] = P.cores[2] /\ P.priority[1] < P.priority[2]
    BY <1>1 DEF RingProgram
  <2>2. Runs(1) => 1 \in Ahead(2)
    BY <1>1, <2>1 DEF Ahead
  <2> QED BY <1>2, <2>2 DEF MayRun
<1>4. MayRun(3) => ~Runs(2)
  <2>1. P.cores[2] = P.cores[3] /\ P.priority[2] < P.priority[3]
    BY <1>1 DEF RingProgram
  <2>2. Runs(2) => 2 \in Ahead(3)
    BY <1>1, <2>1 DEF Ahead
  <2> QED BY <1>2, <2>2 DEF MayRun
<1>5. ~MayBlock(2)
  BY <1>1 DEF MayBlock, Late, RingProgram
<1>6. \A s \in {1, 2} : ~Ready(s) => pc[s] = 0 \/ (pc[s] = 2 /\ sem[s] = 0)
  BY RingPrograms DEF Ready
<1> QED BY <1>3, <1>4, <1>5, <1>6 DEF Runs

(* The two slower services are due together.                                *)
LEMMA DueTogether ==
    ASSUME Shape, HasRing
    PROVE  /\ P.rates[2] = 5 * P.rates[1] /\ P.rates[3] = 5 * P.rates[1]
           /\ Due(cycle, 2) <=> Due(cycle, 3)
           /\ \A s \in 1 .. 3 : P.rates[s] \in Nat \ {0}
<1>1. RingProgram(P) /\ P.rates[1] \in Nat \ {0}
  BY RingPrograms
<1>2. P.rates[2] = 5 * P.rates[1] /\ P.rates[3] = 5 * P.rates[1]
  BY <1>1 DEF RingProgram
<1> QED BY <1>1, <1>2 DEF Due

(* No whole period fits into no cycles.                                     *)
LEMMA ZeroQuotient == ASSUME NEW r \in Nat \ {0} PROVE 0 \div r = 0
<1>1. r * 0 <= 0 /\ 0 < r * 0 + r
  OBVIOUS
<1> QED BY <1>1, OneQuotient

(* S1 of a camera that is never late has read five frames for each release  *)
(* of S2 but the last, the one main has read among them.                    *)
LEMMA FiveFramesForEach ==
    ASSUME DInv, HasRing, punctual, RInv, Release, Due(cycle, 2), k = 2, ~abort[2]
    PROVE  frames >= 5 * (work[2] + 1)
<1> DEFINE r == P.rates[1]
           n == cycle \div (5 * r)
<1>1. /\ Shape /\ IInv /\ Services = 1 .. 3 /\ RingProgram(P) /\ r \in Nat \ {0}
      /\ stage = "release" /\ cycle \in Int /\ cycle >= 0
  BY RingPrograms DEF DInv, CInv, IInv, Release, Cycles, RingProgram
<1>2. \A s \in Services : ~abort[s]
  BY <1>1 DEF IInv, Flags
<1>3. Tally(1) /\ Tally(2)
  BY <1>1, <1>2 DEF DInv, CInv, Counted, Serving
<1>4. Coming(2) = 1 /\ StillDue(1) = 0 /\ StillDue(2) = 1
  BY <1>1 DEF Coming, StillDue
<1>5. Hand(2) = 0 /\ sem[2] = 0 /\ Hand(1) + sem[1] <= 1 /\ sem[1] \in Nat /\ Hand(1) \in {0, 1}
  BY <1>1, <1>2, <1>4, OneRelease
<1>6. InHand(1) = Hand(1) /\ InHand(2) = Hand(2)
  BY <1>1, HandIsBehindWait DEF Hand
<1>7. Released(2) = n
  <2>1. P.rates[2] = 5 * r /\ P.rates[2] # 0 /\ P.first - 1 = 0
    BY <1>1, DueTogether DEF RingProgram
  <2>2. 0 \div (5 * r) = 0 /\ n \in Int
    <3>1. 5 * r \in Nat \ {0}
      BY <1>1
    <3>2. n \in Int
      BY <1>1, <3>1, Quotient
    <3> QED BY <3>1, <3>2, ZeroQuotient
  <2> QED BY <2>1, <2>2 DEF Released
<1>8. Released(1) = 5 * n
  <2>1. r # 0 /\ P.first - 1 = 0
    BY <1>1 DEF RingProgram
  <2>2. cycle = (5 * r) * n /\ n \in Int
    <3>1. 5 * r \in Nat \ {0} /\ cycle % (5 * r) = 0
      BY <1>1, DueTogether DEF Due
    <3>2. n \in Int /\ cycle % (5 * r) = cycle - (5 * r) * n
      BY <1>1, <3>1, Quotient
    <3> HIDE DEF n
    <3>3. (5 * r) * n \in Int
      BY <3>1, <3>2
    <3> QED BY <1>1, <3>1, <3>2, <3>3
  <2> HIDE DEF n
  <2>3. cycle \div r = 5 * n
    <3>1. cycle = r * (5 * n)
      <4>1. (5 * r) * n = r * (5 * n)
        BY <1>1, <2>2
      <4> QED BY <2>2, <4>1
    <3>2. 5 * n \in Int /\ r * (5 * n) <= cycle /\ cycle < r * (5 * n) + r
      BY <1>1, <2>2, <3>1
    <3> QED BY <1>1, <3>2, OneQuotient
  <2>4. 0 \div r = 0
    BY <1>1, ZeroQuotient
  <2> QED BY <2>1, <2>2, <2>3, <2>4 DEF Released
<1>9. work[1] \in Nat /\ work[2] \in Nat
  BY <1>1 DEF DInv, CInv, Counted
<1>10. n = work[2] + 1
  <2> HIDE DEF n
  <2>1. n - 1 = work[2] + 0 + 0
    BY <1>3, <1>4, <1>5, <1>6, <1>7 DEF Tally
  <2>2. n \in Int
    BY <1>7, <1>1, WholeReleases DEF DInv
  <2> QED BY <1>9, <2>1, <2>2
<1>11. work[1] >= 5 * n - 1
  <2> HIDE DEF n
  <2>1. 5 * n - 0 = work[1] + Hand(1) + sem[1]
    BY <1>3, <1>4, <1>6, <1>8 DEF Tally
  <2> QED BY <1>5, <1>9, <1>10, <2>1
<1>12. frames = work[1] + 1
  BY <1>1 DEF RInv, FramesCounted, ReadAtStart
<1> HIDE DEF n
<1> QED BY <1>9, <1>10, <1>11, <1>12

(* Which steps move frames.                                                 *)
LEMMA RingMoves ==
    /\ Startup /\ Drive => \/ SeqFrameRead /\ HasRing /\ P.startup[k] = "read" /\ stage' = stage
                           \/ UNCHANGED ringVars /\ (HasRing => P.startup[k] # "read" \/ stage' # stage)
    /\ Drive /\ ~Startup => UNCHANGED ringVars
    /\ NoFrame => UNCHANGED ringVars
<1>1. Drive /\ ~Startup => stage # "startup"
  BY DEF Drive, Tick, Release, Shutdown, Complete
<1> QED BY <1>1 DEF Drive, NoFrame, Startup

(* The frame is read after the threads were not yet created.                *)
LEMMA DriveKeepsFrames ==
    ASSUME FInv, HasRing, Drive
    PROVE  FramesCounted' /\ (count = frames - 5 * work[2] => count' = frames' - 5 * work'[2])
           /\ frames' >= frames /\ work' = work
<1>1. work' = work /\ program' = program /\ frames \in Nat /\ count \in Int
  BY DEF Drive, Startup, Tick, Release, Shutdown, Complete, FInv, RingTypes
<1>2. P' = P
  BY <1>1 DEF P
<1>3. /\ Shape /\ RingProgram(P) /\ k \in Nat
      /\ work[1] \in Nat /\ work[2] \in Nat
  BY RingPrograms DEF FInv, DInv, CInv, IInv, Counted, Shape
<1>4. CASE ~Startup
  <2>1. UNCHANGED ringVars /\ stage # "startup" /\ stage' # "startup" /\ stage # "exit"
    BY <1>4, RingMoves DEF Drive, Tick, Release, AfterReleases, Shutdown, Complete
  <2> QED BY <1>1, <2>1 DEF ringVars, FramesCounted, ReadAtStart, FInv, RInv
<1>5. CASE Startup
  <2>1. /\ stage = "startup" /\ FramesCounted
        /\ k \in 1 .. Len(P.startup) /\ Len(P.startup) \in Nat
        /\ \/ stage' = "sleep" /\ P.startup[k] = "create"
           \/ stage' = "startup" /\ k' = k + 1 /\ P.startup[k] # "create"
           \/ stage' = "exit"
    BY <1>3, <1>5, Lengths DEF Startup, FInv, RInv, DInv, Bounds, Shape
  <2> DEFINE Read(n) == \E j \in 1 .. Len(P.startup) : j < n /\ P.startup[j] = "read"
  <2>2. Read(k + 1) <=> Read(k) \/ P.startup[k] = "read"
    <3>1. \A j \in 1 .. Len(P.startup) : j < k + 1 <=> j < k \/ j = k
      BY <1>3
    <3> QED BY <2>1, <3>1
  <2>3. ReadAtStart <=> Read(k)
    BY <2>1 DEF ReadAtStart
  <2>4. P.startup[k] = "read" => ~Read(k)
    BY <1>3, <2>1 DEF RingProgram
  <2>5. P.startup[k] = "create" => Read(k)
    <3>1. PICK i \in 1 .. Len(P.startup) : P.startup[i] = "read"
      BY <1>3 DEF RingProgram
    <3>2. P.startup[k] = "create" => k = Len(P.startup)
      BY <1>3, <2>1, Lengths DEF Shape
    <3> QED BY <2>1, <3>1, <3>2
  <2> HIDE DEF Read
  <2>6. CASE SeqFrameRead /\ P.startup[k] = "read" /\ stage' = stage
    <3>1. ReadAtStart' <=> Read(k + 1)
      BY <1>2, <2>1, <2>6 DEF ReadAtStart, Read
    <3> QED BY <1>1, <1>3, <2>1, <2>2, <2>3, <2>4, <2>6, <3>1 DEF SeqFrameRead, FramesCounted
  <2>7. CASE UNCHANGED ringVars /\ (P.startup[k] # "read" \/ stage' # stage)
    <3>1. stage' # "exit" => (ReadAtStart' <=> ReadAtStart)
      <4>1. CASE stage' = "sleep"
        BY <2>1, <2>3, <2>5, <4>1 DEF ReadAtStart
      <4>2. CASE stage' = "startup"
        <5>1. ReadAtStart' <=> Read(k + 1)
          BY <1>2, <2>1, <4>2 DEF ReadAtStart, Read
        <5> QED BY <2>1, <2>2, <2>3, <2>7, <4>2, <5>1
      <4> QED BY <2>1, <4>1, <4>2
    <3> QED BY <1>1, <1>3, <2>1, <2>7, <3>1 DEF ringVars, FramesCounted
  <2> QED BY <1>5, <2>6, <2>7, RingMoves
<1> QED BY <1>4, <1>5

(* The shutdown has set the flag of the service it posts.                   *)
LEMMA PostIsFlagged ==
    ASSUME IInv, HasRing, Shutdown, NEW s \in Services, s \in P.shutdown[k].posts
    PROVE  abort'[s]
<1>1. /\ stage = "shutdown" /\ RingProgram(P) /\ Shape
      /\ abort' = [t \in Services |-> abort[t] \/ t \in P.shutdown[k].aborts]
  BY RingPrograms DEF Shutdown, IInv
<1>2. k \in DOMAIN P.shutdown /\ k \in 1 .. Len(P.shutdown)
  BY <1>1, WaitIsSecond DEF Shape, WellFormed
<1>3. PICK j \in 1 .. k : s \in P.shutdown[j].aborts
  BY <1>1, <1>2 DEF RingProgram
<1>4. j \in 1 .. Len(P.shutdown) /\ (j < k \/ j = k)
  BY <1>2
<1>5. j < k => abort[s]
  BY <1>1, <1>3, <1>4 DEF IInv, Flags
<1>6. abort[s] => abort'[s]
  BY <1>1, Zenon
<1>7. j = k => abort'[s]
  BY <1>1, <1>3, Zenon
<1> QED BY <1>4, <1>5, <1>6, <1>7

(* A post finds S3 at rest, or S2 about to end, and S2 its five frames.     *)
LEMMA DriveRInv == ASSUME FInv, HasRing, Drive PROVE RInv'
<1>1. /\ FramesCounted' /\ count' = frames' - 5 * work'[2]
      /\ frames' >= frames /\ work' = work
  BY DriveKeepsFrames DEF FInv, RInv, Supply
<1>9. DInv /\ Shape /\ frames \in Nat /\ Supply /\ Apart /\ RInv
  BY DEF FInv, DInv, CInv, IInv, RingTypes, RInv
<1>10. RingProgram(P) /\ Services = 1 .. 3 /\ \A s \in 1 .. 3 : pc[s] \in 0 .. 5 /\ sem[s] \in Nat
  BY <1>9, RingPrograms
<1>2. /\ DInv /\ Shape /\ RingProgram(P) /\ Services = 1 .. 3 /\ 2 \in Services
      /\ frames \in Nat /\ work[2] \in Nat /\ work[1] \in Nat /\ sem \in [Services -> Nat]
      /\ Supply /\ Apart /\ RInv
      /\ pc[2] \in 0 .. 5 /\ pc[3] \in 0 .. 5 /\ sem[2] \in Nat
  BY <1>9, <1>10 DEF DInv, CInv, Counted, Shape
<1>3. frames' \in Nat
  BY RingMoves, <1>2 DEF Drive, SeqFrameRead, ringVars
<1>11. punctual' = punctual
  BY DEF Drive, Startup, Tick, Release, Shutdown, Complete
<1>4. SUFFICES /\ punctual /\ Pending(2)' => frames' >= 5 * (work[2] + 1)
               /\ Apart'
  BY <1>1, <1>2, <1>3, <1>11 DEF RInv, Supply
<1>5. CASE Startup
  <2>1. (pc' = pc \/ pc' = [s \in Services |-> 1]) /\ sem' = sem /\ abort' = abort
        /\ pc[2] = 0 /\ pc[3] = 0
    BY <1>2, <1>5 DEF Startup, DInv, CInv, Cycles
  <2>2. pc'[2] \in {0, 1} /\ pc'[3] \in {0, 1}
    BY <1>2, <2>1
  <2>3. Pending(2)' => Pending(2)
    BY <2>1, <2>2 DEF Pending
  <2> QED BY <1>1, <1>2, <1>3, <2>2, <2>3 DEF Supply, Apart
<1>6. CASE Tick \/ Complete
  <2>1. pc' = pc /\ sem' = sem /\ abort' = abort
    BY <1>6 DEF Tick, Complete
  <2> QED BY <1>1, <1>2, <1>3, <2>1 DEF Supply, Apart, Pending
<1>7. CASE Release
  <2>1. /\ pc' = pc /\ abort' = abort /\ stage = "release"
        /\ sem' = IF Due(cycle, k) THEN [sem EXCEPT ![k] = sem[k] + 1] ELSE sem
    BY <1>7 DEF Release
  <2>2. CASE k = 2 /\ Due(cycle, 2)
    <3>1. punctual /\ ~abort[2] => frames >= 5 * (work[2] + 1)
      BY <1>2, <1>7, <2>2, FiveFramesForEach
    <3>2. Pending(2)' => ~abort[2] \/ Pending(2)
      BY <2>1 DEF Pending
    <3>3. abort[2] \/ pc[3] # 5
      <4> SUFFICES ASSUME ~abort[2], pc[3] = 5 PROVE FALSE
        OBVIOUS
      <4>1. ~abort[3]
        BY <1>2, <2>1 DEF DInv, CInv, IInv, Flags
      <4>2. Coming(3) = 1
        BY <1>2, <2>1, <2>2, DueTogether DEF Coming
      <4> QED BY <1>2, <2>1, <4>1, <4>2, OneRelease DEF Hand
    <3> QED BY <1>1, <1>2, <1>3, <2>1, <3>1, <3>2, <3>3 DEF Supply, Apart
  <2>3. CASE ~(k = 2 /\ Due(cycle, 2))
    <3>1. sem'[2] = sem[2]
      BY <1>2, <2>1, <2>3
    <3> QED BY <1>1, <1>2, <1>3, <2>1, <3>1 DEF Supply, Apart, Pending
  <2> QED BY <2>2, <2>3
<1>8. CASE Shutdown
  <2>1. /\ pc' = pc /\ stage = "shutdown" /\ Services' = Services
        /\ sem' = [s \in Services |-> IF s \in P.shutdown[k].posts THEN sem[s] + 1 ELSE sem[s]]
        /\ abort' = [s \in Services |-> abort[s] \/ s \in P.shutdown[k].aborts]
    BY <1>8, SameProgram DEF Shutdown
  <2>2. abort[2] => abort'[2]
    BY <1>2, <2>1, Zenon
  <2>3. CASE 2 \in P.shutdown[k].posts
    <3>1. abort'[2]
      BY <1>2, <1>8, <2>3, PostIsFlagged DEF DInv, CInv
    <3>2. sem'[2] = sem[2] + 1
      BY <1>2, <2>1, <2>3
    <3>3. Pending(2)' => Pending(2)
      BY <2>1, <3>1 DEF Pending
    <3> QED BY <1>1, <1>2, <1>3, <2>1, <3>1, <3>3 DEF Supply, Apart
  <2>4. CASE 2 \notin P.shutdown[k].posts
    <3>1. sem'[2] = sem[2]
      BY <1>2, <2>1, <2>4
    <3>2. Pending(2)' => Pending(2)
      BY <2>1, <2>2, <3>1 DEF Pending
    <3> QED BY <1>1, <1>2, <1>3, <2>1, <2>2, <3>1, <3>2 DEF Supply, Apart
  <2> QED BY <2>3, <2>4
<1> QED BY <1>5, <1>6, <1>7, <1>8 DEF Drive

(* What a step of one service changes.                                      *)
LEMMA ServeMoves ==
    ASSUME Shape, HasRing, NEW s \in 1 .. 3, Serve(s)
    PROVE  /\ UNCHANGED <<program, punctual, stage, k, cycle, abort>>
           /\ stage # "exit" /\ MayRun(s)
           /\ \A t \in 1 .. 3 : t # s => pc'[t] = pc[t] /\ sem'[t] = sem[t] /\ work'[t] = work[t]
           /\ \/ /\ Check(s) /\ UNCHANGED ringVars /\ work' = work /\ sem' = sem
                 /\ pc[s] \in {1, 3} /\ pc'[s] = IF abort[s] THEN 0 ELSE pc[s] + 1
              \/ /\ Wait(s) /\ UNCHANGED ringVars /\ work' = work /\ sem[s] > 0
                 /\ pc[s] = 2 /\ pc'[s] = 3 /\ sem'[s] = sem[s] - 1
              \/ /\ Begin(s) /\ RingBegin(s) /\ work' = work /\ sem' = sem
                 /\ pc[s] = 4 /\ pc'[s] = 5
              \/ /\ Done(s, AsksForShutdown(s)) /\ RingDone(s) /\ sem' = sem
                 /\ pc[s] = 5 /\ pc'[s] = 1 /\ work' = [work EXCEPT ![s] = work[s] + 1]
<1>9. Services = 1 .. 3 /\ Len(P.loop) = 5
  BY RingPrograms
<1>10. WorkHasLength
  BY <1>9, HandIsBehindWait
<1>1. /\ Services = 1 .. 3 /\ Len(P.loop) = 5 /\ WorkHasLength
      /\ pc[s] \in 0 .. 5
      /\ At(s) = "check" <=> pc[s] = 1 \/ pc[s] = 3
      /\ At(s) = "wait" <=> pc[s] = 2
      /\ At(s) = "begin" <=> pc[s] = 4
      /\ At(s) = "done" <=> pc[s] = 5
  BY <1>9, <1>10, RingPrograms
<1>2. pc \in [1 .. 3 -> 0 .. 5] /\ sem \in [1 .. 3 -> Nat]
  BY <1>1 DEF Shape
<1>8. UNCHANGED <<program, punctual, stage, k, cycle, abort>> /\ MayRun(s)
  BY DEF Serve, Check, Wait, Begin, Done, mainVars
<1>3. /\ UNCHANGED <<program, punctual, stage, k, cycle, abort>>
      /\ stage # "exit" /\ MayRun(s)
  BY <1>8 DEF MayRun
<1>4. CASE Check(s) /\ UNCHANGED ringVars
  <2>1. /\ pc[s] \in {1, 3} /\ sem' = sem /\ work' = work
        /\ pc' = IF abort[s] THEN [pc EXCEPT ![s] = 0]
                 ELSE [pc EXCEPT ![s] = IF pc[s] = Len(P.loop) THEN 1 ELSE pc[s] + 1]
    BY <1>1, <1>4 DEF Check, Forward
  <2>2. /\ pc'[s] = IF abort[s] THEN 0 ELSE pc[s] + 1
        /\ \A t \in 1 .. 3 : t # s => pc'[t] = pc[t]
    BY <1>1, <1>2, <2>1
  <2> QED BY <1>3, <1>4, <2>1, <2>2
<1>5. CASE Wait(s) /\ UNCHANGED ringVars
  <2>1. /\ pc[s] = 2 /\ sem' = [sem EXCEPT ![s] = sem[s] - 1] /\ work' = work /\ sem[s] > 0
        /\ pc' = [pc EXCEPT ![s] = IF pc[s] = Len(P.loop) THEN 1 ELSE pc[s] + 1]
    BY <1>1, <1>5 DEF Wait, Forward
  <2>2. /\ pc'[s] = 3 /\ sem'[s] = sem[s] - 1
        /\ \A t \in 1 .. 3 : t # s => pc'[t] = pc[t] /\ sem'[t] = sem[t]
    BY <1>1, <1>2, <2>1
  <2> QED BY <1>3, <1>5, <2>1, <2>2
<1>6. CASE Begin(s) /\ RingBegin(s)
  <2>1. /\ pc[s] = 4 /\ sem' = sem /\ work' = work
        /\ pc' = [pc EXCEPT ![s] = IF pc[s] = Len(P.loop) THEN 1 ELSE pc[s] + 1]
    BY <1>1, <1>6 DEF Begin, Forward
  <2>2. /\ pc'[s] = 5
        /\ \A t \in 1 .. 3 : t # s => pc'[t] = pc[t]
    BY <1>1, <1>2, <2>1
  <2> QED BY <1>3, <1>6, <2>1, <2>2
<1>7. CASE Done(s, AsksForShutdown(s)) /\ RingDone(s)
  <2>1. /\ pc[s] = 5 /\ sem' = sem /\ work' = [work EXCEPT ![s] = work[s] + 1]
        /\ pc' = [pc EXCEPT ![s] = IF pc[s] = Len(P.loop) THEN 1 ELSE pc[s] + 1]
    BY <1>1, <1>7 DEF Done, Forward
  <2>2. /\ pc'[s] = 1
        /\ \A t \in 1 .. 3 : t # s => pc'[t] = pc[t]
    BY <1>1, <1>2, <2>1
  <2>3. \A t \in 1 .. 3 : t # s => work'[t] = work[t]
    BY <2>1
  <2> QED BY <1>3, <1>7, <2>1, <2>2, <2>3
<1> QED BY <1>4, <1>5, <1>6, <1>7 DEF Serve

(* S2 has its five frames, and S3 begins when S2 is at rest.                *)
LEMMA ServeRInv ==
    ASSUME FInv, HasRing, NEW s \in Services, Serve(s)
    PROVE  RInv'
<1>1. /\ DInv /\ Shape /\ frames \in Nat /\ FramesCounted /\ Supply /\ Apart
      /\ Services = 1 .. 3 /\ work \in [1 .. 3 -> Nat]
      /\ \A t \in 1 .. 3 : pc[t] \in 0 .. 5 /\ sem[t] \in Nat
  BY RingPrograms DEF FInv, DInv, CInv, IInv, RingTypes, RInv, Counted
<1>2. s = 1 \/ s = 2 \/ s = 3
  BY <1>1
<1>3. /\ UNCHANGED <<program, punctual, stage, k, abort>> /\ stage # "exit" /\ P' = P
      /\ (ReadAtStart' <=> ReadAtStart)
  BY <1>1, ServeMoves, SameProgram DEF ReadAtStart
<1>4. CASE s = 1
  <2>1. /\ UNCHANGED <<pc[2], pc[3], sem[2], work[2]>>
        /\ \/ UNCHANGED ringVars /\ work' = work
           \/ RingDone(1) /\ work' = [work EXCEPT ![1] = work[1] + 1]
    BY <1>1, <1>4, ServeMoves DEF RingBegin
  <2>2. \/ frames' = frames /\ count' = count /\ work'[1] = work[1]
        \/ frames' = frames + 1 /\ count' = count + 1 /\ work'[1] = work[1] + 1
    BY <1>1, <2>1 DEF ringVars, RingDone, SeqFrameRead
  <2>3. work[1] \in Nat /\ work[2] \in Nat
    BY <1>1
  <2>4. FramesCounted'
    BY <1>1, <1>3, <2>2, <2>3 DEF FramesCounted
  <2>5. Supply' /\ Apart'
    BY <1>1, <1>3, <2>1, <2>2, <2>3 DEF Supply, Pending, Apart
  <2> QED BY <2>4, <2>5 DEF RInv
<1>5. CASE s = 3
  <2>1. /\ UNCHANGED <<pc[2], sem[2], work[1], work[2]>> /\ MayRun(3)
        /\ pc'[3] = 5 => pc[3] = 4
    BY <1>1, <1>5, ServeMoves
  <2>2. frames' = frames /\ count' = count
    BY <1>1, <1>5, ServeMoves DEF RingBegin, RingDone, ringVars, SeqFrameStore
  <2>3. pc[2] = 0 \/ (pc[2] = 2 /\ sem[2] = 0)
    BY <1>1, <2>1, LessUrgentWaits
  <2> QED BY <1>1, <1>3, <2>1, <2>2, <2>3 DEF RInv, FramesCounted, Supply, Pending, Apart
<1>6. CASE s = 2
  <2>1. UNCHANGED <<pc[3], work[1]>> /\ work[2] \in Nat /\ work[1] \in Nat
    BY <1>1, <1>6, ServeMoves
  <2>2. CASE /\ Check(2) /\ UNCHANGED ringVars /\ work' = work /\ sem' = sem
             /\ pc[2] \in {1, 3} /\ pc'[2] = IF abort[2] THEN 0 ELSE pc[2] + 1
    BY <1>1, <1>3, <2>1, <2>2 DEF RInv, FramesCounted, Supply, Pending, Apart, ringVars
  <2>3. CASE /\ Wait(2) /\ UNCHANGED ringVars /\ work' = work /\ sem[2] > 0
             /\ pc[2] = 2 /\ pc'[2] = 3 /\ sem'[2] = sem[2] - 1
    BY <1>1, <1>3, <2>1, <2>3 DEF RInv, FramesCounted, Supply, Pending, Apart, ringVars
  <2>4. CASE /\ Begin(2) /\ RingBegin(2) /\ work' = work /\ sem' = sem
             /\ pc[2] = 4 /\ pc'[2] = 5
    <3>1. frames' = frames /\ count' = count
      BY <2>4 DEF RingBegin, SeqFrameProcess
    <3> QED BY <1>1, <1>3, <2>1, <2>4, <3>1 DEF RInv, FramesCounted, Supply, Pending, Apart
  <2>5. CASE /\ Done(2, AsksForShutdown(2)) /\ RingDone(2) /\ sem' = sem
             /\ pc[2] = 5 /\ pc'[2] = 1 /\ work' = [work EXCEPT ![2] = work[2] + 1]
    <3>1. frames' = frames /\ count' = count - 5 /\ work'[2] = work[2] + 1
      BY <1>1, <2>5 DEF RingDone, SeqFrameProcessed
    <3>2. FramesCounted' /\ pc[3] # 5
      BY <1>1, <1>3, <2>1, <2>5, <3>1 DEF FramesCounted, Apart
    <3>3. ~abort[2] => sem[2] = 0
      <4>1. stage \notin {"complete", "exit"}
        BY <1>1, <1>3, <2>5 DEF DInv, Loads, Lives, Alive
      <4> QED BY <1>1, <2>5, <4>1, OneRelease DEF Hand
    <3>4. ~Pending(2)'
      BY <1>1, <1>3, <2>5, <3>3 DEF Pending
    <3>5. punctual => frames >= 5 * (work[2] + 1)
      BY <1>1, <2>5 DEF Supply, Pending
    <3>6. Supply'
      BY <1>1, <1>3, <2>1, <3>1, <3>4, <3>5 DEF Supply
    <3> QED BY <2>1, <3>2, <3>6 DEF RInv, Apart
  <2> QED BY <1>1, <1>6, ServeMoves, <2>2, <2>3, <2>4, <2>5
<1> QED BY <1>2, <1>4, <1>5, <1>6

(* Where there is no ring nothing is ever counted.                          *)
LEMMA StepTypes == ASSUME FInv, [Next]_vars PROVE RingTypes'
<1>1. frames \in Nat /\ count \in Int /\ called \in Nat /\ tail \in 0 .. 2 /\ head \in 0 .. 2
  BY DEF FInv, RingTypes, RingSize
<1>7. HasRing => Services = 1 .. 3
  BY RingPrograms DEF FInv, DInv, CInv, IInv
<1>8. ASSUME NEW s \in Services, Serve(s)
      PROVE  /\ \/ UNCHANGED ringVars
                \/ SeqFrameRead \/ SeqFrameProcess \/ SeqFrameProcessed \/ SeqFrameStore
             /\ ~HasRing => UNCHANGED ringVars
  <2>1. HasRing => s = 1 \/ s = 2 \/ s = 3
    BY <1>7
  <2> QED BY <1>8, <2>1 DEF Serve, RingBegin, RingDone
<1>9. Drive \/ NoFrame \/ UNCHANGED vars =>
         (UNCHANGED ringVars \/ SeqFrameRead) /\ (~HasRing => UNCHANGED ringVars)
  BY DEF Drive, NoFrame, vars
<1>2. UNCHANGED ringVars \/ SeqFrameRead \/ SeqFrameProcess \/ SeqFrameProcessed \/ SeqFrameStore
  BY <1>8, <1>9 DEF Next
<1>3. ~HasRing => UNCHANGED ringVars
  BY <1>8, <1>9 DEF Next
<1>4. /\ frames' = frames \/ frames' = frames + 1
      /\ tail' = tail \/ tail' = (tail + 1) % 3
      /\ head' = head \/ head' = (head + 2) % 3 \/ head' = (head + 3) % 3
  BY <1>2 DEF ringVars, SeqFrameRead, SeqFrameProcess, SeqFrameProcessed, SeqFrameStore, RingSize
<1>5. frames' \in Nat /\ tail' \in 0 .. 2 /\ head' \in 0 .. 2
  BY <1>1, <1>4
<1>6. count' \in Int /\ (~HasRing' => count' = 0)
  <2>1. HasRing' <=> HasRing
    <3>1. program' = program
      BY DEF Next, Drive, Startup, Tick, Release, Shutdown, Complete, Serve, Check, Wait, Begin,
             Done, NoFrame, vars, seqVars
    <3> QED BY <3>1, SameProgram DEF HasRing
  <2>2. \/ count' = count \/ count' = count + 1 \/ count' = count - 5
    BY <1>2 DEF ringVars, SeqFrameRead, SeqFrameProcess, SeqFrameProcessed, SeqFrameStore
  <2>3. ~HasRing => count' = count
    BY <1>3 DEF ringVars
  <2> QED BY <1>1, <2>1, <2>2, <2>3 DEF FInv, RingTypes
<1>10. called' \in Nat
  <2>1. called' = called \/ called' = 0 \/ (HasRing /\ called' = cycle)
    BY DEF Next, Drive, Serve, NoFrame, vars
  <2>2. HasRing => cycle \in Nat
    <3>1. cycle \in Int /\ cycle >= P.first - 1
      BY DEF FInv, DInv, CInv, Cycles
    <3>2. HasRing => P.first = 1
      BY RingPrograms DEF FInv, DInv, CInv, IInv, RingProgram
    <3> QED BY <3>1, <3>2
  <2> QED BY <1>1, <2>1, <2>2
<1> QED BY <1>5, <1>6, <1>10 DEF RingTypes, RingSize

(* No step takes frames off the ring that it does not hold, if the camera   *)
(* is never late.                                                           *)
LEMMA StepFInv == ASSUME FInv, [Next]_vars PROVE FInv'
<1>1. DInv'
  BY StepDInv DEF FInv
<1>2. program' = program
  BY DEF Next, Drive, Startup, Tick, Release, Shutdown, Complete, Serve, Check, Wait, Begin,
         Done, NoFrame, vars, seqVars
<1>3. P' = P /\ Services' = Services /\ (HasRing' <=> HasRing)
  BY <1>2, SameProgram DEF HasRing
<1>4. HasRing => RInv'
  <2> SUFFICES ASSUME HasRing PROVE RInv'
    OBVIOUS
  <2>1. CASE NoFrame \/ UNCHANGED vars
    <3>1. /\ UNCHANGED <<punctual, k, sem, abort, pc, work>> /\ UNCHANGED ringVars
          /\ stage' = stage \/ stage' = "exit"
      BY <2>1 DEF NoFrame, vars, seqVars
    <3> QED BY <1>3, <3>1 DEF FInv, RInv, FramesCounted, ReadAtStart, Supply, Pending, Apart, ringVars
  <2> QED BY <2>1, DriveRInv, ServeRInv DEF Next
<1>5. RingTypes'
  BY StepTypes
<1> QED BY <1>1, <1>3, <1>4, <1>5 DEF FInv

(* At the start nothing is read.                                            *)
LEMMA InitFInv == Init => FInv
<1> SUFFICES ASSUME Init PROVE FInv
  OBVIOUS
<1>1. DInv
  BY InitDInv DEF Init
<1>2. RingTypes
  BY DEF Init, RingTypes, RingSize
<1>3. HasRing => RInv
  <2> SUFFICES ASSUME HasRing PROVE RInv
    OBVIOUS
  <2>1. Services = 1 .. 3
    BY <1>1, RingPrograms DEF DInv, CInv, IInv
  <2>2. /\ stage = "startup" /\ k = 1 /\ frames = 0 /\ count = 0
        /\ work[1] = 0 /\ work[2] = 0 /\ pc[2] = 0 /\ pc[3] = 0 /\ sem[2] = 0
    BY <2>1 DEF Init, SeqInit
  <2>3. ~ReadAtStart
    BY <2>2 DEF ReadAtStart
  <2> QED BY <2>2, <2>3 DEF RInv, FramesCounted, Supply, Pending, Apart
<1> QED BY <1>1, <1>2, <1>3 DEF FInv

(* Every variable keeps its type, for all programs, rates, priorities and   *)
(* cores.  No semaphore holds more than two posts, but that of a service    *)
(* whose device is late; the count of the ring is what S1 has read and S2   *)
(* has not taken; and seq_frame_process, which takes five frames off        *)
(* without looking, finds them there if the camera is never late.           *)
THEOREM SequencerTypes == Spec => []FrameTypeOK
<1>1. FInv => FrameTypeOK
  <2> SUFFICES ASSUME FInv PROVE FrameTypeOK
    OBVIOUS
  <2>1. TypeOK /\ RingTypes
    BY TypesFollow DEF FInv
  <2>2. HasRing => count = frames - 5 * work[2]
    BY DEF FInv, RInv, Supply
  <2>3. punctual => count >= 0
    <3>1. CASE HasRing
      <4>1. work[2] \in Nat
        BY <3>1, RingPrograms DEF FInv, DInv, CInv, IInv, Counted
      <4> QED BY <2>1, <3>1, <4>1 DEF FInv, RInv, Supply, RingTypes
    <3>2. CASE ~HasRing
      BY <2>1, <3>2 DEF RingTypes
    <3> QED BY <3>1, <3>2
  <2> QED BY <2>1, <2>2, <2>3 DEF FrameTypeOK, RingTypes
<1> QED BY <1>1, InitFInv, StepFInv, PTL DEF Spec

-----------------------------------------------------------------------------
(* The pictures.  As long as nobody has asked for the shutdown the tallies  *)
(* of the three services say how far each of them is.                       *)

Asked ==
    ~abortTest => /\ stage \in {"startup", "sleep", "release", "exit"}
                  /\ \A s \in Services : ~abort[s]

(* S2 ends in time.                                                         *)
Timely == Serving /\ Hand(2) + sem[2] > 0 => cycle % P.rates[2] <= Budget

(* S3 asks when it has stored the last picture; S2 and S3 have nothing left *)
(* to do then.                                                              *)
Quiet ==
    abortTest =>
        \A s \in {2, 3} : ~Pending(s) /\ (abort[s] \/ StillDue(s) = 0)

(* S2 has begun with so many pictures; the last of them is the fifth frame  *)
(* after the one before.                                                    *)
Begun == work[2] + (IF pc[2] = 5 THEN 1 ELSE 0)
Whole(i) == [frame |-> 5 * i, whole |-> TRUE]

(* The last frames are in the ring, and S2 reads one that is not overwritten*)
(* before it has ended.                                                     *)
Rounds ==
    /\ tail = frames % 3 /\ head = (5 * Begun) % 3
    /\ slot \in [0 .. 2 -> Int]
    /\ \A j \in Nat : frames - 3 <= j /\ j < frames => slot[j % 3] = j
    /\ pc[2] = 5 => frames >= 5 * Begun + 1
    /\ Begun > 0 => picture = Whole(Begun)

Saved ==
    /\ ~abortTest => work[3] < Stores
    /\ saved \in Seq([frame : Int, whole : BOOLEAN]) /\ Len(saved) = work[3]
    /\ \A i \in 1 .. Len(saved) : saved[i] = Whole(i)

PInv ==
    /\ FInv
    /\ IF HasRing THEN Asked /\ Timely /\ (punctual => Quiet /\ Rounds /\ Saved)
                  ELSE saved = <<>>

(* What is smaller after multiplying was smaller.                           *)
LEMMA LessByFactor ==
    ASSUME NEW r \in Nat \ {0}, NEW a \in Int, NEW b \in Int, r * a < r * b
    PROVE  a < b
<1> SUFFICES ASSUME b <= a PROVE FALSE
  OBVIOUS
<1>1. r * b <= r * a
  OBVIOUS
<1>2. r * a \in Int /\ r * b \in Int
  OBVIOUS
<1> QED BY <1>1, <1>2

(* Five short periods make a long one.                                      *)
LEMMA FivePeriods ==
    ASSUME NEW r \in Nat \ {0}, NEW c \in Int
    PROVE  LET q == c \div r
               p == c \div (5 * r)
           IN  /\ q \in Int /\ p \in Int
               /\ 5 * p <= q /\ q <= 5 * p + 4
               /\ c % (5 * r) < 3 * r => q <= 5 * p + 2
               /\ c % r = 0 /\ c % (5 * r) # 0 => q >= 5 * p + 1
<1> DEFINE q == c \div r
           p == c \div (5 * r)
<1>1. q \in Int /\ r * q <= c /\ c < r * q + r /\ c % r = c - r * q
  BY Quotient
<1>2. 5 * r \in Nat \ {0}
  OBVIOUS
<1>3. p \in Int /\ (5 * r) * p <= c /\ c < (5 * r) * p + 5 * r /\ c % (5 * r) = c - (5 * r) * p
  BY <1>2, Quotient
<1> HIDE DEF q, p
<1>4. /\ r * q + r = r * (q + 1) /\ (5 * r) * p = r * (5 * p)
      /\ (5 * r) * p + 5 * r = r * (5 * p + 5) /\ (5 * r) * p + 3 * r = r * (5 * p + 3)
      /\ r * q \in Int /\ r * (q + 1) \in Int /\ r * (5 * p) \in Int
      /\ r * (5 * p + 5) \in Int /\ r * (5 * p + 3) \in Int /\ 5 * p \in Int
  BY <1>1, <1>3
<1>5. 5 * p <= q
  <2>1. r * (5 * p) < r * (q + 1)
    BY <1>1, <1>3, <1>4
  <2>2. 5 * p < q + 1
    BY <1>1, <1>4, <2>1, LessByFactor
  <2> QED BY <1>1, <1>4, <2>2
<1>6. q <= 5 * p + 4
  <2>1. r * q < r * (5 * p + 5)
    BY <1>1, <1>3, <1>4
  <2>2. q < 5 * p + 5
    BY <1>1, <1>3, <2>1, LessByFactor
  <2> QED BY <1>1, <1>3, <2>2
<1>7. ASSUME c % (5 * r) < 3 * r PROVE q <= 5 * p + 2
  <2>1. r * q < r * (5 * p + 3)
    BY <1>1, <1>3, <1>4, <1>7
  <2>2. q < 5 * p + 3
    BY <1>1, <1>3, <2>1, LessByFactor
  <2> QED BY <1>1, <1>3, <2>2
<1>8. ASSUME c % r = 0, c % (5 * r) # 0 PROVE q >= 5 * p + 1
  <2>1. q # 5 * p
    <3> SUFFICES ASSUME q = 5 * p PROVE FALSE
      OBVIOUS
    <3>1. c = r * (5 * p)
      BY <1>1, <1>4, <1>8
    <3> QED BY <1>3, <1>4, <1>8, <3>1
  <2> QED BY <1>1, <1>3, <1>5, <2>1
<1> QED BY <1>1, <1>3, <1>5, <1>6, <1>7, <1>8 DEF q, p

(* While nobody has asked: how far the services are.                        *)
LEMMA Totals ==
    ASSUME PInv, HasRing, punctual, ~abortTest, stage \in {"sleep", "release"}
    PROVE  LET q == cycle \div P.rates[1]
               p == cycle \div P.rates[2]
           IN  /\ q \in Int /\ p \in Int /\ 5 * p <= q /\ q <= 5 * p + 4
               /\ Serving
               /\ \A s \in 1 .. 3 : /\ Hand(s) \in {0, 1} /\ sem[s] \in Nat /\ StillDue(s) \in {0, 1}
                                    /\ work[s] \in Nat /\ Hand(s) + sem[s] + StillDue(s) <= 1
                                    /\ ~abort[s] /\ pc[s] # 0
               /\ q - StillDue(1) = work[1] + Hand(1) + sem[1]
               /\ p - StillDue(2) = work[2] + Hand(2) + sem[2]
               /\ p - StillDue(3) = work[3] + Hand(3) + sem[3]
               /\ StillDue(2) <= StillDue(3)
               /\ StillDue(1) = 1 /\ StillDue(2) = 0 => q >= 5 * p + 1
               /\ Hand(2) + sem[2] > 0 => q <= 5 * p + 2
               /\ frames = work[1] + 1
<1> DEFINE r == P.rates[1]
           q == cycle \div r
           p == cycle \div (5 * r)
<1>14. DInv /\ Shape /\ cycle \in Int
  BY DEF PInv, FInv, DInv, CInv, IInv, Cycles
<1>15. Services = 1 .. 3 /\ RingProgram(P) /\ r \in Nat \ {0}
  BY <1>14, RingPrograms
<1>1. /\ DInv /\ Shape /\ Services = 1 .. 3 /\ RingProgram(P) /\ r \in Nat \ {0} /\ cycle \in Int
      /\ P.rates[2] = 5 * r /\ P.rates[3] = 5 * r /\ P.first - 1 = 0
      /\ P.rates[2] # 0 /\ r # 0
  BY <1>14, <1>15 DEF RingProgram
<1>2. Serving /\ \A s \in 1 .. 3 : ~abort[s]
  BY <1>1 DEF PInv, Asked, Serving
<1>3. \A s \in 1 .. 3 : Tally(s) /\ InHand(s) = Hand(s) /\ work[s] \in Nat /\ pc[s] # 0
  <2>1. \A s \in 1 .. 3 : pc[s] # 0
    BY <1>1, <1>2 DEF DInv, Loads, Lives, Alive
  <2> QED BY <1>1, <1>2, <2>1, HandIsBehindWait DEF DInv, CInv, Counted, Hand
<1>4. \A s \in 1 .. 3 : /\ Hand(s) \in {0, 1} /\ sem[s] \in Nat /\ StillDue(s) \in {0, 1}
                        /\ Hand(s) + sem[s] + StillDue(s) <= 1
  <2> TAKE s \in 1 .. 3
  <2>1. /\ Hand(s) + sem[s] + Coming(s) <= 1
        /\ Hand(s) \in {0, 1} /\ sem[s] \in Nat /\ Coming(s) \in {0, 1}
        /\ StillDue(s) <= Coming(s) /\ StillDue(s) \in {0, 1}
    BY <1>1, <1>2, OneRelease
  <2> QED BY <2>1
<1>5. 5 * r \in Nat \ {0} /\ 0 \div r = 0 /\ 0 \div (5 * r) = 0
  <2>1. 5 * r \in Nat \ {0}
    BY <1>1
  <2> HIDE DEF r
  <2> QED BY <1>1, <2>1, ZeroQuotient
<1>6. /\ q \in Int /\ p \in Int /\ 5 * p <= q /\ q <= 5 * p + 4
      /\ cycle % (5 * r) < 3 * r => q <= 5 * p + 2
      /\ cycle % r = 0 /\ cycle % (5 * r) # 0 => q >= 5 * p + 1
  <2> HIDE DEF r
  <2> QED BY <1>1, FivePeriods
<1>7. Released(1) = q /\ Released(2) = p /\ Released(3) = p
  <2>1. q - 0 = q /\ p - 0 = p
    BY <1>6
  <2>2. P.rates[3] # 0
    BY <1>1
  <2> QED BY <1>1, <1>5, <2>1, <2>2 DEF Released
<1>8. /\ q - StillDue(1) = work[1] + Hand(1) + sem[1]
      /\ p - StillDue(2) = work[2] + Hand(2) + sem[2]
      /\ p - StillDue(3) = work[3] + Hand(3) + sem[3]
  BY <1>3, <1>7 DEF Tally
<1>9. stage = "release" => k \in Nat /\ k <= 3
  BY <1>1, Lengths DEF DInv, CInv, IInv, Shape, Cycles, RingProgram
<1>10. StillDue(2) <= StillDue(3)
  BY <1>1, <1>9, DueTogether DEF StillDue
<1>11. StillDue(1) = 1 /\ StillDue(2) = 0 => q >= 5 * p + 1
  <2> SUFFICES ASSUME StillDue(1) = 1, StillDue(2) = 0 PROVE q >= 5 * p + 1
    OBVIOUS
  <2>1. stage = "release" /\ 1 >= k /\ Due(cycle, 1)
    BY DEF StillDue
  <2>2. 2 >= k
    BY <1>9, <2>1
  <2>3. ~Due(cycle, 2)
    BY <2>1, <2>2 DEF StillDue
  <2> QED BY <1>1, <1>6, <2>1, <2>3 DEF Due
<1>12. Hand(2) + sem[2] > 0 => q <= 5 * p + 2
  <2> SUFFICES ASSUME Hand(2) + sem[2] > 0 PROVE cycle % (5 * r) < 3 * r
    BY <1>6
  <2>1. cycle % (5 * r) <= Budget
    BY <1>1, <1>2 DEF PInv, Timely
  <2>2. Budget < 3 * r /\ Budget \in Nat
    BY <1>1, RingAssumption DEF RingProgram, RingSize, RingAssumption
  <2>3. cycle % (5 * r) \in Int
    BY <1>1, <1>5
  <2> QED BY <1>1, <2>1, <2>2, <2>3
<1>13. frames = work[1] + 1
  BY DEF PInv, FInv, RInv, FramesCounted, ReadAtStart
<1> QED BY <1>1, <1>2, <1>3, <1>4, <1>6, <1>8, <1>10, <1>11, <1>12, <1>13

(* S2 begins when S1 has read the fifth frame after the last picture, and   *)
(* no more than two others.                                                 *)
LEMMA FramesAtBegin ==
    ASSUME PInv, HasRing, punctual, MayRun(2), pc[2] = 4
    PROVE  /\ ~abortTest
           /\ frames >= 5 * (work[2] + 1) + 1 /\ frames <= 5 * (work[2] + 1) + 3
<1>1. DInv /\ Shape /\ Asked /\ Quiet
  BY DEF PInv, FInv, DInv, CInv, IInv
<1>2. ~abortTest
  BY <1>1 DEF Quiet, Pending
<1>3. Services = 1 .. 3 /\ stage \in {"sleep", "release"}
  <2>1. Services = 1 .. 3
    BY <1>1, RingPrograms
  <2>2. stage # "exit" /\ stage # "startup"
    BY <1>1, <2>1 DEF MayRun, DInv, CInv, Cycles
  <2> QED BY <1>1, <1>2, <2>1, <2>2 DEF Asked
<1> DEFINE q == cycle \div P.rates[1]
           p == cycle \div P.rates[2]
<1>4. /\ q \in Int /\ p \in Int
      /\ \A s \in 1 .. 3 : /\ Hand(s) \in {0, 1} /\ sem[s] \in Nat /\ StillDue(s) \in {0, 1}
                           /\ work[s] \in Nat /\ Hand(s) + sem[s] + StillDue(s) <= 1 /\ pc[s] # 0
      /\ q - StillDue(1) = work[1] + Hand(1) + sem[1]
      /\ p - StillDue(2) = work[2] + Hand(2) + sem[2]
      /\ 5 * p <= q /\ (StillDue(1) = 1 /\ StillDue(2) = 0 => q >= 5 * p + 1)
      /\ Hand(2) + sem[2] > 0 => q <= 5 * p + 2
      /\ frames = work[1] + 1
  BY <1>2, <1>3, Totals
<1> HIDE DEF p, q
<1>5. Hand(2) = 1
  BY DEF Hand
<1>6. p = work[2] + 1 /\ StillDue(2) = 0 /\ q <= 5 * p + 2
  BY <1>4, <1>5
<1>7. pc[1] = 2 /\ sem[1] = 0
  BY <1>1, <1>4, LessUrgentWaits DEF MayBlock, Late
<1>8. Hand(1) = 0
  BY <1>7 DEF Hand
<1>9. q - StillDue(1) = work[1]
  BY <1>4, <1>7, <1>8
<1>10. StillDue(1) = 0 \/ StillDue(1) = 1
  BY <1>4
<1> QED BY <1>2, <1>4, <1>6, <1>9, <1>10

(* S1 reads at most two frames while S2 is at work.                         *)
LEMMA FramesWhileBusy ==
    ASSUME PInv, HasRing, punctual, MayRun(1), pc[1] = 5, pc[2] = 5
    PROVE  frames <= 5 * (work[2] + 1) + 2
<1>1. DInv /\ Shape /\ Asked /\ Quiet
  BY DEF PInv, FInv, DInv, CInv, IInv
<1>2. ~abortTest
  BY <1>1 DEF Quiet, Pending
<1>3. stage \in {"sleep", "release"}
  <2>1. Services = 1 .. 3
    BY <1>1, RingPrograms
  <2>2. stage # "exit" /\ stage # "startup"
    BY <1>1, <2>1 DEF MayRun, DInv, CInv, Cycles
  <2> QED BY <1>1, <1>2, <2>1, <2>2 DEF Asked
<1> DEFINE q == cycle \div P.rates[1]
           p == cycle \div P.rates[2]
<1>4. /\ q \in Int /\ p \in Int
      /\ \A s \in 1 .. 3 : /\ Hand(s) \in {0, 1} /\ sem[s] \in Nat /\ StillDue(s) \in {0, 1}
                           /\ work[s] \in Nat /\ Hand(s) + sem[s] + StillDue(s) <= 1
      /\ q - StillDue(1) = work[1] + Hand(1) + sem[1]
      /\ p - StillDue(2) = work[2] + Hand(2) + sem[2]
      /\ Hand(2) + sem[2] > 0 => q <= 5 * p + 2
      /\ frames = work[1] + 1
  BY <1>2, <1>3, Totals
<1> HIDE DEF p, q
<1>5. Hand(2) = 1 /\ Hand(1) = 1
  BY DEF Hand
<1>6. p = work[2] + 1 /\ q <= 5 * p + 2 /\ q = work[1] + 1
  BY <1>4, <1>5
<1> QED BY <1>4, <1>6

(* S1 never reads so often that it asks for the shutdown before S3 does.    *)
LEMMA ReaderNeverAsks ==
    ASSUME PInv, HasRing, punctual, ~abortTest, MayRun(1), pc[1] = 5
    PROVE  ~AsksForShutdown(1)
<1>1. DInv /\ Shape /\ Asked /\ Saved
  BY DEF PInv, FInv, DInv, CInv, IInv
<1>3. stage \in {"sleep", "release"}
  <2>1. Services = 1 .. 3
    BY <1>1, RingPrograms
  <2>2. stage # "exit" /\ stage # "startup"
    BY <1>1, <2>1 DEF MayRun, DInv, CInv, Cycles
  <2> QED BY <1>1, <2>1, <2>2 DEF Asked
<1> DEFINE q == cycle \div P.rates[1]
           p == cycle \div P.rates[2]
<1>4. /\ q \in Int /\ p \in Int
      /\ \A s \in 1 .. 3 : /\ Hand(s) \in {0, 1} /\ sem[s] \in Nat /\ StillDue(s) \in {0, 1}
                           /\ work[s] \in Nat /\ Hand(s) + sem[s] + StillDue(s) <= 1
      /\ q - StillDue(1) = work[1] + Hand(1) + sem[1]
      /\ p - StillDue(3) = work[3] + Hand(3) + sem[3]
      /\ q <= 5 * p + 4
  BY <1>3, Totals
<1> HIDE DEF p, q
<1>5. Hand(1) = 1
  BY DEF Hand
<1>6. q = work[1] + 1 /\ p <= work[3] + 1
  BY <1>4, <1>5
<1>7. work[3] < Stores /\ Stores \in Nat /\ Reads \in Nat /\ Reads >= 5 * Stores + 4
  BY <1>1, RingAssumption DEF Saved, RingAssumption
<1>8. work[1] + 1 <= Reads
  BY <1>4, <1>6, <1>7
<1> QED BY <1>4, <1>7, <1>8 DEF AsksForShutdown

(* S3 stores the picture of its own second, and S2 is at rest.              *)
LEMMA StoresItsOwn ==
    ASSUME PInv, HasRing, punctual, MayRun(3), pc[3] = 5
    PROVE  /\ ~abortTest /\ pc[2] = 2 /\ sem[2] = 0 /\ StillDue(2) = 0
           /\ work[2] = work[3] + 1 /\ sem[3] = 0 /\ StillDue(3) = 0
<1>1. DInv /\ Shape /\ Asked /\ Quiet
  BY DEF PInv, FInv, DInv, CInv, IInv
<1>2. ~abortTest
  BY <1>1 DEF Quiet, Pending
<1>3. stage \in {"sleep", "release"}
  <2>1. Services = 1 .. 3
    BY <1>1, RingPrograms
  <2>2. stage # "exit" /\ stage # "startup"
    BY <1>1, <2>1 DEF MayRun, DInv, CInv, Cycles
  <2> QED BY <1>1, <1>2, <2>1, <2>2 DEF Asked
<1> DEFINE p == cycle \div P.rates[2]
<1>4. /\ p \in Int
      /\ \A s \in 1 .. 3 : /\ Hand(s) \in {0, 1} /\ sem[s] \in Nat /\ StillDue(s) \in {0, 1}
                           /\ work[s] \in Nat /\ Hand(s) + sem[s] + StillDue(s) <= 1 /\ pc[s] # 0
      /\ p - StillDue(2) = work[2] + Hand(2) + sem[2]
      /\ p - StillDue(3) = work[3] + Hand(3) + sem[3]
      /\ StillDue(2) <= StillDue(3)
  BY <1>2, <1>3, Totals
<1> HIDE DEF p
<1>5. Hand(3) = 1
  BY DEF Hand
<1>6. p = work[3] + 1 /\ StillDue(3) = 0 /\ StillDue(2) = 0 /\ sem[3] = 0
  BY <1>4, <1>5
<1>7. pc[2] = 2 /\ sem[2] = 0
  BY <1>1, <1>4, LessUrgentWaits
<1>8. Hand(2) = 0
  BY <1>7 DEF Hand
<1> QED BY <1>2, <1>4, <1>6, <1>7, <1>8

(* No step changes the program or its devices.                              *)
LEMMA ProgramKept ==
    ASSUME [Next]_vars
    PROVE  /\ program' = program /\ punctual' = punctual
           /\ P' = P /\ Services' = Services /\ (HasRing' <=> HasRing)
<1>1. program' = program /\ punctual' = punctual
  BY DEF Next, Drive, Startup, Tick, Release, Shutdown, Complete, Serve, Check, Wait, Begin,
         Done, NoFrame, vars, seqVars
<1> QED BY <1>1, SameProgram DEF HasRing

(* The flags are set only after somebody has asked for the shutdown.        *)
LEMMA StepAsked == ASSUME PInv, HasRing, [Next]_vars PROVE Asked'
<1>1. /\ P.abortsFirst /\ P' = P /\ Services' = Services /\ Asked /\ 1 \in Services
      /\ IInv /\ abortTest \in BOOLEAN
  BY RingPrograms, ProgramKept DEF PInv, FInv, DInv, CInv, IInv, Bounds, RingProgram
<1>2. CASE Startup \/ Tick
  <2>1. /\ abortTest' = abortTest /\ abort' = abort
        /\ ~abortTest => stage' \in {"startup", "sleep", "release", "exit"}
    BY <1>1, <1>2 DEF Startup, Tick
  <2> QED BY <1>1, <2>1 DEF Asked
<1>3. CASE Release
  <2>1. /\ abortTest' = abortTest /\ abort' = abort /\ stage = "release"
        /\ stage' = stage \/ stage' = AfterReleases
    BY <1>3 DEF Release
  <2>2. ~abortTest => AfterReleases = "sleep"
    BY <1>1 DEF Asked, AfterReleases
  <2> QED BY <1>1, <2>1, <2>2 DEF Asked
<1>4. CASE Shutdown \/ Complete
  <2>1. abortTest' = abortTest /\ stage \in {"shutdown", "ended"}
    BY <1>4 DEF Shutdown, Complete
  <2> QED BY <1>1, <2>1 DEF Asked
<1>5. CASE NoFrame \/ UNCHANGED vars
  <2>1. /\ abortTest' = abortTest /\ abort' = abort
        /\ stage' = stage \/ stage' = "exit"
    BY <1>5 DEF NoFrame, vars, seqVars
  <2> QED BY <1>1, <2>1 DEF Asked
<1>6. ASSUME NEW s \in Services, Serve(s) PROVE Asked'
  <2>1. /\ abort' = abort /\ stage' = stage /\ (abortTest' = abortTest \/ abortTest' = (abortTest \/ AsksForShutdown(s)))
    BY <1>6 DEF Serve, Check, Wait, Begin, Done, mainVars
  <2>2. ~abortTest' => ~abortTest
    BY <2>1
  <2> QED BY <1>1, <2>1, <2>2 DEF Asked
<1> QED BY <1>2, <1>3, <1>4, <1>5, <1>6 DEF Next, Drive

(* The sequencer passes no cycle that a service does not reach.             *)
LEMMA StepTimely == ASSUME PInv, HasRing, [Next]_vars PROVE Timely'
<1>1. DInv /\ Shape /\ Timely /\ IInv
  BY DEF PInv, FInv, DInv, CInv, IInv
<1>2. /\ Services = 1 .. 3 /\ P.rates[2] \in Nat \ {0} /\ RingProgram(P)
      /\ P' = P /\ Services' = Services /\ cycle \in Int
  BY <1>1, RingPrograms, DueTogether, ProgramKept DEF DInv, CInv, Cycles
<1>3. sem[2] \in Nat /\ Hand(2) \in {0, 1} /\ Budget \in Nat
  BY <1>1, <1>2, RingAssumption DEF Shape, Hand, RingAssumption
<1>4. CASE Startup
  <2>1. stage = "startup" /\ stage' \in {"startup", "sleep", "exit"} /\ sem' = sem /\ abort' = abort
        /\ (pc' = pc \/ pc' = [s \in Services |-> 1])
    BY <1>4 DEF Startup
  <2>2. pc[2] = 0
    BY <1>1, <1>2, <2>1 DEF DInv, CInv, Cycles
  <2>3. Serving' => Serving /\ cycle' = cycle /\ Hand(2)' = Hand(2)
    BY <1>2, <1>4, <2>1, <2>2 DEF Serving, Hand, Startup
  <2> QED BY <1>1, <1>2, <1>3, <2>1, <2>3 DEF Timely
<1>5. CASE Tick
  <2> SUFFICES ASSUME Serving', Hand(2)' + sem'[2] > 0 PROVE cycle' % P.rates[2] <= Budget
    BY <1>2 DEF Timely
  <2>1. Hand(2) + sem[2] > 0 /\ cycle < cycle' /\ stage = "sleep" /\ abort' = abort
    BY <1>5 DEF Tick, Hand
  <2>2. Ready(2)
    <3>1. ~abort[2]
      BY <1>1, <1>2, <2>1 DEF IInv, Flags
    <3>2. pc[2] # 0
      BY <1>1, <1>2, <2>1, <3>1 DEF DInv, Loads, Lives, Alive
    <3>3. At(2) = "wait" <=> pc[2] = 2
      BY <1>1, <1>2, WaitIsSecond
    <3>4. pc[2] = 2 => sem[2] > 0
      BY <1>3, <2>1 DEF Hand
    <3> QED BY <3>2, <3>3, <3>4 DEF Ready
  <2> DEFINE m == P.rates[2]
  <2>3. m \in Nat \ {0}
    BY <1>2
  <2>4. /\ cycle' < cycle - (cycle % m) + m
        /\ cycle' <= cycle - (cycle % m) + Budget
    <3>1. 2 \in Services /\ P.rates[2] # 0
      BY <1>2
    <3>2. InTime(cycle')
      BY <1>5 DEF Tick
    <3>3. ~MayBlock(2)
      BY <1>2 DEF RingProgram, MayBlock, Late
    <3>4. LET released == cycle - (cycle % P.rates[2])
          IN cycle' < released + P.rates[2] /\ cycle' <= released + Budget
      BY <2>2, <3>1, <3>2, <3>3, Zenon DEF InTime
    <3> QED BY <3>4
  <2>5. cycle' \in Int
    BY <1>1, <1>5, TickCInv DEF DInv, CInv, Cycles
  <2> HIDE DEF m
  <2> DEFINE a == cycle \div m
  <2>6. a \in Int /\ m * a <= cycle /\ cycle % m = cycle - m * a /\ m * a \in Int
    BY <1>2, <2>3, Quotient
  <2> HIDE DEF a
  <2>7. m * a <= cycle' /\ cycle' < m * a + m
    BY <1>2, <2>1, <2>3, <2>4, <2>5, <2>6
  <2>8. cycle' \div m = a
    BY <2>3, <2>5, <2>6, <2>7, OneQuotient
  <2>9. cycle' % m = cycle' - m * a
    BY <2>3, <2>5, <2>8, Quotient
  <2>10. cycle' <= m * a + Budget
    BY <1>2, <2>4, <2>6
  <2>11. cycle' - m * a <= Budget
    BY <1>3, <2>5, <2>6, <2>10
  <2> QED BY <2>9, <2>11 DEF m
<1>6. CASE Release
  <2>1. /\ abort' = abort /\ pc' = pc /\ cycle' = cycle /\ stage = "release"
        /\ sem' = IF Due(cycle, k) THEN [sem EXCEPT ![k] = sem[k] + 1] ELSE sem
    BY <1>6 DEF Release
  <2>2. CASE k = 2 /\ Due(cycle, 2)
    BY <1>2, <1>3, <2>1, <2>2 DEF Timely, Due
  <2>3. CASE ~(k = 2 /\ Due(cycle, 2))
    <3>1. sem'[2] = sem[2]
      BY <1>1, <1>2, <2>1, <2>3 DEF Shape
    <3>2. Serving' => Serving
      BY <1>2, <2>1 DEF Serving
    <3> QED BY <1>1, <1>2, <2>1, <3>1, <3>2 DEF Timely, Hand
  <2> QED BY <2>2, <2>3
<1>7. CASE Shutdown \/ Complete \/ NoFrame
  <2>1. stage' = "release" => Shutdown /\ ~(k < Len(P.shutdown))
    BY <1>7 DEF Shutdown, Complete, NoFrame
  <2>2. stage' = "release" => abort'[2]
    BY <1>1, <1>2, <2>1, ShutdownSetsFlags
  <2>3. stage' \notin {"startup", "sleep"}
    BY <1>7 DEF Shutdown, Complete, NoFrame
  <2> QED BY <1>2, <2>2, <2>3 DEF Timely, Serving
<1>8. ASSUME NEW s \in Services, Serve(s) PROVE Timely'
  <2>1. UNCHANGED <<stage, k, cycle, abort>> /\ (Serving' <=> Serving)
    BY <1>1, <1>2, <1>8, ServeMoves DEF Serving
  <2>2. Hand(2)' + sem'[2] > 0 => Hand(2) + sem[2] > 0
    <3>1. CASE s # 2
      BY <1>1, <1>2, <1>8, <3>1, ServeMoves DEF Hand
    <3>2. CASE s = 2
      <4>1. \/ pc[2] \in {1, 3} /\ (pc'[2] = 0 \/ pc'[2] = pc[2] + 1) /\ sem'[2] = sem[2]
            \/ sem[2] > 0
            \/ pc[2] \in {4, 5}
        BY <1>1, <1>2, <1>8, <3>2, ServeMoves
      <4> QED BY <1>3, <4>1 DEF Hand
    <3> QED BY <3>1, <3>2
  <2> QED BY <1>1, <1>2, <2>1, <2>2 DEF Timely
<1>9. CASE UNCHANGED vars
  BY <1>1, <1>2, <1>9 DEF vars, seqVars, Timely, Serving, Hand
<1> QED BY <1>4, <1>5, <1>6, <1>7, <1>8, <1>9 DEF Next, Drive

(* A new frame takes the slot of the oldest.                                *)
LEMMA ReadKeepsRing ==
    ASSUME frames \in Nat, tail = frames % 3, slot \in [0 .. 2 -> Int],
           \A j \in Nat : frames - 3 <= j /\ j < frames => slot[j % 3] = j,
           slot' = [slot EXCEPT ![tail] = frames], frames' = frames + 1, tail' = (tail + 1) % 3
    PROVE  /\ tail' = frames' % 3 /\ slot' \in [0 .. 2 -> Int]
           /\ \A j \in Nat : frames' - 3 <= j /\ j < frames' => slot'[j % 3] = j
<1>1. tail \in 0 .. 2 /\ tail' = frames' % 3
  OBVIOUS
<1>2. slot' \in [0 .. 2 -> Int] /\ slot'[tail] = frames
  BY <1>1
<1>3. \A i \in 0 .. 2 : i # tail => slot'[i] = slot[i]
  BY <1>1
<1>4. ASSUME NEW j \in Nat, frames' - 3 <= j, j < frames' PROVE slot'[j % 3] = j
  <2>1. CASE j = frames
    BY <1>2, <2>1
  <2>2. CASE j # frames
    <3>1. frames - 3 <= j /\ j < frames /\ j % 3 \in 0 .. 2 /\ j % 3 # tail
      BY <1>4, <2>2
    <3> QED BY <1>3, <3>1
  <2> QED BY <2>1, <2>2
<1> QED BY <1>1, <1>2, <1>4

(* Once S3 has asked, S2 and S3 are only posted with their flags set.       *)
LEMMA DriveQuiet == ASSUME PInv, HasRing, Drive, Quiet PROVE Quiet'
<1>1. DInv /\ Shape /\ Asked /\ IInv
  BY DEF PInv, FInv, DInv, CInv, IInv
<1>2. /\ Services = 1 .. 3 /\ P.abortsFirst /\ P' = P /\ Services' = Services
      /\ \A t \in 1 .. 3 : pc[t] \in 0 .. 5 /\ sem[t] \in Nat
  BY <1>1, RingPrograms, ProgramKept DEF RingProgram, Next
<1>3. abortTest' = abortTest
  BY DEF Drive, Startup, Tick, Release, Shutdown, Complete
<1>4. SUFFICES ASSUME abortTest, NEW s \in {2, 3}
               PROVE  ~Pending(s)' /\ (abort'[s] \/ StillDue(s)' = 0)
  BY <1>3 DEF Quiet
<1>5. /\ ~Pending(s) /\ (abort[s] \/ StillDue(s) = 0) /\ s \in Services /\ s \in Nat
      /\ pc[s] \in 0 .. 5 /\ sem[s] \in Nat
  <2>1. s \in 1 .. 3
    OBVIOUS
  <2>2. ~Pending(s) /\ (abort[s] \/ StillDue(s) = 0)
    BY <1>4, Zenon DEF Quiet
  <2> QED BY <1>2, <2>1, <2>2
<1>6. CASE Startup
  <2>1. /\ stage' # "release" /\ sem' = sem /\ abort' = abort
        /\ (pc' = pc \/ pc' = [t \in Services |-> 1])
    BY <1>6 DEF Startup
  <2>2. pc'[s] = pc[s] \/ pc'[s] = 1
    BY <1>5, <2>1
  <2> QED BY <1>5, <2>1, <2>2 DEF Pending, StillDue
<1>7. CASE Tick
  <2>1. stage' = "shutdown" /\ sem' = sem /\ abort' = abort /\ pc' = pc
    BY <1>2, <1>4, <1>7 DEF Tick
  <2> QED BY <1>5, <2>1 DEF Pending, StillDue
<1>8. CASE Release
  <2>1. /\ abort' = abort /\ pc' = pc /\ cycle' = cycle /\ stage = "release" /\ k \in Nat
        /\ sem' = IF Due(cycle, k) THEN [sem EXCEPT ![k] = sem[k] + 1] ELSE sem
        /\ (stage' = stage /\ k' = k + 1) \/ stage' # "release"
    BY <1>1, <1>8 DEF Release, AfterReleases, Shape
  <2>2. CASE abort[s]
    BY <1>5, <2>1, <2>2 DEF Pending
  <2>3. CASE ~abort[s]
    <3>1. StillDue(s) = 0 /\ pc[s] <= 3 /\ pc[s] # 3 /\ ~(sem[s] > 0)
      BY <1>5, <2>3 DEF Pending
    <3>2. ~(k = s /\ Due(cycle, s))
      BY <1>5, <2>1, <3>1 DEF StillDue
    <3>3. sem'[s] = sem[s]
      BY <1>1, <1>5, <2>1, <3>2 DEF Shape
    <3>4. StillDue(s)' = 0
      <4>1. Due(cycle, s)' <=> Due(cycle, s)
        BY <1>2, <2>1 DEF Due
      <4>2. s >= k + 1 => s >= k
        BY <1>5, <2>1
      <4> QED BY <2>1, <3>1, <4>1, <4>2 DEF StillDue
    <3> QED BY <1>5, <2>1, <3>1, <3>3, <3>4 DEF Pending
  <2> QED BY <2>2, <2>3
<1>9. CASE Shutdown
  <2>1. /\ pc' = pc /\ stage = "shutdown"
        /\ sem' = [t \in Services |-> IF t \in P.shutdown[k].posts THEN sem[t] + 1 ELSE sem[t]]
        /\ abort' = [t \in Services |-> abort[t] \/ t \in P.shutdown[k].aborts]
        /\ stage' = "release" => ~(k < Len(P.shutdown))
    BY <1>9 DEF Shutdown
  <2>2. abort[s] => abort'[s]
    BY <1>5, <2>1, Zenon
  <2>3. s \in P.shutdown[k].posts => abort'[s]
    BY <1>1, <1>5, <1>9, PostIsFlagged
  <2>4. s \notin P.shutdown[k].posts => sem'[s] = sem[s]
    BY <1>5, <2>1
  <2>5. stage' = "release" => abort'[s]
    BY <1>1, <1>5, <1>9, <2>1, ShutdownSetsFlags
  <2> QED BY <1>5, <2>1, <2>2, <2>3, <2>4, <2>5 DEF Pending, StillDue
<1>10. CASE Complete
  <2>1. stage' # "release" /\ sem' = sem /\ abort' = abort /\ pc' = pc
    BY <1>10 DEF Complete
  <2> QED BY <1>5, <2>1 DEF Pending, StillDue
<1> QED BY <1>6, <1>7, <1>8, <1>9, <1>10 DEF Drive

(* The sequencer moves no frame but the one main reads.                     *)
LEMMA DriveRounds ==
    ASSUME PInv, HasRing, Drive, Rounds, Saved PROVE Rounds' /\ Saved'
<1>1. DInv /\ Shape /\ frames \in Nat
  BY DEF PInv, FInv, DInv, CInv, IInv, RingTypes
<1>2. work' = work /\ abortTest' = abortTest
  BY DEF Drive, Startup, Tick, Release, Shutdown, Complete
<1>3. Services = 1 .. 3 /\ work[2] \in Nat
  BY <1>1, RingPrograms DEF DInv, CInv, Counted
<1>4. pc' = pc \/ (pc[2] = 0 /\ pc'[2] \in {0, 1})
  <2>1. Startup => (pc' = pc \/ pc' = [t \in Services |-> 1]) /\ \A t \in Services : pc[t] = 0
    BY <1>1 DEF Startup, DInv, CInv, Cycles
  <2> QED BY <1>3, <2>1 DEF Drive, Tick, Release, Shutdown, Complete
<1>5. Begun' = Begun /\ (pc'[2] = 5 => pc[2] = 5)
  BY <1>2, <1>4 DEF Begun
<1>6. CASE UNCHANGED ringVars
  BY <1>2, <1>5, <1>6 DEF ringVars, Rounds, Saved, Whole
<1>7. CASE SeqFrameRead /\ Startup
  <2>1. pc[2] = 0 /\ At(2) # "done"
    BY <1>1, <1>3, <1>7 DEF At, Startup, DInv, CInv, Cycles
  <2>2. /\ slot' = [slot EXCEPT ![tail] = frames] /\ frames' = frames + 1
        /\ tail' = (tail + 1) % 3 /\ picture' = picture /\ head' = head /\ saved' = saved
    BY <1>7, <2>1 DEF SeqFrameRead, RingSize
  <2>3. pc'[2] # 5
    BY <1>5, <2>1
  <2>4. Rounds'
    BY <1>1, <1>5, <2>2, <2>3, ReadKeepsRing DEF Rounds, Whole
  <2> QED BY <1>2, <2>2, <2>4 DEF Saved, Whole
<1> QED BY <1>6, <1>7, RingMoves DEF Drive

(* A service that has nothing to begin gets nothing from a step.            *)
LEMMA ServePending ==
    ASSUME Shape, HasRing, NEW s \in 1 .. 3, Serve(s), NEW t \in {2, 3}, ~Pending(t)
    PROVE  ~Pending(t)'
<1>1. abort' = abort /\ t \in 1 .. 3 /\ pc[t] \in 0 .. 5 /\ sem[t] \in Nat
  BY RingPrograms, ServeMoves
<1>2. CASE t # s
  <2>1. pc'[t] = pc[t] /\ sem'[t] = sem[t]
    BY <1>1, <1>2, ServeMoves
  <2> QED BY <1>1, <2>1 DEF Pending
<1>3. CASE t = s
  <2>1. \/ pc[t] \in {1, 3} /\ pc'[t] = (IF abort[t] THEN 0 ELSE pc[t] + 1) /\ sem'[t] = sem[t]
        \/ sem[t] > 0 /\ pc[t] = 2 /\ pc'[t] = 3
        \/ pc[t] \in {4, 5}
    BY <1>3, ServeMoves
  <2> QED BY <1>1, <2>1 DEF Pending
<1> QED BY <1>2, <1>3

(* S3 is the one who asks, when S2 and S3 have nothing left to do.          *)
LEMMA ServeQuiet ==
    ASSUME PInv, HasRing, punctual, NEW s \in 1 .. 3, Serve(s)
    PROVE  Quiet'
<1>1. DInv /\ Shape /\ Quiet
  BY DEF PInv, FInv, DInv, CInv, IInv
<1>2. /\ P' = P /\ UNCHANGED <<program, stage, k, cycle, abort>>
      /\ \A t \in {2, 3} : StillDue(t)' = StillDue(t)
  <2>1. P' = P /\ UNCHANGED <<program, stage, k, cycle, abort>>
    BY <1>1, ServeMoves, SameProgram
  <2> QED BY <2>1 DEF StillDue, Due
<1>3. CASE abortTest
  <2> SUFFICES ASSUME NEW t \in {2, 3} PROVE ~Pending(t)' /\ (abort'[t] \/ StillDue(t)' = 0)
    BY DEF Quiet
  <2>1. ~Pending(t) /\ (abort[t] \/ StillDue(t) = 0)
    BY <1>1, <1>3 DEF Quiet
  <2>2. ~Pending(t)'
    BY <1>1, <2>1, ServePending
  <2> QED BY <1>2, <2>1, <2>2
<1>4. CASE ~abortTest
  <2>1. CASE abortTest' = abortTest
    BY <1>4, <2>1 DEF Quiet
  <2>2. CASE Done(s, AsksForShutdown(s)) /\ AsksForShutdown(s)
    <3>1. MayRun(s) /\ pc[s] = 5
      BY <1>1, <2>2, RingPrograms DEF Done
    <3>2. s = 3
      BY <1>4, <2>2, <3>1, ReaderNeverAsks DEF AsksForShutdown
    <3>3. pc[2] = 2 /\ sem[2] = 0 /\ StillDue(2) = 0 /\ sem[3] = 0 /\ StillDue(3) = 0
      BY <3>1, <3>2, StoresItsOwn
    <3>4. pc'[2] = 2 /\ sem'[2] = 0 /\ pc'[3] = 1 /\ sem'[3] = 0
      <4>1. pc'[2] = pc[2] /\ sem'[2] = sem[2]
        BY <1>1, <3>2, ServeMoves
      <4>2. pc'[3] = 1 /\ sem'[3] = sem[3]
        BY <1>1, <3>1, <3>2, ServeMoves
      <4> QED BY <3>3, <4>1, <4>2
    <3>5. ~Pending(2)' /\ ~Pending(3)'
      BY <3>4 DEF Pending
    <3> QED BY <1>2, <3>3, <3>5 DEF Quiet
  <2>3. abortTest' = abortTest \/ (Done(s, AsksForShutdown(s)) /\ (AsksForShutdown(s) \/ abortTest' = abortTest))
    <3>1. abortTest \in BOOLEAN
      BY <1>1 DEF DInv, Bounds
    <3> QED BY <3>1, Zenon DEF Serve, Check, Wait, Begin, Done
  <2> QED BY <2>1, <2>2, <2>3
<1> QED BY <1>3, <1>4

(* Two numbers less than three apart lie in different slots.                *)
LEMMA DifferentSlots ==
    ASSUME NEW a \in Nat, NEW b \in Nat, a < b, b < a + 3 PROVE a % 3 # b % 3
  OBVIOUS

(* S1 reads into no slot that S2 reads, whatever S2 is doing.               *)
LEMMA ReaderRounds ==
    ASSUME PInv, HasRing, punctual, Serve(1)
    PROVE  Rounds' /\ Saved'
<1>1. DInv /\ Shape /\ frames \in Nat /\ Rounds /\ Saved
  BY DEF PInv, FInv, DInv, CInv, IInv, RingTypes
<1>2. /\ Services = 1 .. 3 /\ work[2] \in Nat /\ pc[2] \in 0 .. 5 /\ (At(2) = "done" <=> pc[2] = 5)
  BY <1>1, RingPrograms DEF DInv, CInv, Counted
<1>3. pc'[2] = pc[2] /\ work'[2] = work[2] /\ work'[3] = work[3]
  BY <1>1, ServeMoves
<1>4. Begun' = Begun /\ Begun \in Nat
  BY <1>2, <1>3 DEF Begun
<1>5. ~abortTest' => ~abortTest
  BY DEF Serve, Check, Wait, Begin, Done
<1>6. CASE UNCHANGED ringVars
  BY <1>1, <1>3, <1>4, <1>5, <1>6 DEF ringVars, Rounds, Saved, Whole
<1>7. CASE SeqFrameRead /\ MayRun(1) /\ pc[1] = 5
  <2>1. ~(At(2) = "done" /\ tail = head)
    <3> SUFFICES ASSUME pc[2] = 5 PROVE tail # head
      BY <1>2
    <3>1. Begun = work[2] + 1
      BY DEF Begun
    <3>2. frames >= 5 * Begun + 1 /\ frames <= 5 * Begun + 2
      BY <1>1, <1>7, <3>1, FramesWhileBusy DEF Rounds
    <3>3. 5 * Begun \in Nat
      BY <1>4
    <3>4. frames % 3 # (5 * Begun) % 3
      BY <1>1, <3>2, <3>3, DifferentSlots
    <3> QED BY <1>1, <3>4 DEF Rounds
  <2>2. /\ slot' = [slot EXCEPT ![tail] = frames] /\ frames' = frames + 1
        /\ tail' = (tail + 1) % 3 /\ picture' = picture /\ head' = head /\ saved' = saved
    BY <1>7, <2>1 DEF SeqFrameRead, RingSize
  <2>3. /\ tail' = frames' % 3 /\ slot' \in [0 .. 2 -> Int]
        /\ \A j \in Nat : frames' - 3 <= j /\ j < frames' => slot'[j % 3] = j
    BY <1>1, <2>2, ReadKeepsRing DEF Rounds
  <2>4. /\ head' = (5 * Begun') % 3
        /\ Begun' > 0 => picture' = Whole(Begun')
    BY <1>1, <1>4, <2>2 DEF Rounds
  <2>5. pc'[2] = 5 => frames' >= 5 * Begun' + 1
    BY <1>1, <1>3, <1>4, <2>2 DEF Rounds
  <2>6. Rounds'
    BY <2>3, <2>4, <2>5 DEF Rounds, Whole
  <2> QED BY <1>1, <1>3, <1>5, <2>2, <2>6 DEF Saved, Whole
<1>8. RingBegin(1) => UNCHANGED ringVars
  BY DEF RingBegin
<1>9. RingDone(1) => SeqFrameRead
  BY DEF RingDone
<1> QED BY <1>1, <1>6, <1>7, <1>8, <1>9, ServeMoves

(* Two steps by two and by three slots are five frames.                     *)
LEMMA NextSlot ==
    ASSUME NEW b \in Nat
    PROVE  /\ (((5 * b) % 3) + 2) % 3 = (5 * (b + 1)) % 3
           /\ (((5 * b) % 3) + 3) % 3 = (5 * b) % 3
<1> DEFINE n == 5 * b
<1>1. n \in Nat /\ 5 * (b + 1) = n + 5
  OBVIOUS
<1> HIDE DEF n
<1>2. ((n % 3) + 2) % 3 = (n + 5) % 3 /\ ((n % 3) + 3) % 3 = n % 3
  BY <1>1
<1> QED BY <1>1, <1>2 DEF n

(* S2 converts the fifth frame after the one it converted last.             *)
LEMMA ConverterRounds ==
    ASSUME PInv, HasRing, punctual, Serve(2)
    PROVE  Rounds' /\ Saved'
<1>1. DInv /\ Shape /\ frames \in Nat /\ Rounds /\ Saved
  BY DEF PInv, FInv, DInv, CInv, IInv, RingTypes
<1>2. /\ Services = 1 .. 3 /\ work \in [1 .. 3 -> Nat] /\ work[2] \in Nat /\ pc[2] \in 0 .. 5
  BY <1>1, RingPrograms DEF DInv, CInv, Counted
<1>3. work'[3] = work[3]
  BY <1>1, ServeMoves
<1>4. (~abortTest' => ~abortTest) /\ Begun \in Nat
  <2>1. ~abortTest' => ~abortTest
    BY DEF Serve, Check, Wait, Begin, Done
  <2> QED BY <1>2, <2>1 DEF Begun
<1>5. CASE UNCHANGED ringVars /\ Begun' = Begun /\ pc'[2] # 5
  BY <1>1, <1>3, <1>4, <1>5 DEF ringVars, Rounds, Saved, Whole
<1>6. CASE (Check(2) \/ Wait(2)) /\ UNCHANGED ringVars /\ work' = work
  <2>1. pc[2] # 5 /\ pc'[2] # 5
    <3>1. At(2) \notin {"begin", "done"}
      BY <1>6 DEF Check, Wait
    <3>2. pc[2] # 4 /\ pc[2] # 5
      BY <1>1, <3>1, RingPrograms
    <3>3. (pc[2] \in {1, 3} /\ pc'[2] \in {0, pc[2] + 1}) \/ pc'[2] = 3
      BY <1>1, <3>2, ServeMoves
    <3> QED BY <3>2, <3>3
  <2>2. Begun' = Begun
    BY <1>6, <2>1 DEF Begun
  <2> QED BY <1>5, <1>6, <2>1, <2>2
<1>7. CASE Begin(2) /\ RingBegin(2) /\ work' = work /\ pc[2] = 4 /\ pc'[2] = 5
  <2>1. Begun = work[2] /\ Begun' = Begun + 1
    BY <1>2, <1>7 DEF Begun
  <2>2. frames >= 5 * (Begun + 1) + 1 /\ frames <= 5 * (Begun + 1) + 3
    BY <1>7, <2>1, FramesAtBegin DEF Begin
  <2>3. /\ head' = (head + 2) % 3 /\ picture' = [frame |-> slot[head'], whole |-> TRUE]
        /\ frames' = frames /\ slot' = slot /\ tail' = tail /\ saved' = saved
    BY <1>7 DEF RingBegin, SeqFrameProcess, RingSize
  <2>4. head' = (5 * Begun') % 3
    <3>1. head = (5 * Begun) % 3
      BY <1>1 DEF Rounds
    <3> QED BY <1>4, <2>1, <2>3, <3>1, NextSlot
  <2>5. slot[head'] = 5 * Begun'
    <3> DEFINE j == 5 * Begun'
    <3>1. j \in Nat /\ frames - 3 <= j /\ j < frames
      BY <1>1, <1>4, <2>1, <2>2
    <3>2. head' = j % 3
      BY <2>4
    <3> HIDE DEF j
    <3>3. slot[j % 3] = j
      BY <1>1, <3>1 DEF Rounds
    <3> QED BY <3>2, <3>3 DEF j
  <2>6. picture' = Whole(Begun')
    BY <2>3, <2>5 DEF Whole
  <2>7. frames' >= 5 * Begun' + 1
    BY <2>1, <2>2, <2>3
  <2>8. Rounds'
    BY <1>1, <2>3, <2>4, <2>6, <2>7 DEF Rounds, Whole
  <2> QED BY <1>1, <1>3, <1>4, <2>3, <2>8 DEF Saved, Whole
<1>8. CASE Done(2, AsksForShutdown(2)) /\ RingDone(2) /\ pc[2] = 5 /\ pc'[2] = 1
           /\ work' = [work EXCEPT ![2] = work[2] + 1]
  <2>1. Begun' = Begun
    BY <1>2, <1>8 DEF Begun
  <2>2. head' = (head + 3) % 3 /\ UNCHANGED <<frames, slot, tail, picture, saved>>
    BY <1>8 DEF RingDone, SeqFrameProcessed, RingSize
  <2>3. head' = head
    BY <1>1, <1>4, <2>2, NextSlot DEF Rounds
  <2>4. Rounds'
    BY <1>1, <1>8, <2>1, <2>2, <2>3 DEF Rounds, Whole
  <2> QED BY <1>1, <1>3, <1>4, <2>2, <2>4 DEF Saved, Whole
<1> QED BY <1>1, <1>6, <1>7, <1>8, ServeMoves

(* S3 stores the picture that S2 has converted for it.                      *)
LEMMA StoreRounds ==
    ASSUME PInv, HasRing, punctual, Serve(3)
    PROVE  Rounds' /\ Saved'
<1>1. DInv /\ Shape /\ frames \in Nat /\ Rounds /\ Saved
  BY DEF PInv, FInv, DInv, CInv, IInv, RingTypes
<1>2. Services = 1 .. 3 /\ work \in [1 .. 3 -> Nat] /\ work[3] \in Nat
  BY <1>1, RingPrograms DEF DInv, CInv, Counted
<1>3. pc'[2] = pc[2] /\ work'[2] = work[2]
  BY <1>1, ServeMoves
<1>4. Begun' = Begun /\ (~abortTest' => ~abortTest)
  <2>1. Begun' = Begun
    BY <1>3 DEF Begun
  <2>2. ~abortTest' => ~abortTest
    BY DEF Serve, Check, Wait, Begin, Done
  <2> QED BY <2>1, <2>2
<1>5. CASE UNCHANGED ringVars /\ work' = work
  BY <1>1, <1>3, <1>4, <1>5 DEF ringVars, Rounds, Saved, Whole
<1>6. CASE Done(3, AsksForShutdown(3)) /\ RingDone(3) /\ pc[3] = 5
           /\ work' = [work EXCEPT ![3] = work[3] + 1]
  <2>1. /\ ~abortTest /\ pc[2] = 2 /\ work[2] = work[3] + 1
    BY <1>6, StoresItsOwn DEF Done
  <2>2. Begun = work[3] + 1 /\ Begun > 0
    BY <1>2, <2>1 DEF Begun
  <2>3. picture = Whole(work[3] + 1)
    BY <1>1, <2>2 DEF Rounds
  <2>4. saved' = Append(saved, picture) /\ UNCHANGED <<frames, slot, tail, head, picture>>
    BY <1>6 DEF RingDone, SeqFrameStore
  <2>5. work'[3] = work[3] + 1
    BY <1>2, <1>6
  <2>6. /\ picture \in [frame : Int, whole : BOOLEAN] /\ saved \in Seq([frame : Int, whole : BOOLEAN])
        /\ Len(saved) = work[3]
    BY <1>1, <1>2, <2>3 DEF Whole, Saved
  <2>7. /\ saved' \in Seq([frame : Int, whole : BOOLEAN]) /\ Len(saved') = work'[3]
    BY <2>4, <2>5, <2>6
  <2>8. \A i \in 1 .. Len(saved') : saved'[i] = Whole(i)
    <3> SUFFICES ASSUME NEW i \in 1 .. Len(saved') PROVE saved'[i] = Whole(i)
      OBVIOUS
    <3>1. CASE i = Len(saved) + 1
      BY <2>3, <2>4, <2>6, <3>1
    <3>2. CASE i # Len(saved) + 1
      <4>1. i \in 1 .. Len(saved)
        BY <1>2, <2>5, <2>6, <2>7, <3>2
      <4>2. saved'[i] = saved[i]
        BY <2>4, <2>6, <4>1
      <4> QED BY <1>1, <4>1, <4>2 DEF Saved
    <3> QED BY <3>1, <3>2
  <2>9. ~abortTest' => work'[3] < Stores
    <3> SUFFICES ASSUME ~abortTest' PROVE work'[3] < Stores
      OBVIOUS
    <3>1. ~AsksForShutdown(3)
      BY <1>6 DEF Done
    <3>2. Len(saved) + 1 # Stores
      BY <3>1 DEF AsksForShutdown, StoreLimit
    <3>3. work[3] < Stores /\ Stores \in Nat
      BY <1>1, <2>1, RingAssumption DEF Saved, RingAssumption
    <3> QED BY <1>2, <2>5, <2>6, <3>2, <3>3
  <2>10. Rounds'
    BY <1>1, <1>3, <1>4, <2>4 DEF Rounds, Whole
  <2> QED BY <2>7, <2>8, <2>9, <2>10 DEF Saved, Whole
<1>7. RingBegin(3) => UNCHANGED ringVars
  BY DEF RingBegin
<1> QED BY <1>1, <1>5, <1>6, <1>7, ServeMoves

(* Every step keeps the tallies and the ring.                               *)
LEMMA StepPInv == ASSUME PInv, [Next]_vars PROVE PInv'
<1>1. FInv' /\ punctual' = punctual /\ (HasRing' <=> HasRing)
  BY StepFInv, ProgramKept DEF PInv
<1>2. CASE HasRing
  <2>1. Asked' /\ Timely'
    BY <1>2, StepAsked, StepTimely
  <2>2. ASSUME punctual PROVE Quiet' /\ Rounds' /\ Saved'
    <3>1. Quiet /\ Rounds /\ Saved /\ Services = 1 .. 3
      BY <1>2, <2>2, RingPrograms DEF PInv, FInv, DInv, CInv, IInv
    <3>2. CASE Drive
      BY <1>2, <3>1, <3>2, DriveQuiet, DriveRounds
    <3>3. ASSUME NEW s \in 1 .. 3, Serve(s) PROVE Quiet' /\ Rounds' /\ Saved'
      <4>1. Quiet'
        BY <1>2, <2>2, <3>3, ServeQuiet
      <4>2. s = 1 \/ s = 2 \/ s = 3
        OBVIOUS
      <4> QED BY <1>2, <2>2, <3>3, <4>1, <4>2, ReaderRounds, ConverterRounds, StoreRounds
    <3>4. CASE UNCHANGED vars
      <4>1. /\ UNCHANGED <<program, stage, k, cycle, abortTest, sem, abort, pc, work>>
            /\ UNCHANGED <<frames, slot, tail, head, picture, saved>> /\ P' = P
        BY <3>4, SameProgram DEF vars, seqVars, ringVars
      <4>2. Quiet'
        BY <3>1, <4>1 DEF Quiet, Pending, StillDue, Due
      <4>3. Begun' = Begun
        BY <4>1 DEF Begun
      <4> QED BY <3>1, <4>1, <4>2, <4>3 DEF Rounds, Saved, Whole
    <3>5. ~NoFrame
      BY <2>2 DEF NoFrame
    <3> QED BY <3>1, <3>2, <3>3, <3>4, <3>5 DEF Next
  <2> QED BY <1>1, <1>2, <2>1, <2>2 DEF PInv
<1>3. CASE ~HasRing
  <2>1. saved' = saved
    BY <1>3 DEF Next, Drive, Serve, RingBegin, RingDone, NoFrame, vars, ringVars
  <2> QED BY <1>1, <1>3, <2>1 DEF PInv
<1> QED BY <1>2, <1>3

(* At the start nothing is converted and nothing stored.                    *)
LEMMA InitPInv == Init => PInv
<1> SUFFICES ASSUME Init PROVE PInv
  OBVIOUS
<1>1. FInv /\ saved = <<>>
  BY InitFInv DEF Init
<1>2. ASSUME HasRing PROVE Asked /\ Timely /\ Quiet /\ Rounds /\ Saved
  <2>1. Services = 1 .. 3
    BY <1>1, <1>2, RingPrograms DEF FInv, DInv, CInv, IInv
  <2>2. /\ stage = "startup" /\ abortTest = FALSE /\ \A s \in Services : ~abort[s]
        /\ pc[2] = 0 /\ sem[2] = 0 /\ work[2] = 0 /\ work[3] = 0
        /\ frames = 0 /\ tail = 0 /\ head = 0 /\ slot = [i \in 0 .. 2 |-> -1]
    BY <2>1 DEF Init, SeqInit, RingSize
  <2>3. Asked /\ Timely /\ Quiet
    BY <2>2 DEF Asked, Timely, Quiet, Hand
  <2>4. Rounds
    BY <2>2 DEF Rounds, Begun
  <2>5. Saved
    BY <1>1, <2>2, RingAssumption DEF Saved, RingAssumption
  <2> QED BY <2>3, <2>4, <2>5
<1> QED BY <1>1, <1>2 DEF PInv

(* Every picture that S3 stores is one whole frame, the newest of its       *)
(* second, whatever the camera, the cores' other threads and the sequencer  *)
(* do between the steps of the services: no lock is needed where the rates, *)
(* the priorities and the common core are those of seqv4, and no service    *)
(* needs three periods of S1.                                               *)
THEOREM StoredPicturesAreSound == Spec => []PicturesAreSound
<1>1. PInv => PicturesAreSound
  <2> SUFFICES ASSUME PInv PROVE PicturesAreSound
    OBVIOUS
  <2>1. HasRing => ~(At(2) = "done" /\ At(3) = "done")
    <3> SUFFICES ASSUME HasRing PROVE ~(At(2) = "done" /\ At(3) = "done")
      OBVIOUS
    <3>1. Apart /\ Shape
      BY DEF PInv, FInv, RInv, DInv, CInv, IInv
    <3> QED BY <3>1, RingPrograms DEF Apart
  <2>2. ASSUME punctual, NEW i \in DOMAIN saved
        PROVE  saved[i] = [frame |-> 5 * i, whole |-> TRUE]
    <3>1. HasRing
      BY <2>2 DEF PInv
    <3>2. Saved
      BY <2>2, <3>1 DEF PInv
    <3>3. i \in 1 .. Len(saved)
      BY <2>2, <3>2 DEF Saved
    <3>4. saved[i] = Whole(i)
      BY <3>2, <3>3, Zenon DEF Saved
    <3> QED BY <3>4 DEF Whole
  <2> QED BY <2>1, <2>2 DEF PicturesAreSound
<1> QED BY <1>1, InitPInv, StepPInv, PTL DEF Spec
=============================================================================
