------------------------- MODULE VideoCapture_proofs -------------------------
(***************************************************************************)
(* Theorems about the one-threaded capture programs, for any number of     *)
(* buffers and frames, any grant and pixel format of the driver, and any   *)
(* call that fails, finds nothing or is interrupted.                       *)
(***************************************************************************)
EXTENDS VideoCapture, SequenceTheorems, FiniteSetTheorems, TLAPS

Before == {"open", "init", "buffers"}
Queuing == {"queue", "streamon"}
Steps == {"process", "ring", "requeue", "sleep"}
Loop == {"select", "read", "requeueCleared", "stop"} \union Steps
After == {"uninit", "close", "done"}

(* A frame is in hand from ReadFrame until it is counted; its buffer is     *)
(* dequeued until VIDIOC_QBUF, which simple_capture_linux calls before its  *)
(* sleep.                                                                   *)
InHand == pc \in Steps
Dequeued ==
    InHand /\ program # "read" /\ ~(pc = "sleep" /\ program \in {"mmap", "userptr"})
ToStore ==
    \/ pc \in {"process", "ring"}
    \/ pc = "sleep" /\ program = "library"

(* The frames that were read, and those of them that were stored or not.    *)
FramesRead == IF InHand THEN taken + 1 ELSE taken
FramesSeen == IF InHand /\ ~ToStore THEN taken + 1 ELSE taken

Typed ==
    /\ TypeOK
    /\ stored \in Seq(Int)
    /\ ring \in [slot : [0 .. RingSize - 1 -> Int],
                 tail : 0 .. RingSize - 1, head : 0 .. RingSize - 1]

(* The calls that each program makes.                                       *)
OwnCalls ==
    /\ pc = "process" => program # "library"
    /\ pc = "ring" => program = "library"
    /\ pc = "requeue" => program # "read"
    /\ pc = "requeueCleared" => program = "concurrent" /\ held = 0
    /\ pc # "exit" => (holds <=> Dequeued)

(* What the driver has at each stage of the program.                        *)
Device ==
    /\ pc \in Before =>
          /\ ~streaming /\ mapped = {} /\ granted = 0
          /\ queued = <<>> /\ filled = <<>> /\ held = 0
    /\ pc \in Queuing =>
          /\ program # "read" /\ ~streaming /\ filled = <<>>
          /\ queued = [i \in 1 .. Len(queued) |-> i - 1]
          /\ \E m \in 1 .. Buffers :
                /\ mapped = 0 .. m - 1
                /\ program # "userptr" => granted = m
                /\ IF pc = "queue" THEN Len(queued) < m ELSE Len(queued) = m
          /\ Len(queued) <= granted
    /\ pc \in Loop =>
          IF program = "read"
          THEN ~streaming /\ mapped = {0} /\ queued = <<>> /\ filled = <<>> /\ held = 0
          ELSE streaming /\ 0 \in mapped /\ mapped \subseteq 0 .. granted - 1
    /\ pc \in After \union {"exit"} => ~streaming /\ queued = <<>> /\ filled = <<>>
    /\ pc \in {"close", "done"} => mapped = {}
    /\ pc = "done" => ~opened

(* EachBufferOnce, for the two queues of the driver one by one.             *)
Owned ==
    streaming =>
        /\ IsInjective(queued) /\ IsInjective(filled)
        /\ ToSet(queued) \intersect ToSet(filled) = {}
        /\ mapped = ToSet(queued) \union ToSet(filled) \union (IF holds THEN {held} ELSE {})
        /\ holds => held \notin ToSet(queued) \union ToSet(filled)

(* The frames that wait in the driver follow those that were read.          *)
Flow ==
    /\ pc \in Before \union Queuing => taken = 0 /\ shots = 0
    /\ pc \in Loop \ {"stop"} => taken < P.takes
    /\ pc \in {"stop"} \union After => taken = P.takes
    /\ pc \in Loop =>
          /\ shots = FramesRead + Len(filled)
          /\ \A i \in 1 .. Len(filled) : content[filled[i]] = FramesRead + i - 1
          /\ ToStore => content[held] = taken

(* The frames that were stored, and the format, which is known after        *)
(* VIDIOC_S_FMT.                                                            *)
Storing ==
    /\ ring.tail = ring.head
    /\ pc \in {"open", "init"} => stored = <<>>
    /\ pc \notin {"open", "init", "exit"} => format # "none"
    /\ format \in {"none", "other"} => stored = <<>>
    /\ Converts =>
          /\ \A i \in 1 .. Len(stored) : stored[i] >= 0
          /\ \A i \in 1 .. Len(stored) - 1 : stored[i] < stored[i + 1]
          /\ pc # "exit" => \A i \in 1 .. Len(stored) : stored[i] < FramesSeen
    /\ pc # "exit" /\ format # "other" /\ ~cut =>
          /\ Len(stored) = IF FramesSeen > FirstStored THEN FramesSeen - FirstStored ELSE 0
          /\ \A i \in 1 .. Len(stored) : stored[i] = Picture(FirstStored + i - 1)

IInv == Typed /\ OwnCalls /\ Device /\ Owned /\ OwnBuffersAccepted /\ Flow /\ Storing

-----------------------------------------------------------------------------
(* A buffer that is not in a queue can be appended to it.                   *)
LEMMA AppendOnce ==
    ASSUME NEW S, NEW s \in Seq(S), NEW e \in S, e \notin ToSet(s), IsInjective(s)
    PROVE  IsInjective(Append(s, e)) /\ ToSet(Append(s, e)) = ToSet(s) \union {e}
  <1> DEFINE t == Append(s, e)
  <1>1. /\ Len(s) \in Nat /\ DOMAIN s = 1 .. Len(s) /\ DOMAIN t = 1 .. Len(s) + 1
        /\ \A i \in 1 .. Len(s) : t[i] = s[i]
        /\ t[Len(s) + 1] = e
    OBVIOUS
  <1>2. \A i \in 1 .. Len(s) : s[i] # e
    BY <1>1 DEF ToSet
  <1> HIDE DEF t
  <1>3. IsInjective(t)
    BY <1>1, <1>2 DEF IsInjective
  <1>4. ToSet(t) = ToSet(s) \union {e}
    <2>1. ASSUME NEW x PROVE x \in ToSet(t) <=> x \in ToSet(s) \union {e}
      <3>1. x \in ToSet(t) <=> \E i \in 1 .. Len(s) + 1 : x = t[i]
        BY <1>1 DEF ToSet
      <3>2. x \in ToSet(s) <=> \E i \in 1 .. Len(s) : x = s[i]
        BY <1>1 DEF ToSet
      <3>3. \A i \in 1 .. Len(s) + 1 : i \in 1 .. Len(s) \/ i = Len(s) + 1
        BY <1>1
      <3>4. Len(s) + 1 \in 1 .. Len(s) + 1 /\ \A i \in 1 .. Len(s) : i \in 1 .. Len(s) + 1
        BY <1>1
      <3> QED
        BY <1>1, <3>1, <3>2, <3>3, <3>4
    <2> QED
      BY <2>1
  <1> QED
    BY <1>3, <1>4 DEF t

(* The head of a queue without duplicates is gone once it is removed.       *)
LEMMA TailOnce ==
    ASSUME NEW S, NEW s \in Seq(S), s # <<>>, IsInjective(s)
    PROVE  /\ IsInjective(Tail(s)) /\ Head(s) \in ToSet(s)
           /\ ToSet(Tail(s)) = ToSet(s) \ {Head(s)}
  <1> DEFINE t == Tail(s)
  <1>1. /\ Len(s) \in Nat \ {0} /\ DOMAIN s = 1 .. Len(s) /\ DOMAIN t = 1 .. Len(s) - 1
        /\ \A i \in 1 .. Len(s) - 1 : t[i] = s[i + 1]
        /\ Head(s) = s[1]
    OBVIOUS
  <1> HIDE DEF t
  <1>2. IsInjective(t)
    BY <1>1 DEF IsInjective
  <1>3. Head(s) \in ToSet(s)
    BY <1>1 DEF ToSet
  <1>4. ASSUME NEW x PROVE x \in ToSet(t) <=> x \in ToSet(s) \ {Head(s)}
    <2>1. x \in ToSet(t) <=> \E i \in 1 .. Len(s) - 1 : x = t[i]
      BY <1>1 DEF ToSet
    <2>2. x \in ToSet(s) <=> \E i \in 1 .. Len(s) : x = s[i]
      BY <1>1 DEF ToSet
    <2>3. ASSUME NEW i \in 1 .. Len(s) - 1, x = t[i] PROVE x \in ToSet(s) \ {Head(s)}
      <3>1. i + 1 \in 1 .. Len(s) /\ i + 1 # 1 /\ 1 \in 1 .. Len(s) /\ x = s[i + 1]
        BY <1>1, <2>3
      <3>2. s[i + 1] # s[1]
        BY <1>1, <3>1 DEF IsInjective
      <3> QED
        BY <1>1, <2>2, <3>1, <3>2
    <2>4. ASSUME NEW i \in 1 .. Len(s), x = s[i], x # s[1] PROVE x \in ToSet(t)
      <3>1. i - 1 \in 1 .. Len(s) - 1 /\ (i - 1) + 1 = i
        BY <1>1, <2>4
      <3>2. t[i - 1] = s[i]
        BY <1>1, <3>1
      <3> QED
        BY <2>1, <2>4, <3>1, <3>2
    <2> QED
      BY <1>1, <2>1, <2>2, <2>3, <2>4
  <1> QED
    BY <1>2, <1>3, <1>4 DEF t

(* Two queues without a buffer in common have no duplicates together.       *)
LEMMA JoinOnce ==
    ASSUME NEW S, NEW s \in Seq(S), NEW t \in Seq(S), IsInjective(s), IsInjective(t),
           ToSet(s) \intersect ToSet(t) = {}
    PROVE  IsInjective(s \o t) /\ ToSet(s \o t) = ToSet(s) \union ToSet(t)
  <1> DEFINE u == s \o t
  <1>1. /\ Len(s) \in Nat /\ Len(t) \in Nat
        /\ DOMAIN s = 1 .. Len(s) /\ DOMAIN t = 1 .. Len(t)
        /\ DOMAIN u = 1 .. Len(s) + Len(t)
        /\ \A i \in 1 .. Len(s) + Len(t) :
              u[i] = IF i <= Len(s) THEN s[i] ELSE t[i - Len(s)]
    BY ConcatProperties
  <1> HIDE DEF u
  <1>2. /\ \A i \in 1 .. Len(s) : s[i] \in ToSet(s)
        /\ \A i \in 1 .. Len(t) : t[i] \in ToSet(t)
    BY <1>1 DEF ToSet
  <1>3. ASSUME NEW i \in 1 .. Len(s) + Len(t)
        PROVE  \/ i \in 1 .. Len(s) /\ u[i] = s[i] /\ u[i] \in ToSet(s)
               \/ ~(i \in 1 .. Len(s)) /\ i - Len(s) \in 1 .. Len(t)
                  /\ u[i] = t[i - Len(s)] /\ u[i] \in ToSet(t)
    <2>1. CASE i <= Len(s)
      BY <1>1, <1>2, <2>1
    <2>2. CASE ~(i <= Len(s))
      <3>1. i - Len(s) \in 1 .. Len(t)
        BY <1>1, <2>2
      <3> QED
        BY <1>1, <1>2, <2>2, <3>1
    <2> QED
      BY <2>1, <2>2
  <1>4. ASSUME NEW i \in 1 .. Len(s) + Len(t), NEW j \in 1 .. Len(s) + Len(t), u[i] = u[j]
        PROVE  i = j
    <2>1. CASE i \in 1 .. Len(s) /\ j \in 1 .. Len(s)
      BY <1>1, <1>3, <1>4, <2>1 DEF IsInjective
    <2>2. CASE ~(i \in 1 .. Len(s)) /\ ~(j \in 1 .. Len(s))
      <3>1. i - Len(s) \in 1 .. Len(t) /\ j - Len(s) \in 1 .. Len(t)
            /\ t[i - Len(s)] = t[j - Len(s)]
        BY <1>3, <1>4, <2>2
      <3>2. i - Len(s) = j - Len(s)
        BY <1>1, <3>1 DEF IsInjective
      <3> QED
        BY <1>1, <3>2
    <2>3. CASE i \in 1 .. Len(s) /\ ~(j \in 1 .. Len(s))
      BY <1>3, <1>4, <2>3
    <2>4. CASE ~(i \in 1 .. Len(s)) /\ j \in 1 .. Len(s)
      BY <1>3, <1>4, <2>4
    <2> QED
      BY <2>1, <2>2, <2>3, <2>4
  <1>5. ASSUME NEW x PROVE x \in ToSet(u) <=> x \in ToSet(s) \union ToSet(t)
    <2>1. x \in ToSet(u) <=> \E i \in 1 .. Len(s) + Len(t) : x = u[i]
      BY <1>1 DEF ToSet
    <2>2. ASSUME NEW i \in 1 .. Len(s) PROVE \E j \in 1 .. Len(s) + Len(t) : s[i] = u[j]
      <3>1. i \in 1 .. Len(s) + Len(t) /\ u[i] = s[i]
        BY <1>1
      <3> QED
        BY <3>1
    <2>3. ASSUME NEW i \in 1 .. Len(t) PROVE \E j \in 1 .. Len(s) + Len(t) : t[i] = u[j]
      <3>1. Len(s) + i \in 1 .. Len(s) + Len(t) /\ ~(Len(s) + i <= Len(s))
            /\ (Len(s) + i) - Len(s) = i
        BY <1>1
      <3>2. u[Len(s) + i] = t[i]
        BY <1>1, <3>1
      <3> QED
        BY <3>1, <3>2
    <2>4. x \in ToSet(s) <=> \E i \in 1 .. Len(s) : x = s[i]
      BY <1>1 DEF ToSet
    <2>5. x \in ToSet(t) <=> \E i \in 1 .. Len(t) : x = t[i]
      BY <1>1 DEF ToSet
    <2> QED
      BY <1>3, <2>1, <2>2, <2>3, <2>4, <2>5
  <1> QED
    BY <1>1, <1>4, <1>5 DEF u, IsInjective

-----------------------------------------------------------------------------
(* What the programs are, as far as the proofs distinguish them.            *)
LEMMA Table ==
    ASSUME program \in DOMAIN Programs
    PROVE  /\ program \in {"read", "mmap", "userptr", "library", "concurrent"}
           /\ program = "read" => P.io = "read"
           /\ program = "userptr" => P.io = "userptr"
           /\ program \in {"mmap", "library", "concurrent"} => P.io = "mmap"
           /\ P.requeues <=> program = "concurrent"
           /\ program = "read" => P.steps = <<"process", "sleep">>
           /\ program \in {"mmap", "userptr"} => P.steps = <<"process", "requeue", "sleep">>
           /\ program = "library" => P.steps = <<"sleep", "ring", "requeue">>
           /\ program = "concurrent" => P.steps = <<"process", "sleep", "requeue">>
           /\ P.takes \in Nat /\ P.first \in Nat /\ P.first < P.takes
           /\ program = "library" => P.takes - P.first = Capture
  <1>1. DOMAIN Programs = {"read", "mmap", "userptr", "library", "concurrent"}
    BY DEF Programs
  <1>2. /\ Capture \in Nat /\ Startup \in Nat /\ Startup >= 1 /\ Capture >= Startup
    BY CaptureAssumption DEF CaptureAssumption
  <1>3. CASE program = "read"
    <2>1. P = LinuxRead
      BY <1>3 DEF P, Programs
    <2> QED
      BY <1>1, <1>2, <1>3, <2>1 DEF LinuxRead
  <1>4. CASE program = "mmap"
    <2>1. P = LinuxMmap
      BY <1>4 DEF P, Programs
    <2> QED
      BY <1>1, <1>2, <1>4, <2>1 DEF LinuxMmap
  <1>5. CASE program = "userptr"
    <2>1. P = LinuxUserptr
      BY <1>5 DEF P, Programs
    <2> QED
      BY <1>1, <1>2, <1>5, <2>1 DEF LinuxUserptr
  <1>6. CASE program = "library"
    <2>1. P = Library
      BY <1>6 DEF P, Programs
    <2> QED
      BY <1>1, <1>2, <1>6, <2>1 DEF Library, LastFrames
  <1>7. CASE program = "concurrent"
    <2>1. P = Concurrent
      BY <1>7 DEF P, Programs
    <2> QED
      BY <1>1, <1>2, <1>7, <2>1 DEF Concurrent
  <1> QED
    BY <1>1, <1>3, <1>4, <1>5, <1>6, <1>7

(* The place of a call among different calls is what CHOOSE finds.          *)
LEMMA PlaceOf ==
    ASSUME NEW s, NEW i \in DOMAIN s, \A j \in DOMAIN s : s[j] = s[i] => j = i
    PROVE  (CHOOSE j \in DOMAIN s : s[j] = s[i]) = i
  OBVIOUS

Goes(next) == pc' = next /\ taken' = taken
Counts == taken' = taken + 1 /\ pc' = IF taken' = P.takes THEN "stop" ELSE "select"

(* NextStep at the first, second and third call of a program.               *)
LEMMA ThreeSteps ==
    ASSUME NEW x, NEW y, NEW z, x # y, x # z, y # z, P.steps = <<x, y, z>>
    PROVE  /\ NextStep(x) => Goes(y)
           /\ NextStep(y) => Goes(z)
           /\ NextStep(z) => Counts
  <1>1. DOMAIN P.steps = 1 .. 3 /\ Len(P.steps) = 3
        /\ P.steps[1] = x /\ P.steps[2] = y /\ P.steps[3] = z
    OBVIOUS
  <1>2. /\ (CHOOSE j \in DOMAIN P.steps : P.steps[j] = x) = 1
        /\ (CHOOSE j \in DOMAIN P.steps : P.steps[j] = y) = 2
        /\ (CHOOSE j \in DOMAIN P.steps : P.steps[j] = z) = 3
    BY <1>1
  <1> QED
    BY <1>1, <1>2 DEF NextStep, Goes, Counts

(* The same for read(), which has nothing to queue.                         *)
LEMMA TwoSteps ==
    ASSUME NEW x, NEW y, x # y, P.steps = <<x, y>>
    PROVE  /\ NextStep(x) => Goes(y)
           /\ NextStep(y) => Counts
  <1>1. DOMAIN P.steps = 1 .. 2 /\ Len(P.steps) = 2
        /\ P.steps[1] = x /\ P.steps[2] = y
    OBVIOUS
  <1>2. /\ (CHOOSE j \in DOMAIN P.steps : P.steps[j] = x) = 1
        /\ (CHOOSE j \in DOMAIN P.steps : P.steps[j] = y) = 2
    BY <1>1
  <1> QED
    BY <1>1, <1>2 DEF NextStep, Goes, Counts

(* Where each call leads in each program.                                   *)
LEMMA AfterStep ==
    ASSUME program \in DOMAIN Programs
    PROVE  /\ program # "library" /\ NextStep("process") =>
                  Goes(IF program \in {"mmap", "userptr"} THEN "requeue" ELSE "sleep")
           /\ program = "library" /\ NextStep("ring") => Goes("requeue")
           /\ NextStep("sleep") => CASE program = "library" -> Goes("ring")
                                    [] program = "concurrent" -> Goes("requeue")
                                    [] OTHER -> Counts
           /\ program # "read" /\ NextStep("requeue") =>
                  IF program \in {"mmap", "userptr"} THEN Goes("sleep") ELSE Counts
  <1>1. CASE program = "read"
    BY <1>1, Table, TwoSteps
  <1>2. CASE program \in {"mmap", "userptr"}
    BY <1>2, Table, ThreeSteps
  <1>3. CASE program = "library"
    BY <1>3, Table, ThreeSteps
  <1>4. CASE program = "concurrent"
    BY <1>4, Table, ThreeSteps
  <1> QED
    BY <1>1, <1>2, <1>3, <1>4, Table

-----------------------------------------------------------------------------
(* Every program starts with nothing.                                       *)
LEMMA InitIInv == Init => IInv
  <1> SUFFICES ASSUME Init PROVE IInv
    OBVIOUS
  <1>1. Buffers \in Nat /\ Buffers >= 2
    BY CaptureAssumption DEF CaptureAssumption
  <1>2. /\ P.takes \in Nat /\ P.first \in Nat
    BY Table DEF Init
  <1>3. Typed
    <2>1. /\ queued \in Seq(Buffer) /\ filled \in Seq(Buffer) /\ stored \in Seq(Int)
          /\ mapped \subseteq Buffer /\ held \in Buffer /\ granted \in 0 .. Buffers
      BY <1>1 DEF Init, Buffer
    <2>2. content \in [Buffer -> Nat \union {-1}] /\ shots \in Nat /\ taken \in 0 .. P.takes
      BY <1>2 DEF Init
    <2>3. ring \in [slot : [0 .. RingSize - 1 -> Int],
                    tail : 0 .. RingSize - 1, head : 0 .. RingSize - 1]
      BY DEF Init, RingSize
    <2> QED
      BY <2>1, <2>2, <2>3 DEF Init, Typed, TypeOK
  <1>4. OwnCalls /\ Device /\ Owned /\ OwnBuffersAccepted
    BY DEF Init, OwnCalls, Device, Owned, OwnBuffersAccepted, Dequeued, InHand, Steps,
           Before, Queuing, Loop, After
  <1>5. Flow
    BY DEF Init, Flow, Before, Queuing, Loop, After, Steps
  <1>6. Storing
    BY <1>2 DEF Init, Storing, FirstStored, Converts, Picture, FramesSeen, InHand, Steps
  <1> QED
    BY <1>3, <1>4, <1>5, <1>6 DEF IInv

(* At the end of the process the kernel has taken everything back.          *)
LEMMA ExitIInv ==
    ASSUME IInv, pc' = "exit", streaming' = FALSE, queued' = <<>>, filled' = <<>>,
           opened' = FALSE, mapped' = {}, granted' = 0,
           UNCHANGED <<program, format, content, shots, held, holds, taken, ring, stored, cut>>,
           rejected' \in BOOLEAN, OwnBuffersAccepted'
    PROVE  IInv'
  <1>1. P' = P
    BY DEF P
  <1>2. Typed'
    <2>1. queued' \in Seq(Buffer) /\ filled' \in Seq(Buffer) /\ mapped' \subseteq Buffer
      OBVIOUS
    <2>2. granted' \in 0 .. Buffers
      BY CaptureAssumption DEF CaptureAssumption
    <2> QED
      BY <1>1, <2>1, <2>2 DEF IInv, Typed, TypeOK
  <1>3. OwnCalls' /\ Device' /\ Owned' /\ Flow'
    BY DEF OwnCalls, Device, Owned, Flow, Before, Queuing, Loop, After, Steps, ToStore
  <1>4. Storing'
    BY DEF IInv, Storing, FirstStored, Converts, Picture
  <1> QED
    BY <1>2, <1>3, <1>4 DEF IInv

(* errno_exit, and two seconds without a frame.                             *)
LEMMA FailIInv == ASSUME IInv, Fail PROVE IInv'
  <1>1. OwnBuffersAccepted' /\ rejected' \in BOOLEAN
    BY DEF Fail, loopVars, IInv, OwnBuffersAccepted, P, Typed, TypeOK
  <1> QED
    BY <1>1, ExitIInv DEF Fail, loopVars

(* A refused buffer, in the two programs that have such buffers.            *)
LEMMA RejectedIInv ==
    ASSUME IInv, Rejected, program \in {"concurrent", "userptr"}
    PROVE  IInv'
  <1>1. OwnBuffersAccepted' /\ rejected' \in BOOLEAN
    <2>1. program \in DOMAIN Programs
      BY DEF IInv, Typed, TypeOK
    <2>2. P.requeues \/ P.io = "userptr"
      BY <2>1, Table
    <2>3. P' = P
      BY DEF Rejected, P
    <2> QED
      BY <2>2, <2>3 DEF Rejected, OwnBuffersAccepted
  <1> QED
    BY <1>1, ExitIInv DEF Rejected

(* Up to VIDIOC_REQBUFS the driver has nothing, and nothing is stored,      *)
(* whatever format it has chosen.                                           *)
LEMMA OpenDeviceIInv == ASSUME IInv, OpenDevice \/ InitDevice PROVE IInv'
  <1>1. /\ pc \in {"open", "init"} /\ pc' \in {"init", "buffers"} /\ opened' \in BOOLEAN
        /\ UNCHANGED <<program, mapped, granted, streaming, driverVars>>
        /\ UNCHANGED <<held, holds, taken, ring, stored, cut, rejected>>
        /\ format' \in AsIs \union {"none", "yuyv", "other"}
        /\ \/ pc' = "init" /\ format' = format
           \/ pc' = "buffers" /\ format' # "none"
    BY DEF OpenDevice, InitDevice, deviceVars, loopVars, AsIs, IInv, Typed, TypeOK
  <1>2. P' = P /\ program \in DOMAIN Programs /\ P.first \in Nat
    BY <1>1, Table DEF P, IInv, Typed, TypeOK
  <1> USE DEF driverVars
  <1>3. Typed'
    BY <1>1, <1>2 DEF IInv, Typed, TypeOK
  <1>4. OwnCalls' /\ Device' /\ Owned' /\ OwnBuffersAccepted'
    BY <1>1, <1>2 DEF IInv, OwnCalls, Device, Owned, OwnBuffersAccepted, Dequeued, InHand,
                      Steps, Before, Queuing, Loop, After
  <1>5. Flow'
    BY <1>1, <1>2 DEF IInv, Flow, Before, Queuing, Loop, After, Steps
  <1>6. Storing'
    <2>1. taken = 0 /\ FramesSeen' = 0
      BY <1>1 DEF IInv, Flow, FramesSeen, InHand, Steps, Before, Queuing
    <2>2. stored' = <<>> /\ Len(stored') = 0
      BY <1>1 DEF IInv, Storing
    <2>3. FirstStored' \in Nat
      BY <1>1, <1>2 DEF FirstStored
    <2>4. ring'.tail = ring'.head
      BY <1>1 DEF IInv, Storing
    <2>5. pc' \notin {"open", "init", "exit"} => format' # "none"
      BY <1>1
    <2>6. ~(FramesSeen' > FirstStored')
      BY <2>1, <2>3
    <2> QED
      BY <2>2, <2>4, <2>5, <2>6 DEF Storing
  <1> QED
    BY <1>3, <1>4, <1>5, <1>6 DEF IInv

(* read() needs a buffer of the program's own only.                         *)
LEMMA InitReadIInv == ASSUME IInv, InitRead PROVE IInv'
  <1>1. /\ pc = "buffers" /\ pc' = "select" /\ mapped' = {0}
        /\ UNCHANGED <<program, opened, granted, streaming, driverVars, loopVars>>
    BY DEF InitRead
  <1>2. P' = P /\ program \in DOMAIN Programs
    BY <1>1 DEF P, IInv, Typed, TypeOK
  <1>3. program = "read" /\ P.takes \in Nat /\ P.takes > 0 /\ P.first \in Nat
    BY <1>2, Table DEF InitRead
  <1>4. 0 \in Buffer
    BY CaptureAssumption DEF CaptureAssumption, Buffer
  <1> USE DEF driverVars, loopVars
  <1>5. Typed'
    BY <1>1, <1>2, <1>4 DEF IInv, Typed, TypeOK
  <1>6. Device'
    BY <1>1, <1>3 DEF IInv, Device, Before, Queuing, Loop, After, Steps
  <1>7. OwnCalls' /\ Owned' /\ OwnBuffersAccepted'
    BY <1>1, <1>2 DEF IInv, OwnCalls, Device, Owned, OwnBuffersAccepted, Dequeued, InHand,
                      Steps, Before
  <1>8. Flow'
    BY <1>1, <1>2, <1>3 DEF IInv, Device, Flow, Before, Queuing, Loop, After, Steps, FramesRead,
                      InHand, ToStore
  <1>9. Storing'
    BY <1>1, <1>2 DEF IInv, Storing, FirstStored, Converts, Picture, FramesSeen, InHand, Steps
  <1> QED
    BY <1>5, <1>6, <1>7, <1>8, <1>9 DEF IInv

(* The buffers that init_mmap maps are those that were granted, ...         *)
LEMMA InitBuffersIInv == ASSUME IInv, InitMmap \/ InitUserp PROVE IInv'
  <1>1. /\ pc = "buffers" /\ pc' = "queue"
        /\ UNCHANGED <<program, opened, streaming, driverVars, loopVars>>
    BY DEF InitMmap, InitUserp
  <1>2. P' = P /\ program \in DOMAIN Programs /\ Buffers \in Nat /\ Buffers >= 2
    BY <1>1, CaptureAssumption DEF P, IInv, Typed, TypeOK, CaptureAssumption
  <1>3. PICK m \in 1 .. Buffers :
            /\ mapped' = 0 .. m - 1 /\ granted' \in 1 .. Buffers
            /\ program # "userptr" => granted' = m
    <2>1. CASE InitMmap
      <3>1. granted' \in 1 .. Buffers /\ mapped' = 0 .. granted' - 1
        BY <1>2, <2>1 DEF InitMmap
      <3> QED
        BY <3>1
    <2>2. CASE InitUserp
      <3>1. program = "userptr"
        BY <1>2, <2>2, Table DEF InitUserp
      <3> QED
        BY <1>2, <2>2, <3>1 DEF InitUserp, Buffer
    <2> QED
      BY <2>1, <2>2
  <1>4. program # "read"
    BY <1>2, Table DEF InitMmap, InitUserp
  <1> USE DEF driverVars, loopVars
  <1>5. queued' = <<>> /\ filled' = <<>> /\ ~streaming'
    BY <1>1 DEF IInv, Device, Before
  <1>6. Typed'
    <2>1. mapped' \subseteq Buffer /\ granted' \in 0 .. Buffers
      BY <1>2, <1>3 DEF Buffer
    <2> QED
      BY <1>1, <1>2, <2>1 DEF IInv, Typed, TypeOK
  <1>7. Device'
    <2>1. Len(queued') = 0 /\ queued' = [i \in 1 .. Len(queued') |-> i - 1]
      BY <1>5
    <2> HIDE DEF driverVars, loopVars
    <2> QED
      BY <1>1, <1>2, <1>3, <1>4, <1>5, <2>1 DEF Device, Before, Queuing, Loop, After, Steps
  <1>8. OwnCalls' /\ Owned' /\ OwnBuffersAccepted'
    BY <1>1, <1>2, <1>5 DEF IInv, OwnCalls, Owned, OwnBuffersAccepted, Dequeued, InHand, Steps
  <1>9. Flow'
    BY <1>1, <1>2 DEF IInv, Flow, Before, Queuing, Loop, After, Steps
  <1>10. Storing'
    BY <1>1, <1>2 DEF IInv, Storing, FirstStored, Converts, Picture, FramesSeen, InHand, Steps
  <1> QED
    BY <1>6, <1>7, <1>8, <1>9, <1>10 DEF IInv

(* ... and the driver takes each of them; of the buffers of init_userp it   *)
(* takes those that it granted.                                             *)
LEMMA StartCapturingIInv == ASSUME IInv, StartCapturing PROVE IInv'
  <1> DEFINE b == Len(queued)
  <1>1. /\ pc = "queue" /\ program # "read" /\ ~streaming /\ filled = <<>> /\ granted \in Nat
        /\ b \in Nat /\ queued = [i \in 1 .. b |-> i - 1] /\ b <= granted
    BY DEF StartCapturing, IInv, Typed, TypeOK, Device, Queuing
  <1>2. PICK m \in 1 .. Buffers :
            mapped = 0 .. m - 1 /\ (program # "userptr" => granted = m) /\ b < m
    BY <1>1 DEF IInv, Device, Queuing
  <1>3. Cardinality(mapped) = m
    <2>1. Cardinality(0 .. m - 1) = IF 0 > m - 1 THEN 0 ELSE m - 1 - 0 + 1
      BY <1>2, FS_Interval
    <2> QED
      BY <1>2, <2>1
  <1>4. /\ Len(filled) = 0 /\ b + Len(filled) = b
        /\ b \notin ToSet(queued) /\ ToSet(filled) = {}
    BY <1>1 DEF ToSet
  <1>5. IF Accepts(b)
        THEN /\ queued' = Append(queued, b)
             /\ pc' = IF b + 1 = m THEN "streamon" ELSE "queue"
             /\ UNCHANGED <<program, deviceVars, filled, content, shots, loopVars>>
        ELSE Rejected
    BY <1>3, <1>4 DEF StartCapturing
  <1>6. P' = P /\ program \in DOMAIN Programs
    BY <1>5 DEF P, IInv, Typed, TypeOK, Rejected
  <1> HIDE DEF b
  <1>7. CASE ~Accepts(b)
    <2>1. program = "userptr"
      BY <1>1, <1>2, <1>4, <1>6, <1>7, Table DEF Accepts
    <2> QED
      BY <1>5, <1>7, <2>1, RejectedIInv
  <1>8. CASE Accepts(b)
    <2>1. b < granted
      BY <1>8 DEF Accepts
    <2>2. /\ queued' = Append(queued, b) /\ pc' \in {"queue", "streamon"}
          /\ pc' = IF b + 1 = m THEN "streamon" ELSE "queue"
          /\ UNCHANGED <<program, format, opened, mapped, granted, streaming, filled, content, shots>>
          /\ UNCHANGED <<held, holds, taken, ring, stored, cut, rejected>>
      BY <1>5, <1>8 DEF deviceVars, loopVars
    <2>3. b \in Buffer
      BY <1>1, <1>2, CaptureAssumption DEF Buffer, CaptureAssumption
    <2>4. queued' \in Seq(Buffer)
      BY <2>2, <2>3 DEF IInv, Typed, TypeOK
    <2>5. Len(queued') = b + 1 /\ queued' = [i \in 1 .. Len(queued') |-> i - 1]
      <3>1. Len(queued) = b
        BY DEF b
      <3>2. queued \in Seq(Buffer)
        BY DEF IInv, Typed, TypeOK
      <3>3. /\ Len(queued') = b + 1 /\ DOMAIN queued' = 1 .. b + 1 /\ queued' \in Seq(Buffer)
            /\ queued'[b + 1] = b /\ \A i \in 1 .. b : queued'[i] = queued[i]
        BY <1>1, <2>2, <2>4, <3>1, <3>2
      <3>4. \A i \in 1 .. b + 1 : queued'[i] = i - 1
        <4>1. \A i \in 1 .. b + 1 : i \in 1 .. b \/ i = b + 1
          BY <1>1
        <4> QED
          BY <1>1, <3>3, <4>1
      <3>5. queued' = [i \in 1 .. b + 1 |-> queued'[i]]
        BY <3>3
      <3> QED
        BY <3>3, <3>4, <3>5
    <2>6. Typed'
      BY <1>6, <2>2, <2>4 DEF IInv, Typed, TypeOK
    <2>7. Device'
      <3>1. IF pc' = "queue" THEN b + 1 < m ELSE b + 1 = m
        BY <1>1, <1>2, <2>2
      <3>2. b + 1 <= granted
        BY <1>1, <2>1
      <3> QED
        BY <1>1, <1>2, <2>2, <2>5, <3>1, <3>2 DEF Device, Before, Queuing, Loop, After, Steps
    <2>8. OwnCalls' /\ Owned' /\ OwnBuffersAccepted'
      BY <1>1, <1>6, <2>2 DEF IInv, OwnCalls, Owned, OwnBuffersAccepted, Dequeued, InHand, Steps
    <2>9. Flow'
      BY <1>1, <1>6, <2>2 DEF IInv, Flow, Before, Queuing, Loop, After, Steps
    <2>10. Storing'
      BY <1>1, <1>6, <2>2 DEF IInv, Storing, FirstStored, Converts, Picture, FramesSeen, InHand, Steps
    <2> QED
      BY <2>6, <2>7, <2>8, <2>9, <2>10 DEF IInv
  <1> QED
    BY <1>7, <1>8

(* VIDIOC_STREAMON finds all buffers queued, in any order.                  *)
LEMMA StreamOnIInv == ASSUME IInv, StreamOn PROVE IInv'
  <1>1. /\ pc = "streamon" /\ pc' = "select" /\ streaming' = TRUE
        /\ UNCHANGED <<program, opened, mapped, granted, driverVars, loopVars>>
    BY DEF StreamOn
  <1>2. P' = P /\ program \in DOMAIN Programs /\ queued \in Seq(Buffer) /\ granted \in Nat
    BY <1>1 DEF P, IInv, Typed, TypeOK
  <1>3. PICK m \in 1 .. Buffers : mapped = 0 .. m - 1 /\ Len(queued) = m
    BY <1>1 DEF IInv, Device, Queuing
  <1>4. /\ program # "read" /\ filled = <<>> /\ m <= granted
        /\ queued = [i \in 1 .. m |-> i - 1]
    BY <1>1, <1>3 DEF IInv, Device, Queuing
  <1>5. IsInjective(queued) /\ ToSet(queued) = 0 .. m - 1
    <2>1. DOMAIN queued = 1 .. m /\ \A i \in 1 .. m : queued[i] = i - 1
      BY <1>4
    <2>2. IsInjective(queued)
      BY <2>1 DEF IsInjective
    <2>3. \A i \in 0 .. m - 1 : i + 1 \in 1 .. m /\ (i + 1) - 1 = i
      BY <1>3
    <2>4. ToSet(queued) \subseteq 0 .. m - 1
      BY <2>1 DEF ToSet
    <2>5. 0 .. m - 1 \subseteq ToSet(queued)
      <3> SUFFICES ASSUME NEW i \in 0 .. m - 1 PROVE i \in ToSet(queued)
        OBVIOUS
      <3>1. i + 1 \in DOMAIN queued /\ queued[i + 1] = i
        BY <2>1, <2>3
      <3> QED
        BY <3>1 DEF ToSet
    <2> QED
      BY <2>2, <2>4, <2>5
  <1>6. IsInjective(filled) /\ ToSet(filled) = {} /\ Len(filled) = 0
    BY <1>4 DEF IsInjective, ToSet
  <1> USE DEF driverVars, loopVars
  <1>7. ~holds /\ ~holds'
    BY <1>1 DEF IInv, OwnCalls, Dequeued, InHand, Steps
  <1>8. Typed'
    BY <1>1, <1>2 DEF IInv, Typed, TypeOK
  <1>9. Device'
    <2>1. 0 \in mapped /\ mapped \subseteq 0 .. granted - 1
      BY <1>2, <1>3, <1>4
    <2> QED
      BY <1>1, <1>4, <2>1 DEF Device, Before, Queuing, Loop, After, Steps
  <1>10. Owned'
    BY <1>1, <1>3, <1>5, <1>6, <1>7 DEF Owned
  <1>11. OwnCalls' /\ OwnBuffersAccepted'
    BY <1>1, <1>2, <1>7 DEF IInv, OwnCalls, OwnBuffersAccepted, Dequeued, InHand, Steps
  <1>12. Flow'
    <2>1. taken = 0 /\ shots = 0 /\ P.takes \in Nat /\ P.takes > 0
      BY <1>1, <1>2, Table DEF IInv, Flow, Queuing
    <2> QED
      BY <1>1, <1>2, <1>6, <2>1 DEF Flow, Before, Queuing, Loop, After, Steps, FramesRead, InHand,
                                    ToStore
  <1>13. Storing'
    BY <1>1, <1>2 DEF IInv, Storing, FirstStored, Converts, Picture, FramesSeen, InHand, Steps
  <1> QED
    BY <1>8, <1>9, <1>10, <1>11, <1>12, <1>13 DEF IInv

(* The camera streams only in the loop, and never for read().               *)
LEMMA WhileStreaming ==
    ASSUME IInv, streaming
    PROVE  pc \in Loop /\ program # "read"
  BY DEF IInv, Typed, TypeOK, Device, Before, Queuing, Loop, After, Steps

(* The sensor takes a buffer from one queue of the driver to the other.     *)
LEMMA FillIInv == ASSUME IInv, Fill PROVE IInv'
  <1> DEFINE b == Head(queued)
  <1>1. /\ streaming /\ queued # <<>>
        /\ content' = [content EXCEPT ![b] = shots] /\ shots' = shots + 1
        /\ filled' = Append(filled, b) /\ queued' = Tail(queued)
        /\ UNCHANGED <<program, format, pc, opened, mapped, granted, streaming>>
        /\ UNCHANGED <<held, holds, taken, ring, stored, cut, rejected>>
    BY DEF Fill, deviceVars, loopVars
  <1>2. P' = P /\ pc \in Loop /\ program # "read"
    BY <1>1, WhileStreaming DEF P
  <1>3. queued \in Seq(Buffer) /\ filled \in Seq(Buffer) /\ shots \in Nat
        /\ content \in [Buffer -> Nat \union {-1}]
    BY DEF IInv, Typed, TypeOK
  <1>4. b \in Buffer /\ queued' \in Seq(Buffer) /\ filled' \in Seq(Buffer)
    BY <1>1, <1>3
  <1>5. /\ IsInjective(queued) /\ IsInjective(filled)
        /\ ToSet(queued) \intersect ToSet(filled) = {}
        /\ mapped = ToSet(queued) \union ToSet(filled) \union (IF holds THEN {held} ELSE {})
        /\ holds => held \notin ToSet(queued) \union ToSet(filled)
    BY <1>1 DEF IInv, Owned
  <1>6. /\ IsInjective(queued') /\ b \in ToSet(queued)
        /\ ToSet(queued') = ToSet(queued) \ {b}
    BY <1>1, <1>3, <1>5, TailOnce
  <1>7. b \notin ToSet(filled)
    BY <1>5, <1>6
  <1>8. IsInjective(filled') /\ ToSet(filled') = ToSet(filled) \union {b}
    BY <1>1, <1>3, <1>4, <1>5, <1>7, AppendOnce
  <1>9. /\ Len(filled') = Len(filled) + 1 /\ Len(filled) \in Nat
        /\ filled'[Len(filled) + 1] = b
        /\ \A i \in 1 .. Len(filled) : filled'[i] = filled[i] /\ filled[i] # b
                                       /\ filled[i] \in Buffer
    BY <1>1, <1>3, <1>4, <1>7 DEF ToSet
  <1> HIDE DEF b
  <1>10. Typed'
    <2>1. content' \in [Buffer -> Nat \union {-1}] /\ shots' \in Nat
      BY <1>1, <1>3, <1>4
    <2> QED
      BY <1>1, <1>2, <1>4, <2>1 DEF IInv, Typed, TypeOK
  <1>11. OwnCalls' /\ OwnBuffersAccepted'
    BY <1>1, <1>2 DEF IInv, OwnCalls, OwnBuffersAccepted, Dequeued, InHand
  <1>12. Device'
    BY <1>1, <1>2 DEF IInv, Device, Before, Queuing, Loop, After, Steps
  <1>13. Owned'
    BY <1>1, <1>5, <1>6, <1>7, <1>8 DEF Owned
  <1>14. Flow'
    <2>1. /\ shots = FramesRead + Len(filled) /\ FramesRead \in Nat
          /\ \A i \in 1 .. Len(filled) : content[filled[i]] = FramesRead + i - 1
          /\ ToStore => content[held] = taken
      BY <1>2 DEF IInv, Flow, FramesRead, Typed, TypeOK
    <2>2. FramesRead' = FramesRead /\ (ToStore' <=> ToStore)
      BY <1>1 DEF FramesRead, ToStore, InHand
    <2>3. shots' = FramesRead + Len(filled')
      BY <1>1, <1>9, <2>1
    <2>4. ASSUME NEW i \in 1 .. Len(filled') PROVE content'[filled'[i]] = FramesRead + i - 1
      <3>1. CASE i = Len(filled) + 1
        <4>1. content'[b] = shots
          BY <1>1, <1>3, <1>4
        <4> QED
          BY <1>9, <2>1, <3>1, <4>1
      <3>2. CASE i \in 1 .. Len(filled)
        <4>1. content'[filled[i]] = content[filled[i]]
          BY <1>1, <1>3, <1>9, <3>2
        <4> QED
          BY <1>9, <2>1, <3>2, <4>1
      <3> QED
        BY <1>9, <3>1, <3>2
    <2>5. ToStore => content'[held] = taken
      <3>1. ASSUME ToStore PROVE holds
        BY <1>2, <3>1 DEF IInv, OwnCalls, Dequeued, ToStore, InHand, Steps, Loop
      <3>2. ASSUME ToStore PROVE held # b /\ held \in Buffer
        BY <1>5, <1>6, <3>1, <3>2 DEF IInv, Typed, TypeOK
      <3> QED
        BY <1>1, <1>3, <2>1, <3>2
    <2> QED
      BY <1>1, <1>2, <2>2, <2>3, <2>4, <2>5 DEF IInv, Flow, Before, Queuing, Loop, After, Steps
  <1>15. Storing'
    BY <1>1, <1>2 DEF IInv, Storing, FirstStored, Converts, Picture, FramesSeen, InHand, ToStore
  <1> QED
    BY <1>10, <1>11, <1>12, <1>13, <1>14, <1>15 DEF IInv

(* A frame is there, or the last call found none: nothing is in hand.       *)
LEMMA SelectIInv == ASSUME IInv, Select PROVE IInv'
  <1>1. /\ pc = "select" /\ pc' = "read"
        /\ UNCHANGED <<program, format, opened, mapped, granted, streaming>>
        /\ UNCHANGED <<queued, filled, content, shots>>
        /\ UNCHANGED <<held, holds, taken, ring, stored, cut, rejected>>
    BY DEF Select, deviceVars, driverVars, loopVars
  <1>2. P' = P
    BY <1>1 DEF P
  <1>3. Typed'
    BY <1>1, <1>2 DEF IInv, Typed, TypeOK
  <1>4. OwnCalls' /\ Device' /\ Owned' /\ OwnBuffersAccepted'
    BY <1>1, <1>2 DEF IInv, OwnCalls, Device, Owned, OwnBuffersAccepted, Dequeued, InHand,
                      Steps, Before, Queuing, Loop, After
  <1>5. Flow'
    BY <1>1, <1>2 DEF IInv, Flow, Before, Queuing, Loop, After, Steps, FramesRead, InHand, ToStore
  <1>6. Storing'
    BY <1>1, <1>2 DEF IInv, Storing, FirstStored, Converts, Picture, FramesSeen, InHand, Steps
  <1> QED
    BY <1>3, <1>4, <1>5, <1>6 DEF IInv

(* read() and VIDIOC_DQBUF take the oldest frame, whose number is taken.    *)
LEMMA ReadFrameIInv == ASSUME IInv, ReadFrame PROVE IInv'
  <1>1. /\ pc = "read" /\ pc' = P.steps[1]
        /\ UNCHANGED <<program, format, opened, mapped, granted, streaming>>
        /\ UNCHANGED <<taken, ring, stored, cut, rejected>>
    BY DEF ReadFrame, deviceVars
  <1>2. P' = P /\ program \in DOMAIN Programs
    BY <1>1 DEF P, IInv, Typed, TypeOK
  <1>3. pc' = IF program = "library" THEN "sleep" ELSE "process"
    BY <1>1, <1>2, Table
  <1>4. ~holds /\ InHand' /\ ToStore' /\ FramesRead = taken /\ FramesRead' = taken + 1
        /\ FramesSeen = taken /\ FramesSeen' = taken
    BY <1>1, <1>3 DEF IInv, OwnCalls, Dequeued, InHand, ToStore, FramesRead, FramesSeen, Steps
  <1>5. /\ queued \in Seq(Buffer) /\ filled \in Seq(Buffer) /\ shots \in Nat /\ taken \in Nat
        /\ content \in [Buffer -> Nat \union {-1}] /\ 0 \in Buffer
    <2>1. 0 \in Buffer
      BY CaptureAssumption DEF CaptureAssumption, Buffer
    <2> QED
      BY <2>1 DEF IInv, Typed, TypeOK
  <1>6. /\ shots = taken + Len(filled) /\ taken < P.takes
        /\ \A i \in 1 .. Len(filled) : content[filled[i]] = taken + i - 1
    BY <1>1, <1>4 DEF IInv, Flow, Loop
  <1>7. Storing'
    BY <1>1, <1>2, <1>3, <1>4 DEF IInv, Storing, FirstStored, Converts, Picture
  <1>8. CASE ReadByRead
    <2>1. /\ program = "read" /\ ~streaming /\ queued = <<>> /\ filled = <<>>
          /\ content' = [content EXCEPT ![0] = shots] /\ shots' = shots + 1
          /\ held' = 0 /\ UNCHANGED <<queued, filled, holds>>
      BY <1>1, <1>2, <1>8, Table DEF ReadByRead, IInv, Device, Loop
    <2>2. Len(filled) = 0 /\ content'[0] = taken
      BY <1>5, <1>6, <2>1
    <2>3. Typed'
      <3>1. content' \in [Buffer -> Nat \union {-1}] /\ shots' \in Nat
        BY <1>5, <2>1
      <3> QED
        BY <1>1, <1>2, <1>3, <1>5, <2>1, <3>1 DEF IInv, Typed, TypeOK
    <2>4. OwnCalls' /\ Device' /\ Owned' /\ OwnBuffersAccepted'
      BY <1>1, <1>2, <1>3, <1>4, <2>1
         DEF IInv, OwnCalls, Device, Owned, OwnBuffersAccepted, Dequeued, InHand, Steps, Before,
             Queuing, Loop, After
    <2>5. Flow'
      BY <1>1, <1>2, <1>3, <1>4, <1>5, <1>6, <2>1, <2>2
         DEF Flow, Before, Queuing, Loop, After, Steps
    <2> QED
      BY <1>7, <2>3, <2>4, <2>5 DEF IInv
  <1>9. CASE ReadByDqbuf
    <2> DEFINE b == Head(filled)
    <2>1. /\ program # "read" /\ streaming /\ filled # <<>>
          /\ held' = b /\ holds' = TRUE /\ filled' = Tail(filled)
          /\ UNCHANGED <<queued, content, shots>>
      BY <1>1, <1>2, <1>9, Table DEF ReadByDqbuf, IInv, Device, Loop
    <2>2. /\ IsInjective(queued) /\ IsInjective(filled)
          /\ ToSet(queued) \intersect ToSet(filled) = {}
          /\ mapped = ToSet(queued) \union ToSet(filled)
      BY <1>4, <2>1 DEF IInv, Owned
    <2>3. /\ IsInjective(filled') /\ b \in ToSet(filled)
          /\ ToSet(filled') = ToSet(filled) \ {b}
      BY <1>5, <2>1, <2>2, TailOnce
    <2>4. /\ b \in Buffer /\ filled' \in Seq(Buffer) /\ Len(filled') = Len(filled) - 1
          /\ Len(filled) \in Nat \ {0} /\ b = filled[1]
          /\ \A i \in 1 .. Len(filled) - 1 : filled'[i] = filled[i + 1]
      BY <1>5, <2>1
    <2>5. content[b] = taken
      BY <1>5, <1>6, <2>4
    <2> HIDE DEF b
    <2>6. Typed'
      BY <1>1, <1>2, <1>3, <2>1, <2>4 DEF IInv, Typed, TypeOK
    <2>7. OwnCalls' /\ OwnBuffersAccepted'
      BY <1>1, <1>2, <1>3, <1>4, <2>1
         DEF IInv, OwnCalls, OwnBuffersAccepted, Dequeued, InHand, Steps
    <2>8. Device'
      BY <1>1, <1>3, <2>1 DEF IInv, Device, Before, Queuing, Loop, After, Steps
    <2>9. Owned'
      BY <1>1, <2>1, <2>2, <2>3 DEF Owned
    <2>10. Flow'
      <3>1. shots = taken + 1 + Len(filled')
        BY <1>5, <1>6, <2>4
      <3>2. ASSUME NEW i \in 1 .. Len(filled') PROVE content[filled'[i]] = taken + 1 + i - 1
        <4>1. i \in 1 .. Len(filled) - 1 /\ i + 1 \in 1 .. Len(filled) /\ i \in Nat
          BY <2>4
        <4>2. content[filled[i + 1]] = taken + (i + 1) - 1
          BY <1>6, <4>1
        <4> QED
          BY <1>5, <2>4, <4>1, <4>2
      <3> QED
        BY <1>1, <1>2, <1>3, <1>4, <1>6, <2>1, <2>5, <3>1, <3>2
           DEF Flow, Before, Queuing, Loop, After, Steps
    <2> QED
      BY <1>7, <2>6, <2>7, <2>8, <2>9, <2>10 DEF IInv
  <1> QED
    BY <1>8, <1>9 DEF ReadFrame

(* EAGAIN: the handler of the concurrent program holds buffer 0, unread.    *)
LEMMA ReadNothingIInv == ASSUME IInv, ReadNothing PROVE IInv'
  <1>1. /\ pc = "read" /\ held' = 0 /\ holds' = FALSE
        /\ pc' = IF P.requeues THEN "requeueCleared" ELSE "select"
        /\ UNCHANGED <<program, format, opened, mapped, granted, streaming>>
        /\ UNCHANGED <<queued, filled, content, shots>>
        /\ UNCHANGED <<taken, ring, stored, cut, rejected>>
    BY DEF ReadNothing, deviceVars, driverVars
  <1>2. P' = P /\ program \in DOMAIN Programs /\ 0 \in Buffer
    BY <1>1, CaptureAssumption DEF P, IInv, Typed, TypeOK, Buffer, CaptureAssumption
  <1>3. /\ pc' \in {"requeueCleared", "select"}
        /\ pc' = "requeueCleared" => program = "concurrent"
    BY <1>1, <1>2, Table
  <1>4. ~holds
    BY <1>1 DEF IInv, OwnCalls, Dequeued, InHand, Steps
  <1>5. Typed'
    BY <1>1, <1>2, <1>3 DEF IInv, Typed, TypeOK
  <1>6. OwnCalls' /\ Device' /\ Owned' /\ OwnBuffersAccepted'
    BY <1>1, <1>2, <1>3, <1>4
       DEF IInv, OwnCalls, Device, Owned, OwnBuffersAccepted, Dequeued, InHand,
           Steps, Before, Queuing, Loop, After
  <1>7. Flow'
    BY <1>1, <1>2, <1>3
       DEF IInv, Flow, Before, Queuing, Loop, After, Steps, FramesRead, InHand, ToStore
  <1>8. Storing'
    BY <1>1, <1>2, <1>3 DEF IInv, Storing, FirstStored, Converts, Picture, FramesSeen, InHand, Steps
  <1> QED
    BY <1>5, <1>6, <1>7, <1>8 DEF IInv

(* Buffer 0 is always one of the driver's then, so it is refused.           *)
LEMMA RequeueClearedIInv == ASSUME IInv, RequeueCleared PROVE IInv'
  <1>1. pc = "requeueCleared" /\ program = "concurrent" /\ held = 0
    BY DEF RequeueCleared, IInv, OwnCalls
  <1>2. streaming /\ 0 \in mapped /\ ~holds
    BY <1>1 DEF IInv, OwnCalls, Device, Dequeued, InHand, Steps, Loop
  <1>3. 0 \in ToSet(queued) \union ToSet(filled)
    BY <1>2 DEF IInv, Owned
  <1>4. Rejected
    BY <1>1, <1>3 DEF RequeueCleared, Accepts
  <1> QED
    BY <1>1, <1>4, RejectedIInv

-----------------------------------------------------------------------------
(* The calls after a frame was read change neither the device nor the queues, *)
(* but for VIDIOC_QBUF.                                                     *)
Quiet ==
    /\ UNCHANGED <<program, format, opened, mapped, granted, streaming>>
    /\ UNCHANGED <<queued, filled, content, shots, held, holds, rejected>>

(* Such a call leaves the driver's frames where they are, whether it is the *)
(* last for this frame or not.                                              *)
LEMMA QuietIInv ==
    ASSUME IInv, Quiet, pc \in Steps, cut' \in BOOLEAN, stored' \in Seq(Int),
           ring' \in [slot : [0 .. RingSize - 1 -> Int],
                      tail : 0 .. RingSize - 1, head : 0 .. RingSize - 1],
           \/ Counts /\ ~Dequeued
           \/ /\ \/ Goes("sleep") /\ program # "library"
                 \/ Goes("ring") /\ program = "library" /\ ToStore
                 \/ Goes("requeue") /\ program # "read"
              /\ Dequeued <=> Dequeued',
           Storing'
    PROVE  IInv'
  <1>1. /\ UNCHANGED <<program, format, opened, mapped, granted, streaming>>
        /\ UNCHANGED <<queued, filled, content, shots, held, holds, rejected>>
    BY DEF Quiet
  <1>2. /\ P' = P /\ program \in DOMAIN Programs /\ taken \in Nat /\ taken < P.takes
        /\ P.takes \in Nat /\ pc \in Loop
    <2>1. P' = P /\ program \in DOMAIN Programs /\ taken \in Nat
      BY <1>1 DEF P, IInv, Typed, TypeOK
    <2>2. taken < P.takes
      BY DEF IInv, Flow, Loop, Steps
    <2> QED
      BY <2>1, <2>2, Table DEF Loop
  <1>3. /\ shots = taken + 1 + Len(filled)
        /\ \A i \in 1 .. Len(filled) : content[filled[i]] = taken + 1 + i - 1
        /\ ToStore => content[held] = taken
        /\ holds <=> Dequeued
    BY <1>2 DEF IInv, OwnCalls, Flow, FramesRead, InHand, Steps
  <1>4. CASE Counts /\ ~Dequeued
    <2>1. taken' = taken + 1 /\ pc' = IF taken' = P.takes THEN "stop" ELSE "select"
      BY <1>4 DEF Counts
    <2>2. pc' \in {"stop", "select"} /\ taken' \in 0 .. P.takes
          /\ (pc' = "stop" => taken' = P.takes) /\ (pc' = "select" => taken' < P.takes)
      BY <1>2, <2>1
    <2>3. ~holds' /\ ~Dequeued' /\ FramesRead' = taken + 1 /\ ~ToStore'
      BY <1>1, <1>3, <1>4, <2>1, <2>2 DEF Dequeued, InHand, ToStore, FramesRead, Steps
    <2>4. Typed'
      BY <1>1, <1>2, <2>2 DEF IInv, Typed, TypeOK
    <2>5. OwnCalls' /\ Device' /\ Owned' /\ OwnBuffersAccepted'
      BY <1>1, <1>2, <2>2, <2>3
         DEF IInv, OwnCalls, Device, Owned, OwnBuffersAccepted, Before, Queuing, Loop, After, Steps
    <2>6. Flow'
      BY <1>1, <1>2, <1>3, <2>2, <2>3 DEF Flow, Before, Queuing, Loop, After, Steps
    <2> QED
      BY <2>4, <2>5, <2>6 DEF IInv
  <1>5. CASE /\ \/ Goes("sleep") /\ program # "library"
                \/ Goes("ring") /\ program = "library" /\ ToStore
                \/ Goes("requeue") /\ program # "read"
             /\ Dequeued <=> Dequeued'
    <2>1. /\ taken' = taken /\ pc' \in {"sleep", "ring", "requeue"}
          /\ pc' = "ring" => program = "library" /\ ToStore
          /\ pc' = "requeue" => program # "read"
          /\ pc' = "sleep" => program # "library"
      BY <1>5 DEF Goes
    <2>2. (holds' <=> Dequeued') /\ FramesRead' = taken + 1 /\ (ToStore' => ToStore)
      BY <1>1, <1>3, <1>5, <2>1 DEF InHand, ToStore, FramesRead, Steps
    <2>3. Typed'
      BY <1>1, <1>2, <2>1 DEF IInv, Typed, TypeOK
    <2>4. OwnCalls' /\ Device' /\ Owned' /\ OwnBuffersAccepted'
      BY <1>1, <1>2, <2>1, <2>2
         DEF IInv, OwnCalls, Device, Owned, OwnBuffersAccepted, Before, Queuing, Loop, After, Steps
    <2>5. Flow'
      BY <1>1, <1>2, <1>3, <2>1, <2>2 DEF Flow, Before, Queuing, Loop, After, Steps
    <2> QED
      BY <2>3, <2>4, <2>5 DEF IInv
  <1> QED
    BY <1>4, <1>5

(* What is stored of a frame depends on the program and the format.         *)
LEMMA SamePictures ==
    ASSUME UNCHANGED <<program, format>>
    PROVE  /\ P' = P /\ FirstStored' = FirstStored /\ (Converts' <=> Converts)
           /\ \A n : Picture(n)' = Picture(n)
  BY DEF P, FirstStored, Converts, Picture

(* What a step of a running program has to leave behind.                    *)
LEMMA NextStoring ==
    ASSUME UNCHANGED <<program, format, cut>>, pc' \notin {"open", "init"},
           ring'.tail = ring'.head, format # "none", format = "other" => stored' = <<>>,
           Converts =>
               /\ \A i \in 1 .. Len(stored') : stored'[i] >= 0 /\ stored'[i] < FramesSeen'
               /\ \A i \in 1 .. Len(stored') - 1 : stored'[i] < stored'[i + 1],
           ~cut /\ format # "other" =>
               /\ Len(stored')
                     = IF FramesSeen' > FirstStored THEN FramesSeen' - FirstStored ELSE 0
               /\ \A i \in 1 .. Len(stored') : stored'[i] = Picture(FirstStored + i - 1)
    PROVE  Storing'
  <1>1. /\ format' = format /\ cut' = cut /\ FirstStored' = FirstStored
        /\ Converts' <=> Converts
    BY SamePictures
  <1>2. Converts' => (/\ \A i \in 1 .. Len(stored) : stored[i] >= 0
                      /\ \A i \in 1 .. Len(stored) - 1 : stored[i] < stored[i + 1]
                      /\ pc # "exit" => \A i \in 1 .. Len(stored) : stored[i] < FramesSeen)'
    BY <1>1
  <1>3. ASSUME ~cut', format' # "other"
        PROVE  (/\ Len(stored) = IF FramesSeen > FirstStored THEN FramesSeen - FirstStored ELSE 0
                /\ \A i \in 1 .. Len(stored) : stored[i] = Picture(FirstStored + i - 1))'
    <2>1. ~cut /\ format # "other"
      BY <1>1, <1>3
    <2>2. Len(stored') = IF FramesSeen' > FirstStored' THEN FramesSeen' - FirstStored' ELSE 0
      BY <1>1, <2>1
    <2>3. \A i \in 1 .. Len(stored') : stored'[i] = Picture(FirstStored + i - 1)'
      BY <1>1, <2>1, SamePictures
    <2> QED
      BY <2>2, <2>3
  <1> QED
    BY <1>1, <1>2, <1>3 DEF Storing

(* What was stored stays right where no frame is stored and none skipped,   *)
(* or where a sleep was interrupted.                                        *)
LEMMA KeepStoring ==
    ASSUME IInv, pc \notin {"exit", "open", "init"}, pc' \notin {"open", "init"},
           UNCHANGED <<program, format, ring, stored>>,
           FramesSeen' >= FramesSeen, FramesSeen' \in Nat,
           ~cut' => ~cut /\ FramesSeen' = FramesSeen
    PROVE  Storing'
  <1>1. stored \in Seq(Int) /\ FramesSeen \in Nat
    BY DEF IInv, Typed, TypeOK, FramesSeen
  <1>2. ASSUME Converts, NEW i \in 1 .. Len(stored) PROVE stored[i] < FramesSeen'
    <2>1. stored[i] \in Int /\ stored[i] < FramesSeen
      BY <1>1, <1>2 DEF IInv, Storing
    <2> QED
      BY <1>1, <2>1
  <1>3. ASSUME ~cut', format # "other"
        PROVE  /\ Len(stored) = IF FramesSeen' > FirstStored THEN FramesSeen' - FirstStored ELSE 0
               /\ \A i \in 1 .. Len(stored) : stored[i] = Picture(FirstStored + i - 1)
    BY <1>3 DEF IInv, Storing
  <1>4. format # "none"
    BY DEF IInv, Storing
  <1>5. /\ ring.tail = ring.head
        /\ format \in {"none", "other"} => stored = <<>>
        /\ Converts => /\ \A i \in 1 .. Len(stored) : stored[i] >= 0
                       /\ \A i \in 1 .. Len(stored) - 1 : stored[i] < stored[i + 1]
    BY DEF IInv, Storing
  <1> QED
    BY <1>2, <1>3, <1>4, <1>5, SamePictures DEF Storing

(* A frame that is processed is appended if it is one that is stored.       *)
LEMMA StoreFrame ==
    ASSUME IInv, pc \notin {"exit", "open", "init"}, pc' \notin {"open", "init"},
           UNCHANGED <<program, format, cut>>,
           FramesSeen = taken, FramesSeen' = taken + 1,
           stored' = IF format # "other" /\ taken >= FirstStored
                     THEN Append(stored, Picture(taken)) ELSE stored,
           ring'.tail = ring'.head
    PROVE  Storing' /\ stored' \in Seq(Int)
  <1>1. stored \in Seq(Int) /\ taken \in Nat /\ FirstStored \in Nat /\ Picture(taken) \in Int
    BY Table DEF IInv, Typed, TypeOK, FirstStored, Picture, Blank
  <1>2. Len(stored) \in Nat /\ \A i \in 1 .. Len(stored) : stored[i] \in Int
    BY <1>1
  <1>3. Converts => /\ \A i \in 1 .. Len(stored) : stored[i] >= 0 /\ stored[i] < taken
                    /\ \A i \in 1 .. Len(stored) - 1 : stored[i] < stored[i + 1]
    BY DEF IInv, Storing
  <1>4. ~cut /\ format # "other" =>
            /\ Len(stored) = IF taken > FirstStored THEN taken - FirstStored ELSE 0
            /\ \A i \in 1 .. Len(stored) : stored[i] = Picture(FirstStored + i - 1)
    BY DEF IInv, Storing
  <1>5. format # "none" /\ (format = "other" => stored = <<>>)
    BY DEF IInv, Storing
  <1>6. CASE format # "other" /\ taken >= FirstStored
    <2>1. stored' = Append(stored, Picture(taken))
      BY <1>6
    <2>2. /\ stored' \in Seq(Int) /\ Len(stored') = Len(stored) + 1
          /\ stored'[Len(stored) + 1] = Picture(taken)
          /\ \A i \in 1 .. Len(stored) : stored'[i] = stored[i]
      BY <1>1, <2>1
    <2>3. ASSUME Converts, NEW i \in 1 .. Len(stored')
          PROVE  stored'[i] >= 0 /\ stored'[i] < taken + 1
      <3>1. i \in 1 .. Len(stored) \/ i = Len(stored) + 1
        BY <1>2, <2>2
      <3>2. Picture(taken) = taken
        BY <2>3 DEF Picture
      <3>3. CASE i \in 1 .. Len(stored)
        <4>1. stored'[i] = stored[i]
          BY <2>2, <3>3
        <4>2. stored[i] \in Int /\ stored[i] >= 0 /\ stored[i] < taken
          BY <1>2, <1>3, <2>3, <3>3
        <4> QED
          BY <1>1, <4>1, <4>2
      <3>4. CASE i = Len(stored) + 1
        <4>1. stored'[i] = taken
          BY <2>2, <3>2, <3>4
        <4> QED
          BY <1>1, <4>1
      <3> QED
        BY <3>1, <3>3, <3>4
    <2>4. ASSUME Converts, NEW i \in 1 .. Len(stored') - 1 PROVE stored'[i] < stored'[i + 1]
      <3>1. i \in 1 .. Len(stored) /\ (i + 1 \in 1 .. Len(stored) \/ i = Len(stored))
        BY <1>2, <2>2
      <3>2. CASE i = Len(stored)
        <4>1. Picture(taken) = taken
          BY <2>4 DEF Picture
        <4> QED
          BY <1>3, <2>2, <2>4, <3>1, <3>2, <4>1
      <3>3. CASE i + 1 \in 1 .. Len(stored)
        <4>1. i \in 1 .. Len(stored) - 1
          BY <1>2, <3>1, <3>3
        <4> QED
          BY <1>3, <2>2, <2>4, <3>1, <3>3, <4>1
      <3> QED
        BY <3>1, <3>2, <3>3
    <2>5. ASSUME ~cut
          PROVE  /\ Len(stored') = taken + 1 - FirstStored
                 /\ \A i \in 1 .. Len(stored') : stored'[i] = Picture(FirstStored + i - 1)
      <3>1. Len(stored) = taken - FirstStored
        BY <1>1, <1>4, <1>6, <2>5
      <3>2. FirstStored + (Len(stored) + 1) - 1 = taken
        BY <1>1, <3>1
      <3>3. ASSUME NEW i \in 1 .. Len(stored') PROVE stored'[i] = Picture(FirstStored + i - 1)
        <4>1. CASE i \in 1 .. Len(stored)
          BY <1>4, <1>6, <2>2, <2>5, <4>1
        <4>2. CASE i = Len(stored) + 1
          BY <2>2, <3>2, <4>2
        <4> QED
          BY <1>2, <2>2, <4>1, <4>2
      <3> QED
        BY <1>1, <2>2, <3>1, <3>3
    <2>6. taken + 1 > FirstStored
      BY <1>1, <1>6
    <2>7. Converts =>
              /\ \A i \in 1 .. Len(stored') : stored'[i] >= 0 /\ stored'[i] < FramesSeen'
              /\ \A i \in 1 .. Len(stored') - 1 : stored'[i] < stored'[i + 1]
      BY <2>3, <2>4
    <2>8. ~cut =>
              /\ Len(stored')
                    = IF FramesSeen' > FirstStored THEN FramesSeen' - FirstStored ELSE 0
              /\ \A i \in 1 .. Len(stored') : stored'[i] = Picture(FirstStored + i - 1)
      <3>1. (IF FramesSeen' > FirstStored THEN FramesSeen' - FirstStored ELSE 0)
            = taken + 1 - FirstStored
        BY <1>1, <2>6
      <3> QED
        BY <2>5, <3>1
    <2>9. Storing'
      BY <1>5, <1>6, <2>7, <2>8, NextStoring
    <2> QED
      BY <2>2, <2>9
  <1>7. CASE ~(format # "other" /\ taken >= FirstStored)
    <2>1. stored' = stored
      BY <1>7
    <2>2. ASSUME Converts, NEW i \in 1 .. Len(stored)
          PROVE  stored[i] >= 0 /\ stored[i] < taken + 1
      BY <1>1, <1>2, <1>3, <2>2
    <2>3. format # "other" => ~(taken > FirstStored) /\ ~(taken + 1 > FirstStored)
      BY <1>1, <1>7
    <2>4. Converts =>
              /\ \A i \in 1 .. Len(stored') : stored'[i] >= 0 /\ stored'[i] < FramesSeen'
              /\ \A i \in 1 .. Len(stored') - 1 : stored'[i] < stored'[i + 1]
      BY <1>3, <2>1, <2>2
    <2>5. ~cut /\ format # "other" =>
              /\ Len(stored')
                    = IF FramesSeen' > FirstStored THEN FramesSeen' - FirstStored ELSE 0
              /\ \A i \in 1 .. Len(stored') : stored'[i] = Picture(FirstStored + i - 1)
      BY <1>4, <2>1, <2>3
    <2>6. format = "other" => stored' = <<>>
      BY <1>5, <2>1
    <2>7. Storing'
      BY <1>5, <2>4, <2>5, <2>6, NextStoring
    <2> QED
      BY <1>1, <2>1, <2>7
  <1> QED
    BY <1>6, <1>7

(* process_image reads the buffer in hand, whose frame is taken.            *)
LEMMA ProcessIInv == ASSUME IInv, ProcessImage PROVE IInv'
  <1>1. /\ pc = "process" /\ program # "library" /\ program \in DOMAIN Programs
        /\ UNCHANGED <<program, format, ring, cut>> /\ Quiet
        /\ stored' = IF Stored THEN Append(stored, content[held]) ELSE stored
        /\ NextStep("process")
    BY DEF ProcessImage, deviceVars, driverVars, Quiet, IInv, Typed, TypeOK, OwnCalls
  <1>2. content[held] = taken
    BY <1>1 DEF IInv, Flow, ToStore, Loop, Steps
  <1>3. Goes(IF program \in {"mmap", "userptr"} THEN "requeue" ELSE "sleep")
    BY <1>1, AfterStep
  <1>4. taken' = taken /\ pc' = IF program \in {"mmap", "userptr"} THEN "requeue" ELSE "sleep"
    BY <1>3 DEF Goes
  <1>5. FramesSeen = taken /\ FramesSeen' = taken + 1 /\ (Dequeued <=> Dequeued')
    BY <1>1, <1>4 DEF FramesSeen, InHand, ToStore, Dequeued, Steps
  <1>6. Storing' /\ stored' \in Seq(Int)
    <2>1. ring'.tail = ring'.head /\ format # "none" /\ P.first \in Nat /\ taken \in Nat
      BY <1>1, Table DEF IInv, Storing, Typed, TypeOK
    <2>2. Picture(taken) = taken
      BY <1>1 DEF Picture, Converts
    <2>3. Stored <=> format # "other" /\ taken >= FirstStored
      BY <1>1, <2>1 DEF Stored, Counted, FirstStored, AsIs, IInv, Typed, TypeOK
    <2> QED
      BY <1>1, <1>2, <1>4, <1>5, <2>1, <2>2, <2>3, StoreFrame
  <1>7. /\ pc \in Steps /\ cut' \in BOOLEAN
        /\ ring' \in [slot : [0 .. RingSize - 1 -> Int],
                      tail : 0 .. RingSize - 1, head : 0 .. RingSize - 1]
    BY <1>1 DEF IInv, Typed, TypeOK, Steps
  <1>8. \/ Goes("sleep") /\ program # "library"
        \/ Goes("requeue") /\ program # "read"
    BY <1>1, <1>3
  <1> QED
    BY <1>1, <1>5, <1>6, <1>7, <1>8, QuietIInv

(* The sleep, which may be interrupted; in capturelib an interrupted one    *)
(* leaves the frame unstored.                                               *)
LEMMA SleepIInv == ASSUME IInv, NEW interrupted \in BOOLEAN, Sleep(interrupted) PROVE IInv'
  <1>1. /\ pc = "sleep" /\ program \in DOMAIN Programs
        /\ UNCHANGED <<program, format, ring, stored>> /\ Quiet
        /\ cut' = (cut \/ interrupted)
        /\ IF interrupted /\ P.steps[1] = "sleep" THEN Goes("requeue") ELSE NextStep("sleep")
    BY DEF Sleep, deviceVars, driverVars, Quiet, Goes, IInv, Typed, TypeOK
  <1>2. /\ pc \in Steps /\ cut' \in BOOLEAN /\ stored' \in Seq(Int) /\ taken \in Nat
        /\ ring' \in [slot : [0 .. RingSize - 1 -> Int],
                      tail : 0 .. RingSize - 1, head : 0 .. RingSize - 1]
        /\ ~cut' => ~cut
        /\ ~interrupted => cut' = cut
        /\ interrupted => cut'
    BY <1>1 DEF IInv, Typed, TypeOK, Steps
  <1>3. P.steps[1] = "sleep" <=> program = "library"
    BY <1>1, Table
  <1>4. CASE interrupted /\ program = "library"
    <2>1. Goes("requeue") /\ cut'
      BY <1>1, <1>2, <1>3, <1>4
    <2>2. /\ FramesSeen = taken /\ FramesSeen' = taken + 1 /\ (Dequeued <=> Dequeued')
      BY <1>1, <1>4, <2>1 DEF Goes, FramesSeen, InHand, ToStore, Dequeued, Steps
    <2>3. Storing'
      BY <1>1, <1>2, <2>1, <2>2, KeepStoring DEF Goes
    <2> QED
      BY <1>1, <1>2, <1>4, <2>1, <2>2, <2>3, QuietIInv
  <1>5. CASE ~interrupted /\ program = "library"
    <2>1. Goes("ring") /\ cut' = cut
      BY <1>1, <1>2, <1>5, AfterStep
    <2>2. /\ FramesSeen = taken /\ FramesSeen' = taken /\ (Dequeued <=> Dequeued') /\ ToStore
      BY <1>1, <1>5, <2>1 DEF Goes, FramesSeen, InHand, ToStore, Dequeued, Steps
    <2>3. Storing'
      BY <1>1, <1>2, <2>1, <2>2, KeepStoring DEF Goes
    <2> QED
      BY <1>1, <1>2, <1>5, <2>1, <2>2, <2>3, QuietIInv
  <1>6. CASE program = "concurrent"
    <2>1. Goes("requeue")
      BY <1>1, <1>3, <1>6, AfterStep
    <2>2. /\ FramesSeen = taken + 1 /\ FramesSeen' = taken + 1 /\ (Dequeued <=> Dequeued')
      BY <1>1, <1>6, <2>1 DEF Goes, FramesSeen, InHand, ToStore, Dequeued, Steps
    <2>3. Storing'
      BY <1>1, <1>2, <2>1, <2>2, KeepStoring DEF Goes
    <2> QED
      BY <1>1, <1>2, <1>6, <2>1, <2>2, <2>3, QuietIInv
  <1>7. CASE program \notin {"library", "concurrent"}
    <2>1. Counts
      BY <1>1, <1>3, <1>7, AfterStep
    <2>2. ~Dequeued
      BY <1>1, <1>7, Table DEF Dequeued
    <2>3. taken' = taken + 1 /\ pc' \in {"stop", "select"}
      BY <2>1 DEF Counts
    <2>4. FramesSeen = taken + 1 /\ FramesSeen' = taken + 1
      BY <1>1, <1>7, <2>3 DEF FramesSeen, InHand, ToStore, Steps
    <2>5. Storing'
      BY <1>1, <1>2, <2>3, <2>4, KeepStoring
    <2> QED
      BY <1>1, <1>2, <2>1, <2>2, <2>5, QuietIInv
  <1> QED
    BY <1>4, <1>5, <1>6, <1>7

(* capturelib stores what it has just copied: tail and head are one.        *)
LEMMA RingIInv == ASSUME IInv, Ring PROVE IInv'
  <1>1. /\ pc = "ring" /\ program = "library" /\ program \in DOMAIN Programs
        /\ UNCHANGED <<program, format, cut>> /\ Quiet
        /\ NextStep("ring")
    BY DEF Ring, deviceVars, driverVars, Quiet, IInv, Typed, TypeOK, OwnCalls
  <1>2. /\ content[held] = taken /\ ring.tail = ring.head /\ taken \in Nat
        /\ ring \in [slot : [0 .. RingSize - 1 -> Int],
                     tail : 0 .. RingSize - 1, head : 0 .. RingSize - 1]
    BY <1>1 DEF IInv, Flow, ToStore, Loop, Steps, Storing, FirstStored, Converts, Picture, Typed, TypeOK
  <1>3. Goes("requeue")
    BY <1>1, AfterStep
  <1>4. FramesSeen = taken /\ FramesSeen' = taken + 1 /\ (Dequeued <=> Dequeued')
    BY <1>1, <1>3 DEF Goes, FramesSeen, InHand, ToStore, Dequeued, Steps
  <1>5. /\ stored' = IF format # "other" /\ Counted THEN Append(stored, Picture(taken)) ELSE stored
        /\ ring'.tail = ring'.head
        /\ ring' \in [slot : [0 .. RingSize - 1 -> Int],
                      tail : 0 .. RingSize - 1, head : 0 .. RingSize - 1]
    <2>1. CASE Counted
      <3> DEFINE slot == [ring.slot EXCEPT ![ring.tail] = taken]
      <3>1. /\ stored' = IF format = "other" THEN stored
                         ELSE Append(stored, IF format = "yuyv" THEN slot[ring.head] ELSE Blank)
            /\ ring' = [slot |-> slot, tail |-> (ring.tail + 1) % RingSize,
                        head |-> (ring.head + 1) % RingSize]
        BY <1>2, <2>1 DEF Ring
      <3>2. slot \in [0 .. RingSize - 1 -> Int] /\ slot[ring.head] = taken
        <4>1. ring.slot \in [0 .. RingSize - 1 -> Int] /\ ring.head \in 0 .. RingSize - 1
          BY <1>2
        <4>2. taken \in Int /\ ring.tail = ring.head
          BY <1>2
        <4> QED
          BY <4>1, <4>2
      <3>3. (ring.tail + 1) % RingSize \in 0 .. RingSize - 1
        BY <1>2 DEF RingSize
      <3>4. Picture(taken) = IF format = "yuyv" THEN taken ELSE Blank
        BY <1>1 DEF Picture, Converts
      <3> QED
        BY <1>2, <2>1, <3>1, <3>2, <3>3, <3>4
    <2>2. CASE ~Counted
      BY <1>2, <2>2 DEF Ring
    <2> QED
      BY <2>1, <2>2
  <1>6. Storing' /\ stored' \in Seq(Int)
    <2>1. Counted <=> taken >= FirstStored
      BY <1>1 DEF Counted, FirstStored
    <2> QED
      BY <1>1, <1>3, <1>4, <1>5, <2>1, StoreFrame DEF Goes
  <1>7. pc \in Steps /\ cut' \in BOOLEAN
    BY <1>1 DEF IInv, Typed, TypeOK, Steps
  <1> QED
    BY <1>1, <1>3, <1>4, <1>5, <1>6, <1>7, QuietIInv

(* A dequeued buffer is the program's, and the driver knows it: VIDIOC_QBUF *)
(* takes it.                                                                *)
LEMMA RequeueIInv == ASSUME IInv, Requeue PROVE IInv'
  <1>1. /\ pc = "requeue" /\ program # "read" /\ program \in DOMAIN Programs
    BY DEF Requeue, IInv, Typed, TypeOK, OwnCalls
  <1>2. /\ streaming /\ holds /\ held \in Buffer /\ granted \in 0 .. Buffers
        /\ mapped \subseteq 0 .. granted - 1
        /\ queued \in Seq(Buffer) /\ filled \in Seq(Buffer)
        /\ taken \in Nat /\ taken < P.takes /\ P.takes \in Nat
    BY <1>1, Table DEF IInv, Typed, TypeOK, OwnCalls, Device, Flow, Dequeued, InHand, Loop, Steps
  <1>3. /\ IsInjective(queued) /\ IsInjective(filled)
        /\ ToSet(queued) \intersect ToSet(filled) = {}
        /\ mapped = ToSet(queued) \union ToSet(filled) \union {held}
        /\ held \notin ToSet(queued) \union ToSet(filled)
    BY <1>2 DEF IInv, Owned
  <1>4. Accepts(held)
    BY <1>2, <1>3 DEF Accepts
  <1>5. /\ queued' = Append(queued, held) /\ holds' = FALSE /\ NextStep("requeue")
        /\ UNCHANGED <<program, format, opened, mapped, granted, streaming, filled, content, shots>>
        /\ UNCHANGED <<held, ring, stored, cut, rejected>>
    BY <1>4 DEF Requeue, deviceVars
  <1>6. P' = P
    BY <1>5 DEF P
  <1>7. /\ IsInjective(queued') /\ ToSet(queued') = ToSet(queued) \union {held}
        /\ queued' \in Seq(Buffer)
    BY <1>2, <1>3, <1>5, AppendOnce
  <1>8. IF program \in {"mmap", "userptr"} THEN Goes("sleep") ELSE Counts
    BY <1>1, <1>5, AfterStep
  <1>9. /\ taken' \in 0 .. P.takes /\ pc' \in {"sleep", "stop", "select"}
        /\ pc' = "sleep" => program \in {"mmap", "userptr"} /\ taken' = taken
        /\ pc' # "sleep" => taken' = taken + 1
        /\ pc' = "stop" <=> taken' = P.takes
    BY <1>2, <1>8 DEF Goes, Counts
  <1>10. /\ ~Dequeued' /\ ~ToStore' /\ FramesRead = taken + 1 /\ FramesRead' = taken + 1
         /\ FramesSeen = taken + 1 /\ FramesSeen' = taken + 1
    BY <1>1, <1>2, <1>5, <1>9 DEF Dequeued, InHand, ToStore, FramesRead, FramesSeen, Steps
  <1>11. Typed'
    BY <1>1, <1>5, <1>6, <1>7, <1>9 DEF IInv, Typed, TypeOK
  <1>12. OwnCalls' /\ Device' /\ OwnBuffersAccepted'
    BY <1>1, <1>5, <1>6, <1>9, <1>10
       DEF IInv, OwnCalls, Device, OwnBuffersAccepted, Before, Queuing, Loop, After, Steps
  <1>13. Owned'
    BY <1>3, <1>5, <1>7 DEF Owned
  <1>14. Flow'
    <2>1. /\ shots = taken + 1 + Len(filled)
          /\ \A i \in 1 .. Len(filled) : content[filled[i]] = taken + 1 + i - 1
      BY <1>1, <1>10 DEF IInv, Flow, Loop, Steps
    <2> QED
      BY <1>2, <1>5, <1>6, <1>9, <1>10, <2>1 DEF Flow, Before, Queuing, Loop, After, Steps
  <1>15. Storing'
    BY <1>1, <1>2, <1>5, <1>9, <1>10, KeepStoring
  <1> QED
    BY <1>11, <1>12, <1>13, <1>14, <1>15 DEF IInv

-----------------------------------------------------------------------------
(* Streaming off, unmapping and closing leave nothing.                      *)
LEMMA TearDownIInv == ASSUME IInv, TearDown PROVE IInv'
  <1>1. /\ pc \in {"stop", "uninit", "close"} /\ pc' \in After
        /\ UNCHANGED <<program, format, content, shots>>
        /\ UNCHANGED <<held, holds, taken, ring, stored, cut, rejected>>
        /\ opened' \in BOOLEAN /\ granted' \in 0 .. Buffers /\ mapped' \subseteq Buffer
        /\ streaming' = FALSE /\ queued' = <<>> /\ filled' = <<>>
        /\ pc' \in {"close", "done"} => mapped' = {}
        /\ pc' = "done" => ~opened'
    <2>1. /\ opened \in BOOLEAN /\ granted \in 0 .. Buffers /\ mapped \subseteq Buffer
          /\ 0 \in 0 .. Buffers /\ {} \subseteq Buffer
          /\ pc \in After => streaming = FALSE /\ queued = <<>> /\ filled = <<>>
          /\ pc = "close" => mapped = {}
      BY CaptureAssumption DEF CaptureAssumption, IInv, Typed, TypeOK, Device
    <2>2. CASE StopCapturing
      BY <2>1, <2>2 DEF StopCapturing, After, loopVars
    <2>3. CASE UninitDevice
      BY <2>1, <2>3 DEF UninitDevice, After, driverVars, loopVars
    <2>4. CASE CloseDevice
      BY <2>1, <2>4 DEF CloseDevice, After, driverVars, loopVars
    <2> QED
      BY <2>2, <2>3, <2>4 DEF TearDown
  <1>2. P' = P
    BY <1>1 DEF P
  <1>3. Typed'
    <2>1. <<>> \in Seq(Buffer)
      OBVIOUS
    <2> QED
      BY <1>1, <1>2, <2>1 DEF IInv, Typed, TypeOK, After
  <1>4. OwnCalls' /\ Device' /\ Owned' /\ OwnBuffersAccepted'
    BY <1>1, <1>2 DEF IInv, OwnCalls, Device, Owned, OwnBuffersAccepted, Dequeued, InHand,
                      Steps, Before, Queuing, Loop, After
  <1>5. Flow'
    BY <1>1, <1>2 DEF IInv, Flow, Before, Queuing, Loop, After, Steps
  <1>6. Storing'
    BY <1>1, <1>2 DEF IInv, Storing, FirstStored, Converts, Picture, FramesSeen, InHand, Steps, After
  <1> QED
    BY <1>3, <1>4, <1>5, <1>6 DEF IInv

(* Every call of a program keeps the invariant.                             *)
LEMMA StepIInv == IInv /\ [Next]_vars => IInv'
  <1> SUFFICES ASSUME IInv, [Next]_vars PROVE IInv'
    OBVIOUS
  <1>1. CASE SetUp
    BY <1>1, OpenDeviceIInv, InitReadIInv, InitBuffersIInv, StartCapturingIInv, StreamOnIInv
       DEF SetUp
  <1>2. CASE Fill
    BY <1>2, FillIInv
  <1>3. CASE Select
    BY <1>3, SelectIInv
  <1>4. CASE SelectTimeout \/ Fail
    BY <1>4, FailIInv DEF SelectTimeout
  <1>5. CASE TakeFrame
    BY <1>5, ReadFrameIInv, ProcessIInv, SleepIInv, RingIInv, RequeueIInv DEF TakeFrame
  <1>6. CASE TearDown
    BY <1>6, TearDownIInv
  <1>7. CASE ReadNothing \/ RequeueCleared
    BY <1>7, ReadNothingIInv, RequeueClearedIInv
  <1>8. CASE Sleep(TRUE)
    BY <1>8, SleepIInv
  <1>9. CASE UNCHANGED vars
    <2>1. UNCHANGED vars /\ P' = P
      BY <1>9 DEF vars, P
    <2> QED
      BY <2>1 DEF vars, IInv, Typed, TypeOK, OwnCalls, Device, Owned, OwnBuffersAccepted,
                  Flow, Storing, FirstStored, Converts, Picture, InHand, Dequeued, ToStore, FramesRead, FramesSeen, Before,
                  Queuing, Loop, After, Steps
  <1> QED
    BY <1>1, <1>2, <1>3, <1>4, <1>5, <1>6, <1>7, <1>8, <1>9 DEF Next

(* The invariant of the capture programs.                                   *)
LEMMA Invariance == Spec => []IInv
  BY InitIInv, StepIInv, PTL DEF Spec

-----------------------------------------------------------------------------
(* Every variable of a capture program keeps its type; no program counts    *)
(* more frames than it takes.                                               *)
THEOREM TypesAreKept == Spec => []TypeOK
  <1>1. IInv => TypeOK
    BY DEF IInv, Typed
  <1> QED
    BY <1>1, Invariance, PTL

(* While the camera streams, each buffer is in one queue of the driver or   *)
(* in the hands of the program, and once: with any number of buffers, in    *)
(* each of the orders in which the programs store, sleep and queue.         *)
THEOREM BuffersHeldOnce == Spec => []EachBufferOnce
  <1>1. ASSUME IInv PROVE EachBufferOnce
    <2>1. SUFFICES ASSUME streaming
          PROVE  /\ IsInjective(queued \o filled)
                 /\ mapped = ToSet(queued \o filled) \union (IF holds THEN {held} ELSE {})
                 /\ holds => held \notin ToSet(queued \o filled)
      BY DEF EachBufferOnce
    <2>2. queued \in Seq(Buffer) /\ filled \in Seq(Buffer)
      BY <1>1 DEF IInv, Typed, TypeOK
    <2>3. IsInjective(queued) /\ IsInjective(filled)
          /\ ToSet(queued) \intersect ToSet(filled) = {}
      BY <1>1, <2>1 DEF IInv, Owned
    <2>4. /\ IsInjective(queued \o filled)
          /\ ToSet(queued \o filled) = ToSet(queued) \union ToSet(filled)
      BY <2>2, <2>3, JoinOnce
    <2> QED
      BY <1>1, <2>1, <2>4 DEF IInv, Owned
  <1> QED
    BY <1>1, Invariance, PTL

(* A driver refuses a VIDIOC_QBUF only of the concurrent program, which     *)
(* queues a buffer that it did not dequeue, or of init_userp, which did not *)
(* look at what was granted; never of the others, whatever is granted.      *)
THEOREM OthersAreAccepted == Spec => []OwnBuffersAccepted
  <1>1. IInv => OwnBuffersAccepted
    BY DEF IInv
  <1> QED
    BY <1>1, Invariance, PTL

(* The stored frames are in order and each once, and a program that ends    *)
(* without an interrupted sleep has stored all from its first one on,       *)
(* capturelib Capture of them, in each format that the driver may choose:   *)
(* none of an unknown one, and from capturelib's blank scratchpad where its *)
(* camera does not give YUYV.                                               *)
THEOREM FramesInOrder == Spec => []FramesAreStored
  <1>1. ASSUME IInv PROVE FramesAreStored
    <2>1. stored \in Seq(Int) /\ Len(stored) \in Nat
      BY <1>1 DEF IInv, Typed
    <2>2. ASSUME Converts, NEW i \in 1 .. Len(stored) - 1
          PROVE  stored[i] < stored[i + 1] /\ stored[i] >= 0
      <3>1. i \in 1 .. Len(stored)
        BY <2>1
      <3> QED
        BY <1>1, <2>2, <3>1 DEF IInv, Storing
    <2>3. ASSUME pc = "done", ~cut, format = "other" PROVE stored = <<>>
      BY <1>1, <2>3 DEF IInv, Storing
    <2>4. ASSUME pc = "done", ~cut, format # "other"
          PROVE  /\ stored = [i \in 1 .. P.takes - FirstStored |-> Picture(FirstStored + i - 1)]
                 /\ program = "library" => Len(stored) = Capture
      <3>1. program \in DOMAIN Programs /\ FramesSeen = P.takes
        BY <1>1, <2>4 DEF IInv, Typed, TypeOK, Flow, FramesSeen, InHand, Steps, After
      <3>2. P.takes \in Nat /\ FirstStored \in Nat /\ FirstStored < P.takes
            /\ (program = "library" => P.takes - FirstStored = Capture)
        BY <3>1, Table DEF FirstStored
      <3>3. /\ Len(stored) = P.takes - FirstStored
            /\ \A i \in 1 .. Len(stored) : stored[i] = Picture(FirstStored + i - 1)
        BY <1>1, <2>4, <3>1, <3>2 DEF IInv, Storing
      <3>4. stored = [i \in 1 .. Len(stored) |-> stored[i]]
        BY <2>1
      <3> QED
        BY <3>2, <3>3, <3>4
    <2> QED
      BY <2>2, <2>3, <2>4 DEF FramesAreStored
  <1> QED
    BY <1>1, Invariance, PTL

(* A program that returns has closed the device, switched the stream off    *)
(* and kept no buffer.                                                      *)
THEOREM EverythingGivenBack == Spec => []NothingLeft
  <1>1. IInv => NothingLeft
    BY DEF IInv, Device, NothingLeft, After
  <1> QED
    BY <1>1, Invariance, PTL
=============================================================================
