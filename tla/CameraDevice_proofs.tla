------------------------- MODULE CameraDevice_proofs -------------------------
(***************************************************************************)
(* Theorems about CameraDevice: what the driver or a service owns is       *)
(* mapped, nothing is left behind, and call by call the device does what   *)
(* the module Camera does in one step.                                     *)
(***************************************************************************)
EXTENDS CameraDevice, SequenceTheorems, TLAPS

(* The first n buffers, queued by index. *)
FirstBuffers(n) == [b \in 1 .. n |-> b]

NothingOwned == queued = <<>> /\ filled = <<>> /\ held = {}

(* What each step of main has done and has left to do. *)
Stages ==
    /\ step \in {"openDevice", "initDevice", "requestBuffers"} =>
          NothingOwned /\ mapped = {}
    /\ step \in {"initDevice", "requestBuffers", "mapBuffer", "queueBuffer",
                 "streamOn", "streaming", "streamOff", "unmapBuffer",
                 "closeDevice"} => mFd
    /\ step = "mapBuffer" => NothingOwned /\ mapped = 1 .. i - 1
    /\ step \in {"queueBuffer", "streamOn", "streaming", "streamOff"} =>
          mapped = Buffers
    /\ step \in {"streamOn", "streaming", "streamOff"} => i = 1
    /\ step = "streamOff" => held = {}
    /\ step = "queueBuffer" =>
          queued = FirstBuffers(i - 1) /\ filled = <<>> /\ held = {}
    /\ step = "streamOn" =>
          queued = FirstBuffers(NumBuffers) /\ filled = <<>> /\ held = {}
    /\ step \in {"streaming", "streamOff"} <=> streaming /\ step # "exit"
    /\ step = "unmapBuffer" => NothingOwned /\ mapped = i .. NumBuffers
    /\ step \in {"closeDevice", "return"} => NothingOwned /\ mapped = {}
    /\ step = "return" => ~mFd

IInv == TypeOK /\ Stages /\ OwnedIsMapped

-----------------------------------------------------------------------------
(* At least two buffers are granted, and they are numbered from one.        *)
LEMMA NumBuffersType == NumBuffers \in Nat /\ NumBuffers >= 2 /\ Buffers = 1 .. NumBuffers
BY CameraAssumption DEF Buffers

(* The empty queue holds nothing. *)
LEMMA EmptyRange == Range(<<>>) = {}
BY DEF Range

(* Queuing one buffer more. *)
LEMMA FirstBuffersAppend ==
    ASSUME NEW n \in Nat
    PROVE  Append(FirstBuffers(n), n + 1) = FirstBuffers(n + 1)
<1>1. FirstBuffers(n) \in Seq(Nat) /\ Len(FirstBuffers(n)) = n
  BY DEF FirstBuffers
<1>2. FirstBuffers(n + 1) \in Seq(Nat) /\ Len(FirstBuffers(n + 1)) = n + 1
  BY DEF FirstBuffers
<1> DEFINE s == Append(FirstBuffers(n), n + 1)
<1>3. s \in Seq(Nat) /\ Len(s) = n + 1
  BY <1>1
<1>4. ASSUME NEW j \in 1 .. n + 1 PROVE s[j] = FirstBuffers(n + 1)[j]
  <2>1. CASE j = n + 1
    BY <2>1, <1>1 DEF FirstBuffers
  <2>2. CASE j \in 1 .. n
    BY <2>2, <1>1 DEF FirstBuffers
  <2>3. j = n + 1 \/ j \in 1 .. n
    OBVIOUS
  <2> QED
    BY <2>1, <2>2, <2>3
<1> HIDE DEF s
<1> QED
  BY <1>2, <1>3, <1>4, SeqEqual DEF s

(* Nothing is queued before the first buffer is. *)
LEMMA NoBuffersYet == FirstBuffers(0) = <<>>
<1>1. FirstBuffers(0) \in Seq(Nat) /\ Len(FirstBuffers(0)) = 0
  BY DEF FirstBuffers
<1> QED
  BY <1>1

(* The two ways in which nothing unmapped is owned. *)
LEMMA OwnedWhenAllMapped == TypeOK /\ mFd /\ mapped = Buffers => OwnedIsMapped
BY RangeOfSeq DEF TypeOK, OwnedIsMapped

(* The same after a step. *)
LEMMA OwnedWhenAllMappedNext ==
    (TypeOK /\ mFd /\ mapped = Buffers => OwnedIsMapped)'
BY OwnedWhenAllMapped, PTL

(* Who owns nothing owns nothing that is unmapped. *)
LEMMA OwnedWhenNothing == NothingOwned => OwnedIsMapped
BY EmptyRange DEF NothingOwned, OwnedIsMapped

(* The same after a step. *)
LEMMA OwnedWhenNothingNext == (NothingOwned => OwnedIsMapped)'
BY OwnedWhenNothing, PTL

----------
(* A device that was never opened.                                          *)
LEMMA InitIInv == Init => IInv
<1> SUFFICES ASSUME Init PROVE IInv
  OBVIOUS
<1>1. TypeOK
  <2>1. 1 \in Buffers /\ 0 \in Frames
    BY NumBuffersType, CameraAssumption DEF Frames
  <2>2. mFd \in BOOLEAN /\ streaming \in BOOLEAN
    BY Zenon DEF Init, CameraInit
  <2>3. yuyv \in [Buffers -> Frames]
    BY <2>1 DEF Init, CameraInit
  <2>4. /\ step \in Steps /\ i \in Buffers
        /\ mapped \subseteq Buffers /\ held \subseteq Buffers
        /\ queued \in Seq(Buffers) /\ filled \in Seq(Buffers)
        /\ stamp \in Frames
    BY <2>1 DEF Init, CameraInit, Steps
  <2> QED
    BY <2>2, <2>3, <2>4, Zenon DEF TypeOK
<1>2. NothingOwned
  BY DEF Init, CameraInit, NothingOwned
<1>3. Stages
  BY <1>2 DEF Init, CameraInit, Stages
<1> QED
  BY <1>1, <1>2, <1>3, OwnedWhenNothing DEF IInv

(* The end of a program changes nothing else.                               *)
LEMMA FailIInv == IInv /\ Fail => IInv'
<1> SUFFICES ASSUME IInv, Fail PROVE IInv'
  OBVIOUS
<1>1. TypeOK'
  BY DEF IInv, TypeOK, Fail, cameraVars, Steps
<1>2. Stages'
  BY DEF Stages, Fail
<1>3. OwnedIsMapped'
  BY DEF IInv, OwnedIsMapped, Fail, cameraVars
<1> QED
  BY <1>1, <1>2, <1>3 DEF IInv

(* The checks before the buffers are there.                                 *)
LEMMA OpenIInv ==
    IInv /\ (OpenDevice \/ InitDevice \/ RequestBuffers) => IInv'
<1> SUFFICES ASSUME IInv, OpenDevice \/ InitDevice \/ RequestBuffers
             PROVE  IInv'
  OBVIOUS
<1> USE DEF OpenDevice, InitDevice, RequestBuffers, cameraVars
<1>1. TypeOK'
  <2>1. mFd' \in BOOLEAN
    BY Zenon DEF IInv, TypeOK
  <2>2. step' \in Steps /\ i' \in Buffers
    BY NumBuffersType DEF IInv, TypeOK, Steps
  <2>3. UNCHANGED <<cameraVars, mapped, held>>
    BY Zenon
  <2> QED
    BY <2>1, <2>2, <2>3, Zenon DEF IInv, TypeOK
<1>2. NothingOwned'
  BY DEF IInv, Stages, NothingOwned
<1>3. Stages'
  <2>1. mapped' = {} /\ 1 .. 0 = {}
    BY DEF IInv, Stages
  <2> QED
    BY <2>1, <1>2 DEF IInv, TypeOK, Stages
<1> QED
  BY <1>1, <1>2, <1>3, OwnedWhenNothing DEF IInv, NothingOwned, OwnedIsMapped

(* What a pass of a loop does to the step and the loop variable.            *)
LEMMA LoopPass ==
    ASSUME NEW this \in Steps, NEW next \in Steps, i \in Buffers,
           NextBuffer(NumBuffers, this, next)
    PROVE  /\ step = this
           /\ i' \in Buffers /\ step' \in Steps
           /\ \/ i = NumBuffers /\ step' = next /\ i' = 1
              \/ i < NumBuffers /\ step' = this /\ i' = i + 1
BY NumBuffersType DEF NextBuffer

(* The invariant is kept by mmap of one more buffer, *)
LEMMA MapBufferIInv == IInv /\ MapBuffer => IInv'
<1> SUFFICES ASSUME IInv, MapBuffer PROVE IInv'
  OBVIOUS
<1>1. /\ step = "mapBuffer" /\ i' \in Buffers
      /\ \/ i = NumBuffers /\ step' = "queueBuffer" /\ i' = 1
         \/ i < NumBuffers /\ step' = "mapBuffer" /\ i' = i + 1
  BY LoopPass DEF IInv, TypeOK, MapBuffer, Steps
<1>2. i \in 1 .. NumBuffers /\ NumBuffers \in Nat
  BY NumBuffersType DEF IInv, TypeOK
<1>3. mapped' = 1 .. i /\ mFd' /\ NothingOwned'
  <2>1. mapped = 1 .. i - 1 /\ mFd /\ NothingOwned
    BY <1>1 DEF IInv, Stages
  <2>2. mapped' = 1 .. i
    BY <2>1, <1>2 DEF MapBuffer
  <2> QED
    BY <2>1, <2>2 DEF MapBuffer, NothingOwned, cameraVars
<1>4. TypeOK'
  <2>1. mapped' \subseteq Buffers
    BY <1>3, <1>2, NumBuffersType
  <2> QED
    BY <2>1, <1>1 DEF IInv, TypeOK, MapBuffer, cameraVars, Steps
<1>5. ~streaming'
  BY <1>1 DEF IInv, TypeOK, Stages, MapBuffer, cameraVars
<1>6. Stages'
  <2>1. CASE step' = "mapBuffer"
    BY <2>1, <1>1, <1>2, <1>3, <1>5 DEF Stages
  <2>2. CASE step' = "queueBuffer"
    <3>1. i' = 1 /\ mapped' = Buffers /\ queued' = FirstBuffers(0)
      BY <2>2, <1>1, <1>3, NumBuffersType, NoBuffersYet DEF NothingOwned
    <3>2. i' - 1 = 0
      BY <3>1
    <3> QED
      BY <2>2, <3>1, <3>2, <1>3, <1>5 DEF Stages, NothingOwned
  <2> QED
    BY <2>1, <2>2, <1>1
<1>7. OwnedIsMapped'
  BY <1>3, EmptyRange DEF NothingOwned, OwnedIsMapped
<1> QED
  BY <1>4, <1>6, <1>7 DEF IInv

(* VIDIOC_QBUF hands the driver one more buffer, in the order of the        *)
(* numbers.                                                                 *)
LEMMA QueueBufferIInv == IInv /\ QueueBuffer => IInv'
<1> SUFFICES ASSUME IInv, QueueBuffer PROVE IInv'
  OBVIOUS
<1>1. /\ step = "queueBuffer" /\ i' \in Buffers
      /\ \/ i = NumBuffers /\ step' = "streamOn" /\ i' = 1
         \/ i < NumBuffers /\ step' = "queueBuffer" /\ i' = i + 1
  BY LoopPass DEF IInv, TypeOK, QueueBuffer, Steps
<1>2. i \in 1 .. NumBuffers /\ i \in Buffers /\ NumBuffers \in Nat
  BY NumBuffersType DEF IInv, TypeOK
<1>3. /\ filled' = <<>> /\ held' = {} /\ mFd' /\ mapped' = Buffers
      /\ ~streaming'
  BY <1>1 DEF IInv, Stages, QueueBuffer
<1>4. queued' = FirstBuffers(i)
  <2>1. i - 1 \in Nat /\ (i - 1) + 1 = i
    BY <1>2
  <2>2. queued' = Append(FirstBuffers(i - 1), i)
    BY <1>1 DEF IInv, Stages, QueueBuffer
  <2> QED
    BY <2>1, <2>2, FirstBuffersAppend
<1>5. TypeOK'
  <2>1. queued' \in Seq(Buffers)
    BY <1>2 DEF IInv, TypeOK, QueueBuffer
  <2>2. UNCHANGED <<mFd, streaming>>
    BY Zenon DEF QueueBuffer
  <2>3. mFd' \in BOOLEAN /\ streaming' \in BOOLEAN
    BY <2>2, Zenon DEF IInv, TypeOK
  <2>4. /\ step' \in Steps /\ i' \in Buffers
        /\ mapped' \subseteq Buffers /\ held' \subseteq Buffers
        /\ filled' \in Seq(Buffers)
        /\ yuyv' \in [Buffers -> Frames] /\ stamp' \in Frames
    BY <1>1 DEF IInv, TypeOK, QueueBuffer, Steps
  <2> QED
    BY <2>1, <2>3, <2>4, Zenon DEF TypeOK
<1>6. Stages'
  <2>1. CASE step' = "queueBuffer"
    <3>1. i' - 1 = i
      BY <2>1, <1>1, <1>2
    <3> QED
      BY <2>1, <3>1, <1>3, <1>4 DEF Stages
  <2>2. CASE step' = "streamOn"
    <3>1. i' = 1 /\ i = NumBuffers
      BY <2>2, <1>1
    <3> QED
      BY <2>2, <3>1, <1>3, <1>4 DEF Stages
  <2> QED
    BY <2>1, <2>2, <1>1
<1> QED
  BY <1>3, <1>5, <1>6, OwnedWhenAllMappedNext DEF IInv

(* by VIDIOC_STREAMON, *)
LEMMA StreamOnIInv == IInv /\ StreamOn => IInv'
<1> SUFFICES ASSUME IInv, StreamOn PROVE IInv'
  OBVIOUS
<1>1. step = "streamOn" /\ step' = "streaming" /\ streaming'
  BY DEF StreamOn
<1>2. mFd' /\ mapped' = Buffers
  BY <1>1 DEF IInv, Stages, StreamOn
<1>3. TypeOK'
  <2>1. mFd' \in BOOLEAN /\ streaming' \in BOOLEAN
    BY Zenon DEF IInv, TypeOK, StreamOn
  <2>2. /\ step' \in Steps
        /\ UNCHANGED <<queued, filled, yuyv, stamp, i, mapped, held>>
    BY DEF StreamOn, Steps
  <2> QED
    BY <2>1, <2>2, Zenon DEF IInv, TypeOK
<1>4. i' = 1
  BY <1>1 DEF IInv, Stages, StreamOn
<1>5. Stages'
  BY <1>1, <1>2, <1>4 DEF Stages
<1> QED
  BY <1>2, <1>3, <1>5, OwnedWhenAllMappedNext DEF IInv

(* The three uses of a streaming device keep the types.                     *)
LEMMA UseType == IInv /\ Use => TypeOK'
<1> SUFFICES ASSUME IInv, Use PROVE TypeOK'
  OBVIOUS
<1> USE DEF IInv, TypeOK
<1>1. /\ queued' \in Seq(Buffers) /\ filled' \in Seq(Buffers)
      /\ held' \subseteq Buffers
      /\ yuyv' \in [Buffers -> Frames] /\ stamp' \in Frames
  <2>1. CASE Capture /\ UNCHANGED held
    <3>1. Head(queued) \in Buffers /\ Tail(queued) \in Seq(Buffers)
      BY <2>1 DEF Capture
    <3>2. (stamp + 1) % FrameIds \in Frames
      BY CameraAssumption DEF Frames
    <3> QED
      BY <2>1, <3>1, <3>2 DEF Capture
  <2>2. CASE Dequeue /\ held' = held \union {Head(filled)}
    <3>1. Head(filled) \in Buffers /\ Tail(filled) \in Seq(Buffers)
      BY <2>2 DEF Dequeue
    <3> QED
      BY <2>2, <3>1 DEF Dequeue
  <2>3. CASE \E b \in held : ReturnBuffer(b) /\ held' = held \ {b}
    BY <2>3 DEF ReturnBuffer
  <2> QED
    BY <2>1, <2>2, <2>3 DEF Use
<1>2. UNCHANGED <<streaming, step, i, mFd, mapped>>
  BY Zenon DEF Use, Capture, Dequeue, ReturnBuffer
<1> QED
  BY <1>1, <1>2, Zenon

(* by every use of the running camera, *)
LEMMA UseIInv == IInv /\ Use => IInv'
<1> SUFFICES ASSUME IInv, Use PROVE IInv'
  OBVIOUS
<1>1. TypeOK'
  BY UseType
<1>2. step = "streaming" /\ step' = "streaming" /\ (streaming' <=> streaming)
  BY DEF Use, Capture, Dequeue, ReturnBuffer
<1>3. mFd' /\ mapped' = Buffers /\ streaming' /\ i' = 1
  BY <1>2 DEF IInv, Stages, Use
<1>4. Stages'
  BY <1>2, <1>3 DEF Stages
<1> QED
  BY <1>1, <1>3, <1>4, OwnedWhenAllMappedNext DEF IInv

(* by the end of the services, *)
LEMMA ServicesEndIInv == IInv /\ ServicesEnd => IInv'
<1> SUFFICES ASSUME IInv, ServicesEnd PROVE IInv'
  OBVIOUS
<1>1. step = "streaming" /\ step' = "streamOff"
  BY DEF ServicesEnd
<1>2. UNCHANGED <<cameraVars, i, mFd, mapped>>
  BY Zenon DEF ServicesEnd
<1>3. TypeOK'
  <2>1. step' \in Steps /\ held' \subseteq Buffers
    BY DEF ServicesEnd, Steps
  <2> QED
    BY <1>2, <2>1, Zenon DEF IInv, TypeOK, cameraVars
<1>4. mFd' /\ mapped' = Buffers /\ streaming' /\ i' = 1 /\ held' = {}
  BY <1>1, <1>2 DEF IInv, Stages, cameraVars, ServicesEnd
<1>5. Stages'
  BY <1>1, <1>4 DEF Stages
<1> QED
  BY <1>3, <1>4, <1>5, OwnedWhenAllMappedNext DEF IInv

(* by VIDIOC_STREAMOFF, *)
LEMMA StreamOffIInv == IInv /\ StreamOff => IInv'
<1> SUFFICES ASSUME IInv, StreamOff PROVE IInv'
  OBVIOUS
<1>1. step = "streamOff" /\ step' = "unmapBuffer" /\ ~streaming'
  BY DEF StreamOff, StopCapturing
<1>2. mFd' /\ mapped' = Buffers
  BY <1>1 DEF IInv, Stages, StreamOff
<1>3. NothingOwned' /\ i' = 1
  BY <1>1 DEF IInv, Stages, StreamOff, StopCapturing, NothingOwned
<1>4. TypeOK'
  <2>1. mFd' \in BOOLEAN /\ streaming' \in BOOLEAN
    BY Zenon DEF IInv, TypeOK, StreamOff, StopCapturing
  <2>2. step' \in Steps /\ queued' \in Seq(Buffers) /\ filled' \in Seq(Buffers)
    BY DEF StreamOff, StopCapturing, Steps
  <2>3. UNCHANGED <<yuyv, stamp, i, mapped, held>>
    BY DEF StreamOff, StopCapturing
  <2> QED
    BY <2>1, <2>2, <2>3, Zenon DEF IInv, TypeOK
<1>5. Stages'
  <2>1. mapped' = i' .. NumBuffers
    BY <1>2, <1>3, NumBuffersType
  <2> QED
    BY <1>1, <1>2, <1>3, <2>1 DEF Stages, NothingOwned
<1> QED
  BY <1>2, <1>4, <1>5, OwnedWhenAllMappedNext DEF IInv

(* by munmap of one more buffer, *)
LEMMA UnmapBufferIInv == IInv /\ UnmapBuffer => IInv'
<1> SUFFICES ASSUME IInv, UnmapBuffer PROVE IInv'
  OBVIOUS
<1>1. /\ step = "unmapBuffer" /\ i' \in Buffers
      /\ \/ i = NumBuffers /\ step' = "closeDevice" /\ i' = 1
         \/ i < NumBuffers /\ step' = "unmapBuffer" /\ i' = i + 1
  BY LoopPass DEF IInv, TypeOK, UnmapBuffer, Steps
<1>2. i \in 1 .. NumBuffers /\ NumBuffers \in Nat
  BY NumBuffersType DEF IInv, TypeOK
<1>3. mapped' = i + 1 .. NumBuffers /\ mFd' /\ NothingOwned' /\ ~streaming'
  <2>1. mapped = i .. NumBuffers /\ mFd /\ NothingOwned /\ ~streaming
    BY <1>1 DEF IInv, Stages
  <2>2. mapped' = i + 1 .. NumBuffers
    BY <2>1, <1>2 DEF UnmapBuffer
  <2> QED
    BY <2>1, <2>2 DEF UnmapBuffer, NothingOwned, cameraVars
<1>4. TypeOK'
  <2>1. mapped' \subseteq Buffers /\ step' \in Steps
    BY <1>1, <1>2, <1>3, NumBuffersType DEF Steps
  <2>2. UNCHANGED <<cameraVars, mFd, held>>
    BY Zenon DEF UnmapBuffer
  <2> QED
    BY <2>1, <2>2, <1>1, Zenon DEF IInv, TypeOK, cameraVars
<1>5. Stages'
  <2>1. CASE step' = "unmapBuffer"
    BY <2>1, <1>1, <1>3 DEF Stages
  <2>2. CASE step' = "closeDevice"
    <3>1. mapped' = {}
      BY <2>2, <1>1, <1>2, <1>3
    <3> QED
      BY <2>2, <3>1, <1>3 DEF Stages
  <2> QED
    BY <2>1, <2>2, <1>1
<1> QED
  BY <1>3, <1>4, <1>5, OwnedWhenNothingNext DEF IInv

(* and by the end of the device. *)
LEMMA CloseDeviceIInv == IInv /\ CloseDevice => IInv'
<1> SUFFICES ASSUME IInv, CloseDevice PROVE IInv'
  OBVIOUS
<1>1. step = "closeDevice" /\ step' = "return" /\ ~mFd'
  BY DEF CloseDevice
<1>2. UNCHANGED <<cameraVars, i, mapped, held>>
  BY Zenon DEF CloseDevice
<1>3. NothingOwned' /\ mapped' = {} /\ ~streaming'
  BY <1>1, <1>2 DEF IInv, Stages, NothingOwned, cameraVars
<1>4. TypeOK'
  <2>1. step' \in Steps /\ mFd' \in BOOLEAN
    BY DEF CloseDevice, Steps
  <2> QED
    BY <2>1, <1>2, Zenon DEF IInv, TypeOK, cameraVars
<1>5. Stages'
  BY <1>1, <1>3 DEF Stages
<1> QED
  BY <1>3, <1>4, <1>5, OwnedWhenNothingNext DEF IInv

-----------------------------------------------------------------------------
(* The invariant: every call finds what the calls before it have prepared.  *)
THEOREM Invariance == Spec => []IInv
<1>1. Init => IInv
  BY InitIInv
<1>2. IInv /\ [Next]_deviceVars => IInv'
  <2> SUFFICES ASSUME IInv, [Next]_deviceVars PROVE IInv'
    OBVIOUS
  <2>1. CASE OpenDevice \/ InitDevice \/ RequestBuffers
    BY <2>1, OpenIInv
  <2>2. CASE MapBuffer
    BY <2>2, MapBufferIInv
  <2>3. CASE QueueBuffer
    BY <2>3, QueueBufferIInv
  <2>4. CASE StreamOn
    BY <2>4, StreamOnIInv
  <2>5. CASE Use
    BY <2>5, UseIInv
  <2>6. CASE ServicesEnd
    BY <2>6, ServicesEndIInv
  <2>7. CASE StreamOff
    BY <2>7, StreamOffIInv
  <2>8. CASE UnmapBuffer
    BY <2>8, UnmapBufferIInv
  <2>9. CASE CloseDevice
    BY <2>9, CloseDeviceIInv
  <2>10. CASE Fail
    BY <2>10, FailIInv
  <2>11. CASE UNCHANGED deviceVars
    <3> USE <2>11 DEF deviceVars, cameraVars
    <3>1. TypeOK'
      BY DEF IInv, TypeOK
    <3>2. Stages'
      BY DEF IInv, Stages, NothingOwned
    <3>3. OwnedIsMapped'
      BY DEF IInv, OwnedIsMapped
    <3> QED
      BY <3>1, <3>2, <3>3 DEF IInv
  <2> QED
    BY <2>1, <2>2, <2>3, <2>4, <2>5, <2>6, <2>7, <2>8, <2>9, <2>10, <2>11
       DEF Next
<1> QED
  BY <1>1, <1>2, PTL DEF Spec

(* No loop over the buffers leaves the array mBuffers.                      *)
THEOREM TypeCorrect == Spec => []TypeOK
<1>1. IInv => TypeOK
  BY DEF IInv
<1> QED
  BY <1>1, Invariance, PTL

(* The driver and the services only ever own mapped buffers of an open      *)
(* device, whatever call fails.                                             *)
THEOREM OwnedBuffersAreMapped == Spec => []OwnedIsMapped
<1>1. IInv => OwnedIsMapped
  BY DEF IInv
<1> QED
  BY <1>1, Invariance, PTL

(* The calls of stopCamera undo all of startCamera.                         *)
THEOREM EverythingIsUndone == Spec => []NothingLeft
<1>1. IInv => NothingLeft
  BY DEF IInv, Stages, NothingLeft
<1> QED
  BY <1>1, Invariance, PTL
-----------------------------------------------------------------------------
(* The queue that Camera sees. *)
Seen == IF streaming THEN queued ELSE <<>>

(* A step that leaves the stream, and what is seen of it, as they are.      *)
LEMMA Stutter ==
    UNCHANGED <<streaming, filled, yuyv, stamp>> /\ Seen' = Seen
        => UNCHANGED Device!cameraVars
BY DEF Seen, Device!cameraVars

(* What is done before STREAMON and after STREAMOFF is not seen by Camera. *)
LEMMA QuietSteps ==
    ASSUME IInv,
           \/ OpenDevice \/ InitDevice \/ RequestBuffers \/ MapBuffer
           \/ ServicesEnd \/ UnmapBuffer \/ CloseDevice \/ Fail
    PROVE  UNCHANGED Device!cameraVars
<1>1. UNCHANGED cameraVars
  BY Zenon DEF OpenDevice, InitDevice, RequestBuffers, MapBuffer, ServicesEnd,
               UnmapBuffer, CloseDevice, Fail
<1>2. UNCHANGED <<streaming, filled, yuyv, stamp>> /\ Seen' = Seen
  BY <1>1 DEF cameraVars, Seen
<1> QED
  BY <1>2, Stutter

(* The buffers that are queued before STREAMON are not seen either. *)
LEMMA QueueBufferStep ==
    ASSUME IInv, QueueBuffer PROVE UNCHANGED Device!cameraVars
<1>1. UNCHANGED <<streaming, filled, yuyv, stamp>>
  BY DEF QueueBuffer
<1>2. ~streaming
  BY DEF IInv, Stages, QueueBuffer, NextBuffer
<1>3. Seen' = Seen
  BY <1>1, <1>2 DEF Seen
<1> QED
  BY <1>1, <1>3, Stutter

(* VIDIOC_STREAMON is StartCapturing. *)
LEMMA StreamOnStep == ASSUME IInv, StreamOn PROVE DeviceNext
<1>1. ~streaming /\ filled = <<>> /\ queued = FirstBuffers(NumBuffers)
  BY DEF IInv, Stages, StreamOn
<1>2. streaming' /\ streaming' = TRUE /\ queued' = [b \in Buffers |-> b]
  BY <1>1, NumBuffersType DEF StreamOn, FirstBuffers
<1>3. UNCHANGED <<filled, yuyv, stamp>>
  BY DEF StreamOn
<1>4. Device!StartCapturing
  BY <1>2, <1>3 DEF Device!StartCapturing, Device!Buffers, Buffers
<1> QED
  BY <1>1, <1>4 DEF DeviceNext

(* A use of the device is the step of Camera of that name. *)
LEMMA UseStep == ASSUME IInv, Use PROVE DeviceNext
<1>1. streaming
  BY DEF IInv, Stages, Use
<1>2. CASE Capture
  <2>1. streaming' /\ UNCHANGED streaming
    BY <1>1, <1>2 DEF Capture
  <2>2. Device!Capture
    BY <1>1, <1>2, <2>1 DEF Capture, Device!Capture
  <2> QED
    BY <2>2 DEF DeviceNext
<1>3. CASE Dequeue
  <2>1. streaming' /\ UNCHANGED <<streaming, queued>>
    BY <1>1, <1>3 DEF Dequeue
  <2>2. Device!Dequeue
    BY <1>1, <1>3, <2>1 DEF Dequeue, Device!Dequeue
  <2> QED
    BY <2>2 DEF DeviceNext
<1>4. CASE \E b \in held : ReturnBuffer(b)
  <2>1. PICK b \in held : ReturnBuffer(b)
    BY <1>4
  <2>2. streaming' /\ UNCHANGED streaming
    BY <1>1, <2>1 DEF ReturnBuffer
  <2>3. Device!ReturnBuffer(b)
    BY <1>1, <2>1, <2>2 DEF ReturnBuffer, Device!ReturnBuffer
  <2> QED
    BY <2>3 DEF DeviceNext
<1> QED
  BY <1>2, <1>3, <1>4 DEF Use

(* VIDIOC_STREAMOFF is StopCapturing. *)
LEMMA StreamOffStep == ASSUME IInv, StreamOff PROVE DeviceNext
<1>1. streaming
  BY DEF IInv, Stages, StreamOff
<1>2. ~streaming' /\ streaming' = FALSE
  BY DEF StreamOff, StopCapturing
<1>3. filled' = <<>> /\ UNCHANGED <<yuyv, stamp>>
  BY DEF StreamOff, StopCapturing
<1>4. Device!StopCapturing
  BY <1>2, <1>3 DEF Device!StopCapturing
<1> QED
  BY <1>1, <1>4 DEF DeviceNext

(* Call by call, the device does what Camera does in one step each.         *)
THEOREM Refinement == Spec => ImplementsCamera
<1>1. Init => Device!CameraInit
  <2> SUFFICES ASSUME Init PROVE Device!CameraInit
    OBVIOUS
  <2>1. ~streaming /\ streaming = FALSE /\ filled = <<>> /\ stamp = 0
        /\ yuyv = [b \in Buffers |-> 0]
    BY DEF Init, CameraInit
  <2> QED
    BY <2>1 DEF Device!CameraInit, Device!Buffers, Buffers
<1>2. IInv /\ [Next]_deviceVars => [DeviceNext]_(Device!cameraVars)
  <2> SUFFICES ASSUME IInv, [Next]_deviceVars
               PROVE  DeviceNext \/ UNCHANGED Device!cameraVars
    OBVIOUS
  <2>1. CASE \/ OpenDevice \/ InitDevice \/ RequestBuffers \/ MapBuffer
             \/ ServicesEnd \/ UnmapBuffer \/ CloseDevice \/ Fail
    BY <2>1, QuietSteps
  <2>2. CASE QueueBuffer
    BY <2>2, QueueBufferStep
  <2>3. CASE StreamOn
    BY <2>3, StreamOnStep
  <2>4. CASE Use
    BY <2>4, UseStep
  <2>5. CASE StreamOff
    BY <2>5, StreamOffStep
  <2>6. CASE UNCHANGED deviceVars
    <3>1. UNCHANGED <<streaming, filled, yuyv, stamp>> /\ Seen' = Seen
      BY <2>6 DEF deviceVars, cameraVars, Seen
    <3> QED
      BY <3>1, Stutter
  <2> QED
    BY <2>1, <2>2, <2>3, <2>4, <2>5, <2>6 DEF Next
<1> QED
  BY <1>1, <1>2, Invariance, PTL DEF Spec, ImplementsCamera
=============================================================================
