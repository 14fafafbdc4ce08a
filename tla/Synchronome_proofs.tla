-------------------------- MODULE Synchronome_proofs -------------------------
(***************************************************************************)
(* Safety of the synchronome for every number of buffers, messages and     *)
(* frames and every set of faults: first the threads and what they hold,   *)
(* then the way of the buffers and of the pictures.  The camera buffers    *)
(* form a ring, and so do the RGB buffers: read from the oldest to the one *)
(* that was given back last, the places a buffer can be in are one         *)
(* sequence which a step leaves as it is or turns by one buffer.           *)
(***************************************************************************)
EXTENDS Synchronome, SequenceTheorems, TLAPS

-----------------------------------------------------------------------------
(* The inductive invariant *)

(* Which handlers a thread holds at which point of its routine. *)
TickWorking == {"allocate", "convert", "execute", "requeue"}

HandlersHeld ==
    /\ pc["camera"] = "send" => cameraBuffer # NoBuffer
    /\ tickBuffer # NoBuffer <=> pc["tick"] \in TickWorking
    /\ pc["tick"] \in {"convert", "execute", "send"} => tickRgb # NullRgb
    /\ pc["tick"] \notin {"convert", "execute", "requeue", "send"}
           => tickRgb = NullRgb
    /\ saverRgb # NullRgb <=> pc["saver"] \in {"save", "return", "spin"}
    /\ pc["saver"] \in {"none", "open"} => saved = 0
    /\ pc["saver"] \in {"receive", "save"} => saved < FrameCount

(* How far main is says which services run and whether the camera does. *)
Lifecycle ==
    /\ streaming <=> pc["main"] \notin {"unlink", "startCamera", "return"}
    /\ pc["camera"] = "none"
           <=> pc["main"] \in {"unlink", "startCamera", "startServices"}
    /\ pc["tick"] = "none"
           <=> pc["main"] \in {"unlink", "startCamera", "startServices",
                               "startTick"}
    /\ pc["saver"] = "none"
           <=> pc["main"] \in {"unlink", "startCamera", "startServices",
                               "startTick", "startSaver"}
    /\ pc["main"] \in {"joinTick", "stopCamera", "return"}
           => pc["camera"] = "exited"
    /\ pc["main"] \in {"stopCamera", "return"} => pc["tick"] = "exited"

(* There are no more handlers than buffers, wherever they are. *)
Count(handler, nothing) == IF handler = nothing THEN 0 ELSE 1

CameraHandlers ==
    Len(queued) + Len(filled) + Len(cameraMq)
        + (IF pc["camera"] = "send" THEN 1 ELSE 0)
        + Count(tickBuffer, NoBuffer)

RgbCount ==
    Len(mAvailable) + Len(tickMq) + Count(tickRgb, NullRgb)
        + Count(mOldImage, NullRgb) + Count(saverRgb, NullRgb)

HandlersBounded ==
    /\ Started => CameraHandlers <= NumBuffers
    /\ Started => RgbCount <= NumRgb
    /\ pc["main"] \in {"unlink", "startCamera"} =>
           queued = <<>> /\ filled = <<>>
    /\ pc["main"] = "startCamera" => cameraMq = <<>>
    /\ pc["main"] = "unlink" =>
           mAvailable = [i \in RgbBuffers |-> i] /\ mOldImage = NullRgb

IInv == TypeOK /\ HandlersHeld /\ Lifecycle /\ HandlersBounded

-----------------------------------------------------------------------------
(* Helpers *)

(* What a step of one thread does to the program counters. *)
LEMMA GotoType ==
    ASSUME TypeOK, NEW t \in Threads, NEW from, NEW to \in Points,
           Goto(t, from, to)
    PROVE  /\ pc' \in [Threads -> Points]
           /\ pc[t] = from /\ pc'[t] = to
           /\ \A u \in Threads \ {t} : pc'[u] = pc[u]
  BY DEF TypeOK, Goto

(* The same for the start of a service. *)
LEMMA StartType ==
    ASSUME TypeOK, NEW s \in Services, NEW from, NEW to \in Points,
           Start(s, from, to)
    PROVE  /\ pc' \in [Threads -> Points]
           /\ pc["main"] = from /\ pc'["main"] = to /\ pc'[s] = "open"
           /\ \A u \in Threads \ {"main", s} : pc'[u] = pc[u]
           /\ UNCHANGED mSemExit
  BY DEF TypeOK, Start, Threads, Services, Points, SaverPoints

(* A queue with a single message. *)
LEMMA SingletonSeq ==
    ASSUME NEW S, NEW x \in S
    PROVE  <<x>> \in Seq(S)
  OBVIOUS

-----------------------------------------------------------------------------
(* Types *)

(* The program starts with every variable of its type and no handler held. *)
LEMMA InitType == Init => TypeOK /\ HandlersHeld
  <1> SUFFICES ASSUME Init PROVE TypeOK /\ HandlersHeld
    OBVIOUS
  <1> USE CameraAssumption, TickDetectorAssumption, SynchronomeAssumption
      DEF CameraAssumption, TickDetectorAssumption, SynchronomeAssumption
  <1>1. /\ pc = [t \in Threads |-> IF t = "main" THEN "unlink" ELSE "none"]
        /\ mSemExit = [s \in Services |-> 0]
    BY DEF Init, ServiceInit
  <1>2. /\ pc \in [Threads -> Points]
        /\ pc["main"] = "unlink" /\ pc["camera"] = "none"
        /\ pc["tick"] = "none" /\ pc["saver"] = "none"
        /\ mSemExit \in [Services -> Nat]
    BY <1>1 DEF Threads, Services, Points, MainPoints, SaverPoints
  <1>3. streaming \in BOOLEAN
    BY Zenon DEF Init, CameraInit
  <1>4. /\ queued \in Seq(Buffers) /\ filled \in Seq(Buffers)
        /\ yuyv \in [Buffers -> Frames] /\ stamp \in Frames
    BY DEF Init, CameraInit, Buffers, Frames
  <1>5. /\ mAvailable \in Seq(RgbBuffers)
        /\ mOldImage \in RgbHandlers \cup {NullRgb}
        /\ mState \in {"Still", "Moving"}
        /\ rgbImage \in [RgbBuffers -> Frames]
    BY DEF Init, TickDetectorInit, RgbBuffers, Frames
  <1>6. cameraMq \in Seq(Buffers)
    <2>1. 1 \in Buffers
      BY DEF Buffers
    <2>2. <<1>> \in Seq(Buffers) /\ <<>> \in Seq(Buffers)
      BY <2>1, SingletonSeq
    <2>3. cameraMq \in {<<>>, <<1>>}
      BY DEF Init
    <2> QED
      BY <2>2, <2>3
  <1>7. tickMq \in Seq(RgbHandlers)
    <2>1. [mStart |-> 1, mIsTick |-> TRUE] \in RgbHandlers
      BY DEF RgbHandlers, RgbBuffers
    <2>2. /\ <<[mStart |-> 1, mIsTick |-> TRUE]>> \in Seq(RgbHandlers)
          /\ <<>> \in Seq(RgbHandlers)
      BY <2>1, SingletonSeq
    <2>3. tickMq \in {<<>>, <<[mStart |-> 1, mIsTick |-> TRUE]>>}
      BY DEF Init
    <2> QED
      BY <2>2, <2>3
  <1>8. /\ process = "running" /\ opened = {} /\ saverRc = "ok" /\ saved = 0
        /\ cameraBuffer = NoBuffer /\ tickBuffer = NoBuffer
        /\ tickRgb = NullRgb /\ saverRgb = NullRgb
    BY DEF Init
  <1>9. TypeOK
    BY <1>2, <1>3, <1>4, <1>5, <1>6, <1>7, <1>8
       DEF TypeOK, MainPoints, CameraPoints, TickPoints, SaverPoints
  <1>10. HandlersHeld
    BY <1>2, <1>8 DEF HandlersHeld, TickWorking
  <1> QED
    BY <1>9, <1>10

(* exit() leaves every variable but process as it is. *)
LEMMA ExitType ==
    ASSUME TypeOK, HandlersHeld, ExitFailure
    PROVE  TypeOK' /\ HandlersHeld'
  BY DEF TypeOK, HandlersHeld, ExitFailure, serviceVars, cameraVars,
         tickDetectorVars, queueVars, handlerVars

(* The points are where the steps say they are. *)
LEMMA PointsListed ==
    /\ Threads = {"main", "camera", "tick", "saver"}
    /\ Services = {"camera", "tick", "saver"}
    /\ MainPoints \cup CameraPoints \cup TickPoints \cup SaverPoints = Points
  BY DEF Threads, Services, Points

(* main keeps the types: every outcome of its system calls. *)
LEMMA MainType ==
    ASSUME TypeOK, HandlersHeld, Lifecycle, Main
    PROVE  TypeOK' /\ HandlersHeld'
  <1> USE DEF MainPoints, cameraVars, tickDetectorVars, queueVars, handlerVars
  <1>1. CASE MainUnlink
    <2>1. /\ pc' \in [Threads -> Points] /\ pc'["main"] = "startCamera"
          /\ \A u \in Threads \ {"main"} : pc'[u] = pc[u]
      BY <1>1, GotoType, PointsListed DEF MainUnlink
    <2>2. cameraMq' \in Seq(Buffers) /\ tickMq' \in Seq(RgbHandlers)
      BY <1>1 DEF MainUnlink
    <2> QED
      BY <1>1, <2>1, <2>2, PointsListed DEF MainUnlink, TypeOK, HandlersHeld
  <1>2. CASE MainStartCamera
    <2>1. CASE ExitFailure
      BY <2>1, ExitType
    <2>2. CASE ~ExitFailure
      <3>1. /\ Goto("main", "startCamera", "startServices")
            /\ StartCapturing
            /\ UNCHANGED <<mSemExit, tickDetectorVars, process, queueVars,
                           handlerVars>>
        BY <1>2, <2>2 DEF MainStartCamera
      <3>2. /\ pc' \in [Threads -> Points] /\ pc'["main"] = "startServices"
            /\ \A u \in Threads \ {"main"} : pc'[u] = pc[u]
        BY <3>1, GotoType, PointsListed
      <3>3. streaming' \in BOOLEAN
        BY <3>1, Zenon DEF StartCapturing
      <3>4. queued' \in Seq(Buffers)
        BY <3>1, CameraAssumption DEF CameraAssumption, StartCapturing, Buffers
      <3> QED
        BY <3>1, <3>2, <3>3, <3>4, PointsListed
           DEF StartCapturing, TypeOK, HandlersHeld
    <2> QED
      BY <2>1, <2>2
  <1>3. CASE MainStartService
    <2>1. CASE ExitFailure
      BY <2>1, ExitType
    <2>2. CASE Start("camera", "startServices", "startTick")
                /\ UNCHANGED <<cameraVars, tickDetectorVars, process,
                               queueVars, handlerVars>>
      <3>1. /\ pc' \in [Threads -> Points]
            /\ pc["main"] = "startServices" /\ pc'["main"] = "startTick"
            /\ pc'["camera"] = "open" /\ UNCHANGED mSemExit
            /\ pc'["tick"] = pc["tick"] /\ pc'["saver"] = pc["saver"]
        BY <2>2, StartType, PointsListed
      <3> QED
        BY <2>2, <3>1 DEF TypeOK, HandlersHeld, CameraPoints
    <2>3. CASE Start("tick", "startTick", "startSaver")
                /\ UNCHANGED <<cameraVars, tickDetectorVars, process,
                               queueVars, handlerVars>>
      <3>1. /\ pc' \in [Threads -> Points]
            /\ pc["main"] = "startTick" /\ pc'["main"] = "startSaver"
            /\ pc'["tick"] = "open" /\ UNCHANGED mSemExit
            /\ pc'["camera"] = pc["camera"] /\ pc'["saver"] = pc["saver"]
        BY <2>3, StartType, PointsListed
      <3>2. pc["tick"] = "none"
        BY <3>1 DEF Lifecycle
      <3> QED
        BY <2>3, <3>1, <3>2 DEF TypeOK, HandlersHeld, TickPoints, TickWorking
    <2>4. CASE Start("saver", "startSaver", "joinSaver")
                /\ UNCHANGED <<cameraVars, tickDetectorVars, process,
                               queueVars, handlerVars>>
      <3>1. /\ pc' \in [Threads -> Points]
            /\ pc["main"] = "startSaver" /\ pc'["main"] = "joinSaver"
            /\ pc'["saver"] = "open" /\ UNCHANGED mSemExit
            /\ pc'["camera"] = pc["camera"] /\ pc'["tick"] = pc["tick"]
        BY <2>4, StartType, PointsListed
      <3>2. pc["saver"] = "none"
        BY <3>1 DEF Lifecycle
      <3> QED
        BY <2>4, <3>1, <3>2 DEF TypeOK, HandlersHeld, SaverPoints
    <2> QED
      BY <1>3, <2>1, <2>2, <2>3, <2>4 DEF MainStartService
  <1>4. CASE MainShutdown
    <2>1. ASSUME NEW from, NEW to \in MainPoints, Goto("main", from, to)
          PROVE  /\ pc' \in [Threads -> Points] /\ pc'["main"] = to
                 /\ \A u \in Services : pc'[u] = pc[u]
      BY <2>1, GotoType, PointsListed
    <2>2. /\ pc' \in [Threads -> Points] /\ pc'["main"] \in MainPoints
          /\ \A u \in Services : pc'[u] = pc[u]
      BY <1>4, <2>1 DEF MainShutdown, Join, FlagExit
    <2>3. mSemExit' \in [Services -> Nat]
      <3>1. mSemExit' = mSemExit
            \/ \E s \in Services :
                  mSemExit' = [mSemExit EXCEPT ![s] = @ + 1]
        BY <1>4, PointsListed DEF MainShutdown, Join, FlagExit
      <3>2. mSemExit \in [Services -> Nat]
        BY DEF TypeOK
      <3> QED
        BY <3>1, <3>2
    <2> QED
      BY <1>4, <2>2, <2>3, PointsListed DEF MainShutdown, TypeOK, HandlersHeld
  <1>5. CASE MainStopCamera
    <2>1. CASE ExitFailure
      BY <2>1, ExitType
    <2>2. CASE ~ExitFailure
      <3>1. /\ Goto("main", "stopCamera", "return")
            /\ StopCapturing
            /\ UNCHANGED <<mSemExit, tickDetectorVars, process, queueVars,
                           handlerVars>>
        BY <1>5, <2>2 DEF MainStopCamera
      <3>2. /\ pc' \in [Threads -> Points] /\ pc'["main"] = "return"
            /\ \A u \in Services : pc'[u] = pc[u]
        BY <3>1, GotoType, PointsListed
      <3>3. streaming' \in BOOLEAN
        BY <3>1, Zenon DEF StopCapturing
      <3> QED
        BY <3>1, <3>2, <3>3, PointsListed DEF StopCapturing, TypeOK, HandlersHeld
    <2> QED
      BY <2>1, <2>2
  <1>6. CASE MainReturn
    BY <1>6 DEF MainReturn, TypeOK, HandlersHeld, serviceVars
  <1> QED
    BY <1>1, <1>2, <1>3, <1>4, <1>5, <1>6 DEF Main

(* The driver moves a buffer between its own two queues. *)
LEMMA DriverType ==
    ASSUME TypeOK, HandlersHeld, DriverCapture
    PROVE  TypeOK' /\ HandlersHeld'
  <1> USE DEF DriverCapture, Capture, serviceVars, tickDetectorVars, queueVars,
              handlerVars
  <1>1. Head(queued) \in Buffers /\ Tail(queued) \in Seq(Buffers)
    BY DEF TypeOK
  <1>2. /\ queued' \in Seq(Buffers) /\ filled' \in Seq(Buffers)
        /\ yuyv' \in [Buffers -> Frames]
    BY <1>1 DEF TypeOK
  <1>3. stamp' \in Frames
    BY CameraAssumption DEF CameraAssumption, TypeOK, Frames
  <1> QED
    BY <1>2, <1>3 DEF TypeOK, HandlersHeld

(* A step of a service leaves the other threads where they are.             *)
LEMMA ServiceGoto ==
    ASSUME TypeOK, NEW t \in Services, NEW from, NEW to \in Points,
           Goto(t, from, to)
    PROVE  /\ pc' \in [Threads -> Points]
           /\ pc[t] = from /\ pc'[t] = to
           /\ \A u \in Threads \ {t} : pc'[u] = pc[u]
  BY GotoType DEF Threads

(* The two outcomes of doExit. *)
LEMMA DoExitType ==
    ASSUME TypeOK, NEW s \in Services, NEW body \in Points, DoExit(s, body)
    PROVE  /\ pc' \in [Threads -> Points]
           /\ pc[s] = "check" /\ pc'[s] \in {"exited", body}
           /\ \A u \in Threads \ {s} : pc'[u] = pc[u]
           /\ mSemExit' \in [Services -> Nat]
  <1>1. "exited" \in Points
    BY DEF Points, SaverPoints
  <1>2. /\ pc' \in [Threads -> Points]
        /\ pc[s] = "check" /\ pc'[s] \in {"exited", body}
        /\ \A u \in Threads \ {s} : pc'[u] = pc[u]
    BY <1>1, ServiceGoto DEF DoExit
  <1>3. mSemExit' \in [Services -> Nat]
    BY DEF DoExit, TypeOK
  <1> QED
    BY <1>2, <1>3

(* The camera thread keeps the types, and holds a buffer when it sends. *)
LEMMA CameraType ==
    ASSUME TypeOK, HandlersHeld, CameraThread
    PROVE  TypeOK' /\ HandlersHeld'
  <1> USE DEF cameraVars, tickDetectorVars, queueVars, handlerVars
  <1>0. CASE ExitFailure
    BY <1>0, ExitType
  <1>1. CASE CameraOpen
    <2>1. /\ pc' \in [Threads -> Points] /\ pc'["camera"] = "check"
          /\ \A u \in {"main", "tick", "saver"} : pc'[u] = pc[u]
      BY <1>1, ServiceGoto, PointsListed DEF CameraOpen, CameraPoints
    <2>2. opened' \subseteq QueueEnds
      BY <1>1 DEF CameraOpen, MqOpen, QueueEnds, TypeOK
    <2> QED
      BY <1>1, <2>1, <2>2 DEF CameraOpen, CameraPoints, TypeOK, HandlersHeld
  <1>2. CASE CameraCheckExit
    <2>1. /\ pc' \in [Threads -> Points] /\ pc'["camera"] \in {"exited", "select"}
          /\ \A u \in {"main", "tick", "saver"} : pc'[u] = pc[u]
          /\ mSemExit' \in [Services -> Nat]
      BY <1>2, DoExitType, PointsListed DEF CameraCheckExit, CameraPoints
    <2> QED
      BY <1>2, <2>1 DEF CameraCheckExit, CameraPoints, TypeOK, HandlersHeld
  <1>3. CASE CameraSelect /\ ~ExitFailure
    <2>1. \E to \in {"dequeue", "check"} : Goto("camera", "select", to)
      BY <1>3 DEF CameraSelect
    <2>2. /\ pc' \in [Threads -> Points] /\ pc'["camera"] \in {"dequeue", "check"}
          /\ \A u \in {"main", "tick", "saver"} : pc'[u] = pc[u]
      BY <2>1, ServiceGoto, PointsListed DEF CameraPoints
    <2> QED
      BY <1>3, <2>2 DEF CameraSelect, CameraPoints, TypeOK, HandlersHeld
  <1>4. CASE CameraReadFrame /\ ~ExitFailure
    <2>1. \/ /\ Goto("camera", "dequeue", "send")
             /\ Dequeue
             /\ cameraBuffer' = Head(filled)
             /\ UNCHANGED <<mSemExit, tickDetectorVars, process, queueVars,
                            tickBuffer, tickRgb, saverRgb, saverRc, saved>>
          \/ /\ Goto("camera", "dequeue", "check")
             /\ UNCHANGED <<mSemExit, cameraVars, tickDetectorVars, process,
                            queueVars, handlerVars>>
      BY <1>4 DEF CameraReadFrame
    <2>2. /\ pc' \in [Threads -> Points] /\ pc'["camera"] \in {"send", "check"}
          /\ \A u \in {"main", "tick", "saver"} : pc'[u] = pc[u]
          /\ pc'["camera"] = "send" => Dequeue /\ cameraBuffer' = Head(filled)
      BY <2>1, ServiceGoto, PointsListed DEF CameraPoints
    <2>3. /\ filled' \in Seq(Buffers)
          /\ cameraBuffer' \in Buffers \cup {NoBuffer}
          /\ pc'["camera"] = "send" => cameraBuffer' # NoBuffer
      <3>1. /\ filled \in Seq(Buffers)
            /\ filled # <<>> => /\ Head(filled) \in Buffers
                               /\ Tail(filled) \in Seq(Buffers)
        BY DEF TypeOK
      <3>2. \A b \in Buffers : b # NoBuffer
        BY CameraAssumption DEF CameraAssumption, Buffers, NoBuffer
      <3>3. CASE pc'["camera"] = "send"
        BY <2>2, <3>1, <3>2, <3>3 DEF Dequeue
      <3>4. CASE pc'["camera"] = "check"
        <4>1. UNCHANGED <<filled, cameraBuffer>>
          BY <2>1, <2>2, <3>4, ServiceGoto, PointsListed DEF CameraPoints
        <4> QED
          BY <3>1, <3>4, <4>1 DEF TypeOK
      <3> QED
        BY <2>2, <3>3, <3>4
    <2> QED
      BY <2>1, <2>2, <2>3 DEF Dequeue, CameraPoints, TypeOK, HandlersHeld
  <1>5. CASE CameraSend
    <2>1. /\ pc' \in [Threads -> Points] /\ pc'["camera"] = "sleep"
          /\ pc["camera"] = "send"
          /\ \A u \in {"main", "tick", "saver"} : pc'[u] = pc[u]
      BY <1>5, ServiceGoto, PointsListed DEF CameraSend, CameraPoints
    <2>2. cameraMq' \in Seq(Buffers)
      <3>1. cameraBuffer \in Buffers /\ cameraMq \in Seq(Buffers)
        BY <2>1 DEF TypeOK, HandlersHeld
      <3> QED
        BY <1>5, <3>1 DEF CameraSend
    <2> QED
      BY <1>5, <2>1, <2>2 DEF CameraSend, CameraPoints, TypeOK, HandlersHeld
  <1>6. CASE CameraSleep
    <2>1. /\ pc' \in [Threads -> Points] /\ pc'["camera"] = "check"
          /\ \A u \in {"main", "tick", "saver"} : pc'[u] = pc[u]
      BY <1>6, ServiceGoto, PointsListed DEF CameraSleep, CameraPoints
    <2> QED
      BY <1>6, <2>1 DEF CameraSleep, CameraPoints, TypeOK, HandlersHeld
  <1> QED
    BY <1>0, <1>1, <1>2, <1>3, <1>4, <1>5, <1>6 DEF CameraThread

(* So does the detector's thread, with its two handlers. *)
LEMMA TickType ==
    ASSUME TypeOK, HandlersHeld, TickThread
    PROVE  TypeOK' /\ HandlersHeld'
  <1> USE DEF cameraVars, tickDetectorVars, queueVars, handlerVars, TickWorking
  <1>0. CASE ExitFailure
    BY <1>0, ExitType
  <1>1. CASE TickOpenIn \/ TickOpenOut
    <2>1. /\ pc' \in [Threads -> Points] /\ pc'["tick"] \in {"openOut", "check"}
          /\ pc["tick"] \in {"open", "openOut"}
          /\ \A u \in {"main", "camera", "saver"} : pc'[u] = pc[u]
      BY <1>1, ServiceGoto, PointsListed DEF TickOpenIn, TickOpenOut, TickPoints
    <2>2. opened' \subseteq QueueEnds
      BY <1>1 DEF TickOpenIn, TickOpenOut, MqOpen, QueueEnds, TypeOK
    <2> QED
      BY <1>1, <2>1, <2>2
         DEF TickOpenIn, TickOpenOut, TickPoints, TypeOK, HandlersHeld
  <1>2. CASE TickCheckExit
    <2>1. /\ pc' \in [Threads -> Points] /\ pc'["tick"] \in {"exited", "receive"}
          /\ pc["tick"] = "check"
          /\ \A u \in {"main", "camera", "saver"} : pc'[u] = pc[u]
          /\ mSemExit' \in [Services -> Nat]
      BY <1>2, DoExitType, PointsListed DEF TickCheckExit, TickPoints
    <2> QED
      BY <1>2, <2>1 DEF TickCheckExit, TickPoints, TypeOK, HandlersHeld
  <1>3. CASE TickReceive
    <2>1. /\ pc' \in [Threads -> Points]
          /\ pc["tick"] = "receive"
          /\ \A u \in {"main", "camera", "saver"} : pc'[u] = pc[u]
          /\ \/ /\ pc'["tick"] = "allocate" /\ cameraMq # <<>>
                /\ tickBuffer' = Head(cameraMq) /\ cameraMq' = Tail(cameraMq)
             \/ /\ pc'["tick"] \in {"check", "exited"}
                /\ UNCHANGED <<tickBuffer, cameraMq>>
      BY <1>3, ServiceGoto, PointsListed DEF TickReceive, TickPoints
    <2>2. /\ cameraMq \in Seq(Buffers)
          /\ cameraMq # <<>> => /\ Head(cameraMq) \in Buffers
                               /\ Tail(cameraMq) \in Seq(Buffers)
      BY DEF TypeOK
    <2>3. \A b \in Buffers : b # NoBuffer
      BY CameraAssumption DEF CameraAssumption, Buffers, NoBuffer
    <2>4. /\ cameraMq' \in Seq(Buffers)
          /\ tickBuffer' \in Buffers \cup {NoBuffer}
          /\ tickBuffer' # NoBuffer <=> pc'["tick"] = "allocate"
      BY <2>1, <2>2, <2>3 DEF TypeOK, HandlersHeld
    <2> QED
      BY <1>3, <2>1, <2>4 DEF TickReceive, TickPoints, TypeOK, HandlersHeld
  <1>4. CASE TickAllocate /\ ~ExitFailure
    <2>1. /\ Allocated # NullRgb
          /\ Allocate
          /\ tickRgb' = Allocated
          /\ Goto("tick", "allocate", "convert")
          /\ UNCHANGED <<mSemExit, cameraVars, process, queueVars,
                         cameraBuffer, tickBuffer, saverRgb, saverRc, saved>>
      BY <1>4 DEF TickAllocate
    <2>2. /\ pc' \in [Threads -> Points] /\ pc'["tick"] = "convert"
          /\ pc["tick"] = "allocate"
          /\ \A u \in {"main", "camera", "saver"} : pc'[u] = pc[u]
      BY <2>1, ServiceGoto, PointsListed DEF TickPoints
    <2>3. mAvailable \in Seq(RgbBuffers) /\ mAvailable # <<>>
      BY <2>1 DEF TypeOK, Allocated
    <2>4. mAvailable' \in Seq(RgbBuffers) /\ tickRgb' \in RgbHandlers
      BY <2>1, <2>3 DEF Allocate, Allocated, RgbHandlers
    <2> QED
      BY <2>1, <2>2, <2>4 DEF Allocate, TickPoints, TypeOK, HandlersHeld
  <1>5. CASE TickConvert
    <2>1. /\ pc' \in [Threads -> Points] /\ pc'["tick"] = "execute"
          /\ pc["tick"] = "convert"
          /\ \A u \in {"main", "camera", "saver"} : pc'[u] = pc[u]
      BY <1>5, ServiceGoto, PointsListed DEF TickConvert, TickPoints
    <2>2. rgbImage' \in [RgbBuffers -> Frames]
      <3>1. tickBuffer \in Buffers
        BY <2>1 DEF TypeOK, HandlersHeld
      <3>2. yuyv[tickBuffer] \in Frames /\ rgbImage \in [RgbBuffers -> Frames]
        BY <3>1 DEF TypeOK
      <3> QED
        BY <1>5, <3>2 DEF TickConvert, ColorConvert
    <2> QED
      BY <1>5, <2>1, <2>2
         DEF TickConvert, ColorConvert, TickPoints, TypeOK, HandlersHeld
  <1>6. CASE TickExecute /\ ~ExitFailure
    <2>1. /\ Goto("tick", "execute", "requeue")
          /\ UNCHANGED <<mSemExit, cameraVars, process, queueVars,
                         cameraBuffer, tickBuffer, saverRgb, saverRc, saved>>
          /\ \/ ExecuteFirst(tickRgb) /\ tickRgb' = NullRgb
             \/ /\ \E level \in Levels : ExecuteNext(tickRgb, level)
                /\ tickRgb' = mOldImage
      BY <1>6 DEF TickExecute
    <2>2. /\ pc' \in [Threads -> Points] /\ pc'["tick"] = "requeue"
          /\ pc["tick"] = "execute"
          /\ \A u \in {"main", "camera", "saver"} : pc'[u] = pc[u]
      BY <2>1, ServiceGoto, PointsListed DEF TickPoints
    <2>3. tickRgb \in RgbHandlers
      BY <2>2 DEF TypeOK, HandlersHeld
    <2>4. /\ mOldImage' \in RgbHandlers
          /\ mState' \in {"Still", "Moving"}
          /\ UNCHANGED <<mAvailable, rgbImage>>
      <3>1. CASE ExecuteFirst(tickRgb)
        BY <2>3, <3>1 DEF ExecuteFirst, TypeOK
      <3>2. ASSUME NEW level \in Levels, ExecuteNext(tickRgb, level)
            PROVE  /\ mOldImage' \in RgbHandlers
                   /\ mState' \in {"Still", "Moving"}
                   /\ UNCHANGED <<mAvailable, rgbImage>>
        <4>1. IsTick(level) \in BOOLEAN
          BY Zenon DEF IsTick
        <4>2. mOldImage' \in RgbHandlers
          BY <2>3, <3>2, <4>1 DEF ExecuteNext, RgbHandlers
        <4> QED
          BY <3>2, <4>2 DEF ExecuteNext, NextState, TypeOK
      <3> QED
        BY <2>1, <3>1, <3>2
    <2>5. tickRgb' \in RgbHandlers \cup {NullRgb}
      BY <2>1 DEF TypeOK
    <2> QED
      BY <2>1, <2>2, <2>4, <2>5 DEF TickPoints, TypeOK, HandlersHeld
  <1>7. CASE TickRequeue /\ ~ExitFailure
    <2>1. /\ ReturnBuffer(tickBuffer)
          /\ tickBuffer' = NoBuffer
          /\ Goto("tick", "requeue", IF tickRgb = NullRgb THEN "check"
                                     ELSE "send")
          /\ UNCHANGED <<mSemExit, tickDetectorVars, process, queueVars,
                         cameraBuffer, tickRgb, saverRgb, saverRc, saved>>
      BY <1>7 DEF TickRequeue
    <2>2. /\ pc' \in [Threads -> Points]
          /\ pc'["tick"] = (IF tickRgb = NullRgb THEN "check" ELSE "send")
          /\ pc["tick"] = "requeue"
          /\ \A u \in {"main", "camera", "saver"} : pc'[u] = pc[u]
      BY <2>1, ServiceGoto, PointsListed DEF TickPoints
    <2>3. queued' \in Seq(Buffers)
      <3>1. tickBuffer \in Buffers /\ queued \in Seq(Buffers)
        BY <2>2 DEF TypeOK, HandlersHeld
      <3> QED
        BY <2>1, <3>1 DEF ReturnBuffer
    <2> QED
      BY <2>1, <2>2, <2>3 DEF ReturnBuffer, TickPoints, TypeOK, HandlersHeld
  <1>8. CASE TickSend /\ ~ExitFailure
    <2>1. /\ tickMq' = Append(tickMq, tickRgb)
          /\ tickRgb' = NullRgb
          /\ Goto("tick", "send", "check")
          /\ UNCHANGED <<mSemExit, cameraVars, tickDetectorVars, process,
                         cameraMq, opened, cameraBuffer, tickBuffer, saverRgb,
                         saverRc, saved>>
      BY <1>8 DEF TickSend
    <2>2. /\ pc' \in [Threads -> Points] /\ pc'["tick"] = "check"
          /\ pc["tick"] = "send"
          /\ \A u \in {"main", "camera", "saver"} : pc'[u] = pc[u]
      BY <2>1, ServiceGoto, PointsListed DEF TickPoints
    <2>3. tickMq' \in Seq(RgbHandlers)
      <3>1. tickRgb \in RgbHandlers /\ tickMq \in Seq(RgbHandlers)
        BY <2>2 DEF TypeOK, HandlersHeld
      <3> QED
        BY <2>1, <3>1
    <2> QED
      BY <2>1, <2>2, <2>3 DEF TickPoints, TypeOK, HandlersHeld
  <1> QED
    BY <1>0, <1>1, <1>2, <1>3, <1>4, <1>5, <1>6, <1>7, <1>8 DEF TickThread

(* So does the saver's thread, with its handler and its count. *)
LEMMA SaverType ==
    ASSUME TypeOK, HandlersHeld, SaverThread
    PROVE  TypeOK' /\ HandlersHeld'
  <1> USE SynchronomeAssumption
      DEF cameraVars, tickDetectorVars, queueVars, handlerVars
  <1>0. CASE ExitFailure
    BY <1>0, ExitType
  <1>1. CASE SaverOpen
    <2>1. /\ pc' \in [Threads -> Points] /\ pc'["saver"] = "receive"
          /\ pc["saver"] = "open"
          /\ \A u \in {"main", "camera", "tick"} : pc'[u] = pc[u]
      BY <1>1, ServiceGoto, PointsListed DEF SaverOpen, SaverPoints
    <2>2. opened' \subseteq QueueEnds
      BY <1>1 DEF SaverOpen, MqOpen, QueueEnds, TypeOK
    <2>3. saved' = saved /\ saved < FrameCount
      BY <1>1, <2>1 DEF SaverOpen, SynchronomeAssumption, HandlersHeld
    <2> QED
      BY <1>1, <2>1, <2>2, <2>3 DEF SaverOpen, SaverPoints, TypeOK, HandlersHeld
  <1>2. CASE SaverReceive
    <2>1. /\ pc' \in [Threads -> Points]
          /\ pc["saver"] = "receive"
          /\ \A u \in {"main", "camera", "tick"} : pc'[u] = pc[u]
          /\ \/ /\ pc'["saver"] \in {"save", "return"} /\ tickMq # <<>>
                /\ saverRgb' = Head(tickMq) /\ tickMq' = Tail(tickMq)
             \/ /\ pc'["saver"] = "exited"
                /\ UNCHANGED <<saverRgb, tickMq>>
      BY <1>2, ServiceGoto, PointsListed DEF SaverReceive, SaverPoints
    <2>2. /\ tickMq \in Seq(RgbHandlers)
          /\ tickMq # <<>> => /\ Head(tickMq) \in RgbHandlers
                             /\ Tail(tickMq) \in Seq(RgbHandlers)
      BY DEF TypeOK
    <2>3. \A h \in RgbHandlers : h # NullRgb
      BY TickDetectorAssumption
         DEF TickDetectorAssumption, RgbHandlers, RgbBuffers, NullRgb
    <2>4. /\ tickMq' \in Seq(RgbHandlers)
          /\ saverRgb' \in RgbHandlers \cup {NullRgb}
          /\ saverRgb' # NullRgb <=> pc'["saver"] \in {"save", "return"}
      BY <2>1, <2>2, <2>3 DEF TypeOK, HandlersHeld
    <2>5. saved' = saved /\ saved < FrameCount
      BY <1>2, <2>1 DEF SaverReceive, HandlersHeld
    <2> QED
      BY <1>2, <2>1, <2>4, <2>5 DEF SaverReceive, SaverPoints, TypeOK, HandlersHeld
  <1>3. CASE SaverSave /\ ~ExitFailure
    <2>1. /\ pc' \in [Threads -> Points] /\ pc'["saver"] \in {"return", "spin"}
          /\ pc["saver"] = "save"
          /\ \A u \in {"main", "camera", "tick"} : pc'[u] = pc[u]
      BY <1>3, ServiceGoto, PointsListed DEF SaverSave, SaverPoints
    <2>2. saved' \in 0 .. FrameCount
      BY <1>3, <2>1 DEF SaverSave, SynchronomeAssumption, TypeOK, HandlersHeld
    <2> QED
      BY <1>3, <2>1, <2>2 DEF SaverSave, SaverPoints, TypeOK, HandlersHeld
  <1>4. CASE SaverReturn
    <2>1. /\ pc' \in [Threads -> Points]
          /\ pc'["saver"] = (IF saved < FrameCount THEN "receive" ELSE "exited")
          /\ pc["saver"] = "return"
          /\ \A u \in {"main", "camera", "tick"} : pc'[u] = pc[u]
      BY <1>4, ServiceGoto, PointsListed DEF SaverReturn, SaverPoints
    <2>2. mAvailable' \in Seq(RgbBuffers)
      <3>1. /\ mAvailable \in Seq(RgbBuffers)
            /\ saverRgb.mStart \in RgbBuffers
        BY <2>1 DEF TypeOK, HandlersHeld, RgbHandlers
      <3> QED
        BY <1>4, <3>1 DEF SaverReturn, ReturnRgb
    <2>3. process' \in {"running", "success", "failure"}
      BY <1>4 DEF SaverReturn, TypeOK
    <2> QED
      BY <1>4, <2>1, <2>2, <2>3
         DEF SaverReturn, ReturnRgb, SaverPoints, TypeOK, HandlersHeld
  <1> QED
    BY <1>0, <1>1, <1>2, <1>3, <1>4 DEF SaverThread

-----------------------------------------------------------------------------
(* Which services run *)

(* Nothing runs at first. *)
LEMMA InitLifecycle == Init => Lifecycle
  BY PointsListed DEF Init, ServiceInit, CameraInit, Lifecycle

(* exit() changes nothing that the invariants on threads and handlers see.  *)
LEMMA ExitLifecycle ==
    ASSUME Lifecycle, HandlersBounded, ExitFailure
    PROVE  Lifecycle' /\ HandlersBounded'
  BY DEF Lifecycle, HandlersBounded, ExitFailure, serviceVars, cameraVars,
         tickDetectorVars, queueVars, handlerVars, Started, CameraHandlers,
         RgbCount, Count

(* A step of a service after its start does not start it, and it is not     *)
(* taken after its end.                                                     *)
LEMMA ServiceLifecycle ==
    ASSUME TypeOK, Lifecycle, UNCHANGED streaming,
           NEW t \in Services, NEW from \in Points, NEW to \in Points,
           Goto(t, from, to),
           from \notin {"none", "exited"}, to # "none"
    PROVE  Lifecycle'
  <1>1. /\ pc[t] = from /\ pc'[t] = to
        /\ \A u \in Threads \ {t} : pc'[u] = pc[u]
    BY ServiceGoto
  <1> QED
    BY <1>1, PointsListed DEF Lifecycle

(* main starts and joins the services in the order of its points. *)
LEMMA MainLifecycle ==
    ASSUME TypeOK, HandlersHeld, Lifecycle, HandlersBounded, Main
    PROVE  Lifecycle'
  <1> USE DEF cameraVars, tickDetectorVars, queueVars, handlerVars
  <1>0. CASE ExitFailure
    BY <1>0, ExitLifecycle
  <1>1. CASE MainUnlink
    <2>1. /\ pc["main"] = "unlink" /\ pc'["main"] = "startCamera"
          /\ \A u \in Services : pc'[u] = pc[u]
      BY <1>1, GotoType, PointsListed DEF MainUnlink, MainPoints
    <2> QED
      BY <1>1, <2>1, PointsListed DEF MainUnlink, Lifecycle
  <1>2. CASE MainStartCamera /\ ~ExitFailure
    <2>1. /\ pc["main"] = "startCamera" /\ pc'["main"] = "startServices"
          /\ \A u \in Services : pc'[u] = pc[u]
      BY <1>2, GotoType, PointsListed DEF MainStartCamera, MainPoints
    <2>2. streaming' = TRUE
      BY <1>2 DEF MainStartCamera, StartCapturing
    <2> QED
      BY <2>1, <2>2, PointsListed DEF Lifecycle
  <1>3. CASE MainStartService /\ ~ExitFailure
    <2>1. \/ Start("camera", "startServices", "startTick")
          \/ Start("tick", "startTick", "startSaver")
          \/ Start("saver", "startSaver", "joinSaver")
      BY <1>3 DEF MainStartService
    <2>2. UNCHANGED streaming
      BY <1>3 DEF MainStartService
    <2> QED
      BY <2>1, <2>2, StartType, PointsListed DEF Lifecycle, MainPoints
  <1>4. CASE MainShutdown
    <2>1. /\ \A u \in Services : pc'[u] = pc[u]
          /\ UNCHANGED streaming
      BY <1>4, GotoType, PointsListed DEF MainShutdown, Join, FlagExit, MainPoints
    <2>2. \/ pc["main"] = "joinSaver" /\ pc'["main"] = "flagCamera"
          \/ pc["main"] = "flagCamera" /\ pc'["main"] = "flagTick"
          \/ pc["main"] = "flagTick" /\ pc'["main"] = "joinCamera"
          \/ /\ pc["main"] = "joinCamera" /\ pc'["main"] = "joinTick"
             /\ pc["camera"] = "exited"
          \/ /\ pc["main"] = "joinTick" /\ pc'["main"] = "stopCamera"
             /\ pc["tick"] = "exited"
      BY <1>4, GotoType, PointsListed DEF MainShutdown, Join, FlagExit, MainPoints
    <2> QED
      BY <2>1, <2>2, PointsListed DEF Lifecycle
  <1>5. CASE MainStopCamera /\ ~ExitFailure
    <2>1. /\ pc["main"] = "stopCamera" /\ pc'["main"] = "return"
          /\ \A u \in Services : pc'[u] = pc[u]
      BY <1>5, GotoType, PointsListed DEF MainStopCamera, MainPoints
    <2>2. streaming' = FALSE
      BY <1>5 DEF MainStopCamera, StopCapturing
    <2> QED
      BY <2>1, <2>2, PointsListed DEF Lifecycle
  <1>6. CASE MainReturn
    BY <1>6 DEF MainReturn, Lifecycle, serviceVars
  <1> QED
    BY <1>0, <1>1, <1>2, <1>3, <1>4, <1>5, <1>6 DEF Main

(* No service starts itself, or runs on after main has joined it. *)
LEMMA ThreadsLifecycle ==
    ASSUME TypeOK, HandlersHeld, Lifecycle, HandlersBounded,
           CameraThread \/ TickThread \/ SaverThread \/ DriverCapture
    PROVE  Lifecycle'
  <1> USE DEF cameraVars, tickDetectorVars, queueVars, handlerVars
  <1>0. CASE ExitFailure
    BY <1>0, ExitLifecycle
  <1>1. CASE CameraThread /\ ~ExitFailure
    <2>1. UNCHANGED streaming
      BY <1>1 DEF CameraThread, CameraOpen, CameraCheckExit, CameraSelect,
                  CameraReadFrame, CameraSend, CameraSleep, Dequeue
    <2>2. \E from, to \in CameraPoints :
             /\ Goto("camera", from, to)
             /\ from \notin {"none", "exited"} /\ to # "none"
      BY <1>1 DEF CameraThread, CameraOpen, CameraCheckExit, CameraSelect,
                  CameraReadFrame, CameraSend, CameraSleep, DoExit, CameraPoints
    <2> QED
      BY <2>1, <2>2, ServiceLifecycle, PointsListed
  <1>2. CASE TickThread /\ ~ExitFailure
    <2>1. UNCHANGED streaming
      BY <1>2 DEF TickThread, TickOpenIn, TickOpenOut, TickCheckExit,
                  TickReceive, TickAllocate, TickConvert, TickExecute,
                  TickRequeue, TickSend, ReturnBuffer
    <2>2. \E from, to \in TickPoints :
             /\ Goto("tick", from, to)
             /\ from \notin {"none", "exited"} /\ to # "none"
      BY <1>2 DEF TickThread, TickOpenIn, TickOpenOut, TickCheckExit,
                  TickReceive, TickAllocate, TickConvert, TickExecute,
                  TickRequeue, TickSend, DoExit, TickPoints
    <2> QED
      BY <2>1, <2>2, ServiceLifecycle, PointsListed
  <1>3. CASE SaverThread /\ ~ExitFailure
    <2>1. UNCHANGED streaming
      BY <1>3 DEF SaverThread, SaverOpen, SaverReceive, SaverSave, SaverReturn
    <2>2. \E from, to \in SaverPoints :
             /\ Goto("saver", from, to)
             /\ from \notin {"none", "exited"} /\ to # "none"
      BY <1>3 DEF SaverThread, SaverOpen, SaverReceive, SaverSave,
                  SaverReturn, SaverPoints
    <2> QED
      BY <2>1, <2>2, ServiceLifecycle, PointsListed
  <1>4. CASE DriverCapture
    BY <1>4 DEF DriverCapture, Capture, Lifecycle, serviceVars
  <1> QED
    BY <1>0, <1>1, <1>2, <1>3, <1>4

-----------------------------------------------------------------------------
(* How many handlers there are *)

(* A queue loses its head, a queue gains a message. *)
LEMMA LenTail ==
    ASSUME NEW S, NEW q \in Seq(S), q # <<>>
    PROVE  Len(Tail(q)) = Len(q) - 1 /\ Len(q) \in Nat
  OBVIOUS

(* The length of a queue that gained a message. *)
LEMMA LenAppend ==
    ASSUME NEW S, NEW q \in Seq(S), NEW x
    PROVE  Len(Append(q, x)) = Len(q) + 1 /\ Len(q) \in Nat
  OBVIOUS

(* At first all the RGB buffers are in the pool. *)
LEMMA InitBounded == Init => HandlersBounded
  <1> SUFFICES ASSUME Init PROVE HandlersBounded
    OBVIOUS
  <1>1. pc["main"] = "unlink"
    BY PointsListed DEF Init, ServiceInit
  <1> QED
    BY <1>1 DEF Init, CameraInit, TickDetectorInit, HandlersBounded, Started

(* A step of a thread changes Started and what is bounded before it only    *)
(* through main.                                                            *)
LEMMA CountsTyped ==
    ASSUME TypeOK
    PROVE  /\ Len(queued) \in Nat /\ Len(filled) \in Nat
           /\ Len(cameraMq) \in Nat /\ Len(mAvailable) \in Nat
           /\ Len(tickMq) \in Nat
  BY DEF TypeOK

(* The counts are numbers, *)
LEMMA CountTyped == \A handler, nothing : Count(handler, nothing) \in Nat
  BY DEF Count

(* their sums are, *)
LEMMA SumsTyped ==
    ASSUME TypeOK
    PROVE  CameraHandlers \in Nat /\ RgbCount \in Nat
  BY CountsTyped DEF CameraHandlers, RgbCount, Count

(* and still are after a step. *)
LEMMA SumsTypedNext ==
    ASSUME TypeOK'
    PROVE  CameraHandlers' \in Nat /\ RgbCount' \in Nat
  BY DEF TypeOK, CameraHandlers, RgbCount, Count

(* For a step of a service or the driver it is enough to bound the two      *)
(* sums: main has started the camera.                                       *)
LEMMA BoundedSuffices ==
    ASSUME HandlersBounded, pc'["main"] = pc["main"],
           pc["main"] \notin {"unlink", "startCamera"},
           CameraHandlers <= NumBuffers => CameraHandlers' <= NumBuffers,
           RgbCount <= NumRgb => RgbCount' <= NumRgb
    PROVE  HandlersBounded'
  BY DEF HandlersBounded, Started

(* main makes all handlers there are, once: it starts the camera. *)
LEMMA MainBounded ==
    ASSUME TypeOK, HandlersHeld, Lifecycle, HandlersBounded, Main
    PROVE  HandlersBounded'
  <1> USE DEF cameraVars, tickDetectorVars, queueVars, handlerVars
  <1>0. CASE ExitFailure
    BY <1>0, ExitLifecycle
  <1>1. CASE MainUnlink
    <2>1. /\ pc["main"] = "unlink" /\ pc'["main"] = "startCamera"
          /\ \A u \in Services : pc'[u] = pc[u]
      BY <1>1, GotoType, PointsListed DEF MainUnlink, MainPoints
    <2>2. /\ pc["camera"] = "none" /\ tickBuffer = NoBuffer
          /\ tickRgb = NullRgb /\ saverRgb = NullRgb
      BY <2>1 DEF Lifecycle, HandlersHeld, TickWorking
    <2>3. /\ queued = <<>> /\ filled = <<>> /\ mOldImage = NullRgb
          /\ Len(mAvailable) = NumRgb
      BY <2>1, TickDetectorAssumption
         DEF HandlersBounded, TickDetectorAssumption, RgbBuffers
    <2>4. /\ cameraMq' = <<>> /\ tickMq' = <<>>
          /\ UNCHANGED <<queued, filled, mAvailable, mOldImage, tickBuffer,
                         tickRgb, saverRgb>>
      BY <1>1 DEF MainUnlink
    <2>5. CameraHandlers' = 0
      BY <2>1, <2>2, <2>3, <2>4, PointsListed DEF CameraHandlers, Count
    <2>6. RgbCount' = NumRgb
      BY <2>2, <2>3, <2>4, TickDetectorAssumption
         DEF RgbCount, Count, TickDetectorAssumption
    <2> QED
      BY <2>1, <2>3, <2>4, <2>5, <2>6, CameraAssumption, TickDetectorAssumption
         DEF HandlersBounded, CameraAssumption, TickDetectorAssumption
  <1>2. CASE MainStartCamera /\ ~ExitFailure
    <2>1. /\ pc["main"] = "startCamera" /\ pc'["main"] = "startServices"
          /\ \A u \in Services : pc'[u] = pc[u]
      BY <1>2, GotoType, PointsListed DEF MainStartCamera, MainPoints
    <2>2. /\ pc["camera"] = "none" /\ tickBuffer = NoBuffer
          /\ filled = <<>> /\ cameraMq = <<>>
      BY <2>1 DEF Lifecycle, HandlersHeld, HandlersBounded, TickWorking
    <2>3. /\ queued' = [i \in Buffers |-> i]
          /\ UNCHANGED <<filled, cameraMq, tickBuffer, mAvailable, tickMq,
                         tickRgb, mOldImage, saverRgb>>
      BY <1>2 DEF MainStartCamera, StartCapturing
    <2>4. Len(queued') = NumBuffers
      BY <2>3, CameraAssumption DEF CameraAssumption, Buffers
    <2>5. CameraHandlers' = NumBuffers
      BY <2>1, <2>2, <2>3, <2>4, PointsListed, CameraAssumption
         DEF CameraHandlers, Count, CameraAssumption
    <2>6. RgbCount' <= NumRgb
      BY <2>1, <2>3 DEF HandlersBounded, Started, RgbCount
    <2> QED
      BY <2>1, <2>5, <2>6, CameraAssumption
         DEF HandlersBounded, CameraAssumption
  <1>3. CASE (MainStartService \/ MainShutdown) /\ ~ExitFailure
    <2>1. UNCHANGED <<queued, filled, cameraMq, tickBuffer, mAvailable, tickMq,
                      tickRgb, mOldImage, saverRgb>>
      BY <1>3 DEF MainStartService, MainShutdown
    <2>2. /\ pc["main"] \notin {"unlink", "startCamera"}
          /\ pc'["main"] \notin {"unlink", "startCamera"}
          /\ pc'["camera"] = "send" => pc["camera"] = "send"
      BY <1>3, StartType, GotoType, PointsListed
         DEF MainStartService, MainShutdown, Join, FlagExit, MainPoints
    <2>3. CameraHandlers' <= CameraHandlers
      BY <2>1, <2>2, CountsTyped DEF CameraHandlers, Count
    <2>4. RgbCount' = RgbCount
      BY <2>1 DEF RgbCount
    <2>5. CameraHandlers \in Nat /\ CameraHandlers' \in Nat
      BY <2>1, CountsTyped DEF CameraHandlers, Count
    <2> QED
      BY <2>2, <2>3, <2>4, <2>5, CameraAssumption
         DEF HandlersBounded, Started, CameraAssumption
  <1>4. CASE MainStopCamera /\ ~ExitFailure
    <2>1. /\ pc["main"] = "stopCamera" /\ pc'["main"] = "return"
          /\ \A u \in Services : pc'[u] = pc[u]
      BY <1>4, GotoType, PointsListed DEF MainStopCamera, MainPoints
    <2>2. /\ queued' = <<>> /\ filled' = <<>>
          /\ UNCHANGED <<cameraMq, tickBuffer, mAvailable, tickMq, tickRgb,
                         mOldImage, saverRgb>>
      BY <1>4 DEF MainStopCamera, StopCapturing
    <2>3. CameraHandlers' = CameraHandlers - Len(queued) - Len(filled)
      <3>1. /\ Len(queued') = 0 /\ Len(filled') = 0
            /\ Len(cameraMq') = Len(cameraMq)
            /\ pc'["camera"] = pc["camera"] /\ tickBuffer' = tickBuffer
        BY <2>1, <2>2, PointsListed
      <3> QED
        BY <3>1, CountsTyped, CountTyped DEF CameraHandlers
    <2>4. RgbCount' = RgbCount
      BY <2>2 DEF RgbCount
    <2> QED
      BY <2>1, <2>2, <2>3, <2>4, CameraAssumption, CountsTyped, SumsTyped
         DEF HandlersBounded, Started, CameraAssumption
  <1>5. CASE MainReturn
    <2>1. /\ UNCHANGED <<pc, queued, filled, tickBuffer, mAvailable, tickRgb,
                         mOldImage, saverRgb>>
          /\ cameraMq' = <<>> /\ tickMq' = <<>> /\ pc["main"] = "return"
      BY <1>5 DEF MainReturn, serviceVars
    <2>2. CameraHandlers' = CameraHandlers - Len(cameraMq)
      <3>1. Len(cameraMq') = 0 /\ UNCHANGED <<pc, queued, filled, tickBuffer>>
        BY <2>1
      <3> QED
        BY <3>1, CountsTyped DEF CameraHandlers, Count
    <2>3. RgbCount' = RgbCount - Len(tickMq)
      <3>1. /\ Len(tickMq') = 0
            /\ UNCHANGED <<mAvailable, tickRgb, mOldImage, saverRgb>>
        BY <2>1
      <3> QED
        BY <3>1, CountsTyped, CountTyped DEF RgbCount
    <2> QED
      BY <2>1, <2>2, <2>3, CountsTyped, SumsTyped, CameraAssumption,
         TickDetectorAssumption
         DEF HandlersBounded, Started, CameraAssumption, TickDetectorAssumption
  <1> QED
    BY <1>0, <1>1, <1>2, <1>3, <1>4, <1>5 DEF Main

(* The camera thread and the driver move camera buffers and make none; the  *)
(* camera thread may drop one.                                              *)
LEMMA CameraBounded ==
    ASSUME TypeOK, HandlersHeld, Lifecycle, HandlersBounded,
           CameraThread \/ DriverCapture
    PROVE  HandlersBounded'
  <1> USE DEF cameraVars, tickDetectorVars, queueVars, handlerVars
  <1>0. CASE ExitFailure
    BY <1>0, ExitLifecycle
  <1>1. CASE DriverCapture
    <2>1. /\ queued # <<>> /\ queued' = Tail(queued)
          /\ filled' = Append(filled, Head(queued)) /\ streaming
          /\ UNCHANGED <<pc, cameraMq, tickBuffer, mAvailable, tickMq, tickRgb,
                         mOldImage, saverRgb>>
      BY <1>1 DEF DriverCapture, Capture, serviceVars
    <2>2. Len(queued') = Len(queued) - 1 /\ Len(filled') = Len(filled) + 1
      BY <2>1, LenTail, LenAppend DEF TypeOK
    <2>3. CameraHandlers' = CameraHandlers
      BY <2>1, <2>2, CountsTyped, CountTyped DEF CameraHandlers
    <2>4. RgbCount' = RgbCount
      BY <2>1 DEF RgbCount
    <2> QED
      BY <2>1, <2>3, <2>4, BoundedSuffices DEF Lifecycle
  <1>2. CASE CameraThread /\ ~ExitFailure
    <2>1. /\ pc'["main"] = pc["main"]
          /\ pc["main"] \notin {"unlink", "startCamera"}
          /\ pc'["tick"] = pc["tick"]
          /\ pc'["camera"] = "send" => pc["camera"] = "dequeue"
          /\ CameraSend => pc["camera"] = "send" /\ pc'["camera"] = "sleep"
      BY <1>2, ServiceGoto, DoExitType, PointsListed
         DEF CameraThread, CameraOpen, CameraCheckExit, CameraSelect,
             CameraReadFrame, CameraSend, CameraSleep, CameraPoints, Lifecycle
    <2>2. /\ UNCHANGED <<mAvailable, tickMq, tickRgb, mOldImage, saverRgb>>
          /\ UNCHANGED <<queued, tickBuffer>>
      BY <1>2 DEF CameraThread, CameraOpen, CameraCheckExit, CameraSelect,
                  CameraReadFrame, CameraSend, CameraSleep, Dequeue
    <2>3. CameraHandlers' <= CameraHandlers
      <3>1. CASE pc'["camera"] = "send"
        <4>1. Dequeue /\ UNCHANGED cameraMq
          BY <1>2, <3>1, <2>1, ServiceGoto, DoExitType, PointsListed
             DEF CameraThread, CameraOpen, CameraCheckExit, CameraSelect,
                 CameraReadFrame, CameraSend, CameraSleep, CameraPoints
        <4>2. Len(filled') = Len(filled) - 1
          BY <4>1, LenTail DEF Dequeue, TypeOK
        <4> QED
          BY <2>1, <2>2, <3>1, <4>1, <4>2, CountsTyped, CountTyped
             DEF CameraHandlers
      <3>2. CASE CameraSend
        <4>1. Len(cameraMq') <= Len(cameraMq) + 1 /\ UNCHANGED filled
              /\ Len(cameraMq') \in Nat
          BY <3>2, LenAppend, CountsTyped DEF CameraSend, TypeOK
        <4> QED
          BY <2>1, <2>2, <3>2, <4>1, CountsTyped, CountTyped
             DEF CameraHandlers
      <3>3. CASE ~CameraSend /\ pc'["camera"] # "send"
        <4>1. UNCHANGED <<filled, cameraMq>>
          BY <1>2, <3>3, ServiceGoto, PointsListed
             DEF CameraThread, CameraOpen, CameraCheckExit, CameraSelect,
                 CameraReadFrame, CameraSleep, CameraPoints
        <4> QED
          BY <2>2, <3>3, <4>1, CountsTyped, CountTyped DEF CameraHandlers
      <3> QED
        BY <3>1, <3>2, <3>3
    <2>4. RgbCount' = RgbCount
      BY <2>2 DEF RgbCount
    <2>5. CameraHandlers \in Nat /\ CameraHandlers' \in Nat
      <3>1. TypeOK'
        BY <1>2, CameraType
      <3> QED
        BY <3>1, SumsTyped, SumsTypedNext
    <2> QED
      BY <2>1, <2>3, <2>4, <2>5, BoundedSuffices, CameraAssumption
         DEF CameraAssumption
  <1> QED
    BY <1>0, <1>1, <1>2

(* The detector's thread moves a camera buffer from the queue back to the   *)
(* driver and an RGB buffer from the pool to the tick queue.                *)
LEMMA TickBounded ==
    ASSUME TypeOK, HandlersHeld, Lifecycle, HandlersBounded, TickThread
    PROVE  HandlersBounded'
  <1> USE DEF cameraVars, tickDetectorVars, queueVars, handlerVars
  <1>0. CASE ExitFailure
    BY <1>0, ExitLifecycle
  <1>1. CASE TickThread /\ ~ExitFailure
    <2>1. /\ pc'["main"] = pc["main"]
          /\ pc["main"] \notin {"unlink", "startCamera"}
          /\ pc'["camera"] = pc["camera"]
          /\ UNCHANGED <<filled, saverRgb>>
      BY <1>1, ServiceGoto, DoExitType, PointsListed
         DEF TickThread, TickOpenIn, TickOpenOut, TickCheckExit, TickReceive,
             TickAllocate, TickConvert, TickExecute, TickRequeue, TickSend,
             TickPoints, Lifecycle, ReturnBuffer
    <2>2. CASE TickOpenIn \/ TickOpenOut \/ TickCheckExit \/ TickConvert
      <3>1. UNCHANGED <<queued, cameraMq, tickBuffer, mAvailable, tickMq,
                        tickRgb, mOldImage>>
        BY <2>2 DEF TickOpenIn, TickOpenOut, TickCheckExit, TickConvert,
                    ColorConvert
      <3>2. CameraHandlers' = CameraHandlers /\ RgbCount' = RgbCount
        BY <2>1, <3>1 DEF CameraHandlers, RgbCount
      <3> QED
        BY <2>1, <3>2, BoundedSuffices
    <2>3. CASE TickReceive
      <3>1. UNCHANGED <<queued, mAvailable, tickMq, tickRgb, mOldImage>>
        BY <2>3 DEF TickReceive
      <3>2. CameraHandlers' = CameraHandlers
        <4>1. CASE UNCHANGED <<tickBuffer, cameraMq>>
          BY <2>1, <3>1, <4>1 DEF CameraHandlers
        <4>2. CASE cameraMq # <<>> /\ tickBuffer' = Head(cameraMq)
                   /\ cameraMq' = Tail(cameraMq)
          <5>1. Len(cameraMq') = Len(cameraMq) - 1
            BY <4>2, LenTail DEF TypeOK
          <5>2. tickBuffer = NoBuffer
            BY <2>3, ServiceGoto, PointsListed
               DEF TickReceive, TickPoints, HandlersHeld, TickWorking
          <5>3. tickBuffer' # NoBuffer
            BY <4>2, CameraAssumption
               DEF TypeOK, CameraAssumption, Buffers, NoBuffer
          <5>4. Count(tickBuffer, NoBuffer) = 0 /\ Count(tickBuffer', NoBuffer) = 1
            BY <5>2, <5>3 DEF Count
          <5> QED
            BY <2>1, <3>1, <5>1, <5>4, CountsTyped DEF CameraHandlers
        <4> QED
          BY <2>3, <4>1, <4>2 DEF TickReceive
      <3>3. RgbCount' = RgbCount
        BY <2>1, <3>1 DEF RgbCount
      <3> QED
        BY <2>1, <3>2, <3>3, BoundedSuffices
    <2>4. CASE TickAllocate
      <3>1. /\ mAvailable # <<>> /\ mAvailable' = Tail(mAvailable)
            /\ tickRgb' # NullRgb /\ pc["tick"] = "allocate"
            /\ UNCHANGED <<queued, cameraMq, tickBuffer, tickMq, mOldImage>>
        BY <1>1, <2>4, ServiceGoto, PointsListed
           DEF TickAllocate, Allocate, Allocated, TickPoints
      <3>2. Len(mAvailable') = Len(mAvailable) - 1
        BY <3>1, LenTail DEF TypeOK
      <3>3. Count(tickRgb, NullRgb) = 0 /\ Count(tickRgb', NullRgb) = 1
        BY <3>1 DEF Count, HandlersHeld
      <3>4. RgbCount' = RgbCount
        BY <2>1, <3>1, <3>2, <3>3, CountsTyped, CountTyped DEF RgbCount
      <3>5. CameraHandlers' = CameraHandlers
        BY <2>1, <3>1 DEF CameraHandlers
      <3> QED
        BY <2>1, <3>4, <3>5, BoundedSuffices
    <2>5. CASE TickExecute
      <3>1. /\ tickRgb' = mOldImage /\ pc["tick"] = "execute"
            /\ UNCHANGED <<queued, cameraMq, tickBuffer, tickMq, mAvailable>>
        BY <1>1, <2>5, ServiceGoto, PointsListed
           DEF TickExecute, ExecuteFirst, ExecuteNext, TickPoints
      <3>2. tickRgb # NullRgb
        BY <3>1 DEF HandlersHeld
      <3>3. Count(tickRgb, NullRgb) = 1 /\ Count(mOldImage', NullRgb) <= 1
            /\ Count(mOldImage', NullRgb) \in Nat
        BY <3>2 DEF Count
      <3>4. RgbCount' <= RgbCount /\ RgbCount' \in Nat
        BY <2>1, <3>1, <3>3, CountsTyped, CountTyped DEF RgbCount
      <3>5. CameraHandlers' = CameraHandlers
        BY <2>1, <3>1 DEF CameraHandlers
      <3> QED
        BY <2>1, <3>4, <3>5, SumsTyped, BoundedSuffices, TickDetectorAssumption
           DEF TickDetectorAssumption
    <2>6. CASE TickRequeue
      <3>1. /\ queued' = Append(queued, tickBuffer) /\ tickBuffer' = NoBuffer
            /\ pc["tick"] = "requeue"
            /\ UNCHANGED <<cameraMq, tickMq, mAvailable, tickRgb, mOldImage>>
        BY <1>1, <2>6 DEF TickRequeue, ReturnBuffer
      <3>2. Len(queued') = Len(queued) + 1
        BY <3>1, LenAppend DEF TypeOK
      <3>3. Count(tickBuffer, NoBuffer) = 1 /\ Count(tickBuffer', NoBuffer) = 0
        BY <3>1 DEF Count, HandlersHeld, TickWorking
      <3>4. CameraHandlers' = CameraHandlers
        BY <2>1, <3>1, <3>2, <3>3, CountsTyped DEF CameraHandlers
      <3>5. RgbCount' = RgbCount
        BY <2>1, <3>1 DEF RgbCount
      <3> QED
        BY <2>1, <3>4, <3>5, BoundedSuffices
    <2>7. CASE TickSend
      <3>1. /\ tickMq' = Append(tickMq, tickRgb) /\ tickRgb' = NullRgb
            /\ pc["tick"] = "send"
            /\ UNCHANGED <<queued, cameraMq, tickBuffer, mAvailable, mOldImage>>
        BY <1>1, <2>7 DEF TickSend
      <3>2. Len(tickMq') = Len(tickMq) + 1
        BY <3>1, LenAppend DEF TypeOK
      <3>3. Count(tickRgb, NullRgb) = 1 /\ Count(tickRgb', NullRgb) = 0
        BY <3>1 DEF Count, HandlersHeld
      <3>4. RgbCount' = RgbCount
        BY <2>1, <3>1, <3>2, <3>3, CountsTyped, CountTyped DEF RgbCount
      <3>5. CameraHandlers' = CameraHandlers
        BY <2>1, <3>1 DEF CameraHandlers
      <3> QED
        BY <2>1, <3>4, <3>5, BoundedSuffices
    <2> QED
      BY <1>1, <2>2, <2>3, <2>4, <2>5, <2>6, <2>7 DEF TickThread
  <1> QED
    BY <1>0, <1>1

(* The saver moves an RGB buffer from the tick queue to the pool.           *)
LEMMA SaverBounded ==
    ASSUME TypeOK, HandlersHeld, Lifecycle, HandlersBounded, SaverThread
    PROVE  HandlersBounded'
  <1> USE DEF cameraVars, tickDetectorVars, queueVars, handlerVars
  <1>0. CASE ExitFailure
    BY <1>0, ExitLifecycle
  <1>1. CASE SaverThread /\ ~ExitFailure
    <2>1. /\ pc'["main"] = pc["main"]
          /\ pc["main"] \notin {"unlink", "startCamera"}
          /\ pc'["camera"] = pc["camera"]
          /\ UNCHANGED <<queued, filled, cameraMq, tickBuffer, tickRgb,
                         mOldImage>>
      BY <1>1, ServiceGoto, PointsListed
         DEF SaverThread, SaverOpen, SaverReceive, SaverSave, SaverReturn,
             SaverPoints, Lifecycle, ReturnRgb
    <2>2. CameraHandlers' = CameraHandlers
      BY <2>1 DEF CameraHandlers
    <2>3. CASE SaverOpen \/ SaverSave
      <3>1. UNCHANGED <<mAvailable, tickMq, saverRgb>>
        BY <1>1, <2>3 DEF SaverOpen, SaverSave
      <3>2. RgbCount' = RgbCount
        BY <2>1, <3>1 DEF RgbCount
      <3> QED
        BY <2>1, <2>2, <3>2, BoundedSuffices
    <2>4. CASE SaverReceive
      <3>1. UNCHANGED mAvailable
        BY <2>4 DEF SaverReceive
      <3>2. RgbCount' = RgbCount
        <4>1. CASE UNCHANGED <<saverRgb, tickMq>>
          BY <2>1, <3>1, <4>1 DEF RgbCount
        <4>2. CASE tickMq # <<>> /\ saverRgb' = Head(tickMq)
                   /\ tickMq' = Tail(tickMq)
          <5>1. Len(tickMq') = Len(tickMq) - 1
            BY <4>2, LenTail DEF TypeOK
          <5>2. saverRgb = NullRgb
            BY <2>4, ServiceGoto, PointsListed
               DEF SaverReceive, SaverPoints, HandlersHeld
          <5>3. saverRgb' # NullRgb
            <6>1. saverRgb' \in RgbHandlers
              BY <4>2 DEF TypeOK
            <6> QED
              BY <6>1, TickDetectorAssumption
                 DEF TickDetectorAssumption, RgbHandlers, RgbBuffers, NullRgb
          <5>4. Count(saverRgb, NullRgb) = 0 /\ Count(saverRgb', NullRgb) = 1
            BY <5>2, <5>3 DEF Count
          <5> QED
            BY <2>1, <3>1, <5>1, <5>4, CountsTyped, CountTyped DEF RgbCount
        <4> QED
          BY <2>4, <4>1, <4>2 DEF SaverReceive
      <3> QED
        BY <2>1, <2>2, <3>2, BoundedSuffices
    <2>5. CASE SaverReturn
      <3>1. /\ pc["saver"] = "return" /\ saverRgb' = NullRgb
            /\ UNCHANGED tickMq
            /\ mAvailable' = mAvailable
               \/ mAvailable' = Append(mAvailable, saverRgb.mStart)
        BY <2>5, ServiceGoto, PointsListed
           DEF SaverReturn, ReturnRgb, SaverPoints
      <3>2. /\ Len(mAvailable') \in Nat
            /\ Len(mAvailable') <= Len(mAvailable) + 1
        BY <3>1, LenAppend, CountsTyped DEF TypeOK
      <3>3. Count(saverRgb, NullRgb) = 1 /\ Count(saverRgb', NullRgb) = 0
        BY <3>1 DEF Count, HandlersHeld
      <3>4. RgbCount' <= RgbCount /\ RgbCount' \in Nat
        BY <2>1, <3>1, <3>2, <3>3, CountsTyped, CountTyped DEF RgbCount
      <3> QED
        BY <2>1, <2>2, <3>4, SumsTyped, BoundedSuffices, TickDetectorAssumption
           DEF TickDetectorAssumption
    <2> QED
      BY <1>1, <2>3, <2>4, <2>5 DEF SaverThread
  <1> QED
    BY <1>0, <1>1

-----------------------------------------------------------------------------
(* The theorems *)

(* The invariant is inductive. *)
LEMMA InvariantStep ==
    ASSUME IInv, [Next]_vars
    PROVE  IInv'
  <1> USE DEF IInv
  <1>1. CASE Main
    BY <1>1, MainType, MainLifecycle, MainBounded
  <1>2. CASE DriverCapture
    BY <1>2, DriverType, ThreadsLifecycle, CameraBounded
  <1>3. CASE CameraThread
    BY <1>3, CameraType, ThreadsLifecycle, CameraBounded
  <1>4. CASE TickThread
    BY <1>4, TickType, ThreadsLifecycle, TickBounded
  <1>5. CASE SaverThread
    BY <1>5, SaverType, ThreadsLifecycle, SaverBounded
  <1>6. CASE UNCHANGED vars
    BY <1>6 DEF vars, TypeOK, HandlersHeld, Lifecycle, HandlersBounded,
                Started, CameraHandlers, RgbCount
  <1> QED
    BY <1>1, <1>2, <1>3, <1>4, <1>5, <1>6 DEF Next, Step, Ended

(* It holds in every reachable state. *)
THEOREM Invariance == Spec => []IInv
<1>1. Init => IInv
  BY InitType, InitLifecycle, InitBounded DEF IInv
<1>2. IInv /\ [Next]_vars => IInv'
  BY InvariantStep
<1> QED
  BY <1>1, <1>2, PTL DEF Spec

(* Type correctness of the whole program. *)
THEOREM TypeCorrect == Spec => []TypeOK
<1>1. IInv => TypeOK
  BY DEF IInv
<1> QED
  BY <1>1, Invariance, PTL

(* Neither queue is ever full when a thread sends: with queues as large as  *)
(* the buffer pools no mq_send blocks, whatever fails.                      *)
THEOREM NoBlockedSend == Spec => []SendsNeverBlock
<1>1. IInv => SendsNeverBlock
  <2> SUFFICES ASSUME IInv PROVE SendsNeverBlock
    OBVIOUS
  <2> USE QueuesAreLargeEnough, CameraAssumption, TickDetectorAssumption,
          SynchronomeAssumption
      DEF QueuesAreLargeEnough, CameraAssumption, TickDetectorAssumption,
          SynchronomeAssumption
  <2>1. TypeOK /\ HandlersHeld /\ Lifecycle /\ HandlersBounded
    BY DEF IInv
  <2>2. ASSUME pc["camera"] = "send" PROVE Len(cameraMq) < NumMessages
    <3>1. Started
      BY <2>1, <2>2 DEF Lifecycle, Started
    <3>2. CameraHandlers <= NumBuffers
      BY <2>1, <3>1 DEF HandlersBounded
    <3> QED
      BY <2>1, <2>2, <3>2, CountsTyped, CountTyped DEF CameraHandlers
  <2>3. ASSUME pc["tick"] = "send" PROVE Len(tickMq) < NumMessages
    <3>1. Started
      BY <2>1, <2>3 DEF Lifecycle, Started
    <3>2. RgbCount <= NumRgb
      BY <2>1, <3>1 DEF HandlersBounded
    <3>3. Count(tickRgb, NullRgb) = 1
      BY <2>1, <2>3 DEF HandlersHeld, Count
    <3> QED
      BY <2>1, <3>2, <3>3, CountsTyped, CountTyped DEF RgbCount
  <2> QED
    BY <2>2, <2>3 DEF SendsNeverBlock
<1> QED
  BY <1>1, Invariance, PTL

(* No thread uses the camera before it was started or after it was stopped. *)
THEOREM DeviceInUseHolds == Spec => []DeviceInUse
<1>1. IInv => DeviceInUse
  BY DEF IInv, HandlersHeld, Lifecycle, DeviceInUse, TickWorking, TypeOK
<1> QED
  BY <1>1, Invariance, PTL

-----------------------------------------------------------------------------
(* Sequences *)

(* Concatenation is associative. *)
LEMMA Associative == \A S : \A s, t, u \in Seq(S) : (s \o t) \o u = s \o (t \o u)
  BY ConcatAssociative, SMT

(* Two sequences over a set make one over the same set. *)
LEMMA Concatenation == \A S : \A s, t \in Seq(S) : s \o t \in Seq(S)
  BY ConcatProperties, SMT

(* A queue is its head and the rest. *)
LEMMA HeadFirst ==
    ASSUME NEW S
    PROVE  \A q \in Seq(S) \ {<<>>} :
               Head(q) \in S /\ Tail(q) \in Seq(S) /\ q = <<Head(q)>> \o Tail(q)
  <1> SUFFICES ASSUME NEW q \in Seq(S), q # <<>>
               PROVE  Head(q) \in S /\ Tail(q) \in Seq(S) /\ q = <<Head(q)>> \o Tail(q)
    OBVIOUS
  <1>1. Head(q) \in S /\ Tail(q) \in Seq(S) /\ Len(Tail(q)) = Len(q) - 1
        /\ \A i \in 1 .. Len(Tail(q)) : Tail(q)[i] = q[i + 1]
    BY HeadTailProperties
  <1>2. <<Head(q)>> \in Seq(S) /\ Len(<<Head(q)>>) = 1 /\ <<Head(q)>>[1] = Head(q)
    BY <1>1
  <1>3. Len(q) \in Nat /\ Len(q) > 0 /\ Head(q) = q[1]
    BY EmptySeq, LenProperties
  <1>4. /\ <<Head(q)>> \o Tail(q) \in Seq(S)
        /\ Len(<<Head(q)>> \o Tail(q)) = Len(q)
        /\ \A i \in 1 .. Len(q) : (<<Head(q)>> \o Tail(q))[i] = q[i]
    BY <1>1, <1>2, <1>3, ConcatProperties
  <1> QED
    BY <1>1, <1>4, SeqEqual

(* What leaves the front of one sequence for the end of the one before it   *)
(* does not change the two together: the head of a queue is appended to     *)
(* another, taken by a thread that held nothing, or put down by one.        *)
Moves(S) ==
    /\ \A s, t, q \in Seq(S) : q # <<>> =>
           /\ (s \o t) \o q = (s \o Append(t, Head(q))) \o Tail(q)
           /\ (s \o <<>>) \o q = (s \o <<Head(q)>>) \o Tail(q)
    /\ \A s, t \in Seq(S), x \in S :
           (s \o t) \o <<x>> = (s \o Append(t, x)) \o <<>>
    /\ \A s, q \in Seq(S), x \in S :
           (s \o <<x>>) \o q = (s \o <<>>) \o (<<x>> \o q)

(* It is so over every set. *)
LEMMA MovesKeep ==
    ASSUME NEW S
    PROVE  Moves(S)
  <1>1. ASSUME NEW s \in Seq(S), NEW t \in Seq(S), NEW u \in Seq(S), NEW x \in S
        PROVE  (s \o t) \o (<<x>> \o u) = (s \o Append(t, x)) \o u
    <2>1. <<x>> \in Seq(S) /\ Append(t, x) = t \o <<x>>
      BY SingletonSeq, AppendIsConcat
    <2>2. (s \o t) \o <<x>> = s \o (t \o <<x>>)
      BY <2>1, ConcatAssociative
    <2>3. (s \o t) \o (<<x>> \o u) = ((s \o t) \o <<x>>) \o u
      <3>1. s \o t \in Seq(S)
        BY ConcatProperties
      <3>2. ASSUME NEW v \in Seq(S)
            PROVE  (v \o <<x>>) \o u = v \o (<<x>> \o u)
        BY <2>1, ConcatAssociative
      <3> QED
        BY <3>1, <3>2, Zenon
    <2> QED
      BY <2>1, <2>2, <2>3, Zenon
  <1>2. <<>> \in Seq(S) /\ \A x \in S : Append(<<>>, x) = <<x>> /\ <<x>> \in Seq(S)
    BY SingletonSeq
  <1>3. \A q \in Seq(S) \ {<<>>} :
            Head(q) \in S /\ Tail(q) \in Seq(S) /\ q = <<Head(q)>> \o Tail(q)
    BY HeadFirst
  <1>4. \A s \in Seq(S) : s \o <<>> = s
    BY ConcatEmptySeq
  <1>5. ASSUME NEW s \in Seq(S), NEW t \in Seq(S), NEW q \in Seq(S), q # <<>>
        PROVE  (s \o t) \o q = (s \o Append(t, Head(q))) \o Tail(q)
    <2>1. Head(q) \in S /\ Tail(q) \in Seq(S) /\ q = <<Head(q)>> \o Tail(q)
      BY <1>3, <1>5, Zenon
    <2>2. \A x \in S, u \in Seq(S) :
              (s \o t) \o (<<x>> \o u) = (s \o Append(t, x)) \o u
      BY <1>1, Zenon
    <2>3. (s \o t) \o (<<Head(q)>> \o Tail(q)) = (s \o Append(t, Head(q))) \o Tail(q)
      BY <2>1, <2>2, Zenon
    <2> QED
      BY <2>1, <2>3
  <1>6. ASSUME NEW s \in Seq(S), NEW q \in Seq(S), q # <<>>
        PROVE  (s \o <<>>) \o q = (s \o <<Head(q)>>) \o Tail(q)
    <2>1. (s \o <<>>) \o q = (s \o Append(<<>>, Head(q))) \o Tail(q)
      BY <1>2, <1>5, <1>6, Zenon
    <2> QED
      BY <1>2, <1>3, <1>6, <2>1, Zenon
  <1>7. ASSUME NEW s \in Seq(S), NEW t \in Seq(S), NEW x \in S
        PROVE  (s \o t) \o <<x>> = (s \o Append(t, x)) \o <<>>
    <2>1. (s \o t) \o (<<x>> \o <<>>) = (s \o Append(t, x)) \o <<>>
      BY <1>1, <1>2, Zenon
    <2>2. <<x>> \o <<>> = <<x>>
      BY <1>2, <1>4, Zenon
    <2> QED
      BY <2>1, <2>2, Zenon
  <1>8. ASSUME NEW s \in Seq(S), NEW q \in Seq(S), NEW x \in S
        PROVE  (s \o <<x>>) \o q = (s \o <<>>) \o (<<x>> \o q)
    <2>1. (s \o <<>>) \o (<<x>> \o q) = (s \o Append(<<>>, x)) \o q
      BY <1>1, <1>2, Zenon
    <2> QED
      BY <1>2, <2>1, Zenon
  <1> QED
    BY <1>5, <1>6, <1>7, <1>8, Zenon DEF Moves

(* Five sequences one after the other, as the first and the rest. *)
LEMMA FirstOfFive ==
    \A S : \A a, b, c, d, e \in Seq(S) :
        /\ a \o b \o c \o d \o e = a \o (b \o c \o d \o e)
        /\ b \o c \o d \o e \in Seq(S)
        /\ a \o b \o c \o d \o e \in Seq(S)
  <1> SUFFICES ASSUME NEW S
               PROVE  \A a, b, c, d, e \in Seq(S) :
                          /\ a \o b \o c \o d \o e = a \o (b \o c \o d \o e)
                          /\ b \o c \o d \o e \in Seq(S)
                          /\ a \o b \o c \o d \o e \in Seq(S)
    OBVIOUS
  <1>1. \A s, t, u \in Seq(S) : (s \o t) \o u = s \o (t \o u)
    BY Associative
  <1>2. \A s, t \in Seq(S) : s \o t \in Seq(S)
    BY Concatenation
  <1> SUFFICES ASSUME NEW a \in Seq(S), NEW b \in Seq(S), NEW c \in Seq(S),
                      NEW d \in Seq(S), NEW e \in Seq(S)
               PROVE  /\ a \o b \o c \o d \o e = a \o (b \o c \o d \o e)
                      /\ b \o c \o d \o e \in Seq(S)
                      /\ a \o b \o c \o d \o e \in Seq(S)
    BY Zenon
  <1>3. b \o c \in Seq(S) /\ (b \o c) \o d \in Seq(S) /\ ((b \o c) \o d) \o e \in Seq(S)
    BY <1>2, Zenon
  <1>4. (a \o b) \o c = a \o (b \o c)
    BY <1>1, Zenon
  <1>5. \A y \in Seq(S) : (a \o y) \o d = a \o (y \o d)
    BY <1>1, Zenon
  <1>6. \A y \in Seq(S) : (a \o y) \o e = a \o (y \o e)
    BY <1>1, Zenon
  <1>7. a \o (((b \o c) \o d) \o e) \in Seq(S)
    BY <1>2, <1>3, Zenon
  <1> QED
    BY <1>3, <1>4, <1>5, <1>6, <1>7, Zenon

(* The ring without its oldest element. *)
Before(S, x, s, t) == t \in Seq(S) /\ s = <<x>> \o t

(* What five places in a row hold when the first holds one element. *)
LEMMA RingHead ==
    ASSUME NEW S, NEW b \in Seq(S), NEW c \in Seq(S), NEW d \in Seq(S), NEW e \in Seq(S),
           NEW x \in S
    PROVE  Before(S, x, <<x>> \o b \o c \o d \o e, <<>> \o b \o c \o d \o e)
  <1>1. <<x>> \in Seq(S) /\ <<>> \o b = b
    BY SingletonSeq, ConcatEmptySeq
  <1>2. /\ b \o c \in Seq(S) /\ b \o c \o d \in Seq(S)
        /\ b \o c \o d \o e \in Seq(S)
    BY ConcatProperties
  <1>3. ASSUME NEW s \in Seq(S), NEW t \in Seq(S)
        PROVE  (<<x>> \o s) \o t = <<x>> \o (s \o t)
    BY <1>1, ConcatAssociative
  <1>4. <<x>> \o b \o c = <<x>> \o (b \o c)
    BY <1>3, Zenon
  <1>5. <<x>> \o (b \o c) \o d = <<x>> \o (b \o c \o d)
    BY <1>2, <1>3, Zenon
  <1>6. <<x>> \o (b \o c \o d) \o e = <<x>> \o (b \o c \o d \o e)
    BY <1>2, <1>3, Zenon
  <1> QED
    BY <1>1, <1>2, <1>4, <1>5, <1>6 DEF Before

(* The oldest element of a ring becomes its newest. *)
Turned(S, s, t) == \E x \in S, rest \in Seq(S) : s = <<x>> \o rest /\ t = rest \o <<x>>

(* The element leaves the first place and enters the last one. *)
LEMMA TurnedOver ==
    \A S : \A b, c, d, e \in Seq(S), x \in S :
        Turned(S, <<x>> \o b \o c \o d \o e, <<>> \o b \o c \o d \o Append(e, x))
  <1> SUFFICES ASSUME NEW S, NEW b \in Seq(S), NEW c \in Seq(S), NEW d \in Seq(S),
                      NEW e \in Seq(S), NEW x \in S
               PROVE  Turned(S, <<x>> \o b \o c \o d \o e,
                                <<>> \o b \o c \o d \o Append(e, x))
    OBVIOUS
  <1>1. <<x>> \in Seq(S) /\ Append(e, x) = e \o <<x>> /\ <<>> \o b = b
    BY SingletonSeq, AppendIsConcat, ConcatEmptySeq
  <1>2. b \o c \o d \in Seq(S)
    BY ConcatProperties
  <1>3. /\ <<x>> \o b \o c \o d \o e = <<x>> \o (b \o c \o d \o e)
        /\ b \o c \o d \o e \in Seq(S)
    <2>1. Before(S, x, <<x>> \o b \o c \o d \o e, <<>> \o b \o c \o d \o e)
      BY RingHead
    <2> QED
      BY <1>1, <2>1 DEF Before
  <1>4. ASSUME NEW s \in Seq(S)
        PROVE  s \o (e \o <<x>>) = (s \o e) \o <<x>>
    BY <1>1, ConcatAssociative
  <1>5. <<>> \o b \o c \o d \o Append(e, x) = (b \o c \o d \o e) \o <<x>>
    BY <1>1, <1>2, <1>4, Zenon
  <1> QED
    BY <1>3, <1>5 DEF Turned

(* Both parts of an injective sequence are injective and have no element in *)
(* common, and the other way round.                                         *)
LEMMA InjectiveParts ==
    ASSUME NEW S, NEW s \in Seq(S), NEW t \in Seq(S)
    PROVE  IsInjective(s \o t) <=>
               /\ IsInjective(s) /\ IsInjective(t)
               /\ \A i \in 1 .. Len(s), j \in 1 .. Len(t) : s[i] # t[j]
  <1>1. /\ Len(s) \in Nat /\ DOMAIN s = 1 .. Len(s)
        /\ Len(t) \in Nat /\ DOMAIN t = 1 .. Len(t)
    BY LenProperties
  <1>2. /\ DOMAIN (s \o t) = 1 .. Len(s) + Len(t)
        /\ \A i \in 1 .. Len(s) : (s \o t)[i] = s[i]
        /\ \A j \in 1 .. Len(t) : (s \o t)[Len(s) + j] = t[j]
    BY <1>1, ConcatProperties, LenProperties
  <1>3. ASSUME IsInjective(s \o t)
        PROVE  /\ IsInjective(s) /\ IsInjective(t)
               /\ \A i \in 1 .. Len(s), j \in 1 .. Len(t) : s[i] # t[j]
    <2>1. IsInjective(s)
      BY <1>1, <1>2, <1>3 DEF IsInjective
    <2>2. IsInjective(t)
      <3> SUFFICES ASSUME NEW a \in 1 .. Len(t), NEW b \in 1 .. Len(t), t[a] = t[b]
                   PROVE  a = b
        BY <1>1 DEF IsInjective
      <3>1. (s \o t)[Len(s) + a] = (s \o t)[Len(s) + b]
        BY <1>2
      <3>2. Len(s) + a \in DOMAIN (s \o t) /\ Len(s) + b \in DOMAIN (s \o t)
        BY <1>1, <1>2
      <3>3. Len(s) + a = Len(s) + b
        BY <1>3, <3>1, <3>2 DEF IsInjective
      <3> QED
        BY <1>1, <3>3
    <2>3. ASSUME NEW i \in 1 .. Len(s), NEW j \in 1 .. Len(t), s[i] = t[j]
          PROVE  FALSE
      <3>1. (s \o t)[i] = (s \o t)[Len(s) + j]
        BY <1>2, <2>3
      <3>2. i \in DOMAIN (s \o t) /\ Len(s) + j \in DOMAIN (s \o t)
        BY <1>1, <1>2
      <3>3. i = Len(s) + j
        BY <1>3, <3>1, <3>2 DEF IsInjective
      <3> QED
        BY <1>1, <3>3
    <2> QED
      BY <2>1, <2>2, <2>3
  <1>4. ASSUME IsInjective(s), IsInjective(t),
               \A i \in 1 .. Len(s), j \in 1 .. Len(t) : s[i] # t[j]
        PROVE  IsInjective(s \o t)
    <2> SUFFICES ASSUME NEW a \in 1 .. Len(s) + Len(t), NEW b \in 1 .. Len(s) + Len(t),
                        (s \o t)[a] = (s \o t)[b]
                 PROVE  a = b
      BY <1>2 DEF IsInjective
    <2>1. \A c \in 1 .. Len(s) + Len(t) :
              c \in 1 .. Len(s) \/ \E j \in 1 .. Len(t) : c = Len(s) + j
      <3> SUFFICES ASSUME NEW c \in 1 .. Len(s) + Len(t), c \notin 1 .. Len(s)
                   PROVE  \E j \in 1 .. Len(t) : c = Len(s) + j
        OBVIOUS
      <3>1. c - Len(s) \in 1 .. Len(t) /\ c = Len(s) + (c - Len(s))
        BY <1>1
      <3> QED
        BY <3>1
    <2>2. CASE a \in 1 .. Len(s) /\ b \in 1 .. Len(s)
      BY <1>1, <1>2, <1>4, <2>2 DEF IsInjective
    <2>3. CASE a \in 1 .. Len(s) /\ \E j \in 1 .. Len(t) : b = Len(s) + j
      BY <1>2, <1>4, <2>3
    <2>4. CASE b \in 1 .. Len(s) /\ \E j \in 1 .. Len(t) : a = Len(s) + j
      BY <1>2, <1>4, <2>4
    <2>5. CASE \E i, j \in 1 .. Len(t) : a = Len(s) + i /\ b = Len(s) + j
      BY <1>1, <1>2, <1>4, <2>5 DEF IsInjective
    <2> QED
      BY <2>1, <2>2, <2>3, <2>4, <2>5
  <1> QED
    BY <1>3, <1>4

(* Turning a sequence keeps it injective. *)
LEMMA InjectiveTurn ==
    ASSUME NEW S, NEW s \in Seq(S), NEW t \in Seq(S), IsInjective(s \o t)
    PROVE  IsInjective(t \o s) /\ Len(t \o s) = Len(s \o t)
  <1>1. IsInjective(t \o s)
    BY InjectiveParts
  <1>2. Len(t \o s) = Len(s \o t)
    BY ConcatProperties, LenProperties
  <1> QED
    BY <1>1, <1>2

(* So does taking a part out of the middle. *)
LEMMA InjectiveWithout ==
    ASSUME NEW S, NEW s \in Seq(S), NEW t \in Seq(S), NEW u \in Seq(S),
           IsInjective((s \o t) \o u)
    PROVE  IsInjective(s \o u)
  <1>1. s \o t \in Seq(S) /\ u \o s \in Seq(S)
    BY ConcatProperties
  <1>2. IsInjective(u \o (s \o t))
    BY <1>1, InjectiveTurn
  <1>3. IsInjective((u \o s) \o t)
    <2>1. (u \o s) \o t = u \o (s \o t)
      BY ConcatAssociative
    <2> QED
      BY <1>2, <2>1
  <1>4. IsInjective(u \o s)
    BY <1>1, <1>3, InjectiveParts
  <1> QED
    BY <1>4, InjectiveTurn

(* A function applied to every element of a sequence. *)
Mapped(f, s) == [i \in DOMAIN s |-> f[s[i]]]

(* Mapping keeps the length. *)
LEMMA MappedType ==
    ASSUME NEW f, NEW S, NEW T, \A x \in S : f[x] \in T, NEW s \in Seq(S)
    PROVE  Mapped(f, s) \in Seq(T) /\ Len(Mapped(f, s)) = Len(s)
  <1>1. DOMAIN s = 1 .. Len(s) /\ Len(s) \in Nat /\ \A i \in 1 .. Len(s) : s[i] \in S
    BY LenProperties, ElementOfSeq
  <1>2. Mapped(f, s) \in [1 .. Len(s) -> T]
    BY <1>1 DEF Mapped
  <1> QED
    BY <1>1, <1>2, LenProperties

(* Mapping two sequences one by one, or together, is the same. *)
LEMMA MappedConcat ==
    ASSUME NEW f, NEW S, NEW s \in Seq(S), NEW t \in Seq(S)
    PROVE  Mapped(f, s \o t) = Mapped(f, s) \o Mapped(f, t)
  <1>0. PICK T : \A x \in S : f[x] \in T
    <2>1. \A x \in S : f[x] \in {f[y] : y \in S}
      OBVIOUS
    <2> QED
      BY <2>1
  <1>1. /\ DOMAIN s = 1 .. Len(s) /\ Len(s) \in Nat
        /\ DOMAIN t = 1 .. Len(t) /\ Len(t) \in Nat
    BY LenProperties
  <1>2. /\ s \o t \in Seq(S) /\ Len(s \o t) = Len(s) + Len(t)
        /\ DOMAIN (s \o t) = 1 .. Len(s) + Len(t)
        /\ \A i \in 1 .. Len(s) + Len(t) :
               (s \o t)[i] = IF i <= Len(s) THEN s[i] ELSE t[i - Len(s)]
    BY <1>1, ConcatProperties, LenProperties
  <1>3. /\ Mapped(f, s) \in Seq(T) /\ Len(Mapped(f, s)) = Len(s)
        /\ Mapped(f, t) \in Seq(T) /\ Len(Mapped(f, t)) = Len(t)
        /\ Mapped(f, s \o t) \in Seq(T) /\ Len(Mapped(f, s \o t)) = Len(s \o t)
    BY <1>0, <1>2, MappedType
  <1>4. /\ Mapped(f, s) \o Mapped(f, t) \in Seq(T)
        /\ Len(Mapped(f, s) \o Mapped(f, t)) = Len(s) + Len(t)
        /\ \A i \in 1 .. Len(s) + Len(t) :
               (Mapped(f, s) \o Mapped(f, t))[i]
                   = IF i <= Len(s) THEN Mapped(f, s)[i] ELSE Mapped(f, t)[i - Len(s)]
    <2>1. ASSUME NEW p \in Seq(T), NEW q \in Seq(T)
          PROVE  /\ p \o q \in Seq(T) /\ Len(p \o q) = Len(p) + Len(q)
                 /\ \A i \in 1 .. Len(p) + Len(q) :
                        (p \o q)[i] = IF i <= Len(p) THEN p[i] ELSE q[i - Len(p)]
      BY ConcatProperties
    <2> DEFINE p == Mapped(f, s)
               q == Mapped(f, t)
    <2>2. /\ p \o q \in Seq(T) /\ Len(p \o q) = Len(p) + Len(q)
          /\ \A i \in 1 .. Len(p) + Len(q) :
                 (p \o q)[i] = IF i <= Len(p) THEN p[i] ELSE q[i - Len(p)]
      <3>1. p \in Seq(T) /\ q \in Seq(T)
        BY <1>3
      <3> HIDE DEF p, q
      <3> QED
        BY <2>1, <3>1
    <2> QED
      BY <1>3, <2>2
  <1>5. ASSUME NEW i \in 1 .. Len(s) + Len(t)
        PROVE  Mapped(f, s \o t)[i] = (Mapped(f, s) \o Mapped(f, t))[i]
    <2>1. Mapped(f, s \o t)[i] = f[(s \o t)[i]]
      BY <1>2 DEF Mapped
    <2>2. CASE i <= Len(s)
      <3>1. i \in 1 .. Len(s)
        BY <1>1, <2>2
      <3> QED
        BY <1>1, <1>2, <1>4, <2>1, <2>2, <3>1 DEF Mapped
    <2>3. CASE ~(i <= Len(s))
      <3>1. i - Len(s) \in 1 .. Len(t)
        BY <1>1, <2>3
      <3> QED
        BY <1>1, <1>2, <1>4, <2>1, <2>3, <3>1 DEF Mapped
    <2> QED
      BY <2>2, <2>3
  <1> QED
    BY <1>2, <1>3, <1>4, <1>5, SeqEqual

(* Mapping a single element. *)
LEMMA MappedSingle ==
    ASSUME NEW f, NEW x
    PROVE  Mapped(f, <<x>>) = <<f[x]>>
  BY DEF Mapped
-----------------------------------------------------------------------------
(* The ring of the camera buffers *)

(* The first place of the ring: the handler of the detector's thread. *)
TickHeld == Held(tickBuffer, NoBuffer)

(* The five places of the ring are sequences of buffers. *)
LEMMA BufferParts ==
    ASSUME TypeOK, HandlersHeld
    PROVE  /\ BufferPlaces = TickHeld \o cameraMq \o CameraHeld \o filled \o queued
           /\ TickHeld \in Seq(Buffers) /\ cameraMq \in Seq(Buffers)
           /\ CameraHeld \in Seq(Buffers)
           /\ filled \in Seq(Buffers) /\ queued \in Seq(Buffers)
           /\ BufferPlaces \in Seq(Buffers)
  <1>1. BufferPlaces = TickHeld \o cameraMq \o CameraHeld \o filled \o queued
    BY DEF BufferPlaces, TickHeld
  <1>2. /\ cameraMq \in Seq(Buffers)
        /\ filled \in Seq(Buffers) /\ queued \in Seq(Buffers)
    BY DEF TypeOK
  <1>3. <<>> \in Seq(Buffers) /\ \A b \in Buffers : <<b>> \in Seq(Buffers)
    BY SingletonSeq
  <1>4. TickHeld \in Seq(Buffers)
    BY <1>3 DEF TypeOK, TickHeld, Held
  <1>5. CameraHeld \in Seq(Buffers)
    BY <1>3 DEF TypeOK, HandlersHeld, CameraHeld
  <1>6. BufferPlaces \in Seq(Buffers)
    BY <1>1, <1>2, <1>4, <1>5, FirstOfFive
  <1> QED
    BY <1>1, <1>2, <1>4, <1>5, <1>6

(* There are as many buffers in these places as there are handlers. *)
LEMMA PlacesCounted ==
    ASSUME TypeOK, HandlersHeld
    PROVE  Len(BufferPlaces) = CameraHandlers /\ CameraHandlers \in Nat
  <1>1. /\ Len(TickHeld) = Count(tickBuffer, NoBuffer)
        /\ Len(CameraHeld) = IF pc["camera"] = "send" THEN 1 ELSE 0
    BY DEF TickHeld, Held, Count, CameraHeld
  <1>2. \A s, t \in Seq(Buffers) : s \o t \in Seq(Buffers) /\ Len(s \o t) = Len(s) + Len(t)
    BY ConcatProperties
  <1>3. /\ Len(TickHeld) \in Nat /\ Len(cameraMq) \in Nat /\ Len(CameraHeld) \in Nat
        /\ Len(filled) \in Nat /\ Len(queued) \in Nat
    BY BufferParts, LenProperties
  <1>4. TickHeld \o cameraMq \in Seq(Buffers)
        /\ Len(TickHeld \o cameraMq) = Len(TickHeld) + Len(cameraMq)
    BY <1>2, BufferParts, Zenon
  <1>5. TickHeld \o cameraMq \o CameraHeld \in Seq(Buffers)
        /\ Len(TickHeld \o cameraMq \o CameraHeld)
           = Len(TickHeld \o cameraMq) + Len(CameraHeld)
    BY <1>2, <1>4, BufferParts, Zenon
  <1>6. TickHeld \o cameraMq \o CameraHeld \o filled \in Seq(Buffers)
        /\ Len(TickHeld \o cameraMq \o CameraHeld \o filled)
           = Len(TickHeld \o cameraMq \o CameraHeld) + Len(filled)
    BY <1>2, <1>5, BufferParts, Zenon
  <1>7. Len(BufferPlaces) = Len(TickHeld \o cameraMq \o CameraHeld \o filled) + Len(queued)
    BY <1>2, <1>6, BufferParts, Zenon
  <1> QED
    BY <1>1, <1>3, <1>4, <1>5, <1>6, <1>7 DEF CameraHandlers

(* Moves for camera buffers. *)
LEMMA BufferMoves == Moves(Buffers)
  BY MovesKeep, Zenon

(* HeadFirst for camera buffers. *)
LEMMA BufferHead ==
    \A q \in Seq(Buffers) \ {<<>>} :
        Head(q) \in Buffers /\ Tail(q) \in Seq(Buffers) /\ q = <<Head(q)>> \o Tail(q)
  BY HeadFirst

(* The driver fills the oldest queued buffer. *)
LEMMA DriverRing ==
    ASSUME TypeOK, HandlersHeld, DriverCapture
    PROVE  BufferPlaces' = BufferPlaces
  <1> USE DEF serviceVars, tickDetectorVars, queueVars, handlerVars
  <1>1. /\ queued # <<>> /\ queued' = Tail(queued)
        /\ filled' = Append(filled, Head(queued))
        /\ UNCHANGED <<pc, tickBuffer, cameraMq, cameraBuffer>>
    BY DEF DriverCapture, Capture
  <1>2. TickHeld' = TickHeld /\ CameraHeld' = CameraHeld
    BY <1>1 DEF TickHeld, CameraHeld
  <1>3. TickHeld \o cameraMq \o CameraHeld \in Seq(Buffers)
    BY BufferParts, Concatenation
  <1>4. BufferPlaces' = TickHeld' \o cameraMq' \o CameraHeld' \o filled' \o queued'
    BY DEF BufferPlaces, TickHeld
  <1>5. \A s \in Seq(Buffers) :
            s \o filled \o queued = s \o Append(filled, Head(queued)) \o Tail(queued)
    BY <1>1, BufferParts, BufferMoves, Zenon DEF Moves
  <1>6. TickHeld \o cameraMq \o CameraHeld \o filled \o queued
        = TickHeld \o cameraMq \o CameraHeld \o Append(filled, Head(queued)) \o Tail(queued)
    BY <1>3, <1>5, Zenon
  <1> QED
    BY <1>1, <1>2, <1>4, <1>6, BufferParts, Zenon

(* The camera thread takes the oldest filled buffer to the camera queue.     *)
LEMMA CameraRing ==
    ASSUME TypeOK, HandlersHeld, CameraThread, ~(CameraSend /\ "camera.out" \notin opened)
    PROVE  BufferPlaces' = BufferPlaces
  <1> USE DEF cameraVars, serviceVars, tickDetectorVars, queueVars, handlerVars
  <1>1. BufferPlaces' = TickHeld' \o cameraMq' \o CameraHeld' \o filled' \o queued'
    BY DEF BufferPlaces, TickHeld
  <1>2. UNCHANGED <<tickBuffer, queued>> /\ TickHeld' = TickHeld
    BY DEF CameraThread, CameraOpen, CameraCheckExit, CameraSelect, CameraReadFrame,
           CameraSend, CameraSleep, Dequeue, ExitFailure, TickHeld
  <1>3. CASE CameraSend
    <2>1. /\ pc["camera"] = "send" /\ pc'["camera"] = "sleep"
          /\ cameraMq' = Append(cameraMq, cameraBuffer) /\ filled' = filled
      BY <1>3, ServiceGoto, PointsListed DEF CameraSend, CameraPoints
    <2>2. cameraBuffer \in Buffers
      BY <2>1 DEF TypeOK, HandlersHeld
    <2>3. CameraHeld = <<cameraBuffer>> /\ CameraHeld' = <<>>
      BY <2>1 DEF CameraHeld
    <2>4. TickHeld \o cameraMq \o <<cameraBuffer>> =
              TickHeld \o Append(cameraMq, cameraBuffer) \o <<>>
      <3>1. TickHeld \in Seq(Buffers) /\ cameraMq \in Seq(Buffers)
        BY BufferParts
      <3> QED
        BY <2>2, <3>1, BufferMoves, Zenon DEF Moves
    <2> QED
      BY <1>1, <1>2, <2>1, <2>3, <2>4, BufferParts, Zenon
  <1>4. CASE CameraReadFrame /\ Dequeue /\ cameraBuffer' = Head(filled)
             /\ Goto("camera", "dequeue", "send")
    <2>1. /\ pc["camera"] = "dequeue" /\ pc'["camera"] = "send"
      BY <1>4, ServiceGoto, PointsListed DEF CameraPoints
    <2>2. /\ filled # <<>> /\ filled' = Tail(filled) /\ cameraMq' = cameraMq
      BY <1>4 DEF CameraReadFrame, Dequeue, ExitFailure
    <2>3. CameraHeld = <<>> /\ CameraHeld' = <<Head(filled)>>
      BY <1>4, <2>1 DEF CameraHeld
    <2>4. TickHeld \o cameraMq \in Seq(Buffers) /\ filled \in Seq(Buffers)
      BY BufferParts, Concatenation
    <2>5. \A s \in Seq(Buffers) : s \o <<>> \o filled = s \o <<Head(filled)>> \o Tail(filled)
      BY <2>2, <2>4, BufferMoves, Zenon DEF Moves
    <2>6. TickHeld \o cameraMq \o <<>> \o filled
          = TickHeld \o cameraMq \o <<Head(filled)>> \o Tail(filled)
      BY <2>4, <2>5, Zenon
    <2> QED
      BY <1>1, <1>2, <2>2, <2>3, <2>6, BufferParts, Zenon
  <1>5. CASE UNCHANGED <<filled, cameraMq>> /\ CameraHeld' = CameraHeld
    BY <1>1, <1>2, <1>5, BufferParts
  <1>6. CASE ExitFailure
    BY <1>5, <1>6 DEF ExitFailure, CameraHeld
  <1>7. CASE CameraOpen \/ CameraCheckExit \/ CameraSelect \/ CameraSleep
    <2>1. CASE ~ExitFailure
      <3>1. pc["camera"] # "send" /\ pc'["camera"] # "send"
        BY <1>7, <2>1, ServiceGoto, DoExitType, PointsListed
           DEF CameraOpen, CameraCheckExit, CameraSelect, CameraSleep, CameraPoints
      <3>2. UNCHANGED <<filled, cameraMq>>
        BY <1>7, <2>1 DEF CameraOpen, CameraCheckExit, CameraSelect, CameraSleep
      <3> QED
        BY <1>5, <3>1, <3>2 DEF CameraHeld
    <2> QED
      BY <1>6, <2>1
  <1>8. CASE CameraReadFrame /\ Goto("camera", "dequeue", "check")
             /\ UNCHANGED <<cameraVars, queueVars>>
    <2>1. pc["camera"] # "send" /\ pc'["camera"] # "send"
      BY <1>8, ServiceGoto, PointsListed DEF CameraPoints
    <2> QED
      BY <1>5, <1>8, <2>1 DEF CameraHeld
  <1> QED
    BY <1>3, <1>4, <1>6, <1>7, <1>8 DEF CameraThread, CameraReadFrame

(* The detector's thread takes the oldest buffer from the camera queue and   *)
(* queues it again: VIDIOC_QBUF turns the ring.                              *)
LEMMA TickRing ==
    ASSUME TypeOK, HandlersHeld, TickThread
    PROVE  BufferPlaces' = BufferPlaces \/ Turned(Buffers, BufferPlaces, BufferPlaces')
  <1> USE DEF cameraVars, serviceVars, tickDetectorVars, queueVars, handlerVars
  <1>1. BufferPlaces' = TickHeld' \o cameraMq' \o CameraHeld' \o filled' \o queued'
    BY DEF BufferPlaces, TickHeld
  <1>2. CASE TickReceive /\ cameraMq # <<>> /\ tickBuffer' = Head(cameraMq)
             /\ cameraMq' = Tail(cameraMq)
    <2>1. /\ pc["tick"] = "receive" /\ pc'["camera"] = pc["camera"]
          /\ UNCHANGED <<filled, queued, cameraBuffer>>
      BY <1>2, ServiceGoto, PointsListed DEF TickReceive, TickPoints
    <2>2. Head(cameraMq) \in Buffers
      BY <1>2 DEF TypeOK
    <2>3. TickHeld = <<>> /\ TickHeld' = <<Head(cameraMq)>> /\ CameraHeld' = CameraHeld
      BY <1>2, <2>1, <2>2, CameraAssumption
         DEF TickHeld, Held, CameraHeld, HandlersHeld, TickWorking, CameraAssumption,
             Buffers, NoBuffer
    <2>4. <<Head(cameraMq)>> \o Tail(cameraMq) = <<>> \o cameraMq
      <3>1. cameraMq = <<Head(cameraMq)>> \o Tail(cameraMq) /\ cameraMq \in Seq(Buffers)
        BY <1>2, BufferHead, BufferParts, Zenon
      <3>2. <<>> \o cameraMq = cameraMq
        BY <3>1, ConcatEmptySeq
      <3> QED
        BY <3>1, <3>2, Zenon
    <2> QED
      BY <1>1, <1>2, <2>1, <2>3, <2>4, BufferParts, Zenon
  <1>3. CASE TickRequeue /\ ~ExitFailure
    <2>1. /\ pc["tick"] = "requeue" /\ pc'["camera"] = pc["camera"]
      BY <1>3, ServiceGoto, PointsListed DEF TickRequeue, TickPoints
    <2>2. /\ queued' = Append(queued, tickBuffer) /\ tickBuffer' = NoBuffer
          /\ UNCHANGED <<filled, cameraMq, cameraBuffer>>
      BY <1>3 DEF TickRequeue, ReturnBuffer
    <2>3. tickBuffer \in Buffers /\ tickBuffer # NoBuffer
      BY <2>1 DEF TypeOK, HandlersHeld, TickWorking
    <2>4. TickHeld = <<tickBuffer>> /\ TickHeld' = <<>> /\ CameraHeld' = CameraHeld
      BY <2>1, <2>2, <2>3 DEF TickHeld, Held, CameraHeld
    <2>5. Turned(Buffers, <<tickBuffer>> \o cameraMq \o CameraHeld \o filled \o queued,
                 <<>> \o cameraMq \o CameraHeld \o filled \o Append(queued, tickBuffer))
      BY <2>3, BufferParts, TurnedOver
    <2>6. BufferPlaces = <<tickBuffer>> \o cameraMq \o CameraHeld \o filled \o queued
      BY <2>4, BufferParts
    <2>7. BufferPlaces' = <<>> \o cameraMq \o CameraHeld \o filled \o Append(queued, tickBuffer)
      BY <1>1, <2>2, <2>4
    <2> QED
      BY <2>5, <2>6, <2>7
  <1>4. CASE UNCHANGED <<cameraBuffer, tickBuffer, cameraMq, filled, queued>>
             /\ pc'["camera"] = pc["camera"]
    <2>1. TickHeld' = TickHeld /\ CameraHeld' = CameraHeld
      BY <1>4 DEF TickHeld, CameraHeld
    <2> QED
      BY <1>1, <1>4, <2>1, BufferParts
  <1>5. CASE ExitFailure
    BY <1>4, <1>5 DEF ExitFailure
  <1>6. CASE TickReceive /\ UNCHANGED <<tickBuffer, cameraMq>>
    <2>1. pc'["camera"] = pc["camera"] /\ UNCHANGED <<filled, queued, cameraBuffer>>
      BY <1>6, ServiceGoto, PointsListed DEF TickReceive, TickPoints
    <2> QED
      BY <1>4, <1>6, <2>1
  <1>7. CASE /\ TickOpenIn \/ TickOpenOut \/ TickCheckExit \/ TickAllocate
                  \/ TickConvert \/ TickExecute \/ TickSend
             /\ ~ExitFailure
    <2>1. pc'["camera"] = pc["camera"]
      BY <1>7, ServiceGoto, DoExitType, PointsListed
         DEF TickOpenIn, TickOpenOut, TickCheckExit, TickAllocate, TickConvert,
             TickExecute, TickSend, TickPoints
    <2>2. UNCHANGED <<cameraBuffer, tickBuffer, cameraMq, filled, queued>>
      BY <1>7 DEF TickOpenIn, TickOpenOut, TickCheckExit, TickAllocate, TickConvert,
                  TickExecute, TickSend
    <2> QED
      BY <1>4, <2>1, <2>2
  <1> QED
    BY <1>2, <1>3, <1>5, <1>6, <1>7 DEF TickThread, TickReceive

(* The saver never touches a camera buffer. *)
LEMMA SaverRing ==
    ASSUME TypeOK, HandlersHeld, SaverThread
    PROVE  BufferPlaces' = BufferPlaces
  <1> USE DEF cameraVars, serviceVars, tickDetectorVars, queueVars, handlerVars
  <1>1. pc'["camera"] = pc["camera"]
    <2>1. CASE ExitFailure
      BY <2>1 DEF ExitFailure
    <2>2. CASE ~ExitFailure
      BY <2>2, ServiceGoto, PointsListed
         DEF SaverThread, SaverOpen, SaverReceive, SaverSave, SaverReturn, SaverPoints
    <2> QED
      BY <2>1, <2>2
  <1>2. UNCHANGED <<cameraBuffer, tickBuffer, cameraMq, filled, queued>>
    BY DEF SaverThread, SaverOpen, SaverReceive, SaverSave, SaverReturn, ExitFailure
  <1>3. TickHeld' = TickHeld /\ CameraHeld' = CameraHeld
    BY <1>1, <1>2 DEF TickHeld, CameraHeld
  <1>4. BufferPlaces' = TickHeld' \o cameraMq' \o CameraHeld' \o filled' \o queued'
    BY DEF BufferPlaces, TickHeld
  <1> QED
    BY <1>2, <1>3, <1>4, BufferParts

(* A ring keeps its length and stays injective when it turns. *)
LEMMA TurnLength ==
    ASSUME NEW S, NEW s, NEW t, Turned(S, s, t)
    PROVE  Len(t) = Len(s)
  <1>1. PICK x \in S, rest \in Seq(S) : s = <<x>> \o rest /\ t = rest \o <<x>>
    BY DEF Turned
  <1>2. <<x>> \in Seq(S) /\ Len(<<x>>) = 1
    BY SingletonSeq
  <1>3. Len(<<x>> \o rest) = 1 + Len(rest) /\ Len(rest \o <<x>>) = Len(rest) + 1
    BY <1>2, ConcatProperties
  <1> QED
    BY <1>1, <1>3, LenProperties

(* And injective. *)
LEMMA TurnInjective ==
    ASSUME NEW S, NEW s, NEW t, Turned(S, s, t), IsInjective(s)
    PROVE  IsInjective(t) /\ t \in Seq(S)
  <1>1. PICK x \in S, rest \in Seq(S) : s = <<x>> \o rest /\ t = rest \o <<x>>
    BY DEF Turned
  <1>2. <<x>> \in Seq(S) /\ IsInjective(<<x>> \o rest)
    BY <1>1, SingletonSeq
  <1>3. IsInjective(rest \o <<x>>)
    BY <1>2, InjectiveTurn
  <1>4. rest \o <<x>> \in Seq(S)
    BY <1>2, ConcatProperties
  <1> QED
    BY <1>1, <1>3, <1>4

(* What the driver holds, filled and queued, is the end of the ring. *)
LEMMA DriverPart ==
    ASSUME TypeOK, HandlersHeld
    PROVE  /\ filled \o queued \in Seq(Buffers)
           /\ TickHeld \o cameraMq \in Seq(Buffers)
           /\ TickHeld \o cameraMq \o CameraHeld \in Seq(Buffers)
           /\ BufferPlaces = TickHeld \o cameraMq \o CameraHeld \o (filled \o queued)
           /\ TickHeld \o cameraMq \o <<>> \o filled \o queued
              = TickHeld \o cameraMq \o (filled \o queued)
  <1>1. \A s, t \in Seq(Buffers) : s \o t \in Seq(Buffers)
    BY Concatenation
  <1>2. TickHeld \o cameraMq \in Seq(Buffers)
    BY <1>1, BufferParts, Zenon
  <1>3. filled \o queued \in Seq(Buffers) /\ TickHeld \o cameraMq \o CameraHeld \in Seq(Buffers)
    BY <1>1, <1>2, BufferParts, Zenon
  <1>4. \A s, t, u \in Seq(Buffers) : (s \o t) \o u = s \o (t \o u)
    BY Associative
  <1>5. \A s \in Seq(Buffers) : s \o filled \o queued = s \o (filled \o queued)
    BY <1>4, BufferParts, Zenon
  <1>6. TickHeld \o cameraMq \o <<>> = TickHeld \o cameraMq
    BY <1>2, ConcatEmptySeq
  <1> QED
    BY <1>2, <1>3, <1>5, <1>6, BufferParts, Zenon

(* mq_send on a queue that was not opened loses the buffer: one is taken out *)
(* of the ring.                                                              *)
LEMMA CameraLoses ==
    ASSUME TypeOK, HandlersHeld, CameraSend, "camera.out" \notin opened,
           IsInjective(BufferPlaces)
    PROVE  IsInjective(BufferPlaces')
  <1>1. pc["camera"] = "send" /\ pc'["camera"] = "sleep"
    BY ServiceGoto, PointsListed DEF CameraSend, CameraPoints
  <1>2. UNCHANGED <<tickBuffer, cameraMq, filled, queued>>
    BY DEF CameraSend, cameraVars, tickDetectorVars, handlerVars
  <1>3. TickHeld' = TickHeld /\ CameraHeld' = <<>>
    BY <1>1, <1>2 DEF TickHeld, CameraHeld
  <1>4. BufferPlaces' = TickHeld' \o cameraMq' \o CameraHeld' \o filled' \o queued'
    BY DEF BufferPlaces, TickHeld
  <1>5. BufferPlaces' = TickHeld \o cameraMq \o (filled \o queued)
    BY <1>2, <1>3, <1>4, DriverPart, Zenon
  <1>6. ASSUME NEW s \in Seq(Buffers), NEW t \in Seq(Buffers), NEW u \in Seq(Buffers),
               IsInjective(s \o t \o u)
        PROVE  IsInjective(s \o u)
    BY <1>6, InjectiveWithout
  <1>7. IsInjective(TickHeld \o cameraMq \o CameraHeld \o (filled \o queued))
    BY DriverPart
  <1>8. IsInjective(TickHeld \o cameraMq \o (filled \o queued))
    BY <1>6, <1>7, BufferParts, DriverPart, Zenon
  <1> QED
    BY <1>5, <1>8

(* Only main moves main. *)
LEMMA OthersLeaveMain ==
    ASSUME TypeOK, DriverCapture \/ CameraThread \/ TickThread \/ SaverThread
    PROVE  pc'["main"] = pc["main"]
  <1> USE DEF serviceVars
  <1>1. CASE ExitFailure
    BY <1>1 DEF ExitFailure
  <1>2. CASE DriverCapture
    BY <1>2 DEF DriverCapture
  <1>3. CASE CameraThread /\ ~ExitFailure
    BY <1>3, ServiceGoto, DoExitType, PointsListed
       DEF CameraThread, CameraOpen, CameraCheckExit, CameraSelect, CameraReadFrame,
           CameraSend, CameraSleep, CameraPoints
  <1>4. CASE TickThread /\ ~ExitFailure
    BY <1>4, ServiceGoto, DoExitType, PointsListed
       DEF TickThread, TickOpenIn, TickOpenOut, TickCheckExit, TickReceive, TickAllocate,
           TickConvert, TickExecute, TickRequeue, TickSend, TickPoints
  <1>5. CASE SaverThread /\ ~ExitFailure
    BY <1>5, ServiceGoto, PointsListed
       DEF SaverThread, SaverOpen, SaverReceive, SaverSave, SaverReturn, SaverPoints
  <1> QED
    BY <1>1, <1>2, <1>3, <1>4, <1>5

(* The services leave each other where they are. *)
LEMMA OthersLeaveSaver ==
    ASSUME TypeOK, DriverCapture \/ CameraThread \/ TickThread
    PROVE  pc'["saver"] = pc["saver"]
  <1> USE DEF serviceVars
  <1>1. CASE ExitFailure
    BY <1>1 DEF ExitFailure
  <1>2. CASE DriverCapture
    BY <1>2 DEF DriverCapture
  <1>3. CASE CameraThread /\ ~ExitFailure
    BY <1>3, ServiceGoto, DoExitType, PointsListed
       DEF CameraThread, CameraOpen, CameraCheckExit, CameraSelect, CameraReadFrame,
           CameraSend, CameraSleep, CameraPoints
  <1>4. CASE TickThread /\ ~ExitFailure
    BY <1>4, ServiceGoto, DoExitType, PointsListed
       DEF TickThread, TickOpenIn, TickOpenOut, TickCheckExit, TickReceive, TickAllocate,
           TickConvert, TickExecute, TickRequeue, TickSend, TickPoints
  <1> QED
    BY <1>1, <1>2, <1>3, <1>4

(* Nobody but main's start moves the detector's thread. *)
LEMMA OthersLeaveTick ==
    ASSUME TypeOK, DriverCapture \/ CameraThread \/ SaverThread \/ Main
    PROVE  \/ pc'["tick"] = pc["tick"]
           \/ pc["main"] = "startTick" /\ pc'["tick"] = "open"
  <1> USE DEF serviceVars
  <1>1. CASE ExitFailure
    BY <1>1 DEF ExitFailure
  <1>2. CASE DriverCapture
    BY <1>2 DEF DriverCapture
  <1>3. CASE CameraThread /\ ~ExitFailure
    BY <1>3, ServiceGoto, DoExitType, PointsListed
       DEF CameraThread, CameraOpen, CameraCheckExit, CameraSelect, CameraReadFrame,
           CameraSend, CameraSleep, CameraPoints
  <1>4. CASE SaverThread /\ ~ExitFailure
    BY <1>4, ServiceGoto, PointsListed
       DEF SaverThread, SaverOpen, SaverReceive, SaverSave, SaverReturn, SaverPoints
  <1>5. CASE MainStartService /\ ~ExitFailure
    BY <1>5, StartType, PointsListed DEF MainStartService, MainPoints
  <1>6. CASE (MainUnlink \/ MainStartCamera \/ MainShutdown \/ MainStopCamera) /\ ~ExitFailure
    BY <1>6, GotoType, PointsListed
       DEF MainUnlink, MainStartCamera, MainShutdown, MainStopCamera, Join, FlagExit, MainPoints
  <1>7. CASE MainReturn
    BY <1>7 DEF MainReturn
  <1> QED
    BY <1>1, <1>2, <1>3, <1>4, <1>5, <1>6, <1>7 DEF Main

(* startCamera queues every buffer; nothing else holds one yet. *)
LEMMA MainRing ==
    ASSUME IInv, Main
    PROVE  \/ /\ Started' <=> Started
              /\ BufferPlaces' = BufferPlaces /\ UNCHANGED streaming
           \/ BufferPlaces' = [i \in Buffers |-> i]
           \/ /\ BufferPlaces' = <<>> \/ Started
              /\ BufferPlaces' \in {<<>>, TickHeld \o cameraMq \o CameraHeld, filled \o queued}
              /\ ~streaming'
  <1> USE DEF cameraVars, serviceVars, tickDetectorVars, queueVars, handlerVars
  <1>1. TypeOK /\ HandlersHeld /\ Lifecycle /\ HandlersBounded
    BY DEF IInv
  <1>2. BufferPlaces' = TickHeld' \o cameraMq' \o CameraHeld' \o filled' \o queued'
    BY DEF BufferPlaces, TickHeld
  <1>3. ASSUME pc["main"] \in {"unlink", "startCamera"}, ~ExitFailure
        PROVE  /\ TickHeld' = <<>> /\ CameraHeld' = <<>> /\ filled' = <<>>
               /\ cameraMq' = <<>>
               /\ \/ queued' = <<>> /\ ~streaming'
                  \/ queued' = [i \in Buffers |-> i]
    <2>1. MainUnlink \/ MainStartCamera
      <3>1. ~MainStartService
        BY <1>3 DEF MainStartService, Start
      <3>2. ~MainShutdown
        BY <1>3 DEF MainShutdown, Goto, Join, FlagExit
      <3>3. ~MainStopCamera /\ ~MainReturn
        BY <1>3 DEF MainStopCamera, MainReturn
      <3> QED
        BY <3>1, <3>2, <3>3 DEF Main
    <2>2. /\ filled = <<>> /\ queued = <<>> /\ pc["camera"] = "none" /\ pc["tick"] = "none"
          /\ tickBuffer = NoBuffer /\ ~streaming
          /\ pc["main"] = "startCamera" => cameraMq = <<>>
      BY <1>1, <1>3 DEF HandlersBounded, Lifecycle, HandlersHeld, TickWorking
    <2>3. pc'["camera"] = pc["camera"] /\ pc'["tick"] = pc["tick"]
      BY <1>1, <1>3, <2>1, GotoType, PointsListed
         DEF MainUnlink, MainStartCamera, MainPoints
    <2>4. /\ UNCHANGED tickBuffer /\ filled' = filled
          /\ cameraMq' = <<>>
          /\ \/ queued' = queued /\ ~streaming'
             \/ queued' = [i \in Buffers |-> i]
      BY <1>3, <2>1, <2>2 DEF MainUnlink, MainStartCamera, StartCapturing, Goto
    <2> QED
      BY <1>1, <2>2, <2>3, <2>4 DEF TickHeld, Held, CameraHeld, HandlersHeld, TickWorking
  <1>4. CASE pc["main"] \in {"unlink", "startCamera"} /\ ~ExitFailure
    <2>1. BufferPlaces' = <<>> \o queued'
      BY <1>2, <1>3, <1>4
    <2>2. \/ BufferPlaces' = <<>> /\ ~streaming'
          \/ BufferPlaces' = [i \in Buffers |-> i]
      <3>1. [i \in Buffers |-> i] \in Seq(Buffers)
        BY CameraAssumption DEF CameraAssumption, Buffers
      <3>2. <<>> \o [i \in Buffers |-> i] = [i \in Buffers |-> i]
        BY <3>1, ConcatEmptySeq
      <3> QED
        BY <1>3, <1>4, <2>1, <3>2
    <2> QED
      BY <2>2
  <1>5. CASE UNCHANGED <<tickBuffer, cameraMq, filled, queued, streaming>>
             /\ CameraHeld' = CameraHeld /\ (Started' <=> Started)
    <2>1. TickHeld' = TickHeld
      BY <1>5 DEF TickHeld
    <2> QED
      BY <1>1, <1>2, <1>5, <2>1, BufferParts
  <1>7. CASE ExitFailure
    BY <1>5, <1>7 DEF ExitFailure, CameraHeld, Started
  <1>8. CASE (MainStartService \/ MainShutdown) /\ ~ExitFailure /\ Started
    <2>1. UNCHANGED <<cameraBuffer, tickBuffer, cameraMq, filled, queued, streaming>>
      BY <1>8 DEF MainStartService, MainShutdown
    <2>2. \/ pc'["camera"] = pc["camera"]
          \/ pc["camera"] = "none" /\ pc'["camera"] = "open"
      <3>1. CASE MainStartService
        BY <1>1, <1>8, <3>1, StartType, PointsListed
           DEF MainStartService, MainPoints, Lifecycle
      <3>2. CASE MainShutdown
        BY <1>1, <3>2, GotoType, PointsListed
           DEF MainShutdown, Join, FlagExit, MainPoints
      <3> QED
        BY <1>8, <3>1, <3>2
    <2>3. Started'
      <3>1. CASE MainStartService
        BY <1>1, <1>8, <3>1, StartType, PointsListed DEF MainStartService, MainPoints, Started
      <3>2. CASE MainShutdown
        BY <1>1, <3>2, GotoType, PointsListed
           DEF MainShutdown, Join, FlagExit, MainPoints, Started
      <3> QED
        BY <1>8, <3>1, <3>2
    <2> QED
      BY <1>5, <1>8, <2>1, <2>2, <2>3 DEF CameraHeld
  <1>9. CASE MainStopCamera /\ ~ExitFailure /\ Started
    <2>1. /\ UNCHANGED <<tickBuffer, cameraMq, cameraBuffer>>
          /\ filled' = <<>> /\ queued' = <<>> /\ ~streaming'
      BY <1>9 DEF MainStopCamera, StopCapturing
    <2>2. pc'["camera"] = pc["camera"]
      BY <1>1, <1>9, GotoType, PointsListed DEF MainStopCamera, MainPoints
    <2>3. TickHeld' = TickHeld /\ CameraHeld' = CameraHeld
      BY <2>1, <2>2 DEF TickHeld, CameraHeld
    <2>4. \A s \in Seq(Buffers) : s \o <<>> \o <<>> = s
      BY ConcatEmptySeq
    <2>5. TickHeld \o cameraMq \o CameraHeld \o <<>> \o <<>>
              = TickHeld \o cameraMq \o CameraHeld
      BY <1>1, <2>4, DriverPart, Zenon
    <2>6. BufferPlaces' = TickHeld \o cameraMq \o CameraHeld
      BY <1>2, <2>1, <2>3, <2>5, Zenon
    <2> QED
      BY <1>9, <2>1, <2>6
  <1>10. CASE MainReturn /\ Started
    <2>1. /\ pc["main"] = "return" /\ cameraMq' = <<>>
          /\ UNCHANGED <<pc, tickBuffer, filled, queued, streaming>>
      BY <1>10 DEF MainReturn
    <2>2. pc["camera"] = "exited" /\ pc["tick"] = "exited" /\ ~streaming
      BY <1>1, <2>1 DEF Lifecycle
    <2>3. TickHeld' = <<>> /\ CameraHeld' = <<>>
      BY <1>1, <2>1, <2>2 DEF TickHeld, Held, CameraHeld, HandlersHeld, TickWorking
    <2>4. \A s, t \in Seq(Buffers) : <<>> \o <<>> \o <<>> \o s = s
      <3>1. <<>> \in Seq(Buffers)
        OBVIOUS
      <3> QED
        BY <3>1, ConcatEmptySeq
    <2>5. BufferPlaces' = filled \o queued
      <3>1. <<>> \o <<>> \o <<>> \o filled = filled
        BY <1>1, <2>4, BufferParts, Zenon
      <3> QED
        BY <1>2, <2>1, <2>3, <3>1, Zenon
    <2> QED
      BY <1>10, <2>1, <2>2, <2>5
  <1>11. CASE Started /\ ~ExitFailure /\ pc["main"] # "startCamera"
    <2>1. ~MainUnlink /\ ~MainStartCamera
      BY <1>11 DEF Started, MainUnlink, MainStartCamera, Goto
    <2> QED
      BY <1>8, <1>9, <1>10, <1>11, <2>1 DEF Main
  <1> QED
    BY <1>4, <1>7, <1>11 DEF Started

(* A camera buffer is in one place at a time, whatever fails. *)
THEOREM BuffersInOnePlace == Spec => []BuffersOwnedOnce
  <1>1. Init => BuffersOwnedOnce
    BY DEF Init, ServiceInit, Threads, BuffersOwnedOnce, Started
  <1>2. IInv /\ BuffersOwnedOnce /\ [Next]_vars => BuffersOwnedOnce'
    <2> SUFFICES ASSUME IInv, BuffersOwnedOnce, [Next]_vars
                 PROVE  Started' => IsInjective(BufferPlaces')
      BY DEF BuffersOwnedOnce
    <2>1. TypeOK /\ HandlersHeld
      BY DEF IInv
    <2>2. ASSUME Started
          PROVE  IsInjective(BufferPlaces)
      BY <2>2 DEF BuffersOwnedOnce
    <2>3. CASE Main
      <3>1. ASSUME Started
            PROVE  /\ IsInjective(TickHeld \o cameraMq \o CameraHeld)
                   /\ IsInjective(filled \o queued)
        <4>1. ASSUME NEW s \in Seq(Buffers), NEW t \in Seq(Buffers), IsInjective(s \o t)
              PROVE  IsInjective(s) /\ IsInjective(t)
          BY <4>1, InjectiveParts
        <4>2. IsInjective(TickHeld \o cameraMq \o CameraHeld \o (filled \o queued))
          BY <2>1, <2>2, <3>1, DriverPart
        <4> QED
          BY <2>1, <4>1, <4>2, DriverPart, Zenon
      <3>2. IsInjective(<<>>) /\ IsInjective([i \in Buffers |-> i])
        BY DEF IsInjective
      <3> QED
        BY <2>2, <2>3, <3>1, <3>2, MainRing
    <2>4. ASSUME DriverCapture \/ CameraThread \/ TickThread \/ SaverThread
          PROVE  Started' = Started
      BY <2>1, <2>4, OthersLeaveMain DEF Started
    <2>5. CASE DriverCapture \/ SaverThread
      BY <2>1, <2>2, <2>4, <2>5, DriverRing, SaverRing
    <2>6. CASE CameraThread
      <3>1. CASE CameraSend /\ "camera.out" \notin opened
        BY <2>1, <2>2, <2>4, <2>6, <3>1, CameraLoses
      <3>2. CASE ~(CameraSend /\ "camera.out" \notin opened)
        BY <2>1, <2>2, <2>4, <2>6, <3>2, CameraRing
      <3> QED
        BY <3>1, <3>2
    <2>7. CASE TickThread
      BY <2>1, <2>2, <2>4, <2>7, TickRing, TurnInjective
    <2>8. CASE UNCHANGED vars
      BY <2>2, <2>8 DEF vars, Started, BufferPlaces, CameraHeld
    <2> QED
      BY <2>3, <2>5, <2>6, <2>7, <2>8 DEF Next, Step, Ended
  <1> QED
    BY <1>1, <1>2, Invariance, PTL DEF Spec

-----------------------------------------------------------------------------
(* No buffer is lost *)

(* Only the camera thread moves itself and opens its end of the queue.       *)
LEMMA OthersLeaveCamera ==
    ASSUME TypeOK, DriverCapture \/ TickThread \/ SaverThread
    PROVE  pc'["camera"] = pc["camera"]
           /\ ("camera.out" \in opened' => "camera.out" \in opened)
  <1> USE DEF serviceVars, queueVars
  <1>1. CASE ExitFailure
    BY <1>1 DEF ExitFailure
  <1>2. CASE DriverCapture
    BY <1>2 DEF DriverCapture
  <1>3. CASE TickThread /\ ~ExitFailure
    <2>1. pc'["camera"] = pc["camera"]
      BY <1>3, ServiceGoto, DoExitType, PointsListed
         DEF TickThread, TickOpenIn, TickOpenOut, TickCheckExit, TickReceive, TickAllocate,
             TickConvert, TickExecute, TickRequeue, TickSend, TickPoints
    <2>2. opened' \subseteq opened \cup {"tick.in", "tick.out"}
      BY <1>3 DEF TickThread, TickOpenIn, TickOpenOut, TickCheckExit, TickReceive, TickAllocate,
                  TickConvert, TickExecute, TickRequeue, TickSend, MqOpen
    <2> QED
      BY <2>1, <2>2
  <1>4. CASE SaverThread /\ ~ExitFailure
    <2>1. pc'["camera"] = pc["camera"]
      BY <1>4, ServiceGoto, PointsListed
         DEF SaverThread, SaverOpen, SaverReceive, SaverSave, SaverReturn, SaverPoints
    <2>2. opened' \subseteq opened \cup {"saver.in"}
      BY <1>4 DEF SaverThread, SaverOpen, SaverReceive, SaverSave, SaverReturn, MqOpen
    <2> QED
      BY <2>1, <2>2
  <1> QED
    BY <1>1, <1>2, <1>3, <1>4

(* main opens nothing, and moves the camera thread only to its first step.   *)
LEMMA MainLeavesCamera ==
    ASSUME TypeOK, Lifecycle, Main
    PROVE  /\ UNCHANGED opened
           /\ \/ pc'["camera"] = pc["camera"]
              \/ pc["camera"] = "none" /\ pc'["camera"] = "open"
  <1> USE DEF serviceVars, queueVars
  <1>1. CASE ExitFailure
    BY <1>1 DEF ExitFailure
  <1>2. CASE ~ExitFailure
    <2>1. UNCHANGED opened
      BY <1>2 DEF Main, MainUnlink, MainStartCamera, MainStartService, MainShutdown,
                  MainStopCamera, MainReturn
    <2>2. CASE MainStartService
      BY <1>2, <2>1, <2>2, StartType, PointsListed DEF MainStartService, MainPoints, Lifecycle
    <2>3. CASE MainUnlink \/ MainStartCamera \/ MainShutdown \/ MainStopCamera
      BY <1>2, <2>1, <2>3, GotoType, PointsListed
         DEF MainUnlink, MainStartCamera, MainShutdown, MainStopCamera, Join, FlagExit,
             MainPoints
    <2>4. CASE MainReturn
      BY <2>1, <2>4 DEF MainReturn
    <2> QED
      BY <1>2, <2>2, <2>3, <2>4 DEF Main
  <1> QED
    BY <1>1, <1>2

(* The camera thread opens its end of the queue first, and once.             *)
LEMMA CameraOpensFirst ==
    ASSUME TypeOK, CameraThread, ~CameraOpen
    PROVE  /\ UNCHANGED opened
           /\ pc["camera"] \notin {"none", "open"} /\ pc'["camera"] \notin {"none", "open"}
  <1>1. pc["camera"] \notin {"none", "open"}
    BY DEF CameraThread, CameraCheckExit, CameraSelect, CameraReadFrame, CameraSend, CameraSleep,
           DoExit, Goto
  <1>2. UNCHANGED opened
    BY DEF CameraThread, CameraCheckExit, CameraSelect, CameraReadFrame, CameraSend, CameraSleep,
           ExitFailure, queueVars
  <1>3. pc'["camera"] \notin {"none", "open"} \/ UNCHANGED pc
    BY ServiceGoto, DoExitType, PointsListed
       DEF CameraThread, CameraCheckExit, CameraSelect, CameraReadFrame, CameraSend, CameraSleep,
           ExitFailure, serviceVars, CameraPoints
  <1> QED
    BY <1>1, <1>2, <1>3

(* The camera thread has a queue to send to, or has not come to open it.     *)
CameraCanSend == pc["camera"] \in {"none", "open"} \/ "camera.out" \in opened

(* Every buffer the driver granted is somewhere, from VIDIOC_STREAMON to     *)
(* VIDIOC_STREAMOFF, whatever fails, as long as the camera's mq_open did not.*)
THEOREM NoBufferIsLost == Spec => []NoBufferLost
  <1>1. Init => NoBufferLost
    BY DEF Init, CameraInit, NoBufferLost
  <1>2. IInv /\ NoBufferLost /\ [Next]_vars => NoBufferLost'
    <2> SUFFICES ASSUME IInv, NoBufferLost, [Next]_vars
                 PROVE  NoBufferLost'
      OBVIOUS
    <2>1. TypeOK /\ HandlersHeld /\ Lifecycle
      BY DEF IInv
    <2>2. ASSUME UNCHANGED streaming, Len(BufferPlaces') = Len(BufferPlaces),
                 streaming /\ CameraCanSend' => CameraCanSend
          PROVE  NoBufferLost'
      BY <2>2 DEF NoBufferLost, CameraCanSend
    <2>3. CASE Main
      <3>1. Len([i \in Buffers |-> i]) = NumBuffers
        BY CameraAssumption DEF CameraAssumption, Buffers
      <3>2. CASE BufferPlaces' = [i \in Buffers |-> i]
        BY <3>1, <3>2 DEF NoBufferLost
      <3>3. CASE ~streaming'
        BY <3>3 DEF NoBufferLost
      <3>4. CameraCanSend' => CameraCanSend
        BY <2>1, <2>3, MainLeavesCamera DEF CameraCanSend
      <3> QED
        BY <2>2, <2>3, <3>2, <3>3, <3>4, MainRing
    <2>4. CASE DriverCapture \/ SaverThread
      <3>1. UNCHANGED streaming
        BY <2>4 DEF DriverCapture, Capture, SaverThread, SaverOpen, SaverReceive, SaverSave,
                    SaverReturn, ExitFailure, cameraVars
      <3>2. CameraCanSend' => CameraCanSend
        BY <2>1, <2>4, OthersLeaveCamera DEF CameraCanSend
      <3> QED
        BY <2>1, <2>2, <2>4, <3>1, <3>2, DriverRing, SaverRing
    <2>5. CASE CameraThread
      <3>1. UNCHANGED streaming
        BY <2>5 DEF CameraThread, CameraOpen, CameraCheckExit, CameraSelect, CameraReadFrame,
                    CameraSend, CameraSleep, Dequeue, ExitFailure, cameraVars
      <3>2. CASE CameraSend /\ "camera.out" \notin opened
        <4>1. "camera.out" \notin opened' /\ pc'["camera"] = "sleep"
          BY <2>1, <3>2, ServiceGoto, PointsListed DEF CameraSend, CameraPoints
        <4> QED
          BY <4>1 DEF NoBufferLost
      <3>3. CASE ~(CameraSend /\ "camera.out" \notin opened)
        <4>1. CASE CameraOpen
          <5>1. CameraCanSend
            BY <4>1 DEF CameraOpen, Goto, CameraCanSend
          <5> QED
            BY <2>1, <2>2, <2>5, <3>1, <3>3, <5>1, CameraRing
        <4>2. CASE ~CameraOpen
          <5>3. CameraCanSend' => CameraCanSend
            BY <2>1, <2>5, <4>2, CameraOpensFirst DEF CameraCanSend
          <5> QED
            BY <2>1, <2>2, <2>5, <3>1, <3>3, <5>3, CameraRing
        <4> QED
          BY <4>1, <4>2
      <3> QED
        BY <3>2, <3>3
    <2>6. CASE TickThread
      <3>1. UNCHANGED streaming
        BY <2>6 DEF TickThread, TickOpenIn, TickOpenOut, TickCheckExit, TickReceive,
                    TickAllocate, TickConvert, TickExecute, TickRequeue, TickSend,
                    ReturnBuffer, ExitFailure, cameraVars
      <3>2. ASSUME Turned(Buffers, BufferPlaces, BufferPlaces')
            PROVE  Len(BufferPlaces') = Len(BufferPlaces)
        BY <3>2, TurnLength
      <3>3. CameraCanSend' => CameraCanSend
        BY <2>1, <2>6, OthersLeaveCamera DEF CameraCanSend
      <3> QED
        BY <2>1, <2>2, <2>6, <3>1, <3>2, <3>3, TickRing
    <2>7. CASE UNCHANGED vars
      BY <2>7 DEF vars, NoBufferLost, BufferPlaces, CameraHeld
    <2> QED
      BY <2>3, <2>4, <2>5, <2>6, <2>7 DEF Next, Step, Ended
  <1> QED
    BY <1>1, <1>2, Invariance, PTL DEF Spec

-----------------------------------------------------------------------------
(* The ring of the RGB buffers *)

(* The places of the RGB handlers outside the pool. *)
SaverHeld == Held(saverRgb, NullRgb)
ResultHeld == IF TickHasNew THEN <<>> ELSE Held(tickRgb, NullRgb)
OldHeld == Held(mOldImage, NullRgb)
NewHeld == IF TickHasNew THEN Held(tickRgb, NullRgb) ELSE <<>>

(* The five places of a picture outside the pool. *)
LEMMA RgbParts ==
    ASSUME TypeOK
    PROVE  /\ RgbHandlersOut = SaverHeld \o tickMq \o ResultHeld \o OldHeld \o NewHeld
           /\ SaverHeld \in Seq(RgbHandlers) /\ tickMq \in Seq(RgbHandlers)
           /\ ResultHeld \in Seq(RgbHandlers) /\ OldHeld \in Seq(RgbHandlers)
           /\ NewHeld \in Seq(RgbHandlers)
           /\ RgbHandlersOut \in Seq(RgbHandlers)
           /\ mAvailable \in Seq(RgbBuffers)
  <1>1. RgbHandlersOut = SaverHeld \o tickMq \o ResultHeld \o OldHeld \o NewHeld
    BY DEF RgbHandlersOut, SaverHeld, ResultHeld, OldHeld, NewHeld
  <1>2. <<>> \in Seq(RgbHandlers) /\ \A h \in RgbHandlers : <<h>> \in Seq(RgbHandlers)
    BY SingletonSeq
  <1>3. \A h \in RgbHandlers \cup {NullRgb} : Held(h, NullRgb) \in Seq(RgbHandlers)
    BY <1>2 DEF Held
  <1>4. /\ SaverHeld \in Seq(RgbHandlers) /\ OldHeld \in Seq(RgbHandlers)
        /\ Held(tickRgb, NullRgb) \in Seq(RgbHandlers)
        /\ tickMq \in Seq(RgbHandlers) /\ mAvailable \in Seq(RgbBuffers)
    BY <1>3 DEF TypeOK, SaverHeld, OldHeld
  <1>5. ResultHeld \in Seq(RgbHandlers) /\ NewHeld \in Seq(RgbHandlers)
    BY <1>2, <1>4 DEF ResultHeld, NewHeld
  <1>6. SaverHeld \o tickMq \o ResultHeld \o OldHeld \o NewHeld \in Seq(RgbHandlers)
    <2>1. \A s, t \in Seq(RgbHandlers) : s \o t \in Seq(RgbHandlers)
      BY Concatenation
    <2>2. SaverHeld \o tickMq \in Seq(RgbHandlers)
      BY <1>4, <2>1, Zenon
    <2>3. SaverHeld \o tickMq \o ResultHeld \in Seq(RgbHandlers)
      BY <1>5, <2>1, <2>2, Zenon
    <2>4. SaverHeld \o tickMq \o ResultHeld \o OldHeld \in Seq(RgbHandlers)
      BY <1>4, <2>1, <2>3, Zenon
    <2> QED
      BY <1>5, <2>1, <2>4, Zenon
  <1> QED
    BY <1>1, <1>4, <1>5, <1>6

(* Moves for RGB handlers. *)
LEMMA HandlerMoves == Moves(RgbHandlers)
  BY MovesKeep, Zenon

(* Moves for RGB buffers. *)
LEMMA PoolMoves == Moves(RgbBuffers)
  BY MovesKeep, Zenon

(* A handler in use is never the null handler. *)
LEMMA HandlersNotNull == \A h \in RgbHandlers : h # NullRgb /\ h.mStart \in RgbBuffers
  BY DEF RgbHandlers, RgbBuffers, NullRgb

(* What a step has to leave alone to leave the handlers where they are. *)
LEMMA QuietHandlers ==
    ASSUME UNCHANGED <<saverRgb, tickMq, tickRgb, mOldImage>>,
           TickHasNew' <=> TickHasNew
    PROVE  RgbHandlersOut' = RgbHandlersOut
  BY DEF RgbHandlersOut

(* colorConvert takes the front of the pool for the newest picture. *)
LEMMA AllocateHandlers ==
    ASSUME TypeOK, HandlersHeld, TickAllocate, ~ExitFailure
    PROVE  /\ mAvailable # <<>> /\ mAvailable' = Tail(mAvailable)
           /\ tickRgb' = [mStart |-> Head(mAvailable), mIsTick |-> FALSE]
           /\ tickRgb' \in RgbHandlers
           /\ pc["tick"] = "allocate" /\ pc'["tick"] = "convert"
           /\ UNCHANGED <<mOldImage, mState, process, rgbImage, saverRgb, tickMq>>
           /\ RgbHandlersOut' = RgbHandlersOut \o <<tickRgb'>>
  <1> USE DEF queueVars
  <1>1. /\ Allocated # NullRgb /\ Allocate /\ tickRgb' = Allocated
        /\ Goto("tick", "allocate", "convert")
        /\ UNCHANGED <<process, queueVars, saverRgb>>
    BY DEF TickAllocate
  <1>2. pc["tick"] = "allocate" /\ pc'["tick"] = "convert"
    BY <1>1, ServiceGoto, PointsListed DEF TickPoints
  <1>3. /\ mAvailable # <<>> /\ mAvailable' = Tail(mAvailable)
        /\ tickRgb' = [mStart |-> Head(mAvailable), mIsTick |-> FALSE]
        /\ UNCHANGED <<mOldImage, mState, rgbImage>>
    BY <1>1 DEF Allocated, Allocate
  <1>4. tickRgb' \in RgbHandlers
    BY <1>3 DEF RgbHandlers, TypeOK
  <1>5. ResultHeld = <<>> /\ NewHeld = <<>>
    BY <1>2 DEF ResultHeld, NewHeld, TickHasNew, Held, HandlersHeld
  <1>6. ResultHeld' = <<>> /\ NewHeld' = <<tickRgb'>>
    BY <1>2, <1>4, HandlersNotNull DEF ResultHeld, NewHeld, TickHasNew, Held
  <1>7. SaverHeld' = SaverHeld /\ OldHeld' = OldHeld /\ tickMq' = tickMq
    BY <1>1, <1>3 DEF SaverHeld, OldHeld
  <1>8. RgbHandlersOut' = SaverHeld' \o tickMq' \o ResultHeld' \o OldHeld' \o NewHeld'
    BY DEF RgbHandlersOut, SaverHeld, ResultHeld, OldHeld, NewHeld
  <1>9. RgbHandlersOut = SaverHeld \o tickMq \o <<>> \o OldHeld
    <2>1. \A s \in Seq(RgbHandlers) : s \o <<>> = s
      BY ConcatEmptySeq
    <2>2. SaverHeld \o tickMq \o <<>> \o OldHeld \in Seq(RgbHandlers)
      <3>1. \A s, t \in Seq(RgbHandlers) : s \o t \in Seq(RgbHandlers)
        BY Concatenation
      <3>2. SaverHeld \o tickMq \in Seq(RgbHandlers)
        BY <3>1, RgbParts, Zenon
      <3>3. SaverHeld \o tickMq \o <<>> = SaverHeld \o tickMq
        BY <2>1, <3>2, Zenon
      <3> QED
        BY <3>1, <3>2, <3>3, RgbParts, Zenon
    <2>3. RgbHandlersOut = SaverHeld \o tickMq \o <<>> \o OldHeld \o <<>>
      BY <1>5, RgbParts, Zenon
    <2> QED
      BY <2>1, <2>2, <2>3, Zenon
  <1> QED
    BY <1>1, <1>2, <1>3, <1>4, <1>6, <1>7, <1>8, <1>9

(* execute turns the new picture into the old image; from the second call on *)
(* it gets its verdict, and the caller the old image.                        *)
LEMMA ExecuteHandlers ==
    ASSUME TypeOK, HandlersHeld, TickExecute, ~ExitFailure
    PROVE  /\ pc["tick"] = "execute" /\ pc'["tick"] = "requeue"
           /\ tickRgb \in RgbHandlers /\ mOldImage' \in RgbHandlers
           /\ mOldImage'.mStart = tickRgb.mStart
           /\ UNCHANGED <<mAvailable, process, rgbImage, saverRgb, tickMq>>
           /\ \/ /\ mOldImage' = tickRgb /\ UNCHANGED mState
                 /\ RgbHandlersOut' = RgbHandlersOut
              \/ /\ mOldImage \in RgbHandlers
                 /\ mOldImage'.mIsTick =>
                        mState = "Moving" /\ mState' = "Still"
                 /\ RgbHandlersOut = SaverHeld \o tickMq \o <<mOldImage>> \o <<tickRgb>>
                 /\ RgbHandlersOut' = SaverHeld \o tickMq \o <<mOldImage>> \o <<mOldImage'>>
  <1> USE DEF queueVars
  <1>1. /\ Goto("tick", "execute", "requeue")
        /\ UNCHANGED <<process, queueVars, saverRgb>>
        /\ \/ ExecuteFirst(tickRgb) /\ tickRgb' = NullRgb
           \/ (\E level \in Levels : ExecuteNext(tickRgb, level)) /\ tickRgb' = mOldImage
    BY DEF TickExecute
  <1>2. pc["tick"] = "execute" /\ pc'["tick"] = "requeue"
    BY <1>1, ServiceGoto, PointsListed DEF TickPoints
  <1>3. tickRgb \in RgbHandlers
    BY <1>2 DEF TypeOK, HandlersHeld
  <1>4. ResultHeld = <<>> /\ NewHeld = <<tickRgb>> /\ NewHeld' = <<>>
        /\ ResultHeld' = Held(tickRgb', NullRgb) /\ SaverHeld' = SaverHeld /\ tickMq' = tickMq
    BY <1>1, <1>2, <1>3, HandlersNotNull DEF ResultHeld, NewHeld, TickHasNew, Held, SaverHeld
  <1>5. RgbHandlersOut' = SaverHeld' \o tickMq' \o ResultHeld' \o OldHeld' \o NewHeld'
    BY DEF RgbHandlersOut, SaverHeld, ResultHeld, OldHeld, NewHeld
  <1>6. /\ \A s \in Seq(RgbHandlers) : s \o <<>> = s
        /\ SaverHeld \o tickMq \in Seq(RgbHandlers)
        /\ \A h \in RgbHandlers : SaverHeld \o tickMq \o <<h>> \in Seq(RgbHandlers)
    <2>1. \A s \in Seq(RgbHandlers) : s \o <<>> = s
      BY ConcatEmptySeq
    <2>2. \A s, t \in Seq(RgbHandlers) : s \o t \in Seq(RgbHandlers)
      BY Concatenation
    <2>3. SaverHeld \o tickMq \in Seq(RgbHandlers)
      BY <2>2, RgbParts, Zenon
    <2>4. \A h \in RgbHandlers : <<h>> \in Seq(RgbHandlers)
      BY SingletonSeq
    <2> QED
      BY <2>1, <2>2, <2>3, <2>4, Zenon
  <1>7. SaverHeld \o tickMq \o <<>> = SaverHeld \o tickMq
    BY <1>6, Zenon
  <1>8. CASE ExecuteFirst(tickRgb) /\ tickRgb' = NullRgb
    <2>1. mOldImage = NullRgb /\ mOldImage' = tickRgb /\ UNCHANGED <<mAvailable, mState, rgbImage>>
      BY <1>8 DEF ExecuteFirst
    <2>2. OldHeld = <<>> /\ OldHeld' = <<tickRgb>> /\ ResultHeld' = <<>>
      BY <1>3, <1>4, <1>8, <2>1, HandlersNotNull DEF OldHeld, Held
    <2>3. RgbHandlersOut = SaverHeld \o tickMq \o <<tickRgb>>
      BY <1>4, <1>7, <2>2, RgbParts, Zenon
    <2>4. SaverHeld \o tickMq \o <<tickRgb>> \o <<>> = SaverHeld \o tickMq \o <<tickRgb>>
      BY <1>3, <1>6, Zenon
    <2>5. RgbHandlersOut' = SaverHeld \o tickMq \o <<tickRgb>>
      BY <1>4, <1>5, <1>7, <2>2, <2>4, Zenon
    <2> QED
      BY <1>1, <1>2, <1>3, <2>1, <2>3, <2>5
  <1>9. ASSUME NEW level \in Levels, ExecuteNext(tickRgb, level), tickRgb' = mOldImage
        PROVE  /\ mOldImage' \in RgbHandlers /\ mOldImage'.mStart = tickRgb.mStart
               /\ UNCHANGED <<mAvailable, rgbImage>>
               /\ mOldImage \in RgbHandlers
               /\ mOldImage'.mIsTick => mState = "Moving" /\ mState' = "Still"
               /\ RgbHandlersOut = SaverHeld \o tickMq \o <<mOldImage>> \o <<tickRgb>>
               /\ RgbHandlersOut' = SaverHeld \o tickMq \o <<mOldImage>> \o <<mOldImage'>>
    <2>1. /\ mOldImage \in RgbHandlers
          /\ mOldImage' = [tickRgb EXCEPT !.mIsTick = IsTick(level)]
          /\ mState' = NextState(level) /\ UNCHANGED <<mAvailable, rgbImage>>
      BY <1>9 DEF ExecuteNext, TypeOK
    <2>2. IsTick(level) \in BOOLEAN
      BY Zenon DEF IsTick
    <2>3. /\ mOldImage' \in RgbHandlers /\ mOldImage'.mStart = tickRgb.mStart
          /\ mOldImage'.mIsTick = IsTick(level)
      BY <1>3, <2>1, <2>2 DEF RgbHandlers
    <2>4. IsTick(level) => mState = "Moving" /\ mState' = "Still"
      BY <2>1 DEF IsTick, NextState
    <2>5. OldHeld = <<mOldImage>> /\ OldHeld' = <<mOldImage'>> /\ ResultHeld' = <<mOldImage>>
      BY <1>4, <1>9, <2>1, <2>3, HandlersNotNull DEF OldHeld, Held
    <2>6. RgbHandlersOut = SaverHeld \o tickMq \o <<mOldImage>> \o <<tickRgb>>
      BY <1>4, <1>7, <2>5, RgbParts, Zenon
    <2>7. SaverHeld \o tickMq \o <<mOldImage>> \o <<mOldImage'>> \o <<>>
              = SaverHeld \o tickMq \o <<mOldImage>> \o <<mOldImage'>>
      <3>1. SaverHeld \o tickMq \o <<mOldImage>> \in Seq(RgbHandlers)
        BY <1>6, <2>1, Zenon
      <3>2. <<mOldImage'>> \in Seq(RgbHandlers)
        BY <2>3, SingletonSeq
      <3>3. \A s, t \in Seq(RgbHandlers) : s \o t \in Seq(RgbHandlers)
        BY Concatenation
      <3>4. SaverHeld \o tickMq \o <<mOldImage>> \o <<mOldImage'>> \in Seq(RgbHandlers)
        BY <3>1, <3>2, <3>3, Zenon
      <3> QED
        BY <1>6, <3>4, Zenon
    <2>8. RgbHandlersOut' = SaverHeld \o tickMq \o <<mOldImage>> \o <<mOldImage'>>
      BY <1>4, <1>5, <2>5, <2>7, Zenon
    <2>9. mOldImage'.mIsTick => mState = "Moving" /\ mState' = "Still"
      BY <2>3, <2>4, Zenon
    <2> QED
      BY <2>1, <2>3, <2>6, <2>8, <2>9
  <1> QED
    BY <1>1, <1>2, <1>3, <1>8, <1>9

(* Nothing happens to the RGB buffers. *)
RgbQuiet ==
    RgbHandlersOut' = RgbHandlersOut /\ UNCHANGED <<mAvailable, mOldImage, mState>>

(* The detector's thread does nothing else to them. *)
LEMMA TickHandlers ==
    ASSUME TypeOK, HandlersHeld, TickThread
    PROVE  \/ RgbQuiet
           \/ TickAllocate /\ ~ExitFailure
           \/ TickExecute /\ ~ExitFailure
  <1> USE DEF cameraVars, serviceVars, tickDetectorVars, queueVars, handlerVars
  <1>1. CASE ExitFailure
    BY <1>1, QuietHandlers DEF ExitFailure, TickHasNew, RgbQuiet
  <1>2. CASE TickSend /\ ~ExitFailure
    <2>1. /\ pc["tick"] = "send" /\ pc'["tick"] = "check"
      BY <1>2, ServiceGoto, PointsListed DEF TickSend, TickPoints
    <2>2. /\ tickMq' = Append(tickMq, tickRgb) /\ tickRgb' = NullRgb
          /\ UNCHANGED <<saverRgb, mAvailable, mOldImage, mState>>
      BY <1>2 DEF TickSend
    <2>3. tickRgb \in RgbHandlers
      BY <2>1 DEF TypeOK, HandlersHeld
    <2>4. /\ ResultHeld = <<tickRgb>> /\ ResultHeld' = <<>>
          /\ NewHeld = <<>> /\ NewHeld' = <<>>
          /\ SaverHeld' = SaverHeld /\ OldHeld' = OldHeld
      BY <2>1, <2>2, <2>3, HandlersNotNull
         DEF ResultHeld, NewHeld, SaverHeld, OldHeld, TickHasNew, Held
    <2>5. SaverHeld \o tickMq \o <<tickRgb>> = SaverHeld \o Append(tickMq, tickRgb) \o <<>>
      <3>1. SaverHeld \in Seq(RgbHandlers) /\ tickMq \in Seq(RgbHandlers)
        BY RgbParts
      <3> QED
        BY <2>3, <3>1, HandlerMoves, Zenon DEF Moves
    <2>6. RgbHandlersOut' = SaverHeld' \o tickMq' \o ResultHeld' \o OldHeld' \o NewHeld'
      BY DEF RgbHandlersOut, SaverHeld, ResultHeld, OldHeld, NewHeld
    <2>7. RgbHandlersOut' = RgbHandlersOut
      BY <2>2, <2>4, <2>5, <2>6, RgbParts, Zenon
    <2> QED
      BY <2>2, <2>7 DEF RgbQuiet
  <1>3. CASE /\ TickOpenIn \/ TickOpenOut \/ TickCheckExit \/ TickReceive \/ TickConvert
                  \/ TickRequeue
             /\ ~ExitFailure
    <2>1. /\ pc["tick"] = "convert" /\ pc'["tick"] = "execute"
          \/ /\ pc["tick"] \notin {"convert", "execute"}
             /\ pc'["tick"] \notin {"convert", "execute"}
      BY <1>3, ServiceGoto, DoExitType, PointsListed
         DEF TickOpenIn, TickOpenOut, TickCheckExit, TickReceive, TickConvert, TickRequeue,
             TickPoints
    <2>2. UNCHANGED <<saverRgb, tickMq, tickRgb, mOldImage, mAvailable, mState>>
      BY <1>3 DEF TickOpenIn, TickOpenOut, TickCheckExit, TickReceive, TickConvert,
                  TickRequeue, ColorConvert
    <2> QED
      BY <2>1, <2>2, QuietHandlers DEF TickHasNew, RgbQuiet
  <1> QED
    BY <1>1, <1>2, <1>3 DEF TickThread

(* The saver takes the oldest picture and gives its buffer back to the pool. *)
LEMMA ReturnHandlers ==
    ASSUME TypeOK, HandlersHeld, HandlersBounded, Lifecycle, SaverReturn
    PROVE  /\ saverRgb \in RgbHandlers
           /\ \E rest \in Seq(RgbHandlers) :
                  RgbHandlersOut = <<saverRgb>> \o rest /\ RgbHandlersOut' = rest
           /\ mAvailable' = Append(mAvailable, saverRgb.mStart)
           /\ UNCHANGED <<mOldImage, mState>> /\ process' = process
  <1> USE DEF queueVars
  <1>1. /\ pc["saver"] = "return" /\ pc'["tick"] = pc["tick"]
      BY ServiceGoto, PointsListed DEF SaverReturn, SaverPoints
  <1>2. saverRgb \in RgbHandlers
    BY <1>1 DEF TypeOK, HandlersHeld
  <1>3. saverRgb.mStart # 0 /\ saverRgb # NullRgb /\ saverRgb.mStart \in RgbBuffers
    BY <1>2, HandlersNotNull DEF RgbBuffers
  <1>4. /\ mAvailable' = Append(mAvailable, saverRgb.mStart) /\ saverRgb' = NullRgb
        /\ UNCHANGED <<mOldImage, mState, tickMq, tickRgb>>
        /\ process' = IF PoolOverfull' THEN "failure" ELSE process
    BY <1>3 DEF SaverReturn, ReturnRgb
  <1>5. process' = process
    <2>1. Started /\ saverRgb # NullRgb
      BY <1>1, <1>3 DEF Started, Lifecycle
    <2>2. /\ RgbCount <= NumRgb /\ Count(saverRgb, NullRgb) = 1
          /\ \A h \in {tickRgb, mOldImage} : Count(h, NullRgb) \in Nat
          /\ Len(mAvailable) \in Nat /\ Len(tickMq) \in Nat
      BY <2>1, CountTyped DEF HandlersBounded, Count, TypeOK
    <2>3. Len(mAvailable) + 1 <= NumRgb
      BY <2>2, TickDetectorAssumption DEF RgbCount, TickDetectorAssumption
    <2>4. Len(mAvailable') = Len(mAvailable) + 1
      BY <1>3, <1>4, LenAppend DEF TypeOK
    <2>5. ~(Len(mAvailable') > NumRgb)
      BY <2>2, <2>3, <2>4, TickDetectorAssumption DEF TickDetectorAssumption
    <2> QED
      BY <1>4, <2>5 DEF PoolOverfull
  <1>6. /\ SaverHeld = <<saverRgb>> /\ SaverHeld' = <<>>
        /\ tickMq' = tickMq /\ ResultHeld' = ResultHeld
        /\ OldHeld' = OldHeld /\ NewHeld' = NewHeld
    BY <1>1, <1>3, <1>4 DEF SaverHeld, ResultHeld, OldHeld, NewHeld, TickHasNew, Held
  <1>7. RgbHandlersOut' = SaverHeld' \o tickMq' \o ResultHeld' \o OldHeld' \o NewHeld'
    BY DEF RgbHandlersOut, SaverHeld, ResultHeld, OldHeld, NewHeld
  <1>8. \E rest \in Seq(RgbHandlers) :
            /\ <<saverRgb>> \o tickMq \o ResultHeld \o OldHeld \o NewHeld = <<saverRgb>> \o rest
            /\ <<>> \o tickMq \o ResultHeld \o OldHeld \o NewHeld = rest
    <2>1. /\ tickMq \in Seq(RgbHandlers) /\ ResultHeld \in Seq(RgbHandlers)
          /\ OldHeld \in Seq(RgbHandlers) /\ NewHeld \in Seq(RgbHandlers)
      BY RgbParts
    <2>2. Before(RgbHandlers, saverRgb,
                 <<saverRgb>> \o tickMq \o ResultHeld \o OldHeld \o NewHeld,
                 <<>> \o tickMq \o ResultHeld \o OldHeld \o NewHeld)
      BY <1>2, <2>1, RingHead
    <2> QED
      BY <2>2 DEF Before
  <1> QED
    BY <1>2, <1>4, <1>5, <1>6, <1>7, <1>8, RgbParts

(* What else the saver does leaves every handler in its place in the row. *)
LEMMA SaverHandlers ==
    ASSUME TypeOK, HandlersHeld, SaverThread
    PROVE  RgbQuiet \/ SaverReturn
  <1> USE DEF cameraVars, serviceVars, tickDetectorVars, queueVars, handlerVars
  <1>1. CASE ExitFailure
    BY <1>1, QuietHandlers DEF ExitFailure, TickHasNew, RgbQuiet
  <1>2. CASE SaverReceive /\ tickMq # <<>> /\ saverRgb' = Head(tickMq) /\ tickMq' = Tail(tickMq)
    <2>1. pc["saver"] = "receive" /\ pc'["tick"] = pc["tick"]
      BY <1>2, ServiceGoto, PointsListed DEF SaverReceive, SaverPoints
    <2>2. UNCHANGED <<mAvailable, mOldImage, mState, tickRgb>>
      BY <1>2 DEF SaverReceive
    <2>3. Head(tickMq) \in RgbHandlers
      BY <1>2 DEF TypeOK
    <2>4. SaverHeld = <<>>
      BY <2>1 DEF SaverHeld, Held, HandlersHeld
    <2>5. SaverHeld' = <<Head(tickMq)>>
      <3>1. SaverHeld' = Held(saverRgb', NullRgb)
        BY DEF SaverHeld
      <3> QED
        BY <1>2, <2>3, <3>1, HandlersNotNull DEF Held
    <2>6. ResultHeld' = ResultHeld /\ OldHeld' = OldHeld /\ NewHeld' = NewHeld
      BY <2>1, <2>2 DEF ResultHeld, OldHeld, NewHeld, TickHasNew
    <2>7. <<Head(tickMq)>> \o Tail(tickMq) = <<>> \o tickMq
      <3>1. tickMq = <<Head(tickMq)>> \o Tail(tickMq) /\ tickMq \in Seq(RgbHandlers)
        <4>1. \A q \in Seq(RgbHandlers) \ {<<>>} : q = <<Head(q)>> \o Tail(q)
          BY HeadFirst
        <4> QED
          BY <1>2, <4>1, RgbParts, Zenon
      <3>2. <<>> \o tickMq = tickMq
        BY <3>1, ConcatEmptySeq
      <3> QED
        BY <3>1, <3>2, Zenon
    <2>8. RgbHandlersOut' = SaverHeld' \o tickMq' \o ResultHeld' \o OldHeld' \o NewHeld'
      BY DEF RgbHandlersOut, SaverHeld, ResultHeld, OldHeld, NewHeld
    <2>9. RgbHandlersOut' = RgbHandlersOut
      BY <1>2, <2>4, <2>5, <2>6, <2>7, <2>8, RgbParts, Zenon
    <2> QED
      BY <2>2, <2>9 DEF RgbQuiet
  <1>3. CASE UNCHANGED <<saverRgb, tickMq, tickRgb, mOldImage, mAvailable, mState>>
             /\ pc'["tick"] = pc["tick"]
    BY <1>3, QuietHandlers DEF TickHasNew, RgbQuiet
  <1>4. CASE SaverReceive /\ UNCHANGED <<saverRgb, tickMq>>
    <2>1. pc'["tick"] = pc["tick"]
      BY <1>4, ServiceGoto, PointsListed DEF SaverReceive, SaverPoints
    <2> QED
      BY <1>3, <1>4, <2>1 DEF SaverReceive
  <1>5. CASE (SaverOpen \/ SaverSave) /\ ~ExitFailure
    <2>1. pc'["tick"] = pc["tick"]
      BY <1>5, ServiceGoto, PointsListed DEF SaverOpen, SaverSave, SaverPoints
    <2> QED
      BY <1>3, <1>5, <2>1 DEF SaverOpen, SaverSave
  <1> QED
    BY <1>1, <1>2, <1>4, <1>5 DEF SaverThread, SaverReceive

(* The camera's side and main leave the pictures alone, until main's end. *)
LEMMA OtherHandlers ==
    ASSUME TypeOK, HandlersHeld, Lifecycle,
           DriverCapture \/ CameraThread \/ (Main /\ ~MainUnlink /\ ~MainReturn)
    PROVE  RgbQuiet
  <1> USE DEF cameraVars, serviceVars, tickDetectorVars, queueVars, handlerVars
  <1>1. CASE ExitFailure
    BY <1>1, QuietHandlers DEF ExitFailure, TickHasNew, RgbQuiet
  <1>2. CASE ~ExitFailure
    <2>1. UNCHANGED <<saverRgb, tickMq, tickRgb, mOldImage, mAvailable, mState>>
      <3>1. CASE DriverCapture \/ CameraThread
        BY <1>2, <3>1 DEF DriverCapture, CameraThread, CameraOpen, CameraCheckExit,
                          CameraSelect, CameraReadFrame, CameraSend, CameraSleep
      <3>2. CASE Main /\ ~MainUnlink /\ ~MainReturn
        BY <1>2, <3>2 DEF Main, MainStartCamera, MainStartService, MainShutdown, MainStopCamera
      <3> QED
        BY <3>1, <3>2
    <2>2. \/ pc'["tick"] = pc["tick"]
          \/ pc["tick"] = "none" /\ pc'["tick"] = "open"
      BY OthersLeaveTick DEF Lifecycle
    <2>3. TickHasNew' <=> TickHasNew
      BY <2>2 DEF TickHasNew
    <2> QED
      BY <2>1, <2>3, QuietHandlers DEF RgbQuiet
  <1> QED
    BY <1>1, <1>2

(* The buffers of the handlers. *)
StartOf == [h \in RgbHandlers |-> h.mStart]

(* Starts is a mapping. *)
LEMMA StartsMapped ==
    /\ StartOf \in [RgbHandlers -> RgbBuffers]
    /\ \A s \in Seq(RgbHandlers) : Starts(s) = Mapped(StartOf, s)
  <1>1. StartOf \in [RgbHandlers -> RgbBuffers]
    BY HandlersNotNull DEF StartOf
  <1>2. ASSUME NEW s \in Seq(RgbHandlers)
        PROVE  Starts(s) = Mapped(StartOf, s)
    <2>1. \A i \in DOMAIN s : s[i] \in RgbHandlers
      OBVIOUS
    <2> QED
      BY <2>1 DEF Starts, Mapped, StartOf
  <1> QED
    BY <1>1, <1>2

(* Starts gives one buffer for each handler, *)
LEMMA StartsType ==
    \A s \in Seq(RgbHandlers) : Starts(s) \in Seq(RgbBuffers) /\ Len(Starts(s)) = Len(s)
  <1>1. \A h \in RgbHandlers : StartOf[h] \in RgbBuffers
    BY StartsMapped
  <1>2. ASSUME NEW s \in Seq(RgbHandlers)
        PROVE  Mapped(StartOf, s) \in Seq(RgbBuffers) /\ Len(Mapped(StartOf, s)) = Len(s)
    BY <1>1, MappedType
  <1> QED
    BY <1>2, StartsMapped

(* in their order, *)
LEMMA StartsConcat ==
    \A s, t \in Seq(RgbHandlers) : Starts(s \o t) = Starts(s) \o Starts(t)
  <1> SUFFICES ASSUME NEW s \in Seq(RgbHandlers), NEW t \in Seq(RgbHandlers)
               PROVE  Starts(s \o t) = Starts(s) \o Starts(t)
    OBVIOUS
  <1>1. s \o t \in Seq(RgbHandlers)
    BY ConcatProperties
  <1>2. Mapped(StartOf, s \o t) = Mapped(StartOf, s) \o Mapped(StartOf, t)
    BY StartsMapped, MappedConcat
  <1> QED
    BY <1>1, <1>2, StartsMapped

(* and the buffer of a single one. *)
LEMMA StartsSingle == \A h : Starts(<<h>>) = <<h.mStart>>
  BY DEF Starts

(* Between the threads and the pool no buffer is lost: the ring is left as   *)
(* it is, or turned by the saver.                                            *)
LEMMA AllocateRing ==
    ASSUME TypeOK, HandlersHeld, TickAllocate, ~ExitFailure
    PROVE  RgbPlaces' = RgbPlaces
  <1>1. /\ mAvailable # <<>> /\ mAvailable' = Tail(mAvailable)
        /\ tickRgb' \in RgbHandlers /\ tickRgb'.mStart = Head(mAvailable)
        /\ RgbHandlersOut' = RgbHandlersOut \o <<tickRgb'>>
    BY AllocateHandlers
  <1>2. RgbPlaces' = Starts(RgbHandlersOut') \o mAvailable'
    BY DEF RgbPlaces, Starts
  <1>3. <<tickRgb'>> \in Seq(RgbHandlers) /\ RgbHandlersOut \in Seq(RgbHandlers)
    BY <1>1, RgbParts, SingletonSeq
  <1>4. Starts(RgbHandlersOut') = Starts(RgbHandlersOut) \o Starts(<<tickRgb'>>)
    BY <1>1, <1>3, StartsConcat
  <1>5. Starts(<<tickRgb'>>) = <<Head(mAvailable)>>
    BY <1>1, StartsSingle
  <1>6. Starts(RgbHandlersOut) \in Seq(RgbBuffers) /\ mAvailable \in Seq(RgbBuffers)
    BY <1>3, RgbParts, StartsType
  <1>7. Starts(RgbHandlersOut) \o <<>> \o mAvailable
            = Starts(RgbHandlersOut) \o <<Head(mAvailable)>> \o Tail(mAvailable)
    BY <1>1, <1>6, PoolMoves, Zenon DEF Moves
  <1>8. Starts(RgbHandlersOut) \o <<>> = Starts(RgbHandlersOut)
    BY <1>6, ConcatEmptySeq
  <1> QED
    BY <1>1, <1>2, <1>4, <1>5, <1>7, <1>8 DEF RgbPlaces

(* execute exchanges two handlers of the same buffers. *)
LEMMA ExecuteRing ==
    ASSUME TypeOK, HandlersHeld, TickExecute, ~ExitFailure
    PROVE  RgbPlaces' = RgbPlaces
  <1>1. /\ tickRgb \in RgbHandlers /\ mOldImage' \in RgbHandlers
        /\ mOldImage'.mStart = tickRgb.mStart /\ mAvailable' = mAvailable
        /\ \/ RgbHandlersOut' = RgbHandlersOut
           \/ /\ mOldImage \in RgbHandlers
              /\ RgbHandlersOut = SaverHeld \o tickMq \o <<mOldImage>> \o <<tickRgb>>
              /\ RgbHandlersOut' = SaverHeld \o tickMq \o <<mOldImage>> \o <<mOldImage'>>
    BY ExecuteHandlers
  <1>2. RgbPlaces' = Starts(RgbHandlersOut') \o mAvailable'
    BY DEF RgbPlaces, Starts
  <1>3. CASE RgbHandlersOut' = RgbHandlersOut
    BY <1>1, <1>2, <1>3 DEF RgbPlaces
  <1>4. ASSUME mOldImage \in RgbHandlers,
               RgbHandlersOut = SaverHeld \o tickMq \o <<mOldImage>> \o <<tickRgb>>,
               RgbHandlersOut' = SaverHeld \o tickMq \o <<mOldImage>> \o <<mOldImage'>>
        PROVE  Starts(RgbHandlersOut') = Starts(RgbHandlersOut)
    <2>1. SaverHeld \o tickMq \o <<mOldImage>> \in Seq(RgbHandlers)
      <3>1. \A s, t \in Seq(RgbHandlers) : s \o t \in Seq(RgbHandlers)
        BY Concatenation
      <3>2. SaverHeld \o tickMq \in Seq(RgbHandlers) /\ <<mOldImage>> \in Seq(RgbHandlers)
        BY <1>4, <3>1, RgbParts, SingletonSeq
      <3> QED
        BY <3>1, <3>2, Zenon
    <2>2. <<tickRgb>> \in Seq(RgbHandlers) /\ <<mOldImage'>> \in Seq(RgbHandlers)
      BY <1>1, SingletonSeq
    <2>3. Starts(<<tickRgb>>) = Starts(<<mOldImage'>>)
      BY <1>1, StartsSingle
    <2>4. \A h \in Seq(RgbHandlers) :
              Starts(SaverHeld \o tickMq \o <<mOldImage>> \o h)
                  = Starts(SaverHeld \o tickMq \o <<mOldImage>>) \o Starts(h)
      BY <2>1, StartsConcat, Zenon
    <2> QED
      BY <1>4, <2>2, <2>3, <2>4, Zenon
  <1>5. Starts(RgbHandlersOut') = Starts(RgbHandlersOut)
    BY <1>1, <1>3, <1>4
  <1> QED
    BY <1>1, <1>2, <1>5 DEF RgbPlaces

(* The saver gives the oldest buffer to the end of the pool. *)
LEMMA ReturnRing ==
    ASSUME TypeOK, HandlersHeld, HandlersBounded, Lifecycle, SaverReturn
    PROVE  Turned(RgbBuffers, RgbPlaces, RgbPlaces')
  <1>1. /\ saverRgb \in RgbHandlers
        /\ mAvailable' = Append(mAvailable, saverRgb.mStart)
        /\ \E rest \in Seq(RgbHandlers) :
               RgbHandlersOut = <<saverRgb>> \o rest /\ RgbHandlersOut' = rest
    BY ReturnHandlers
  <1>2. PICK rest \in Seq(RgbHandlers) :
            RgbHandlersOut = <<saverRgb>> \o rest /\ RgbHandlersOut' = rest
    BY <1>1
  <1>3. RgbPlaces' = Starts(rest) \o Append(mAvailable, saverRgb.mStart)
    BY <1>1, <1>2 DEF RgbPlaces, Starts
  <1>4. Starts(RgbHandlersOut) = <<saverRgb.mStart>> \o Starts(rest)
    <2>1. <<saverRgb>> \in Seq(RgbHandlers)
      BY <1>1, SingletonSeq
    <2> QED
      BY <1>2, <2>1, StartsConcat, StartsSingle
  <1>5. /\ saverRgb.mStart \in RgbBuffers
        /\ Starts(rest) \in Seq(RgbBuffers) /\ mAvailable \in Seq(RgbBuffers)
    BY <1>1, HandlersNotNull, StartsType DEF TypeOK
  <1>6. ASSUME NEW x \in RgbBuffers, NEW s \in Seq(RgbBuffers), NEW t \in Seq(RgbBuffers)
        PROVE  Turned(RgbBuffers, <<x>> \o s \o t, s \o Append(t, x))
    <2>1. <<x>> \in Seq(RgbBuffers) /\ s \o t \in Seq(RgbBuffers) /\ Append(t, x) = t \o <<x>>
      BY SingletonSeq, ConcatProperties, AppendIsConcat
    <2>2. <<x>> \o s \o t = <<x>> \o (s \o t) /\ s \o (t \o <<x>>) = (s \o t) \o <<x>>
      BY <2>1, ConcatAssociative
    <2> QED
      BY <2>1, <2>2 DEF Turned
  <1>7. Turned(RgbBuffers, <<saverRgb.mStart>> \o Starts(rest) \o mAvailable,
               Starts(rest) \o Append(mAvailable, saverRgb.mStart))
    BY <1>5, <1>6
  <1> QED
    BY <1>3, <1>4, <1>7 DEF RgbPlaces

(* The pictures behind the tick queue, as one sequence. *)
Behind == ResultHeld \o OldHeld \o NewHeld

(* They are the end of the row of handlers. *)
LEMMA BehindQueue ==
    ASSUME TypeOK
    PROVE  /\ Behind \in Seq(RgbHandlers)
           /\ RgbHandlersOut = SaverHeld \o tickMq \o Behind
           /\ SaverHeld \o <<>> \o ResultHeld \o OldHeld \o NewHeld = SaverHeld \o Behind
  <1>1. \A s, t \in Seq(RgbHandlers) : s \o t \in Seq(RgbHandlers)
    BY Concatenation
  <1>2. \A s, t, u \in Seq(RgbHandlers) : (s \o t) \o u = s \o (t \o u)
    BY Associative
  <1>3. ResultHeld \o OldHeld \in Seq(RgbHandlers) /\ SaverHeld \o tickMq \in Seq(RgbHandlers)
    BY <1>1, RgbParts, Zenon
  <1>4. Behind \in Seq(RgbHandlers)
    BY <1>1, <1>3, RgbParts, Zenon DEF Behind
  <1>5. ASSUME NEW s \in Seq(RgbHandlers)
        PROVE  s \o ResultHeld \o OldHeld \o NewHeld = s \o Behind
    <2>1. s \o ResultHeld \o OldHeld = s \o (ResultHeld \o OldHeld)
      BY <1>2, RgbParts, Zenon
    <2>2. s \o (ResultHeld \o OldHeld) \o NewHeld = s \o (ResultHeld \o OldHeld \o NewHeld)
      BY <1>2, <1>3, RgbParts, Zenon
    <2> QED
      BY <2>1, <2>2 DEF Behind
  <1>6. SaverHeld \o tickMq \o ResultHeld \o OldHeld \o NewHeld = SaverHeld \o tickMq \o Behind
    BY <1>3, <1>5, Zenon
  <1>7. SaverHeld \o <<>> = SaverHeld /\ SaverHeld \in Seq(RgbHandlers)
    BY RgbParts, ConcatEmptySeq
  <1> QED
    BY <1>4, <1>5, <1>6, <1>7, RgbParts

(* main throws the queue away at its end; what was in it is gone. *)
LEMMA ReturnOut ==
    ASSUME TypeOK, MainReturn
    PROVE  RgbHandlersOut' = SaverHeld \o Behind
  <1> USE DEF serviceVars, tickDetectorVars, handlerVars
  <1>1. tickMq' = <<>> /\ UNCHANGED <<pc, mOldImage, tickRgb, saverRgb>>
    BY DEF MainReturn
  <1>2. /\ SaverHeld' = SaverHeld /\ ResultHeld' = ResultHeld
        /\ OldHeld' = OldHeld /\ NewHeld' = NewHeld
    BY <1>1 DEF SaverHeld, ResultHeld, OldHeld, NewHeld, TickHasNew
  <1>3. RgbHandlersOut' = SaverHeld' \o tickMq' \o ResultHeld' \o OldHeld' \o NewHeld'
    BY DEF RgbHandlersOut, SaverHeld, ResultHeld, OldHeld, NewHeld
  <1> QED
    BY <1>1, <1>2, <1>3, BehindQueue

(* What main leaves over is still in one place. *)
LEMMA MainReturnRing ==
    ASSUME TypeOK, MainReturn, IsInjective(RgbPlaces)
    PROVE  IsInjective(RgbPlaces')
  <1> DEFINE s == Starts(SaverHeld)
             t == Starts(tickMq)
             u == Starts(Behind)
  <1>1. /\ s \in Seq(RgbBuffers) /\ t \in Seq(RgbBuffers) /\ u \in Seq(RgbBuffers)
        /\ mAvailable \in Seq(RgbBuffers)
    BY RgbParts, BehindQueue, StartsType
  <1>2. Starts(RgbHandlersOut) = s \o t \o u
    <2>1. \A a, b \in Seq(RgbHandlers) : Starts(a \o b) = Starts(a) \o Starts(b)
      BY StartsConcat
    <2>2. \A a, b \in Seq(RgbHandlers) : a \o b \in Seq(RgbHandlers)
      BY Concatenation
    <2>3. Starts(SaverHeld \o tickMq) = s \o t /\ SaverHeld \o tickMq \in Seq(RgbHandlers)
      BY <2>1, <2>2, RgbParts, Zenon
    <2>4. Starts(SaverHeld \o tickMq \o Behind) = Starts(SaverHeld \o tickMq) \o u
      BY <2>1, <2>3, BehindQueue, Zenon
    <2> QED
      BY <2>3, <2>4, BehindQueue, Zenon
  <1>3. RgbPlaces' = Starts(RgbHandlersOut') \o mAvailable'
    BY DEF RgbPlaces, Starts
  <1>4. mAvailable' = mAvailable
    BY DEF MainReturn, tickDetectorVars
  <1>5. Starts(SaverHeld \o Behind) = s \o u
    BY RgbParts, BehindQueue, StartsConcat
  <1>6. RgbPlaces' = s \o u \o mAvailable
    BY <1>3, <1>4, <1>5, ReturnOut
  <1>7. IsInjective(s \o t \o u \o mAvailable)
    BY <1>2 DEF RgbPlaces
  <1> HIDE DEF s, t, u
  <1>8. u \o mAvailable \in Seq(RgbBuffers) /\ s \o t \in Seq(RgbBuffers)
    BY <1>1, ConcatProperties
  <1>9. \A v \in Seq(RgbBuffers) : v \o u \o mAvailable = v \o (u \o mAvailable)
    <2>1. \A a, b, c \in Seq(RgbBuffers) : (a \o b) \o c = a \o (b \o c)
      BY Associative
    <2> QED
      BY <1>1, <2>1, Zenon
  <1>10. s \o t \o u \o mAvailable = s \o t \o (u \o mAvailable)
    BY <1>8, <1>9, Zenon
  <1>11. s \o u \o mAvailable = s \o (u \o mAvailable)
    BY <1>1, <1>9, Zenon
  <1>12. ASSUME NEW a \in Seq(RgbBuffers), NEW b \in Seq(RgbBuffers),
                NEW c \in Seq(RgbBuffers), IsInjective(a \o b \o c)
         PROVE  IsInjective(a \o c)
    BY <1>12, InjectiveWithout
  <1>13. IsInjective(s \o (u \o mAvailable))
    BY <1>1, <1>7, <1>8, <1>10, <1>12, Zenon
  <1> QED
    BY <1>6, <1>11, <1>13

(* At the start every RGB buffer is in the pool. *)
LEMMA UnlinkRing ==
    ASSUME IInv, MainUnlink
    PROVE  /\ RgbHandlersOut' = <<>> /\ mOldImage' = NullRgb
           /\ RgbPlaces' = [i \in RgbBuffers |-> i]
  <1> USE DEF tickDetectorVars, handlerVars
  <1>1. TypeOK /\ HandlersHeld /\ Lifecycle /\ HandlersBounded
    BY DEF IInv
  <1>2. /\ pc["main"] = "unlink" /\ tickMq' = <<>> /\ pc'["tick"] = pc["tick"]
        /\ UNCHANGED <<mAvailable, mOldImage, tickRgb, saverRgb>>
    BY <1>1, GotoType, PointsListed DEF MainUnlink, MainPoints
  <1>3. /\ pc["tick"] = "none" /\ pc["saver"] = "none" /\ tickRgb = NullRgb /\ saverRgb = NullRgb
        /\ mAvailable = [i \in RgbBuffers |-> i] /\ mOldImage = NullRgb
    BY <1>1, <1>2 DEF Lifecycle, HandlersHeld, HandlersBounded
  <1>4. RgbHandlersOut' = <<>> \o <<>> \o <<>> \o <<>> \o <<>>
    BY <1>2, <1>3 DEF RgbHandlersOut, TickHasNew, Held
  <1>5. RgbHandlersOut' = <<>>
    BY <1>4
  <1>6. RgbPlaces' = Starts(RgbHandlersOut') \o mAvailable'
    BY DEF RgbPlaces, Starts
  <1>7. Starts(<<>>) = <<>>
    BY DEF Starts
  <1>8. [i \in RgbBuffers |-> i] \in Seq(RgbBuffers)
    BY TickDetectorAssumption DEF TickDetectorAssumption, RgbBuffers
  <1>9. <<>> \o [i \in RgbBuffers |-> i] = [i \in RgbBuffers |-> i]
    BY <1>8, ConcatEmptySeq
  <1> QED
    BY <1>2, <1>3, <1>5, <1>6, <1>7, <1>9

(* The RGB buffers are partitioned among the pool, the old image, the        *)
(* threads and the tick queue, whatever fails.                               *)
THEOREM RgbInOnePlace == Spec => []RgbOwnedOnce
  <1>1. Init => RgbOwnedOnce
    BY DEF Init, ServiceInit, Threads, RgbOwnedOnce, Started
  <1>2. IInv /\ RgbOwnedOnce /\ [Next]_vars => RgbOwnedOnce'
    <2> SUFFICES ASSUME IInv, RgbOwnedOnce, [Next]_vars
                 PROVE  RgbOwnedOnce'
      OBVIOUS
    <2>1. TypeOK /\ HandlersHeld /\ Lifecycle /\ HandlersBounded
      BY DEF IInv
    <2>2. ASSUME Started' => Started, process' = "success" <=> process = "success",
                 RgbPlaces' = RgbPlaces \/ Turned(RgbBuffers, RgbPlaces, RgbPlaces')
          PROVE  RgbOwnedOnce'
      <3>1. CASE RgbPlaces' = RgbPlaces
        BY <2>2, <3>1 DEF RgbOwnedOnce
      <3>2. CASE Turned(RgbBuffers, RgbPlaces, RgbPlaces')
        <4>1. Started => IsInjective(RgbPlaces')
          BY <3>2, TurnInjective DEF RgbOwnedOnce
        <4>2. Len(RgbPlaces') = Len(RgbPlaces)
          BY <3>2, TurnLength
        <4> QED
          BY <2>2, <4>1, <4>2 DEF RgbOwnedOnce
      <3> QED
        BY <2>2, <3>1, <3>2
    <2>3. RgbQuiet => RgbPlaces' = RgbPlaces
      BY DEF RgbQuiet, RgbPlaces, Starts
    <2>4. ASSUME DriverCapture \/ CameraThread \/ TickThread \/ SaverThread, process = "running"
          PROVE  Started' = Started /\ process' # "success"
      <3>1. Started' = Started
        BY <2>1, <2>4, OthersLeaveMain DEF Started
      <3>2. process' \in {"running", "failure"}
        BY <2>4 DEF DriverCapture, CameraThread, CameraOpen, CameraCheckExit, CameraSelect,
             CameraReadFrame, CameraSend, CameraSleep, TickThread, TickOpenIn, TickOpenOut,
             TickCheckExit, TickReceive, TickAllocate, TickConvert, TickExecute, TickRequeue,
             TickSend, SaverThread, SaverOpen, SaverReceive, SaverSave, SaverReturn,
             ExitFailure
      <3> QED
        BY <3>1, <3>2
    <2>5. CASE Step(Main)
      <3>1. CASE MainUnlink
        <4>1. Len([i \in RgbBuffers |-> i]) = NumRgb
          BY TickDetectorAssumption DEF TickDetectorAssumption, RgbBuffers
        <4>2. IsInjective([i \in RgbBuffers |-> i])
          BY DEF IsInjective
        <4> QED
          BY <3>1, <4>1, <4>2, UnlinkRing DEF RgbOwnedOnce
      <3>2. CASE MainReturn
        <4>1. process' = "success" /\ Started' = Started
          BY <3>2 DEF MainReturn, Started, serviceVars
        <4> QED
          BY <2>1, <3>2, <4>1, MainReturnRing DEF RgbOwnedOnce
      <3>3. CASE ~MainUnlink /\ ~MainReturn
        <4>1. RgbQuiet
          BY <2>1, <2>5, <3>3, OtherHandlers DEF Step
        <4>2. process = "running" /\ process' \in {"running", "failure"}
          BY <2>5, <3>3 DEF Step, Main, MainStartCamera, MainStartService, MainShutdown,
                            MainStopCamera, ExitFailure
        <4>3. Started' => Started
          BY <2>5, <3>3 DEF Step, Main, MainStartCamera, MainStartService, MainShutdown,
             MainStopCamera, Started, Start, Goto, Join, FlagExit, ExitFailure, serviceVars
        <4> QED
          BY <2>2, <2>3, <4>1, <4>2, <4>3
      <3> QED
        BY <3>1, <3>2, <3>3
    <2>6. CASE Step(DriverCapture \/ CameraThread)
      <3>1. RgbQuiet
        BY <2>1, <2>6, OtherHandlers DEF Step
      <3> QED
        BY <2>2, <2>3, <2>4, <2>6, <3>1 DEF Step
    <2>7. CASE Step(TickThread)
      BY <2>1, <2>2, <2>3, <2>4, <2>7, TickHandlers, AllocateRing, ExecuteRing DEF Step
    <2>8. CASE Step(SaverThread)
      BY <2>1, <2>2, <2>3, <2>4, <2>8, SaverHandlers, ReturnRing DEF Step
    <2>9. CASE UNCHANGED vars
      BY <2>9 DEF vars, RgbOwnedOnce, RgbPlaces, RgbHandlersOut, TickHasNew, Started, Starts
    <2> QED
      BY <2>5, <2>6, <2>7, <2>8, <2>9 DEF Next, Step, Ended
  <1> QED
    BY <1>1, <1>2, Invariance, PTL DEF Spec

-----------------------------------------------------------------------------
(* Ticks *)

(* main goes on only after it has joined the saver. *)
SaverFirst ==
    pc["main"] \in {"flagCamera", "flagTick", "joinCamera", "joinTick", "stopCamera", "return"}
        => pc["saver"] = "exited"

(* No step breaks it. *)
LEMMA SaverFirstStep ==
    ASSUME IInv, SaverFirst, [Next]_vars
    PROVE  SaverFirst'
  <1> USE DEF serviceVars
  <1>1. TypeOK /\ Lifecycle
    BY DEF IInv
  <1>2. CASE UNCHANGED pc
    BY <1>2 DEF SaverFirst
  <1>3. CASE ExitFailure
    BY <1>2, <1>3 DEF ExitFailure
  <1>4. CASE DriverCapture \/ CameraThread \/ TickThread \/ SaverThread
    <2>1. pc'["main"] = pc["main"]
      BY <1>1, <1>4, OthersLeaveMain
    <2>2. CASE ~SaverThread
      <3>1. pc'["saver"] = pc["saver"]
        BY <1>1, <1>4, <2>2, OthersLeaveSaver
      <3> QED
        BY <2>1, <3>1 DEF SaverFirst
    <2>3. CASE SaverThread /\ ~ExitFailure
      <3>1. pc["saver"] # "exited"
        BY <2>3 DEF SaverThread, SaverOpen, SaverReceive, SaverSave, SaverReturn, Goto
      <3> QED
        BY <2>1, <3>1 DEF SaverFirst
    <2> QED
      BY <1>3, <2>2, <2>3
  <1>5. CASE Main /\ ~ExitFailure
    <2>1. CASE MainUnlink \/ MainStartCamera \/ MainReturn
      BY <1>1, <1>5, <2>1, GotoType, PointsListed
         DEF MainUnlink, MainStartCamera, MainReturn, MainPoints, SaverFirst
    <2>2. CASE MainStartService
      BY <1>1, <1>5, <2>2, StartType, PointsListed DEF MainStartService, MainPoints, SaverFirst
    <2>3. CASE MainShutdown
      <3>1. pc'["saver"] = pc["saver"]
        BY <1>1, <2>3, GotoType, PointsListed DEF MainShutdown, Join, FlagExit, MainPoints
      <3>2. \/ pc["main"] = "joinSaver" /\ pc["saver"] = "exited"
            \/ pc["main"] \in {"flagCamera", "flagTick", "joinCamera", "joinTick"}
        BY <2>3 DEF MainShutdown, Join, FlagExit, Goto
      <3> QED
        BY <3>1, <3>2 DEF SaverFirst
    <2>4. CASE MainStopCamera
      BY <1>1, <1>5, <2>4, GotoType, PointsListed
         DEF MainStopCamera, MainPoints, SaverFirst
    <2> QED
      BY <1>5, <2>1, <2>2, <2>3, <2>4 DEF Main
  <1> QED
    BY <1>2, <1>3, <1>4, <1>5 DEF Next, Step, Ended, vars

(* A picture is flagged by execute, never when it is taken from the pool. *)
FreshUnticked == TickHasNew => tickRgb.mIsTick = FALSE

(* No step breaks it. *)
LEMMA FreshStep ==
    ASSUME IInv, FreshUnticked, [Next]_vars
    PROVE  FreshUnticked'
  <1> USE DEF cameraVars, serviceVars, tickDetectorVars, queueVars, handlerVars
  <1>1. TypeOK /\ HandlersHeld /\ Lifecycle
    BY DEF IInv
  <1>2. CASE UNCHANGED tickRgb /\ (TickHasNew' => TickHasNew)
    BY <1>2 DEF FreshUnticked
  <1>3. CASE ExitFailure
    BY <1>2, <1>3 DEF ExitFailure, TickHasNew
  <1>4. CASE TickThread /\ ~ExitFailure
    <2>1. CASE TickAllocate
      BY <1>1, <1>4, <2>1, AllocateHandlers DEF FreshUnticked
    <2>2. CASE TickConvert
      <3>1. UNCHANGED tickRgb /\ TickHasNew
        BY <2>2 DEF TickConvert, Goto, TickHasNew
      <3> QED
        BY <1>2, <3>1
    <2>3. CASE TickOpenIn \/ TickOpenOut \/ TickCheckExit \/ TickReceive \/ TickExecute
                  \/ TickRequeue \/ TickSend
      <3>1. pc'["tick"] \notin {"convert", "execute"}
        BY <1>1, <1>4, <2>3, ServiceGoto, DoExitType, PointsListed
           DEF TickOpenIn, TickOpenOut, TickCheckExit, TickReceive, TickExecute, TickRequeue,
               TickSend, TickPoints
      <3> QED
        BY <3>1 DEF FreshUnticked, TickHasNew
    <2> QED
      BY <1>4, <2>1, <2>2, <2>3 DEF TickThread
  <1>5. CASE (DriverCapture \/ CameraThread \/ SaverThread \/ Main) /\ ~ExitFailure
    <2>1. UNCHANGED tickRgb
      BY <1>5 DEF DriverCapture, CameraThread, CameraOpen, CameraCheckExit,
                  CameraSelect, CameraReadFrame, CameraSend, CameraSleep, SaverThread,
                  SaverOpen, SaverReceive, SaverSave, SaverReturn, Main, MainUnlink,
                  MainStartCamera, MainStartService, MainShutdown, MainStopCamera, MainReturn
    <2>2. pc'["tick"] = pc["tick"] \/ pc'["tick"] = "open"
      BY <1>1, <1>5, OthersLeaveTick
    <2> QED
      BY <1>2, <2>1, <2>2 DEF TickHasNew
  <1> QED
    BY <1>2, <1>3, <1>4, <1>5 DEF Next, Step, Ended, vars, TickHasNew

(* No two neighbours are ticks. *)
Separated(s) == \A i \in 1 .. Len(s) - 1 : ~(s[i].mIsTick /\ s[i + 1].mIsTick)

(* Nor in a part of the sequence. *)
LEMMA SeparatedParts ==
    ASSUME NEW s \in Seq(RgbHandlers), NEW t \in Seq(RgbHandlers), Separated(s \o t)
    PROVE  Separated(s) /\ Separated(t)
  <1>1. /\ Len(s) \in Nat /\ Len(t) \in Nat /\ Len(s \o t) = Len(s) + Len(t)
        /\ \A i \in 1 .. Len(s) : (s \o t)[i] = s[i]
        /\ \A i \in 1 .. Len(t) : (s \o t)[Len(s) + i] = t[i]
    BY ConcatProperties, LenProperties
  <1>2. Separated(s)
    BY <1>1 DEF Separated
  <1>3. ASSUME NEW i \in 1 .. Len(t) - 1
        PROVE  ~(t[i].mIsTick /\ t[i + 1].mIsTick)
    <2>1. /\ Len(s) + i \in 1 .. Len(s \o t) - 1
          /\ (s \o t)[Len(s) + i] = t[i]
          /\ (s \o t)[Len(s) + i + 1] = t[i + 1]
      BY <1>1
    <2> QED
      BY <2>1 DEF Separated
  <1> QED
    BY <1>2, <1>3 DEF Separated

(* Nor in a sequence that gains one which is no tick, or has none before it. *)
LEMMA SeparatedAppend ==
    ASSUME NEW s \in Seq(RgbHandlers), NEW x \in RgbHandlers, Separated(s),
           s # <<>> => ~(s[Len(s)].mIsTick /\ x.mIsTick)
    PROVE  Separated(s \o <<x>>)
  <1>1. /\ Len(s) \in Nat /\ Len(s \o <<x>>) = Len(s) + 1
        /\ \A i \in 1 .. Len(s) : (s \o <<x>>)[i] = s[i]
        /\ (s \o <<x>>)[Len(s) + 1] = x
    OBVIOUS
  <1> SUFFICES ASSUME NEW i \in 1 .. Len(s)
               PROVE  ~((s \o <<x>>)[i].mIsTick /\ (s \o <<x>>)[i + 1].mIsTick)
    BY <1>1 DEF Separated
  <1>2. CASE i = Len(s)
    BY <1>1, <1>2
  <1>3. CASE i # Len(s)
    <2>1. i \in 1 .. Len(s) - 1 /\ (s \o <<x>>)[i] = s[i] /\ (s \o <<x>>)[i + 1] = s[i + 1]
      BY <1>1, <1>3
    <2> QED
      BY <2>1 DEF Separated
  <1> QED
    BY <1>2, <1>3

(* What is behind the old image's verdict: see TicksSeparated. *)
TicksApart == Separated(RgbHandlersOut) /\ (mOldImage.mIsTick => mState = "Still")

(* The detector flags a picture only when its state turns to Still. *)
LEMMA TickThreadTicks ==
    ASSUME TypeOK, HandlersHeld, FreshUnticked, TicksApart, TickThread
    PROVE  TicksApart'
  <1>1. CASE RgbQuiet
    BY <1>1 DEF RgbQuiet, TicksApart, Separated
  <1>2. CASE TickAllocate /\ ~ExitFailure
    <2>1. /\ tickRgb' \in RgbHandlers /\ tickRgb'.mIsTick = FALSE
          /\ RgbHandlersOut' = RgbHandlersOut \o <<tickRgb'>>
          /\ UNCHANGED <<mOldImage, mState>>
      BY <1>2, AllocateHandlers
    <2>2. RgbHandlersOut \in Seq(RgbHandlers) /\ Separated(RgbHandlersOut)
      BY RgbParts DEF TicksApart
    <2>3. Separated(RgbHandlersOut \o <<tickRgb'>>)
      BY <2>1, <2>2, SeparatedAppend
    <2> QED
      BY <2>1, <2>3 DEF TicksApart, Separated
  <1>3. CASE TickExecute /\ ~ExitFailure
    <2>1. /\ pc["tick"] = "execute" /\ tickRgb \in RgbHandlers /\ mOldImage' \in RgbHandlers
          /\ \/ /\ mOldImage' = tickRgb /\ UNCHANGED mState
                /\ RgbHandlersOut' = RgbHandlersOut
             \/ /\ mOldImage \in RgbHandlers
                /\ mOldImage'.mIsTick => mState = "Moving" /\ mState' = "Still"
                /\ RgbHandlersOut = SaverHeld \o tickMq \o <<mOldImage>> \o <<tickRgb>>
                /\ RgbHandlersOut' = SaverHeld \o tickMq \o <<mOldImage>> \o <<mOldImage'>>
      BY <1>3, ExecuteHandlers
    <2>2. CASE mOldImage' = tickRgb /\ UNCHANGED mState /\ RgbHandlersOut' = RgbHandlersOut
      <3>1. tickRgb.mIsTick = FALSE
        BY <2>1 DEF FreshUnticked, TickHasNew
      <3> QED
        BY <2>2, <3>1 DEF TicksApart, Separated
    <2>3. ASSUME mOldImage \in RgbHandlers,
                 mOldImage'.mIsTick => mState = "Moving" /\ mState' = "Still",
                 RgbHandlersOut = SaverHeld \o tickMq \o <<mOldImage>> \o <<tickRgb>>,
                 RgbHandlersOut' = SaverHeld \o tickMq \o <<mOldImage>> \o <<mOldImage'>>
          PROVE  TicksApart'
      <3> DEFINE s == SaverHeld \o tickMq \o <<mOldImage>>
      <3>1. s \in Seq(RgbHandlers) /\ s # <<>> /\ s[Len(s)] = mOldImage
        <4>1. SaverHeld \o tickMq \in Seq(RgbHandlers)
          BY RgbParts, ConcatProperties
        <4>2. ASSUME NEW t \in Seq(RgbHandlers)
              PROVE  /\ t \o <<mOldImage>> \in Seq(RgbHandlers) /\ t \o <<mOldImage>> # <<>>
                     /\ (t \o <<mOldImage>>)[Len(t \o <<mOldImage>>)] = mOldImage
          BY <2>3
        <4> QED
          BY <4>1, <4>2, Zenon
      <3>2. <<tickRgb>> \in Seq(RgbHandlers) /\ Separated(s \o <<tickRgb>>)
        BY <2>1, <2>3, SingletonSeq DEF TicksApart
      <3> HIDE DEF s
      <3>3. Separated(s)
        BY <3>1, <3>2, SeparatedParts
      <3>4. ~(mOldImage.mIsTick /\ mOldImage'.mIsTick)
        BY <2>3 DEF TicksApart
      <3>5. Separated(s \o <<mOldImage'>>)
        BY <2>1, <3>1, <3>3, <3>4, SeparatedAppend
      <3>6. RgbHandlersOut' = s \o <<mOldImage'>>
        BY <2>3 DEF s
      <3>7. Separated(RgbHandlersOut')
        BY <3>5, <3>6
      <3>8. mOldImage'.mIsTick => mState' = "Still"
        BY <2>3, Zenon
      <3> QED
        BY <3>7, <3>8 DEF TicksApart, Separated
    <2> QED
      BY <2>1, <2>2, <2>3
  <1> QED
    BY <1>1, <1>2, <1>3, TickHandlers

(* One movement of the hand never gives two ticks in a row, wherever the     *)
(* pictures are on their way to the saver, and whatever fails.               *)
THEOREM TicksAreSeparated == Spec => []TicksSeparated
  <1> DEFINE Inv == SaverFirst /\ FreshUnticked /\ TicksSeparated
  <1>1. Init => Inv
    <2> SUFFICES ASSUME Init
                 PROVE  Inv
      OBVIOUS
    <2>1. pc["main"] = "unlink" /\ pc["tick"] = "none"
      BY DEF Init, ServiceInit, Threads, Services
    <2>2. SaverFirst
      BY <2>1 DEF SaverFirst
    <2>3. FreshUnticked
      BY <2>1 DEF FreshUnticked, TickHasNew
    <2>4. TicksSeparated
      BY <2>1 DEF TicksSeparated, Started
    <2> QED
      BY <2>2, <2>3, <2>4
  <1>2. IInv /\ Inv /\ [Next]_vars => Inv'
    <2> SUFFICES ASSUME IInv, Inv, [Next]_vars
                 PROVE  TicksSeparated'
      BY SaverFirstStep, FreshStep
    <2>1. TypeOK /\ HandlersHeld /\ Lifecycle /\ HandlersBounded
      BY DEF IInv
    <2>2. ASSUME Started
          PROVE  TicksApart
      BY <2>2 DEF TicksSeparated, TicksApart, Separated
    <2>3. (Started' => TicksApart') => TicksSeparated'
      BY DEF TicksSeparated, TicksApart, Separated
    <2>4. CASE RgbQuiet /\ (Started' => Started)
      BY <2>2, <2>3, <2>4 DEF RgbQuiet, TicksApart, Separated
    <2>5. ASSUME DriverCapture \/ CameraThread \/ TickThread \/ SaverThread
          PROVE  Started' = Started
      BY <2>1, <2>5, OthersLeaveMain DEF Started
    <2>6. CASE Main
      <3>1. CASE MainUnlink
        <4>1. RgbHandlersOut' = <<>> /\ mOldImage' = NullRgb
          BY <3>1, UnlinkRing
        <4> QED
          BY <2>3, <4>1 DEF TicksApart, Separated, NullRgb
      <3>2. CASE MainReturn
        <4>1. /\ pc["saver"] = "exited" /\ Started
              /\ UNCHANGED <<mOldImage, mState>>
          BY <3>2 DEF MainReturn, SaverFirst, Started, tickDetectorVars
        <4>2. SaverHeld = <<>>
          BY <2>1, <4>1 DEF SaverHeld, Held, HandlersHeld
        <4>3. Behind \in Seq(RgbHandlers) /\ RgbHandlersOut = tickMq \o Behind
              /\ RgbHandlersOut' = Behind
          <5>1. <<>> \o tickMq = tickMq /\ <<>> \o Behind = Behind /\ Behind \in Seq(RgbHandlers)
            BY <2>1, RgbParts, BehindQueue, ConcatEmptySeq
          <5> QED
            BY <2>1, <3>2, <4>2, <5>1, BehindQueue, ReturnOut
        <4>4. Separated(tickMq \o Behind) /\ (mOldImage.mIsTick => mState = "Still")
          BY <2>2, <4>1, <4>3 DEF TicksApart
        <4>5. Separated(Behind)
          BY <2>1, <4>3, <4>4, RgbParts, SeparatedParts
        <4> QED
          BY <2>3, <4>1, <4>3, <4>4, <4>5 DEF TicksApart, Separated
      <3>3. CASE ~MainUnlink /\ ~MainReturn
        <4>1. RgbQuiet
          BY <2>1, <2>6, <3>3, OtherHandlers
        <4>2. Started' => Started
          BY <2>6, <3>3 DEF Main, MainStartCamera, MainStartService, MainShutdown,
             MainStopCamera, Started, Start, Goto, Join, FlagExit, ExitFailure, serviceVars
        <4> QED
          BY <2>4, <4>1, <4>2
      <3> QED
        BY <3>1, <3>2, <3>3
    <2>7. CASE DriverCapture \/ CameraThread
      BY <2>1, <2>4, <2>5, <2>7, OtherHandlers
    <2>8. CASE TickThread
      BY <2>1, <2>2, <2>3, <2>5, <2>8, TickThreadTicks
    <2>9. CASE SaverThread
      <3>1. CASE SaverReturn
        <4>1. /\ UNCHANGED <<mOldImage, mState>> /\ saverRgb \in RgbHandlers
              /\ \E rest \in Seq(RgbHandlers) :
                     RgbHandlersOut = <<saverRgb>> \o rest /\ RgbHandlersOut' = rest
          BY <2>1, <3>1, ReturnHandlers
        <4>2. PICK rest \in Seq(RgbHandlers) :
                  RgbHandlersOut = <<saverRgb>> \o rest /\ RgbHandlersOut' = rest
          BY <4>1
        <4>3. <<saverRgb>> \in Seq(RgbHandlers)
          BY <4>1, SingletonSeq
        <4>4. ASSUME Started
              PROVE  Separated(rest) /\ (mOldImage.mIsTick => mState = "Still")
          BY <2>2, <4>2, <4>3, <4>4, SeparatedParts DEF TicksApart
        <4> QED
          BY <2>3, <2>5, <2>9, <4>1, <4>2, <4>4 DEF TicksApart, Separated
      <3> QED
        BY <2>1, <2>4, <2>5, <2>9, <3>1, SaverHandlers
    <2>10. CASE UNCHANGED vars
      <3>1. RgbQuiet /\ Started' = Started
        BY <2>10 DEF vars, RgbQuiet, RgbHandlersOut, TickHasNew, Started
      <3> QED
        BY <2>4, <3>1
    <2> QED
      BY <2>6, <2>7, <2>8, <2>9, <2>10 DEF Next, Step, Ended
  <1> QED
    BY <1>1, <1>2, Invariance, PTL DEF Spec

-----------------------------------------------------------------------------
(* The pictures under way *)

(* What is appended to, or put before, two sequences can be taken off again. *)
LEMMA CancelEnd ==
    ASSUME NEW S, NEW s \in Seq(S), NEW t \in Seq(S), NEW u \in Seq(S), s \o u = t \o u
    PROVE  s = t
  <1>1. /\ Len(s) \in Nat /\ Len(t) \in Nat /\ Len(u) \in Nat
        /\ Len(s \o u) = Len(s) + Len(u) /\ Len(t \o u) = Len(t) + Len(u)
        /\ \A i \in 1 .. Len(s) : (s \o u)[i] = s[i]
        /\ \A i \in 1 .. Len(t) : (t \o u)[i] = t[i]
    BY ConcatProperties, LenProperties
  <1>2. Len(s) = Len(t) /\ \A i \in 1 .. Len(s) : s[i] = t[i]
    BY <1>1
  <1> QED
    BY <1>2, SeqEqual

(* The same at the beginning. *)
LEMMA CancelStart ==
    ASSUME NEW S, NEW s \in Seq(S), NEW t \in Seq(S), NEW u \in Seq(S), u \o s = u \o t
    PROVE  s = t
  <1>1. /\ Len(s) \in Nat /\ Len(t) \in Nat /\ Len(u) \in Nat
        /\ Len(u \o s) = Len(u) + Len(s) /\ Len(u \o t) = Len(u) + Len(t)
        /\ \A i \in 1 .. Len(s) : (u \o s)[Len(u) + i] = s[i]
        /\ \A i \in 1 .. Len(t) : (u \o t)[Len(u) + i] = t[i]
    BY ConcatProperties, LenProperties
  <1>2. Len(s) = Len(t)
    BY <1>1
  <1>3. \A i \in 1 .. Len(s) : s[i] = t[i]
    BY <1>1, <1>2
  <1> QED
    BY <1>2, <1>3, SeqEqual

(* A picture written to a buffer that is in no place before: the others are  *)
(* seen as they were, and it is seen last.                                   *)
SeenLast(f, s, x, v) == Mapped([f EXCEPT ![x] = v], s \o <<x>>) = Mapped(f, s) \o <<v>>

(* It is so for a buffer that the sequence does not hold yet. *)
LEMMA WrittenLast ==
    ASSUME NEW S, NEW T, NEW f \in [S -> T], NEW s \in Seq(S), NEW x \in S, NEW v,
           IsInjective(s \o <<x>>)
    PROVE  SeenLast(f, s, x, v)
  <1> DEFINE g == [f EXCEPT ![x] = v]
  <1>1. <<x>> \in Seq(S) /\ Len(<<x>>) = 1 /\ <<x>>[1] = x
    BY SingletonSeq
  <1>2. \A i \in 1 .. Len(s), j \in 1 .. Len(<<x>>) : s[i] # <<x>>[j]
    BY <1>1, InjectiveParts
  <1>3. \A i \in 1 .. Len(s) : s[i] \in S /\ s[i] # x
    BY <1>1, <1>2, ElementOfSeq
  <1>4. DOMAIN s = 1 .. Len(s)
    BY LenProperties
  <1>5. Mapped(g, s) = Mapped(f, s)
    BY <1>3, <1>4 DEF Mapped
  <1>6. Mapped(g, <<x>>) = <<g[x]>>
    BY MappedSingle
  <1>7. g[x] = v
    OBVIOUS
  <1>8. Mapped(g, s \o <<x>>) = Mapped(g, s) \o Mapped(g, <<x>>)
    <2> HIDE DEF g
    <2> QED
      BY <1>1, MappedConcat
  <1> QED
    BY <1>5, <1>6, <1>7, <1>8 DEF SeenLast

(* The pictures are read through the buffers of the two paths.               *)
RgbSeen == Mapped(rgbImage, Starts(RgbPath))
YuyvSeen == Mapped(yuyv, YuyvPath)

(* The flow of the job, before and after a step. *)
LEMMA WhatIsSeen ==
    /\ InFlight = IF Started /\ process # "success" THEN RgbSeen \o YuyvSeen ELSE <<>>
    /\ InFlight' = IF Started' /\ process' # "success" THEN RgbSeen' \o YuyvSeen' ELSE <<>>
  <1>1. RgbPictures(RgbPath) = RgbSeen /\ YuyvPictures(YuyvPath) = YuyvSeen
    BY DEF RgbPictures, RgbSeen, YuyvPictures, YuyvSeen, Mapped, Starts
  <1>2. RgbPictures(RgbPath)' = RgbSeen' /\ YuyvPictures(YuyvPath)' = YuyvSeen'
    BY DEF RgbPictures, RgbSeen, YuyvPictures, YuyvSeen, Mapped, Starts
  <1> QED
    BY <1>1, <1>2 DEF InFlight

(* The path of the converted pictures is the handlers outside the pool, but  *)
(* for the one that colorConvert is about to write to.                       *)
RgbShape ==
    /\ RgbPath \in Seq(RgbHandlers)
    /\ pc["tick"] # "convert" => RgbPath = RgbHandlersOut
    /\ pc["tick"] = "convert" =>
           tickRgb \in RgbHandlers /\ RgbHandlersOut = RgbPath \o <<tickRgb>>

(* It is so in every state of the right type.                                *)
LEMMA RgbShaped == TypeOK /\ HandlersHeld => RgbShape
  <1> SUFFICES ASSUME TypeOK, HandlersHeld
               PROVE  RgbShape
    OBVIOUS
  <1>1. CASE pc["tick"] # "convert"
    <2>1. RgbPath = RgbHandlersOut
      <3>1. (IF pc["tick"] = "execute" THEN <<tickRgb>> ELSE <<>>) = NewHeld
        BY <1>1 DEF NewHeld, TickHasNew, Held, HandlersHeld
      <3> QED
        BY <3>1, RgbParts DEF RgbPath, SaverHeld, ResultHeld, OldHeld
    <2> QED
      BY <1>1, <2>1, RgbParts DEF RgbShape
  <1>2. CASE pc["tick"] = "convert"
    <2>1. /\ tickRgb \in RgbHandlers /\ <<tickRgb>> \in Seq(RgbHandlers)
          /\ NewHeld = <<tickRgb>> /\ ResultHeld = <<>>
      <3>1. tickRgb \in RgbHandlers /\ tickRgb # NullRgb
        BY <1>2 DEF TypeOK, HandlersHeld
      <3> QED
        BY <1>2, <3>1, SingletonSeq DEF NewHeld, ResultHeld, TickHasNew, Held
    <2>2. SaverHeld \o tickMq \o ResultHeld \o OldHeld \in Seq(RgbHandlers)
      BY RgbParts, ConcatProperties
    <2>3. RgbPath = SaverHeld \o tickMq \o ResultHeld \o OldHeld \o <<>>
      BY <1>2 DEF RgbPath, SaverHeld, ResultHeld, OldHeld
    <2>4. RgbPath = SaverHeld \o tickMq \o ResultHeld \o OldHeld
      BY <2>2, <2>3, ConcatEmptySeq
    <2>5. RgbHandlersOut = RgbPath \o <<tickRgb>>
      BY <2>1, <2>4, RgbParts
    <2> QED
      BY <1>2, <2>1, <2>2, <2>4, <2>5 DEF RgbShape
  <1> QED
    BY <1>1, <1>2

(* The path of the unconverted ones is the ring of the camera buffers        *)
(* without what is queued and without a buffer that was converted.           *)
YuyvShape ==
    /\ YuyvPath \in Seq(Buffers) /\ queued \in Seq(Buffers)
    /\ Unconverted \/ tickBuffer = NoBuffer => BufferPlaces = YuyvPath \o queued
    /\ ~Unconverted /\ tickBuffer # NoBuffer =>
           tickBuffer \in Buffers /\ BufferPlaces = <<tickBuffer>> \o (YuyvPath \o queued)

(* It is so in every state of the right type.                                *)
LEMMA YuyvShaped == TypeOK /\ HandlersHeld => YuyvShape
  <1> SUFFICES ASSUME TypeOK, HandlersHeld
               PROVE  YuyvShape
    OBVIOUS
  <1>1. /\ TickHeld \in Seq(Buffers) /\ cameraMq \in Seq(Buffers)
        /\ CameraHeld \in Seq(Buffers) /\ filled \in Seq(Buffers) /\ queued \in Seq(Buffers)
        /\ BufferPlaces = TickHeld \o cameraMq \o CameraHeld \o filled \o queued
    BY BufferParts
  <1>2. CASE Unconverted \/ tickBuffer = NoBuffer
    <2>1. YuyvPath = TickHeld \o cameraMq \o CameraHeld \o filled
      <3>1. (IF Unconverted THEN <<tickBuffer>> ELSE <<>>) = TickHeld
        BY <1>2 DEF Unconverted, TickHeld, Held, HandlersHeld, TickWorking
      <3> QED
        BY <3>1 DEF YuyvPath
    <2>2. YuyvPath \in Seq(Buffers)
      BY <1>1, <2>1, ConcatProperties
    <2> QED
      BY <1>1, <1>2, <2>1, <2>2 DEF YuyvShape
  <1>3. CASE ~Unconverted /\ tickBuffer # NoBuffer
    <2>1. TickHeld = <<tickBuffer>> /\ tickBuffer \in Buffers
      BY <1>3 DEF TickHeld, Held, TypeOK
    <2>2. YuyvPath = <<>> \o cameraMq \o CameraHeld \o filled
      BY <1>3 DEF YuyvPath
    <2>3. Before(Buffers, tickBuffer, <<tickBuffer>> \o cameraMq \o CameraHeld \o filled \o queued,
                 <<>> \o cameraMq \o CameraHeld \o filled \o queued)
      BY <1>1, <2>1, RingHead
    <2>4. YuyvPath \in Seq(Buffers)
      BY <1>1, <2>2, ConcatProperties
    <2>5. BufferPlaces = <<tickBuffer>> \o (YuyvPath \o queued)
      BY <1>1, <2>1, <2>2, <2>3 DEF Before
    <2> QED
      BY <1>1, <1>3, <2>1, <2>4, <2>5 DEF YuyvShape
  <1> QED
    BY <1>2, <1>3

(* And after a step.                                                         *)
LEMMA NextShapes == TypeOK' /\ HandlersHeld' => RgbShape' /\ YuyvShape'
  BY RgbShaped, YuyvShaped, PTL

(* As long as the handlers and the detector's thread stay, so does the path. *)
LEMMA RgbPathStays ==
    ASSUME TypeOK, HandlersHeld, TypeOK', HandlersHeld', RgbHandlersOut' = RgbHandlersOut,
           \/ pc["tick"] # "convert" /\ pc'["tick"] # "convert"
           \/ pc'["tick"] = pc["tick"] /\ UNCHANGED tickRgb
    PROVE  RgbPath' = RgbPath
  <1>1. /\ RgbPath \in Seq(RgbHandlers)
        /\ pc["tick"] # "convert" => RgbPath = RgbHandlersOut
        /\ pc["tick"] = "convert" =>
               tickRgb \in RgbHandlers /\ RgbHandlersOut = RgbPath \o <<tickRgb>>
    BY RgbShaped DEF RgbShape
  <1>2. /\ RgbPath' \in Seq(RgbHandlers)
        /\ pc'["tick"] # "convert" => RgbPath' = RgbHandlersOut'
        /\ pc'["tick"] = "convert" =>
               tickRgb' \in RgbHandlers /\ RgbHandlersOut' = RgbPath' \o <<tickRgb'>>
    BY NextShapes DEF RgbShape
  <1>3. CASE pc["tick"] # "convert"
    BY <1>1, <1>2, <1>3
  <1>4. CASE pc["tick"] = "convert"
    <2>1. RgbPath' \o <<tickRgb>> = RgbPath \o <<tickRgb>> /\ <<tickRgb>> \in Seq(RgbHandlers)
      BY <1>1, <1>2, <1>4, SingletonSeq
    <2> QED
      BY <1>1, <1>2, <2>1, CancelEnd
  <1> QED
    BY <1>3, <1>4

(* The same for the camera buffers.                                          *)
LEMMA YuyvPathStays ==
    ASSUME TypeOK, HandlersHeld, TypeOK', HandlersHeld', BufferPlaces' = BufferPlaces,
           UNCHANGED <<queued, tickBuffer>>, Unconverted' <=> Unconverted
    PROVE  YuyvPath' = YuyvPath
  <1>1. /\ YuyvPath \in Seq(Buffers) /\ queued \in Seq(Buffers)
        /\ Unconverted \/ tickBuffer = NoBuffer => BufferPlaces = YuyvPath \o queued
        /\ ~Unconverted /\ tickBuffer # NoBuffer =>
               tickBuffer \in Buffers
               /\ BufferPlaces = <<tickBuffer>> \o (YuyvPath \o queued)
    BY YuyvShaped DEF YuyvShape
  <1>2. /\ YuyvPath' \in Seq(Buffers)
        /\ Unconverted \/ tickBuffer = NoBuffer => BufferPlaces = YuyvPath' \o queued
        /\ ~Unconverted /\ tickBuffer # NoBuffer =>
               BufferPlaces = <<tickBuffer>> \o (YuyvPath' \o queued)
    BY NextShapes DEF YuyvShape
  <1>3. YuyvPath \o queued = YuyvPath' \o queued
    <2>1. CASE Unconverted \/ tickBuffer = NoBuffer
      BY <1>1, <1>2, <2>1
    <2>2. CASE ~Unconverted /\ tickBuffer # NoBuffer
      <3>1. /\ YuyvPath \o queued \in Seq(Buffers) /\ YuyvPath' \o queued \in Seq(Buffers)
            /\ <<tickBuffer>> \in Seq(Buffers)
        BY <1>1, <1>2, <2>2, SingletonSeq, ConcatProperties
      <3>2. <<tickBuffer>> \o (YuyvPath \o queued) = <<tickBuffer>> \o (YuyvPath' \o queued)
        BY <1>1, <1>2, <2>2
      <3> QED
        BY <3>1, <3>2, CancelStart
    <2> QED
      BY <2>1, <2>2
  <1> QED
    BY <1>1, <1>2, <1>3, CancelEnd

(* One step of the abstract job, or none.                                    *)
JobStep == [Job!Next]_(Job!vars)

(* The job does not see a step that leaves the paths and the pictures alone. *)
Unseen ==
    /\ UNCHANGED <<RgbPath, YuyvPath, rgbImage, yuyv>>
    /\ UNCHANGED <<stamp, streaming, saved, saverRc, process>>
    /\ Started' <=> Started

(* Such a step is a stutter of the job.                                      *)
LEMMA UnseenStutters ==
    ASSUME Unseen
    PROVE  JobStep
  <1>1. RgbSeen' = RgbSeen /\ YuyvSeen' = YuyvSeen
    BY DEF Unseen, RgbSeen, YuyvSeen, Mapped, Starts
  <1>2. InFlight' = InFlight
    BY <1>1, WhatIsSeen DEF Unseen
  <1> QED
    BY <1>2 DEF Unseen, JobStep, Job!vars

(* The end of the process is the failure of the job.                         *)
LEMMA ExitFails ==
    ASSUME process = "running", ExitFailure
    PROVE  JobStep
  <1>1. /\ UNCHANGED <<pc, streaming, filled, yuyv, stamp, mOldImage, rgbImage, cameraMq,
                       tickMq, cameraBuffer, tickBuffer, tickRgb, saverRgb, saverRc, saved>>
        /\ process' = "failure"
    BY DEF ExitFailure, serviceVars, cameraVars, tickDetectorVars, queueVars, handlerVars
  <1>2. RgbPath' = RgbPath /\ YuyvPath' = YuyvPath
    BY <1>1 DEF RgbPath, YuyvPath, Unconverted, CameraHeld, TickHasNew
  <1>3. RgbSeen' = RgbSeen /\ YuyvSeen' = YuyvSeen /\ (Started' <=> Started)
    BY <1>1, <1>2 DEF RgbSeen, YuyvSeen, Mapped, Starts, Started
  <1>4. InFlight' = InFlight
    BY <1>1, <1>3, WhatIsSeen
  <1> QED
    BY <1>1, <1>4 DEF JobStep, Job!Next, Job!Fail


(* The picture that is taken from the front of a queue.                      *)
LEMMA TailOfConcat ==
    ASSUME NEW S, NEW x \in S, NEW t \in Seq(S)
    PROVE  <<x>> \o t # <<>> /\ Tail(<<x>> \o t) = t
  <1>1. <<x>> \in Seq(S) /\ Len(<<x>>) = 1 /\ <<x>>[1] = x
    BY SingletonSeq
  <1>2. /\ <<x>> \o t \in Seq(S) /\ Len(<<x>> \o t) = 1 + Len(t) /\ Len(t) \in Nat
        /\ \A i \in 1 .. Len(t) : (<<x>> \o t)[1 + i] = t[i]
    BY <1>1, ConcatProperties, LenProperties
  <1>3. <<x>> \o t # <<>>
    BY <1>2
  <1>4. /\ Tail(<<x>> \o t) \in Seq(S) /\ Len(Tail(<<x>> \o t)) = Len(t)
        /\ \A i \in 1 .. Len(t) : Tail(<<x>> \o t)[i] = t[i]
    BY <1>2, <1>3, HeadTailProperties
  <1> QED
    BY <1>3, <1>4, SeqEqual

(* As long as the camera's end of the queue is not open, no picture has come *)
(* any further than the camera thread.                                       *)
NothingSent ==
    /\ pc["camera"] \in {"none", "open"} => "camera.out" \notin opened
    /\ process = "running" /\ Started /\ "camera.out" \notin opened =>
           cameraMq = <<>> /\ tickBuffer = NoBuffer /\ RgbHandlersOut = <<>>

(* No thread takes a handler out of an empty queue, or works without one.    *)
LEMMA NothingSentThreads ==
    ASSUME IInv, CameraThread \/ TickThread \/ SaverThread,
           "camera.out" \notin opened', cameraMq = <<>>, tickBuffer = NoBuffer,
           RgbHandlersOut = <<>>
    PROVE  cameraMq' = <<>> /\ tickBuffer' = NoBuffer /\ RgbHandlersOut' = <<>>
  <1> USE DEF cameraVars, serviceVars, tickDetectorVars, queueVars, handlerVars
  <1>1. TypeOK /\ HandlersHeld /\ Lifecycle /\ HandlersBounded
    BY DEF IInv
  <1>2. CASE ExitFailure
    BY <1>2 DEF ExitFailure, RgbHandlersOut, TickHasNew
  <1>3. CASE CameraThread /\ ~ExitFailure
    <2>1. ~(CameraSend /\ "camera.out" \in opened)
      BY DEF CameraSend
    <2>2. UNCHANGED <<cameraMq, tickBuffer>>
      BY <1>3, <2>1 DEF CameraThread, CameraOpen, CameraCheckExit, CameraSelect, CameraReadFrame,
                        CameraSend, CameraSleep
    <2> QED
      BY <1>1, <1>3, <2>2, OtherHandlers DEF RgbQuiet
  <1>4. CASE TickThread /\ ~ExitFailure
    <2>1. pc["tick"] \notin TickWorking
      BY <1>1 DEF HandlersHeld
    <2>2. ~TickAllocate /\ ~TickConvert /\ ~TickExecute /\ ~TickRequeue
      BY <2>1 DEF TickAllocate, TickConvert, TickExecute, TickRequeue, TickWorking, Goto
    <2>3. UNCHANGED <<cameraMq, tickBuffer>>
      BY <1>4, <2>2 DEF TickThread, TickOpenIn, TickOpenOut, TickCheckExit, TickReceive, TickSend
    <2> QED
      BY <1>1, <1>4, <2>2, <2>3, TickHandlers DEF RgbQuiet
  <1>5. CASE SaverThread /\ ~ExitFailure
    <2>1. UNCHANGED <<cameraMq, tickBuffer>>
      BY <1>5 DEF SaverThread, SaverOpen, SaverReceive, SaverSave, SaverReturn
    <2>2. ~SaverReturn
      <3>1. SUFFICES ASSUME SaverReturn PROVE FALSE
        OBVIOUS
      <3>2. saverRgb \in RgbHandlers
            /\ \E rest \in Seq(RgbHandlers) : RgbHandlersOut = <<saverRgb>> \o rest
        BY <1>1, <3>1, ReturnHandlers
      <3> QED
        BY <3>2, TailOfConcat
    <2> QED
      BY <1>1, <1>5, <2>1, <2>2, SaverHandlers DEF RgbQuiet
  <1> QED
    BY <1>2, <1>3, <1>4, <1>5

(* No step breaks it. *)
LEMMA NothingSentStep ==
    ASSUME IInv, NothingSent, [Next]_vars
    PROVE  NothingSent'
  <1> USE DEF cameraVars, serviceVars, tickDetectorVars, queueVars, handlerVars
  <1>1. TypeOK /\ HandlersHeld /\ Lifecycle
    BY DEF IInv
  <1>2. CASE UNCHANGED vars
    BY <1>2 DEF vars, NothingSent, RgbHandlersOut, TickHasNew, Started
  <1>3. CASE process = "running" /\ Main
    <2>1. pc'["camera"] \in {"none", "open"} => "camera.out" \notin opened'
      BY <1>1, <1>3, MainLeavesCamera DEF NothingSent
    <2>2. ASSUME process' = "running", "camera.out" \notin opened'
          PROVE  cameraMq' = <<>> /\ tickBuffer' = NoBuffer /\ RgbHandlersOut' = <<>>
      <3>1. CASE MainUnlink
        <4>1. pc["main"] = "unlink" /\ cameraMq' = <<>> /\ UNCHANGED tickBuffer
          BY <3>1 DEF MainUnlink, Goto
        <4>2. tickBuffer = NoBuffer
          BY <1>1, <4>1 DEF Lifecycle, HandlersHeld, TickWorking
        <4> QED
          BY <3>1, <4>1, <4>2, UnlinkRing
      <3>2. CASE ~MainUnlink
        <4>1. ~ExitFailure /\ ~MainReturn
          BY <2>2 DEF ExitFailure, MainReturn
        <4>2. Started
          BY <1>3, <3>2, <4>1 DEF Main, MainStartCamera, MainStartService, MainShutdown,
                                  MainStopCamera, Join, FlagExit, Start, Goto, Started
        <4>3. UNCHANGED <<cameraMq, tickBuffer, opened>>
          BY <1>3, <3>2, <4>1 DEF Main, MainStartCamera, MainStartService, MainShutdown,
                                  MainStopCamera
        <4>4. RgbHandlersOut' = RgbHandlersOut
          BY <1>1, <1>3, <3>2, <4>1, OtherHandlers DEF RgbQuiet
        <4> QED
          BY <1>3, <2>2, <4>2, <4>3, <4>4 DEF NothingSent
      <3> QED
        BY <3>1, <3>2
    <2> QED
      BY <2>1, <2>2 DEF NothingSent
  <1>4. CASE DriverCapture
    <2>1. UNCHANGED <<pc, process, opened, cameraMq, tickBuffer>>
      BY <1>4 DEF DriverCapture
    <2> QED
      BY <1>1, <1>4, <2>1, OtherHandlers DEF NothingSent, RgbQuiet, Started
  <1>5. CASE process = "running" /\ (CameraThread \/ TickThread \/ SaverThread)
    <2>1. pc'["camera"] \in {"none", "open"} => "camera.out" \notin opened'
      <3>1. CASE CameraOpen
        BY <1>1, <3>1, ServiceGoto, PointsListed DEF CameraOpen, CameraPoints
      <3>2. CASE CameraThread /\ ~CameraOpen
        BY <1>1, <3>2, CameraOpensFirst
      <3>3. CASE TickThread \/ SaverThread
        BY <1>1, <3>3, OthersLeaveCamera DEF NothingSent
      <3> QED
        BY <1>5, <3>1, <3>2, <3>3
    <2>2. Started' => Started
      BY <1>1, <1>5, OthersLeaveMain DEF Started
    <2>3. "camera.out" \in opened => "camera.out" \in opened'
      BY <1>5 DEF CameraThread, CameraOpen, CameraCheckExit, CameraSelect, CameraReadFrame,
                  CameraSend, CameraSleep, TickThread, TickOpenIn, TickOpenOut, TickCheckExit,
                  TickReceive, TickAllocate, TickConvert, TickExecute, TickRequeue, TickSend,
                  SaverThread, SaverOpen, SaverReceive, SaverSave, SaverReturn, MqOpen,
                  ExitFailure
    <2> QED
      BY <1>5, <2>1, <2>2, <2>3, NothingSentThreads DEF NothingSent
  <1> QED
    BY <1>2, <1>3, <1>4, <1>5 DEF Next, Step, Ended

(* The flow of the job is empty until the camera is started.                 *)
EmptyStart ==
    process = "running" /\ pc["main"] = "startCamera" => RgbPath = <<>> /\ YuyvPath = <<>>

(* It is empty, before a step, *)
LEMMA EmptyAtStart == IInv /\ NothingSent => EmptyStart
  <1> SUFFICES ASSUME IInv, NothingSent, process = "running", pc["main"] = "startCamera"
               PROVE  RgbPath = <<>> /\ YuyvPath = <<>>
    BY DEF EmptyStart
  <1>1. /\ TypeOK /\ HandlersHeld /\ pc["camera"] = "none" /\ pc["tick"] = "none"
        /\ filled = <<>> /\ cameraMq = <<>>
    BY DEF IInv, Lifecycle, HandlersBounded
  <1>2. RgbHandlersOut = <<>>
    BY <1>1 DEF NothingSent, Started
  <1>3. RgbPath = <<>>
    BY <1>1, <1>2, RgbShaped DEF RgbShape
  <1>4. YuyvPath = <<>> \o <<>> \o <<>> \o <<>>
    BY <1>1 DEF YuyvPath, Unconverted, CameraHeld
  <1>5. <<>> \o <<>> = <<>>
    OBVIOUS
  <1> QED
    BY <1>3, <1>4, <1>5

(* and after it. *)
LEMMA EmptyAfterUnlink == IInv' /\ NothingSent' => EmptyStart'
  BY EmptyAtStart, PTL

-----------------------------------------------------------------------------
(* How the saver ends *)

(* The saver's routine returns with every frame saved, or on an error of its *)
(* mq_receive; on a queue that is open that is a failure of the call.        *)
SaverDone ==
    /\ pc["saver"] \notin {"none", "open"} => "saver.in" \in opened \/ "mqOpen" \in Faults
    /\ saverRc = "error" => pc["saver"] = "exited"
    /\ pc["saver"] = "exited" => saved = FrameCount \/ saverRc = "error"

(* Nobody else touches what the saver returns with. *)
LEMMA OthersLeaveSaved ==
    ASSUME DriverCapture \/ CameraThread \/ TickThread \/ Main
    PROVE  UNCHANGED <<saved, saverRc>> /\ opened \subseteq opened'
  <1> USE DEF queueVars, handlerVars
  <1>1. CASE DriverCapture \/ CameraThread
    BY <1>1 DEF DriverCapture, CameraThread, CameraOpen, CameraCheckExit, CameraSelect,
                CameraReadFrame, CameraSend, CameraSleep, MqOpen, ExitFailure
  <1>2. CASE TickThread
    BY <1>2 DEF TickThread, TickOpenIn, TickOpenOut, TickCheckExit, TickReceive, TickAllocate,
                TickConvert, TickExecute, TickRequeue, TickSend, MqOpen, ExitFailure
  <1>3. CASE Main
    BY <1>3 DEF Main, MainUnlink, MainStartCamera, MainStartService, MainShutdown,
                MainStopCamera, MainReturn, ExitFailure
  <1> QED
    BY <1>1, <1>2, <1>3

(* main only starts the saver. *)
LEMMA MainLeavesSaver ==
    ASSUME TypeOK, Lifecycle, Main
    PROVE  \/ pc'["saver"] = pc["saver"]
           \/ pc["saver"] = "none" /\ pc'["saver"] = "open"
  <1> USE DEF serviceVars
  <1>1. CASE ExitFailure
    BY <1>1 DEF ExitFailure
  <1>2. CASE MainStartService /\ ~ExitFailure
    BY <1>2, StartType, PointsListed DEF MainStartService, MainPoints, Lifecycle
  <1>3. CASE (MainUnlink \/ MainStartCamera \/ MainShutdown \/ MainStopCamera) /\ ~ExitFailure
    BY <1>3, GotoType, PointsListed
       DEF MainUnlink, MainStartCamera, MainShutdown, MainStopCamera, Join, FlagExit, MainPoints
  <1>4. CASE MainReturn
    BY <1>4 DEF MainReturn
  <1> QED
    BY <1>1, <1>2, <1>3, <1>4 DEF Main

(* No step breaks it. *)
LEMMA SaverDoneStep ==
    ASSUME IInv, SaverDone, [Next]_vars
    PROVE  SaverDone'
  <1> USE DEF serviceVars, queueVars, handlerVars
  <1>1. TypeOK /\ HandlersHeld /\ Lifecycle
    BY DEF IInv
  <1>2. CASE UNCHANGED vars
    BY <1>2 DEF vars, SaverDone
  <1>3. CASE DriverCapture \/ CameraThread \/ TickThread
    BY <1>1, <1>3, OthersLeaveSaver, OthersLeaveSaved DEF SaverDone
  <1>4. CASE Main
    BY <1>1, <1>4, MainLeavesSaver, OthersLeaveSaved DEF SaverDone
  <1>5. CASE SaverThread /\ ~ExitFailure
    <2>1. CASE SaverOpen
      <3>1. pc["saver"] = "open" /\ pc'["saver"] = "receive"
        BY <1>1, <2>1, ServiceGoto, PointsListed DEF SaverOpen, SaverPoints
      <3>2. "saver.in" \in opened' \/ "mqOpen" \in Faults
        BY <2>1 DEF SaverOpen, MqOpen
      <3> QED
        BY <2>1, <3>1, <3>2 DEF SaverOpen, SaverDone
    <2>2. CASE SaverReceive
      <3>1. pc["saver"] = "receive" /\ UNCHANGED <<opened, saved>>
        BY <2>2 DEF SaverReceive, Goto
      <3>2. \/ pc'["saver"] \in {"save", "return"} /\ saverRc' = "ok"
            \/ pc'["saver"] = "exited" /\ saverRc' = "error"
        BY <1>1, <2>2, ServiceGoto, PointsListed DEF SaverReceive, SaverPoints
      <3> QED
        BY <3>1, <3>2 DEF SaverDone
    <2>3. CASE SaverSave
      <3>1. pc["saver"] = "save" /\ pc'["saver"] \in {"return", "spin"}
        BY <1>1, <1>5, <2>3, ServiceGoto, PointsListed DEF SaverSave, SaverPoints
      <3>2. UNCHANGED <<opened, saverRc>>
        BY <1>5, <2>3 DEF SaverSave
      <3> QED
        BY <3>1, <3>2 DEF SaverDone
    <2>4. CASE SaverReturn
      <3>1. /\ pc["saver"] = "return"
            /\ pc'["saver"] = IF saved < FrameCount THEN "receive" ELSE "exited"
        BY <1>1, <2>4, ServiceGoto, PointsListed DEF SaverReturn, SaverPoints
      <3>2. UNCHANGED <<opened, saved, saverRc>>
        BY <2>4 DEF SaverReturn
      <3>3. saved \in 0 .. FrameCount
        BY <1>1 DEF TypeOK
      <3> QED
        BY <3>1, <3>2, <3>3, SynchronomeAssumption DEF SaverDone, SynchronomeAssumption
    <2> QED
      BY <1>5, <2>1, <2>2, <2>3, <2>4 DEF SaverThread
  <1>6. CASE ExitFailure
    BY <1>6 DEF ExitFailure, SaverDone
  <1> QED
    BY <1>2, <1>3, <1>4, <1>5, <1>6 DEF Next, Step, Ended

(* What is seen has the type of a flow.                                      *)
LEMMA SeenTyped ==
    ASSUME TypeOK, HandlersHeld
    PROVE  RgbSeen \in Seq(Frames) /\ YuyvSeen \in Seq(Frames)
           /\ Len(RgbSeen) = Len(RgbPath) /\ Len(YuyvSeen) = Len(YuyvPath)
  <1>1. RgbPath \in Seq(RgbHandlers) /\ YuyvPath \in Seq(Buffers)
    BY RgbShaped, YuyvShaped DEF RgbShape, YuyvShape
  <1>2. Starts(RgbPath) \in Seq(RgbBuffers) /\ Len(Starts(RgbPath)) = Len(RgbPath)
    BY <1>1, StartsType
  <1>3. /\ \A r \in RgbBuffers : rgbImage[r] \in Frames
        /\ \A b \in Buffers : yuyv[b] \in Frames
    BY DEF TypeOK
  <1>4. RgbSeen \in Seq(Frames) /\ Len(RgbSeen) = Len(Starts(RgbPath))
    BY <1>2, <1>3, MappedType DEF RgbSeen
  <1>5. YuyvSeen \in Seq(Frames) /\ Len(YuyvSeen) = Len(YuyvPath)
    BY <1>1, <1>3, MappedType DEF YuyvSeen
  <1> QED
    BY <1>2, <1>4, <1>5

(* The same after a step.                                                    *)
SeenType == RgbSeen \in Seq(Frames) /\ YuyvSeen \in Seq(Frames)

(* It is so after a step. *)
LEMMA NextSeenTyped == TypeOK' /\ HandlersHeld' => SeenType'
  <1>1. TypeOK /\ HandlersHeld => SeenType
    BY SeenTyped DEF SeenType
  <1> QED
    BY <1>1, PTL

(* The invariants of the program that the refinement rests on.               *)
RInv ==
    IInv /\ NothingSent /\ SaverDone /\ SaverFirst /\ BuffersOwnedOnce /\ RgbOwnedOnce

(* A picture that cannot be sent is lost before any other one is.            *)
LEMMA CameraDrops ==
    ASSUME RInv, IInv', CameraSend, "camera.out" \notin opened, process = "running"
    PROVE  JobStep
  <1> USE DEF cameraVars, tickDetectorVars, handlerVars
  <1>1. /\ TypeOK /\ HandlersHeld /\ Lifecycle /\ TypeOK' /\ HandlersHeld'
        /\ NothingSent
    BY DEF RInv, IInv
  <1>2. /\ pc["camera"] = "send" /\ pc'["camera"] = "sleep" /\ pc'["tick"] = pc["tick"]
        /\ pc'["main"] = pc["main"]
        /\ UNCHANGED <<cameraMq, filled, queued, tickBuffer, tickRgb, rgbImage, yuyv>>
        /\ UNCHANGED <<stamp, streaming, saved, saverRc, process>>
    BY <1>1, ServiceGoto, PointsListed DEF CameraSend, CameraPoints
  <1>3. Started /\ Started'
    BY <1>1, <1>2 DEF Lifecycle, Started
  <1>4. cameraMq = <<>> /\ tickBuffer = NoBuffer /\ RgbHandlersOut = <<>>
    BY <1>1, <1>3 DEF NothingSent
  <1>5. pc["tick"] \notin TickWorking
    BY <1>1, <1>4 DEF HandlersHeld
  <1>6. RgbPath = <<>> /\ RgbPath' = <<>>
    <2>1. RgbPath = <<>>
      BY <1>1, <1>4, <1>5, RgbShaped DEF RgbShape, TickWorking
    <2>2. RgbHandlersOut' = RgbHandlersOut
      BY <1>1, OtherHandlers DEF RgbQuiet, CameraThread
    <2> QED
      BY <1>1, <1>2, <2>1, <2>2, RgbPathStays
  <1>7. RgbSeen = <<>> /\ RgbSeen' = <<>>
    BY <1>6 DEF RgbSeen, Mapped, Starts
  <1>8. /\ cameraBuffer \in Buffers /\ <<cameraBuffer>> \in Seq(Buffers)
        /\ filled \in Seq(Buffers)
    BY <1>1, <1>2, SingletonSeq DEF TypeOK, HandlersHeld
  <1>9. YuyvPath = <<cameraBuffer>> \o filled /\ YuyvPath' = filled
    <2>1. YuyvPath = <<>> \o <<>> \o <<cameraBuffer>> \o filled
      BY <1>2, <1>4, <1>5 DEF YuyvPath, Unconverted, CameraHeld, TickWorking
    <2>2. YuyvPath' = <<>> \o <<>> \o <<>> \o filled
      BY <1>2, <1>4, <1>5 DEF YuyvPath, Unconverted, CameraHeld, TickWorking
    <2>3. <<>> \o <<>> = <<>>
      OBVIOUS
    <2> QED
      BY <1>8, <2>1, <2>2, <2>3, ConcatEmptySeq
  <1> DEFINE v == yuyv[cameraBuffer]
  <1>10. v \in Frames /\ YuyvSeen = <<v>> \o YuyvSeen' /\ YuyvSeen' \in Seq(Frames)
    <2>1. Mapped(yuyv, <<cameraBuffer>> \o filled)
          = Mapped(yuyv, <<cameraBuffer>>) \o Mapped(yuyv, filled)
      BY <1>8, MappedConcat
    <2>2. Mapped(yuyv, <<cameraBuffer>>) = <<v>>
      BY MappedSingle
    <2>3. YuyvSeen' = Mapped(yuyv, filled)
      BY <1>2, <1>9 DEF YuyvSeen, Mapped
    <2>4. YuyvSeen' \in Seq(Frames)
      BY <1>1, NextSeenTyped DEF SeenType
    <2> QED
      BY <1>1, <1>8, <1>9, <2>1, <2>2, <2>3, <2>4 DEF YuyvSeen, TypeOK
  <1> HIDE DEF v
  <1>11. InFlight = <<v>> \o YuyvSeen' /\ InFlight' = YuyvSeen'
    <2>1. InFlight = <<>> \o YuyvSeen /\ InFlight' = <<>> \o YuyvSeen'
      BY <1>2, <1>3, <1>7, WhatIsSeen
    <2>2. YuyvSeen \in Seq(Frames)
      BY <1>1, SeenTyped
    <2> QED
      BY <1>10, <2>1, <2>2, ConcatEmptySeq
  <1>12. InFlight # <<>> /\ Tail(InFlight) = InFlight'
    BY <1>10, <1>11, TailOfConcat
  <1>13. Job!Release
    BY <1>2, <1>12 DEF Job!Release
  <1> QED
    BY <1>13 DEF JobStep, Job!Next

(* The camera thread takes a picture along.                                  *)
LEMMA CameraJob ==
    ASSUME RInv, IInv', CameraThread, process = "running"
    PROVE  JobStep
  <1> USE DEF cameraVars, serviceVars, tickDetectorVars, queueVars, handlerVars
  <1>1. TypeOK /\ HandlersHeld /\ Lifecycle /\ TypeOK' /\ HandlersHeld'
    BY DEF RInv, IInv
  <1>2. CASE ~ExitFailure /\ ~(CameraSend /\ "camera.out" \notin opened)
    <2>1. /\ UNCHANGED <<queued, tickBuffer, tickRgb, rgbImage, yuyv>>
          /\ UNCHANGED <<stamp, streaming, saved, saverRc, process>>
      BY <1>2 DEF CameraThread, CameraOpen, CameraCheckExit, CameraSelect, CameraReadFrame,
                  CameraSend, CameraSleep, Dequeue
    <2>2. pc'["main"] = pc["main"]
      BY <1>1, OthersLeaveMain
    <2>3. pc'["tick"] = pc["tick"] \/ (pc["tick"] = "none" /\ pc'["tick"] = "open")
      BY <1>1, OthersLeaveTick DEF Lifecycle
    <2>4. (Unconverted' <=> Unconverted) /\ (Started' <=> Started)
      BY <2>2, <2>3 DEF Unconverted, Started
    <2>5. BufferPlaces' = BufferPlaces
      BY <1>1, <1>2, CameraRing
    <2>6. RgbHandlersOut' = RgbHandlersOut
      BY <1>1, OtherHandlers DEF RgbQuiet
    <2>7. RgbPath' = RgbPath
      BY <1>1, <2>1, <2>3, <2>6, RgbPathStays
    <2>8. YuyvPath' = YuyvPath
      BY <1>1, <2>1, <2>4, <2>5, YuyvPathStays
    <2> QED
      BY <2>1, <2>4, <2>7, <2>8, UnseenStutters DEF Unseen
  <1> QED
    BY <1>2, ExitFails, CameraDrops

(* The pictures of two sequences of handlers are seen one after the other.   *)
LEMMA SeenConcat ==
    ASSUME NEW image
    PROVE  \A s, t \in Seq(RgbHandlers) :
               Mapped(image, Starts(s \o t)) = Mapped(image, Starts(s)) \o Mapped(image, Starts(t))
  <1> SUFFICES ASSUME NEW s \in Seq(RgbHandlers), NEW t \in Seq(RgbHandlers)
               PROVE  Mapped(image, Starts(s \o t))
                      = Mapped(image, Starts(s)) \o Mapped(image, Starts(t))
    OBVIOUS
  <1>1. /\ Starts(s \o t) = Starts(s) \o Starts(t)
        /\ Starts(s) \in Seq(RgbBuffers) /\ Starts(t) \in Seq(RgbBuffers)
    BY StartsConcat, StartsType, Zenon
  <1>2. Mapped(image, Starts(s) \o Starts(t))
        = Mapped(image, Starts(s)) \o Mapped(image, Starts(t))
    <2>1. \A a, b \in Seq(RgbBuffers) : Mapped(image, a \o b) = Mapped(image, a) \o Mapped(image, b)
      BY MappedConcat
    <2> QED
      BY <1>1, <2>1, Zenon
  <1> QED
    BY <1>1, <1>2

(* The saver's picture is the oldest, and the rest of the path comes behind. *)
ConvertedHeld == IF pc["tick"] = "execute" THEN <<tickRgb>> ELSE <<>>

(* The path begins with it. *)
LEMMA SavedFirst ==
    ASSUME TypeOK, HandlersHeld, pc["saver"] \in {"save", "return"}
    PROVE  /\ saverRgb \in RgbHandlers
           /\ Before(RgbHandlers, saverRgb, RgbPath,
                     <<>> \o tickMq \o ResultHeld \o OldHeld \o ConvertedHeld)
  <1>1. saverRgb \in RgbHandlers /\ SaverHeld = <<saverRgb>>
    BY DEF TypeOK, HandlersHeld, SaverHeld, Held
  <1>2. RgbPath = <<saverRgb>> \o tickMq \o ResultHeld \o OldHeld \o ConvertedHeld
    BY <1>1 DEF RgbPath, SaverHeld, ResultHeld, OldHeld, ConvertedHeld
  <1>3. ConvertedHeld \in Seq(RgbHandlers)
    BY SingletonSeq DEF ConvertedHeld, TypeOK, HandlersHeld
  <1>4. Before(RgbHandlers, saverRgb,
               <<saverRgb>> \o tickMq \o ResultHeld \o OldHeld \o ConvertedHeld,
               <<>> \o tickMq \o ResultHeld \o OldHeld \o ConvertedHeld)
    BY <1>1, <1>3, RgbParts, RingHead
  <1> QED
    BY <1>1, <1>2, <1>4

(* The saver is given the oldest picture, saves it, and is done with it.     *)
LEMMA SaverJob ==
    ASSUME RInv, IInv', SaverThread, process = "running"
    PROVE  JobStep
  <1> USE DEF cameraVars, serviceVars, tickDetectorVars, queueVars, handlerVars
  <1>1. /\ TypeOK /\ HandlersHeld /\ Lifecycle /\ HandlersBounded
        /\ TypeOK' /\ HandlersHeld' /\ SaverDone
    BY DEF RInv, IInv
  <1>2. CASE ~ExitFailure
    <2>1. UNCHANGED <<queued, tickBuffer, tickRgb, rgbImage, yuyv, stamp, streaming>>
      BY <1>2 DEF SaverThread, SaverOpen, SaverReceive, SaverSave, SaverReturn, ReturnRgb
    <2>2. pc["saver"] # "none" /\ Started
      BY <1>1, <1>2 DEF SaverThread, SaverOpen, SaverReceive, SaverSave, SaverReturn, Goto,
                        Lifecycle, Started
    <2>3. pc'["tick"] = pc["tick"] \/ (pc["tick"] = "none" /\ pc'["tick"] = "open")
      BY <1>1, OthersLeaveTick DEF Lifecycle
    <2>4. (Unconverted' <=> Unconverted) /\ Started'
      <3>1. pc'["main"] = pc["main"]
        BY <1>1, OthersLeaveMain
      <3> QED
        BY <2>2, <2>3, <3>1 DEF Unconverted, Started
    <2>5. YuyvPath' = YuyvPath
      BY <1>1, <2>1, <2>4, SaverRing, YuyvPathStays
    <2>6. CASE ~SaverReturn
      <3>1. RgbPath' = RgbPath
        BY <1>1, <2>1, <2>3, <2>6, SaverHandlers, RgbPathStays DEF RgbQuiet
      <3>2. UNCHANGED process
        BY <1>2, <2>6 DEF SaverThread, SaverOpen, SaverReceive, SaverSave
      <3>3. CASE UNCHANGED <<saved, saverRc>>
        BY <2>1, <2>2, <2>4, <2>5, <3>1, <3>2, <3>3, UnseenStutters DEF Unseen
      <3>4. CASE saved' # saved
        <4>1. pc["saver"] = "save" /\ saved' = saved + 1
          BY <1>2, <2>6, <3>4 DEF SaverThread, SaverOpen, SaverReceive, SaverSave
        <4>2. saved < FrameCount /\ saverRc # "error" /\ UNCHANGED saverRc
          <5>1. UNCHANGED saverRc
            BY <1>2, <4>1 DEF SaverThread, SaverOpen, SaverReceive, SaverSave, SaverReturn, Goto
          <5> QED
            BY <1>1, <4>1, <5>1 DEF HandlersHeld, SaverDone
        <4>3. /\ RgbPath \in Seq(RgbHandlers) /\ saverRgb \in RgbHandlers
              /\ \E rest \in Seq(RgbHandlers) : RgbPath = <<saverRgb>> \o rest
          BY <1>1, <4>1, SavedFirst, RgbShaped DEF Before, RgbShape
        <4>4. Len(RgbPath) > 0
          BY <4>3, TailOfConcat
        <4>5. InFlight' = InFlight /\ InFlight # <<>>
          <5>1. RgbSeen' = RgbSeen /\ YuyvSeen' = YuyvSeen
            BY <2>1, <2>5, <3>1 DEF RgbSeen, YuyvSeen, Mapped, Starts
          <5>2. InFlight = RgbSeen \o YuyvSeen /\ InFlight' = InFlight
            BY <2>2, <2>4, <3>2, <5>1, WhatIsSeen
          <5>3. Len(RgbSeen \o YuyvSeen) > 0
            BY <1>1, <4>3, <4>4, SeenTyped, ConcatProperties, LenProperties
          <5> QED
            BY <5>2, <5>3
        <4>6. Job!Save
          BY <2>1, <3>2, <4>1, <4>2, <4>5 DEF Job!Save
        <4> QED
          BY <4>6 DEF JobStep, Job!Next
      <3>5. CASE UNCHANGED saved /\ saverRc' # saverRc
        <4>1. InFlight' = InFlight
          <5>1. RgbSeen' = RgbSeen /\ YuyvSeen' = YuyvSeen
            BY <2>1, <2>5, <3>1 DEF RgbSeen, YuyvSeen, Mapped, Starts
          <5> QED
            BY <2>2, <2>4, <3>2, <5>1, WhatIsSeen
        <4>2. SaverReceive
          BY <1>2, <2>6, <3>5 DEF SaverThread, SaverOpen, SaverSave
        <4>3. CASE saverRc' = "error" /\ ReceiveFails("saver.in")
          <5>1. pc["saver"] = "receive" /\ saved < FrameCount
            BY <1>1, <4>2 DEF SaverReceive, Goto, HandlersHeld
          <5>2. Faults \cap {"mqOpen", "receive"} # {}
            BY <1>1, <4>3, <5>1 DEF ReceiveFails, SaverDone
          <5>3. Job!Abandon
            BY <2>1, <3>2, <3>5, <4>1, <4>3, <5>1, <5>2 DEF Job!Abandon
          <5> QED
            BY <5>3 DEF JobStep, Job!Next
        <4>4. CASE saverRc' = "ok"
          <5>1. saverRc = "error" /\ pc["saver"] = "receive"
            BY <1>1, <3>5, <4>2, <4>4 DEF TypeOK, SaverReceive, Goto
          <5> QED
            BY <1>1, <5>1 DEF SaverDone
        <4> QED
          BY <4>2, <4>3, <4>4 DEF SaverReceive
      <3> QED
        BY <3>3, <3>4, <3>5
    <2>7. CASE SaverReturn
      <3>1. pc["saver"] = "return" /\ saverRgb' = NullRgb /\ UNCHANGED <<tickMq, tickRgb, mOldImage>>
        BY <2>7 DEF SaverReturn, Goto, ReturnRgb
      <3>2. UNCHANGED <<process, saved, saverRc>>
        BY <1>1, <2>7, ReturnHandlers DEF SaverReturn
      <3>3. RgbPath' = <<>> \o tickMq \o ResultHeld \o OldHeld \o ConvertedHeld
        <4>1. RgbPath' = SaverHeld' \o tickMq' \o ResultHeld' \o OldHeld' \o ConvertedHeld'
          BY DEF RgbPath, SaverHeld, ResultHeld, OldHeld, ConvertedHeld
        <4>2. SaverHeld' = <<>>
          BY <3>1 DEF SaverHeld, Held
        <4>3. pc'["tick"] = pc["tick"]
          BY <1>1, <2>7, ServiceGoto, PointsListed DEF SaverReturn, SaverPoints
        <4>4. /\ tickMq' = tickMq /\ ResultHeld' = ResultHeld /\ OldHeld' = OldHeld
              /\ ConvertedHeld' = ConvertedHeld
          BY <3>1, <4>3 DEF ResultHeld, OldHeld, ConvertedHeld, TickHasNew
        <4> QED
          BY <4>1, <4>2, <4>4
      <3>4. /\ saverRgb \in RgbHandlers /\ <<saverRgb>> \in Seq(RgbHandlers)
            /\ RgbPath' \in Seq(RgbHandlers) /\ RgbPath = <<saverRgb>> \o RgbPath'
        BY <1>1, <3>1, <3>3, SavedFirst, SingletonSeq DEF Before
      <3> DEFINE v == rgbImage[saverRgb.mStart]
      <3>5. v \in Frames
        BY <1>1, <3>4, HandlersNotNull DEF TypeOK
      <3>6. RgbSeen = <<v>> \o RgbSeen'
        <4>1. Mapped(rgbImage, Starts(<<saverRgb>> \o RgbPath'))
              = Mapped(rgbImage, Starts(<<saverRgb>>)) \o Mapped(rgbImage, Starts(RgbPath'))
          BY <3>4, SeenConcat, Zenon
        <4>2. Mapped(rgbImage, Starts(<<saverRgb>>)) = <<v>>
          BY StartsSingle, MappedSingle
        <4>3. RgbSeen' = Mapped(rgbImage, Starts(RgbPath'))
          BY <2>1 DEF RgbSeen, Starts, Mapped
        <4> QED
          BY <3>4, <4>1, <4>2, <4>3 DEF RgbSeen
      <3>7. YuyvSeen' = YuyvSeen
        BY <2>1, <2>5 DEF YuyvSeen, Mapped
      <3>8. InFlight = RgbSeen \o YuyvSeen /\ InFlight' = RgbSeen' \o YuyvSeen
        BY <2>2, <2>4, <3>2, <3>7, WhatIsSeen
      <3>9. RgbSeen' \in Seq(Frames) /\ YuyvSeen \in Seq(Frames)
        BY <1>1, SeenTyped, NextSeenTyped DEF SeenType
      <3> HIDE DEF v
      <3>10. <<v>> \in Seq(Frames) /\ RgbSeen' \o YuyvSeen \in Seq(Frames)
        BY <3>5, <3>9, SingletonSeq, ConcatProperties
      <3>11. (<<v>> \o RgbSeen') \o YuyvSeen = <<v>> \o (RgbSeen' \o YuyvSeen)
        <4>1. \A a, b, c \in Seq(Frames) : (a \o b) \o c = a \o (b \o c)
          BY Associative
        <4> QED
          BY <3>9, <3>10, <4>1, Zenon
      <3>12. InFlight = <<v>> \o InFlight'
        BY <3>6, <3>8, <3>11
      <3>13. InFlight # <<>> /\ Tail(InFlight) = InFlight'
        BY <3>5, <3>8, <3>10, <3>12, TailOfConcat
      <3>14. Job!Release
        BY <2>1, <3>2, <3>13 DEF Job!Release
      <3> QED
        BY <3>14 DEF JobStep, Job!Next
    <2> QED
      BY <2>6, <2>7
  <1> QED
    BY <1>2, ExitFails


(* The sensor's picture is the newest one; there is room for it, since a     *)
(* buffer was queued for it.                                                 *)
LEMMA DriverJob ==
    ASSUME RInv, IInv', DriverCapture, process = "running"
    PROVE  JobStep
  <1> USE DEF cameraVars, serviceVars, tickDetectorVars, queueVars, handlerVars
  <1>1. /\ TypeOK /\ HandlersHeld /\ Lifecycle /\ HandlersBounded
        /\ TypeOK' /\ HandlersHeld'
        /\ BuffersOwnedOnce /\ RgbOwnedOnce
    BY DEF RInv, IInv
  <1> DEFINE b == Head(queued)
  <1>2. /\ streaming /\ queued # <<>> /\ queued' = Tail(queued)
        /\ yuyv' = [yuyv EXCEPT ![b] = stamp] /\ stamp' = (stamp + 1) % FrameIds
        /\ filled' = Append(filled, b)
        /\ UNCHANGED <<pc, streaming, rgbImage, process, cameraMq, tickMq, cameraBuffer,
                       tickBuffer, tickRgb, saverRgb, mOldImage, saverRc, saved>>
    BY DEF DriverCapture, Capture
  <1>3. Started /\ Started'
    BY <1>1, <1>2 DEF Lifecycle, Started
  <1>4. b \in Buffers /\ Tail(queued) \in Seq(Buffers) /\ queued = <<b>> \o Tail(queued)
    BY <1>1, <1>2, BufferHead, Zenon DEF TypeOK
  <1>5. <<b>> \in Seq(Buffers) /\ YuyvPath \in Seq(Buffers) /\ queued \in Seq(Buffers)
    BY <1>1, <1>4, SingletonSeq, YuyvShaped DEF YuyvShape
  <1> HIDE DEF b
  <1>6. RgbSeen' = RgbSeen
    <2>1. RgbPath' = RgbPath
      BY <1>2 DEF RgbPath, TickHasNew
    <2> QED
      BY <1>2, <2>1 DEF RgbSeen, Mapped, Starts
  <1>7. YuyvPath' = YuyvPath \o <<b>>
    <2> DEFINE front == (IF Unconverted THEN <<tickBuffer>> ELSE <<>>) \o cameraMq \o CameraHeld
    <2>1. YuyvPath = front \o filled /\ YuyvPath' = front \o Append(filled, b)
      BY <1>2 DEF YuyvPath, Unconverted, CameraHeld
    <2>2. front \in Seq(Buffers)
      <3>1. (IF Unconverted THEN <<tickBuffer>> ELSE <<>>) \in Seq(Buffers)
        BY <1>1, SingletonSeq DEF Unconverted, TypeOK, HandlersHeld, TickWorking
      <3>2. cameraMq \in Seq(Buffers) /\ CameraHeld \in Seq(Buffers)
        BY <1>1, BufferParts
      <3> QED
        BY <3>1, <3>2, ConcatProperties
    <2>3. filled \in Seq(Buffers) /\ Append(filled, b) = filled \o <<b>>
      BY <1>1, <1>4, AppendIsConcat DEF TypeOK
    <2> HIDE DEF front
    <2>4. (front \o filled) \o <<b>> = front \o (filled \o <<b>>)
      BY <1>5, <2>2, <2>3, ConcatAssociative
    <2> QED
      BY <2>1, <2>3, <2>4
  <1>8. IsInjective(YuyvPath \o queued) /\ Len(YuyvPath \o queued) <= NumBuffers
    <2>1. BufferPlaces \in Seq(Buffers) /\ YuyvPath \o queued \in Seq(Buffers)
      BY <1>1, <1>5, BufferParts, ConcatProperties
    <2>2. IsInjective(BufferPlaces) /\ Len(BufferPlaces) <= NumBuffers
      BY <1>1, <1>3, PlacesCounted DEF BuffersOwnedOnce, HandlersBounded
    <2>3. CASE Unconverted \/ tickBuffer = NoBuffer
      <3>1. BufferPlaces = YuyvPath \o queued
        BY <1>1, <2>3, YuyvShaped DEF YuyvShape
      <3> QED
        BY <2>2, <3>1, CameraAssumption DEF CameraAssumption
    <2>4. CASE ~Unconverted /\ tickBuffer # NoBuffer
      <3>1. /\ tickBuffer \in Buffers /\ <<tickBuffer>> \in Seq(Buffers)
            /\ BufferPlaces = <<tickBuffer>> \o (YuyvPath \o queued)
        BY <1>1, <2>4, YuyvShaped, SingletonSeq DEF YuyvShape
      <3>2. IsInjective(YuyvPath \o queued)
        BY <2>1, <2>2, <3>1, InjectiveParts
      <3>3. Len(BufferPlaces) = 1 + Len(YuyvPath \o queued) /\ Len(YuyvPath \o queued) \in Nat
        BY <2>1, <3>1, ConcatProperties, LenProperties
      <3>4. Len(YuyvPath \o queued) <= NumBuffers
        BY <2>2, <3>3, CameraAssumption DEF CameraAssumption
      <3> QED
        BY <3>2, <3>4
    <2> QED
      BY <2>3, <2>4
  <1>9. YuyvSeen' = YuyvSeen \o <<stamp>>
    <2>1. IsInjective(YuyvPath \o <<b>>)
      <3>1. YuyvPath \o <<b>> \in Seq(Buffers)
        BY <1>5, ConcatProperties
      <3>2. (YuyvPath \o <<b>>) \o Tail(queued) = YuyvPath \o queued
        <4>1. (YuyvPath \o <<b>>) \o Tail(queued) = YuyvPath \o (<<b>> \o Tail(queued))
          BY <1>4, <1>5, ConcatAssociative
        <4> QED
          BY <1>4, <4>1
      <3> QED
        BY <1>4, <1>8, <3>1, <3>2, InjectiveParts
    <2>2. yuyv \in [Buffers -> Frames]
      BY <1>1 DEF TypeOK
    <2>3. Mapped([yuyv EXCEPT ![b] = stamp], YuyvPath \o <<b>>) = Mapped(yuyv, YuyvPath) \o <<stamp>>
      <3>1. SeenLast(yuyv, YuyvPath, b, stamp)
        BY <1>4, <1>5, <2>1, <2>2, WrittenLast
      <3> QED
        BY <3>1 DEF SeenLast
    <2>4. YuyvSeen' = Mapped(yuyv', YuyvPath')
      BY DEF YuyvSeen, Mapped
    <2> QED
      BY <1>2, <1>7, <2>3, <2>4 DEF YuyvSeen
  <1>10. /\ RgbSeen \in Seq(Frames) /\ YuyvSeen \in Seq(Frames)
         /\ Len(RgbSeen) = Len(RgbPath) /\ Len(YuyvSeen) = Len(YuyvPath)
    BY <1>1, SeenTyped
  <1>11. Len(RgbPath) <= NumRgb
    <2>1. /\ Starts(RgbHandlersOut) \in Seq(RgbBuffers) /\ mAvailable \in Seq(RgbBuffers)
          /\ Len(Starts(RgbHandlersOut)) = Len(RgbHandlersOut)
      BY <1>1, RgbParts, StartsType
    <2>2. Len(RgbHandlersOut) + Len(mAvailable) = NumRgb
      <3>1. Len(RgbPlaces) = NumRgb
        BY <1>1, <1>3 DEF RgbOwnedOnce
      <3> QED
        BY <2>1, <3>1, ConcatProperties DEF RgbPlaces
    <2>3. RgbPath \in Seq(RgbHandlers)
      BY <1>1, RgbShaped DEF RgbShape
    <2>4. Len(RgbPath) <= Len(RgbHandlersOut)
      <3>1. CASE RgbPath = RgbHandlersOut
        BY <2>3, <3>1, LenProperties
      <3>2. ASSUME tickRgb \in RgbHandlers, RgbHandlersOut = RgbPath \o <<tickRgb>>
            PROVE  Len(RgbPath) <= Len(RgbHandlersOut)
        <4>1. <<tickRgb>> \in Seq(RgbHandlers) /\ Len(<<tickRgb>>) = 1
          BY <3>2, SingletonSeq
        <4>2. Len(RgbHandlersOut) = Len(RgbPath) + 1 /\ Len(RgbPath) \in Nat
          BY <2>3, <3>2, <4>1, ConcatProperties, LenProperties
        <4> QED
          BY <4>2
      <3> QED
        BY <1>1, <3>1, <3>2, RgbShaped DEF RgbShape
    <2>5. Len(RgbPath) \in Nat /\ Len(RgbHandlersOut) \in Nat /\ Len(mAvailable) \in Nat
      BY <1>1, <2>1, <2>3, RgbParts, LenProperties
    <2> QED
      BY <2>2, <2>4, <2>5, TickDetectorAssumption DEF TickDetectorAssumption
  <1>12. Len(YuyvPath) < NumBuffers
    <2>1. Len(YuyvPath \o queued) = Len(YuyvPath) + Len(queued)
          /\ Len(YuyvPath) \in Nat /\ Len(queued) \in Nat /\ Len(queued) > 0
      BY <1>2, <1>5, ConcatProperties, LenProperties, EmptySeq
    <2> QED
      BY <1>8, <2>1, CameraAssumption DEF CameraAssumption
  <1>13. InFlight = RgbSeen \o YuyvSeen /\ InFlight' = RgbSeen \o (YuyvSeen \o <<stamp>>)
    BY <1>2, <1>3, <1>6, <1>9, WhatIsSeen
  <1>14. Len(InFlight) < NumBuffers + NumRgb
    <2>1. Len(InFlight) = Len(RgbPath) + Len(YuyvPath) /\ Len(RgbPath) \in Nat
          /\ Len(YuyvPath) \in Nat
      <3>1. Len(RgbSeen \o YuyvSeen) = Len(RgbSeen) + Len(YuyvSeen)
        BY <1>10, ConcatProperties
      <3>2. Len(RgbSeen) \in Nat /\ Len(YuyvSeen) \in Nat
        BY <1>10, LenProperties
      <3> QED
        BY <1>10, <1>13, <3>1, <3>2
    <2> QED
      BY <1>11, <1>12, <2>1, CameraAssumption, TickDetectorAssumption
         DEF CameraAssumption, TickDetectorAssumption
  <1>15. InFlight' = Append(InFlight, stamp)
    <2>1. stamp \in Frames /\ <<stamp>> \in Seq(Frames)
      BY <1>1, SingletonSeq DEF TypeOK
    <2>2. (RgbSeen \o YuyvSeen) \o <<stamp>> = RgbSeen \o (YuyvSeen \o <<stamp>>)
      BY <1>10, <2>1, ConcatAssociative
    <2>3. RgbSeen \o YuyvSeen \in Seq(Frames)
      BY <1>10, ConcatProperties
    <2> QED
      BY <1>13, <2>1, <2>2, <2>3, AppendIsConcat
  <1>16. Job!Capture
    BY <1>2, <1>14, <1>15 DEF Job!Capture, Job!Succ
  <1> QED
    BY <1>16 DEF JobStep, Job!Next


(* The detector's thread takes the oldest buffer out of the camera queue;    *)
(* the path ends with the conversion.                                        *)
LEMMA TickYuyv ==
    ASSUME TypeOK, HandlersHeld, TickThread, ~ExitFailure
    PROVE  /\ ~TickConvert => YuyvPath' = YuyvPath
           /\ TickConvert =>
                  /\ tickBuffer \in Buffers /\ YuyvPath' \in Seq(Buffers)
                  /\ YuyvPath = <<tickBuffer>> \o YuyvPath'
  <1> USE DEF cameraVars, serviceVars, tickDetectorVars, queueVars, handlerVars
  <1>1. pc'["camera"] = pc["camera"] /\ UNCHANGED <<filled, cameraBuffer>>
    <2>1. pc'["camera"] = pc["camera"]
      BY ServiceGoto, DoExitType, PointsListed
         DEF TickThread, TickOpenIn, TickOpenOut, TickCheckExit, TickReceive, TickAllocate,
             TickConvert, TickExecute, TickRequeue, TickSend, TickPoints
    <2> QED
      BY <2>1 DEF TickThread, TickOpenIn, TickOpenOut, TickCheckExit, TickReceive,
                  TickAllocate, TickConvert, TickExecute, TickRequeue, TickSend, ReturnBuffer
  <1>2. CameraHeld' = CameraHeld
    BY <1>1 DEF CameraHeld
  <1>3. /\ cameraMq \in Seq(Buffers) /\ CameraHeld \in Seq(Buffers) /\ filled \in Seq(Buffers)
    BY BufferParts
  <1>4. CASE TickReceive /\ cameraMq # <<>> /\ tickBuffer' = Head(cameraMq)
             /\ cameraMq' = Tail(cameraMq) /\ Goto("tick", "receive", "allocate")
    <2>1. pc["tick"] = "receive" /\ pc'["tick"] = "allocate" /\ ~TickConvert
      BY <1>4, ServiceGoto, PointsListed DEF TickPoints, TickConvert, Goto
    <2>2. <<Head(cameraMq)>> \o Tail(cameraMq) = <<>> \o cameraMq
      <3>1. cameraMq = <<Head(cameraMq)>> \o Tail(cameraMq)
        BY <1>3, <1>4, BufferHead, Zenon
      <3>2. <<>> \o cameraMq = cameraMq
        BY <1>3, ConcatEmptySeq
      <3> QED
        BY <3>1, <3>2, Zenon
    <2>3. YuyvPath = <<>> \o cameraMq \o CameraHeld \o filled
      BY <2>1 DEF YuyvPath, Unconverted
    <2>4. YuyvPath' = <<Head(cameraMq)>> \o Tail(cameraMq) \o CameraHeld \o filled
      <3>1. YuyvPath' = (IF Unconverted' THEN <<tickBuffer'>> ELSE <<>>)
                            \o cameraMq' \o CameraHeld' \o filled'
        BY DEF YuyvPath
      <3>2. Unconverted'
        BY <2>1 DEF Unconverted
      <3> QED
        BY <1>1, <1>2, <1>4, <3>1, <3>2
    <2> QED
      BY <2>1, <2>2, <2>3, <2>4
  <1>5. CASE TickConvert
    <2>1. pc["tick"] = "convert" /\ pc'["tick"] = "execute" /\ UNCHANGED cameraMq
      BY <1>5, ServiceGoto, PointsListed DEF TickPoints, TickConvert
    <2>2. tickBuffer \in Buffers
      BY <2>1 DEF TypeOK, HandlersHeld, TickWorking
    <2>3. YuyvPath = <<tickBuffer>> \o cameraMq \o CameraHeld \o filled
      BY <2>1 DEF YuyvPath, Unconverted
    <2>4. YuyvPath' = <<>> \o cameraMq \o CameraHeld \o filled
      BY <1>1, <1>2, <2>1 DEF YuyvPath, Unconverted
    <2>5. <<tickBuffer>> \in Seq(Buffers) /\ <<>> \o cameraMq = cameraMq
      BY <1>3, <2>2, SingletonSeq, ConcatEmptySeq
    <2>6. cameraMq \o CameraHeld \in Seq(Buffers) /\ cameraMq \o CameraHeld \o filled \in Seq(Buffers)
      BY <1>3, ConcatProperties
    <2>7. \A s, t, u \in Seq(Buffers) : (s \o t) \o u = s \o (t \o u)
      BY Associative
    <2>8. YuyvPath = <<tickBuffer>> \o (cameraMq \o CameraHeld \o filled)
      <3>1. <<tickBuffer>> \o cameraMq \o CameraHeld = <<tickBuffer>> \o (cameraMq \o CameraHeld)
        BY <1>3, <2>5, <2>7, Zenon
      <3>2. <<tickBuffer>> \o (cameraMq \o CameraHeld) \o filled
            = <<tickBuffer>> \o (cameraMq \o CameraHeld \o filled)
        BY <1>3, <2>5, <2>6, <2>7, Zenon
      <3> QED
        BY <2>3, <3>1, <3>2, Zenon
    <2> QED
      BY <1>5, <2>2, <2>4, <2>5, <2>6, <2>8
  <1>6. CASE ~TickConvert /\ UNCHANGED cameraMq
    <2>1. \/ ~Unconverted /\ ~Unconverted'
          \/ Unconverted /\ Unconverted' /\ UNCHANGED tickBuffer
      <3>1. CASE TickAllocate
        <4>1. pc["tick"] = "allocate" /\ pc'["tick"] = "convert" /\ UNCHANGED tickBuffer
          BY <3>1, ServiceGoto, PointsListed DEF TickPoints, TickAllocate
        <4> QED
          BY <4>1 DEF Unconverted
      <3>2. CASE ~TickAllocate /\ ~TickReceive
        <4>1. /\ pc["tick"] \notin {"allocate", "convert"}
              /\ pc'["tick"] \notin {"allocate", "convert"}
          BY <1>6, <3>2, ServiceGoto, DoExitType, PointsListed
             DEF TickThread, TickOpenIn, TickOpenOut, TickCheckExit, TickExecute, TickRequeue,
                 TickSend, TickPoints
        <4> QED
          BY <4>1 DEF Unconverted
      <3>3. CASE TickReceive
        <4>1. cameraMq = <<>> \/ "tick.in" \notin opened \/ cameraMq # Tail(cameraMq)
          BY <1>3, LenTail, LenProperties
        <4>2. Goto("tick", "receive", "check") \/ Goto("tick", "receive", "exited")
          BY <1>6, <3>3, <4>1 DEF TickReceive
        <4>3. pc["tick"] = "receive" /\ pc'["tick"] \in {"check", "exited"}
          BY <4>2, ServiceGoto, PointsListed DEF TickPoints
        <4> QED
          BY <4>3 DEF Unconverted
      <3> QED
        BY <3>1, <3>2, <3>3
    <2> QED
      BY <1>1, <1>2, <1>6, <2>1 DEF YuyvPath
  <1>7. CASE ~TickConvert /\ ~TickReceive
    <2>1. UNCHANGED cameraMq
      BY <1>7 DEF TickThread, TickOpenIn, TickOpenOut, TickCheckExit, TickAllocate, TickExecute,
                  TickRequeue, TickSend
    <2> QED
      BY <1>6, <1>7, <2>1
  <1>8. CASE TickReceive
    <2>1. ~TickConvert
      BY <1>8 DEF TickReceive, TickConvert, Goto
    <2> QED
      BY <1>4, <1>6, <1>8, <2>1 DEF TickReceive
  <1> QED
    BY <1>5, <1>7, <1>8

(* The detector's verdict and its exchange of pictures change no picture and *)
(* not their order.                                                          *)
LEMMA TickStarts ==
    ASSUME TypeOK, HandlersHeld, TypeOK', HandlersHeld', TickThread, ~ExitFailure, ~TickConvert
    PROVE  Starts(RgbPath') = Starts(RgbPath)
  <1> USE DEF cameraVars, serviceVars, tickDetectorVars, queueVars, handlerVars
  <1>1. CASE TickAllocate
    <2>1. /\ pc["tick"] = "allocate" /\ pc'["tick"] = "convert"
          /\ tickRgb' \in RgbHandlers /\ RgbHandlersOut' = RgbHandlersOut \o <<tickRgb'>>
      BY <1>1, AllocateHandlers
    <2>2. /\ RgbPath = RgbHandlersOut /\ RgbPath \in Seq(RgbHandlers)
          /\ RgbHandlersOut' = RgbPath' \o <<tickRgb'>> /\ RgbPath' \in Seq(RgbHandlers)
      BY <2>1, RgbShaped, NextShapes DEF RgbShape
    <2>3. <<tickRgb'>> \in Seq(RgbHandlers) /\ RgbPath' \o <<tickRgb'>> = RgbPath \o <<tickRgb'>>
      BY <2>1, <2>2, SingletonSeq
    <2>4. RgbPath' = RgbPath
      BY <2>2, <2>3, CancelEnd
    <2> QED
      BY <2>4
  <1>2. CASE TickExecute
    <2>1. pc["tick"] = "execute" /\ pc'["tick"] = "requeue" /\ UNCHANGED mAvailable
      BY <1>2, ExecuteHandlers
    <2>2. RgbPath = RgbHandlersOut /\ RgbPath' = RgbHandlersOut'
      BY <2>1, RgbShaped, NextShapes DEF RgbShape
    <2>3. Starts(RgbHandlersOut') \o mAvailable = Starts(RgbHandlersOut) \o mAvailable
      <3>1. RgbPlaces' = Starts(RgbHandlersOut') \o mAvailable'
        BY DEF RgbPlaces, Starts
      <3> QED
        BY <1>2, <2>1, <3>1, ExecuteRing DEF RgbPlaces
    <2>4. /\ RgbHandlersOut \in Seq(RgbHandlers) /\ RgbHandlersOut' \in Seq(RgbHandlers)
          /\ mAvailable \in Seq(RgbBuffers)
      BY <2>1, <2>2, RgbParts, NextShapes DEF RgbShape
    <2>5. /\ Starts(RgbHandlersOut') \in Seq(RgbBuffers)
          /\ Starts(RgbHandlersOut) \in Seq(RgbBuffers)
      BY <2>4, StartsType, Zenon
    <2>6. Starts(RgbHandlersOut') = Starts(RgbHandlersOut)
      BY <2>3, <2>4, <2>5, CancelEnd
    <2> QED
      BY <2>2, <2>6
  <1>3. CASE ~TickAllocate /\ ~TickExecute
    <2>1. RgbHandlersOut' = RgbHandlersOut
      BY <1>3, TickHandlers DEF RgbQuiet
    <2>2. pc["tick"] # "convert" /\ pc'["tick"] # "convert"
      BY <1>3, ServiceGoto, DoExitType, PointsListed
         DEF TickThread, TickOpenIn, TickOpenOut, TickCheckExit, TickReceive, TickRequeue,
             TickSend, TickPoints
    <2>3. RgbPath' = RgbPath
      BY <2>1, <2>2, RgbPathStays
    <2> QED
      BY <2>3
  <1> QED
    BY <1>1, <1>2, <1>3

(* colorConvert takes a picture from the end of the one path to the          *)
(* beginning of the other; nothing else that the detector's thread does is   *)
(* seen.                                                                     *)
LEMMA TickJob ==
    ASSUME RInv, IInv', TickThread, process = "running"
    PROVE  JobStep
  <1> USE DEF cameraVars, serviceVars, tickDetectorVars, queueVars, handlerVars
  <1>1. /\ TypeOK /\ HandlersHeld /\ Lifecycle /\ TypeOK' /\ HandlersHeld' /\ RgbOwnedOnce
    BY DEF RInv, IInv
  <1>2. CASE ~ExitFailure
    <2>1. UNCHANGED <<yuyv, stamp, streaming, process, saved, saverRc>>
      BY <1>2 DEF TickThread, TickOpenIn, TickOpenOut, TickCheckExit, TickReceive, TickAllocate,
                  TickConvert, TickExecute, TickRequeue, TickSend, ReturnBuffer
    <2>2. Started /\ Started'
      <3>1. pc["tick"] # "none"
        BY <1>2 DEF TickThread, TickOpenIn, TickOpenOut, TickCheckExit, TickReceive,
                    TickAllocate, TickConvert, TickExecute, TickRequeue, TickSend, Goto, DoExit
      <3>2. pc'["main"] = pc["main"]
        BY <1>1, OthersLeaveMain
      <3> QED
        BY <1>1, <3>1, <3>2 DEF Lifecycle, Started
    <2>3. InFlight = RgbSeen \o YuyvSeen /\ InFlight' = RgbSeen' \o YuyvSeen'
      BY <2>1, <2>2, WhatIsSeen
    <2>4. YuyvSeen' = Mapped(yuyv, YuyvPath') /\ RgbSeen' = Mapped(rgbImage', Starts(RgbPath'))
      BY <2>1 DEF YuyvSeen, RgbSeen, Mapped, Starts
    <2>5. CASE ~TickConvert
      <3>1. UNCHANGED rgbImage
        BY <1>2, <2>5 DEF TickThread, TickOpenIn, TickOpenOut, TickCheckExit, TickReceive,
                          TickAllocate, TickExecute, TickRequeue, TickSend, Allocate,
                          ExecuteFirst, ExecuteNext
      <3>2. YuyvPath' = YuyvPath /\ Starts(RgbPath') = Starts(RgbPath)
        BY <1>1, <1>2, <2>5, TickYuyv, TickStarts
      <3>3. InFlight' = InFlight
        BY <2>3, <2>4, <3>1, <3>2 DEF RgbSeen, YuyvSeen
      <3> QED
        BY <2>1, <3>3 DEF JobStep, Job!vars
    <2>6. CASE TickConvert
      <3> DEFINE v == yuyv[tickBuffer]
      <3>1. /\ pc["tick"] = "convert" /\ pc'["tick"] = "execute"
            /\ rgbImage' = [rgbImage EXCEPT ![tickRgb.mStart] = v]
            /\ UNCHANGED <<tickRgb, mAvailable>>
        BY <1>1, <2>6, ServiceGoto, PointsListed DEF TickConvert, ColorConvert, TickPoints
      <3>2. /\ tickBuffer \in Buffers /\ YuyvPath' \in Seq(Buffers)
            /\ YuyvPath = <<tickBuffer>> \o YuyvPath' /\ <<tickBuffer>> \in Seq(Buffers)
        BY <1>1, <1>2, <2>6, TickYuyv, SingletonSeq
      <3>3. v \in Frames /\ YuyvSeen = <<v>> \o YuyvSeen'
        <4>1. Mapped(yuyv, <<tickBuffer>> \o YuyvPath')
              = Mapped(yuyv, <<tickBuffer>>) \o Mapped(yuyv, YuyvPath')
          BY <3>2, MappedConcat
        <4>2. Mapped(yuyv, <<tickBuffer>>) = <<v>>
          BY MappedSingle
        <4> QED
          BY <1>1, <2>4, <3>2, <4>1, <4>2 DEF YuyvSeen, TypeOK
      <3>4. RgbHandlersOut' = RgbHandlersOut
        <4>1. ~TickAllocate /\ ~TickExecute
          BY <3>1 DEF TickAllocate, TickExecute
        <4> QED
          BY <1>1, <4>1, TickHandlers DEF RgbQuiet
      <3>5. /\ RgbPath \in Seq(RgbHandlers) /\ tickRgb \in RgbHandlers
            /\ RgbPath' = RgbPath \o <<tickRgb>> /\ RgbHandlersOut = RgbPath \o <<tickRgb>>
            /\ <<tickRgb>> \in Seq(RgbHandlers)
        BY <1>1, <3>1, <3>4, RgbShaped, NextShapes, SingletonSeq DEF RgbShape
      <3> DEFINE m == tickRgb.mStart
                 s == Starts(RgbPath)
      <3>6. m \in RgbBuffers /\ s \in Seq(RgbBuffers) /\ s \o <<m>> \in Seq(RgbBuffers)
            /\ Starts(RgbPath \o <<tickRgb>>) = s \o <<m>>
        <4>1. Starts(RgbPath \o <<tickRgb>>) = Starts(RgbPath) \o Starts(<<tickRgb>>)
          BY <3>5, StartsConcat, Zenon
        <4>2. m \in RgbBuffers /\ s \in Seq(RgbBuffers)
          BY <3>5, HandlersNotNull, StartsType
        <4> QED
          BY <4>1, <4>2, StartsSingle, SingletonSeq, ConcatProperties
      <3>7. IsInjective(s \o <<m>>)
        <4>1. IsInjective((s \o <<m>>) \o mAvailable)
          BY <1>1, <2>2, <3>5, <3>6 DEF RgbOwnedOnce, RgbPlaces
        <4>2. mAvailable \in Seq(RgbBuffers)
          BY <1>1 DEF TypeOK
        <4> HIDE DEF s, m
        <4> QED
          BY <3>6, <4>1, <4>2, InjectiveParts
      <3>8. RgbSeen' = RgbSeen \o <<v>>
        <4>1. rgbImage \in [RgbBuffers -> Frames]
          BY <1>1 DEF TypeOK
        <4>2. SeenLast(rgbImage, s, m, v)
          <5> HIDE DEF s, m, v
          <5> QED
            BY <3>6, <3>7, <4>1, WrittenLast
        <4> QED
          BY <2>4, <3>1, <3>5, <3>6, <4>2 DEF SeenLast, RgbSeen
      <3>9. /\ RgbSeen \in Seq(Frames) /\ YuyvSeen' \in Seq(Frames) /\ <<v>> \in Seq(Frames)
        BY <1>1, <3>3, SeenTyped, NextSeenTyped, SingletonSeq DEF SeenType
      <3> HIDE DEF v
      <3>10. (RgbSeen \o <<v>>) \o YuyvSeen' = RgbSeen \o (<<v>> \o YuyvSeen')
        BY <3>9, ConcatAssociative
      <3>11. InFlight' = InFlight
        BY <2>3, <3>3, <3>8, <3>10
      <3> QED
        BY <2>1, <3>11 DEF JobStep, Job!vars
    <2> QED
      BY <2>5, <2>6
  <1> QED
    BY <1>2, ExitFails


(* The beginning of a sequence.                                              *)
LEMMA FrontOfConcat ==
    ASSUME NEW S, NEW s \in Seq(S), NEW t \in Seq(S)
    PROVE  SubSeq(s \o t, 1, Len(s)) = s /\ Len(s) \in 0 .. Len(s \o t)
  <1>1. /\ Len(s) \in Nat /\ Len(t) \in Nat /\ s \o t \in Seq(S)
        /\ Len(s \o t) = Len(s) + Len(t)
        /\ \A i \in 1 .. Len(s) : (s \o t)[i] = s[i]
    BY ConcatProperties, LenProperties
  <1>2. /\ SubSeq(s \o t, 1, Len(s)) \in Seq(S)
        /\ Len(SubSeq(s \o t, 1, Len(s))) = Len(s)
        /\ \A i \in 1 .. Len(s) : SubSeq(s \o t, 1, Len(s))[i] = s[i]
    BY <1>1
  <1> QED
    BY <1>1, <1>2, SeqEqual

(* main begins and ends the job.                                             *)
LEMMA MainJob ==
    ASSUME RInv, IInv', NothingSent', Main, process = "running"
    PROVE  JobStep
  <1> USE DEF cameraVars, serviceVars, tickDetectorVars, queueVars, handlerVars
  <1>1. /\ TypeOK /\ HandlersHeld /\ Lifecycle /\ TypeOK' /\ HandlersHeld' /\ IInv
        /\ NothingSent /\ SaverDone /\ SaverFirst
    BY DEF RInv, IInv
  <1>2. \A f : Mapped(f, <<>>) = <<>>
    BY DEF Mapped
  <1>3. Starts(<<>>) = <<>> /\ <<>> \o <<>> = <<>>
    BY DEF Starts
  <1>4. CASE MainUnlink
    <2>1. /\ pc["main"] = "unlink" /\ pc'["main"] = "startCamera"
          /\ UNCHANGED <<stamp, streaming, saved, saverRc, process, rgbImage, yuyv>>
      BY <1>1, <1>4, GotoType, PointsListed DEF MainUnlink, MainPoints
    <2>2. RgbPath' = <<>> /\ YuyvPath' = <<>>
      BY <2>1, EmptyAfterUnlink DEF EmptyStart
    <2>3. RgbSeen' = <<>> /\ YuyvSeen' = <<>>
      <3>1. RgbSeen' = Mapped(rgbImage', Starts(RgbPath')) /\ YuyvSeen' = Mapped(yuyv', YuyvPath')
        BY DEF RgbSeen, YuyvSeen, Mapped, Starts
      <3> QED
        BY <1>2, <1>3, <2>2, <3>1
    <2>4. InFlight = <<>> /\ InFlight' = <<>>
      BY <1>3, <2>1, <2>3, WhatIsSeen DEF Started
    <2> QED
      BY <2>1, <2>4 DEF JobStep, Job!vars
  <1>5. CASE MainStartCamera /\ ~ExitFailure
    <2>1. /\ pc["main"] = "startCamera" /\ pc'["main"] = "startServices"
          /\ pc'["tick"] = pc["tick"] /\ pc'["camera"] = pc["camera"] /\ streaming'
          /\ UNCHANGED <<stamp, saved, saverRc, process, rgbImage, yuyv, filled, mOldImage, cameraMq,
                         tickMq, cameraBuffer, tickBuffer, tickRgb, saverRgb>>
      BY <1>1, <1>5, GotoType, PointsListed DEF MainStartCamera, StartCapturing, MainPoints
    <2>2. streaming = FALSE /\ streaming' = TRUE
      BY <1>1, <2>1 DEF Lifecycle, TypeOK
    <2>3. RgbPath = <<>> /\ YuyvPath = <<>>
      BY <1>1, <2>1, EmptyAtStart DEF EmptyStart
    <2>4. RgbPath' = RgbPath /\ YuyvPath' = YuyvPath
      BY <2>1 DEF RgbPath, YuyvPath, Unconverted, CameraHeld, TickHasNew
    <2>5. RgbSeen = <<>> /\ YuyvSeen = <<>> /\ RgbSeen' = <<>> /\ YuyvSeen' = <<>>
      <3>1. RgbSeen' = Mapped(rgbImage', Starts(RgbPath')) /\ YuyvSeen' = Mapped(yuyv', YuyvPath')
        BY DEF RgbSeen, YuyvSeen, Mapped, Starts
      <3> QED
        BY <1>2, <1>3, <2>3, <2>4, <3>1 DEF RgbSeen, YuyvSeen
    <2>6. InFlight = <<>> /\ InFlight' = <<>>
      BY <1>3, <2>1, <2>5, WhatIsSeen DEF Started
    <2>7. Job!GoLive
      BY <2>1, <2>2, <2>6 DEF Job!GoLive
    <2> QED
      BY <2>7 DEF JobStep, Job!Next
  <1>6. CASE (MainStartService \/ MainShutdown) /\ ~ExitFailure
    <2>1. UNCHANGED <<stamp, streaming, saved, saverRc, process, rgbImage, yuyv, filled, mOldImage,
                      cameraMq, tickMq, cameraBuffer, tickBuffer, tickRgb, saverRgb>>
      BY <1>6 DEF MainStartService, MainShutdown
    <2>2. /\ \/ pc'["camera"] = pc["camera"]
             \/ pc["camera"] = "none" /\ pc'["camera"] = "open"
          /\ \/ pc'["tick"] = pc["tick"]
             \/ pc["tick"] = "none" /\ pc'["tick"] = "open"
          /\ Started /\ Started'
      <3>1. CASE MainStartService
        BY <1>1, <1>6, <3>1, StartType, PointsListed
           DEF MainStartService, MainPoints, Lifecycle, Started
      <3>2. CASE MainShutdown
        BY <1>1, <3>2, GotoType, PointsListed
           DEF MainShutdown, Join, FlagExit, MainPoints, Started
      <3> QED
        BY <1>6, <3>1, <3>2
    <2>3. RgbPath' = RgbPath /\ YuyvPath' = YuyvPath
      BY <2>1, <2>2 DEF RgbPath, YuyvPath, Unconverted, CameraHeld, TickHasNew
    <2> QED
      BY <2>1, <2>2, <2>3, UnseenStutters DEF Unseen
  <1>7. CASE MainStopCamera /\ ~ExitFailure
    <2>1. /\ pc["main"] = "stopCamera" /\ pc'["main"] = "return"
          /\ pc'["tick"] = pc["tick"] /\ pc'["camera"] = pc["camera"]
          /\ streaming' = FALSE /\ filled' = <<>>
          /\ UNCHANGED <<stamp, saved, saverRc, process, rgbImage, yuyv, mOldImage, cameraMq,
                         tickMq, cameraBuffer, tickBuffer, tickRgb, saverRgb>>
      BY <1>1, <1>7, GotoType, PointsListed DEF MainStopCamera, StopCapturing, MainPoints
    <2> DEFINE front == (IF Unconverted THEN <<tickBuffer>> ELSE <<>>) \o cameraMq \o CameraHeld
    <2>2. front \in Seq(Buffers) /\ filled \in Seq(Buffers)
      <3>1. (IF Unconverted THEN <<tickBuffer>> ELSE <<>>) \in Seq(Buffers)
        BY <1>1, SingletonSeq DEF Unconverted, TypeOK, HandlersHeld, TickWorking
      <3> QED
        BY <1>1, <3>1, BufferParts, ConcatProperties
    <2>3. YuyvPath = front \o filled /\ YuyvPath' = front \o <<>> /\ RgbPath' = RgbPath
      BY <2>1 DEF YuyvPath, RgbPath, Unconverted, CameraHeld, TickHasNew
    <2> HIDE DEF front
    <2>4. YuyvPath' = front
      BY <2>2, <2>3, ConcatEmptySeq
    <2>5. YuyvSeen = YuyvSeen' \o Mapped(yuyv, filled) /\ RgbSeen' = RgbSeen
      <3>1. YuyvSeen' = Mapped(yuyv, front) /\ RgbSeen' = Mapped(rgbImage, Starts(RgbPath))
        BY <2>1, <2>3, <2>4 DEF YuyvSeen, RgbSeen, Mapped, Starts
      <3>2. Mapped(yuyv, front \o filled) = Mapped(yuyv, front) \o Mapped(yuyv, filled)
        BY <2>2, MappedConcat
      <3> QED
        BY <2>3, <3>1, <3>2 DEF YuyvSeen, RgbSeen
    <2>6. /\ RgbSeen \in Seq(Frames) /\ YuyvSeen' \in Seq(Frames)
          /\ Mapped(yuyv, filled) \in Seq(Frames)
      <3>1. \A b \in Buffers : yuyv[b] \in Frames
        BY <1>1 DEF TypeOK
      <3> QED
        BY <1>1, <2>2, <3>1, SeenTyped, NextSeenTyped, MappedType DEF SeenType
    <2>7. InFlight = RgbSeen \o YuyvSeen /\ InFlight' = RgbSeen \o YuyvSeen'
      BY <2>1, <2>5, WhatIsSeen DEF Started
    <2>8. InFlight = InFlight' \o Mapped(yuyv, filled) /\ InFlight' \in Seq(Frames)
      <3>1. (RgbSeen \o YuyvSeen') \o Mapped(yuyv, filled)
            = RgbSeen \o (YuyvSeen' \o Mapped(yuyv, filled))
        BY <2>6, ConcatAssociative
      <3> QED
        BY <2>5, <2>6, <2>7, <3>1, ConcatProperties
    <2>9. /\ InFlight' = SubSeq(InFlight, 1, Len(InFlight'))
          /\ Len(InFlight') \in 0 .. Len(InFlight)
      BY <2>6, <2>8, FrontOfConcat
    <2>10. Job!StopStream
      <3>1. streaming
        BY <1>1, <2>1 DEF Lifecycle
      <3>2. \E n \in 0 .. Len(InFlight) : InFlight' = SubSeq(InFlight, 1, n)
        BY <2>9, Zenon
      <3>3. UNCHANGED <<stamp, saved, saverRc, process>>
        BY <2>1
      <3> QED
        BY <2>1, <3>1, <3>2, <3>3, Zenon DEF Job!StopStream
    <2> QED
      BY <2>10 DEF JobStep, Job!Next
  <1>8. CASE MainReturn
    <2>1. /\ pc["main"] = "return" /\ process' = "success"
          /\ UNCHANGED <<stamp, streaming, saved, saverRc>>
      BY <1>8 DEF MainReturn
    <2>2. ~streaming /\ (saved = FrameCount \/ saverRc = "error")
      BY <1>1, <2>1 DEF Lifecycle, SaverFirst, SaverDone
    <2>3. InFlight' = <<>>
      BY <2>1, WhatIsSeen
    <2>4. Job!Succeed
      BY <2>1, <2>2, <2>3 DEF Job!Succeed
    <2> QED
      BY <2>4 DEF JobStep, Job!Next
  <1> QED
    BY <1>4, <1>5, <1>6, <1>7, <1>8, ExitFails DEF Main


(* Every step of the program is a step of the job, or none that it sees.     *)
LEMMA StepIsJobStep ==
    ASSUME RInv, IInv', NothingSent', [Next]_vars
    PROVE  JobStep
  <1>1. CASE UNCHANGED vars
    <2>1. RgbPath' = RgbPath /\ YuyvPath' = YuyvPath /\ (Started' <=> Started)
      BY <1>1 DEF vars, RgbPath, YuyvPath, Unconverted, CameraHeld, TickHasNew, Started
    <2> QED
      BY <1>1, <2>1, UnseenStutters DEF vars, Unseen
  <1> QED
    BY <1>1, MainJob, DriverJob, CameraJob, TickJob, SaverJob DEF Next, Step, Ended

(* The program implements the abstract job for every number of buffers,      *)
(* messages and frames, whatever fails: the pictures form one FIFO, each is  *)
(* saved or skipped in its order and with its contents, and main returns 0   *)
(* only with FrameCount frames saved or after the saver's mq_receive         *)
(* returned an error.                                                        *)
THEOREM TheJobIsImplemented == Spec => ImplementsCaptureJob
  <1>1. Init => Job!Init
    <2>1. Init => ~Started /\ saverRc # "error"
      BY DEF Init, ServiceInit, Started, Threads, Services
    <2> QED
      BY <2>1, WhatIsSeen DEF Init, CameraInit, Job!Init
  <1>2. Spec => []NothingSent
    <2>1. Init => NothingSent
      BY DEF Init, ServiceInit, NothingSent, Started, Threads, Services
    <2>2. IInv /\ NothingSent /\ [Next]_vars => NothingSent'
      BY NothingSentStep
    <2> QED
      BY <2>1, <2>2, Invariance, PTL DEF Spec
  <1>3. Spec => []SaverDone
    <2>1. Init => SaverDone
      BY DEF Init, ServiceInit, SaverDone, Threads, Services
    <2>2. IInv /\ SaverDone /\ [Next]_vars => SaverDone'
      BY SaverDoneStep
    <2> QED
      BY <2>1, <2>2, Invariance, PTL DEF Spec
  <1>4. Spec => []SaverFirst
    <2>1. Init => SaverFirst
      BY DEF Init, ServiceInit, SaverFirst, Threads, Services
    <2>2. IInv /\ SaverFirst /\ [Next]_vars => SaverFirst'
      BY SaverFirstStep
    <2> QED
      BY <2>1, <2>2, Invariance, PTL DEF Spec
  <1>5. Spec => []RInv
    <2>1. IInv /\ NothingSent /\ SaverDone /\ SaverFirst /\ BuffersOwnedOnce /\ RgbOwnedOnce
          => RInv
      BY DEF RInv
    <2> QED
      BY <2>1, <1>2, <1>3, <1>4, Invariance, BuffersInOnePlace, RgbInOnePlace, PTL
  <1>6. RInv /\ IInv' /\ NothingSent' /\ [Next]_vars => [Job!Next]_(Job!vars)
    BY StepIsJobStep DEF JobStep
  <1> QED
    BY <1>1, <1>2, <1>5, <1>6, Invariance, PTL DEF Spec, ImplementsCaptureJob, Job!Spec

(* What is proved of the abstract job holds of the program.                  *)
JobProofs == INSTANCE CaptureJob_proofs WITH
                 Capacity <- NumBuffers + NumRgb, flow <- InFlight, next <- stamp,
                 live <- streaming, saved <- saved, status <- process,
                 abandoned <- saverRc = "error",
                 MayAbandon <- Faults \cap {"mqOpen", "receive"} # {}

(* The pictures under way are consecutive pictures of the camera: between    *)
(* the sensor and the saver none is lost, repeated, reordered or written     *)
(* over, although only pointers to the buffers travel, and whatever fails.   *)
THEOREM PicturesAreConsecutive == Spec => []Job!Contiguous
  <1>1. JobProofs!CaptureJobAssumption
    <2>1. (Faults \cap {"mqOpen", "receive"} # {}) \in BOOLEAN
      BY Zenon
    <2> QED
      BY <2>1, CameraAssumption, TickDetectorAssumption, SynchronomeAssumption
         DEF JobProofs!CaptureJobAssumption, CameraAssumption, TickDetectorAssumption,
             SynchronomeAssumption
  <1>2. JobProofs!Spec => []JobProofs!Contiguous
    BY <1>1, JobProofs!FlowIsContiguous, PTL
  <1>3. Job!Init => JobProofs!Init
    BY DEF Job!Init, JobProofs!Init
  <1>4. [Job!Next]_(Job!vars) => [JobProofs!Next]_(JobProofs!vars)
    BY DEF Job!Next, Job!GoLive, Job!Capture, Job!Save, Job!Release, Job!Abandon,
           Job!StopStream, Job!Succeed, Job!Fail, Job!Succ, Job!vars,
           JobProofs!Next, JobProofs!GoLive, JobProofs!Capture, JobProofs!Save,
           JobProofs!Release, JobProofs!Abandon, JobProofs!StopStream, JobProofs!Succeed,
           JobProofs!Fail, JobProofs!Succ, JobProofs!vars
  <1>5. JobProofs!Contiguous => Job!Contiguous
    BY DEF Job!Contiguous, JobProofs!Contiguous, Job!Succ, JobProofs!Succ
  <1> QED
    BY <1>2, <1>3, <1>4, <1>5, TheJobIsImplemented, PTL
       DEF ImplementsCaptureJob, Job!Spec, JobProofs!Spec

(* main returns 0 only with FrameCount frames saved, unless mq_open fails or *)
(* mq_receive does: the run "incomplete" shows that these two exceptions are *)
(* needed.                                                                   *)
THEOREM SuccessMeansComplete ==
    ASSUME "mqOpen" \notin Faults, "receive" \notin Faults
    PROVE  Spec => []SuccessIsComplete
  <1> DEFINE Complete == SuccessIsComplete /\ saverRc # "error"
  <1>1. Job!Init => Complete
    BY DEF Job!Init, SuccessIsComplete
  <1>2. Complete /\ [Job!Next]_(Job!vars) => Complete'
    <2> SUFFICES ASSUME Complete, [Job!Next]_(Job!vars) PROVE Complete'
      OBVIOUS
    <2>1. ~Job!Abandon
      BY DEF Job!Abandon
    <2> QED
      BY <2>1 DEF SuccessIsComplete, Job!Next, Job!GoLive, Job!Capture, Job!Save, Job!Release,
             Job!StopStream, Job!Succeed, Job!Fail, Job!vars
  <1>3. Complete => SuccessIsComplete
    OBVIOUS
  <1> QED
    BY <1>1, <1>2, <1>3, TheJobIsImplemented, PTL DEF ImplementsCaptureJob, Job!Spec
=============================================================================
