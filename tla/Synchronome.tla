----------------------------- MODULE Synchronome -----------------------------
(***************************************************************************)
(* synchronome: the whole program.  main starts the camera and three       *)
(* services that run concurrently and are coupled by two POSIX message     *)
(* queues:                                                                 *)
(*                                                                         *)
(*   driver --> CameraService --cameraMq--> TickDetectorService            *)
(*     ^                                      |         |                  *)
(*     +------------- VIDIOC_QBUF ------------+      tickMq                *)
(*                                                      v                  *)
(*   TickDetector's pool <--- returnBuffer --- ImageSaverService           *)
(*                                                                         *)
(* The messages are handlers: they carry pointers to the buffers, never a  *)
(* copy of a picture, so every safety property is about who owns a buffer. *)
(* One action is one system call or one uninterrupted piece of a thread    *)
(* between two of them; exit() ends all threads at once.                   *)
(***************************************************************************)
EXTENDS Service, Camera, TickDetector, FiniteSets, SequencesExt

CONSTANTS
    NumMessages,   \* main.cpp sNumMessages: mq_maxmsg of both queues
    FrameCount,    \* the number of frames to save, option -c
    SaveAll,       \* ImageSaverService::Config::saveAll
    Faults         \* what the environment may do wrong, see FaultKinds

(* mqOpen: mq_open returns -1.  receive: mq_receive or mq_timedreceive on a *)
(* queue that is open returns -1 with an error that is not ETIMEDOUT, as    *)
(* when a signal interrupts it.  thread: pthread_create fails.              *)
(* device: an ioctl on the camera fails for good.  transient: select is     *)
(* interrupted, or VIDIOC_DQBUF answers EIO; the driver keeps the buffer.   *)
(* stall: the camera delivers no picture for two seconds.                   *)
(* shortFrame: a picture has another size than the first one.               *)
(* file: the image file cannot be opened.  diskFull: write() returns -1.    *)
FaultKinds == {"mqOpen", "receive", "thread", "device", "transient", "stall",
               "shortFrame", "file", "diskFull"}

(* main refuses a count that is not positive. *)
ASSUME SynchronomeAssumption ==
    /\ NumMessages \in Nat /\ NumMessages >= 1
    /\ FrameCount \in Nat /\ FrameCount >= 1
    /\ SaveAll \in BOOLEAN
    /\ Faults \subseteq FaultKinds

(* Both queues hold every handler there can be: 40 messages, 25 camera     *)
(* buffers, 20 RGB buffers.                                                *)
ASSUME QueuesAreLargeEnough ==
    /\ NumBuffers <= NumMessages
    /\ NumRgb <= NumMessages

VARIABLES
    process,      \* "running", "success" (main returned 0) or "failure"
    cameraMq,     \* the camera queue: camera buffers, oldest first
    tickMq,       \* the tick queue: RgbHandlers, oldest first
    opened,       \* the ends of the queues whose mq_open succeeded
    cameraBuffer, \* the unique_ptr of CameraService::service
    tickBuffer,   \* the BufferHandler of TickDetectorService::service
    tickRgb,      \* its RgbHandler: the new picture, then execute's result
    saverRgb,     \* the RgbHandler of ImageSaverService::service
    saverRc,      \* its rc: "error" when mq_receive returned -1, or "ok"
    saved         \* the saver's count

vars == <<pc, mSemExit, streaming, queued, filled, yuyv, stamp, mAvailable,
          mOldImage, mState, rgbImage, process, cameraMq, tickMq, opened,
          cameraBuffer, tickBuffer, tickRgb, saverRgb, saverRc, saved>>

serviceVars == <<pc, mSemExit>>
queueVars == <<cameraMq, tickMq, opened>>
handlerVars == <<cameraBuffer, tickBuffer, tickRgb, saverRgb, saverRc, saved>>

QueueEnds == {"camera.out", "tick.in", "tick.out", "saver.in"}

(* The two named queues outlive a process: what an earlier run that died   *)
(* left in them is still there when the program starts.                    *)
Init ==
    /\ ServiceInit /\ CameraInit /\ TickDetectorInit
    /\ process = "running"
    /\ cameraMq \in {<<>>, <<1>>}
    /\ tickMq \in {<<>>, <<[mStart |-> 1, mIsTick |-> TRUE]>>}
    /\ opened = {}
    /\ cameraBuffer = NoBuffer /\ tickBuffer = NoBuffer
    /\ tickRgb = NullRgb /\ saverRgb = NullRgb
    /\ saverRc = "ok" /\ saved = 0

-----------------------------------------------------------------------------
(* Helpers *)

(* errnoExit, exit(EXIT_FAILURE): the process is gone, whoever calls it. *)
ExitFailure ==
    /\ process' = "failure"
    /\ UNCHANGED <<serviceVars, cameraVars, tickDetectorVars, queueVars,
                   handlerVars>>

(* The outcomes of mq_open on one end of a queue. *)
MqOpen(end) ==
    \/ opened' = opened \cup {end}
    \/ /\ "mqOpen" \in Faults
       /\ UNCHANGED opened

(* A receive returns -1, and not because its time is over: its mq_open gave *)
(* no queue, or the call itself fails.                                      *)
ReceiveFails(end) == end \notin opened \/ "receive" \in Faults

-----------------------------------------------------------------------------
(* main *)

(* A slip: the queues are not unlinked. *)
MainKeepsQueues ==
    /\ Goto("main", "unlink", "startCamera")
    /\ UNCHANGED <<mSemExit, cameraVars, tickDetectorVars, process, queueVars,
                   handlerVars>>

(* mq_unlink: the queues of an earlier run are thrown away. *)
MainUnlink ==
    /\ Goto("main", "unlink", "startCamera")
    /\ cameraMq' = <<>> /\ tickMq' = <<>>
    /\ UNCHANGED <<mSemExit, cameraVars, tickDetectorVars, process, opened,
                   handlerVars>>

(* sCameraService.startCamera. *)
MainStartCamera ==
    /\ pc["main"] = "startCamera"
    /\ \/ /\ Goto("main", "startCamera", "startServices")
          /\ StartCapturing
          /\ UNCHANGED <<mSemExit, tickDetectorVars, process, queueVars,
                         handlerVars>>
       \/ /\ "device" \in Faults
          /\ ExitFailure

(* The three calls of start, in this order; pthread_create may fail. *)
MainStartService ==
    \/ /\ \/ Start("camera", "startServices", "startTick")
          \/ Start("tick", "startTick", "startSaver")
          \/ Start("saver", "startSaver", "joinSaver")
       /\ UNCHANGED <<cameraVars, tickDetectorVars, process, queueVars,
                      handlerVars>>
    \/ /\ pc["main"] \in {"startServices", "startTick", "startSaver"}
       /\ "thread" \in Faults
       /\ ExitFailure

(* main waits for the saver, then flags and joins the other two services. *)
MainShutdown ==
    /\ \/ Join("saver", "joinSaver", "flagCamera")
       \/ FlagExit("camera", "flagCamera", "flagTick")
       \/ FlagExit("tick", "flagTick", "joinCamera")
       \/ Join("camera", "joinCamera", "joinTick")
       \/ Join("tick", "joinTick", "stopCamera")
    /\ UNCHANGED <<cameraVars, tickDetectorVars, process, queueVars,
                   handlerVars>>

(* sCameraService.stopCamera. *)
MainStopCamera ==
    /\ pc["main"] = "stopCamera"
    /\ \/ /\ Goto("main", "stopCamera", "return")
          /\ StopCapturing
          /\ UNCHANGED <<mSemExit, tickDetectorVars, process, queueVars,
                         handlerVars>>
       \/ /\ "device" \in Faults
          /\ ExitFailure

(* The queues are unlinked and main returns 0. *)
MainReturn ==
    /\ pc["main"] = "return"
    /\ process' = "success"
    /\ cameraMq' = <<>> /\ tickMq' = <<>>
    /\ UNCHANGED <<serviceVars, cameraVars, tickDetectorVars, opened,
                   handlerVars>>

Main ==
    \/ MainUnlink \/ MainStartCamera \/ MainStartService
    \/ MainShutdown \/ MainStopCamera \/ MainReturn

-----------------------------------------------------------------------------
(* The driver and the sensor *)

DriverCapture ==
    /\ Capture
    /\ UNCHANGED <<serviceVars, tickDetectorVars, process, queueVars,
                   handlerVars>>

-----------------------------------------------------------------------------
(* CameraService::service *)

CameraOpen ==
    /\ Goto("camera", "open", "check")
    /\ MqOpen("camera.out")
    /\ UNCHANGED <<mSemExit, cameraVars, tickDetectorVars, process, cameraMq,
                   tickMq, handlerVars>>

CameraCheckExit ==
    /\ DoExit("camera", "select")
    /\ UNCHANGED <<cameraVars, tickDetectorVars, process, queueVars,
                   handlerVars>>

(* waitTilReady: select returns when a picture is ready, and ends the       *)
(* process after two seconds without one.  They pass when the driver has no *)
(* buffer to fill, or when the camera stalls.                               *)
CameraSelect ==
    /\ pc["camera"] = "select"
    /\ \/ /\ filled # <<>>
          /\ Goto("camera", "select", "dequeue")
          /\ UNCHANGED <<mSemExit, cameraVars, tickDetectorVars, process,
                         queueVars, handlerVars>>
       \/ /\ "transient" \in Faults
          /\ Goto("camera", "select", "check")
          /\ UNCHANGED <<mSemExit, cameraVars, tickDetectorVars, process,
                         queueVars, handlerVars>>
       \/ /\ filled = <<>>
          /\ queued = <<>> \/ "stall" \in Faults
          /\ ExitFailure
       \/ /\ "device" \in Faults
          /\ ExitFailure

(* readFrame. *)
CameraReadFrame ==
    /\ pc["camera"] = "dequeue"
    /\ \/ /\ Goto("camera", "dequeue", "send")
          /\ Dequeue
          /\ cameraBuffer' = Head(filled)
          /\ UNCHANGED <<mSemExit, tickDetectorVars, process, queueVars,
                         tickBuffer, tickRgb, saverRgb, saverRc, saved>>
       \/ /\ "transient" \in Faults
          /\ Goto("camera", "dequeue", "check")
          /\ UNCHANGED <<mSemExit, cameraVars, tickDetectorVars, process,
                         queueVars, handlerVars>>
       \/ /\ "device" \in Faults
          /\ ExitFailure

(* mq_send: it blocks while the queue is full, and its result is ignored.   *)
CameraSend ==
    /\ Goto("camera", "send", "sleep")
    /\ \/ /\ "camera.out" \in opened
          /\ Len(cameraMq) < NumMessages
          /\ cameraMq' = Append(cameraMq, cameraBuffer)
       \/ /\ "camera.out" \notin opened
          /\ UNCHANGED cameraMq
    /\ UNCHANGED <<mSemExit, cameraVars, tickDetectorVars, process, tickMq,
                   opened, handlerVars>>

(* nanosleep; at the end of the loop body the unique_ptr deletes its        *)
(* handler, which has no destructor of its own.                             *)
CameraSleep ==
    /\ Goto("camera", "sleep", "check")
    /\ cameraBuffer' = NoBuffer
    /\ UNCHANGED <<mSemExit, cameraVars, tickDetectorVars, process, queueVars,
                   tickBuffer, tickRgb, saverRgb, saverRc, saved>>

CameraThread ==
    \/ CameraOpen \/ CameraCheckExit \/ CameraSelect \/ CameraReadFrame
    \/ CameraSend \/ CameraSleep

-----------------------------------------------------------------------------
(* TickDetectorService::service *)

TickOpenIn ==
    /\ Goto("tick", "open", "openOut")
    /\ MqOpen("tick.in")
    /\ UNCHANGED <<mSemExit, cameraVars, tickDetectorVars, process, cameraMq,
                   tickMq, handlerVars>>

TickOpenOut ==
    /\ Goto("tick", "openOut", "check")
    /\ MqOpen("tick.out")
    /\ UNCHANGED <<mSemExit, cameraVars, tickDetectorVars, process, cameraMq,
                   tickMq, handlerVars>>

TickCheckExit ==
    /\ DoExit("tick", "receive")
    /\ UNCHANGED <<cameraVars, tickDetectorVars, process, queueVars,
                   handlerVars>>

(* A slip: mq_receive instead of mq_timedreceive. *)
TickReceiveForever ==
    /\ \/ /\ "tick.in" \in opened
          /\ cameraMq # <<>>
          /\ tickBuffer' = Head(cameraMq)
          /\ cameraMq' = Tail(cameraMq)
          /\ Goto("tick", "receive", "allocate")
       \/ /\ ReceiveFails("tick.in")
          /\ Goto("tick", "receive", "exited")
          /\ UNCHANGED <<tickBuffer, cameraMq>>
    /\ UNCHANGED <<mSemExit, cameraVars, tickDetectorVars, process, tickMq,
                   opened, cameraBuffer, tickRgb, saverRgb, saverRc, saved>>

(* mq_timedreceive: a handler, a timeout after a second without one, or     *)
(* another error, whichever it is, after which the thread leaves its loop.  *)
TickReceive ==
    /\ \/ /\ "tick.in" \in opened
          /\ cameraMq # <<>>
          /\ tickBuffer' = Head(cameraMq)
          /\ cameraMq' = Tail(cameraMq)
          /\ Goto("tick", "receive", "allocate")
       \/ /\ "tick.in" \in opened
          /\ cameraMq = <<>>
          /\ Goto("tick", "receive", "check")
          /\ UNCHANGED <<tickBuffer, cameraMq>>
       \/ /\ ReceiveFails("tick.in")
          /\ Goto("tick", "receive", "exited")
          /\ UNCHANGED <<tickBuffer, cameraMq>>
    /\ UNCHANGED <<mSemExit, cameraVars, tickDetectorVars, process, tickMq,
                   opened, cameraBuffer, tickRgb, saverRgb, saverRc, saved>>

(* colorConvert takes a buffer; execute ends the process if there is none.  *)
TickAllocate ==
    /\ pc["tick"] = "allocate"
    /\ \/ /\ Allocated # NullRgb
          /\ Allocate
          /\ tickRgb' = Allocated
          /\ Goto("tick", "allocate", "convert")
          /\ UNCHANGED <<mSemExit, cameraVars, process, queueVars,
                         cameraBuffer, tickBuffer, saverRgb, saverRc, saved>>
       \/ /\ Allocated = NullRgb
          /\ ExitFailure

(* The conversion reads the mapped camera buffer and writes the RGB buffer. *)
TickConvert ==
    /\ Goto("tick", "convert", "execute")
    /\ ColorConvert(tickRgb, yuyv[tickBuffer])
    /\ UNCHANGED <<mSemExit, cameraVars, process, queueVars, handlerVars>>

(* The rest of execute; its result replaces the new picture in tickRgb.     *)
TickExecute ==
    /\ pc["tick"] = "execute"
    /\ \/ /\ ExecuteFirst(tickRgb)
          /\ tickRgb' = NullRgb
          /\ Goto("tick", "execute", "requeue")
          /\ UNCHANGED <<mSemExit, cameraVars, process, queueVars,
                         cameraBuffer, tickBuffer, saverRgb, saverRc, saved>>
       \/ /\ \E level \in Levels : ExecuteNext(tickRgb, level)
          /\ tickRgb' = mOldImage
          /\ Goto("tick", "execute", "requeue")
          /\ UNCHANGED <<mSemExit, cameraVars, process, queueVars,
                         cameraBuffer, tickBuffer, saverRgb, saverRc, saved>>
       \/ /\ "shortFrame" \in Faults
          /\ mOldImage # NullRgb
          /\ ExitFailure

(* A slip: the camera buffer is not given back when execute returned no     *)
(* picture.                                                                 *)
TickRequeueIfResult ==
    /\ pc["tick"] = "requeue"
    /\ IF tickRgb = NullRgb THEN UNCHANGED cameraVars
       ELSE ReturnBuffer(tickBuffer)
    /\ tickBuffer' = NoBuffer
    /\ Goto("tick", "requeue", IF tickRgb = NullRgb THEN "check" ELSE "send")
    /\ UNCHANGED <<mSemExit, tickDetectorVars, process, queueVars,
                   cameraBuffer, tickRgb, saverRgb, saverRc, saved>>

(* handler.returnBuffer(). *)
TickRequeue ==
    /\ pc["tick"] = "requeue"
    /\ \/ /\ ReturnBuffer(tickBuffer)
          /\ tickBuffer' = NoBuffer
          /\ Goto("tick", "requeue", IF tickRgb = NullRgb THEN "check"
                                     ELSE "send")
          /\ UNCHANGED <<mSemExit, tickDetectorVars, process, queueVars,
                         cameraBuffer, tickRgb, saverRgb, saverRc, saved>>
       \/ /\ "device" \in Faults
          /\ ExitFailure

(* mq_send to the saver: it blocks while the queue is full; its failure     *)
(* ends the process.                                                        *)
TickSend ==
    /\ pc["tick"] = "send"
    /\ \/ /\ "tick.out" \in opened
          /\ Len(tickMq) < NumMessages
          /\ tickMq' = Append(tickMq, tickRgb)
          /\ tickRgb' = NullRgb
          /\ Goto("tick", "send", "check")
          /\ UNCHANGED <<mSemExit, cameraVars, tickDetectorVars, process,
                         cameraMq, opened, cameraBuffer, tickBuffer, saverRgb,
                         saverRc, saved>>
       \/ /\ "tick.out" \notin opened
          /\ ExitFailure

TickThread ==
    \/ TickOpenIn \/ TickOpenOut \/ TickCheckExit \/ TickReceive
    \/ TickAllocate \/ TickConvert \/ TickExecute \/ TickRequeue \/ TickSend

-----------------------------------------------------------------------------
(* ImageSaverService::service *)

SaverOpen ==
    /\ Goto("saver", "open", "receive")
    /\ MqOpen("saver.in")
    /\ UNCHANGED <<mSemExit, cameraVars, tickDetectorVars, process, cameraMq,
                   tickMq, handlerVars>>

(* A slip: the buffer goes back to the pool before it is saved.             *)
SaverReceiveAndReturn ==
    /\ tickMq # <<>>
    /\ Goto("saver", "receive",
            IF Head(tickMq).mIsTick \/ SaveAll THEN "save" ELSE "return")
    /\ saverRgb' = Head(tickMq)
    /\ tickMq' = Tail(tickMq)
    /\ ReturnRgb(Head(tickMq))
    /\ UNCHANGED <<mSemExit, cameraVars, process, cameraMq, opened,
                   cameraBuffer, tickBuffer, tickRgb, saverRc, saved>>

(* mq_receive has no timeout; any error makes the thread leave its loop.    *)
SaverReceive ==
    /\ \/ /\ "saver.in" \in opened
          /\ tickMq # <<>>
          /\ saverRgb' = Head(tickMq)
          /\ tickMq' = Tail(tickMq)
          /\ saverRc' = "ok"
          /\ Goto("saver", "receive",
                  IF Head(tickMq).mIsTick \/ SaveAll THEN "save" ELSE "return")
       \/ /\ ReceiveFails("saver.in")
          /\ saverRc' = "error"
          /\ Goto("saver", "receive", "exited")
          /\ UNCHANGED <<saverRgb, tickMq>>
    /\ UNCHANGED <<mSemExit, cameraVars, tickDetectorVars, process, cameraMq,
                   opened, cameraBuffer, tickBuffer, tickRgb, saved>>

(* processImage: the picture is in its file.  It ends the process when the  *)
(* file cannot be opened, and repeats a write() that returns -1 for ever.   *)
SaverSave ==
    /\ pc["saver"] = "save"
    /\ \/ /\ Goto("saver", "save", "return")
          /\ saved' = saved + 1
          /\ UNCHANGED <<mSemExit, cameraVars, tickDetectorVars, process,
                         queueVars, cameraBuffer, tickBuffer, tickRgb,
                         saverRgb, saverRc>>
       \/ /\ "diskFull" \in Faults
          /\ Goto("saver", "save", "spin")
          /\ UNCHANGED <<mSemExit, cameraVars, tickDetectorVars, process,
                         queueVars, handlerVars>>
       \/ /\ "file" \in Faults
          /\ ExitFailure

(* A slip: the loop condition is count <= frameCount.                       *)
SaverReturnOneMore ==
    /\ Goto("saver", "return", IF saved <= FrameCount THEN "receive"
                               ELSE "exited")
    /\ ReturnRgb(saverRgb)
    /\ saverRgb' = NullRgb
    /\ process' = IF PoolOverfull' THEN "failure" ELSE process
    /\ UNCHANGED <<mSemExit, cameraVars, queueVars, cameraBuffer, tickBuffer,
                   tickRgb, saverRc, saved>>

(* handler.returnBuffer() and the loop condition.  The process ends if the  *)
(* pool has become larger than it was.                                      *)
SaverReturn ==
    /\ Goto("saver", "return", IF saved < FrameCount THEN "receive"
                               ELSE "exited")
    /\ ReturnRgb(saverRgb)
    /\ saverRgb' = NullRgb
    /\ process' = IF PoolOverfull' THEN "failure" ELSE process
    /\ UNCHANGED <<mSemExit, cameraVars, queueVars, cameraBuffer, tickBuffer,
                   tickRgb, saverRc, saved>>

SaverThread ==
    \/ SaverOpen \/ SaverReceive \/ SaverSave \/ SaverReturn

-----------------------------------------------------------------------------
(* The process *)

(* The process has ended; TLC would otherwise call its end a deadlock. *)
Ended == process # "running" /\ UNCHANGED vars

(* A step of a running process. *)
Step(A) == process = "running" /\ A

Next ==
    \/ Step(Main)
    \/ Step(DriverCapture)
    \/ Step(CameraThread)
    \/ Step(TickThread)
    \/ Step(SaverThread)
    \/ Ended

Spec == Init /\ [][Next]_vars

(* The receive of service s on an open queue comes back with an error. *)
Interrupted(s, end) ==
    pc[s] = "receive" /\ pc'[s] = "exited" /\ end \in opened

(* The kernel runs every thread that is not blocked, and a streaming camera *)
(* with a queued buffer delivers a picture.  No error is certain to come to *)
(* the help of a service that waits in a receive, and select and            *)
(* VIDIOC_DQBUF are not interrupted again and again for ever.               *)
FairSpec ==
    /\ Spec
    /\ WF_vars(Step(Main))
    /\ WF_vars(Step(DriverCapture))
    /\ WF_vars(Step(CameraThread))
    /\ WF_vars(Step(TickThread) /\ ~Interrupted("tick", "tick.in"))
    /\ WF_vars(Step(SaverThread) /\ ~Interrupted("saver", "saver.in"))
    /\ SF_vars(Step(CameraSelect) /\ pc'["camera"] # "check")
    /\ SF_vars(Step(CameraReadFrame) /\ pc'["camera"] # "check")

-----------------------------------------------------------------------------
(* Type invariant *)

MainPoints == {"unlink", "startCamera", "startServices", "startTick",
               "startSaver", "joinSaver", "flagCamera", "flagTick",
               "joinCamera", "joinTick", "stopCamera", "return"}
CameraPoints == {"none", "open", "check", "select", "dequeue", "send", "sleep",
                 "exited"}
TickPoints == {"none", "open", "openOut", "check", "receive", "allocate",
               "convert", "execute", "requeue", "send", "exited"}
SaverPoints == {"none", "open", "receive", "save", "return", "spin", "exited"}

Points == MainPoints \cup CameraPoints \cup TickPoints \cup SaverPoints

(* Every variable of the program keeps its type; the saver never counts     *)
(* more pictures than the frameCount it was configured with.                *)
TypeOK ==
    /\ pc \in [Threads -> Points]
    /\ pc["main"] \in MainPoints /\ pc["camera"] \in CameraPoints
    /\ pc["tick"] \in TickPoints /\ pc["saver"] \in SaverPoints
    /\ mSemExit \in [Services -> Nat]
    /\ streaming \in BOOLEAN
    /\ queued \in Seq(Buffers) /\ filled \in Seq(Buffers)
    /\ yuyv \in [Buffers -> Frames] /\ stamp \in Frames
    /\ mAvailable \in Seq(RgbBuffers)
    /\ mOldImage \in RgbHandlers \cup {NullRgb}
    /\ mState \in {"Still", "Moving"}
    /\ rgbImage \in [RgbBuffers -> Frames]
    /\ process \in {"running", "success", "failure"}
    /\ cameraMq \in Seq(Buffers) /\ tickMq \in Seq(RgbHandlers)
    /\ opened \subseteq QueueEnds
    /\ cameraBuffer \in Buffers \cup {NoBuffer}
    /\ tickBuffer \in Buffers \cup {NoBuffer}
    /\ tickRgb \in RgbHandlers \cup {NullRgb}
    /\ saverRgb \in RgbHandlers \cup {NullRgb}
    /\ saverRc \in {"ok", "error"}
    /\ saved \in 0 .. FrameCount

-----------------------------------------------------------------------------
(* Who owns a buffer *)

(* A handler held by a thread, as a sequence of at most one. *)
Held(handler, nothing) == IF handler = nothing THEN <<>> ELSE <<handler>>

(* The camera thread owns its buffer until mq_send has passed it on. *)
CameraHeld == IF pc["camera"] = "send" THEN <<cameraBuffer>> ELSE <<>>

(* The camera buffers in all the places they can be, from the one that is   *)
(* given back next to the one that was given back last.                     *)
BufferPlaces ==
    Held(tickBuffer, NoBuffer) \o cameraMq \o CameraHeld \o filled \o queued

Starts(handlers) == [i \in DOMAIN handlers |-> handlers[i].mStart]

(* execute's result is older than mOldImage, the picture it is given newer. *)
TickHasNew == pc["tick"] \in {"convert", "execute"}

(* The handlers of RGB buffers outside the pool, the oldest picture first.  *)
RgbHandlersOut ==
    Held(saverRgb, NullRgb) \o tickMq
        \o (IF TickHasNew THEN <<>> ELSE Held(tickRgb, NullRgb))
        \o Held(mOldImage, NullRgb)
        \o (IF TickHasNew THEN Held(tickRgb, NullRgb) ELSE <<>>)

RgbPlaces == Starts(RgbHandlersOut) \o mAvailable

(* From mq_unlink on the queues hold handlers of this process only. *)
Started == pc["main"] # "unlink"

(* A camera buffer is in one place at a time: never queued to the driver    *)
(* while a handler of it is in the camera queue or with a thread, and never *)
(* in a handler twice.  Holds whatever fails.                               *)
BuffersOwnedOnce == Started => IsInjective(BufferPlaces)

(* While the device streams, every buffer VIDIOC_REQBUFS granted is         *)
(* somewhere: none leaks through the three threads, whatever fails, as long *)
(* as the camera's mq_open did not fail.                                    *)
NoBufferLost ==
    streaming /\ (pc["camera"] \in {"none", "open"} \/ "camera.out" \in opened)
        => Len(BufferPlaces) = NumBuffers

(* The RGB buffers are partitioned among the pool, mOldImage, the threads   *)
(* and the tick queue: colorConvert never writes over a picture that waits  *)
(* for the saver, is being saved or is compared against, and returnBuffer   *)
(* never finds the pool with too many elements.                             *)
RgbOwnedOnce ==
    Started => /\ IsInjective(RgbPlaces)
               /\ process # "success" => Len(RgbPlaces) = NumRgb

(* Neither mq_send can block: a thread that is about to send finds room in  *)
(* its queue, so no thread waits in mq_send while main waits to join it.    *)
SendsNeverBlock ==
    /\ pc["camera"] = "send" => Len(cameraMq) < NumMessages
    /\ pc["tick"] = "send" => Len(tickMq) < NumMessages

(* stopCamera unmaps the buffers and closes the device only after no thread *)
(* can use them any more: the camera thread's select and VIDIOC_DQBUF, the  *)
(* conversion out of a mapped buffer and the VIDIOC_QBUF of the detector's  *)
(* thread all find the device streaming.                                    *)
DeviceInUse ==
    pc["camera"] \in {"select", "dequeue"} \/ tickBuffer # NoBuffer
        => streaming

-----------------------------------------------------------------------------
(* What happens to the pictures *)

(* A tick is the return from Moving to Still: between two pictures flagged  *)
(* as ticks there is one that is not, wherever they are on their way to the *)
(* saver, so one movement of the hand is never saved twice.                 *)
TicksSeparated ==
    Started =>
        /\ \A i \in 1 .. Len(RgbHandlersOut) - 1 :
               ~(RgbHandlersOut[i].mIsTick /\ RgbHandlersOut[i + 1].mIsTick)
        /\ mOldImage.mIsTick => mState = "Still"

(* The pictures between the sensor and the end of the saver's work, oldest  *)
(* first, as they are read through the handlers under way.  The detector's  *)
(* new picture is still in the camera buffer until it is converted.         *)
Unconverted == pc["tick"] \in {"allocate", "convert"}

YuyvPath ==
    (IF Unconverted THEN <<tickBuffer>> ELSE <<>>) \o cameraMq \o CameraHeld \o filled

RgbPath ==
    Held(saverRgb, NullRgb) \o tickMq
        \o (IF TickHasNew THEN <<>> ELSE Held(tickRgb, NullRgb))
        \o Held(mOldImage, NullRgb)
        \o (IF pc["tick"] = "execute" THEN <<tickRgb>> ELSE <<>>)

RgbPictures(handlers) == [i \in DOMAIN handlers |-> rgbImage[handlers[i].mStart]]
YuyvPictures(buffers) == [i \in DOMAIN buffers |-> yuyv[buffers[i]]]

InFlight ==
    IF Started /\ process # "success"
    THEN RgbPictures(RgbPath) \o YuyvPictures(YuyvPath) ELSE <<>>

Job == INSTANCE CaptureJob WITH
           Capacity <- NumBuffers + NumRgb, flow <- InFlight, next <- stamp,
           live <- streaming, saved <- saved, status <- process,
           abandoned <- saverRc = "error",
           MayAbandon <- Faults \cap {"mqOpen", "receive"} # {}

(* The three threads, the driver, two queues and two sets of buffers are    *)
(* one FIFO of pictures: each is saved or skipped in the order and with the *)
(* contents the sensor produced, none is lost or seen twice although only   *)
(* pointers travel, and main returns 0 only with FrameCount frames saved or *)
(* after the saver's mq_receive returned an error.                          *)
ImplementsCaptureJob == Job!Spec

(* main.cpp:108, the last thing a successful run says: "Total capture       *)
(* time=%lf, for %d frames", with the number option -c asked for.  When     *)
(* main returns 0, that many frames are saved.                              *)
SuccessIsComplete == process = "success" => saved = FrameCount

-----------------------------------------------------------------------------
(* What happens in the end *)

(* A service whose routine has returned, or that repeats a failing write(), *)
(* brings the process to its end: main tells the others to leave and they   *)
(* do, or they run out of buffers.  Nothing waits for ever.                 *)
ServiceLossEndsProcess ==
    (\E s \in Services : pc[s] \in {"exited", "spin"}) ~> process # "running"

(* The clock in front of the camera ticks: its hand does not rest, nor move,*)
(* for ever.                                                                *)
ClockTicks == SF_vars(Step(TickExecute) /\ mState' # mState)

(* With a ticking clock before the camera the program comes to its end.     *)
Finishes == ClockTicks => <>(process # "running")
=============================================================================
