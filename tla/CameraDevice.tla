---------------------------- MODULE CameraDevice -----------------------------
(***************************************************************************)
(* synchronome/camera.cpp: how main opens, maps and starts the device, and *)
(* stops, unmaps and closes it, one system call at a time.  The modules    *)
(* Camera and Synchronome take startCamera and stopCamera as one step each;*)
(* ImplementsCamera says that nothing can tell the difference.             *)
(*                                                                         *)
(* Any call may fail, and then the program ends; xioctl repeats a call     *)
(* that was interrupted.  The format is printed and stored, and no later   *)
(* step reads it.                                                          *)
(***************************************************************************)
EXTENDS Camera, Functions

CONSTANT sRequestBuffers    \* what VIDIOC_REQBUFS asks for

(* The driver may grant fewer buffers, or more. *)
ASSUME RequestAssumption == sRequestBuffers \in Nat \ {0}

VARIABLES
    step,         \* the next call of main
    i,            \* the loop variable of the call, counted from 1
    mFd,          \* the device is open
    mapped,       \* the buffers whose memory is mapped
    held          \* the buffers the services hold handlers of

deviceVars == <<cameraVars, step, i, mFd, mapped, held>>

Init ==
    /\ CameraInit
    /\ step = "openDevice" /\ i = 1
    /\ mFd = FALSE
    /\ mapped = {} /\ held = {}

(* errnoExit: every call of this module is checked. *)
Fail ==
    /\ step \notin {"streaming", "return", "exit"}
    /\ step' = "exit"
    /\ UNCHANGED <<cameraVars, i, mFd, mapped, held>>

(* stat and open. *)
OpenDevice ==
    /\ step = "openDevice"
    /\ step' = "initDevice"
    /\ mFd' = TRUE
    /\ UNCHANGED <<cameraVars, i, mapped, held>>

(* The device is a camera that streams YUYV, and takes the size asked for;  *)
(* the cropping may be refused.                                             *)
InitDevice ==
    /\ step = "initDevice"
    /\ step' = "requestBuffers"
    /\ UNCHANGED <<cameraVars, i, mFd, mapped, held>>

(* VIDIOC_REQBUFS grants NumBuffers; with fewer than two the program ends.  *)
RequestBuffers ==
    /\ step = "requestBuffers"
    /\ step' = "mapBuffer" /\ i' = 1
    /\ UNCHANGED <<cameraVars, mFd, mapped, held>>

(* One pass of a loop over the buffers, and what follows it. *)
NextBuffer(count, this, next) ==
    /\ step = this
    /\ i <= count
    /\ IF i = count THEN step' = next /\ i' = 1
                    ELSE step' = this /\ i' = i + 1

(* initMmap: VIDIOC_QUERYBUF and mmap. *)
MapBuffer ==
    /\ NextBuffer(NumBuffers, "mapBuffer", "queueBuffer")
    /\ mapped' = mapped \union {i}
    /\ UNCHANGED <<cameraVars, mFd, held>>

(* A slip: the stream is on before the last buffer is queued. *)
QueueBufferButLast ==
    /\ NextBuffer(NumBuffers - 1, "queueBuffer", "streamOn")
    /\ queued' = Append(queued, i)
    /\ UNCHANGED <<streaming, filled, yuyv, stamp, mFd, mapped, held>>

(* startCapturing: VIDIOC_QBUF, while the stream is off. *)
QueueBuffer ==
    /\ NextBuffer(NumBuffers, "queueBuffer", "streamOn")
    /\ queued' = Append(queued, i)
    /\ UNCHANGED <<streaming, filled, yuyv, stamp, mFd, mapped, held>>

(* startCapturing: VIDIOC_STREAMON. *)
StreamOn ==
    /\ step = "streamOn"
    /\ step' = "streaming"
    /\ streaming' = TRUE
    /\ UNCHANGED <<queued, filled, yuyv, stamp, i, mFd, mapped, held>>

(* The driver and the services use the device. *)
Use ==
    /\ step = "streaming"
    /\ \/ Capture /\ UNCHANGED held
       \/ Dequeue /\ held' = held \union {Head(filled)}
       \/ \E b \in held : ReturnBuffer(b) /\ held' = held \ {b}
    /\ UNCHANGED <<step, i, mFd, mapped>>

(* The services have ended (Synchronome: main has joined them); whatever    *)
(* handlers they had are gone.                                              *)
ServicesEnd ==
    /\ step = "streaming"
    /\ step' = "streamOff"
    /\ held' = {}
    /\ UNCHANGED <<cameraVars, i, mFd, mapped>>

(* A slip: nothing is stopped before the memory is unmapped. *)
StreamOffMissing ==
    /\ step = "streamOff"
    /\ step' = "unmapBuffer"
    /\ streaming' = FALSE
    /\ UNCHANGED <<queued, filled, yuyv, stamp, i, mFd, mapped, held>>

(* stopCapturing: VIDIOC_STREAMOFF takes every buffer from the driver. *)
StreamOff ==
    /\ step = "streamOff"
    /\ step' = "unmapBuffer"
    /\ StopCapturing
    /\ UNCHANGED <<i, mFd, mapped, held>>

(* A slip: off by one. *)
UnmapBufferButLast ==
    /\ NextBuffer(NumBuffers - 1, "unmapBuffer", "closeDevice")
    /\ mapped' = mapped \ {i}
    /\ UNCHANGED <<cameraVars, mFd, held>>

(* uninitDevice: munmap. *)
UnmapBuffer ==
    /\ NextBuffer(NumBuffers, "unmapBuffer", "closeDevice")
    /\ mapped' = mapped \ {i}
    /\ UNCHANGED <<cameraVars, mFd, held>>

(* closeDevice; main goes on to its return. *)
CloseDevice ==
    /\ step = "closeDevice"
    /\ step' = "return"
    /\ mFd' = FALSE
    /\ UNCHANGED <<cameraVars, i, mapped, held>>

Next ==
    \/ OpenDevice \/ InitDevice \/ RequestBuffers \/ MapBuffer
    \/ QueueBuffer \/ StreamOn \/ Use \/ ServicesEnd
    \/ StreamOff \/ UnmapBuffer \/ CloseDevice \/ Fail

Spec == Init /\ [][Next]_deviceVars

-----------------------------------------------------------------------------
Steps == {"openDevice", "initDevice", "requestBuffers", "mapBuffer",
          "queueBuffer", "streamOn", "streaming", "streamOff", "unmapBuffer",
          "closeDevice", "return", "exit"}

(* Every variable keeps its type; no loop leaves the array mBuffers. *)
TypeOK ==
    /\ step \in Steps
    /\ i \in Buffers
    /\ mFd \in BOOLEAN /\ streaming \in BOOLEAN
    /\ mapped \subseteq Buffers /\ held \subseteq Buffers
    /\ queued \in Seq(Buffers) /\ filled \in Seq(Buffers)
    /\ yuyv \in [Buffers -> Frames] /\ stamp \in Frames

(* What the driver may write to, or a service read, is mapped and belongs   *)
(* to an open device: start and stop run in opposite orders.                *)
OwnedIsMapped ==
    \A b \in Range(queued) \union Range(filled) \union held :
        mFd /\ b \in mapped

(* When main gets as far as its return, every mapping is gone and the       *)
(* device is closed.                                                        *)
NothingLeft == step = "return" => mapped = {} /\ ~mFd

(* The buffers queued before VIDIOC_STREAMON are no concern of the driver.  *)
Device == INSTANCE Camera WITH queued <- IF streaming THEN queued ELSE <<>>

DeviceNext ==
    \/ ~streaming /\ Device!StartCapturing
    \/ Device!Capture
    \/ Device!Dequeue
    \/ \E b \in held : Device!ReturnBuffer(b)
    \/ streaming /\ Device!StopCapturing

(* Call by call, main and the driver do what Camera does in one step each:  *)
(* the stream starts with every buffer queued, in order and empty, and ends *)
(* with none; a failure on the way shows nothing of itself.                 *)
ImplementsCamera == Device!CameraInit /\ [][DeviceNext]_(Device!cameraVars)
=============================================================================
