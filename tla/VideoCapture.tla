---------------------------- MODULE VideoCapture ----------------------------
(***************************************************************************)
(* The one-threaded capture programs of the examples: open the camera,     *)
(* queue its buffers, stream, and take a number of frames, each through    *)
(* select, VIDIOC_DQBUF, VIDIOC_QBUF and a sleep, in an order of its own.  *)
(* simple_capture_linux runs with read(), mmap or user pointer I/O,        *)
(* capturelib with mmap and a ring of three frames of its own,             *)
(* simple_capture_concurrent with mmap and a handler whose destructor      *)
(* queues the buffer.  A frame is its number; every call may fail.  The     *)
(* pixel format is what the driver made of the YUYV that it was asked for.  *)
(***************************************************************************)
EXTENDS Integers, Sequences, FiniteSets, SequencesExt

CONSTANTS
    Buffers,      \* the buffers a program asks for; at least 2 are granted
    Startup,      \* the frames to ignore at the start: 8 and STARTUP_FRAMES
    Capture       \* the frames to take: frame_count and CAPTURE_FRAMES

ASSUME CaptureAssumption ==
    /\ Buffers \in Nat /\ Buffers >= 2
    /\ Startup \in Nat \ {0} /\ Capture \in Nat \ {0} /\ Capture >= Startup

RingSize == 3     \* 3 * FRAMES_PER_SEC
LastFrames == 1   \* LAST_FRAMES

-----------------------------------------------------------------------------
(* What is particular to each program: its I/O, whether a DQBUF that found  *)
(* nothing is followed by a QBUF, the calls after a frame was dequeued, how *)
(* many frames it takes, and the first one that its counter lets pass.      *)

LinuxRead ==
    [io |-> "read", requeues |-> FALSE,
     steps |-> <<"process", "sleep">>, takes |-> Capture, first |-> Startup - 1]
LinuxMmap ==
    [io |-> "mmap", requeues |-> FALSE,
     steps |-> <<"process", "requeue", "sleep">>, takes |-> Capture, first |-> Startup - 1]
LinuxUserptr ==
    [io |-> "userptr", requeues |-> FALSE,
     steps |-> <<"process", "requeue", "sleep">>, takes |-> Capture, first |-> Startup - 1]
Library ==
    [io |-> "mmap", requeues |-> FALSE,
     steps |-> <<"sleep", "ring", "requeue">>,
     takes |-> Capture + Startup + LastFrames, first |-> Startup + 1]
Concurrent ==
    [io |-> "mmap", requeues |-> TRUE,
     steps |-> <<"process", "sleep", "requeue">>, takes |-> Capture, first |-> 0]

Programs ==
    [read |-> LinuxRead, mmap |-> LinuxMmap, userptr |-> LinuxUserptr,
     library |-> Library, concurrent |-> Concurrent]

AsIs == {"grey", "rgb24"}      \* the formats that are stored unconverted
Blank == -1       \* what capturelib's scratchpad holds before a conversion

VARIABLES
    program,
    pc,           \* the call to make next
    format,       \* the pixel format that VIDIOC_S_FMT left
    opened,       \* the file descriptor is open
    mapped,       \* the buffers the program has
    granted,      \* how many the driver knows
    streaming,
    queued,       \* the driver's empty buffers, in order
    filled,       \* its full ones
    content,      \* the frame in each buffer
    shots,        \* frames the sensor took
    held,         \* the buffer in struct v4l2_buffer; 0 if cleared
    holds,        \* whether it was dequeued
    taken,        \* frames counted by the loop
    ring,         \* capturelib's copy: slots, tail, head
    stored,       \* the frames that were processed and stored
    cut,          \* a sleep was interrupted
    rejected      \* the driver refused a VIDIOC_QBUF

vars == <<program, pc, format, opened, mapped, granted, streaming, queued, filled, content,
          shots, held, holds, taken, ring, stored, cut, rejected>>
deviceVars == <<opened, mapped, granted, streaming>>
driverVars == <<queued, filled, content, shots>>
loopVars == <<format, held, holds, taken, ring, stored, cut, rejected>>

P == Programs[program]
Buffer == 0 .. Buffers - 1

Init ==
    /\ program \in DOMAIN Programs
    /\ pc = "open" /\ format = "none" /\ opened = FALSE
    /\ mapped = {} /\ granted = 0 /\ streaming = FALSE
    /\ queued = <<>> /\ filled = <<>> /\ content = [b \in Buffer |-> -1] /\ shots = 0
    /\ held = 0 /\ holds = FALSE /\ taken = 0
    /\ ring = [slot |-> [i \in 0 .. RingSize - 1 |-> -1], tail |-> 0, head |-> 0]
    /\ stored = <<>> /\ cut = FALSE /\ rejected = FALSE

-----------------------------------------------------------------------------
(* errno_exit: the process is gone, and the kernel closes and unmaps. *)
Fail ==
    /\ pc \notin {"exit", "done"}
    /\ pc' = "exit"
    /\ opened' = FALSE /\ mapped' = {} /\ granted' = 0 /\ streaming' = FALSE
    /\ queued' = <<>> /\ filled' = <<>>
    /\ UNCHANGED <<program, content, shots, loopVars>>

OpenDevice ==
    /\ pc = "open"
    /\ opened' = TRUE /\ pc' = "init"
    /\ UNCHANGED <<program, mapped, granted, streaming, driverVars, loopVars>>

(* VIDIOC_S_FMT asks for YUYV; the driver may answer with another format,   *)
(* and nobody compares.                                                     *)
InitDevice ==
    /\ pc = "init"
    /\ format' \in AsIs \union {"yuyv", "other"}
    /\ pc' = "buffers"
    /\ UNCHANGED <<program, deviceVars, driverVars, held, holds, taken, ring, stored,
                   cut, rejected>>

(* read() needs one buffer and the driver none. *)
InitRead ==
    /\ pc = "buffers" /\ P.io = "read"
    /\ mapped' = {0} /\ pc' = "select"
    /\ UNCHANGED <<program, opened, granted, streaming, driverVars, loopVars>>

(* slip: maps and queues what was asked for *)
InitMmapAsked ==
    /\ pc = "buffers" /\ P.io = "mmap"
    /\ granted' \in 2 .. Buffers
    /\ mapped' = Buffer /\ pc' = "queue"
    /\ UNCHANGED <<program, opened, streaming, driverVars, loopVars>>

(* The driver may grant fewer buffers than were asked for. *)
InitMmap ==
    /\ pc = "buffers" /\ P.io = "mmap"
    /\ granted' \in 2 .. Buffers
    /\ mapped' = 0 .. granted' - 1 /\ pc' = "queue"
    /\ UNCHANGED <<program, opened, streaming, driverVars, loopVars>>

(* init_userp does not look at what was granted. *)
InitUserp ==
    /\ pc = "buffers" /\ P.io = "userptr"
    /\ granted' \in 1 .. Buffers
    /\ mapped' = Buffer /\ pc' = "queue"
    /\ UNCHANGED <<program, opened, streaming, driverVars, loopVars>>

(* The driver takes a buffer that it knows and does not have already. *)
Accepts(b) == b < granted /\ b \notin ToSet(queued) \union ToSet(filled)

Rejected ==
    /\ pc' = "exit" /\ rejected' = TRUE
    /\ opened' = FALSE /\ mapped' = {} /\ granted' = 0 /\ streaming' = FALSE
    /\ queued' = <<>> /\ filled' = <<>>
    /\ UNCHANGED <<program, format, content, shots, held, holds, taken, ring, stored, cut>>

(* The first loop of start_capturing. *)
StartCapturing ==
    /\ pc = "queue"
    /\ LET b == Len(queued) + Len(filled)
       IN IF Accepts(b)
          THEN /\ queued' = Append(queued, b)
               /\ pc' = IF b + 1 = Cardinality(mapped) THEN "streamon" ELSE "queue"
               /\ UNCHANGED <<program, deviceVars, filled, content, shots, loopVars>>
          ELSE Rejected

StreamOn ==
    /\ pc = "streamon"
    /\ streaming' = TRUE /\ pc' = "select"
    /\ UNCHANGED <<program, opened, mapped, granted, driverVars, loopVars>>

(* The sensor fills the first empty buffer. *)
Fill ==
    /\ streaming /\ queued # <<>>
    /\ content' = [content EXCEPT ![Head(queued)] = shots]
    /\ shots' = shots + 1
    /\ filled' = Append(filled, Head(queued)) /\ queued' = Tail(queued)
    /\ UNCHANGED <<program, pc, deviceVars, loopVars>>

-----------------------------------------------------------------------------
(* The loop: EINTR tries again, an error ends the program (Fail). *)
Select ==
    /\ pc = "select"
    /\ P.io = "read" \/ filled # <<>>
    /\ pc' = "read"
    /\ UNCHANGED <<program, deviceVars, driverVars, loopVars>>

(* slip: the timeout is not looked at, as in seq_frame_read *)
SelectAnyway ==
    /\ pc = "select" /\ P.io # "read" /\ filled = <<>>
    /\ pc' = "read"
    /\ UNCHANGED <<program, deviceVars, driverVars, loopVars>>

(* Two seconds without a frame end the program. *)
SelectTimeout == pc = "select" /\ P.io # "read" /\ filled = <<>> /\ Fail

(* read() takes the next frame into the only buffer. *)
ReadByRead ==
    /\ P.io = "read"
    /\ content' = [content EXCEPT ![0] = shots] /\ shots' = shots + 1
    /\ held' = 0
    /\ UNCHANGED <<queued, filled, holds>>

(* slip: the buffer is queued again before it was read *)
ReadByDqbufAndQueue ==
    /\ P.io # "read" /\ filled # <<>>
    /\ held' = Head(filled) /\ holds' = TRUE
    /\ queued' = Append(queued, Head(filled)) /\ filled' = Tail(filled)
    /\ UNCHANGED <<content, shots>>

ReadByDqbuf ==
    /\ P.io # "read" /\ filled # <<>>
    /\ held' = Head(filled) /\ holds' = TRUE
    /\ filled' = Tail(filled)
    /\ UNCHANGED <<queued, content, shots>>

ReadFrame ==
    /\ pc = "read"
    /\ ReadByRead \/ ReadByDqbuf
    /\ pc' = P.steps[1]
    /\ UNCHANGED <<program, format, deviceVars, taken, ring, stored, cut, rejected>>

(* EAGAIN or, where it is ignored, EIO.  The buffer variable was cleared;   *)
(* returning nullptr destroys the handler, which queues it all the same.    *)
ReadNothing ==
    /\ pc = "read"
    /\ held' = 0 /\ holds' = FALSE
    /\ pc' = IF P.requeues THEN "requeueCleared" ELSE "select"
    /\ UNCHANGED <<program, format, deviceVars, driverVars, taken, ring, stored, cut,
                   rejected>>

RequeueCleared ==
    /\ pc = "requeueCleared"
    /\ IF Accepts(held)
       THEN /\ queued' = Append(queued, held) /\ pc' = "select"
            /\ UNCHANGED <<program, deviceVars, filled, content, shots, loopVars>>
       ELSE Rejected

(* slip: counts every call *)
NextStepCounted(step) ==
    LET i == CHOOSE j \in DOMAIN P.steps : P.steps[j] = step
    IN /\ taken' = taken + 1
       /\ pc' = IF i < Len(P.steps) THEN P.steps[i + 1]
                ELSE IF taken' = P.takes THEN "stop" ELSE "select"

(* After the last step the frame is counted. *)
NextStep(step) ==
    LET i == CHOOSE j \in DOMAIN P.steps : P.steps[j] = step
    IN IF i < Len(P.steps)
       THEN pc' = P.steps[i + 1] /\ UNCHANGED taken
       ELSE /\ taken' = taken + 1
            /\ pc' = IF taken' = P.takes THEN "stop" ELSE "select"

(* The frame counters start below 0. *)
Counted == taken >= P.first

(* slip: the count is tested before it is raised *)
StoredLate == format \in AsIs \/ (format = "yuyv" /\ taken > P.first)

(* process_image looks at the counter only where it converts. *)
Stored == format \in AsIs \/ (format = "yuyv" /\ Counted)

ProcessImage ==
    /\ pc = "process"
    /\ stored' = IF Stored THEN Append(stored, content[held]) ELSE stored
    /\ NextStep("process")
    /\ UNCHANGED <<program, format, deviceVars, driverVars, held, holds, ring, cut, rejected>>

Sleep(interrupted) ==
    /\ pc = "sleep"
    /\ cut' = (cut \/ interrupted)
    /\ IF interrupted /\ P.steps[1] = "sleep"
       THEN pc' = "requeue" /\ UNCHANGED taken
       ELSE NextStep("sleep")
    /\ UNCHANGED <<program, format, deviceVars, driverVars, held, holds, ring, stored,
                   rejected>>

(* capturelib copies the frame to the tail of its ring, converts what is at *)
(* the head into its scratchpad, if it is YUYV, and stores the scratchpad,  *)
(* if the format has a file format.                                         *)
Ring ==
    /\ pc = "ring"
    /\ IF Counted
       THEN LET slot == [ring.slot EXCEPT ![ring.tail] = content[held]]
                scratchpad == IF format = "yuyv" THEN slot[ring.head] ELSE Blank
            IN /\ stored' = IF format = "other" THEN stored ELSE Append(stored, scratchpad)
               /\ ring' = [slot |-> slot,
                           tail |-> (ring.tail + 1) % RingSize,
                           head |-> (ring.head + 1) % RingSize]
       ELSE UNCHANGED <<stored, ring>>
    /\ NextStep("ring")
    /\ UNCHANGED <<program, format, deviceVars, driverVars, held, holds, cut, rejected>>

Requeue ==
    /\ pc = "requeue"
    /\ IF Accepts(held)
       THEN /\ queued' = Append(queued, held) /\ holds' = FALSE
            /\ NextStep("requeue")
            /\ UNCHANGED <<program, format, deviceVars, filled, content, shots, held, ring,
                           stored, cut, rejected>>
       ELSE Rejected

-----------------------------------------------------------------------------
(* slip: the stream stays on *)
StopCapturingOnly ==
    /\ pc = "stop" /\ pc' = "uninit"
    /\ UNCHANGED <<program, deviceVars, driverVars, loopVars>>

(* VIDIOC_STREAMOFF takes every buffer from the driver. *)
StopCapturing ==
    /\ pc = "stop"
    /\ streaming' = FALSE /\ queued' = <<>> /\ filled' = <<>>
    /\ pc' = "uninit"
    /\ UNCHANGED <<program, opened, mapped, granted, content, shots, loopVars>>

UninitDevice ==
    /\ pc = "uninit"
    /\ mapped' = {} /\ pc' = "close"
    /\ UNCHANGED <<program, opened, granted, streaming, driverVars, loopVars>>

CloseDevice ==
    /\ pc = "close"
    /\ opened' = FALSE /\ granted' = 0 /\ pc' = "done"
    /\ UNCHANGED <<program, mapped, streaming, driverVars, loopVars>>

SetUp ==
    \/ OpenDevice \/ InitDevice \/ InitRead \/ InitMmap \/ InitUserp
    \/ StartCapturing \/ StreamOn
TakeFrame ==
    \/ ReadFrame \/ ProcessImage \/ Sleep(FALSE) \/ Ring \/ Requeue
TearDown == StopCapturing \/ UninitDevice \/ CloseDevice

Next ==
    \/ SetUp \/ Fill \/ Select \/ SelectTimeout \/ TakeFrame \/ TearDown
    \/ ReadNothing \/ RequeueCleared \/ Sleep(TRUE) \/ Fail

Spec == Init /\ [][Next]_vars

(* The program goes on, and a driver that has a frame gives it in the end.  *)
(* The sensor may stop.                                                     *)
FairSpec ==
    /\ Spec
    /\ WF_vars(SetUp) /\ WF_vars(Select \/ SelectTimeout) /\ WF_vars(TearDown)
    /\ WF_vars(RequeueCleared) /\ WF_vars(ProcessImage \/ Sleep(FALSE) \/ Ring \/ Requeue)
    /\ WF_vars(ReadNothing) /\ SF_vars(ReadFrame)

-----------------------------------------------------------------------------
(* Properties *)

TypeOK ==
    /\ program \in DOMAIN Programs
    /\ pc \in {"open", "init", "buffers", "queue", "streamon", "select", "read",
               "process", "sleep", "ring", "requeue", "requeueCleared",
               "stop", "uninit", "close", "done", "exit"}
    /\ format \in AsIs \union {"none", "yuyv", "other"}
    /\ opened \in BOOLEAN /\ streaming \in BOOLEAN /\ holds \in BOOLEAN
    /\ mapped \subseteq Buffer /\ granted \in 0 .. Buffers
    /\ queued \in Seq(Buffer) /\ filled \in Seq(Buffer)
    /\ content \in [Buffer -> Nat \union {-1}] /\ shots \in Nat
    /\ held \in Buffer /\ taken \in 0 .. P.takes
    /\ ring.tail \in 0 .. RingSize - 1 /\ ring.head \in 0 .. RingSize - 1
    /\ cut \in BOOLEAN /\ rejected \in BOOLEAN

(* While it streams, the driver and the program hold each buffer once,      *)
(* whatever order of processing, sleeping and queueing a program has.       *)
EachBufferOnce ==
    streaming =>
        LET driver == queued \o filled
        IN /\ IsInjective(driver)
           /\ mapped = ToSet(driver) \union (IF holds THEN {held} ELSE {})
           /\ holds => held \notin ToSet(driver)

(* Where a driver refuses a buffer, either the program queued one that it   *)
(* had not dequeued, or init_userp has more buffers than it was granted.    *)
OwnBuffersAccepted == rejected => P.requeues \/ P.io = "userptr"

(* The first frame that a program stores of an undisturbed run, and what it *)
(* stores of the n-th: all of them where process_image takes the frames as  *)
(* they are; capturelib stores its scratchpad.                              *)
FirstStored == IF program # "library" /\ format \in AsIs THEN 0 ELSE P.first
Converts == program = "library" => format = "yuyv"
Picture(n) == IF Converts THEN n ELSE Blank

(* The stored frames are frames of the sensor, in order and each once, from *)
(* the buffer or, in capturelib, from its ring, unless capturelib's camera  *)
(* does not give YUYV: its files then say nothing of the frames.  An        *)
(* undisturbed program stores every frame from its first one on, none of an *)
(* unknown format; capturelib CAPTURE_FRAMES of them, as the first that it  *)
(* counts as 2 and LAST_FRAMES make up for one another.                     *)
FramesAreStored ==
    /\ Converts =>
           \A i \in 1 .. Len(stored) - 1 : stored[i] < stored[i + 1] /\ stored[i] >= 0
    /\ pc = "done" /\ ~cut =>
           /\ stored = IF format = "other" THEN <<>>
                       ELSE [i \in 1 .. P.takes - FirstStored |-> Picture(FirstStored + i - 1)]
           /\ program = "library" /\ format # "other" => Len(stored) = Capture

(* What "always ignore first 8 frames" (simple_capture_linux, capture.c:206) *)
(* says: no frame before the Startup-th is stored.                          *)
FirstFramesIgnored ==
    program \in {"read", "mmap", "userptr"} =>
        \A i \in 1 .. Len(stored) : stored[i] >= Startup

(* A program that returns has given everything back. *)
NothingLeft ==
    pc = "done" => ~opened /\ ~streaming /\ mapped = {} /\ queued = <<>> /\ filled = <<>>

(* Every program ends, though a select may find a frame and the DQBUF none  *)
(* any number of times, and though the sensor may stop.                     *)
Ends == <>(pc \in {"done", "exit"})
=============================================================================
