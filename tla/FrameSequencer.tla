--------------------------- MODULE FrameSequencer ---------------------------
(***************************************************************************)
(* The sequencers with what their services do.  In seqv4 and seqv4l2 the   *)
(* three services are seq_frame_read, seq_frame_process and                *)
(* seq_frame_store of capturelib.c, which share a ring of three frames and *)
(* the converted picture without a lock: only rates, priorities and the    *)
(* common core keep them apart.  A frame is its number; the camera gives   *)
(* YUYV, for which alone seq_frame_process converts anything.              *)
(***************************************************************************)
EXTENDS Sequencer

CONSTANTS
    Stores,       \* seqv4 ends when this many pictures are stored: 10
    LateStores,   \* as a bound, the same with a camera that may be late
    Reads         \* or when S1 ran more often than this: 250

RingSize == 3     \* 3 * FRAMES_PER_SEC
SelectTimeout == 200 \* two seconds, in cycles of 10 msec

(* The programs with a ring: the camera keeps S1 waiting and nobody else;   *)
(* S1, S2 and S3 share a core in this order of urgency, S2 and S3 run once  *)
(* while S1 runs five times; main reads one frame before; S2 ends its work  *)
(* before S1 has come round the ring; and S3 has stored all before S1 has   *)
(* read too often.                                                          *)
RingProgram(q) ==
    /\ Len(q.rates) = 3 /\ q.rates[1] > 0
    /\ q.rates[2] = 5 * q.rates[1] /\ q.rates[3] = 5 * q.rates[1]
    /\ Budget < RingSize * q.rates[1]
    /\ \A s \in 1 .. 3 : q.cores[s] = q.cores[1] /\ q.cores[s] # Unpinned
    /\ q.priority[1] < q.priority[2] /\ q.priority[2] < q.priority[3]
    /\ \E i \in 1 .. Len(q.startup) : \A j \in 1 .. Len(q.startup) : q.startup[j] = "read" <=> j = i
    /\ q.first = 1 /\ q.abortsFirst /\ q.blocking = {1}
    /\ q.loop = <<"check", "wait", "check", "begin", "done">>
    /\ \A i \in DOMAIN q.shutdown : \A s \in q.shutdown[i].posts :
           \E j \in 1 .. i : s \in q.shutdown[j].aborts

ASSUME RingAssumption ==
    /\ Budget \in Nat /\ Stores \in Nat \ {0} /\ LateStores \in Nat \ {0}
    /\ Reads \in Nat /\ Reads >= 5 * Stores + 4
    /\ \A p \in DOMAIN Programs :
           Programs[p].blocking # {} => RingProgram(Programs[p])

VARIABLES
    frames,       \* frames read from the camera so far
    slot,         \* save_frame: the number of the frame in each slot
    tail, head, count,
    picture,      \* scratchpad_buffer: its frame, and whether it is whole
    saved,        \* the pictures stored, in order
    called        \* the cycle in which S1 called select; 0: it did not

ringVars == <<frames, slot, tail, head, count, picture, saved>>
vars == <<seqVars, ringVars, called>>

HasRing == P.blocking # {}

Init ==
    /\ SeqInit
    /\ frames = 0
    /\ slot = [i \in 0 .. RingSize - 1 |-> -1]
    /\ tail = 0 /\ head = 0 /\ count = 0
    /\ picture = [frame |-> -1, whole |-> TRUE]
    /\ saved = <<>>
    /\ called = 0

(* slip: the frame is not counted *)
SeqFrameReadUncounted ==
    /\ slot' = [slot EXCEPT ![tail] = frames]
    /\ frames' = frames + 1
    /\ tail' = (tail + 1) % RingSize
    /\ picture' = IF At(2) = "done" /\ tail = head
                  THEN [picture EXCEPT !.whole = FALSE] ELSE picture
    /\ UNCHANGED <<head, count, saved>>

(* seq_frame_read once the camera has a frame; nothing else can run on the  *)
(* core from here to its end.  S2 may be reading the slot.                  *)
SeqFrameRead ==
    /\ slot' = [slot EXCEPT ![tail] = frames]
    /\ frames' = frames + 1
    /\ tail' = (tail + 1) % RingSize
    /\ count' = count + 1
    /\ picture' = IF At(2) = "done" /\ tail = head
                  THEN [picture EXCEPT !.whole = FALSE] ELSE picture
    /\ UNCHANGED <<head, saved>>

(* select gives up after its timeout: the timer ticks no further before S1  *)
(* goes on.                                                                 *)
SelectEnds == HasRing /\ At(1) = "done" => cycle' <= called + SelectTimeout

(* The camera had no frame for two seconds, which nobody counts any more    *)
(* once the timer is disabled.  read_frame finds EAGAIN and leaves          *)
(* frame_buf cleared; buffer 0 is still queued, the VIDIOC_QBUF fails, and  *)
(* errno_exit ends the program.                                             *)
NoFrame ==
    /\ ~punctual
    /\ At(1) = "done" /\ MayRun(1)
    /\ cycle >= called + SelectTimeout \/ stage = "ended"
    /\ stage' = "exit"
    /\ UNCHANGED <<program, punctual, k, cycle, abortTest, sem, abort, pc, work, ringVars, called>>

(* slip: the next slot, not the newest *)
SeqFrameProcessNext ==
    /\ head' = (head + 1) % RingSize
    /\ picture' = [frame |-> slot[head'], whole |-> TRUE]
    /\ UNCHANGED <<frames, slot, tail, count, saved>>

SeqFrameProcess ==
    /\ head' = (head + 2) % RingSize
    /\ picture' = [frame |-> slot[head'], whole |-> TRUE]
    /\ UNCHANGED <<frames, slot, tail, count, saved>>

SeqFrameProcessed ==
    /\ head' = (head + 3) % RingSize
    /\ count' = count - 5
    /\ UNCHANGED <<frames, slot, tail, picture, saved>>

SeqFrameStore ==
    /\ saved' = Append(saved, picture)
    /\ UNCHANGED <<frames, slot, tail, head, count, picture>>

-----------------------------------------------------------------------------
RingBegin(s) ==
    IF HasRing /\ s = 2 THEN SeqFrameProcess ELSE UNCHANGED ringVars

RingDone(s) ==
    CASE ~HasRing -> UNCHANGED ringVars
      [] HasRing /\ s = 1 -> SeqFrameRead
      [] HasRing /\ s = 2 -> SeqFrameProcessed
      [] HasRing /\ s = 3 -> SeqFrameStore

StoreLimit == IF punctual THEN Stores ELSE LateStores

AsksForShutdown(s) ==
    /\ HasRing
    /\ \/ s = 1 /\ work[1] + 1 > Reads
       \/ s = 3 /\ Len(saved) + 1 = StoreLimit

Drive ==
    /\ Startup \/ Tick \/ Release \/ Shutdown \/ Complete
    /\ SelectEnds
    /\ UNCHANGED called
    /\ IF HasRing /\ stage = "startup" /\ P.startup[k] = "read" /\ stage' = stage
       THEN SeqFrameRead ELSE UNCHANGED ringVars

Serve(s) ==
    \/ (Check(s) \/ Wait(s)) /\ UNCHANGED <<ringVars, called>>
    \/ Begin(s) /\ RingBegin(s) /\ called' = (IF HasRing /\ s = 1 THEN cycle ELSE called)
    \/ Done(s, AsksForShutdown(s)) /\ RingDone(s) /\ called' = (IF s = 1 THEN 0 ELSE called)

Next ==
    \/ Drive
    \/ \E s \in Services : Serve(s)
    \/ NoFrame

Spec == Init /\ [][Next]_vars

(* The kernel runs what SCHED_FIFO lets run; a late camera may stay late.   *)
FairSpec ==
    /\ Spec
    /\ WF_vars(Drive)
    /\ \A s \in 1 .. 7 : WF_vars(s \in Services /\ Serve(s))

-----------------------------------------------------------------------------
(* Properties *)

(* The sequencer's types and the ring's.  seq_frame_process takes five      *)
(* frames off the count without looking: with a camera that is never late   *)
(* S1 has put five there.  When a frame comes late the release of S2 does   *)
(* not wait for it, and the count may fall below zero.                      *)
FrameTypeOK ==
    /\ TypeOK
    /\ called \in Nat
    /\ frames \in Nat /\ count \in Int
    /\ HasRing => count = frames - 5 * work[2]
    /\ punctual => count >= 0
    /\ tail \in 0 .. RingSize - 1 /\ head \in 0 .. RingSize - 1

(* S3 never stores the picture while S2 converts into it.  With a camera    *)
(* that is never late, and services that end in time, every stored picture  *)
(* is one whole frame and the newest of its second: S2 steps by two slots   *)
(* while S1 steps by five, and neither asks whether the other is there.     *)
PicturesAreSound ==
    /\ HasRing => ~(At(2) = "done" /\ At(3) = "done")
    /\ punctual =>
           \A i \in DOMAIN saved : saved[i] = [frame |-> 5 * i, whole |-> TRUE]

(* A program whose shutdown is safe ends: all its services are joined.      *)
Ends == SafeShutdown => <>(stage \in {"complete", "exit"})
=============================================================================
