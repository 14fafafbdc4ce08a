------------------------------ MODULE CaptureJob -----------------------------
(***************************************************************************)
(* What the synchronome promises, without threads, queues or buffers: the  *)
(* pictures of the camera form one FIFO.  A picture enters it when the     *)
(* sensor produces it and leaves it, oldest first, when the saver is done  *)
(* with it; none is skipped, repeated, reordered or changed on the way.    *)
(* The job succeeds only with all its frames saved, or when saving was     *)
(* given up, for which MayAbandon says whether there can be a reason.  The *)
(* module Synchronome is shown to implement this one.                      *)
(***************************************************************************)
EXTENDS Naturals, Sequences

CONSTANTS
    FrameIds,     \* the number of stamps that tell pictures apart
    Capacity,     \* how many pictures can be under way
    FrameCount,   \* the number of frames to save
    MayAbandon    \* can saving be given up before that many are saved?

(* What an implementation has to provide. *)
CaptureJobAssumption ==
    /\ FrameIds \in Nat /\ FrameIds >= 2
    /\ Capacity \in Nat
    /\ FrameCount \in Nat /\ FrameCount >= 1
    /\ MayAbandon \in BOOLEAN

VARIABLES
    flow,         \* the stamps of the pictures under way, oldest first
    next,         \* the stamp of the next picture
    live,         \* the camera is streaming
    saved,        \* the number of pictures saved
    abandoned,    \* saving was given up
    status        \* "running", "success" or "failure"

vars == <<flow, next, live, saved, abandoned, status>>

Stamps == 0 .. FrameIds - 1
Succ(n) == (n + 1) % FrameIds

Init ==
    /\ flow = <<>> /\ next = 0 /\ live = FALSE
    /\ saved = 0 /\ abandoned = FALSE /\ status = "running"

GoLive ==
    /\ ~live /\ flow = <<>>
    /\ live' = TRUE
    /\ UNCHANGED <<flow, next, saved, abandoned, status>>

Capture ==
    /\ live
    /\ Len(flow) < Capacity
    /\ flow' = Append(flow, next)
    /\ next' = Succ(next)
    /\ UNCHANGED <<live, saved, abandoned, status>>

(* The oldest picture is saved; it stays in the flow until it is released. *)
Save ==
    /\ flow # <<>>
    /\ saved < FrameCount /\ ~abandoned
    /\ saved' = saved + 1
    /\ UNCHANGED <<flow, next, live, abandoned, status>>

(* A slip: the newest picture is released. *)
ReleaseNewest ==
    /\ flow # <<>>
    /\ flow' = SubSeq(flow, 1, Len(flow) - 1)
    /\ UNCHANGED <<next, live, saved, abandoned, status>>

(* The oldest picture is done with, saved or not. *)
Release ==
    /\ flow # <<>>
    /\ flow' = Tail(flow)
    /\ UNCHANGED <<next, live, saved, abandoned, status>>

(* Saving is given up with frames still missing: no more will be saved. *)
Abandon ==
    /\ MayAbandon
    /\ saved < FrameCount
    /\ abandoned' = TRUE
    /\ UNCHANGED <<flow, next, live, saved, status>>

(* The stream is stopped: the newest pictures are thrown away. *)
StopStream ==
    /\ live
    /\ live' = FALSE
    /\ \E n \in 0 .. Len(flow) : flow' = SubSeq(flow, 1, n)
    /\ UNCHANGED <<next, saved, abandoned, status>>

(* The program ends and what is still under way with it. *)
Succeed ==
    /\ ~live
    /\ saved = FrameCount \/ abandoned
    /\ status' = "success"
    /\ flow' = <<>>
    /\ UNCHANGED <<next, live, saved, abandoned>>

Fail ==
    /\ status' = "failure"
    /\ UNCHANGED <<flow, next, live, saved, abandoned>>

Next ==
    /\ status = "running"
    /\ \/ GoLive \/ Capture \/ Save \/ Release \/ Abandon \/ StopStream
       \/ Succeed \/ Fail

Spec == Init /\ [][Next]_vars

-----------------------------------------------------------------------------
(* Every variable of the job keeps its type. *)
TypeOK ==
    /\ flow \in Seq(Stamps)
    /\ next \in Stamps
    /\ live \in BOOLEAN
    /\ saved \in 0 .. FrameCount
    /\ abandoned \in BOOLEAN
    /\ status \in {"running", "success", "failure"}

(* Each picture under way is followed by the one the camera produced next,  *)
(* and the newest by the one it will produce next.                          *)
Contiguous ==
    /\ \A i \in 1 .. Len(flow) - 1 : flow[i + 1] = Succ(flow[i])
    /\ live /\ flow # <<>> => next = Succ(flow[Len(flow)])
=============================================================================
