------------------------------- MODULE Camera --------------------------------
(***************************************************************************)
(* synchronome/camera.hpp, camera.cpp, buffer_handler.hpp: the V4L2        *)
(* streaming device.  The driver owns the buffers that are `queued' (empty,*)
(* waiting to be filled) or `filled' (waiting for VIDIOC_DQBUF), both in   *)
(* FIFO order.  readFrame takes a filled buffer to user space as a         *)
(* BufferHandler and BufferHandler::returnBuffer gives it back.            *)
(*                                                                         *)
(* A picture is abstracted to a stamp: picture n carries n % FrameIds, so  *)
(* that two neighbouring pictures, and a buffer written over while it is   *)
(* still being read, can be told apart in a finite state space.            *)
(***************************************************************************)
EXTENDS Naturals, Sequences

CONSTANTS
    NumBuffers,   \* Camera::mNumBuffers, what VIDIOC_REQBUFS granted
    FrameIds      \* the number of stamps that tell pictures apart

(* initMmap refuses fewer than two buffers. *)
ASSUME CameraAssumption ==
    /\ NumBuffers \in Nat /\ NumBuffers >= 2
    /\ FrameIds \in Nat /\ FrameIds >= 2

VARIABLES
    streaming,    \* the device is mapped and VIDIOC_STREAMON was done
    queued,       \* empty buffers the driver owns, oldest first
    filled,       \* filled buffers the driver owns, oldest first
    yuyv,         \* yuyv[b]: the picture in the mapped memory of buffer b
    stamp         \* the stamp of the next picture the sensor produces

cameraVars == <<streaming, queued, filled, yuyv, stamp>>

Buffers == 1 .. NumBuffers
NoBuffer == 0       \* a BufferHandler that holds no buffer
Frames == 0 .. FrameIds - 1

CameraInit ==
    /\ streaming = FALSE
    /\ queued = <<>> /\ filled = <<>>
    /\ yuyv = [b \in Buffers |-> 0]
    /\ stamp = 0

(* startCapturing: every buffer is queued, by index, and the stream is on. *)
StartCapturing ==
    /\ streaming' = TRUE
    /\ queued' = [i \in Buffers |-> i]
    /\ UNCHANGED <<filled, yuyv, stamp>>

(* The driver fills the oldest queued buffer with the next picture. *)
Capture ==
    /\ streaming
    /\ queued # <<>>
    /\ yuyv' = [yuyv EXCEPT ![Head(queued)] = stamp]
    /\ stamp' = (stamp + 1) % FrameIds
    /\ filled' = Append(filled, Head(queued))
    /\ queued' = Tail(queued)
    /\ UNCHANGED streaming

(* VIDIOC_DQBUF in readFrame: the oldest filled buffer leaves the driver. *)
Dequeue ==
    /\ filled # <<>>
    /\ filled' = Tail(filled)
    /\ UNCHANGED <<streaming, queued, yuyv, stamp>>

(* VIDIOC_QBUF in BufferHandler::returnBuffer. *)
ReturnBuffer(b) ==
    /\ queued' = Append(queued, b)
    /\ UNCHANGED <<streaming, filled, yuyv, stamp>>

(* stopCapturing, uninitDevice, closeDevice: VIDIOC_STREAMOFF empties the  *)
(* driver's queues, then the buffers are unmapped and the device closed.   *)
StopCapturing ==
    /\ streaming' = FALSE
    /\ queued' = <<>> /\ filled' = <<>>
    /\ UNCHANGED <<yuyv, stamp>>
=============================================================================
