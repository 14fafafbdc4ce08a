---------------------------- MODULE TickDetector -----------------------------
(***************************************************************************)
(* synchronome/tick_detector.hpp, tick_detector.cpp, rgb_handler.hpp: the  *)
(* pool of RGB buffers and the detector of the second hand's tick.         *)
(*                                                                         *)
(* An RgbHandler is a record: mStart names the RGB buffer (0 is nullptr)   *)
(* and mIsTick is the detector's verdict.  The pictures themselves are     *)
(* abstracted to stamps; the percentage difference of two neighbouring     *)
(* pictures to the side of the two thresholds it falls on.                 *)
(***************************************************************************)
EXTENDS Naturals, Sequences

CONSTANT NumRgb       \* TickDetector::sNumOfBuffers

(* One buffer is kept as mOldImage, one more is needed to convert into. *)
ASSUME TickDetectorAssumption == NumRgb \in Nat /\ NumRgb >= 2

VARIABLES
    mAvailable,   \* the buffers of the pool, as a queue
    mOldImage,    \* the previous picture; NullRgb as long as mCount is 0
    mState,       \* "Still" or "Moving"
    rgbImage      \* rgbImage[r]: the picture in the RGB buffer r

tickDetectorVars == <<mAvailable, mOldImage, mState, rgbImage>>

RgbBuffers == 1 .. NumRgb
NullRgb == [mStart |-> 0, mIsTick |-> FALSE]
RgbHandlers == [mStart : RgbBuffers, mIsTick : BOOLEAN]

(* Where percentDiff lies: under sStillThreshold, over sMovingThreshold, or *)
(* in the band of the hysteresis between them.                              *)
Levels == {"below", "between", "above"}

TickDetectorInit ==
    /\ mAvailable = [i \in RgbBuffers |-> i]
    /\ mOldImage = NullRgb
    /\ mState = "Still"
    /\ rgbImage = [r \in RgbBuffers |-> 0]

(* allocate: a handler for the front buffer of the pool, NullRgb if none. *)
Allocated ==
    IF mAvailable = <<>> THEN NullRgb
    ELSE [mStart |-> Head(mAvailable), mIsTick |-> FALSE]

(* A slip: the front is read but not popped. *)
AllocateWithoutPop ==
    UNCHANGED tickDetectorVars

Allocate ==
    /\ mAvailable' = IF mAvailable = <<>> THEN <<>> ELSE Tail(mAvailable)
    /\ UNCHANGED <<mOldImage, mState, rgbImage>>

(* colorConvert after allocate: the picture is written to the buffer. *)
ColorConvert(rgb, picture) ==
    /\ rgbImage' = [rgbImage EXCEPT ![rgb.mStart] = picture]
    /\ UNCHANGED <<mAvailable, mOldImage, mState>>

(* A slip: the return to Still is forgotten, every still picture ticks. *)
NextStateNeverStill(level) ==
    IF level = "above" THEN "Moving" ELSE mState

(* The hysteresis of execute, and the tick it puts on the new picture. *)
NextState(level) ==
    CASE mState = "Still" /\ level = "above" -> "Moving"
      [] mState = "Moving" /\ level = "below" -> "Still"
      [] OTHER -> mState

IsTick(level) == mState = "Moving" /\ level = "below"

(* execute, first call (mCount is 0): the picture becomes the old image and *)
(* nothing is returned.                                                     *)
ExecuteFirst(rgb) ==
    /\ mOldImage = NullRgb
    /\ mOldImage' = rgb
    /\ UNCHANGED <<mAvailable, mState, rgbImage>>

(* A slip: the caller gets the new picture, and the old image stays.        *)
ExecuteKeepsOld(rgb, level) ==
    /\ mOldImage # NullRgb
    /\ mState' = NextState(level)
    /\ UNCHANGED <<mAvailable, mOldImage, rgbImage>>

(* execute, later calls: the new picture gets its verdict and becomes the   *)
(* old image; the caller gets the previous one, the value of mOldImage.     *)
ExecuteNext(rgb, level) ==
    /\ mOldImage # NullRgb
    /\ mOldImage' = [rgb EXCEPT !.mIsTick = IsTick(level)]
    /\ mState' = NextState(level)
    /\ UNCHANGED <<mAvailable, rgbImage>>

(* returnBuffer: a handler that holds a buffer puts it back into the pool.  *)
ReturnRgb(rgb) ==
    /\ mAvailable' = IF rgb.mStart = 0 THEN mAvailable
                     ELSE Append(mAvailable, rgb.mStart)
    /\ UNCHANGED <<mOldImage, mState, rgbImage>>

(* The check at the end of returnBuffer, which ends the process.            *)
PoolOverfull == Len(mAvailable) > NumRgb
=============================================================================
