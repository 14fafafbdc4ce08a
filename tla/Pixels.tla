------------------------------- MODULE Pixels --------------------------------
(***************************************************************************)
(* synchronome/tick_detector.cpp: the two loops over pixels, colorConvert  *)
(* and sumDifference, as execute runs them on one picture after another.   *)
(* One action is one pass of a loop; the bytes are numbers and the C       *)
(* operators mean what they mean in TLA+: >> 8 of an int is \div 256, and  *)
(* an assignment to uint32_t is % Word.                                    *)
(***************************************************************************)
EXTENDS Integers, Functions

CONSTANTS
    Bytes,        \* the samples the camera sends, some of 0 .. 255
    Size,         \* BufferHandler::mSize, the bytes of a YUYV picture
    sBufferSize,  \* the bytes of an RGB buffer
    FirstPictures,\* the pictures the camera may begin with
    Word,         \* the number of values of uint32_t, as a bound
    Pictures      \* how often execute is called

(* The driver delivers whole YUYV units.  In the code the RGB buffer holds  *)
(* 640 * 480 * 3 bytes, and 255 times that is less than 2^32.               *)
ASSUME PixelsAssumption ==
    /\ Bytes \subseteq 0 .. 255
    /\ Size \in Nat /\ Size > 0 /\ Size % 4 = 0
    /\ FirstPictures \subseteq [0 .. Size - 1 -> Bytes]
    /\ sBufferSize \in Nat
    /\ Word \in Nat /\ 255 * sBufferSize < Word
    /\ Pictures \in Nat

(* The picture fits into an RGB buffer.  Nothing in the code sees to it:    *)
(* the driver says what Size is.                                            *)
PictureFits == 3 * Size <= 2 * sBufferSize

VARIABLES
    pc,           \* "camera", "convert", "sum": the loop execute is in
    mCount,       \* how often execute was called
    pptr,         \* the YUYV bytes of the new picture
    oldYuyv,      \* those of the picture before; nothing in the code has them
    rgb,          \* the RGB bytes of the new picture
    mOldImage,    \* the RGB bytes of the picture before
    k, newi,      \* the loop variables i and newi
    mSize,        \* RgbHandler::mSize of the new picture
    sum           \* the result of sumDifference

vars == <<pc, mCount, pptr, oldYuyv, rgb, mOldImage, k, newi, mSize, sum>>

Yuyv == 0 .. Size - 1
Rgb == 0 .. sBufferSize - 1

Init ==
    /\ pc = "camera" /\ mCount = 0
    /\ pptr = [b \in Yuyv |-> 0] /\ oldYuyv = pptr
    /\ rgb = [b \in Rgb |-> 0] /\ mOldImage = [b \in Rgb |-> 0]
    /\ k = 0 /\ newi = 0 /\ mSize = 0 /\ sum = 0

(* x >> 8, then the two limits. *)
Byte(x) ==
    LET q == x \div 256
    IN  IF q > 255 THEN 255 ELSE IF q < 0 THEN 0 ELSE q

(* yuv2rgb: the three fixed point sums, with 128 to round. *)
Red(y, u, v)   == Byte(298 * (y - 16) + 409 * (v - 128) + 128)
Green(y, u, v) == Byte(298 * (y - 16) - 100 * (u - 128) - 208 * (v - 128) + 128)
Blue(y, u, v)  == Byte(298 * (y - 16) + 516 * (u - 128) + 128)

(* execute gets a new picture and an RGB buffer. *)
Receive ==
    /\ pc = "camera"
    /\ mCount < Pictures
    /\ pptr' \in IF mCount = 0 THEN FirstPictures ELSE [Yuyv -> Bytes]
    /\ oldYuyv' = pptr
    /\ rgb' = [b \in Rgb |-> 0]
    /\ k' = 0 /\ newi' = 0
    /\ pc' = "convert"
    /\ UNCHANGED <<mCount, mOldImage, mSize, sum>>

(* A slip: both pixels take the first luminance. *)
ConvertPixelsSame ==
    /\ pc = "convert" /\ k < Size
    /\ LET u == pptr[k + 1]
           v == pptr[k + 3]
           y == pptr[k]
       IN  rgb' = [rgb EXCEPT
               ![newi]     = Red(y, u, v), ![newi + 1] = Green(y, u, v),
               ![newi + 2] = Blue(y, u, v), ![newi + 3] = Red(y, u, v),
               ![newi + 4] = Green(y, u, v), ![newi + 5] = Blue(y, u, v)]
    /\ k' = k + 4 /\ newi' = newi + 6
    /\ UNCHANGED <<pc, mCount, pptr, oldYuyv, mOldImage, mSize, sum>>

(* A slip: newi steps by whole words. *)
ConvertPixelsByWords ==
    /\ pc = "convert" /\ k < Size
    /\ LET u == pptr[k + 1]
           v == pptr[k + 3]
       IN  rgb' = [rgb EXCEPT
               ![newi]     = Red(pptr[k], u, v),
               ![newi + 3] = Red(pptr[k + 2], u, v)]
    /\ k' = k + 4 /\ newi' = newi + 8
    /\ UNCHANGED <<pc, mCount, pptr, oldYuyv, mOldImage, mSize, sum>>

(* One pass of colorConvert: four bytes YUYV become two pixels. *)
ConvertPixels ==
    /\ pc = "convert" /\ k < Size
    /\ LET u == pptr[k + 1]
           v == pptr[k + 3]
       IN  rgb' = [rgb EXCEPT
               ![newi]     = Red(pptr[k], u, v),
               ![newi + 1] = Green(pptr[k], u, v),
               ![newi + 2] = Blue(pptr[k], u, v),
               ![newi + 3] = Red(pptr[k + 2], u, v),
               ![newi + 4] = Green(pptr[k + 2], u, v),
               ![newi + 5] = Blue(pptr[k + 2], u, v)]
    /\ k' = k + 4 /\ newi' = newi + 6
    /\ UNCHANGED <<pc, mCount, pptr, oldYuyv, mOldImage, mSize, sum>>

(* The end of colorConvert; the first picture is only kept. *)
ConvertDone ==
    /\ pc = "convert" /\ k >= Size
    /\ mSize' = (Size * 6) \div 4
    /\ mCount' = mCount + 1
    /\ sum' = 0 /\ k' = 0
    /\ IF mCount = 0 THEN pc' = "camera" /\ mOldImage' = rgb
                     ELSE pc' = "sum" /\ UNCHANGED mOldImage
    /\ UNCHANGED <<pptr, oldYuyv, rgb, newi>>

(* A slip: the differences are signed and cancel out. *)
AbsDiffSigned(a, b) == a - b

(* absDiff: the larger minus the smaller. *)
AbsDiff(a, b) == IF a > b THEN a - b ELSE b - a

(* A slip: the loop steps by bytes but adds pixels. *)
SumPixelByBytes ==
    /\ pc = "sum" /\ k < mSize
    /\ sum' = (sum + AbsDiff(rgb[k], mOldImage[k])
                   + AbsDiff(rgb[(k + 1) % mSize], mOldImage[(k + 1) % mSize])
                   + AbsDiff(rgb[(k + 2) % mSize], mOldImage[(k + 2) % mSize]))
              % Word
    /\ k' = k + 1
    /\ UNCHANGED <<pc, mCount, pptr, oldYuyv, rgb, mOldImage, newi, mSize>>

(* One pass of sumDifference: the three bytes of a pixel. *)
SumPixel ==
    /\ pc = "sum" /\ k < mSize
    /\ sum' = (sum + AbsDiff(rgb[k], mOldImage[k])
                   + AbsDiff(rgb[k + 1], mOldImage[k + 1])
                   + AbsDiff(rgb[k + 2], mOldImage[k + 2])) % Word
    /\ k' = k + 3
    /\ UNCHANGED <<pc, mCount, pptr, oldYuyv, rgb, mOldImage, newi, mSize>>

(* The sum decides the state (module TickDetector); the new picture is kept. *)
SumDone ==
    /\ pc = "sum" /\ k >= mSize
    /\ pc' = "camera"
    /\ mOldImage' = rgb
    /\ UNCHANGED <<mCount, pptr, oldYuyv, rgb, k, newi, mSize, sum>>

Next == Receive \/ ConvertPixels \/ ConvertDone \/ SumPixel \/ SumDone

Spec == Init /\ [][Next]_vars

-----------------------------------------------------------------------------
(* Every variable keeps its type: colours are bytes. *)
TypeOK ==
    /\ pc \in {"camera", "convert", "sum"}
    /\ mCount \in 0 .. Pictures
    /\ pptr \in [Yuyv -> 0 .. 255] /\ oldYuyv \in [Yuyv -> 0 .. 255]
    /\ rgb \in [Rgb -> 0 .. 255] /\ mOldImage \in [Rgb -> 0 .. 255]
    /\ k \in Nat /\ newi \in Nat
    /\ mSize \in 0 .. sBufferSize
    /\ sum \in 0 .. Word - 1

(* A pass of a loop stays inside the buffers it indexes, if the picture     *)
(* fits.                                                                    *)
InBounds ==
    /\ pc = "convert" /\ k < Size => k + 4 <= Size /\ newi + 6 <= sBufferSize
    /\ pc = "sum" /\ k < mSize => k + 3 <= mSize

(* The sum never wraps: whenever the loop adds a pixel, what it adds to is  *)
(* less than the largest uint32_t by at least that much.                    *)
SumFits ==
    pc = "sum" /\ k < mSize =>
        sum + AbsDiff(rgb[k], mOldImage[k])
            + AbsDiff(rgb[k + 1], mOldImage[k + 1])
            + AbsDiff(rgb[k + 2], mOldImage[k + 2]) < Word

Distance(a, b) == IF a > b THEN a - b ELSE b - a

(* No byte is nearer to x / 256 than r; of two that are as near, the larger.*)
IsNearest(r, x) ==
    \A s \in 0 .. 255 :
        \/ Distance(256 * r, x) < Distance(256 * s, x)
        \/ Distance(256 * r, x) = Distance(256 * s, x) /\ s <= r

(* The colour of pixel p, times 256. *)
Colour(p, channel) ==
    LET c == pptr[2 * p] - 16
        d == pptr[4 * (p \div 2) + 1] - 128
        e == pptr[4 * (p \div 2) + 3] - 128
    IN  CASE channel = 0 -> 298 * c + 409 * e
          [] channel = 1 -> 298 * c - 100 * d - 208 * e
          [] channel = 2 -> 298 * c + 516 * d

(* tick_detector.cpp:81: "Pixels are YU and YV alternating, so YUYV which   *)
(* is 4 bytes. We want RGB, so RGBRGB which is 6 bytes."  After the loop    *)
(* every pixel has its own luminance and the chrominance it shares with its *)
(* neighbour, each channel rounded to the nearest byte.                     *)
ColoursAreNearest ==
    pc = "convert" /\ k >= Size =>
        \A p \in 0 .. Size \div 2 - 1 : \A channel \in 0 .. 2 :
            IsNearest(rgb[3 * p + channel], Colour(p, channel))

(* The sum of the absolute differences of f and g on the indices S.         *)
Differences(f, g, S) ==
    FoldFunctionOnSet(LAMBDA a, b : a + b, 0, [i \in S |-> Distance(f[i], g[i])], S)

(* The sum of the loop is the distance of the two RGB pictures: it counts   *)
(* every colour of every pixel exactly once, so equal pictures, and only    *)
(* these, have 0.                                                           *)
SumIsDistance == pc = "sum" /\ k >= mSize => sum = Differences(rgb, mOldImage, Rgb)

(* tick_detector.hpp:79: "Sum the difference between the Y (grey) pixels of *)
(* two YUYV images."  The luminance of a pixel is every second byte.        *)
SumIsOfGreyPixels ==
    pc = "sum" /\ k >= mSize =>
        sum = Differences(pptr, oldYuyv, {i \in Yuyv : i % 2 = 0})
=============================================================================
