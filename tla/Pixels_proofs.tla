---------------------------- MODULE Pixels_proofs ----------------------------
(***************************************************************************)
(* Theorems about Pixels: whatever the camera sends, as long as its        *)
(* pictures fit into an RGB buffer, no loop leaves its buffers and the sum *)
(* of the differences does not wrap.                                       *)
(***************************************************************************)
EXTENDS Pixels, FiniteSetTheorems, WellFoundedInduction, TLAPS

(* How far the loops are: both indices of colorConvert count YUYV units,    *)
(* that of sumDifference counts pixels.                                     *)
Progress ==
    /\ pc = "convert" => mCount < Pictures
    /\ pc = "convert" =>
          \E n \in Nat : k = 4 * n /\ newi = 6 * n /\ k <= Size
    /\ pc = "sum" =>
          /\ mSize = (Size * 6) \div 4
          /\ \E n \in Nat : k = 3 * n /\ k <= mSize

(* The sum is at most 255 for each byte seen. *)
SumBounded == pc = "sum" => sum <= 255 * k

IInv == TypeOK /\ Progress /\ SumBounded

(* The sizes of a picture in YUYV units.                                    *)
LEMMA Units ==
    \E u \in Nat : /\ Size = 4 * u /\ (Size * 6) \div 4 = 6 * u
                   /\ PictureFits => 6 * u <= sBufferSize
<1> DEFINE u == Size \div 4
<1>1. Size \in Nat /\ Size % 4 = 0
  BY PixelsAssumption
<1>2. u \in Nat /\ Size = 4 * u
  BY <1>1
<1>3. (Size * 6) \div 4 = 6 * u
  <2>1. Size * 6 = 4 * (6 * u)
    BY <1>2
  <2> QED
    BY <2>1, <1>2
<1>4. PictureFits => 6 * u <= sBufferSize
  BY <1>2, PixelsAssumption DEF PictureFits
<1> QED
  BY <1>2, <1>3, <1>4

(* A channel is a byte: the limits of yuv2rgb.                              *)
LEMMA ByteType == ASSUME NEW x \in Int PROVE Byte(x) \in 0 .. 255
BY DEF Byte

(* A colour is a byte. *)
LEMMA ColourType ==
    ASSUME NEW y \in 0 .. 255, NEW u \in 0 .. 255, NEW v \in 0 .. 255
    PROVE  /\ Red(y, u, v) \in 0 .. 255
           /\ Green(y, u, v) \in 0 .. 255
           /\ Blue(y, u, v) \in 0 .. 255
BY ByteType DEF Red, Green, Blue

(* So is the difference of two bytes. *)
LEMMA AbsDiffType ==
    ASSUME NEW a \in 0 .. 255, NEW b \in 0 .. 255
    PROVE  AbsDiff(a, b) \in 0 .. 255
BY DEF AbsDiff

(* The invariant holds before the first picture. *)
LEMMA InitIInv == Init => IInv
<1> SUFFICES ASSUME Init PROVE IInv
  OBVIOUS
<1> USE PixelsAssumption DEF Init
<1>1. TypeOK
  BY DEF TypeOK, Yuyv, Rgb
<1> QED
  BY <1>1 DEF IInv, Progress, SumBounded

(* It is kept by the arrival of a picture of any size, *)
LEMMA ReceiveIInv == IInv /\ Receive => IInv'
<1> SUFFICES ASSUME IInv, Receive PROVE IInv'
  OBVIOUS
<1>1. TypeOK'
  <2>1. pptr' \in [Yuyv -> 0 .. 255] /\ oldYuyv' = pptr
    BY PixelsAssumption DEF Receive, Yuyv
  <2>2. rgb' \in [Rgb -> 0 .. 255]
    BY DEF Receive
  <2>3. k' \in Nat /\ newi' \in Nat /\ pc' = "convert"
    BY DEF Receive
  <2> QED
    BY <2>1, <2>2, <2>3 DEF IInv, TypeOK, Receive
<1>2. Progress'
  <2>1. k' = 4 * 0 /\ newi' = 6 * 0 /\ 0 <= Size /\ pc' = "convert"
    BY PixelsAssumption DEF Receive
  <2>2. mCount' < Pictures
    BY DEF Receive
  <2> QED
    BY <2>1, <2>2 DEF Progress
<1>3. SumBounded'
  BY DEF Receive, SumBounded
<1> QED
  BY <1>1, <1>2, <1>3 DEF IInv

(* by the conversion of two more pixels, *)
LEMMA ConvertPixelsIInv == PictureFits /\ IInv /\ ConvertPixels => IInv'
<1> SUFFICES ASSUME PictureFits, IInv, ConvertPixels PROVE IInv'
  OBVIOUS
<1>1. PICK u \in Nat : Size = 4 * u /\ 6 * u <= sBufferSize
  BY Units
<1>2. PICK n \in Nat : k = 4 * n /\ newi = 6 * n /\ k < Size
  BY DEF IInv, Progress, ConvertPixels
<1>3. n + 1 <= u
  BY <1>1, <1>2
<1>4. k \in Yuyv /\ k + 1 \in Yuyv /\ k + 2 \in Yuyv /\ k + 3 \in Yuyv
  BY <1>1, <1>2, <1>3 DEF Yuyv
<1>5. \A b \in Yuyv : pptr[b] \in 0 .. 255
  BY DEF IInv, TypeOK
<1>6. rgb' \in [Rgb -> 0 .. 255]
  <2> DEFINE y1 == pptr[k]
             y2 == pptr[k + 2]
             c == pptr[k + 1]
             d == pptr[k + 3]
  <2>1. /\ y1 \in 0 .. 255 /\ y2 \in 0 .. 255
        /\ c \in 0 .. 255 /\ d \in 0 .. 255
    BY <1>4, <1>5
  <2>2. /\ Red(y1, c, d) \in 0 .. 255 /\ Green(y1, c, d) \in 0 .. 255
        /\ Blue(y1, c, d) \in 0 .. 255
        /\ Red(y2, c, d) \in 0 .. 255 /\ Green(y2, c, d) \in 0 .. 255
        /\ Blue(y2, c, d) \in 0 .. 255
    BY <2>1, ColourType
  <2>3. rgb' = [rgb EXCEPT
            ![newi] = Red(y1, c, d), ![newi + 1] = Green(y1, c, d),
            ![newi + 2] = Blue(y1, c, d), ![newi + 3] = Red(y2, c, d),
            ![newi + 4] = Green(y2, c, d), ![newi + 5] = Blue(y2, c, d)]
    BY DEF ConvertPixels
  <2>4. rgb \in [Rgb -> 0 .. 255]
    BY DEF IInv, TypeOK
  <2> HIDE DEF y1, y2, c, d
  <2> QED
    BY <2>2, <2>3, <2>4
<1>7. TypeOK'
  <2>1. k' \in Nat /\ newi' \in Nat
    BY <1>2 DEF ConvertPixels
  <2> QED
    BY <1>6, <2>1 DEF IInv, TypeOK, ConvertPixels
<1>8. Progress'
  <2>1. n + 1 \in Nat /\ k' = 4 * (n + 1) /\ newi' = 6 * (n + 1) /\ k' <= Size
    BY <1>1, <1>2, <1>3 DEF ConvertPixels
  <2>2. pc' = "convert" /\ mCount' < Pictures
    BY DEF ConvertPixels, IInv, Progress
  <2> QED
    BY <2>1, <2>2 DEF Progress
<1>9. SumBounded'
  BY DEF ConvertPixels, SumBounded
<1> QED
  BY <1>7, <1>8, <1>9 DEF IInv

(* by the end of the conversion, *)
LEMMA ConvertDoneIInv == PictureFits /\ IInv /\ ConvertDone => IInv'
<1> SUFFICES ASSUME PictureFits, IInv, ConvertDone PROVE IInv'
  OBVIOUS
<1>1. PICK u \in Nat : (Size * 6) \div 4 = 6 * u /\ 6 * u <= sBufferSize
  BY Units
<1>2. mSize' = 6 * u /\ mSize' = (Size * 6) \div 4
  BY <1>1 DEF ConvertDone
<1>3. mSize' \in 0 .. sBufferSize
  BY <1>1, <1>2, PixelsAssumption
<1>4. TypeOK'
  <2>1. mCount' \in 0 .. Pictures
    BY PixelsAssumption DEF IInv, TypeOK, Progress, ConvertDone
  <2>2. k' \in Nat /\ sum' \in 0 .. Word - 1
    BY PixelsAssumption DEF ConvertDone
  <2>3. pc' \in {"camera", "sum"} /\ mOldImage' \in [Rgb -> 0 .. 255]
    BY DEF ConvertDone, IInv, TypeOK
  <2> QED
    BY <2>1, <2>2, <2>3, <1>3 DEF IInv, TypeOK, ConvertDone
<1>5. Progress'
  <2>1. pc' # "convert" /\ k' = 3 * 0 /\ 0 <= mSize'
    BY <1>3 DEF ConvertDone
  <2> QED
    BY <2>1, <1>2 DEF Progress
<1>6. SumBounded'
  BY DEF ConvertDone, SumBounded
<1> QED
  BY <1>4, <1>5, <1>6 DEF IInv

(* by one more term of the sum, *)
LEMMA SumPixelIInv == PictureFits /\ IInv /\ SumPixel => IInv'
<1> SUFFICES ASSUME PictureFits, IInv, SumPixel PROVE IInv'
  OBVIOUS
<1>1. PICK u \in Nat : (Size * 6) \div 4 = 6 * u /\ 6 * u <= sBufferSize
  BY Units
<1>2. PICK n \in Nat : k = 3 * n /\ k < mSize /\ mSize = 6 * u
  BY <1>1 DEF IInv, Progress, SumPixel
<1>3. k + 3 <= mSize
  BY <1>2
<1>4. k \in Rgb /\ k + 1 \in Rgb /\ k + 2 \in Rgb
  BY <1>1, <1>2, <1>3, PixelsAssumption DEF Rgb
<1> DEFINE a == AbsDiff(rgb[k], mOldImage[k])
           b == AbsDiff(rgb[k + 1], mOldImage[k + 1])
           c == AbsDiff(rgb[k + 2], mOldImage[k + 2])
<1>5. a \in 0 .. 255 /\ b \in 0 .. 255 /\ c \in 0 .. 255
  <2>1. \A p \in Rgb : rgb[p] \in 0 .. 255 /\ mOldImage[p] \in 0 .. 255
    BY DEF IInv, TypeOK
  <2> QED
    BY <2>1, <1>4, AbsDiffType
<1>6. sum' = (sum + a + b + c) % Word
  BY DEF SumPixel
<1> HIDE DEF a, b, c
(* The sum before this step leaves room for three bytes.                    *)
<1>7. sum \in Nat /\ sum <= 255 * k
  BY PixelsAssumption DEF IInv, TypeOK, SumBounded, SumPixel
<1>8. sum + a + b + c \in 0 .. 255 * (k + 3)
  BY <1>5, <1>7, <1>2
<1>9. 255 * (k + 3) < Word
  BY <1>1, <1>2, <1>3, PixelsAssumption
<1>10. sum' = sum + a + b + c
  <2>1. sum + a + b + c \in 0 .. Word - 1
    BY <1>8, <1>9, <1>2, PixelsAssumption
  <2>2. ASSUME NEW m \in 0 .. Word - 1 PROVE m % Word = m
    BY PixelsAssumption
  <2> QED
    BY <1>6, <2>1, <2>2
<1>11. TypeOK'
  <2>1. sum' \in 0 .. Word - 1 /\ k' \in Nat
    BY <1>10, <1>8, <1>9, <1>2, PixelsAssumption DEF SumPixel
  <2> QED
    BY <2>1 DEF IInv, TypeOK, SumPixel
<1>12. Progress'
  <2>1. n + 1 \in Nat /\ k' = 3 * (n + 1) /\ k' <= mSize'
    BY <1>2, <1>3 DEF SumPixel
  <2>2. pc' = "sum" /\ mSize' = (Size * 6) \div 4
    BY <1>1, <1>2 DEF SumPixel
  <2> QED
    BY <2>1, <2>2 DEF Progress
<1>13. SumBounded'
  <2>1. k' = k + 3
    BY DEF SumPixel
  <2> QED
    BY <2>1, <1>10, <1>8, <1>2 DEF SumBounded
<1> QED
  BY <1>11, <1>12, <1>13 DEF IInv

(* and by the end of the sum. *)
LEMMA SumDoneIInv == IInv /\ SumDone => IInv'
BY DEF IInv, TypeOK, Progress, SumBounded, SumDone

(* The invariant, for every size that fits, every sample and every number   *)
(* of pictures.                                                             *)
THEOREM Invariance ==
    ASSUME PictureFits
    PROVE  Spec => []IInv
<1>1. Init => IInv
  BY InitIInv
<1>2. IInv /\ [Next]_vars => IInv'
  <2> SUFFICES ASSUME IInv, [Next]_vars PROVE IInv'
    OBVIOUS
  <2>1. CASE Receive
    BY <2>1, ReceiveIInv
  <2>2. CASE ConvertPixels
    BY <2>2, ConvertPixelsIInv
  <2>3. CASE ConvertDone
    BY <2>3, ConvertDoneIInv
  <2>4. CASE SumPixel
    BY <2>4, SumPixelIInv
  <2>5. CASE SumDone
    BY <2>5, SumDoneIInv
  <2>6. CASE UNCHANGED vars
    BY <2>6 DEF vars, IInv, TypeOK, Progress, SumBounded
  <2> QED
    BY <2>1, <2>2, <2>3, <2>4, <2>5, <2>6 DEF Next
<1> QED
  BY <1>1, <1>2, PTL DEF Spec

(* Colours are bytes, whatever the chrominance.                             *)
THEOREM TypeCorrect ==
    ASSUME PictureFits
    PROVE  Spec => []TypeOK
<1>1. IInv => TypeOK
  BY DEF IInv
<1> QED
  BY <1>1, Invariance, PTL

(* The uint32_t of sumDifference is wide enough for every picture that fits *)
(* into an RGB buffer: no addition of the loop wraps.                       *)
THEOREM SumNeverWraps ==
    ASSUME PictureFits
    PROVE  Spec => []SumFits
<1>1. IInv => SumFits
  <2> SUFFICES ASSUME IInv, pc = "sum", k < mSize
               PROVE  sum + AbsDiff(rgb[k], mOldImage[k])
                          + AbsDiff(rgb[k + 1], mOldImage[k + 1])
                          + AbsDiff(rgb[k + 2], mOldImage[k + 2]) < Word
    BY DEF SumFits
  <2>1. PICK u \in Nat : (Size * 6) \div 4 = 6 * u /\ 6 * u <= sBufferSize
    BY Units
  <2>2. PICK n \in Nat : k = 3 * n /\ mSize = 6 * u
    BY <2>1 DEF IInv, Progress
  <2>3. k \in Nat /\ k + 3 <= mSize /\ mSize <= sBufferSize /\ sBufferSize \in Nat
    BY <2>1, <2>2, PixelsAssumption
  <2>4. k \in Rgb /\ k + 1 \in Rgb /\ k + 2 \in Rgb
    BY <2>1, <2>2, <2>3 DEF Rgb
  <2>5. \A p \in Rgb : AbsDiff(rgb[p], mOldImage[p]) \in 0 .. 255
    BY AbsDiffType DEF IInv, TypeOK
  <2> DEFINE a == AbsDiff(rgb[k], mOldImage[k])
             b == AbsDiff(rgb[k + 1], mOldImage[k + 1])
             c == AbsDiff(rgb[k + 2], mOldImage[k + 2])
  <2>6. a \in 0 .. 255 /\ b \in 0 .. 255 /\ c \in 0 .. 255
    BY <2>4, <2>5
  <2>7. sum \in Nat /\ sum <= 255 * k
    BY PixelsAssumption DEF IInv, TypeOK, SumBounded
  <2> HIDE DEF a, b, c
  <2>8. sum + a + b + c <= 255 * (k + 3)
    BY <2>3, <2>6, <2>7
  <2>9. 255 * (k + 3) < Word
    BY <2>2, <2>3, PixelsAssumption
  <2>10. sum + a + b + c < Word
    BY <2>2, <2>3, <2>6, <2>7, <2>8, <2>9, PixelsAssumption
  <2> QED
    BY <2>10 DEF a, b, c
<1> QED
  BY <1>1, Invariance, PTL

(* Neither loop indexes outside of its buffers with a picture of which an   *)
(* RGB buffer holds one and a half times as much, whatever both sizes are.  *)
(* That the picture is no larger is up to the driver: nothing checks it.    *)
THEOREM LoopsInBounds ==
    ASSUME PictureFits
    PROVE  Spec => []InBounds
<1>1. IInv => InBounds
  <2> SUFFICES ASSUME IInv PROVE InBounds
    OBVIOUS
  <2>1. PICK u \in Nat : Size = 4 * u /\ (Size * 6) \div 4 = 6 * u
                         /\ 6 * u <= sBufferSize
    BY Units
  <2>2. ASSUME pc = "convert", k < Size
        PROVE  k + 4 <= Size /\ newi + 6 <= sBufferSize
    <3>1. PICK n \in Nat : k = 4 * n /\ newi = 6 * n
      BY <2>2 DEF IInv, Progress
    <3> QED
      BY <3>1, <2>1, <2>2, PixelsAssumption
  <2>3. ASSUME pc = "sum", k < mSize PROVE k + 3 <= mSize
    <3>1. PICK n \in Nat : k = 3 * n /\ mSize = 6 * u
      BY <2>1, <2>3 DEF IInv, Progress
    <3> QED
      BY <3>1, <2>3
  <2> QED
    BY <2>2, <2>3 DEF InBounds
<1> QED
  BY <1>1, Invariance, PTL

-----------------------------------------------------------------------------
(* The six bytes of a unit are the colours of its two pixels.               *)
UnitConverted(j) ==
    LET u == pptr[4 * j + 1]
        v == pptr[4 * j + 3]
    IN  /\ rgb[6 * j]     = Red(pptr[4 * j], u, v)
        /\ rgb[6 * j + 1] = Green(pptr[4 * j], u, v)
        /\ rgb[6 * j + 2] = Blue(pptr[4 * j], u, v)
        /\ rgb[6 * j + 3] = Red(pptr[4 * j + 2], u, v)
        /\ rgb[6 * j + 4] = Green(pptr[4 * j + 2], u, v)
        /\ rgb[6 * j + 5] = Blue(pptr[4 * j + 2], u, v)

(* colorConvert is done with the units before its index.                    *)
UnitsConverted ==
    pc = "convert" => \A j \in Nat : 4 * j < k => UnitConverted(j)

(* One pass converts its unit and leaves the earlier ones alone.            *)
LEMMA ConvertPixelsUnits ==
    PictureFits /\ IInv /\ UnitsConverted /\ ConvertPixels => UnitsConverted'
<1> SUFFICES ASSUME PictureFits, IInv, UnitsConverted, ConvertPixels, NEW j \in Nat, 4 * j < k'
             PROVE  UnitConverted(j)'
  BY DEF UnitsConverted
<1>1. PICK u \in Nat : Size = 4 * u /\ 6 * u <= sBufferSize
  BY Units
<1>2. PICK n \in Nat : k = 4 * n /\ newi = 6 * n /\ k < Size
  BY DEF IInv, Progress, ConvertPixels
<1>3. n + 1 <= u /\ j <= n /\ pptr' = pptr /\ pc = "convert"
  BY <1>1, <1>2 DEF ConvertPixels
<1>4. rgb \in [Rgb -> 0 .. 255] /\ 6 * n + 5 < sBufferSize /\ sBufferSize \in Nat
  <2>1. 6 * n + 6 <= 6 * u
    BY <1>3
  <2>2. sBufferSize \in Nat
    BY PixelsAssumption
  <2>3. rgb \in [Rgb -> 0 .. 255]
    BY DEF IInv, TypeOK
  <2> QED
    BY <1>1, <2>1, <2>2, <2>3
<1> DEFINE c == pptr[4 * n + 1]
           d == pptr[4 * n + 3]
           y1 == pptr[4 * n]
           y2 == pptr[4 * n + 2]
<1>5. rgb' = [rgb EXCEPT
          ![6 * n] = Red(y1, c, d), ![6 * n + 1] = Green(y1, c, d),
          ![6 * n + 2] = Blue(y1, c, d), ![6 * n + 3] = Red(y2, c, d),
          ![6 * n + 4] = Green(y2, c, d), ![6 * n + 5] = Blue(y2, c, d)]
  BY <1>2 DEF ConvertPixels
<1>6. CASE j = n
  <2>1. /\ rgb'[6 * n] = Red(y1, c, d)     /\ rgb'[6 * n + 1] = Green(y1, c, d)
        /\ rgb'[6 * n + 2] = Blue(y1, c, d) /\ rgb'[6 * n + 3] = Red(y2, c, d)
        /\ rgb'[6 * n + 4] = Green(y2, c, d) /\ rgb'[6 * n + 5] = Blue(y2, c, d)
    <3> HIDE DEF c, d, y1, y2
    <3>1. \A i \in 0 .. 5 : 6 * n + i \in DOMAIN rgb
      BY <1>4 DEF Rgb
    <3> QED
      BY <1>4, <1>5, <3>1
  <2> QED
    BY <1>3, <1>6, <2>1 DEF UnitConverted
<1>7. CASE j # n
  <2>1. 4 * j < k /\ 6 * j + 5 < 6 * n
    BY <1>2, <1>3, <1>7
  <2>2. \A i \in 0 .. 5 : 6 * j + i \in Rgb /\ 6 * j + i < 6 * n
    BY <1>4, <2>1 DEF Rgb
  <2> HIDE DEF c, d, y1, y2
  <2>3. \A b \in Rgb : b < 6 * n => rgb'[b] = rgb[b]
    BY <1>4, <1>5 DEF Rgb
  <2>4. \A i \in 0 .. 5 : rgb'[6 * j + i] = rgb[6 * j + i]
    BY <2>2, <2>3
  <2>5. /\ rgb'[6 * j] = rgb[6 * j]         /\ rgb'[6 * j + 1] = rgb[6 * j + 1]
        /\ rgb'[6 * j + 2] = rgb[6 * j + 2] /\ rgb'[6 * j + 3] = rgb[6 * j + 3]
        /\ rgb'[6 * j + 4] = rgb[6 * j + 4] /\ rgb'[6 * j + 5] = rgb[6 * j + 5]
    BY <2>4
  <2>6. UnitConverted(j)
    BY <1>3, <2>1 DEF UnitsConverted
  <2> QED
    BY <1>3, <2>5, <2>6 DEF UnitConverted
<1> QED
  BY <1>6, <1>7

(* The other steps begin or end the loop.                                   *)
LEMMA UnitsInvariance ==
    ASSUME PictureFits
    PROVE  Spec => []UnitsConverted
<1>1. Init => UnitsConverted
  BY DEF Init, UnitsConverted
<1>2. IInv /\ UnitsConverted /\ [Next]_vars => UnitsConverted'
  <2> SUFFICES ASSUME IInv, UnitsConverted, [Next]_vars PROVE UnitsConverted'
    OBVIOUS
  <2>1. CASE Receive
    <3>1. k' = 0 /\ \A j \in Nat : ~(4 * j < 0)
      BY <2>1 DEF Receive
    <3> QED
      BY <3>1 DEF UnitsConverted
  <2>2. CASE ConvertPixels
    BY <2>2, ConvertPixelsUnits
  <2>3. CASE ConvertDone \/ SumPixel \/ SumDone
    <3>1. pc' # "convert"
      BY <2>3 DEF ConvertDone, SumPixel, SumDone
    <3> QED
      BY <3>1 DEF UnitsConverted
  <2>4. CASE UNCHANGED vars
    BY <2>4 DEF vars, UnitsConverted, UnitConverted
  <2> QED
    BY <2>1, <2>2, <2>3, <2>4 DEF Next
<1> QED
  BY <1>1, <1>2, Invariance, PTL DEF Spec

(* To add half, shift and limit is to round to the nearest byte.            *)
LEMMA ByteIsNearest == ASSUME NEW x \in Int PROVE IsNearest(Byte(x + 128), x)
<1> DEFINE q == (x + 128) \div 256
<1>1. q \in Int /\ 256 * q <= x + 128 /\ x + 128 < 256 * q + 256
  OBVIOUS
<1>2. Byte(x + 128) = IF q > 255 THEN 255 ELSE IF q < 0 THEN 0 ELSE q
  BY DEF Byte
<1> HIDE DEF q
<1> SUFFICES ASSUME NEW s \in 0 .. 255
             PROVE  \/ Distance(256 * Byte(x + 128), x) < Distance(256 * s, x)
                    \/ /\ Distance(256 * Byte(x + 128), x) = Distance(256 * s, x)
                       /\ s <= Byte(x + 128)
  BY DEF IsNearest
<1>3. CASE q > 255
  BY <1>1, <1>2, <1>3 DEF Distance
<1>4. CASE q < 0
  BY <1>1, <1>2, <1>4 DEF Distance
<1>5. CASE q \in 0 .. 255
  <2>1. CASE s = q
    BY <1>1, <1>2, <1>5, <2>1 DEF Distance
  <2>2. CASE s < q
    BY <1>1, <1>2, <1>5, <2>2 DEF Distance
  <2>3. CASE s > q
    BY <1>1, <1>2, <1>5, <2>3 DEF Distance
  <2> QED
    BY <1>1, <1>5, <2>1, <2>2, <2>3
<1> QED
  BY <1>1, <1>3, <1>4, <1>5

(* So each of the three sums of yuv2rgb gives the nearest byte.             *)
LEMMA ChannelsAreNearest ==
    ASSUME NEW y \in 0 .. 255, NEW u \in 0 .. 255, NEW v \in 0 .. 255
    PROVE  /\ IsNearest(Red(y, u, v), 298 * (y - 16) + 409 * (v - 128))
           /\ IsNearest(Green(y, u, v),
                        298 * (y - 16) - 100 * (u - 128) - 208 * (v - 128))
           /\ IsNearest(Blue(y, u, v), 298 * (y - 16) + 516 * (u - 128))
<1> DEFINE r == 298 * (y - 16) + 409 * (v - 128)
           g == 298 * (y - 16) - 100 * (u - 128) - 208 * (v - 128)
           b == 298 * (y - 16) + 516 * (u - 128)
<1>1. r \in Int /\ g \in Int /\ b \in Int
  OBVIOUS
<1>2. Red(y, u, v) = Byte(r + 128) /\ Green(y, u, v) = Byte(g + 128)
      /\ Blue(y, u, v) = Byte(b + 128)
  BY DEF Red, Green, Blue
<1> HIDE DEF r, g, b
<1>3. IsNearest(Byte(r + 128), r) /\ IsNearest(Byte(g + 128), g)
      /\ IsNearest(Byte(b + 128), b)
  BY <1>1, ByteIsNearest
<1> QED
  BY <1>2, <1>3 DEF r, g, b

(* Every pixel of the converted picture has the colour of its luminance and *)
(* of the chrominance of its unit, rounded to the nearest byte, for every   *)
(* size of a picture that fits and every sample.                            *)
THEOREM PixelsAreNearest ==
    ASSUME PictureFits
    PROVE  Spec => []ColoursAreNearest
<1>1. ASSUME IInv, UnitsConverted PROVE ColoursAreNearest
  <2> SUFFICES ASSUME pc = "convert", k >= Size,
                      NEW p \in 0 .. Size \div 2 - 1, NEW channel \in 0 .. 2
               PROVE  IsNearest(rgb[3 * p + channel], Colour(p, channel))
    BY DEF ColoursAreNearest
  <2>1. PICK u \in Nat : Size = 4 * u
    BY Units
  <2>2. k = Size
    BY <2>1, <1>1 DEF IInv, Progress
  <2>3. PICK j \in Nat : p \in {2 * j, 2 * j + 1} /\ p \div 2 = j
    <3>1. p \in Nat
      BY <2>1
    <3>2. p \div 2 \in Nat /\ p \in {2 * (p \div 2), 2 * (p \div 2) + 1}
      BY <3>1
    <3> QED
      BY <3>2
  <2>4. j < u /\ 4 * j < k
    BY <2>1, <2>2, <2>3
  <2>5. UnitConverted(j)
    BY <1>1, <2>4 DEF UnitsConverted
  <2> DEFINE c == pptr[4 * j + 1]
             d == pptr[4 * j + 3]
  <2>6. ASSUME NEW i \in 0 .. 3 PROVE pptr[4 * j + i] \in 0 .. 255
    <3>1. 4 * j + i \in Yuyv
      BY <2>1, <2>4 DEF Yuyv
    <3> QED
      BY <1>1, <3>1 DEF IInv, TypeOK
  <2>7. /\ pptr[4 * j] \in 0 .. 255 /\ c \in 0 .. 255
        /\ pptr[4 * j + 2] \in 0 .. 255 /\ d \in 0 .. 255
    BY <2>6
  <2>8. ASSUME NEW y \in 0 .. 255, pptr[2 * p] = y,
               rgb[3 * p] = Red(y, c, d), rgb[3 * p + 1] = Green(y, c, d),
               rgb[3 * p + 2] = Blue(y, c, d)
        PROVE  IsNearest(rgb[3 * p + channel], Colour(p, channel))
    <3>1. /\ IsNearest(Red(y, c, d), 298 * (y - 16) + 409 * (d - 128))
          /\ IsNearest(Green(y, c, d),
                       298 * (y - 16) - 100 * (c - 128) - 208 * (d - 128))
          /\ IsNearest(Blue(y, c, d), 298 * (y - 16) + 516 * (c - 128))
      BY <2>7, ChannelsAreNearest
    <3>2. /\ Colour(p, 0) = 298 * (y - 16) + 409 * (d - 128)
          /\ Colour(p, 1) = 298 * (y - 16) - 100 * (c - 128) - 208 * (d - 128)
          /\ Colour(p, 2) = 298 * (y - 16) + 516 * (c - 128)
      BY <2>3, <2>8 DEF Colour
    <3>3. channel = 0 \/ channel = 1 \/ channel = 2
      OBVIOUS
    <3>4. CASE channel = 0
      <4>1. rgb[3 * p + channel] = Red(y, c, d)
        BY <2>8, <3>4
      <4> QED
        BY <3>1, <3>2, <3>4, <4>1
    <3>5. CASE channel = 1
      BY <2>8, <3>1, <3>2, <3>5
    <3>6. CASE channel = 2
      BY <2>8, <3>1, <3>2, <3>6
    <3> QED
      BY <3>3, <3>4, <3>5, <3>6
  <2>9. CASE p = 2 * j
    <3>1. 2 * p = 4 * j /\ 3 * p = 6 * j
      BY <2>9
    <3>2. /\ rgb[6 * j] = Red(pptr[4 * j], c, d)
          /\ rgb[6 * j + 1] = Green(pptr[4 * j], c, d)
          /\ rgb[6 * j + 2] = Blue(pptr[4 * j], c, d)
      BY <2>5 DEF UnitConverted
    <3> QED
      BY <2>7, <2>8, <3>1, <3>2
  <2>10. CASE p = 2 * j + 1
    <3>1. 2 * p = 4 * j + 2 /\ 3 * p = 6 * j + 3 /\ 3 * p + 1 = 6 * j + 4
          /\ 3 * p + 2 = 6 * j + 5
      BY <2>10
    <3>2. /\ rgb[6 * j + 3] = Red(pptr[4 * j + 2], c, d)
          /\ rgb[6 * j + 4] = Green(pptr[4 * j + 2], c, d)
          /\ rgb[6 * j + 5] = Blue(pptr[4 * j + 2], c, d)
      BY <2>5 DEF UnitConverted
    <3> QED
      BY <2>7, <2>8, <3>1, <3>2
  <2> QED
    BY <2>3, <2>9, <2>10
<1> QED
  BY <1>1, Invariance, UnitsInvariance, PTL

-----------------------------------------------------------------------------
(* So far sumDifference has found a difference or the bytes are equal.      *)
ZeroSoFar ==
    pc = "sum" => (sum = 0 <=> \A b \in 0 .. k - 1 : rgb[b] = mOldImage[b])

(* A difference is zero only between equal bytes.                           *)
LEMMA AbsDiffZero ==
    ASSUME NEW a \in 0 .. 255, NEW b \in 0 .. 255
    PROVE  AbsDiff(a, b) \in 0 .. 255 /\ (AbsDiff(a, b) = 0 <=> a = b)
BY DEF AbsDiff

(* One pass of sumDifference adds the differences of the three bytes of a   *)
(* pixel of both pictures, and the sum does not wrap.                       *)
LEMMA SumPixelAdds ==
    ASSUME PictureFits, IInv, SumPixel
    PROVE  /\ k \in Nat /\ k' = k + 3 /\ pc = "sum" /\ rgb' = rgb /\ mOldImage' = mOldImage
           /\ k + 3 <= mSize /\ mSize <= sBufferSize /\ mSize \in Nat /\ sBufferSize \in Nat
           /\ sum \in Nat
           /\ \A b \in {k, k + 1, k + 2} :
                  /\ AbsDiff(rgb[b], mOldImage[b]) \in 0 .. 255
                  /\ AbsDiff(rgb[b], mOldImage[b]) = 0 <=> rgb[b] = mOldImage[b]
           /\ sum' = sum + AbsDiff(rgb[k], mOldImage[k])
                         + AbsDiff(rgb[k + 1], mOldImage[k + 1])
                         + AbsDiff(rgb[k + 2], mOldImage[k + 2])
<1> DEFINE a0 == AbsDiff(rgb[k], mOldImage[k])
           a1 == AbsDiff(rgb[k + 1], mOldImage[k + 1])
           a2 == AbsDiff(rgb[k + 2], mOldImage[k + 2])
<1>1. k \in Nat /\ k' = k + 3 /\ pc = "sum" /\ rgb' = rgb /\ mOldImage' = mOldImage
  BY DEF IInv, TypeOK, SumPixel
<1>2. PICK w \in Nat : (Size * 6) \div 4 = 6 * w /\ 6 * w <= sBufferSize
  BY Units
<1>3. k + 3 <= mSize
  <2>1. PICK n \in Nat : k = 3 * n /\ k < mSize /\ mSize = 6 * w
    BY <1>2 DEF IInv, Progress, SumPixel
  <2> QED
    BY <2>1
<1>4. mSize <= sBufferSize /\ mSize \in Nat /\ sBufferSize \in Nat
  BY PixelsAssumption DEF IInv, TypeOK
<1>5. \A b \in {k, k + 1, k + 2} :
         rgb[b] \in 0 .. 255 /\ mOldImage[b] \in 0 .. 255
  <2>1. \A b \in {k, k + 1, k + 2} : b \in Rgb
    BY <1>1, <1>3, <1>4 DEF Rgb
  <2> QED
    BY <2>1 DEF IInv, TypeOK
<1>6. \A b \in {k, k + 1, k + 2} :
         /\ AbsDiff(rgb[b], mOldImage[b]) \in 0 .. 255
         /\ AbsDiff(rgb[b], mOldImage[b]) = 0 <=> rgb[b] = mOldImage[b]
  BY <1>5, AbsDiffZero
<1>7. a0 \in 0 .. 255 /\ a1 \in 0 .. 255 /\ a2 \in 0 .. 255
  BY <1>6, Zenon
<1>8. sum' = (sum + a0 + a1 + a2) % Word
  BY DEF SumPixel
<1>9. sum \in Nat /\ sum <= 255 * k
  BY <1>1, PixelsAssumption DEF IInv, TypeOK, SumBounded
<1> HIDE DEF a0, a1, a2
<1>10. sum' = sum + a0 + a1 + a2
  <2>1. sum + a0 + a1 + a2 \in 0 .. 255 * (k + 3)
    BY <1>1, <1>7, <1>9
  <2>2. 255 * (k + 3) < Word
    BY <1>1, <1>3, <1>4, PixelsAssumption
  <2>3. sum + a0 + a1 + a2 \in 0 .. Word - 1
    BY <1>1, <2>1, <2>2, PixelsAssumption
  <2>4. ASSUME NEW m \in 0 .. Word - 1 PROVE m % Word = m
    BY PixelsAssumption
  <2> QED
    BY <1>8, <2>3, <2>4
<1> QED
  BY <1>1, <1>3, <1>4, <1>6, <1>9, <1>10 DEF a0, a1, a2

(* The differences are positive and never wrap to zero: the sum is zero     *)
(* exactly when the two pictures are equal as far as they were compared.    *)
THEOREM OnlyEqualPicturesSumToZero ==
    ASSUME PictureFits
    PROVE  Spec => []ZeroSoFar
<1>1. Init => ZeroSoFar
  BY DEF Init, ZeroSoFar
<1>2. IInv /\ ZeroSoFar /\ [Next]_vars => ZeroSoFar'
  <2> SUFFICES ASSUME IInv, ZeroSoFar, [Next]_vars PROVE ZeroSoFar'
    OBVIOUS
  <2>1. CASE SumPixel
    <3> DEFINE a0 == AbsDiff(rgb[k], mOldImage[k])
               a1 == AbsDiff(rgb[k + 1], mOldImage[k + 1])
               a2 == AbsDiff(rgb[k + 2], mOldImage[k + 2])
    <3>1. k \in Nat /\ k' = k + 3 /\ pc = "sum" /\ rgb' = rgb /\ mOldImage' = mOldImage
      BY <2>1, SumPixelAdds
    <3>2. /\ a0 \in 0 .. 255 /\ (a0 = 0 <=> rgb[k] = mOldImage[k])
          /\ a1 \in 0 .. 255 /\ (a1 = 0 <=> rgb[k + 1] = mOldImage[k + 1])
          /\ a2 \in 0 .. 255 /\ (a2 = 0 <=> rgb[k + 2] = mOldImage[k + 2])
      BY <2>1, SumPixelAdds, Zenon
    <3>3. sum \in Nat
      BY <2>1, SumPixelAdds
    <3>4. sum' = sum + a0 + a1 + a2
      BY <2>1, SumPixelAdds
    <3> HIDE DEF a0, a1, a2
    <3>5. sum' = 0 <=> sum = 0 /\ a0 = 0 /\ a1 = 0 /\ a2 = 0
      BY <3>2, <3>3, <3>4
    <3>6. sum' = 0 <=> /\ sum = 0
                       /\ rgb[k] = mOldImage[k]
                       /\ rgb[k + 1] = mOldImage[k + 1]
                       /\ rgb[k + 2] = mOldImage[k + 2]
      BY <3>2, <3>5
    <3>7. sum = 0 <=> \A b \in 0 .. k - 1 : rgb[b] = mOldImage[b]
      BY <3>1 DEF ZeroSoFar
    <3>8. \A b \in 0 .. k + 3 - 1 :
              b \in 0 .. k - 1 \/ b = k \/ b = k + 1 \/ b = k + 2
      BY <3>1
    <3>9. /\ \A b \in 0 .. k - 1 : b \in 0 .. k + 3 - 1
           /\ k \in 0 .. k + 3 - 1 /\ k + 1 \in 0 .. k + 3 - 1 /\ k + 2 \in 0 .. k + 3 - 1
      BY <3>1
    <3>10. sum' = 0 <=> \A b \in 0 .. k + 3 - 1 : rgb[b] = mOldImage[b]
      BY <3>1, <3>6, <3>7, <3>8, <3>9
    <3> QED
      BY <3>1, <3>10 DEF ZeroSoFar
  <2>2. CASE ConvertDone
    <3>1. sum' = 0 /\ k' = 0
      BY <2>2 DEF ConvertDone
    <3> QED
      BY <3>1 DEF ZeroSoFar
  <2>3. CASE Receive \/ ConvertPixels \/ SumDone
    <3>1. pc' # "sum"
      BY <2>3 DEF Receive, ConvertPixels, SumDone
    <3> QED
      BY <3>1 DEF ZeroSoFar
  <2>4. CASE UNCHANGED vars
    BY <2>4 DEF vars, ZeroSoFar
  <2> QED
    BY <2>1, <2>2, <2>3, <2>4 DEF Next
<1> QED
  BY <1>1, <1>2, Invariance, PTL DEF Spec

-----------------------------------------------------------------------------
(* Every set of natural numbers has a least one.                            *)
LEMMA LeastNumber ==
    ASSUME NEW T, T \subseteq Nat, T # {}
    PROVE  \E n \in T : \A m \in T : n <= m
<1>1. PICK x \in T : \A y \in T : ~(<<y, x>> \in OpToRel(<, Nat))
  BY NatLessThanWellFounded, WFMin, Zenon
<1>2. \A y \in T : ~(y < x)
  BY <1>1 DEF OpToRel
<1> QED BY <1>2

(* The fold of + over a set takes one element after another out of it.      *)
Taken(s) == CHOOSE x \in s : TRUE
Round(f, g, s) == IF s = {} THEN 0 ELSE f[Taken(s)] + g[s \ {Taken(s)}]
IsSum(g, f, S) == g = [s \in SUBSET S |-> Round(f, g, s)]
Sum(f, S) == CHOOSE g : IsSum(g, f, S)

(* The fold of the library is this recursion. *)
LEMMA FoldIsSum ==
    ASSUME NEW f, NEW S
    PROVE  FoldFunctionOnSet(LAMBDA a, b : a + b, 0, f, S) = Sum(f, S)[S]
BY DEF FoldFunctionOnSet, MapThenFoldSet, Sum, IsSum, Round, Taken

(* What is taken is one of them. *)
LEMMA TakenIsIn == ASSUME NEW s, s # {} PROVE Taken(s) \in s
BY DEF Taken

(* What is left when one is taken has one element less. *)
LEMMA Smaller ==
    ASSUME NEW S, IsFiniteSet(S), NEW s \in SUBSET S, NEW x \in s
    PROVE  /\ IsFiniteSet(s) /\ s \ {x} \in SUBSET S
           /\ Cardinality(s) \in Nat /\ Cardinality(s \ {x}) \in Nat
           /\ Cardinality(s \ {x}) = Cardinality(s) - 1
<1>1. IsFiniteSet(s)
  BY FS_Subset
<1>2. IsFiniteSet(s \ {x}) /\ Cardinality(s \ {x}) = Cardinality(s) - 1
  BY <1>1, FS_RemoveElement
<1> QED BY <1>1, <1>2, FS_CardinalityType

(* A function that sums up the sets with up to n elements. *)
SumsUpTo(g, f, S, n) ==
    /\ g \in [SUBSET S -> Int]
    /\ \A s \in SUBSET S : Cardinality(s) <= n => g[s] = Round(f, g, s)

(* By induction on n there is such a function for every n. *)
LEMMA SumOfFew ==
    ASSUME NEW S, IsFiniteSet(S), NEW f \in [S -> Int]
    PROVE  \A n \in Nat : \E g : SumsUpTo(g, f, S, n)
<1> DEFINE T == {n \in Nat : ~\E g : SumsUpTo(g, f, S, n)}
<1> SUFFICES ASSUME T # {} PROVE FALSE
  OBVIOUS
<1>1. PICK n \in T : \A m \in T : n <= m
  BY LeastNumber
<1>2. CASE n = 0
  <2> DEFINE g == [s \in SUBSET S |-> 0]
  <2>1. g \in [SUBSET S -> Int]
    OBVIOUS
  <2>2. ASSUME NEW s \in SUBSET S, Cardinality(s) <= 0 PROVE s = {}
    BY <2>2, FS_Subset, FS_EmptySet, FS_CardinalityType
  <2>3. SumsUpTo(g, f, S, 0)
    BY <2>1, <2>2 DEF SumsUpTo, Round
  <2> QED BY <1>1, <1>2, <2>3
<1>3. CASE n # 0
  <2>1. n - 1 \in Nat /\ n - 1 \notin T
    BY <1>1, <1>3
  <2>2. PICK h : SumsUpTo(h, f, S, n - 1)
    BY <2>1
  <2> DEFINE g == [s \in SUBSET S |-> Round(f, h, s)]
  <2>3. ASSUME NEW s \in SUBSET S, s # {} 
        PROVE Taken(s) \in s /\ f[Taken(s)] \in Int /\ s \ {Taken(s)} \in SUBSET S /\ h[s \ {Taken(s)}] \in Int
    BY <2>2, <2>3, TakenIsIn DEF SumsUpTo
  <2>4. g \in [SUBSET S -> Int]
    <3>1. ASSUME NEW s \in SUBSET S PROVE Round(f, h, s) \in Int
      <4>1. CASE s = {}
        BY <4>1 DEF Round
      <4>2. CASE s # {}
        <5> DEFINE a == f[Taken(s)]
                   b == h[s \ {Taken(s)}]
        <5>1. a \in Int /\ b \in Int /\ Round(f, h, s) = a + b
          BY <2>3, <4>2 DEF Round
        <5> HIDE DEF a, b
        <5> QED BY <5>1
      <4> QED BY <4>1, <4>2
    <3> QED BY <3>1
  <2>5. ASSUME NEW s \in SUBSET S, Cardinality(s) <= n PROVE g[s] = Round(f, g, s)
    <3>1. CASE s = {}
      BY <3>1 DEF Round
    <3>2. CASE s # {}
      <4> DEFINE r == s \ {Taken(s)}
      <4>1. r \in SUBSET S /\ Cardinality(r) <= n - 1
        BY <1>1, <2>3, <2>5, <3>2, Smaller
      <4>2. h[r] = Round(f, h, r)
        BY <2>2, <4>1 DEF SumsUpTo
      <4>3. g[r] = h[r]
        BY <4>1, <4>2
      <4> HIDE DEF r
      <4>4. g[s] = f[Taken(s)] + h[r]
        BY <3>2 DEF Round, r
      <4> QED BY <3>2, <4>3, <4>4 DEF Round, r
    <3> QED BY <3>1, <3>2
  <2>6. SumsUpTo(g, f, S, n)
    BY <2>4, <2>5 DEF SumsUpTo
  <2> QED BY <1>1, <2>6
<1> QED BY <1>2, <1>3

(* So the recursion defines a function. *)
LEMMA SumExists ==
    ASSUME NEW S, IsFiniteSet(S), NEW f \in [S -> Int]
    PROVE  IsSum(Sum(f, S), f, S)
<1>1. Cardinality(S) \in Nat
  BY FS_CardinalityType
<1>2. PICK g : SumsUpTo(g, f, S, Cardinality(S))
  BY <1>1, SumOfFew
<1>3. ASSUME NEW s \in SUBSET S PROVE Cardinality(s) <= Cardinality(S)
  BY FS_Subset
<1>4. IsSum(g, f, S)
  BY <1>2, <1>3 DEF SumsUpTo, IsSum
<1> QED BY <1>4 DEF Sum

(* The order in which the elements are taken does not matter. *)
LEMMA AnyOrder ==
    ASSUME NEW S, IsFiniteSet(S), NEW f \in [S -> Int]
    PROVE  \A s \in SUBSET S :
               /\ Sum(f, S)[s] \in Int
               /\ s = {} => Sum(f, S)[s] = 0
               /\ \A x \in s : Sum(f, S)[s] = f[x] + Sum(f, S)[s \ {x}]
<1> DEFINE g == Sum(f, S)
           Good(s) == g[s] \in Int /\ \A x \in s : g[s] = f[x] + g[s \ {x}]
           T == {n \in Nat : \E s \in SUBSET S : Cardinality(s) = n /\ ~Good(s)}
<1>1. \A s \in SUBSET S : g[s] = Round(f, g, s)
  BY SumExists DEF IsSum
<1> HIDE DEF g
<1>2. SUFFICES ASSUME NEW s0 \in SUBSET S, ~Good(s0) PROVE FALSE
  BY <1>1 DEF Round, g
<1>3. Cardinality(s0) \in T
  BY <1>2, FS_Subset, FS_CardinalityType
<1>4. PICK n \in T : \A m \in T : n <= m
  BY <1>3, LeastNumber
<1>5. PICK s \in SUBSET S : Cardinality(s) = n /\ ~Good(s)
  BY <1>4
<1>6. ASSUME NEW r \in SUBSET S, NEW x \in r, Cardinality(r) <= n
      PROVE  Good(r \ {x})
  <2>1. r \ {x} \in SUBSET S /\ Cardinality(r \ {x}) \in Nat /\ Cardinality(r \ {x}) < n
    BY <1>4, <1>6, Smaller
  <2>2. Cardinality(r \ {x}) \notin T
    BY <1>4, <2>1
  <2> QED BY <2>1, <2>2
<1>7. CASE s = {}
  <2>1. g[s] = 0
    BY <1>1, <1>7 DEF Round
  <2>2. Good(s)
    BY <1>7, <2>1
  <2> QED BY <1>5, <2>2
<1>8. CASE s # {}
  <2> DEFINE y == Taken(s)
  <2>1. y \in s /\ g[s] = f[y] + g[s \ {y}]
    BY <1>1, <1>8, TakenIsIn DEF Round
  <2> HIDE DEF y
  <2>2. Good(s \ {y})
    BY <1>4, <1>5, <1>6, <2>1
  <2>3. ASSUME NEW x \in s, x # y PROVE g[s] = f[x] + g[s \ {x}]
    <3>1. Good(s \ {x})
      BY <1>4, <1>5, <1>6
    <3>2. y \in s \ {x} /\ x \in s \ {y} /\ (s \ {x}) \ {y} = (s \ {y}) \ {x}
      BY <2>1, <2>3
    <3> DEFINE rest == g[(s \ {y}) \ {x}]
    <3>3. g[s \ {x}] = f[y] + rest /\ g[s \ {y}] = f[x] + rest
      BY <2>2, <3>1, <3>2
    <3>4. rest \in Int
      <4>1. s \ {y} \in SUBSET S /\ Cardinality(s \ {y}) <= n
        BY <1>4, <1>5, <2>1, Smaller
      <4>2. Good((s \ {y}) \ {x})
        BY <1>6, <3>2, <4>1
      <4> QED BY <4>2
    <3>5. f[x] \in Int /\ f[y] \in Int
      BY <2>1
    <3> HIDE DEF rest
    <3> QED BY <2>1, <3>3, <3>4, <3>5
  <2>4. g[s] \in Int
    BY <2>1, <2>2
  <2>5. Good(s)
    BY <2>1, <2>3, <2>4
  <2> QED BY <1>5, <2>5
<1> QED BY <1>7, <1>8
-----------------------------------------------------------------------------
(* The distance of the first n bytes of the two pictures.                   *)
ByteDistances == [b \in Rgb |-> Distance(rgb[b], mOldImage[b])]
DistanceOf(n) == Sum(ByteDistances, Rgb)[0 .. n - 1]

(* Two bytes are some whole number apart.                                   *)
LEMMA DistanceType ==
    ASSUME NEW x \in 0 .. 255, NEW y \in 0 .. 255 PROVE Distance(x, y) \in Int
BY DEF Distance

(* It grows by the difference of one byte, up to the whole distance.        *)
LEMMA DistanceGrows ==
    ASSUME TypeOK
    PROVE  /\ DistanceOf(0) = 0
           /\ \A n \in 0 .. sBufferSize : DistanceOf(n) \in Int
           /\ \A n \in 0 .. sBufferSize - 1 :
                  DistanceOf(n + 1) = DistanceOf(n) + Distance(rgb[n], mOldImage[n])
           /\ DistanceOf(sBufferSize) = FoldFunctionOnSet(LAMBDA a, b : a + b, 0, ByteDistances, Rgb)
<1>1. sBufferSize \in Nat /\ Rgb = 0 .. sBufferSize - 1 /\ IsFiniteSet(Rgb)
  BY PixelsAssumption, FS_Interval DEF Rgb
<1>2. ByteDistances \in [Rgb -> Int]
  <2>1. ASSUME NEW b \in Rgb PROVE Distance(rgb[b], mOldImage[b]) \in Int
    <3>1. rgb[b] \in 0 .. 255 /\ mOldImage[b] \in 0 .. 255
      BY DEF TypeOK
    <3> QED BY <3>1, DistanceType
  <2> QED BY <2>1 DEF ByteDistances
<1> DEFINE g == Sum(ByteDistances, Rgb)
<1>3. \A s \in SUBSET Rgb :
         /\ g[s] \in Int
         /\ s = {} => g[s] = 0
         /\ \A x \in s : g[s] = ByteDistances[x] + g[s \ {x}]
  <2>1. IsFiniteSet(Rgb)
    BY <1>1
  <2> HIDE DEF ByteDistances, Rgb
  <2> QED BY <2>1, <1>2, AnyOrder
<1> HIDE DEF g
<1>8. \A n : DistanceOf(n) = g[0 .. n - 1]
  BY DEF DistanceOf, g
<1>4. DistanceOf(0) = 0
  <2>1. 0 .. 0 - 1 = {}
    OBVIOUS
  <2> QED BY <1>3, <1>8, <2>1
<1>5. ASSUME NEW n \in 0 .. sBufferSize PROVE DistanceOf(n) \in Int
  <2>1. 0 .. n - 1 \in SUBSET Rgb
    BY <1>1
  <2> QED BY <1>3, <1>8, <2>1
<1>6. ASSUME NEW n \in 0 .. sBufferSize - 1
      PROVE  DistanceOf(n + 1) = DistanceOf(n) + Distance(rgb[n], mOldImage[n])
  <2>1. /\ 0 .. n + 1 - 1 \in SUBSET Rgb /\ n \in 0 .. n + 1 - 1 /\ n \in Rgb
        /\ (0 .. n + 1 - 1) \ {n} = 0 .. n - 1
    BY <1>1
  <2>2. DistanceOf(n + 1) = ByteDistances[n] + DistanceOf(n)
    <3>1. g[0 .. n + 1 - 1] = ByteDistances[n] + g[(0 .. n + 1 - 1) \ {n}]
      BY <1>3, <2>1
    <3>2. DistanceOf(n + 1) = g[0 .. n + 1 - 1]
      BY <1>8
    <3>3. DistanceOf(n) = g[0 .. n - 1]
      BY <1>8
    <3>4. g[(0 .. n + 1 - 1) \ {n}] = g[0 .. n - 1]
      BY <2>1
    <3> QED BY <3>1, <3>2, <3>3, <3>4
  <2>3. ByteDistances[n] = Distance(rgb[n], mOldImage[n]) /\ ByteDistances[n] \in Int
    BY <1>2, <2>1 DEF ByteDistances
  <2>4. DistanceOf(n) \in Int
    BY <1>1, <1>5
  <2> QED BY <2>2, <2>3, <2>4
<1>7. DistanceOf(sBufferSize) = FoldFunctionOnSet(LAMBDA a, b : a + b, 0, ByteDistances, Rgb)
  BY <1>1, FoldIsSum DEF DistanceOf, g
<1> QED BY <1>4, <1>5, <1>6, <1>7

(* The bytes of a buffer behind the picture stay as they were at first.     *)
Filled == (Size * 6) \div 4
RestIsEmpty ==
    \A b \in Rgb :
        /\ b >= Filled => mOldImage[b] = 0
        /\ pc = "convert" /\ b >= newi => rgb[b] = 0
        /\ pc = "sum" /\ b >= Filled => rgb[b] = 0

(* No step writes there.                                                    *)
LEMMA StepRest == IInv /\ RestIsEmpty /\ [Next]_vars => RestIsEmpty'
<1> SUFFICES ASSUME IInv, RestIsEmpty, [Next]_vars, NEW b \in Rgb
             PROVE  /\ b >= Filled => mOldImage'[b] = 0
                    /\ pc' = "convert" /\ b >= newi' => rgb'[b] = 0
                    /\ pc' = "sum" /\ b >= Filled => rgb'[b] = 0
  BY DEF RestIsEmpty, Rgb, Filled
<1>1. b \in Nat /\ newi \in Nat /\ rgb \in [Rgb -> 0 .. 255]
  BY DEF IInv, TypeOK, Rgb
<1>2. CASE Receive
  BY <1>2 DEF Receive, RestIsEmpty
<1>3. CASE ConvertPixels
  <2>1. b >= newi + 6 => rgb'[b] = rgb[b]
    BY <1>1, <1>3 DEF ConvertPixels
  <2> QED
    BY <1>1, <1>3, <2>1 DEF ConvertPixels, RestIsEmpty
<1>4. CASE ConvertDone
  <2>1. newi = Filled
    <3>1. PICK u \in Nat : Size = 4 * u /\ Filled = 6 * u
      BY Units DEF Filled
    <3>2. PICK n \in Nat : k = 4 * n /\ newi = 6 * n /\ k <= Size /\ k >= Size
      BY <1>4 DEF ConvertDone, IInv, Progress
    <3> QED BY <3>1, <3>2
  <2> QED
    BY <1>4, <2>1 DEF ConvertDone, RestIsEmpty
<1>5. CASE SumPixel
  BY <1>5 DEF SumPixel, RestIsEmpty
<1>6. CASE SumDone
  BY <1>6 DEF SumDone, RestIsEmpty
<1>7. CASE UNCHANGED vars
  BY <1>7 DEF vars, RestIsEmpty
<1> QED
  BY <1>2, <1>3, <1>4, <1>5, <1>6, <1>7 DEF Next

(* So it adds nothing to the distance of two pictures.                      *)
LEMMA RestAddsNothing ==
    ASSUME PictureFits, IInv, RestIsEmpty, pc = "sum"
    PROVE  DistanceOf(sBufferSize) = DistanceOf(Filled)
<1> DEFINE T == {n \in Nat : n >= Filled /\ n <= sBufferSize /\ DistanceOf(n) # DistanceOf(Filled)}
<1>1. Filled \in Nat /\ Filled <= sBufferSize /\ sBufferSize \in Nat
  BY Units, PixelsAssumption DEF Filled
<1> SUFFICES ASSUME T # {} PROVE FALSE
  BY <1>1
<1>2. PICK n \in T : \A m \in T : n <= m
  BY LeastNumber
<1>3. n - 1 \in Nat /\ n - 1 >= Filled /\ n - 1 \in 0 .. sBufferSize - 1
  BY <1>1, <1>2
<1>4. DistanceOf(n - 1) = DistanceOf(Filled)
  BY <1>1, <1>2, <1>3
<1>5. rgb[n - 1] = 0 /\ mOldImage[n - 1] = 0
  BY <1>3 DEF RestIsEmpty, Rgb
<1>6. DistanceOf((n - 1) + 1) = DistanceOf(n - 1) + Distance(rgb[n - 1], mOldImage[n - 1])
  <2> DEFINE m == n - 1
  <2>1. m \in 0 .. sBufferSize - 1 /\ TypeOK
    BY <1>3 DEF IInv
  <2> HIDE DEF m
  <2>2. DistanceOf(m + 1) = DistanceOf(m) + Distance(rgb[m], mOldImage[m])
    BY <2>1, DistanceGrows
  <2> QED BY <2>2 DEF m
<1>7. DistanceOf(n - 1) \in Int
  <2> DEFINE m == n - 1
  <2>1. m \in 0 .. sBufferSize /\ TypeOK
    BY <1>1, <1>3 DEF IInv
  <2> HIDE DEF m
  <2>2. DistanceOf(m) \in Int
    BY <2>1, DistanceGrows
  <2> QED BY <2>2 DEF m
<1>8. DistanceOf((n - 1) + 1) = DistanceOf(n - 1)
  BY <1>5, <1>6, <1>7 DEF Distance
<1>9. (n - 1) + 1 = n
  BY <1>2
<1> QED BY <1>2, <1>4, <1>8, <1>9

(* After every pass the sum is the distance of the bytes seen so far.       *)
SumSoFar == pc = "sum" => sum = DistanceOf(k)

NoDistance == DistanceOf(0) = 0

(* Of no bytes the distance is 0, also after a step.                        *)
LEMMA NoBytesNoDistance == TypeOK' => NoDistance'
<1>1. TypeOK => NoDistance
  BY DistanceGrows DEF NoDistance
<1> QED BY <1>1, PTL

(* A pass moves both by the same three differences.                         *)
LEMMA StepSum == PictureFits /\ IInv /\ SumSoFar /\ [Next]_vars /\ IInv' => SumSoFar'
<1> SUFFICES ASSUME PictureFits, IInv, SumSoFar, [Next]_vars, IInv' PROVE SumSoFar'
  OBVIOUS
<1>1. CASE SumPixel
  <2>1. /\ k \in Nat /\ k' = k + 3 /\ pc = "sum" /\ rgb' = rgb /\ mOldImage' = mOldImage
        /\ k + 3 <= sBufferSize /\ sBufferSize \in Nat /\ sum \in Nat
    BY <1>1, SumPixelAdds
  <2>2. sum = DistanceOf(k)
    BY <2>1 DEF SumSoFar
  <2> DEFINE d(b) == Distance(rgb[b], mOldImage[b])
  <2>3. sum' = sum + d(k) + d(k + 1) + d(k + 2)
    BY <1>1, SumPixelAdds DEF AbsDiff, Distance
  <2>4. /\ DistanceOf(k + 1) = DistanceOf(k) + d(k)
        /\ DistanceOf((k + 1) + 1) = DistanceOf(k + 1) + d(k + 1)
        /\ DistanceOf((k + 2) + 1) = DistanceOf(k + 2) + d(k + 2)
    <3>1. k \in 0 .. sBufferSize - 1 /\ k + 1 \in 0 .. sBufferSize - 1 /\ k + 2 \in 0 .. sBufferSize - 1
      BY <2>1
    <3> QED BY <3>1, DistanceGrows DEF IInv
  <2>5. (k + 1) + 1 = k + 2 /\ (k + 2) + 1 = k + 3
    BY <2>1
  <2>6. sum' = DistanceOf(k + 3)
    BY <2>2, <2>3, <2>4, <2>5
  <2>7. Sum(ByteDistances, Rgb)' = Sum(ByteDistances, Rgb)
    BY <2>1 DEF ByteDistances
  <2>8. SumSoFar' <=> (pc' = "sum" => sum' = Sum(ByteDistances, Rgb)'[0 .. k' - 1])
    BY DEF SumSoFar, DistanceOf
  <2> QED BY <2>1, <2>6, <2>7, <2>8 DEF DistanceOf
<1>2. CASE ConvertDone
  <2>1. k' = 0 /\ sum' = 0
    BY <1>2 DEF ConvertDone
  <2>2. NoDistance'
    BY NoBytesNoDistance DEF IInv
  <2> QED BY <2>1, <2>2 DEF SumSoFar, DistanceOf, NoDistance
<1>3. CASE Receive \/ ConvertPixels \/ SumDone
  <2>1. pc' # "sum"
    BY <1>3 DEF Receive, ConvertPixels, SumDone
  <2> QED BY <2>1 DEF SumSoFar
<1>4. CASE UNCHANGED vars
  <2>1. UNCHANGED <<pc, sum, k, rgb, mOldImage>>
    BY <1>4 DEF vars
  <2> QED BY <2>1 DEF SumSoFar, DistanceOf, ByteDistances
<1> QED
  BY <1>1, <1>2, <1>3, <1>4 DEF Next

(* sumDifference returns the distance of the two pictures, over all bytes   *)
(* of the buffers: the sum of the absolute differences, in any order.       *)
THEOREM SumIsTheDistance ==
    ASSUME PictureFits
    PROVE  Spec => []SumIsDistance
<1>1. Init => RestIsEmpty /\ SumSoFar
  BY DEF Init, RestIsEmpty, SumSoFar
<1>2. IInv /\ RestIsEmpty /\ SumSoFar => SumIsDistance
  <2> SUFFICES ASSUME IInv, RestIsEmpty, SumSoFar, pc = "sum", k >= mSize
               PROVE  sum = FoldFunctionOnSet(LAMBDA a, b : a + b, 0,
                          [b \in Rgb |-> Distance(rgb[b], mOldImage[b])], Rgb)
    BY DEF SumIsDistance, Differences
  <2>1. k = Filled
    <3>1. PICK n \in Nat : k = 3 * n /\ k <= mSize /\ mSize = Filled
      BY DEF IInv, Progress, Filled
    <3>2. mSize \in Nat
      BY PixelsAssumption DEF IInv, TypeOK
    <3> QED BY <3>1, <3>2
  <2>2. sum = DistanceOf(sBufferSize)
    BY <2>1, RestAddsNothing DEF SumSoFar
  <2> QED BY <2>2, DistanceGrows DEF IInv, ByteDistances
<1> QED
  BY <1>1, <1>2, StepRest, StepSum, Invariance, PTL DEF Spec
=============================================================================
