------------------------ MODULE ImageSaver_proofs ---------------------------
(***************************************************************************)
(* What processImage leaves on the disk, for every size of a picture, any  *)
(* number of frames and of runs of the program, and any combination of     *)
(* faults.  The argument is about one file, the one that is open: below    *)
(* the offset it holds what this call has written, behind it what an       *)
(* earlier run left.                                                       *)
(***************************************************************************)
EXTENDS ImageSaver, SequenceTheorems, TLAPS

Whole == faults \subseteq {"open"}
Cells(f) == [run : 1 .. run, frame : {f}, part : Nat]

TypeOK ==
    /\ pc \in {"idle", "open", "header", "write", "ended"}
    /\ run \in Nat /\ run >= 1
    /\ mFrameCount \in -1 .. FrameCount - 1
    /\ DOMAIN files = Frames
    /\ \A f \in Frames : files[f] \in Seq(Cells(f))
    /\ offset \in Nat
    /\ total \in Int

(* There is an open file between open and close, and it reaches up to the   *)
(* offset: no write() leaves a hole.                                        *)
OffsetInFile ==
    /\ pc \in {"open", "header", "write"} => mFrameCount \in Frames
    /\ pc = "header" => offset = 0
    /\ pc = "write" => offset <= Len(files[mFrameCount])

(* Old pictures are as long as new ones, and each part is at its place.     *)
Layered(content) ==
    /\ Len(content) <= Size + 1
    /\ \A k \in 1 .. Len(content) : content[k].part = k - 1
    /\ \A k \in 2 .. Len(content) : content[k].run <= content[k - 1].run
AllLayered == Whole => \A f \in Frames : Layered(files[f])

(* What the open file holds below its offset is of this run, and the loop   *)
(* has gone round once or not at all.                                       *)
WrittenSoFar ==
    Whole /\ pc = "write" =>
        /\ \/ total = 0 /\ offset = 1
           \/ total = Size /\ offset = Size + 1
        /\ \A k \in 1 .. offset : files[mFrameCount][k] = Cell(k - 1)

IInv ==
    /\ TypeOK
    /\ OffsetInFile
    /\ TotalIsWritten
    /\ AllLayered
    /\ WrittenSoFar
    /\ WholeFilesArePictures

-----------------------------------------------------------------------------
(* write() at the offset: what is below it stays, then come the cells, and  *)
(* behind them stays what was there.                                        *)
LEMMA WrittenCells ==
    ASSUME NEW S, NEW content \in Seq(S), NEW cells \in Seq(S),
           offset \in 0 .. Len(content)
    PROVE  LET end == offset + Len(cells)
           IN /\ Written(content, cells) \in Seq(S)
              /\ Len(Written(content, cells))
                     = IF end <= Len(content) THEN Len(content) ELSE end
              /\ \A k \in 1 .. Len(Written(content, cells)) :
                    Written(content, cells)[k] =
                        IF k <= offset THEN content[k]
                        ELSE IF k <= end THEN cells[k - offset] ELSE content[k]
  <1> DEFINE end == offset + Len(cells)
             below == SubSeq(content, 1, offset)
             behind == SubSeq(content, end + 1, Len(content))
  <1>1. /\ Len(content) \in Nat /\ Len(cells) \in Nat /\ offset \in Nat
        /\ offset <= Len(content) /\ end \in Nat
        /\ \A k \in 1 .. Len(content) : content[k] \in S
    OBVIOUS
  <1>2. /\ below \in Seq(S)
        /\ Len(below) = offset
        /\ \A k \in 1 .. offset : below[k] = content[k]
    <2>1. \A k \in 1 .. offset : content[k] \in S
      BY <1>1
    <2>2. /\ SubSeq(content, 1, offset) \in Seq(S)
          /\ Len(SubSeq(content, 1, offset)) = IF 1 <= offset THEN offset - 1 + 1 ELSE 0
          /\ \A k \in 1 .. offset - 1 + 1 : SubSeq(content, 1, offset)[k] = content[1 + k - 1]
      BY <1>1, <2>1, SubSeqProperties
    <2> QED
      BY <1>1, <2>2
  <1>3. /\ behind \in Seq(S)
        /\ Len(behind) = IF end <= Len(content) THEN Len(content) - end ELSE 0
        /\ \A k \in 1 .. Len(content) - end : behind[k] = content[end + k]
    <2>1. \A k \in end + 1 .. Len(content) : content[k] \in S
      BY <1>1
    <2>2. /\ behind \in Seq(S)
          /\ Len(behind) = IF end + 1 <= Len(content) THEN Len(content) - (end + 1) + 1 ELSE 0
          /\ \A k \in 1 .. Len(content) - (end + 1) + 1 : behind[k] = content[end + 1 + k - 1]
      BY <1>1, <2>1, SubSeqProperties
    <2> QED
      BY <1>1, <2>2
  <1>4. end = offset + Len(cells)
    OBVIOUS
  <1>5. Written(content, cells) = (below \o cells) \o behind
    BY DEF Written
  <1> HIDE DEF end, below, behind
  <1>6. /\ below \o cells \in Seq(S)
        /\ Len(below \o cells) = end
        /\ \A k \in 1 .. end : (below \o cells)[k]
                 = IF k <= offset THEN content[k] ELSE cells[k - offset]
    BY <1>1, <1>2, <1>4, ConcatProperties
  <1> DEFINE front == below \o cells
             new == Written(content, cells)
  <1>7. /\ front \in Seq(S) /\ Len(front) = end
        /\ \A k \in 1 .. end :
              front[k] = IF k <= offset THEN content[k] ELSE cells[k - offset]
        /\ new = front \o behind
    BY <1>5, <1>6
  <1> HIDE DEF front, new
  <1>8. /\ new \in Seq(S) /\ Len(new) = end + Len(behind)
        /\ \A k \in 1 .. end + Len(behind) :
              new[k] = IF k <= end THEN front[k] ELSE behind[k - end]
    BY <1>1, <1>3, <1>7, ConcatProperties
  <1>9. Len(new) = IF end <= Len(content) THEN Len(content) ELSE end
    BY <1>1, <1>3, <1>8
  <1>10. ASSUME NEW k \in 1 .. Len(new)
         PROVE  new[k] = IF k <= offset THEN content[k]
                         ELSE IF k <= end THEN cells[k - offset] ELSE content[k]
    <2>1. CASE k <= end
      BY <1>1, <1>4, <1>7, <1>8, <2>1
    <2>2. CASE ~(k <= end)
      <3>1. k \in Int /\ k \in 1 .. end + Len(behind) /\ end <= Len(content)
        BY <1>1, <1>3, <1>8, <1>9, <2>2
      <3>2. k - end \in 1 .. Len(content) - end
        BY <1>1, <1>3, <2>2, <3>1
      <3>3. behind[k - end] = content[k]
        BY <1>1, <1>3, <3>1, <3>2
      <3>4. ~(k <= offset)
        BY <1>1, <1>4, <2>2, <3>1
      <3> QED
        BY <1>8, <2>2, <3>1, <3>3, <3>4
    <2> QED
      BY <2>1, <2>2
  <1> QED
    BY <1>8, <1>9, <1>10 DEF end, new

(* A later run can read the files of the earlier ones.                      *)
LEMMA LargerSeq ==
    ASSUME NEW S, NEW T, S \subseteq T, NEW s \in Seq(S)
    PROVE  s \in Seq(T)
  OBVIOUS

(* The bounds of the constants.                                             *)
LEMMA Bounds ==
    /\ Size \in Nat /\ Size >= 1 /\ FrameCount \in Nat /\ FrameCount >= 1
    /\ Runs \in Nat /\ Runs >= 1
    /\ IntMax \in Nat /\ IntMax >= 2 * Size /\ IntMax > Size
  BY ImageSaverAssumption DEF ImageSaverAssumption

(* There are no files at first.                                             *)
LEMMA InitIInv == Init => IInv
  <1> SUFFICES ASSUME Init PROVE IInv
    OBVIOUS
  <1>1. \A f \in Frames : files[f] = <<>> /\ Len(files[f]) = 0
    BY DEF Init
  <1>2. TypeOK
    BY <1>1, Bounds DEF Init, TypeOK
  <1>3. OffsetInFile /\ TotalIsWritten /\ WrittenSoFar
    BY DEF Init, OffsetInFile, TotalIsWritten, WrittenSoFar
  <1>4. AllLayered
    BY <1>1, Bounds DEF AllLayered, Layered
  <1>5. Complete = {}
    BY Bounds DEF Init, Complete, Frames
  <1>6. WholeFilesArePictures
    BY <1>5 DEF WholeFilesArePictures, FilesArePictures
  <1> QED
    BY <1>2, <1>3, <1>4, <1>6 DEF IInv

(* The next file has a number and is not open yet.                          *)
LEMMA ProcessImageIInv == ASSUME IInv, ProcessImage PROVE IInv'
  <1>1. /\ mFrameCount' = mFrameCount + 1 /\ mFrameCount' \in Frames /\ mFrameCount \in Int
        /\ pc = "idle" /\ pc' = "open"
        /\ UNCHANGED <<faults, run, files, offset, total>>
    BY Bounds DEF IInv, TypeOK, ProcessImage, Frames
  <1>2. TypeOK'
    BY <1>1, Bounds DEF IInv, TypeOK, Frames, Cells
  <1>3. OffsetInFile' /\ TotalIsWritten' /\ WrittenSoFar'
    BY <1>1 DEF OffsetInFile, TotalIsWritten, WrittenSoFar, Frames
  <1>4. AllLayered'
    BY <1>1 DEF IInv, AllLayered, Whole, Layered
  <1>5. Complete' \subseteq Complete
    BY <1>1 DEF Complete, Frames
  <1>6. WholeFilesArePictures'
    BY <1>1, <1>5 DEF IInv, WholeFilesArePictures, FilesArePictures, Picture
  <1> QED
    BY <1>2, <1>3, <1>4, <1>6 DEF IInv

(* open puts the offset at the beginning, or ends the program.              *)
LEMMA OpenFileIInv == ASSUME IInv, OpenFile PROVE IInv'
  <1>1. /\ pc = "open" /\ pc' \in {"header", "ended"} /\ offset' = 0
        /\ UNCHANGED <<faults, run, mFrameCount, files, total>>
    BY DEF OpenFile
  <1>2. TypeOK'
    BY <1>1 DEF IInv, TypeOK, Cells
  <1>3. OffsetInFile' /\ TotalIsWritten' /\ WrittenSoFar'
    BY <1>1 DEF IInv, OffsetInFile, TotalIsWritten, WrittenSoFar
  <1>4. AllLayered'
    BY <1>1 DEF IInv, AllLayered, Whole, Layered
  <1>5. Complete' \subseteq Complete
    BY <1>1 DEF Complete
  <1>6. WholeFilesArePictures'
    BY <1>1, <1>5 DEF IInv, WholeFilesArePictures, FilesArePictures, Picture
  <1> QED
    BY <1>2, <1>3, <1>4, <1>6 DEF IInv

(* What every write() of this run's cells does to the open file.            *)
LEMMA WriteCellsFile ==
    ASSUME IInv, pc \in {"header", "write"},
           NEW cells \in Seq(Cells(mFrameCount)), WriteCells(cells)
    PROVE  LET new == files'[mFrameCount]
               old == files[mFrameCount]
               end == offset + Len(cells)
           IN /\ mFrameCount \in Frames /\ old \in Seq(Cells(mFrameCount))
              /\ DOMAIN files' = Frames
              /\ \A f \in Frames \ {mFrameCount} : files'[f] = files[f]
              /\ new \in Seq(Cells(mFrameCount))
              /\ offset' = end /\ offset' \in Nat
              /\ Len(new) = IF end <= Len(old) THEN Len(old) ELSE end
              /\ \A k \in 1 .. Len(new) :
                    new[k] = IF k <= offset THEN old[k]
                             ELSE IF k <= end THEN cells[k - offset] ELSE old[k]
  <1>1. /\ mFrameCount \in Frames /\ files[mFrameCount] \in Seq(Cells(mFrameCount))
        /\ DOMAIN files = Frames
        /\ offset \in 0 .. Len(files[mFrameCount]) /\ offset \in Nat
    BY DEF IInv, TypeOK, OffsetInFile
  <1>2. /\ DOMAIN files' = Frames
        /\ \A f \in Frames \ {mFrameCount} : files'[f] = files[f]
        /\ files'[mFrameCount] = Written(files[mFrameCount], cells)
        /\ offset' = offset + Len(cells)
    BY <1>1 DEF WriteCells
  <1>3. LET end == offset + Len(cells)
        IN /\ Written(files[mFrameCount], cells) \in Seq(Cells(mFrameCount))
           /\ Len(Written(files[mFrameCount], cells))
                  = IF end <= Len(files[mFrameCount]) THEN Len(files[mFrameCount]) ELSE end
           /\ \A k \in 1 .. Len(Written(files[mFrameCount], cells)) :
                 Written(files[mFrameCount], cells)[k] =
                     IF k <= offset THEN files[mFrameCount][k]
                     ELSE IF k <= end THEN cells[k - offset] ELSE files[mFrameCount][k]
    BY <1>1, WrittenCells
  <1> QED
    BY <1>1, <1>2, <1>3

(* The header goes to the first place, whatever is behind it.               *)
LEMMA WriteHeaderIInv == ASSUME IInv, WriteHeader PROVE IInv'
  <1>1. /\ pc = "header" /\ pc' = "write" /\ total' = 0 /\ offset = 0
        /\ mFrameCount \in Frames
        /\ UNCHANGED <<faults, run, mFrameCount>>
    BY DEF IInv, OffsetInFile, WriteHeader
  <1>2. Complete' = Complete /\ mFrameCount \notin Complete
    BY <1>1 DEF Complete, Frames
  <1>3. CASE UNCHANGED <<files, offset>> /\ "error" \in faults
    <2>1. TypeOK'
      BY <1>1, <1>3 DEF IInv, TypeOK, Cells
    <2>2. OffsetInFile' /\ TotalIsWritten'
      BY <1>1, <1>3 DEF IInv, TypeOK, OffsetInFile, TotalIsWritten
    <2>3. AllLayered' /\ WrittenSoFar' /\ WholeFilesArePictures'
      BY <1>1, <1>3 DEF AllLayered, WrittenSoFar, WholeFilesArePictures, Whole
    <2> QED
      BY <2>1, <2>2, <2>3 DEF IInv
  <1>4. CASE WriteCells(<<Cell(0)>>)
    <2> DEFINE cells == <<Cell(0)>>
               old == files[mFrameCount]
               new == files'[mFrameCount]
    <2>1. Cell(0) \in Cells(mFrameCount)
      BY DEF IInv, TypeOK, Cell, Cells
    <2>2. cells \in Seq(Cells(mFrameCount)) /\ Len(cells) = 1 /\ cells[1] = Cell(0)
      BY <2>1
    <2>3. WriteCells(cells)
      BY <1>4
    <2> HIDE DEF cells
    <2>4. /\ old \in Seq(Cells(mFrameCount))
          /\ DOMAIN files' = Frames
          /\ \A f \in Frames \ {mFrameCount} : files'[f] = files[f]
          /\ new \in Seq(Cells(mFrameCount))
          /\ offset' = offset + Len(cells)
          /\ Len(new) = IF offset + Len(cells) <= Len(old) THEN Len(old)
                        ELSE offset + Len(cells)
          /\ \A k \in 1 .. Len(new) :
                new[k] = IF k <= offset THEN old[k]
                         ELSE IF k <= offset + Len(cells) THEN cells[k - offset] ELSE old[k]
      BY <1>1, <2>2, <2>3, WriteCellsFile
    <2> HIDE DEF old, new
    <2>5. /\ old \in Seq(Cells(mFrameCount))
          /\ DOMAIN files' = Frames
          /\ \A f \in Frames \ {mFrameCount} : files'[f] = files[f]
          /\ new \in Seq(Cells(mFrameCount))
          /\ offset' = 1
          /\ Len(new) = IF 1 <= Len(old) THEN Len(old) ELSE 1
          /\ \A k \in 1 .. Len(new) : new[k] = IF k <= 1 THEN Cell(0) ELSE old[k]
      <3>1. offset + Len(cells) = 1 /\ Len(new) \in Nat /\ Len(old) \in Nat
        BY <1>1, <2>2, <2>4
      <3>2. ASSUME NEW k \in 1 .. Len(new) PROVE new[k] = IF k <= 1 THEN Cell(0) ELSE old[k]
        <4>1. CASE k = 1
          <5>1. ~(k <= offset) /\ k <= offset + Len(cells) /\ k - offset = 1
            BY <1>1, <3>1, <4>1
          <5>2. new[k] = cells[1]
            BY <2>4, <5>1
          <5> QED
            BY <2>2, <4>1, <5>2
        <4>2. CASE k # 1
          <5>1. ~(k <= offset) /\ ~(k <= offset + Len(cells)) /\ ~(k <= 1)
            BY <1>1, <2>2, <3>1, <4>2
          <5>2. new[k] = IF k <= offset THEN old[k]
                         ELSE IF k <= offset + Len(cells) THEN cells[k - offset] ELSE old[k]
            BY <2>4
          <5> QED
            BY <5>1, <5>2
        <4> QED
          BY <4>1, <4>2
      <3> QED
        BY <2>4, <3>1, <3>2
    <2>6. TypeOK'
      <3>1. \A f \in Frames : Cells(f)' = Cells(f)
        BY <1>1 DEF Cells
      <3>2. \A f \in Frames : files'[f] \in Seq(Cells(f))
        BY <2>5 DEF IInv, TypeOK, new
      <3> QED
        BY <1>1, <2>5, <3>1, <3>2 DEF IInv, TypeOK
    <2>7. OffsetInFile' /\ TotalIsWritten'
      BY <1>1, <2>5 DEF OffsetInFile, TotalIsWritten, Frames, new
    <2>8. AllLayered'
      <3> SUFFICES ASSUME Whole PROVE \A f \in Frames : Layered(files'[f])
        BY <1>1 DEF AllLayered, Whole, Layered
      <3>1. Layered(old)
        BY <1>1 DEF IInv, AllLayered, old
      <3>2. \A k \in 1 .. Len(old) : old[k].run \in 1 .. run
        <4>1. \A k \in 1 .. Len(old) : old[k] \in Cells(mFrameCount)
          BY <2>5
        <4> QED
          BY <4>1 DEF Cells
      <3>3. Cell(0).part = 0 /\ Cell(0).run = run /\ run \in Nat
        BY DEF Cell, IInv, TypeOK
      <3>4. Len(new) \in Nat /\ Len(old) \in Nat
        BY <2>5
      <3>5. Len(new) <= Size + 1
        BY <2>5, <3>1, <3>4, Bounds DEF Layered
      <3>6. \A k \in 1 .. Len(new) : new[k].part = k - 1
        BY <2>5, <3>1, <3>3, <3>4 DEF Layered
      <3>7. ASSUME NEW k \in 2 .. Len(new) PROVE new[k].run <= new[k - 1].run
        <4>1. k \in 2 .. Len(old) /\ new[k] = old[k]
          BY <2>5, <3>4
        <4>2. old[k].run <= run
          BY <3>2, <3>3, <3>4, <4>1
        <4>3. CASE k = 2
          BY <2>5, <3>3, <3>4, <4>1, <4>2, <4>3
        <4>4. CASE k # 2
          <5>1. k - 1 \in 1 .. Len(new) /\ ~(k - 1 <= 1)
            BY <3>4, <4>4
          <5>2. new[k - 1] = old[k - 1]
            BY <2>5, <5>1
          <5> QED
            BY <3>1, <4>1, <5>2 DEF Layered
        <4> QED
          BY <4>3, <4>4
      <3>8. Layered(new)
        BY <3>5, <3>6, <3>7 DEF Layered
      <3> QED
        BY <2>5, <3>8 DEF IInv, AllLayered, new
    <2>9. WrittenSoFar'
      BY <1>1, <2>5 DEF WrittenSoFar, Cell, new
    <2>10. WholeFilesArePictures'
      <3> SUFFICES ASSUME Whole, NEW f \in Complete PROVE files'[f] = Picture(run, f)
        BY <1>1, <1>2 DEF WholeFilesArePictures, FilesArePictures, Picture, Whole
      <3>1. f \in Frames \ {mFrameCount}
        BY <1>2 DEF Complete
      <3> QED
        BY <2>5, <3>1 DEF IInv, WholeFilesArePictures, FilesArePictures, Whole
    <2> QED
      BY <2>6, <2>7, <2>8, <2>9, <2>10 DEF IInv
  <1> QED
    BY <1>3, <1>4 DEF WriteHeader

(* A write() of the picture adds to the total what it adds to the offset.   *)
(* A whole one completes the picture.                                       *)
LEMMA WriteImageIInv == ASSUME IInv, WriteImage PROVE IInv'
  <1>1. PICK n \in 1 .. Size :
            /\ n = Size \/ "short" \in faults
            /\ WriteCells([i \in 1 .. n |-> Cell(i)])
            /\ total' = total + n
    BY DEF WriteImage
  <1>2. /\ pc = "write" /\ pc' = "write" /\ total < Size
        /\ UNCHANGED <<faults, run, mFrameCount>>
        /\ mFrameCount \in Frames
    BY DEF WriteImage, IInv, OffsetInFile
  <1>3. Complete' = Complete /\ mFrameCount \notin Complete
    BY <1>2 DEF Complete, Frames
  <1> DEFINE cells == [i \in 1 .. n |-> Cell(i)]
             old == files[mFrameCount]
             new == files'[mFrameCount]
             end == offset + n
  <1>4. n \in Nat /\ Size \in Nat /\ total \in Int /\ offset \in Nat
    BY Bounds DEF IInv, TypeOK
  <1>5. \A i \in 1 .. n : Cell(i) \in Cells(mFrameCount)
    BY <1>4 DEF IInv, TypeOK, Cell, Cells
  <1>6. cells \in Seq(Cells(mFrameCount)) /\ Len(cells) = n
    BY <1>4, <1>5
  <1>7. /\ old \in Seq(Cells(mFrameCount))
        /\ DOMAIN files' = Frames
        /\ \A f \in Frames \ {mFrameCount} : files'[f] = files[f]
        /\ new \in Seq(Cells(mFrameCount))
        /\ offset' = end /\ offset' \in Nat
        /\ Len(new) = IF end <= Len(old) THEN Len(old) ELSE end
        /\ \A k \in 1 .. Len(new) :
              new[k] = IF k <= offset THEN old[k]
                       ELSE IF k <= end THEN cells[k - offset] ELSE old[k]
    BY <1>1, <1>2, <1>6, WriteCellsFile
  <1>8. \A i \in 1 .. n : cells[i] = Cell(i)
    OBVIOUS
  <1> HIDE DEF cells, old, new, end
  <1>9. TypeOK'
    <2>1. \A f \in Frames : Cells(f)' = Cells(f)
      BY <1>2 DEF Cells
    <2>2. \A f \in Frames : files'[f] \in Seq(Cells(f))
      BY <1>7 DEF IInv, TypeOK, new
    <2>3. total' \in Int
      BY <1>1, <1>4
    <2> QED
      BY <1>2, <1>7, <2>1, <2>2, <2>3 DEF IInv, TypeOK
  <1>10. OffsetInFile'
    BY <1>2, <1>4, <1>7 DEF OffsetInFile, new, end
  <1>11. TotalIsWritten'
    BY <1>1, <1>2, <1>4, <1>7, Bounds DEF IInv, TotalIsWritten, end
  <1>12. ASSUME Whole
         PROVE  /\ n = Size /\ total = 0 /\ offset = 1 /\ end = Size + 1
                /\ Len(old) <= Size + 1 /\ Len(new) = Size + 1
                /\ \A k \in 1 .. Size + 1 : new[k] = Cell(k - 1)
    <2>1. n = Size
      BY <1>1, <1>12 DEF Whole
    <2>2. total = 0 /\ offset = 1 /\ \A k \in 1 .. offset : old[k] = Cell(k - 1)
      BY <1>2, <1>4, <1>12 DEF IInv, WrittenSoFar, old
    <2>3. Len(old) <= Size + 1 /\ Len(old) \in Nat
      BY <1>2, <1>7, <1>12 DEF IInv, AllLayered, Layered, old
    <2>4. end = Size + 1 /\ Len(new) = Size + 1
      BY <1>4, <1>7, <2>1, <2>2, <2>3 DEF end
    <2>5. ASSUME NEW k \in 1 .. Size + 1 PROVE new[k] = Cell(k - 1)
      <3>1. CASE k = 1
        BY <1>4, <1>7, <2>2, <2>4, <3>1
      <3>2. CASE k # 1
        <4>1. k - 1 \in 1 .. n /\ ~(k <= offset) /\ k <= end /\ k \in 1 .. Len(new)
          BY <1>4, <2>1, <2>2, <2>4, <3>2
        <4>2. new[k] = cells[k - 1]
          BY <1>7, <2>2, <4>1
        <4> QED
          BY <1>8, <4>1, <4>2
      <3> QED
        BY <3>1, <3>2
    <2> QED
      BY <2>1, <2>2, <2>3, <2>4, <2>5
  <1>13. AllLayered'
    <2> SUFFICES ASSUME Whole PROVE \A f \in Frames : Layered(files'[f])
      BY <1>2 DEF AllLayered, Whole, Layered
    <2>1. \A k \in 1 .. Size + 1 : new[k].part = k - 1 /\ new[k].run = run
      BY <1>12 DEF Cell
    <2>2. run \in Nat
      BY DEF IInv, TypeOK
    <2>3. Layered(new)
      BY <1>4, <1>12, <2>1, <2>2 DEF Layered
    <2> QED
      BY <1>7, <2>3 DEF IInv, AllLayered, new
  <1>14. WrittenSoFar'
    <2> SUFFICES ASSUME Whole
                 PROVE  /\ total' = Size /\ offset' = Size + 1
                        /\ \A k \in 1 .. offset' : new[k] = Cell(k - 1)
      BY <1>2 DEF WrittenSoFar, Whole, Cell, new
    <2> QED
      BY <1>1, <1>4, <1>7, <1>12
  <1>15. WholeFilesArePictures'
    <2> SUFFICES ASSUME Whole, NEW f \in Complete PROVE files'[f] = Picture(run, f)
      BY <1>2, <1>3 DEF WholeFilesArePictures, FilesArePictures, Picture, Whole
    <2>1. f \in Frames \ {mFrameCount}
      BY <1>3 DEF Complete
    <2> QED
      BY <1>7, <2>1 DEF IInv, WholeFilesArePictures, FilesArePictures, Whole
  <1> QED
    BY <1>9, <1>10, <1>11, <1>13, <1>14, <1>15 DEF IInv

(* A failed write() lowers the total, unless it overflows.                  *)
LEMMA WriteFailsIInv == ASSUME IInv, WriteFails PROVE IInv'
  <1>1. /\ pc = "write" /\ "error" \in faults /\ total < Size
        /\ total' = IF total = IntMin THEN IntMax ELSE total - 1
        /\ UNCHANGED <<faults, pc, run, mFrameCount, files, offset>>
    BY DEF WriteFails
  <1>2. TypeOK'
    BY <1>1, Bounds DEF IInv, TypeOK, Cells
  <1>3. OffsetInFile'
    BY <1>1 DEF IInv, OffsetInFile
  <1>4. TotalIsWritten'
    BY <1>1, Bounds DEF IInv, TypeOK, TotalIsWritten, IntMin
  <1>5. AllLayered' /\ WrittenSoFar' /\ WholeFilesArePictures'
    BY <1>1 DEF AllLayered, WrittenSoFar, WholeFilesArePictures, Whole
  <1> QED
    BY <1>2, <1>3, <1>4, <1>5 DEF IInv

(* The loop is left with the picture complete.                              *)
LEMMA CloseFileIInv == ASSUME IInv, CloseFile PROVE IInv'
  <1>1. /\ pc = "write" /\ total >= Size /\ pc' = "idle" /\ mFrameCount \in Frames
        /\ UNCHANGED <<faults, run, mFrameCount, files, offset, total>>
    BY DEF CloseFile, IInv, OffsetInFile
  <1>2. TypeOK'
    BY <1>1 DEF IInv, TypeOK, Cells
  <1>3. OffsetInFile' /\ TotalIsWritten' /\ WrittenSoFar'
    BY <1>1 DEF OffsetInFile, TotalIsWritten, WrittenSoFar
  <1>4. AllLayered'
    BY <1>1 DEF IInv, AllLayered, Whole, Layered
  <1>5. Complete' \subseteq Complete \union {mFrameCount}
    BY <1>1 DEF Complete, Frames
  <1>6. ASSUME Whole PROVE files[mFrameCount] = Picture(run, mFrameCount)
    <2> DEFINE content == files[mFrameCount]
    <2>1. content \in Seq(Cells(mFrameCount)) /\ Len(content) <= Size + 1
      BY <1>1, <1>6 DEF IInv, TypeOK, AllLayered, Layered
    <2>2. offset = Size + 1 /\ \A k \in 1 .. Size + 1 : content[k] = Cell(k - 1)
      BY <1>1, <1>6, Bounds DEF IInv, WrittenSoFar
    <2>3. offset <= Len(content)
      BY <1>1 DEF IInv, OffsetInFile
    <2>4. Len(content) = Size + 1
      BY <2>1, <2>2, <2>3, Bounds
    <2>5. DOMAIN content = 1 .. Size + 1 /\ content = [k \in 1 .. Size + 1 |-> content[k]]
      BY <2>1, <2>4
    <2> QED
      BY <2>2, <2>5 DEF Picture, Cell
  <1>7. WholeFilesArePictures'
    <2> SUFFICES ASSUME Whole, NEW f \in Complete' PROVE files[f] = Picture(run, f)
      BY <1>1 DEF WholeFilesArePictures, FilesArePictures, Picture, Whole
    <2>1. CASE f = mFrameCount
      BY <1>6, <2>1
    <2>2. CASE f \in Complete
      BY <2>2 DEF IInv, WholeFilesArePictures, FilesArePictures, Whole
    <2> QED
      BY <1>5, <2>1, <2>2
  <1> QED
    BY <1>2, <1>3, <1>4, <1>7 DEF IInv

(* The program ends wherever it is: the files stay as they are.             *)
LEMMA RestartIInv == ASSUME IInv, Restart PROVE IInv'
  <1>1. /\ run' = run + 1 /\ pc' = "idle" /\ mFrameCount' = -1
        /\ offset' = 0 /\ total' = 0 /\ UNCHANGED <<faults, files>> /\ run \in Nat
    BY DEF Restart, IInv, TypeOK
  <1>2. TypeOK'
    <2>1. ASSUME NEW f \in Frames PROVE files'[f] \in Seq(Cells(f)')
      <3>1. Cells(f) \subseteq Cells(f)'
        BY <1>1 DEF Cells
      <3>2. files[f] \in Seq(Cells(f))
        BY DEF IInv, TypeOK
      <3> QED
        BY <1>1, <3>1, <3>2, LargerSeq
    <2> QED
      BY <1>1, <2>1, Bounds DEF IInv, TypeOK
  <1>3. OffsetInFile' /\ TotalIsWritten' /\ WrittenSoFar'
    BY <1>1 DEF OffsetInFile, TotalIsWritten, WrittenSoFar
  <1>4. AllLayered'
    BY <1>1 DEF IInv, AllLayered, Whole, Layered
  <1>5. Complete' = {}
    BY <1>1 DEF Complete, Frames
  <1>6. WholeFilesArePictures'
    BY <1>5 DEF WholeFilesArePictures, FilesArePictures
  <1> QED
    BY <1>2, <1>3, <1>4, <1>6 DEF IInv

(* Every step keeps the invariant.                                          *)
LEMMA StepIInv == ASSUME IInv, [Next]_vars PROVE IInv'
  <1>1. CASE UNCHANGED vars
    BY <1>1 DEF vars, IInv, TypeOK, Cells, OffsetInFile, TotalIsWritten, AllLayered, Whole,
                Layered, WrittenSoFar, Cell, WholeFilesArePictures, FilesArePictures,
                Complete, Picture
  <1> QED
    BY <1>1, ProcessImageIInv, OpenFileIInv, WriteHeaderIInv, WriteImageIInv,
       WriteFailsIInv, CloseFileIInv, RestartIInv DEF Next, Save

(* The invariant holds in every reachable state.                            *)
LEMMA Invariance == Spec => []IInv
  BY InitIInv, StepIInv, PTL DEF Spec

-----------------------------------------------------------------------------
(* The loop of dumpPpm never counts more than it has written, for every     *)
(* size of a picture, whatever is short or fails, unless total overflows.   *)
THEOREM LoopCountsWhatIsWritten == Spec => []TotalIsWritten
  BY Invariance, PTL DEF IInv

(* As long as write() does what it is asked for, a file that is closed is   *)
(* the picture, whatever earlier runs left under its name.                  *)
THEOREM ClosedFilesArePictures == Spec => []WholeFilesArePictures
  BY Invariance, PTL DEF IInv

(* Wherever the runs of the program end, a file is a beginning of a picture *)
(* of one run over the end of the same picture of older runs.               *)
THEOREM FilesStayLayered == Spec => []FilesAreLayered
  <1>1. ASSUME IInv PROVE FilesAreLayered
    <2> SUFFICES ASSUME NEW f \in Frames, NEW k \in DOMAIN files[f]
                 PROVE  /\ files[f][k].frame = f
                        /\ faults \subseteq {"open"} =>
                              /\ files[f][k].part = k - 1
                              /\ k > 1 => files[f][k].run <= files[f][k - 1].run
      BY DEF FilesAreLayered
    <2>1. files[f] \in Seq(Cells(f))
      BY <1>1 DEF IInv, TypeOK
    <2>2. k \in 1 .. Len(files[f]) /\ files[f][k] \in Cells(f) /\ Len(files[f]) \in Nat
      BY <2>1
    <2>3. files[f][k].frame = f
      BY <2>2 DEF Cells
    <2>4. Whole => Layered(files[f])
      BY <1>1 DEF IInv, AllLayered
    <2> QED
      BY <2>2, <2>3, <2>4 DEF Layered, Whole
  <1> QED
    BY <1>1, Invariance, PTL
=============================================================================
