----------------------------- MODULE ImageSaver ------------------------------
(***************************************************************************)
(* synchronome/image_saver.hpp, image_saver.cpp: what one call of          *)
(* processImage leaves on the disk.  The module Synchronome takes that     *)
(* call as one step; here it is one step per system call, a write() may    *)
(* be short or fail, another thread may exit() at any point, and the       *)
(* program is started again on the files it left.                          *)
(*                                                                         *)
(* A file is a sequence of cells.  The header is one cell, part 0; a       *)
(* picture is the parts 1 .. Size.  A cell also names the run of the       *)
(* program and the frame it comes from.                                    *)
(***************************************************************************)
EXTENDS Integers, Sequences

CONSTANTS
    Size,         \* the size of a picture, in cells
    FrameCount,   \* how often the service calls processImage
    Runs,         \* how often the program is run in the same directory
    DiskSize,     \* the largest file, the bound on its growth
    IntMax,       \* the largest value of int, as a bound
    FaultSets     \* the combinations of faults: "open": no file; "short",
                  \* "error": write() does less than it was asked for

ASSUME ImageSaverAssumption ==
    /\ Size \in Nat /\ Size >= 1
    /\ FrameCount \in Nat /\ FrameCount >= 1
    /\ Runs \in Nat /\ Runs >= 1
    /\ DiskSize \in Nat /\ DiskSize >= 3 * Size
    /\ IntMax \in Nat /\ IntMax >= 2 * Size
    /\ \A F \in FaultSets : F \subseteq {"open", "short", "error"}

VARIABLES
    faults,       \* what may fail in this behaviour, chosen at the start
    pc,           \* the next system call: "idle" between two calls
    run,          \* which run of the program this is
    mFrameCount,  \* the number of the file, -1 before the first
    files,        \* the files frames/test0000.ppm ...
    offset,       \* where the open file is written next
    total         \* what write() has returned so far

vars == <<faults, pc, run, mFrameCount, files, offset, total>>

Frames == 0 .. FrameCount - 1
Cell(part) == [run |-> run, frame |-> mFrameCount, part |-> part]
IntMin == -IntMax - 1

Init ==
    /\ faults \in FaultSets
    /\ pc = "idle"
    /\ run = 1
    /\ mFrameCount = -1
    /\ files = [f \in Frames |-> <<>>]
    /\ offset = 0 /\ total = 0

(* What the file holds once cells are written at its offset: they replace   *)
(* what was there, and what was there behind them stays.                    *)
Written(content, cells) ==
    SubSeq(content, 1, offset) \o cells
        \o SubSeq(content, offset + Len(cells) + 1, Len(content))

WriteCells(cells) ==
    /\ files' = [files EXCEPT ![mFrameCount] = Written(@, cells)]
    /\ offset' = offset + Len(cells)

(* processImage: the next file. *)
ProcessImage ==
    /\ pc = "idle"
    /\ mFrameCount < FrameCount - 1
    /\ mFrameCount' = mFrameCount + 1
    /\ pc' = "open"
    /\ UNCHANGED <<faults, run, files, offset, total>>

(* A slip: the file is opened with O_APPEND. *)
OpenFileAppend ==
    /\ pc = "open"
    /\ pc' = "header"
    /\ offset' = Len(files[mFrameCount])
    /\ UNCHANGED <<faults, run, mFrameCount, files, total>>

(* open with O_CREAT and without O_TRUNC: an older file keeps its contents. *)
(* If it fails the program ends.                                            *)
OpenFile ==
    /\ pc = "open"
    /\ \/ pc' = "header"
       \/ "open" \in faults /\ pc' = "ended"
    /\ offset' = 0
    /\ UNCHANGED <<faults, run, mFrameCount, files, total>>

(* write() of the header; its result is ignored. *)
WriteHeader ==
    /\ pc = "header"
    /\ pc' = "write"
    /\ total' = 0
    /\ \/ WriteCells(<<Cell(0)>>)
       \/ "error" \in faults /\ UNCHANGED <<files, offset>>
    /\ UNCHANGED <<faults, run, mFrameCount>>

(* A slip: the loop runs once more. *)
WriteImageTwice ==
    /\ pc = "write"
    /\ total < 2 * Size
    /\ WriteCells([i \in 1 .. Size |-> Cell(i)])
    /\ total' = total + Size
    /\ UNCHANGED <<faults, pc, run, mFrameCount>>

(* A slip: a short write() counts as a full one. *)
WriteImageAsked ==
    /\ pc = "write"
    /\ total < Size
    /\ \E n \in 1 .. Size :
          /\ n = Size \/ "short" \in faults
          /\ WriteCells([i \in 1 .. n |-> Cell(i)])
          /\ total' = total + Size
    /\ UNCHANGED <<faults, pc, run, mFrameCount>>

(* total += write(dumpfd, p, size): always from the start of the picture    *)
(* and of its full size.                                                    *)
WriteImage ==
    /\ pc = "write"
    /\ total < Size
    /\ \E n \in 1 .. Size :
          /\ n = Size \/ "short" \in faults
          /\ offset + n <= DiskSize
          /\ WriteCells([i \in 1 .. n |-> Cell(i)])
          /\ total' = total + n
    /\ UNCHANGED <<faults, pc, run, mFrameCount>>

(* The same call when it fails: -1 is added to the total, which below       *)
(* IntMin overflows.                                                        *)
WriteFails ==
    /\ pc = "write"
    /\ total < Size
    /\ "error" \in faults
    /\ total' = IF total = IntMin THEN IntMax ELSE total - 1
    /\ UNCHANGED <<faults, pc, run, mFrameCount, files, offset>>

(* A slip: off by one, the picture has to be followed by more. *)
CloseFileLate ==
    /\ pc = "write"
    /\ total > Size
    /\ pc' = "idle"
    /\ UNCHANGED <<faults, run, mFrameCount, files, offset, total>>

(* The end of the loop, and close. *)
CloseFile ==
    /\ pc = "write"
    /\ total >= Size
    /\ pc' = "idle"
    /\ UNCHANGED <<faults, run, mFrameCount, files, offset, total>>

(* The program ends, at any point if another thread calls exit(), and is    *)
(* started again.                                                           *)
Restart ==
    /\ run < Runs
    /\ run' = run + 1
    /\ pc' = "idle"
    /\ mFrameCount' = -1
    /\ offset' = 0 /\ total' = 0
    /\ UNCHANGED <<faults, files>>

Save ==
    \/ ProcessImage \/ OpenFile \/ WriteHeader
    \/ WriteImage \/ WriteFails \/ CloseFile

Next == Save \/ Restart

Spec == Init /\ [][Next]_vars

(* The saver's thread runs; whether a write() is short or fails is open.    *)
FairSpec == Spec /\ WF_vars(Save)

-----------------------------------------------------------------------------
Picture(r, f) ==
    [k \in 1 .. Size + 1 |-> [run |-> r, frame |-> f, part |-> k - 1]]

(* The files the current run is done with. *)
Complete == {f \in Frames : f < mFrameCount \/ (f = mFrameCount /\ pc = "idle")}

(* The loop of dumpPpm leaves only when the bytes it asked for are in the   *)
(* file: total never says more than was written, however often write() was  *)
(* short or failed before it succeeded.  Only an overflow of total, after   *)
(* as many failures as int has negative values, breaks this.                *)
TotalIsWritten == pc = "write" /\ total # IntMax => total <= offset

(* image_saver.hpp:26: "Writes the image pointed to by `p` to file using    *)
(* the ppm format."  A file this run is done with is its header and its     *)
(* picture, from the first part to the last and nothing behind them,        *)
(* whatever an earlier run left there.                                      *)
FilesArePictures == \A f \in Complete : files[f] = Picture(run, f)

(* The same as long as no write() does less than it was asked for.          *)
WholeFilesArePictures == faults \subseteq {"open"} => FilesArePictures

(* Wherever a run ends, no file mixes frames, nor has a part in the wrong   *)
(* place if no write() does less than asked for: it holds a beginning of    *)
(* the picture of one run and behind it the end of that of an older run.    *)
FilesAreLayered ==
    \A f \in Frames : \A k \in DOMAIN files[f] :
        /\ files[f][k].frame = f
        /\ faults \subseteq {"open"} =>
              /\ files[f][k].part = k - 1
              /\ k > 1 => files[f][k].run <= files[f][k - 1].run

(* The loop over write() ends, however short the writes are and however     *)
(* many of them failed before, unless they never cease to fail.             *)
WritingEnds == <>[][~WriteFails]_vars => (pc = "write" ~> pc # "write")
=============================================================================
