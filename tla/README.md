# Verification of the synchronome

The repository holds one program of its own, `synchronome/`, and the example
programs of a real-time course, `examples/`.  The synchronome films a ticking
clock and saves one picture per tick.  It is a small but genuinely concurrent
program: three SCHED_FIFO threads, two POSIX message queues that carry pointers,
two pools of buffers that travel between threads (and, for one of them, between
the process and the kernel), and `exit()` calls in every thread.  This project
models it in TLA+, model-checks it with TLC and proves its main safety properties
with TLAPS.

## 1. Inventory

### The synchronome

    driver --> CameraService --camera queue--> TickDetectorService
      ^                                          |            |
      +---------------- VIDIOC_QBUF -------------+        tick queue
                                                              v
    RGB pool (TickDetector) <------- returnBuffer ------- ImageSaverService

| component | source | state | operations | what makes it correct |
|---|---|---|---|---|
| main | `main.cpp` | how far it is, the return code | unlink the queues, start the camera, start three services, wait for the saver, flag and join the others, stop the camera | the order of shutdown; the process ends whatever a service does |
| service base | `service.*` | thread, exit semaphore | `start`, `flagExit`, `doExit`, `join` | a flagged service leaves its loop |
| camera device | `camera.*`, `buffer_handler.hpp` | stream on/off, the driver's empty and filled buffers, the mapped memory | `startCapturing`, `waitTilReady`, `readFrame`, `returnBuffer`, `stopCapturing` | each mapped buffer has one owner; not used when stopped |
| camera service | `camera_service.*` | the `unique_ptr` of the frame it read | wait, read, send, sleep | sends every frame once, never blocks |
| tick detector | `tick_detector.*`, `rgb_handler.hpp` | pool of RGB buffers, previous picture, hysteresis | `allocate`, `colorConvert`, `execute`, `returnBuffer` | each RGB buffer has one owner; ticks are apart |
| tick detector service | `tick_detector_service.*` | the handler received, the handler to send | timed receive, execute, requeue, send | sees its exit flag; never blocks in send |
| image saver service | `image_saver_service.*` | the handler received, the count | receive, save if tick, return | saves `frameCount` pictures, in order |
| image saver | `image_saver.*` | file number | `processImage`, `dumpPpm` | the file holds the picture |

What is hard: the three threads and the driver run concurrently and hand over
buffers without copying them; the tick of a picture is known one picture later;
queues survive a crashed run; any system call may fail, some failures are
ignored, some end the thread, some end the process; and shutdown has to reach
threads that may be waiting in a queue.

### The examples

Stand-alone programs, not linked with the synchronome and of mixed authorship.
Those with a protocol are modelled:

| component | source (`examples/`) | state | operations | what makes it correct |
|---|---|---|---|---|
| sequencers | `sequencer_generic/seq*.c`, `sequencer/lab1.c` | cycle count, a semaphore and an abort flag per service | release the services that are due, shut down; wait, work, test the flag | each release is served once; after the shutdown every service ends |
| frame services | `seqv4.c`, `seqv4l2.c` with `capturelib.c` | a ring of three frames and one converted picture, without locks | read, process, store | each stored picture is whole and the newest of its second |
| capture loops | `simple_capture_linux`, `simple_capture_concurrent`, `capturelib.c` | the device, its buffers, frame counters | open, map, queue, stream, dequeue, process, requeue, stop | each buffer has one owner; frames in order; everything given back |
| locks | `sync` | two mutexes, or one and three priorities | lock, timed lock, spin | no deadlock but the one on show; inversion only by the mutex |
| shared variables | `incdecthread`, `*thread*` | a sum, the parameters, `idx` and `jdx` | create, add, join | no lost index; which counts may be lost |
| sieve | `erast`, `erast_compare_fast` | packed bits, a semaphore per region | clear the multiples of a prime | exactly the primes are left |
| processes | `twoprocs`, `posix/heap_mq.c`, `posix/posix_mq.c`, `posix/posix_linux_demo.c` | named semaphores and queues, signals | post, wait, send, receive, handle a signal | turns; what a killed program leaves behind |

Not modelled: timers and clocks, RAID and Hamming code, `lcm`, the image filters,
the OpenCV and syslog programs, the vendored `popl.hpp` (section 6).

## 2. Modules

| module | what it is |
|---|---|
| `Service` | program counters and exit semaphores; the steps of `start`, `flagExit`, `doExit`, `join` |
| `Camera` | the streaming device: `queued` and `filled` (the driver's two FIFOs), `yuyv` (the mapped memory) |
| `TickDetector` | the RGB pool `mAvailable`, the previous picture, the hysteresis, the RGB memory |
| `Synchronome` | composes the three; main, the driver and the three service threads, one action per system call; the properties |
| `CameraDevice` | extends `Camera`: start and stop of the device, one call at a time |
| `ImageSaver` | what `processImage` leaves on the disk, one call at a time, over several runs of the program |
| `Pixels` | the two pixel loops of the detector, one pass at a time, on real numbers |
| `CaptureJob` | the abstract specification: one FIFO of pictures, saved or released oldest first |
| `Sequencer` | the sequencers: cycles, releases, semaphores, abort flags, joins, under SCHED_FIFO |
| `FrameSequencer` | extends `Sequencer`: the frames of `seqv4` and `seqv4l2` |
| `SequencerPrograms` | what is particular to each of the eight programs, as data |
| `VideoCapture` | the one-threaded capture loops; five variants, as data |
| `Threads` | what a call on a thread, mutex, semaphore, queue or signal, or an access to a shared variable, does |
| `ThreadPrograms` | extends `Threads`: 21 programs and variants as tables of such calls; the properties |
| `CaptureJob_proofs`, `Synchronome_proofs`, `CameraDevice_proofs`, `Pixels_proofs`, `ImageSaver_proofs`, `VideoCapture_proofs`, `ThreadPrograms_proofs` | theorems and proofs about the module of that name |
| `Sequencer_proofs` | the same for `Sequencer` and `FrameSequencer` |
| `MC_Synchronome`, `MC_CameraDevice`, `MC_ImageSaver`, `MC_Pixels`, `MC_Sequencer`, `MC_VideoCapture`, `MC_Threads` | the instances TLC checks |

`Synchronome` composes `Service`, `Camera` and `TickDetector` and implements
`CaptureJob`; `CameraDevice` implements `Camera`.  The other modules stand alone,
as the programs do.

**How state corresponds to code.**  `pc[t]` is the system call thread `t` is
about to make.  `cameraMq` and `tickMq` are the kernel's queues, `opened` tells
which `mq_open` succeeded.  `cameraBuffer`, `tickBuffer`, `tickRgb` and `saverRgb`
are the local handlers of the three `service()` functions.  A `BufferHandler` is
the index of its buffer; an `RgbHandler` is a record of buffer and `mIsTick`.
A picture is its number modulo `FrameIds`, a *stamp*, stored in the memory of the
buffer that holds it: a buffer written over while someone reads it shows as a
wrong stamp.  `percentDiff` is reduced to the side of the two thresholds it lies
on, chosen freely for every picture.

**Atomicity.**  One action is one system call, or the code between two of them
that touches only data of its thread.  `allocate` and `returnBuffer` are one
action each because they hold `mRgbQueueMutex`.  The conversion is an action of
its own, after `allocate`: it reads the camera's memory, which the driver could
be filling.  `exit()` ends all threads in one step.

**Below the atomic steps.**  Three steps of `Synchronome` stand for more than one
call, and each has a module of its own.  `CameraDevice` splits `startCamera` and
`stopCamera` into their calls and loops, any of which may fail; its refinement
mapping shows the driver an empty queue until `VIDIOC_STREAMON`, and under it
every call is one step of `Camera` or none.  `ImageSaver` splits `processImage`:
a file is a sequence of cells, each of which knows the run, the frame and the part
of the picture it was written from; `write()` puts cells at the offset of the open
file over what was there.  `Pixels` runs `colorConvert` and `sumDifference` on
bytes, with `>> 8` as floor division and `uint32_t` as arithmetic modulo `Word`
(a small number in the runs, larger than the sums that fit an RGB buffer, as
2^32 is in the code); it also remembers the YUYV bytes of the picture before, which
nothing in the code does, to say what the difference of the grey pixels would be.

**Failures.**  `Faults` says what the environment may do wrong: `mq_open` or
`pthread_create` fail, a receive on an open queue returns an error (as when a signal
interrupts it: the saver leaves its loop on any error, the detector on any but
`ETIMEDOUT`), an ioctl fails, `select` is interrupted or `VIDIOC_DQBUF`
answers `EIO`, the camera stalls for two seconds, a frame has another size, the
image file cannot be opened, `write()` fails for good.  `select` also times out
without any fault when all camera buffers are under way; time itself is not
modelled, so it is one of the things that can happen then.  The same holds for
the timed receive on an empty queue.

**The sequencers** differ in rates, cores, priorities, the loop of a service and the
order of the shutdown, so one machine takes these from a record per program.  A
thread runs only when SCHED_FIFO lets it: pinned, while no more urgent thread of
its core can run; unpinned, while the more urgent ones leave it a core.  Cycles
that release nobody are passed over in one step.  The scheduler is an assumption
of the model (a kernel without real-time throttling, calls that set it up
succeed); the work of a service is taken to be done before its next release and
within `Budget` cycles, so an overloaded core is not modelled.  Waiting for the camera
is not work.  `punctual` says whether the camera of `seqv4` always has a frame; if
not, S1 may stay in `select` for any number of cycles up to the timeout of two seconds
(`SelectTimeout`, 200 cycles) while the timer goes on, posts S1 again, and releases S2
and S3.  After 200 cycles either the frame has come or `seq_frame_read` goes on
without one and the program exits.

**The capture loops** differ in I/O method and in the order of their calls after
`VIDIOC_DQBUF`, which is a sequence in a record.  The driver may grant fewer
buffers than were asked for, refuses a buffer it does not know or already has, and
may stop delivering.  It may answer the request for YUYV with grey, RGB24 or a format
that the programs do not know (`format`), which decides what `process_image` does with
a frame.  Every call may fail and end the process.

**The threads** of an example are sequences of instructions, one per call or
shared access: `gsum = gsum + i` is a load and a store.  Work on private data is an
instruction only where it matters that it takes time.  Loops are written out with
fewer rounds.  Where the code writes behind an array (`threadParams[THREAD_2]` in
`deadlock.c` and `deadlock_timeout.c`), the model lets the write hit `threads[0]`
or not.  A signal that no handler is installed for ends the process it is sent to.
The inversion programs (`pthread3`, `pthread3ok`, `pthread3amp`) run pinned to one
core under SCHED_RR, which is what their attributes end up with; all others,
`deadlock` and `deadlock_timeout` among them, in any order.

**Slips.**  Definitions commented as "a slip" are wrong versions of the
definition after them; they are used by no specification.  `PROJECT.json` names
the property each one must break, which shows that the property depends on that
line of the code.

## 3. Properties and runs

| run | question | constants | result |
|---|---|---|---|
| `synchronome` | with every fault, at any time: types, camera and RGB buffers owned once and none lost, no `mq_send` blocks, device used only while streaming, ticks apart, refinement of `CaptureJob`; a service that returned or hangs ends the process; with a ticking clock the program ends | 2 camera and 3 RGB buffers, 2 frames, ticks only | holds; the last two under `FairSpec` |
| `device` | call by call: only mapped buffers owned, everything undone, refinement of `Camera` | 3 buffers granted, 4 asked for | holds |
| `pixels` | bounds, nearest colours, the sum neither wraps nor misses a byte | a picture of equal samples, then any of two units, 3 sample values | holds, 177,160 states |
| `saver` | the loop believes no more than was written, and ends; with whole writes finished files are pictures, and cut-off files have every part in place | 2 runs of 2 frames of 2 cells, four sets of faults | holds under `FairSpec` |
| `sequencer` | releases served once, nobody stranded after a safe shutdown, newest whole frames stored, and an end | 7 of the 8 programs (`seqv4l2` has the table of `seqv4`), 500 cycles | holds under `FairSpec`, 686,235 states |
| `capture` | buffers owned once, own buffers accepted, the right frames in order, everything given back, and an end | 5 variants, 4 formats, 2 to 4 buffers granted, 6 frames | holds under `FairSpec` |
| `threads` | which programs can stop, invert, lose counts or signals; the sieve is exact; the others end | 21 programs, 2 kills | holds under `FairSpec` |
| `incomplete` | `main.cpp:34,108`: a normal end has all frames | `mq_open` and receives may fail | violated, a finding |
| `grey` | `tick_detector.hpp:79`: the sum is that of the grey pixels | pictures of one unit | violated, a finding |
| `firstframes` | `capture.c:206`: the first 8 frames are ignored | as `capture` | violated, a finding |
| `corrupt` | `image_saver.hpp:26`: the file is the picture | short writes | violated, a finding |
| `hang` | `seqgen3.c:492`: the shutdown ends all services | `seqgen3` alone | violated, a finding |

`ImplementsCaptureJob` is the strongest of them.  Its refinement mapping
`InFlight` collects the pictures that are with the saver, in the tick queue, with
the detector, in the camera queue, with the camera thread and in the driver, read
*through the handlers* out of the modelled memory, oldest first.  Every step of
the program has to append the next picture of the sensor, remove the oldest, save
the oldest or leave this sequence as it is.  A buffer requeued too early, a
picture converted into a buffer in use, a handler sent twice or execute returning
the wrong picture all change the sequence in another way.  `CaptureJob` in turn keeps
the pictures consecutive.  Both are proved for all sizes, not only checked for two
buffers (section 5).

What the runs of the examples show, beyond the programs being what their comments
say:

* `NobodyStranded` and `Ends`: `lab1`, `seqv4` and `seqv4l2` set the flags before
  they post; `seqgenex0` posts first, but its sequencer outranks its services on
  the one core they share.  These four always end.  `seqgen`, `seqgen2`, `seqgen3`
  and `seqgen3v2` may not (`hang`).
* `PicturesAreSound`: with a punctual camera `seqv4` stores frames 5, 10, 15, ...,
  though `+ 2`, `+ 3` and `- 5` are never compared with what the reader did; with a
  late camera it may store another frame, or one that is being overwritten.
  `FrameTypeOK` says that the count is what was read less five for each picture, and
  not negative while the camera is punctual.  A frame that is late by 200 ms or more
  leaves four in the count when S2 takes five; only the log shows it.
* `FramesAreStored`: of YUYV frames `capture.c` stores those from the eighth on, of grey
  and RGB24 frames all.  `capturelib` starts one frame late and makes up for it with
  `LAST_FRAMES`; unless its camera gives YUYV it stores a scratchpad that nothing was
  converted into.
* `OwnBuffersAccepted`: only `simple_capture_concurrent`, whose handler is destroyed
  with a cleared buffer when `VIDIOC_DQBUF` answers `EAGAIN`, and the user pointer
  mode, which ignores how many buffers were granted, queue buffers that are refused.
  The property exempts these two by name: it says that the other loops are free of this.
* `StopsAreKnown`: the programs that can stop for ever are `deadlock`, `pthread3amp`
  (whose start service spins for a section that L does not enter) and `posix_mq`
  after a killed `heap_mq`.  `pthread3` relies on SCHED_RR, set on the attributes of
  another thread than meant (`pthread3.c:110`), to get its start service past the spin.
* `SectionsAreExclusive` exempts by name `pthread3ok`, where the lock is a comment, and
  `posix_linux_demo`, whose semaphore is private to each process: that two threads meet
  there is what the code does.
* `Ends`: `posix_linux_demo` ends unless two handlers that run at once lose a count
  (`SignalLost`), and `heap_mq` loops for ever: both are exempted by name.

**Bounds.**  Two camera buffers are the least the code accepts; one is then being
filled while the other travels.  Three RGB buffers are one for `mOldImage`, one
for the new picture and one that waits for the saver or is with it; the pool runs
empty, which is when `execute` ends the process.  Three
stamps tell a picture from both of its neighbours.  Two frames make the saver
return to its queue after saving.  The queues have exactly as many messages as
the larger pool has buffers, the tightest case `QueuesAreLargeEnough` admits
(the code has 40 messages, 25 and 20 buffers).  The queues may hold one message
of an earlier run when the program starts.

In `CameraDevice`, asking for four buffers and getting three separates the two
numbers.  In `ImageSaver`, two runs put a file of the older run under one of the
newer; `DiskSize` bounds the growth of a file, `IntMax` is the largest `int`
and is twice a picture, the most the loop can count without failures.
`FaultSets` are the sets of failures a run may meet, chosen when it starts; `corrupt` has three cells per picture,
so that a short write can have either of two lengths and two of them can add up to the size of a picture.  In `pixels` the samples are both ends and one in between:
sums come out negative, above a byte and within; two units make both strides of
the loops matter.  The pictures fit into an RGB buffer.

The sequencers run 500 cycles (`MaxCycles`, the last cycle of the programs that
have none in the code), more than the longest period of their services (300), or to
their own last cycle; `Stores` = 4 lets each slot of the ring be stored from
and one again.  A late camera multiplies the states, so the program then ends with two
pictures (`LateStores`), which is time enough for a frame that is too late for S2 and
for a timeout.  Four buffers and six frames take every buffer and every slot of
the capture ring round once; three start-up frames tell the two off-by-ones apart.
The sieve has 16 numbers, a multiple of the byte as `MAX` is, two threads and two
regions: three bytes, two of which share a region, and rounds in which the threads
clear bits of one byte.  Two messages fill a queue, three signals are enough for
two handlers to meet while one more is pending, and two kills let the leavings of a killed run
meet another kill.

**Fairness.**  `Synchronome!FairSpec` gives weak fairness to main, to the driver and
to each of the three threads as a whole: the kernel runs a thread that can run, and a
streaming camera with a queued buffer delivers a picture.  It says nothing about
which of several outcomes a call has, with two exceptions.  A receive that waits on an open queue is not bound to
come back with an error (`Interrupted`): otherwise an interruption would be
certain to free a saver that waits for nothing.  And `select` and `VIDIOC_DQBUF` are
not interrupted or answered with `EIO` again and again for ever (strong fairness of their
other outcomes, good and bad).  `Finishes` has as its premise `ClockTicks`, that the
pictures do not rest, nor move, for ever (strong fairness of the steps that change
`mState`): that is the clock in front of the camera, without which the saver waits for
ever, as it should.  `ImageSaver!FairSpec` says that the
saver's thread makes its next call; that `write()` does not fail for ever is a premise of
`WritingEnds`, for otherwise the loop need not end (the fault `diskFull` of
`Synchronome`). `FrameSequencer!FairSpec` is fair to
the sequencer and to each service, only in states in which SCHED_FIFO lets it run;
a late camera may stay late.  `VideoCapture!FairSpec` lets the program go on, and
demands that a `VIDIOC_DQBUF` that may answer infinitely often with a frame gives
one in the end (strong fairness of `ReadFrame`: select and `EAGAIN` may alternate,
but not for ever); of the sensor it demands nothing.  `ThreadPrograms` is checked
under weak fairness of every thread, as the kernel schedules them.

## 4. Findings

* `corrupt`: a short `write()` is followed by one from the start of the picture.  On a
  regular file this takes a full disk or an interrupted write, and then the loop
  of `dumpPpm`, written for this case, spoils the file instead of completing it.  In
  TLC's trace a third of the picture is written, then two thirds: the loop counts a
  whole picture and ends, and the file has the length of a picture with the first third
  in it twice and the last third missing.  Other lengths end with more than a picture.
* `incomplete`: the saver's thread returns whenever `mq_receive` returns -1, and main
  takes its return for the end of the job: all frames are reported and the status is 0.
  It happens when the saver's `mq_open` failed, which nobody checks, and when
  `mq_receive` on a good queue is interrupted.
* `hang`: `seqgen3` posts every semaphore and only then sets the abort flags.  A
  service on another core can take its post, find its flag not set, and wait for a
  post that will not come; `pthread_join` in `main` does not return.  `seqgen`,
  `seqgen2` and `seqgen3v2` do the same.
* `grey`: the header documents the sum of the differences of the grey (Y) pixels of two
  YUYV images; the code sums over the red, green and blue bytes of the converted ones.
  `SumIsDistance` says what the code computes, and that it computes this right.
* `firstframes`: `capture.c:206` says "always ignore first 8 frames".  `process_image`
  dumps grey and RGB24 frames without a look at the counter, and of YUYV frames it
  ignores seven, as it raises the counter before it compares it.

Smaller disagreements that change nothing or concern what is not the program's own
use, and have no run: `camera.hpp:66`
describes a destructor that queues the buffer, which `BufferHandler` of the
synchronome does not have, so a handler whose `mq_send` failed is lost until
`select` times out; `tick_detector.hpp:88` says "true on the transition", where
`execute` returns the previous picture with that picture's verdict, one call
later; `save_image` of `capturelib.c` prints "Dump graymap as-is" (253), where it dumps a
scratchpad into which `process_image` has put nothing.

## 5. Proofs

`tlapm` checks the proof modules, for all values of the constants the named
assumptions admit: `CameraAssumption`, `TickDetectorAssumption`,
`SynchronomeAssumption`, `QueuesAreLargeEnough`, `RequestAssumption`,
`PixelsAssumption`, `ImageSaverAssumption`, `ProgramsAssumption`,
`MaxCyclesAssumption`, `RingAssumption`, `CaptureAssumption`, `ThreadsAssumption`,
`SectionsAssumption`, `InversionAssumption`, `TurnsAssumption`.  TLC evaluates them in
every run of the modules that state them; those about programs given as data hold of
all the tables, so no theorem is empty.

| theorem | states |
|---|---|
| `Synchronome_proofs!TypeCorrect`, `NoBlockedSend`, `DeviceInUseHolds` | `TypeOK`, `SendsNeverBlock`, `DeviceInUse` |
| `Synchronome_proofs!BuffersInOnePlace`, `NoBufferIsLost`, `RgbInOnePlace`, `TicksAreSeparated` | `BuffersOwnedOnce`, `NoBufferLost`, `RgbOwnedOnce`, `TicksSeparated` |
| `Synchronome_proofs!TheJobIsImplemented`, `PicturesAreConsecutive`, `SuccessMeansComplete` | `ImplementsCaptureJob`, and what follows from it: `Job!Contiguous`, `SuccessIsComplete` |
| `CaptureJob_proofs!FlowIsContiguous` | the abstract job keeps the pictures consecutive |
| `CameraDevice_proofs!OwnedBuffersAreMapped`, `EverythingIsUndone`, `Refinement` | `OwnedIsMapped`, `NothingLeft`, `ImplementsCamera` |
| `Pixels_proofs!LoopsInBounds`, `SumNeverWraps`, `PixelsAreNearest`, `SumIsTheDistance`, `OnlyEqualPicturesSumToZero` | `InBounds`, `SumFits`, `ColoursAreNearest`, `SumIsDistance`; the sum is 0 exactly for equal pictures |
| `ImageSaver_proofs!LoopCountsWhatIsWritten`, `ClosedFilesArePictures`, `FilesStayLayered` | `TotalIsWritten`, `WholeFilesArePictures`, `FilesAreLayered` |
| `Sequencer_proofs!SafeShutdownStrandsNobody`, `ReleasesAreServed` | `NobodyStranded`, `EveryReleaseServed` |
| `Sequencer_proofs!SequencerTypes`, `StoredPicturesAreSound` | `FrameTypeOK`, `PicturesAreSound` |
| `VideoCapture_proofs!TypesAreKept`, `BuffersHeldOnce`, `OthersAreAccepted`, `FramesInOrder`, `EverythingGivenBack` | `TypeOK`, `EachBufferOnce`, `OwnBuffersAccepted`, `FramesAreStored`, `NothingLeft` |
| `ThreadPrograms_proofs!ThreadsTypes`, `SectionsExclude`, `OneTurnAtATime`, `InversionNeedsTheMutex` | `TypeOK`, `SectionsAreExclusive`, `ProcessesTakeTurns`, `OnlyTheMutexInverts` |
| `ThreadPrograms_proofs!MutexesAreGivenBack` | a program that has ended without a crash holds no mutex (part of `CountsAtTheEnd`) |

**`Synchronome_proofs`, first part.**  None of its three properties is inductive.  `TypeOK`
needs to know that a thread about to queue or send a handler holds one
(`HandlersHeld`).  `DeviceInUse` needs the relation between main's progress and the
services' (`Lifecycle`: after the join of a service it is at "exited", and no
service runs before `startCamera`).  `SendsNeverBlock` is an argument about numbers:
the handlers in all places never outnumber the buffers (`HandlersBounded`, two sums
over queue lengths and held handlers), so when one of them is with the sender the
queue has room; the sums start from empty queues, which is what `mq_unlink` is
for.  `IInv` is the conjunction of the four.  There is one lemma per thread and
part, one step per action.

**`Synchronome_proofs`, second part.**  The places a camera buffer can be in are read as one
sequence, from the one given back next to the one given back last (`BufferPlaces`); the RGB
buffers likewise.  The lemma `MovesKeep` says that the head of one queue taken to the
end of the queue before it, or into a hand that was empty, leaves the concatenation
of the two alone.  So every step of every thread leaves the sequence as it is or turns it by one
buffer, with one exception: a handler sent to a queue that was not opened is
dropped.  `BuffersOwnedOnce` and `RgbOwnedOnce` follow whatever fails.
`NoBufferLost` rules the exception out in its premise and nothing else.  `TicksSeparated` looks at all
pictures that the detector has let go, in their order, and at the hysteresis: the
last of them is a tick only while `mState` is "Still" (`TicksApart`), and the fresh
picture is not one yet (`FreshUnticked`).

The refinement maps `MainStartCamera` to `GoLive`, `DriverCapture` to `Capture`,
`SaverSave` to `Save`, `SaverReturn` to `Release`, `MainStopCamera` to `StopStream`,
`MainReturn` to `Succeed` and an exit with failure to `Fail`; everything else stutters,
but for a camera service whose `mq_open` failed: each picture it drops is the oldest there is, as
none has come any further (`NothingSent`), and so the step is a `Release`.
That something stutters is the substance here: `InFlight` reads the pictures out of
memory through the handlers, so each step must be shown to write no buffer
that is under way, which is where the two ownership theorems enter.  `RInv` is the
conjunction of these invariants.  Neither it nor `TheJobIsImplemented` assumes that any
call succeeds: a receive of the saver that returns an error is the step `Abandon` of the job,
after which nothing more is saved and the job may end.  `SuccessMeansComplete` assumes that
neither `mq_open` nor a receive fails, so that the job has no `Abandon`; the run `incomplete` shows that without this
`SuccessIsComplete` is false.

**`CameraDevice_proofs`.**  The invariant `Stages` says for each call of start and
stop what those before it have done: which buffers are mapped (`1 .. i - 1` on the
way up, `i .. NumBuffers` on the way down), which are queued, and that the driver
owns nothing outside of streaming.  The refinement needs it at two places: at
STREAMON the queue must hold every buffer in order, and everywhere else what is
queued must not be seen.

**`Pixels_proofs`** is about pictures of any size of whole units that an RGB buffer
can hold: its theorems assume `PictureFits`, which holds for the 640 x 480 that the program
asks for and which the code does not test against what the driver answers.  The invariant relates the two indices (`k = 4n`, `newi = 6n`) and bounds
the sum by 255 times the bytes seen, from which `SumFits` follows: the exact value of each
addition is below `Word`, so that the modulo is never taken.  For the colours, `UnitsConverted` says that
every unit before the index has its six bytes, and that a pass leaves
them alone; `ByteIsNearest` that shift and clamp give the byte nearest to the exact
value.  `ZeroSoFar` is the part of `SumIsDistance` that the detector relies on:
differences neither cancel nor wrap to 0.

`SumIsTheDistance` compares the loop, which adds the bytes from the first to the last,
with a fold over a set, which takes them in an order of its own.  The fold is read
as the recursion it stands for (`FoldIsSum`).  That this recursion has a solution, and
that the solution does not depend on the order (`AnyOrder`), would be an induction; it is
proved without the library's induction theorems, by looking at a smallest set for
which it fails.  The distance then grows by one difference with each pass
(`SumSoFar`), and the bytes of the buffer behind the picture add nothing, because both
pictures have zeros there (`RestIsEmpty`).

**`ImageSaver_proofs`** is about any number of runs, frames and cells.  The invariant
describes the one file that is open: no write leaves a hole (`OffsetInFile`); with
whole writes what lies below the offset is of this call and in its place
(`WrittenSoFar`), and what lies behind it is an older picture, as long as a new one
(`Layered`).  The last is why a run that is cut off leaves a picture of one run
over that of another and nothing worse.

**`Sequencer_proofs`** is about every set of well-formed programs: any number of
services, any rates, cores, priorities, service loops and shutdown orders.
`WellFormed` only asks that the threads are created last, that a service waits once per
round, after a look at its flag, and is done at the end of it, that the shutdown flags
and posts every service, that the cycles are counted from 0 or 1, and that rates are
natural numbers.  `NobodyStranded` speaks about the end of the
shutdown; inductive is what holds from a service's post on: it is at its wait only
with a post to take (`PostedCanGo`).  Taking the post leads to a test of the flag,
which is set because it was set first, or because the service could not run before
the sequencer was through.  `EveryReleaseServed` counts: what the rates demand up
to this cycle, less what this cycle has still to post, is what is done, in hand, or
in the semaphore (`Tally`).  As the sequencer passes over cycles that release
nobody, the proof has to show that no multiple of a rate lies between a cycle and
the next one with a release (`NextQuotient`), and that there is such a cycle
(`LeastNumber`, by well-founded induction on the numbers).

The frames come on top of that, in three steps.  `FrameTypeOK` bounds by 2 the semaphores
of the services that wait for no device: such a service has at most one release to serve (`Loads`, from the tallies and the
budget, which keeps a release from meeting its successor), and the shutdown posts
each semaphore once more.  The posts of one whose device is late pile up, and no bound is
claimed.  It also says that `count` is not negative with a punctual camera, which needs
`Supply`: what S2 takes off `count` has been read before S2 is released, since S1 is
more urgent and runs five times meanwhile (`FramesCounted`).
`PicturesAreSound` rests on `PInv`, which holds for every punctual camera: the last
three frames are in their slots of the ring, and S2 is done before S1 has come round to
the one it reads (`Rounds`, from `Timely`); S2 and S3, which share the scratchpad,
are never at it at once (`Apart`, and `Quiet` after S3 has asked for the shutdown); so
the `i`th picture that is stored is a whole frame `5 * i` (`Saved`).  All of this is
proved from `RingProgram`, which names what the timing has to satisfy: one core, rates
1 : 5 : 5, priorities in that order, a `Budget` of less than three periods of S1, and
reads enough for what is stored.  A program that meets this with other rates has the
same pictures.

**`VideoCapture_proofs`** is about any number of buffers asked for and granted, any
frame counts, and a failure of any call.  `Device` says for each call what the driver
has; `Owned` splits `EachBufferOnce` by the driver's two queues; `OwnCalls` which calls
belong to which program.  `Flow` and `Storing` relate the frames to the counters: what
waits in the driver follows what was read (`FramesRead`), and what is stored is what
was seen (`FramesSeen`) from the first frame of the program on, which depends on the
format, or nothing, or in `capturelib` the blank scratchpad; the two
differ while a frame is in hand.

**`ThreadPrograms_proofs`** is about every set of tables that meets the four
assumptions, with any number of threads, priorities, signals and messages.  The
assumptions are about the text of a program only: `ThreadsAssumption` that jumps stay
inside the code and that locks and unlocks of a mutex alternate along it, also across
the jumps (`Nested`); `SectionsAssumption` that one mutex is held, by the text, wherever
something shared is touched, or nothing is.  The main invariant connects text and
state: the owner of a mutex is the thread whose place in its code lies between lock
and unlock (`OwnersHold`).  `HoldsNext` carries it over one instruction; a thread created
once starts with nothing held (`CreatedOnce`).  Mutual exclusion and the return of all
mutexes follow from it.  Two programs need more.  The processes of `twoprocs` take turns
because what is posted, and what the two may still post before their next wait, is
together at most one for this run and one for each killed run before it (`TInv`).  In `pthread3` the
middle priority goes on while the high one has not ended only if the high one is at a
lock whose owner is the low one (`MInv`), which is false to start with and becomes so
only by that lock; `pthread3ok`, which does not lock, has no inversion.

**Only model-checked.**  `StopsAreKnown`, `CountsAtTheEnd` but for its mutexes, and
`SieveIsExact` say what 21 fixed tables of instructions compute or where they stop; TLC
covers their states completely, and a proof would be a replay of those tables.
The liveness properties, with their fairness, are out of the prover's reach.

## 6. Not modelled

`showDiff` (switched off by `main.cpp`), `dumpPgm` (never called), the text of the
picture's header, logging and frame rates, the command line, time, the values of
the video format but for the pixel format of the capture loops, what happens during `exit()`.  In
`Synchronome` priorities are left out, which only adds behaviours, and the sum of
differences is reduced to the side of the thresholds it lies on; the quotient of
`double`s is not modelled.  `Pixels` assumes that the driver delivers whole YUYV
units; the size is any that fits into an RGB buffer.  A picture that does not fit is
written behind the buffer by the code; the project does not model this.  `FrameSequencer`
assumes that the camera gives YUYV, as asked.

Some hazards that `PROJECT.json` lists go wrong in the model just as they do in the code, and
no statement of the repository rules them out, so no property forbids them: a saver so slow
that `select` times out, a detector that runs out of RGB buffers, a negative count after a late frame, a
refused `VIDIOC_QBUF` after `EAGAIN`, two threads in an unlocked section, a lost signal.

Of the examples: overloaded cores and the arithmetic of delays and drift control
in the sequencers; the byte that `heap_mq.c:60` writes behind its buffer; the
sequential branches of the sieve; `pthread_create` that fails.  The timers and
clocks (`timer`, `rt_clock`, `posix_clock.c`, `signal_demo.c`, `clock_times.c`)
print what the kernel delivers and keep no state.  The RAID and Hamming libraries
are sequential functions on bytes, small enough for their own exhaustive tests;
they are next in the plan.  `lcm` is assembly and its wrapper; the threads of the
image filters write disjoint tiles and are joined before anybody reads them;
the OpenCV and syslog programs call a library; `popl.hpp` is vendored.

## 7. Plan

Done: the synchronome (`Service`, `Camera`, `TickDetector`, `Synchronome`,
`CaptureJob`, `CameraDevice`, `ImageSaver`, `Pixels`), its safety properties proved,
and its two refinements; the sequencers with the theorems about their releases, their
shutdown and their frames; the capture loops and all their safety properties; the
thread, lock, queue, signal and sieve examples with the theorems about their locks,
turns and priorities.  Next:

1. The Hamming code (every code word with every single and double error) and the
   RAID stripes (every lost chunk), as operators against their definitions.
2. Overload: a service that is released again before it is done.
