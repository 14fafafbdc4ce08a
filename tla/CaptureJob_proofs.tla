--------------------------- MODULE CaptureJob_proofs -------------------------
(***************************************************************************)
(* What the abstract job guarantees, for every FrameIds, Capacity and      *)
(* FrameCount, and whether saving can be given up or not.                  *)
(***************************************************************************)
EXTENDS CaptureJob, TLAPS

(* The stamp after a stamp is a stamp. *)
LEMMA SuccType ==
  ASSUME CaptureJobAssumption
  PROVE  \A n \in Stamps : Succ(n) \in Stamps
  BY DEF CaptureJobAssumption, Stamps, Succ

(* Every reachable state of the job is of its type. *)
THEOREM TypeCorrect ==
  ASSUME CaptureJobAssumption
  PROVE  Spec => []TypeOK
<1> USE DEF CaptureJobAssumption
<1>1. Init => TypeOK
  <2> SUFFICES ASSUME Init PROVE TypeOK
    OBVIOUS
  <2>1. flow \in Seq(Stamps)
    BY DEF Init
  <2>2. next \in Stamps
    BY DEF Init, Stamps
  <2>3. live \in BOOLEAN
    BY Zenon DEF Init
  <2>4. saved \in 0 .. FrameCount /\ status \in {"running"}
    BY DEF Init
  <2>5. abandoned \in BOOLEAN
    BY Zenon DEF Init
  <2> QED
    BY <2>1, <2>2, <2>3, <2>4, <2>5 DEF TypeOK
<1>2. TypeOK /\ [Next]_vars => TypeOK'
  <2> SUFFICES ASSUME TypeOK, [Next]_vars PROVE TypeOK'
    OBVIOUS
  <2>1. CASE GoLive
    BY <2>1 DEF TypeOK, GoLive
  <2>2. CASE Capture
    BY <2>2, SuccType DEF TypeOK, Capture
  <2>3. CASE Save
    BY <2>3 DEF TypeOK, Save
  <2>4. CASE Release
    BY <2>4 DEF TypeOK, Release
  <2>5. CASE StopStream
    <3>1. PICK n \in 0 .. Len(flow) : flow' = SubSeq(flow, 1, n)
      BY <2>5 DEF StopStream
    <3>2. flow' \in Seq(Stamps)
      BY <3>1 DEF TypeOK
    <3> QED
      BY <2>5, <3>2 DEF TypeOK, StopStream
  <2>6. CASE Succeed
    BY <2>6 DEF TypeOK, Succeed
  <2>7. CASE Fail
    BY <2>7 DEF TypeOK, Fail
  <2>8. CASE Abandon
    BY <2>8 DEF TypeOK, Abandon
  <2>9. CASE UNCHANGED vars
    BY <2>9 DEF TypeOK, vars
  <2> QED
    BY <2>1, <2>2, <2>3, <2>4, <2>5, <2>6, <2>7, <2>8, <2>9 DEF Next
<1> QED
  BY <1>1, <1>2, PTL DEF Spec

(* The pictures under way are always consecutive pictures of the camera:    *)
(* whatever implements the job loses, repeats and reorders none.            *)
THEOREM FlowIsContiguous ==
  ASSUME CaptureJobAssumption
  PROVE  Spec => []Contiguous
<1>1. Init => Contiguous
  BY DEF Init, Contiguous
<1>2. TypeOK /\ Contiguous /\ [Next]_vars => Contiguous'
  <2> SUFFICES ASSUME TypeOK, Contiguous, [Next]_vars PROVE Contiguous'
    OBVIOUS
  <2> USE DEF TypeOK, Contiguous
  <2>1. CASE GoLive
    BY <2>1 DEF GoLive
  <2>2. CASE Capture
    <3>1. flow' = Append(flow, next) /\ next' = Succ(next)
      BY <2>2 DEF Capture
    <3>2. Len(flow') = Len(flow) + 1 /\ flow'[Len(flow')] = next
      BY <3>1
    <3>3. ASSUME NEW i \in 1 .. Len(flow') - 1
          PROVE  flow'[i + 1] = Succ(flow'[i])
      <4>1. CASE i = Len(flow)
        BY <2>2, <3>1, <3>2, <4>1 DEF Capture
      <4>2. CASE i # Len(flow)
        BY <3>1, <3>2, <3>3, <4>2
      <4> QED
        BY <4>1, <4>2
    <3> QED
      BY <3>1, <3>2, <3>3
  <2>3. CASE Save
    BY <2>3 DEF Save
  <2>4. CASE Release
    <3>1. flow # <<>> /\ flow' = Tail(flow) /\ UNCHANGED <<next, live>>
      BY <2>4 DEF Release
    <3>2. Len(flow') = Len(flow) - 1
          /\ \A i \in 1 .. Len(flow') : flow'[i] = flow[i + 1]
      BY <3>1
    <3>3. flow' # <<>> => flow'[Len(flow')] = flow[Len(flow)]
      BY <3>1, <3>2
    <3> QED
      BY <3>1, <3>2, <3>3
  <2>5. CASE StopStream
    <3>1. PICK n \in 0 .. Len(flow) : flow' = SubSeq(flow, 1, n)
      BY <2>5 DEF StopStream
    <3>2. Len(flow') = n /\ \A i \in 1 .. n : flow'[i] = flow[i]
      BY <3>1
    <3> QED
      BY <2>5, <3>2 DEF StopStream
  <2>6. CASE Succeed
    BY <2>6 DEF Succeed
  <2>7. CASE Fail
    BY <2>7 DEF Fail
  <2>8. CASE Abandon
    BY <2>8 DEF Abandon
  <2>9. CASE UNCHANGED vars
    BY <2>9 DEF vars
  <2> QED
    BY <2>1, <2>2, <2>3, <2>4, <2>5, <2>6, <2>7, <2>8, <2>9 DEF Next
<1> QED
  BY <1>1, <1>2, TypeCorrect, PTL DEF Spec
=============================================================================
