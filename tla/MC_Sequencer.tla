---------------------------- MODULE MC_Sequencer ----------------------------
(* The instance of FrameSequencer that TLC checks: seven of the programs.   *)
(* seqv4l2 is the eighth and differs from seqv4 in nothing that is          *)
(* modelled.                                                                *)
EXTENDS FrameSequencer, SequencerPrograms

ASSUME SameProgramTwice == AllPrograms.seqv4l2 = AllPrograms.seqv4

MCPrograms == [p \in DOMAIN AllPrograms \ {"seqv4l2"} |-> AllPrograms[p]]
Seqgen3Only == [seqgen3 |-> AllPrograms.seqgen3]
=============================================================================
