--------------------------- MODULE MC_ImageSaver ----------------------------
(* The instances of ImageSaver that TLC checks. *)
EXTENDS ImageSaver
=============================================================================
