-------------------------- MODULE MC_CameraDevice ---------------------------
(* The instance of CameraDevice that TLC checks. *)
EXTENDS CameraDevice
=============================================================================
