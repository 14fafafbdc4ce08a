----------------------------- MODULE MC_Pixels ------------------------------
(* The instance of Pixels that TLC checks. *)
EXTENDS Pixels

(* The camera begins with a picture of equal samples. *)
Uniform == {[b \in 0 .. Size - 1 |-> s] : s \in Bytes}
=============================================================================
