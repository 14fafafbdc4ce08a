--------------------------- MODULE MC_Synchronome ----------------------------
(* The instances of Synchronome that TLC checks; the constants are given in *)
(* the configurations.                                                      *)
EXTENDS Synchronome
=============================================================================
