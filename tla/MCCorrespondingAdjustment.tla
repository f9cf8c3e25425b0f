---------------------- MODULE MCCorrespondingAdjustment ----------------------
(***************************************************************************)
(* A period of two years, so that a calculation of the later one locks the *)
(* earlier row too, one retirement, decided when its year may be over, and *)
(* two requests that may wait for each other.                              *)
(***************************************************************************)
EXTENDS CorrespondingAdjustment, TLC
=============================================================================
