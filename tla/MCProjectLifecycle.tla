------------------------- MODULE MCProjectLifecycle -------------------------
(***************************************************************************)
(* Two requests at a time on a project that does not exist yet, one whose  *)
(* design document is approved, and one that is authorised; three more     *)
(* documents each, enough for a rejected one to be followed by another or  *)
(* for one activity to reach its issuance and the next to open.            *)
(***************************************************************************)
EXTENDS ProjectLifecycle, TLC

RequestSymmetry == Permutations(Clients)
=============================================================================
