---------------------------- MODULE MCCadTrustSync ----------------------------
(***************************************************************************)
(* One block, whose second version is split off its serial range, and one  *)
(* failure: a call that fails, an answer that is lost, or a restart.  Two  *)
(* attempts, so that a record may be given up.                             *)
(***************************************************************************)
EXTENDS CadTrustSync

CONSTANT b1

=============================================================================
