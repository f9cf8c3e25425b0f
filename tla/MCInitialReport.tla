--------------------------- MODULE MCInitialReport ---------------------------
(***************************************************************************)
(* The report of one period.  Two approaches, so that one is filed and the *)
(* other follows in a later major version, while requests come one by one; *)
(* one approach when two requests may overlap.                             *)
(***************************************************************************)
EXTENDS InitialReport, TLC

ReportSymmetry == Permutations(Clients) \cup Permutations(Generals) \cup Permutations(Trajectories)
=============================================================================
