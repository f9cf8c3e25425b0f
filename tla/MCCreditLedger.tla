--------------------------- MODULE MCCreditLedger ---------------------------
(***************************************************************************)
(* Three credits, so that a block can be split twice; reports of one or    *)
(* two vintages, one after the other, up to one credit above the estimate; *)
(* two requests, which may be pending on one block together; and every     *)
(* kind of retirement that is checked in its own way.                      *)
(***************************************************************************)
EXTENDS CreditLedger, TLC

\* Running totals: a vintage of one credit alone, or with one of one, two or three.
MCVintageTotals == {<<1>>, <<1, 2>>, <<1, 3>>, <<1, 4>>}

=============================================================================
