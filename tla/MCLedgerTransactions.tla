------------------------ MODULE MCLedgerTransactions ------------------------
(* Bounds for model checking LedgerTransactions. *)
EXTENDS LedgerTransactions, TLC

\* All reports of at most two vintages.
AllTotals ==
    {t \in UNION {[1 .. n -> 1 .. CreditEst] : n \in 1 .. 2} :
        \A i, j \in DOMAIN t : i < j => t[i] < t[j]}

\* Every report verifies a vintage of one credit and one of two.
SameReport == {<<1, 3>>}

\* A single issuance of the whole estimate.
WholeEstimate == {<<CreditEst>>}

\* Clients differ in nothing but their name.
Symmetry == Permutations(Clients)

=============================================================================
