------------------------ MODULE MCProgrammeTransfers ------------------------
(***************************************************************************)
(* Two owners with equal shares, either of which can pay one request out   *)
(* of the first unit and two once another is issued.                       *)
(***************************************************************************)
EXTENDS ProgrammeTransfers, TLC

\* The government has the number that the second request will have, the owners
\* have one that no request reaches.
MCCompanyId == [c \in Companies \cup {Government} |-> IF c = Government THEN 2 ELSE 9]

\* RetireType: a cross-border retirement is 0, of the others one is 2.
MCAlsoNamed == [k \in Kinds |-> CASE k = "CrossBorder" -> {0} [] k = "Local" -> {2} [] OTHER -> {}]

MCWeight == [o \in Owners |-> 2]

\* Clients differ in nothing but their name, nor do owners.
TransferSymmetry == Permutations(Clients) \cup Permutations(Owners)

=============================================================================
