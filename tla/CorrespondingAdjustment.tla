----------------------- MODULE CorrespondingAdjustment -----------------------
(***************************************************************************)
(* The corresponding adjustments of one NDC period, one row per year.      *)
(*                                                                         *)
(* A calculation is a transaction: it locks the row of its year and, under *)
(* the averaging method, those of every earlier year, and derives all of   *)
(* them from the first transfers.  finalizePeriod locks the draft rows of  *)
(* the whole period, oldest first.  Remarks, a single submission and an    *)
(* approval have no transaction: they read a row, check it, and later save *)
(* it whole.  Two transactions that wait for each other are found by the   *)
(* database, which aborts one.                                             *)
(*                                                                         *)
(* A first transfer counts in the year its retirement was requested, from  *)
(* the moment it is approved.  An adjustment is a fraction, the total that *)
(* was transferred over a number of years.  The emission of a year, which  *)
(* is kept beside it, the safeguard check, which only annotates a row, and *)
(* the multi-year method, which submitReport refuses, are left out.        *)
(***************************************************************************)
EXTENDS Integers, FiniteSetsExt

CONSTANTS
    Clients,     \* requests in progress at one time
    Length,      \* years of the period, numbered from 1
    MaxRequested \* bound: retirements requested

ASSUME AdjustmentAssumption == Length \in Nat \ {0} /\ MaxRequested \in Nat

VARIABLES
    method,      \* how the period adjusts; its initial report says
    now,         \* the present year
    requested,   \* per year: retirements that wait for a decision
    transferred, \* per year: first transfers
    rows,        \* per year: its adjustment, or NoRow
    lock,        \* per year: the transaction that holds the row, or None
    request      \* what each client is in the middle of

avars == <<method, now, requested, transferred, rows, lock, request>>

Years == 1 .. Length
None == "none"

ASSUME ClientAssumption == None \notin Clients

Row == [status : {"Draft", "Submitted", "Approved"}, total : 0 .. MaxRequested, over : Years]
NoRow == [status |-> None, total |-> 0, over |-> 1]

Idle == [pc |-> "idle", year |-> 1, submit |-> FALSE, row |-> NoRow, todo |-> {}]

AInit ==
    /\ method \in {"Trajectory", "Averaging"}
    /\ now = 1
    /\ requested = [y \in Years |-> 0]
    /\ transferred = [y \in Years |-> 0]
    /\ rows = [y \in Years |-> NoRow]
    /\ lock = [y \in Years |-> None]
    /\ request = [c \in Clients |-> Idle]

Step(c, r) == request' = [request EXCEPT ![c] = r]
Begin(c, r) ==
    /\ request[c] = Idle
    /\ Step(c, r)
    /\ UNCHANGED <<method, now, requested, transferred, rows, lock>>

Open(y) == rows[y].status \in {None, "Draft"}

\* assertGateOpen: the year is over, or the period under the averaging method.
GateOpen(y) == now > IF method = "Averaging" THEN Length ELSE y

-----------------------------------------------------------------------------
(* The world the figures are about *)

YearEnds ==
    /\ now <= Length
    /\ now' = now + 1
    /\ UNCHANGED <<method, requested, transferred, rows, lock, request>>

RequestRetirement ==
    /\ now \in Years
    /\ FoldSet(LAMBDA y, n : n + requested[y] + transferred[y], 0, Years) < MaxRequested
    /\ requested' = [requested EXCEPT ![now] = @ + 1]
    /\ UNCHANGED <<method, now, transferred, rows, lock, request>>

\* Its row in the operational database keeps the time it was inserted.
DecideRetirement(y) ==
    /\ requested[y] > 0
    /\ requested' = [requested EXCEPT ![y] = @ - 1]
    /\ transferred' \in {transferred, [transferred EXCEPT ![y] = @ + 1]}
    /\ UNCHANGED <<method, now, rows, lock, request>>

-----------------------------------------------------------------------------
(* saveCA *)

\* aggregateTransactions, of completed first transfers.
Aggregate(first, last) == FoldSet(LAMBDA y, n : n + transferred[y], 0, first .. last)

\* Mutant of ComputeCaFields: the anchor is not among the elapsed years.
ComputeShort(y, anchor) ==
    IF method = "Averaging"
    THEN [total |-> Aggregate(1, anchor), over |-> anchor - 1]
    ELSE [total |-> Aggregate(y, y), over |-> 1]

\* computeCaFields: the year's own transfers, or those of the period up to the
\* anchor spread over its years.
ComputeCaFields(y, anchor) ==
    IF method = "Averaging"
    THEN [total |-> Aggregate(1, anchor), over |-> anchor]
    ELSE [total |-> Aggregate(y, y), over |-> 1]

\* The row upsertYear writes.
Upserted(y, anchor, submit) ==
    [status |-> IF submit THEN "Submitted" ELSE "Draft",
     total |-> ComputeCaFields(y, anchor).total, over |-> ComputeCaFields(y, anchor).over]

BeginSave(c, y) ==
    \E submit \in BOOLEAN :
        /\ submit => GateOpen(y)
        /\ Begin(c, [Idle EXCEPT !.pc = "year", !.year = y, !.submit = submit])

\* The row of the year is locked (its key, when there is none) and computed.
UpsertYear(c) ==
    LET y == request[c].year IN
    /\ request[c].pc = "year"
    /\ lock[y] = None
    /\ Open(y)
    /\ lock' = [lock EXCEPT ![y] = c]
    /\ Step(c, [request[c] EXCEPT !.pc = "earlier",
                  !.row = Upserted(y, y, request[c].submit),
                  !.todo = IF method = "Averaging" THEN 1 .. y - 1 ELSE {}])
    /\ UNCHANGED <<method, now, requested, transferred, rows>>

\* The rows of a locking query are locked one by one, the oldest first.
LockNext(c) ==
    /\ request[c].pc \in {"earlier", "finalize"}
    /\ request[c].todo # {}
    /\ LET y == Min(request[c].todo) IN
         /\ lock[y] = None
         /\ lock' = [lock EXCEPT ![y] = c]
         /\ Step(c, [request[c] EXCEPT !.todo = @ \ {y}])
    /\ UNCHANGED <<method, now, requested, transferred, rows>>

Unlocked(c) == [y \in Years |-> IF lock[y] = c THEN None ELSE lock[y]]

\* Mutants of Recomputed: each year averages up to itself; filed years too.
RecomputedPerYear(y, anchor, submit) ==
    IF Open(y) THEN Upserted(y, y, submit) ELSE rows[y]
RecomputedAlways(y, anchor, submit) == Upserted(y, anchor, submit)

\* recomputeOpenAveragingYears, for one year: a filed one is left alone.
Recomputed(y, anchor, submit) ==
    IF Open(y) THEN Upserted(y, anchor, submit) ELSE rows[y]

\* Mutant of CommitSave: the locks are kept.
CommitSaveLocked(c) ==
    LET r == request[c] IN
    /\ r.pc = "earlier"
    /\ r.todo = {}
    /\ rows' = [y \in Years |->
                  IF y = r.year THEN r.row
                  ELSE IF method = "Averaging" /\ y < r.year
                       THEN Recomputed(y, r.year, r.submit) ELSE rows[y]]
    /\ Step(c, Idle)
    /\ UNCHANGED <<method, now, requested, transferred, lock>>

CommitSave(c) ==
    LET r == request[c] IN
    /\ r.pc = "earlier"
    /\ r.todo = {}
    /\ rows' = [y \in Years |->
                  IF y = r.year THEN r.row
                  ELSE IF method = "Averaging" /\ y < r.year
                       THEN Recomputed(y, r.year, r.submit) ELSE rows[y]]
    /\ lock' = Unlocked(c)
    /\ Step(c, Idle)
    /\ UNCHANGED <<method, now, requested, transferred>>

-----------------------------------------------------------------------------
(* finalizePeriod *)

BeginFinalize(c) ==
    /\ \E y \in Years : GateOpen(y)
    /\ Begin(c, [Idle EXCEPT !.pc = "finalize",
                             !.todo = {k \in Years : rows[k].status = "Draft"}])

\* The rows it got, if they still are drafts, are submitted as they are.
CommitFinalize(c) ==
    /\ request[c].pc = "finalize"
    /\ request[c].todo = {}
    /\ rows' = [y \in Years |-> IF lock[y] = c /\ rows[y].status = "Draft"
                                THEN [rows[y] EXCEPT !.status = "Submitted"] ELSE rows[y]]
    /\ lock' = Unlocked(c)
    /\ Step(c, Idle)
    /\ UNCHANGED <<method, now, requested, transferred>>

-----------------------------------------------------------------------------
(* Requests without a transaction *)

\* Mutant of BeginSubmit: no gate.
BeginSubmitEarly(c, y) ==
    /\ rows[y].status = "Draft"
    /\ Begin(c, [Idle EXCEPT !.pc = "save", !.year = y,
                             !.row = [rows[y] EXCEPT !.status = "Submitted"]])

BeginSubmit(c, y) ==
    /\ rows[y].status = "Draft"
    /\ GateOpen(y)
    /\ Begin(c, [Idle EXCEPT !.pc = "save", !.year = y,
                             !.row = [rows[y] EXCEPT !.status = "Submitted"]])

BeginApprove(c, y) ==
    /\ rows[y].status = "Submitted"
    /\ Begin(c, [Idle EXCEPT !.pc = "save", !.year = y,
                             !.row = [rows[y] EXCEPT !.status = "Approved"]])

\* update: new remarks for a draft; the rest of the row as it was read.
BeginUpdate(c, y) ==
    /\ rows[y].status = "Draft"
    /\ Begin(c, [Idle EXCEPT !.pc = "save", !.year = y, !.row = rows[y]])

\* Saves the whole row, once no transaction holds it.
SaveRow(c) ==
    /\ request[c].pc = "save"
    /\ lock[request[c].year] = None
    /\ rows' = [rows EXCEPT ![request[c].year] = request[c].row]
    /\ Step(c, Idle)
    /\ UNCHANGED <<method, now, requested, transferred, lock>>

-----------------------------------------------------------------------------
(* Failures *)

\* A year that is filed already, a key that has been taken, a database error.
Fail(c) ==
    /\ request[c] # Idle
    /\ lock' = Unlocked(c)
    /\ Step(c, Idle)
    /\ UNCHANGED <<method, now, requested, transferred, rows>>

Wants(c) ==
    CASE request[c].pc \in {"year", "save"} -> {request[c].year}
      [] request[c].pc \in {"earlier", "finalize"} /\ request[c].todo # {} -> {Min(request[c].todo)}
      [] OTHER -> {}

WaitsFor(c, d) == c # d /\ \E y \in Wants(c) : lock[y] = d

\* The database aborts a transaction of a cycle, and saveCA refuses a filed year.
Refused(c) ==
    /\ \/ \E S \in SUBSET Clients : c \in S /\ \A d \in S : \E e \in S : WaitsFor(d, e)
       \/ request[c].pc = "year" /\ lock[request[c].year] = None /\ ~Open(request[c].year)
    /\ Fail(c)

-----------------------------------------------------------------------------
Proceed(c) ==
    \/ UpsertYear(c) \/ LockNext(c) \/ CommitSave(c) \/ CommitFinalize(c) \/ SaveRow(c)
    \/ Refused(c)

ANext ==
    \/ YearEnds
    \/ RequestRetirement
    \/ \E y \in Years : DecideRetirement(y)
    \/ \E c \in Clients :
         \/ \E y \in Years : BeginSave(c, y) \/ BeginSubmit(c, y) \/ BeginApprove(c, y) \/ BeginUpdate(c, y)
         \/ BeginFinalize(c)
         \/ Proceed(c)
         \/ Fail(c)

\* A request that can go on does: the database runs its statements, hands a lock
\* on when it is free, and breaks cycles.
ASpec == AInit /\ [][ANext]_avars /\ \A c \in Clients : SF_avars(Proceed(c))

-----------------------------------------------------------------------------
ATypeOK ==
    /\ method \in {"Trajectory", "Averaging"}
    /\ now \in 1 .. Length + 1
    /\ requested \in [Years -> 0 .. MaxRequested]
    /\ transferred \in [Years -> 0 .. MaxRequested]
    /\ rows \in [Years -> Row \cup {NoRow}]
    /\ lock \in [Years -> Clients \cup {None}]

\* Under the averaging method nothing is filed before the period is over,
\* whichever of the three ways files it (assertGateOpen).
FiledAfterThePeriod ==
    method = "Averaging" =>
        \A y \in Years : rows[y].status \in {"Submitted", "Approved"} => now > Length

\* A calculation leaves every filed figure as it is: the locks keep the status
\* that it checked.
FiledNotRecalculated ==
    [][\A c \in Clients : CommitSave(c) =>
         \A y \in Years : rows[y].status \in {"Submitted", "Approved"} => rows'[y] = rows[y]]_avars

\* Under the averaging method a calculation leaves every earlier year that was
\* open averaged over the same years, those up to the one reported, and over no
\* less than it.
OneAverage ==
    [][\A c \in Clients : CommitSave(c) /\ method = "Averaging" =>
         \A y \in 1 .. request[c].year : Open(y) =>
            /\ rows'[y].over = request[c].year
            /\ rows'[y].total >= request[c].row.total]_avars

\* Every request ends: a calculation and a finalization that wait for each other,
\* as they lock the rows in different orders, do not wait for ever.
EveryRequestEnds == \A c \in Clients : request[c] # Idle ~> request[c] = Idle
=============================================================================
