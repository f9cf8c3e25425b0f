-------------------- MODULE CorrespondingAdjustmentProofs --------------------
(***************************************************************************)
(* Four properties of CorrespondingAdjustment, for every number of         *)
(* clients, every length of the period and every bound on retirements.     *)
(*                                                                         *)
(* That nothing is filed early needs the requests in progress, who saw the *)
(* gate open and file later: Gated.  That a calculation leaves filed       *)
(* figures alone needs the locks: it checked the year it reports before it *)
(* waited for the earlier ones, and the only other transactions that could *)
(* file that year meanwhile hold the lock of every row they write: Locked. *)
(* For these two the rows and requests need only their Shape, whatever the *)
(* sums are.                                                               *)
(*                                                                         *)
(* That the figures stay in range and that one average is shared needs the *)
(* sums over years.  A fold is taken for the size of a set, which splits   *)
(* at any member and grows with its parts: Total.  Figures bounds what the *)
(* rows and requests carry, and Averaged relates the average that is filed *)
(* to the retirements counted.                                             *)
(***************************************************************************)
EXTENDS CorrespondingAdjustment, FiniteSetTheorems, WellFoundedInduction, TLAPS

HasRow(r) == DOMAIN r = {"status", "total", "over"}

HasRequest(r) ==
    /\ DOMAIN r = {"pc", "year", "submit", "row", "todo"}
    /\ r.pc \in {"idle", "year", "earlier", "finalize", "save"}
    /\ r.year \in Years
    /\ HasRow(r.row)

Shape ==
    /\ method \in {"Trajectory", "Averaging"}
    /\ now \in Nat
    /\ rows = [y \in Years |-> rows[y]]
    /\ \A y \in Years : HasRow(rows[y])
    /\ lock \in [Years -> Clients \cup {None}]
    /\ request = [c \in Clients |-> request[c]]
    /\ \A c \in Clients : HasRequest(request[c])

IsFiled(row) == row.status \in {"Submitted", "Approved"}

\* The requests that will file something saw the period over.
Files(r) ==
    \/ r.pc \in {"year", "earlier"} /\ r.submit
    \/ r.pc = "finalize"
    \/ IsFiled(r.row)

Gated ==
    method = "Averaging" =>
        /\ \A y \in Years : IsFiled(rows[y]) => now > Length
        /\ \A c \in Clients : Files(request[c]) => now > Length

\* A calculation holds the locks it took, and the year it reports stays open.
Holds(c) ==
    LET r == request[c] IN
    r.pc = "earlier" =>
        /\ lock[r.year] = c
        /\ Open(r.year)
        /\ method = "Averaging" => \A y \in 1 .. r.year - 1 : y \in r.todo \/ lock[y] = c

Locked == \A c \in Clients : Holds(c)

-----------------------------------------------------------------------------
(* Shapes *)

LEMMA IdleShape == HasRequest(Idle)
  BY AdjustmentAssumption DEF HasRequest, HasRow, Idle, NoRow, Years

LEMMA UpsertedShape ==
    ASSUME NEW y, NEW anchor, NEW submit
    PROVE  HasRow(Upserted(y, anchor, submit))
  BY DEF HasRow, Upserted

LEMMA StepShape ==
    ASSUME Shape, NEW c \in Clients, NEW r, HasRequest(r), Step(c, r)
    PROVE  /\ request' = [d \in Clients |-> request'[d]]
           /\ \A d \in Clients : HasRequest(request'[d])
           /\ \A d \in Clients : request'[d] = IF d = c THEN r ELSE request[d]
  BY DEF Shape, Step

LEMMA UnlockedShape ==
    ASSUME Shape, NEW c \in Clients
    PROVE  Unlocked(c) \in [Years -> Clients \cup {None}]
  BY DEF Shape, Unlocked

LEMMA InitShape == AInit => Shape
  BY IdleShape, AdjustmentAssumption DEF AInit, Shape, HasRow, NoRow

-----------------------------------------------------------------------------
(* Steps *)

IInv == Shape /\ Gated /\ Locked

LEMMA StepBegin ==
    ASSUME IInv, NEW c \in Clients, NEW r, Begin(c, r), HasRequest(r), r.pc # "earlier",
           method = "Averaging" /\ Files(r) => now > Length
    PROVE  IInv'
  <1>1. \A d \in Clients : request'[d] = IF d = c THEN r ELSE request[d]
    BY StepShape DEF Begin, IInv
  <1>2. Shape'
    BY StepShape DEF Begin, IInv, Shape
  <1>3. Gated'
    BY <1>1 DEF Begin, IInv, Gated
  <1>4. Locked'
    BY <1>1 DEF Begin, IInv, Locked, Holds, Open
  <1> QED BY <1>2, <1>3, <1>4 DEF IInv

LEMMA StepWorld ==
    ASSUME IInv, YearEnds \/ RequestRetirement \/ \E y \in Years : DecideRetirement(y)
    PROVE  IInv'
  <1>1. /\ UNCHANGED <<method, rows, lock, request>>
        /\ now' \in {now, now + 1}
    BY DEF YearEnds, RequestRetirement, DecideRetirement
  <1>2. now \in Nat /\ Length \in Nat
    BY AdjustmentAssumption DEF IInv, Shape
  <1>3. Shape'
    BY <1>1, <1>2 DEF IInv, Shape
  <1>4. Gated'
    BY <1>1, <1>2 DEF IInv, Gated
  <1>5. Locked'
    BY <1>1 DEF IInv, Locked, Holds, Open
  <1> QED BY <1>3, <1>4, <1>5 DEF IInv

\* A request that is about to save a row whole.
Saving(y, row) == [Idle EXCEPT !.pc = "save", !.year = y, !.row = row]

LEMMA SavingShape ==
    ASSUME NEW y \in Years, NEW row, HasRow(row)
    PROVE  HasRequest(Saving(y, row)) /\ Saving(y, row).pc = "save" /\ Saving(y, row).row = row
  BY IdleShape DEF HasRequest, Idle, Saving

LEMMA WithStatus ==
    ASSUME NEW row, HasRow(row), NEW status
    PROVE  HasRow([row EXCEPT !.status = status])
  BY DEF HasRow

LEMMA StepBegins ==
    ASSUME IInv, NEW c \in Clients,
           \/ \E y \in Years : BeginSave(c, y) \/ BeginSubmit(c, y) \/ BeginApprove(c, y) \/ BeginUpdate(c, y)
           \/ BeginFinalize(c)
    PROVE  IInv'
  <1>1. ASSUME NEW y \in Years, BeginSave(c, y)
        PROVE  IInv'
    <2>1. PICK submit \in BOOLEAN :
            /\ submit => GateOpen(y)
            /\ Begin(c, [Idle EXCEPT !.pc = "year", !.year = y, !.submit = submit])
      BY <1>1 DEF BeginSave
    <2> DEFINE r == [Idle EXCEPT !.pc = "year", !.year = y, !.submit = submit]
    <2>2. HasRequest(r) /\ r.pc = "year" /\ r.submit = submit /\ r.row = NoRow
      BY IdleShape DEF HasRequest, Idle
    <2>3. method = "Averaging" /\ Files(r) => now > Length
      BY <2>1, <2>2 DEF Files, IsFiled, NoRow, None, GateOpen
    <2> HIDE DEF r
    <2> QED BY <2>1, <2>2, <2>3, StepBegin DEF r
  <1>2. ASSUME NEW y \in Years, BeginSubmit(c, y) \/ BeginApprove(c, y)
        PROVE  IInv'
    <2>1. PICK status : Begin(c, Saving(y, [rows[y] EXCEPT !.status = status]))
      BY <1>2, ZenonT(60) DEF BeginSubmit, BeginApprove, Saving
    <2>2. method = "Averaging" => now > Length
      BY <1>2 DEF BeginSubmit, BeginApprove, GateOpen, IInv, Gated, IsFiled
    <2>3. HasRow([rows[y] EXCEPT !.status = status])
      BY WithStatus DEF IInv, Shape
    <2> QED BY <2>1, <2>2, <2>3, SavingShape, StepBegin, SMTT(60)
  <1>3. ASSUME NEW y \in Years, BeginUpdate(c, y)
        PROVE  IInv'
    <2>1. Begin(c, Saving(y, rows[y])) /\ ~IsFiled(rows[y])
      BY <1>3 DEF BeginUpdate, Saving, IsFiled
    <2>2. HasRow(rows[y])
      BY DEF IInv, Shape
    <2>3. ~Files(Saving(y, rows[y]))
      BY <2>1, <2>2, SavingShape DEF Files
    <2> QED BY <2>1, <2>2, <2>3, SavingShape, StepBegin
  <1>4. ASSUME BeginFinalize(c)
        PROVE  IInv'
    <2>1. PICK r : /\ Begin(c, r)
                   /\ r = [Idle EXCEPT !.pc = "finalize",
                                       !.todo = {k \in Years : rows[k].status = "Draft"}]
      BY <1>4 DEF BeginFinalize
    <2>2. HasRequest(r) /\ r.pc = "finalize"
      BY <2>1, IdleShape DEF HasRequest, Idle
    <2>3. method = "Averaging" => now > Length
      BY <1>4 DEF BeginFinalize, GateOpen
    <2> QED BY <2>1, <2>2, <2>3, StepBegin
  <1> QED BY <1>1, <1>2, <1>3, <1>4

LEMMA UpsertedFiled ==
    ASSUME NEW y, NEW anchor, NEW submit, IsFiled(Upserted(y, anchor, submit))
    PROVE  submit
  BY DEF IsFiled, Upserted

LEMMA StepUpsert ==
    ASSUME IInv, NEW c \in Clients, UpsertYear(c)
    PROVE  IInv'
  <1> DEFINE y == request[c].year
  <1>1. PICK r : /\ Step(c, r)
                 /\ r = [request[c] EXCEPT !.pc = "earlier",
                           !.row = Upserted(y, y, request[c].submit),
                           !.todo = IF method = "Averaging" THEN 1 .. y - 1 ELSE {}]
    BY DEF UpsertYear
  <1>2. /\ request[c].pc = "year" /\ lock[y] = None /\ Open(y)
        /\ lock' = [lock EXCEPT ![y] = c]
        /\ UNCHANGED <<method, now, rows>>
    BY DEF UpsertYear
  <1>3. y \in Years /\ HasRequest(request[c])
    BY DEF IInv, Shape, HasRequest
  <1>4. /\ HasRequest(r) /\ r.pc = "earlier" /\ r.year = y /\ r.submit = request[c].submit
        /\ r.row = Upserted(y, y, r.submit)
        /\ r.todo = IF method = "Averaging" THEN 1 .. y - 1 ELSE {}
    BY <1>1, <1>3, UpsertedShape DEF HasRequest
  <1>5. \A d \in Clients : request'[d] = IF d = c THEN r ELSE request[d]
    BY <1>1, <1>4, StepShape DEF IInv
  <1>6. lock' \in [Years -> Clients \cup {None}] /\ lock'[y] = c
        /\ \A k \in Years : k # y => lock'[k] = lock[k]
    BY <1>2, <1>3 DEF IInv, Shape
  <1>7. Shape'
    BY <1>1, <1>2, <1>4, <1>6, StepShape DEF IInv, Shape
  <1>8. Gated'
    BY <1>2, <1>4, <1>5, UpsertedFiled DEF IInv, Gated, Files
  <1>9. ASSUME NEW d \in Clients PROVE Holds(d)'
    <2>1. CASE d = c
      BY <1>2, <1>4, <1>5, <1>6, <2>1, ZenonT(60) DEF Holds, Open
    <2>2. CASE d # c
      <3>1. request'[d] = request[d]
        BY <1>5, <2>2
      <3>2. \A k \in Years : lock[k] = d => lock'[k] = d
        BY <1>2, <1>6, ClientAssumption
      <3>3. request[d].year \in Years /\ 1 .. request[d].year - 1 \subseteq Years
        BY AdjustmentAssumption DEF IInv, Shape, HasRequest, Years
      <3> QED BY <1>2, <3>1, <3>2, <3>3 DEF IInv, Locked, Holds, Open
    <2> QED BY <2>1, <2>2
  <1> QED BY <1>7, <1>8, <1>9 DEF IInv, Locked

LEMMA StepLock ==
    ASSUME IInv, NEW c \in Clients, LockNext(c)
    PROVE  IInv'
  <1> DEFINE y == Min(request[c].todo)
  <1>1. PICK r : Step(c, r) /\ r = [request[c] EXCEPT !.todo = request[c].todo \ {y}]
    BY DEF LockNext
  <1>2. /\ lock[y] = None
        /\ lock' = [lock EXCEPT ![y] = c]
        /\ UNCHANGED <<method, now, rows>>
    BY DEF LockNext
  <1>3. HasRequest(request[c])
    BY DEF IInv, Shape
  <1> HIDE DEF y
  <1>4. /\ HasRequest(r) /\ r.pc = request[c].pc /\ r.year = request[c].year
        /\ r.submit = request[c].submit /\ r.row = request[c].row
        /\ r.todo = request[c].todo \ {y}
    BY <1>1, <1>3 DEF HasRequest
  <1>5. \A d \in Clients : request'[d] = IF d = c THEN r ELSE request[d]
    BY <1>1, <1>4, StepShape DEF IInv
  <1>6. lock' \in [Years -> Clients \cup {None}]
        /\ \A k \in Years : lock'[k] = IF k = y THEN c ELSE lock[k]
    BY <1>2 DEF IInv, Shape
  <1>7. Shape'
    BY <1>1, <1>2, <1>4, <1>6, StepShape DEF IInv, Shape
  <1>8. Gated'
    BY <1>2, <1>4, <1>5 DEF IInv, Gated, Files
  <1>9. ASSUME NEW d \in Clients PROVE Holds(d)'
    <2>1. \A k \in Years : lock[k] = d => lock'[k] = d
      BY <1>2, <1>6, ClientAssumption
    <2>2. request[d].year \in Years /\ 1 .. request[d].year - 1 \subseteq Years
      BY AdjustmentAssumption DEF IInv, Shape, HasRequest, Years
    <2>3. CASE d = c
      <3>1. \A k \in Years : k \in request[c].todo => k \in r.todo \/ lock'[k] = c
        BY <1>4, <1>6
      <3> QED BY <1>2, <1>4, <1>5, <2>1, <2>2, <2>3, <3>1 DEF IInv, Locked, Holds, Open
    <2>4. CASE d # c
      BY <1>2, <1>5, <2>1, <2>2, <2>4 DEF IInv, Locked, Holds, Open
    <2> QED BY <2>3, <2>4
  <1> QED BY <1>7, <1>8, <1>9 DEF IInv, Locked

\* A request that ends and may write rows whose lock it holds, or that none holds.
LEMMA StepEnd ==
    ASSUME IInv, NEW c \in Clients, Step(c, Idle), UNCHANGED <<method, now>>,
           lock' \in {lock, Unlocked(c)},
           rows' = [y \in Years |-> rows'[y]],
           \A y \in Years : HasRow(rows'[y]),
           \A y \in Years : rows'[y] # rows[y] => lock[y] \in {c, None},
           method = "Averaging" => \A y \in Years : IsFiled(rows'[y]) => now > Length
    PROVE  IInv'
  <1>1. \A d \in Clients : request'[d] = IF d = c THEN Idle ELSE request[d]
    BY IdleShape, StepShape DEF IInv
  <1>2. lock' \in [Years -> Clients \cup {None}]
    BY UnlockedShape DEF IInv, Shape
  <1>3. Shape'
    BY <1>2, IdleShape, StepShape DEF IInv, Shape
  <1>4. ~Files(Idle)
    BY DEF Files, Idle, NoRow, IsFiled, None
  <1>5. Gated'
    BY <1>1, <1>4 DEF IInv, Gated
  <1>6. ASSUME NEW d \in Clients PROVE Holds(d)'
    <2>1. CASE d = c
      BY <1>1, <2>1 DEF Holds, Idle
    <2>2. CASE d # c
      <3>1. request'[d] = request[d]
        BY <1>1, <2>2
      <3>2. request[d].year \in Years /\ 1 .. request[d].year - 1 \subseteq Years
        BY AdjustmentAssumption DEF IInv, Shape, HasRequest, Years
      <3>3. \A k \in Years : lock[k] = d => lock'[k] = d /\ rows'[k] = rows[k]
        BY <2>2, ClientAssumption DEF Unlocked
      <3> QED BY <3>1, <3>2, <3>3 DEF IInv, Locked, Holds, Open
    <2> QED BY <2>1, <2>2
  <1> QED BY <1>3, <1>5, <1>6 DEF IInv, Locked

LEMMA StepCommitSave ==
    ASSUME IInv, NEW c \in Clients, CommitSave(c)
    PROVE  IInv'
  <1> DEFINE r == request[c]
  <1>1. /\ r.pc = "earlier" /\ r.todo = {}
        /\ rows' = [y \in Years |->
                      IF y = r.year THEN r.row
                      ELSE IF method = "Averaging" /\ y < r.year
                           THEN Recomputed(y, r.year, r.submit) ELSE rows[y]]
        /\ lock' = Unlocked(c) /\ Step(c, Idle) /\ UNCHANGED <<method, now>>
    BY DEF CommitSave
  <1>2. HasRequest(r) /\ r.year \in Years /\ HasRow(r.row) /\ Length \in Nat
    BY AdjustmentAssumption DEF IInv, Shape, HasRequest
  <1>3. /\ lock[r.year] = c
        /\ method = "Averaging" => \A y \in 1 .. r.year - 1 : lock[y] = c
    BY <1>1 DEF IInv, Locked, Holds
  <1> HIDE DEF r
  <1>4. ASSUME NEW y \in Years
        PROVE  /\ HasRow(rows'[y])
               /\ rows'[y] # rows[y] => lock[y] \in {c, None}
               /\ method = "Averaging" /\ IsFiled(rows'[y]) => now > Length
    <2>1. CASE y = r.year
      <3>1. rows'[y] = r.row
        BY <1>1, <2>1
      <3>2. method = "Averaging" /\ IsFiled(r.row) => now > Length
        BY DEF IInv, Gated, Files, r
      <3> QED BY <1>2, <1>3, <2>1, <3>1, <3>2
    <2>2. CASE y # r.year /\ method = "Averaging" /\ y < r.year
      <3>1. rows'[y] = Recomputed(y, r.year, r.submit)
        BY <1>1, <2>2
      <3>2. y \in 1 .. r.year - 1
        BY <1>2, <2>2 DEF Years
      <3>3. r.submit => now > Length
        BY <1>1, <2>2 DEF IInv, Gated, Files, r
      <3>4. HasRow(rows[y]) /\ (IsFiled(rows[y]) => now > Length)
        BY <2>2 DEF IInv, Shape, Gated
      <3> QED BY <1>3, <2>2, <3>1, <3>2, <3>3, <3>4, UpsertedShape, UpsertedFiled DEF Recomputed
    <2>3. CASE y # r.year /\ ~(method = "Averaging" /\ y < r.year)
      <3>1. rows'[y] = rows[y]
        BY <1>1, <2>3
      <3> QED BY <3>1 DEF IInv, Shape, Gated
    <2> QED BY <2>1, <2>2, <2>3
  <1>5. rows' = [y \in Years |-> rows'[y]]
    BY <1>1
  <1> QED BY <1>1, <1>4, <1>5, StepEnd

LEMMA StepCommitFinalize ==
    ASSUME IInv, NEW c \in Clients, CommitFinalize(c)
    PROVE  IInv'
  <1>1. /\ request[c].pc = "finalize"
        /\ rows' = [y \in Years |-> IF lock[y] = c /\ rows[y].status = "Draft"
                                    THEN [rows[y] EXCEPT !.status = "Submitted"] ELSE rows[y]]
        /\ lock' = Unlocked(c) /\ Step(c, Idle) /\ UNCHANGED <<method, now>>
    BY DEF CommitFinalize
  <1>2. method = "Averaging" => now > Length
    BY <1>1 DEF IInv, Gated, Files
  <1>3. ASSUME NEW y \in Years
        PROVE  HasRow(rows'[y]) /\ (rows'[y] # rows[y] => lock[y] \in {c, None})
    BY <1>1, WithStatus DEF IInv, Shape
  <1>4. rows' = [y \in Years |-> rows'[y]]
    BY <1>1
  <1> QED BY <1>1, <1>2, <1>3, <1>4, StepEnd

LEMMA StepSaveRow ==
    ASSUME IInv, NEW c \in Clients, SaveRow(c)
    PROVE  IInv'
  <1> DEFINE r == request[c]
  <1>1. /\ lock[r.year] = None /\ rows' = [rows EXCEPT ![r.year] = r.row]
        /\ lock' = lock /\ Step(c, Idle) /\ UNCHANGED <<method, now>>
    BY DEF SaveRow
  <1>2. r.year \in Years /\ HasRow(r.row)
        /\ (method = "Averaging" /\ IsFiled(r.row) => now > Length)
    BY DEF IInv, Shape, HasRequest, Gated, Files
  <1>3. rows = [y \in Years |-> rows[y]] /\ \A y \in Years : HasRow(rows[y])
    BY DEF IInv, Shape
  <1> HIDE DEF r
  <1>4. \A y \in Years : rows'[y] = IF y = r.year THEN r.row ELSE rows[y]
    BY <1>1, <1>2, <1>3
  <1>5. rows' = [y \in Years |-> rows'[y]]
    BY <1>1, <1>3
  <1>6. method = "Averaging" => \A y \in Years : IsFiled(rows'[y]) => now > Length
    BY <1>2, <1>4 DEF IInv, Gated
  <1> QED BY <1>1, <1>2, <1>3, <1>4, <1>5, <1>6, StepEnd

LEMMA StepFail ==
    ASSUME IInv, NEW c \in Clients, Fail(c)
    PROVE  IInv'
  <1>1. lock' = Unlocked(c) /\ Step(c, Idle) /\ UNCHANGED <<method, now, rows>>
    BY DEF Fail
  <1>2. /\ rows' = [y \in Years |-> rows'[y]]
        /\ \A y \in Years : HasRow(rows'[y])
        /\ method = "Averaging" => \A y \in Years : IsFiled(rows'[y]) => now > Length
    BY <1>1 DEF IInv, Shape, Gated
  <1> QED BY <1>1, <1>2, StepEnd

-----------------------------------------------------------------------------
LEMMA Initially == AInit => IInv
  <1> SUFFICES ASSUME AInit PROVE IInv
    OBVIOUS
  <1>1. Gated
    BY DEF AInit, Gated, IsFiled, Files, Idle, NoRow, None
  <1>2. Locked
    BY DEF AInit, Locked, Holds, Idle
  <1> QED BY <1>1, <1>2, InitShape DEF IInv

LEMMA Inductive == IInv /\ [ANext]_avars => IInv'
  <1> SUFFICES ASSUME IInv, [ANext]_avars PROVE IInv'
    OBVIOUS
  <1>1. CASE UNCHANGED avars
    BY <1>1 DEF avars, IInv, Shape, Gated, Locked, Holds, Open
  <1>2. CASE YearEnds \/ RequestRetirement \/ \E y \in Years : DecideRetirement(y)
    BY <1>2, StepWorld
  <1>3. ASSUME NEW c \in Clients,
               \/ \E y \in Years : BeginSave(c, y) \/ BeginSubmit(c, y) \/ BeginApprove(c, y) \/ BeginUpdate(c, y)
               \/ BeginFinalize(c)
        PROVE  IInv'
    BY <1>3, StepBegins
  <1>4. ASSUME NEW c \in Clients, Proceed(c) \/ Fail(c)
        PROVE  IInv'
    BY <1>4, StepUpsert, StepLock, StepCommitSave, StepCommitFinalize, StepSaveRow, StepFail
       DEF Proceed, Refused
  <1> QED BY <1>1, <1>2, <1>3, <1>4 DEF ANext

LEMMA Always == ASpec => []IInv
  BY Initially, Inductive, PTL DEF ASpec

\* Under the averaging method nothing is filed before the period is over, for
\* every number of clients and years: assertGateOpen is asked long before the row
\* is written, but a period that is over stays over.
THEOREM NothingFiledEarly == ASpec => []FiledAfterThePeriod
  <1>1. IInv => FiledAfterThePeriod
    BY DEF IInv, Gated, FiledAfterThePeriod, IsFiled
  <1> QED BY <1>1, Always, PTL

\* No calculation changes a filed figure, for every number of clients and years:
\* the year it reports is locked from the check of its status to the commit.
THEOREM FiledIsFinal == ASpec => FiledNotRecalculated
  <1> DEFINE Kept == \A c \in Clients : CommitSave(c) =>
                        \A y \in Years : rows[y].status \in {"Submitted", "Approved"} => rows'[y] = rows[y]
  <1>1. ASSUME IInv, NEW c \in Clients, CommitSave(c),
               NEW y \in Years, rows[y].status \in {"Submitted", "Approved"}
        PROVE  rows'[y] = rows[y]
    <2>1. ~Open(y)
      BY <1>1 DEF Open, None
    <2>2. Open(request[c].year)
      BY <1>1 DEF CommitSave, IInv, Locked, Holds
    <2> QED BY <1>1, <2>1, <2>2 DEF CommitSave, Recomputed
  <1>2. IInv => Kept
    BY <1>1
  <1>3. ASpec => [][Kept]_avars
    BY <1>2, Always, PTL
  <1> QED BY <1>3 DEF FiledNotRecalculated

-----------------------------------------------------------------------------
(* Sums over finite sets *)

LEMMA SmallestSubset ==
    ASSUME NEW S, IsFiniteSet(S), NEW B \in SUBSET (SUBSET S), B # {}
    PROVE  \E s \in B : \A t \in B : t \subseteq s => t = s
  <1> DEFINE R == StrictSubsetOrdering(S)
             U == FiniteSubsetsOf(S)
  <1>1. IsWellFoundedOn(R, U)
    BY FS_StrictSubsetOrderingWellFounded
  <1>2. B \subseteq U
    BY FS_FiniteSubsetsOfFinite
  <1>3. \A s, t \in B : t \subseteq s /\ t # s => <<t, s>> \in R
    BY DEF StrictSubsetOrdering
  <1>4. \E s \in B : \A t \in B : <<t, s>> \notin R
    <2> HIDE DEF R, U
    <2> QED BY <1>1, <1>2, WFMin
  <1> QED BY <1>3, <1>4

\* The sum of w over s, as the size of a set with w[x] members for each x.
Units(w, s) == {p \in s \X Nat : p[2] \in 1 .. w[p[1]]}
Total(w, s) == Cardinality(Units(w, s))

LEMMA UnitsOfOne ==
    ASSUME NEW x, NEW n \in Nat
    PROVE  IsFiniteSet({x} \X (1 .. n)) /\ Cardinality({x} \X (1 .. n)) = n
  <1>1. IsFiniteSet({x}) /\ Cardinality({x}) = 1
    BY FS_Singleton
  <1>2. IsFiniteSet(1 .. n) /\ Cardinality(1 .. n) = n
    BY FS_Interval
  <1>3. /\ IsFiniteSet({x} \X (1 .. n))
        /\ Cardinality({x} \X (1 .. n)) = Cardinality({x}) * Cardinality(1 .. n)
    BY <1>1, <1>2, FS_Product
  <1>4. 1 * n = n
    OBVIOUS
  <1> QED BY <1>1, <1>2, <1>3, <1>4

LEMMA UnitsSplit ==
    ASSUME NEW S, NEW w \in [S -> Nat], NEW s \in SUBSET S, NEW x \in s
    PROVE  /\ Units(w, s) = Units(w, s \ {x}) \cup ({x} \X (1 .. w[x]))
           /\ Units(w, s \ {x}) \cap ({x} \X (1 .. w[x])) = {}
  BY DEF Units

LEMMA UnionIsFinite ==
    ASSUME NEW A, IsFiniteSet(A), NEW C, IsFiniteSet(C)
    PROVE  IsFiniteSet(A \cup C)
  BY FS_Union

LEMMA UnitsFinite ==
    ASSUME NEW S, IsFiniteSet(S), NEW w \in [S -> Nat], NEW s \in SUBSET S
    PROVE  IsFiniteSet(Units(w, s))
  <1> DEFINE B == {t \in SUBSET S : ~IsFiniteSet(Units(w, t))}
  <1> SUFFICES ASSUME B # {} PROVE FALSE
    OBVIOUS
  <1>1. PICK t \in B : \A u \in B : u \subseteq t => u = t
    <2> HIDE DEF B
    <2>1. B \in SUBSET (SUBSET S)
      BY DEF B
    <2> QED BY <2>1, SmallestSubset
  <1>2. CASE t = {}
    <2>1. Units(w, t) = {}
      BY <1>2 DEF Units
    <2> QED BY <2>1, FS_EmptySet
  <1>3. CASE t # {}
    <2> PICK x \in t : TRUE
      BY <1>3
    <2>1. IsFiniteSet(Units(w, t \ {x}))
      BY <1>1
    <2>2. w[x] \in Nat
      OBVIOUS
    <2> DEFINE A == Units(w, t \ {x})
               C == {x} \X (1 .. w[x])
    <2>3. IsFiniteSet(C)
      BY <2>2, UnitsOfOne
    <2>4. Units(w, t) = A \cup C
      <3> HIDE DEF B
      <3>1. t \in SUBSET S
        BY DEF B
      <3> QED BY <3>1, UnitsSplit
    <2>5. IsFiniteSet(A)
      BY <2>1
    <2>6. IsFiniteSet(A \cup C)
      <3> HIDE DEF A, B, C
      <3> QED BY <2>3, <2>5, UnionIsFinite
    <2>7. IsFiniteSet(Units(w, t))
      <3> HIDE DEF A, B, C
      <3> QED BY <2>4, <2>6
    <2> HIDE DEF A, C
    <2> QED BY <2>7
  <1> QED BY <1>2, <1>3

LEMMA TotalIsNat ==
    ASSUME NEW S, IsFiniteSet(S), NEW w \in [S -> Nat], NEW s \in SUBSET S
    PROVE  Total(w, s) \in Nat
  BY UnitsFinite, FS_CardinalityType DEF Total

LEMMA TotalOfNone ==
    ASSUME NEW w
    PROVE  Total(w, {}) = 0
  <1>1. Units(w, {}) = {}
    BY DEF Units
  <1> QED BY <1>1, FS_EmptySet DEF Total

\* Whichever member is taken first.
LEMMA TotalSplits ==
    ASSUME NEW S, IsFiniteSet(S), NEW w \in [S -> Nat], NEW s \in SUBSET S, NEW x \in s
    PROVE  Total(w, s) = Total(w, s \ {x}) + w[x]
  <1> DEFINE A == Units(w, s \ {x})
             C == {x} \X (1 .. w[x])
  <1>1. w[x] \in Nat
    OBVIOUS
  <1>2. IsFiniteSet(A) /\ Cardinality(A) \in Nat
    BY UnitsFinite, FS_CardinalityType
  <1>3. IsFiniteSet(C) /\ Cardinality(C) = w[x]
    BY <1>1, UnitsOfOne
  <1>4. Units(w, s) = A \cup C /\ A \cap C = {}
    BY UnitsSplit
  <1> HIDE DEF A, C
  <1>5. Cardinality(A \cap C) = 0
    BY <1>4, FS_EmptySet
  <1>6. Cardinality(A \cup C) = Cardinality(A) + Cardinality(C) - Cardinality(A \cap C)
    BY <1>2, <1>3, FS_Union
  <1>7. Total(w, s) = Cardinality(A) + w[x]
    BY <1>1, <1>2, <1>3, <1>4, <1>5, <1>6 DEF Total
  <1> QED BY <1>7 DEF A, Total

\* Over more members, or of more of each, it is no less.
LEMMA TotalGrows ==
    ASSUME NEW S, IsFiniteSet(S), NEW w \in [S -> Nat], NEW v \in [S -> Nat],
           NEW t \in SUBSET S, NEW s \in SUBSET t, \A x \in s : w[x] <= v[x]
    PROVE  Total(w, s) <= Total(v, t)
  <1>1. IsFiniteSet(Units(v, t))
    BY UnitsFinite
  <1>2. Units(w, s) \subseteq Units(v, t)
    BY DEF Units
  <1> QED BY <1>1, <1>2, FS_Subset DEF Total

Pick(s) == CHOOSE x \in s : TRUE

\* What FoldSet computes is this sum, whatever CHOOSE takes first.
LEMMA FoldIsTotal ==
    ASSUME NEW S, IsFiniteSet(S), NEW w \in [S -> Nat], NEW T \in SUBSET S, NEW F,
           \A s \in SUBSET T :
              /\ s = {} => F[s] = 0
              /\ s # {} /\ F[s \ {Pick(s)}] \in Nat => F[s] = F[s \ {Pick(s)}] + w[Pick(s)]
    PROVE  F[T] = Total(w, T)
  <1> DEFINE B == {s \in SUBSET T : F[s] # Total(w, s)}
  <1> SUFFICES ASSUME B # {} PROVE FALSE
    OBVIOUS
  <1>1. PICK s \in B : \A u \in B : u \subseteq s => u = s
    <2> HIDE DEF B
    <2>1. B \in SUBSET (SUBSET S)
      BY DEF B
    <2> QED BY <2>1, SmallestSubset
  <1>2. CASE s = {}
    BY <1>2, TotalOfNone
  <1>3. CASE s # {}
    <2> DEFINE x == Pick(s)
    <2>1. x \in s
      BY <1>3 DEF Pick
    <2> HIDE DEF x
    <2>2. F[s \ {x}] = Total(w, s \ {x})
      BY <1>1, <2>1
    <2>3. Total(w, s \ {x}) \in Nat
      BY TotalIsNat
    <2>4. F[s] = F[s \ {x}] + w[x]
      BY <1>3, <2>2, <2>3 DEF x
    <2>5. Total(w, s) = Total(w, s \ {x}) + w[x]
      BY <2>1, TotalSplits
    <2>6. F[s] = Total(w, s)
      BY <2>2, <2>4, <2>5
    <2> QED BY <2>6
  <1> QED BY <1>2, <1>3

LEMMA TotalFolds ==
    ASSUME NEW S, IsFiniteSet(S), NEW w \in [S -> Nat]
    PROVE  \A s \in SUBSET S :
              /\ Total(w, s) \in Nat
              /\ Total(w, s) = IF s = {} THEN 0 ELSE Total(w, s \ {Pick(s)}) + w[Pick(s)]
  <1> TAKE s \in SUBSET S
  <1>1. CASE s = {}
    BY <1>1, TotalOfNone
  <1>2. CASE s # {}
    <2>1. Pick(s) \in s
      BY <1>2 DEF Pick
    <2> QED BY <1>2, <2>1, TotalIsNat, TotalSplits
  <1> QED BY <1>1, <1>2

-----------------------------------------------------------------------------
(* The figures *)

\* The retirements of each year that count, or may yet.
Counted == [y \in Years |-> requested[y] + transferred[y]]

Figure == Row \cup {NoRow}

Figures ==
    /\ now \in 1 .. Length + 1
    /\ requested \in [Years -> Nat] /\ transferred \in [Years -> Nat]
    /\ Total(Counted, Years) <= MaxRequested
    /\ rows \in [Years -> Figure]
    /\ \A c \in Clients : request[c].row \in Figure

\* What a calculation holds for its year was right when it was computed, and
\* transfers only become more.
Averaged ==
    \A c \in Clients : request[c].pc = "earlier" /\ method = "Averaging" =>
        /\ request[c].row.over = request[c].year
        /\ request[c].row.total <= Total(transferred, 1 .. request[c].year)

FInv == IInv /\ Figures /\ Averaged

LEMMA YearsFinite == IsFiniteSet(Years) /\ Length \in Nat \ {0}
  BY FS_Interval, AdjustmentAssumption DEF Years

LEMMA CountedIs ==
    ASSUME Figures
    PROVE  /\ Counted \in [Years -> Nat]
           /\ \A y \in Years : Counted[y] = requested[y] + transferred[y]
  BY DEF Figures, Counted

Transferred(F, S) ==
    F = [s \in SUBSET S |-> IF s = {} THEN 0 ELSE F[s \ {Pick(s)}] + transferred[Pick(s)]]

LEMMA AggregateIs ==
    ASSUME transferred \in [Years -> Nat], NEW first, NEW last, first .. last \subseteq Years
    PROVE  Aggregate(first, last) = Total(transferred, first .. last)
  <1> DEFINE S == first .. last
             F == CHOOSE F : Transferred(F, S)
             G == [s \in SUBSET S |-> Total(transferred, s)]
  <1>1. Aggregate(first, last) = F[S]
    BY DEF Aggregate, FoldSet, MapThenFoldSet, Transferred, Pick
  <1>2. S \in SUBSET Years
    OBVIOUS
  <1> HIDE DEF S
  <1>3. \A s \in SUBSET S : G[s] = IF s = {} THEN 0 ELSE G[s \ {Pick(s)}] + transferred[Pick(s)]
    <2>1. \A s \in SUBSET S : s \in SUBSET Years /\ s \ {Pick(s)} \in SUBSET S
      BY <1>2
    <2> QED BY <2>1, YearsFinite, TotalFolds
  <1>4. Transferred(G, S)
    BY <1>3 DEF Transferred
  <1>5. Transferred(F, S)
    <2> HIDE DEF G
    <2> QED BY <1>4
  <1> HIDE DEF F
  <1>6. \A s \in SUBSET S : F[s] = IF s = {} THEN 0 ELSE F[s \ {Pick(s)}] + transferred[Pick(s)]
    BY <1>5 DEF Transferred
  <1> QED BY <1>1, <1>2, <1>6, YearsFinite, FoldIsTotal DEF S

AllOf(F) ==
    F = [s \in SUBSET Years |->
           IF s = {} THEN 0 ELSE F[s \ {Pick(s)}] + requested[Pick(s)] + transferred[Pick(s)]]

LEMMA AllRequestedIs ==
    ASSUME Figures
    PROVE  FoldSet(LAMBDA y, n : n + requested[y] + transferred[y], 0, Years) = Total(Counted, Years)
  <1> DEFINE F == CHOOSE F : AllOf(F)
             G == [s \in SUBSET Years |-> Total(Counted, s)]
  <1>1. FoldSet(LAMBDA y, n : n + requested[y] + transferred[y], 0, Years) = F[Years]
    BY DEF FoldSet, MapThenFoldSet, AllOf, Pick
  <1>2. \A s \in SUBSET Years : s # {} => Pick(s) \in Years
    BY DEF Pick
  <1>3. requested \in [Years -> Nat] /\ transferred \in [Years -> Nat]
    BY DEF Figures
  <1>4. \A s \in SUBSET Years :
            G[s] = IF s = {} THEN 0
                   ELSE G[s \ {Pick(s)}] + requested[Pick(s)] + transferred[Pick(s)]
    <2> TAKE s \in SUBSET Years
    <2>1. Total(Counted, s) = IF s = {} THEN 0 ELSE Total(Counted, s \ {Pick(s)}) + Counted[Pick(s)]
      BY YearsFinite, CountedIs, TotalFolds
    <2>2. Total(Counted, s \ {Pick(s)}) \in Nat
      BY YearsFinite, CountedIs, TotalIsNat
    <2>3. s # {} => Counted[Pick(s)] = requested[Pick(s)] + transferred[Pick(s)]
      BY <1>2, CountedIs
    <2>4. s \ {Pick(s)} \in SUBSET Years
      OBVIOUS
    <2> QED BY <1>2, <1>3, <2>1, <2>2, <2>3, <2>4
  <1>5. AllOf(G)
    BY <1>4 DEF AllOf
  <1>6. AllOf(F)
    <2> HIDE DEF G
    <2> QED BY <1>5
  <1> HIDE DEF F
  <1>7. ASSUME NEW s \in SUBSET Years
        PROVE  /\ s = {} => F[s] = 0
               /\ s # {} /\ F[s \ {Pick(s)}] \in Nat => F[s] = F[s \ {Pick(s)}] + Counted[Pick(s)]
    <2>1. F[s] = IF s = {} THEN 0
                 ELSE F[s \ {Pick(s)}] + requested[Pick(s)] + transferred[Pick(s)]
      BY <1>6 DEF AllOf
    <2> QED BY <1>2, <1>3, <2>1, CountedIs
  <1>8. Counted \in [Years -> Nat] /\ Years \in SUBSET Years
    BY CountedIs
  <1> QED BY <1>1, <1>7, <1>8, YearsFinite, FoldIsTotal, ZenonT(60)

LEMMA CountedNext ==
    ASSUME requested' \in [Years -> Nat], transferred' \in [Years -> Nat]
    PROVE  /\ Counted' \in [Years -> Nat]
           /\ \A y \in Years : Counted'[y] = requested'[y] + transferred'[y]
  BY DEF Counted

\* The steps of the world: retirements are requested and decided, years end.
LEMMA WorldFigures ==
    ASSUME FInv, YearEnds \/ RequestRetirement \/ \E y \in Years : DecideRetirement(y)
    PROVE  Figures' /\ Averaged'
  <1>1. UNCHANGED <<method, rows, request>>
    BY DEF YearEnds, RequestRetirement, DecideRetirement
  <1>2. now \in 1 .. Length + 1 /\ requested \in [Years -> Nat] /\ transferred \in [Years -> Nat]
        /\ Length \in Nat
    BY YearsFinite DEF FInv, Figures
  <1>3. now' \in 1 .. Length + 1
    <2>1. YearEnds => now <= Length /\ now' = now + 1
      BY DEF YearEnds
    <2>2. RequestRetirement => now' = now
      BY DEF RequestRetirement
    <2>3. (\E y \in Years : DecideRetirement(y)) => now' = now
      BY DEF DecideRetirement
    <2> QED BY <1>2, <2>1, <2>2, <2>3
  <1>4. /\ requested' \in [Years -> Nat] /\ transferred' \in [Years -> Nat]
        /\ \A y \in Years : transferred[y] <= transferred'[y]
        /\ Total(Counted', Years) <= MaxRequested
    <2>1. CASE YearEnds
      <3>1. requested' = requested /\ transferred' = transferred
        BY <2>1 DEF YearEnds
      <3>2. Counted' = Counted
        BY <3>1 DEF Counted
      <3> QED BY <1>2, <3>1, <3>2 DEF FInv, Figures
    <2>2. CASE RequestRetirement
      <3>1. /\ now \in Years /\ requested' = [requested EXCEPT ![now] = @ + 1]
            /\ transferred' = transferred
        BY <2>2 DEF RequestRetirement
      <3>2. Total(Counted, Years) < MaxRequested
        BY <2>2, AllRequestedIs DEF FInv, RequestRetirement
      <3>3. requested' \in [Years -> Nat] /\ requested'[now] = requested[now] + 1
            /\ \A y \in Years : y # now => requested'[y] = requested[y]
        BY <1>2, <3>1
      <3> PICK w : w = Counted
        OBVIOUS
      <3> PICK v : v = Counted'
        OBVIOUS
      <3>4. /\ w \in [Years -> Nat] /\ v \in [Years -> Nat]
            /\ v[now] = w[now] + 1 /\ \A y \in Years : y # now => v[y] = w[y]
        <4>1. w \in [Years -> Nat] /\ \A y \in Years : w[y] = requested[y] + transferred[y]
          BY CountedIs DEF FInv
        <4>2. v \in [Years -> Nat] /\ \A y \in Years : v[y] = requested'[y] + transferred[y]
          BY <1>2, <3>1, <3>3, CountedNext
        <4> QED BY <1>2, <3>1, <3>3, <4>1, <4>2
      <3> DEFINE s == Years \ {now}
      <3>5. Total(w, Years) = Total(w, s) + w[now] /\ Total(v, Years) = Total(v, s) + v[now]
        BY <3>1, <3>4, YearsFinite, TotalSplits
      <3>6. Total(v, s) <= Total(w, s)
        BY <3>4, YearsFinite, TotalGrows
      <3>7. Total(v, s) \in Nat /\ Total(w, s) \in Nat /\ w[now] \in Nat /\ MaxRequested \in Nat
        BY <3>1, <3>4, YearsFinite, TotalIsNat, AdjustmentAssumption
      <3>8. Total(v, Years) <= MaxRequested
        BY <3>2, <3>4, <3>5, <3>6, <3>7
      <3> QED BY <1>2, <3>1, <3>3, <3>8
    <2>3. ASSUME NEW y \in Years, DecideRetirement(y)
          PROVE  /\ requested' \in [Years -> Nat] /\ transferred' \in [Years -> Nat]
                 /\ \A k \in Years : transferred[k] <= transferred'[k]
                 /\ Total(Counted', Years) <= MaxRequested
      <3>1. /\ requested[y] > 0 /\ requested' = [requested EXCEPT ![y] = @ - 1]
            /\ transferred' \in {transferred, [transferred EXCEPT ![y] = @ + 1]}
        BY <2>3 DEF DecideRetirement
      <3>2. requested' \in [Years -> Nat] /\ transferred' \in [Years -> Nat]
        BY <1>2, <3>1
      <3>3. \A k \in Years : /\ transferred[k] <= transferred'[k]
                             /\ requested'[k] + transferred'[k] <= requested[k] + transferred[k]
        BY <1>2, <3>1
      <3> PICK w : w = Counted
        OBVIOUS
      <3> PICK v : v = Counted'
        OBVIOUS
      <3>4. /\ w \in [Years -> Nat] /\ v \in [Years -> Nat] /\ \A k \in Years : v[k] <= w[k]
        BY <3>2, <3>3, CountedIs, CountedNext DEF FInv
      <3>5. Total(v, Years) <= Total(w, Years)
        BY <3>4, YearsFinite, TotalGrows
      <3>6. Total(v, Years) \in Nat /\ Total(w, Years) \in Nat /\ Total(w, Years) <= MaxRequested
        BY <3>4, YearsFinite, TotalIsNat DEF FInv, Figures
      <3> QED BY <3>2, <3>3, <3>5, <3>6, AdjustmentAssumption
    <2> QED BY <2>1, <2>2, <2>3
  <1>5. Figures'
    BY <1>1, <1>3, <1>4 DEF FInv, Figures
  <1>6. Averaged'
    <2> SUFFICES ASSUME NEW c \in Clients, request[c].pc = "earlier", method = "Averaging"
                 PROVE  /\ request[c].row.over = request[c].year
                        /\ request[c].row.total <= Total(transferred', 1 .. request[c].year)
      BY <1>1 DEF Averaged
    <2> DEFINE S == 1 .. request[c].year
    <2>1. S \in SUBSET Years
      BY <1>2 DEF FInv, IInv, Shape, HasRequest, Years
    <2>2. request[c].row.over = request[c].year /\ request[c].row.total <= Total(transferred, S)
      BY DEF FInv, Averaged
    <2>3. request[c].row.total \in Nat
      BY AdjustmentAssumption DEF FInv, Figures, Figure, Row, NoRow
    <2> HIDE DEF S
    <2> PICK v : v = transferred'
      OBVIOUS
    <2>4. Total(transferred, S) <= Total(v, S)
      BY <1>2, <1>4, <2>1, YearsFinite, TotalGrows
    <2>5. Total(transferred, S) \in Nat /\ Total(v, S) \in Nat
      BY <1>2, <1>4, <2>1, YearsFinite, TotalIsNat
    <2> QED BY <2>2, <2>3, <2>4, <2>5 DEF S
  <1> QED BY <1>5, <1>6

\* What a calculation derives from the transfers there are.
LEMMA UpsertedFigure ==
    ASSUME Figures, method \in {"Trajectory", "Averaging"}, NEW y \in Years, NEW anchor \in Years,
           NEW submit
    PROVE  /\ Upserted(y, anchor, submit) \in Row
           /\ method = "Averaging" => /\ Upserted(y, anchor, submit).over = anchor
                                      /\ Upserted(y, anchor, submit).total = Total(transferred, 1 .. anchor)
  <1>1. /\ 1 .. anchor \in SUBSET Years /\ y .. y \in SUBSET Years /\ 1 \in Years
        /\ transferred \in [Years -> Nat] /\ requested \in [Years -> Nat]
    BY YearsFinite DEF Years, Figures
  <1>2. ASSUME NEW s \in SUBSET Years PROVE Total(transferred, s) \in 0 .. MaxRequested
    <2>1. \A k \in s : transferred[k] <= Counted[k]
      BY <1>1, CountedIs
    <2>2. Total(transferred, s) <= Total(Counted, Years)
      BY <1>1, <2>1, CountedIs, YearsFinite, TotalGrows
    <2>3. Total(transferred, s) \in Nat /\ Total(Counted, Years) \in Nat
      BY <1>1, CountedIs, YearsFinite, TotalIsNat
    <2> QED BY <2>2, <2>3, AdjustmentAssumption DEF Figures
  <1>3. /\ Aggregate(1, anchor) = Total(transferred, 1 .. anchor)
        /\ Aggregate(y, y) = Total(transferred, y .. y)
    BY <1>1, AggregateIs
  <1>4. /\ Aggregate(1, anchor) \in 0 .. MaxRequested /\ Aggregate(y, y) \in 0 .. MaxRequested
    BY <1>1, <1>2, <1>3
  <1> QED BY <1>1, <1>3, <1>4 DEF Upserted, ComputeCaFields, Row

LEMMA Relabelled ==
    ASSUME NEW row \in Figure, row.status # None, NEW status \in {"Draft", "Submitted", "Approved"}
    PROVE  [row EXCEPT !.status = status] \in Row
  BY DEF Figure, Row, NoRow

\* A step that leaves the world as it is.
LEMMA RestFigures ==
    ASSUME FInv, UNCHANGED <<method, now, requested, transferred>>,
           rows' = [y \in Years |-> rows'[y]], \A y \in Years : rows'[y] \in Figure,
           NEW c \in Clients, NEW r, HasRequest(r), Step(c, r), r.row \in Figure,
           r.pc = "earlier" /\ method = "Averaging" =>
              r.row.over = r.year /\ r.row.total <= Total(transferred, 1 .. r.year)
    PROVE  Figures' /\ Averaged'
  <1>1. \A d \in Clients : request'[d] = IF d = c THEN r ELSE request[d]
    BY StepShape DEF FInv, IInv
  <1>2. Counted' = Counted
    BY DEF Counted
  <1>3. Figures'
    BY <1>1, <1>2 DEF FInv, Figures
  <1>4. Averaged'
    BY <1>1 DEF FInv, Averaged
  <1> QED BY <1>3, <1>4

LEMMA IdleFigure == Idle.row = NoRow /\ NoRow \in Figure /\ Idle.pc = "idle"
  BY DEF Idle, Figure

LEMMA BeginsFigures ==
    ASSUME FInv, NEW c \in Clients,
           \/ \E y \in Years : BeginSave(c, y) \/ BeginSubmit(c, y) \/ BeginApprove(c, y) \/ BeginUpdate(c, y)
           \/ BeginFinalize(c)
    PROVE  Figures' /\ Averaged'
  <1>1. ASSUME NEW r, Begin(c, r), HasRequest(r), r.pc # "earlier", r.row \in Figure
        PROVE  Figures' /\ Averaged'
    <2>1. rows' = [y \in Years |-> rows'[y]] /\ \A y \in Years : rows'[y] \in Figure
      BY <1>1 DEF Begin, FInv, Figures
    <2> QED BY <1>1, <2>1, RestFigures DEF Begin
  <1>2. ASSUME NEW y \in Years, BeginSave(c, y)
        PROVE  Figures' /\ Averaged'
    <2> PICK submit \in BOOLEAN : Begin(c, [Idle EXCEPT !.pc = "year", !.year = y, !.submit = submit])
      BY <1>2 DEF BeginSave
    <2> DEFINE r == [Idle EXCEPT !.pc = "year", !.year = y, !.submit = submit]
    <2>1. HasRequest(r) /\ r.pc = "year" /\ r.row = NoRow
      BY IdleShape DEF HasRequest, Idle
    <2>2. Begin(c, r)
      OBVIOUS
    <2> HIDE DEF r
    <2> QED BY <1>1, <2>1, <2>2, IdleFigure
  <1>3. ASSUME NEW y \in Years, BeginSubmit(c, y) \/ BeginApprove(c, y)
        PROVE  Figures' /\ Averaged'
    <2> PICK status \in {"Submitted", "Approved"} : Begin(c, Saving(y, [rows[y] EXCEPT !.status = status]))
      BY <1>3 DEF BeginSubmit, BeginApprove, Saving
    <2>1. rows[y] \in Figure /\ HasRow(rows[y])
      BY SMTT(60) DEF FInv, Figures, IInv, Shape
    <2>2. rows[y].status # None
      BY <1>3 DEF BeginSubmit, BeginApprove, None
    <2> PICK row : row = [rows[y] EXCEPT !.status = status]
      OBVIOUS
    <2>3. row \in Figure /\ HasRow(row)
      BY <2>1, <2>2, Relabelled, WithStatus DEF Figure
    <2> QED BY <1>1, <2>3, SavingShape, SMTT(60)
  <1>4. ASSUME NEW y \in Years, BeginUpdate(c, y)
        PROVE  Figures' /\ Averaged'
    <2>1. Begin(c, Saving(y, rows[y])) /\ rows[y] \in Figure /\ HasRow(rows[y])
      BY <1>4 DEF BeginUpdate, Saving, FInv, Figures, IInv, Shape
    <2> QED BY <1>1, <2>1, SavingShape
  <1>5. ASSUME BeginFinalize(c)
        PROVE  Figures' /\ Averaged'
    <2> PICK r : /\ Begin(c, r)
                 /\ r = [Idle EXCEPT !.pc = "finalize",
                                     !.todo = {k \in Years : rows[k].status = "Draft"}]
      BY <1>5 DEF BeginFinalize
    <2>1. HasRequest(r) /\ r.pc = "finalize" /\ r.row = NoRow
      BY IdleShape DEF HasRequest, Idle
    <2> QED BY <1>1, <2>1, IdleFigure
  <1> QED BY <1>2, <1>3, <1>4, <1>5

LEMMA LocksFigures ==
    ASSUME FInv, NEW c \in Clients, UpsertYear(c) \/ LockNext(c)
    PROVE  Figures' /\ Averaged'
  <1>1. /\ UNCHANGED <<method, now, requested, transferred, rows>>
        /\ method \in {"Trajectory", "Averaging"}
        /\ HasRequest(request[c]) /\ request[c].row \in Figure
    BY DEF UpsertYear, LockNext, FInv, IInv, Shape, Figures
  <1>2. rows' = [y \in Years |-> rows'[y]] /\ \A y \in Years : rows'[y] \in Figure
    BY <1>1 DEF FInv, Figures
  <1>3. CASE UpsertYear(c)
    <2> DEFINE y == request[c].year
    <2> PICK row : row = Upserted(y, y, request[c].submit)
      OBVIOUS
    <2> PICK r : /\ Step(c, r)
                 /\ r = [request[c] EXCEPT !.pc = "earlier", !.row = row,
                           !.todo = IF method = "Averaging" THEN 1 .. y - 1 ELSE {}]
      BY <1>3 DEF UpsertYear
    <2>1. y \in Years
      BY <1>1 DEF HasRequest
    <2>2. row \in Figure /\ HasRow(row)
          /\ (method = "Averaging" => row.over = y /\ row.total = Total(transferred, 1 .. y))
      BY <1>1, <2>1, UpsertedFigure, UpsertedShape DEF FInv, Figure
    <2>3. HasRequest(r) /\ r.pc = "earlier" /\ r.row = row /\ r.year = y
      BY <1>1, <2>2 DEF HasRequest
    <2>4. method = "Averaging" => row.total <= Total(transferred, 1 .. y)
      BY <2>2, AdjustmentAssumption DEF Figure, Row, NoRow
    <2> QED BY <1>1, <1>2, <2>2, <2>3, <2>4, RestFigures
  <1>4. CASE LockNext(c)
    <2> DEFINE todo == request[c].todo \ {Min(request[c].todo)}
    <2> PICK r : Step(c, r) /\ r = [request[c] EXCEPT !.todo = todo]
      BY <1>4 DEF LockNext
    <2>1. /\ HasRequest(r) /\ r.pc = request[c].pc /\ r.row = request[c].row
          /\ r.year = request[c].year
      BY <1>1 DEF HasRequest
    <2>2. r.pc = "earlier" /\ method = "Averaging" =>
              r.row.over = r.year /\ r.row.total <= Total(transferred, 1 .. r.year)
      BY <2>1 DEF FInv, Averaged
    <2> QED BY <1>1, <1>2, <2>1, <2>2, RestFigures
  <1> QED BY <1>3, <1>4

\* The requests that end, and write rows or do not.
LEMMA EndsFigures ==
    ASSUME FInv, NEW c \in Clients,
           CommitSave(c) \/ CommitFinalize(c) \/ SaveRow(c) \/ Fail(c)
    PROVE  Figures' /\ Averaged'
  <1>1. /\ UNCHANGED <<method, now, requested, transferred>> /\ Step(c, Idle)
        /\ method \in {"Trajectory", "Averaging"}
        /\ HasRequest(request[c]) /\ request[c].row \in Figure
        /\ request[c].year \in Years
    BY DEF CommitSave, CommitFinalize, SaveRow, Fail, FInv, IInv, Shape, Figures, HasRequest
  <1>2. rows \in [Years -> Figure]
    BY DEF FInv, Figures
  <1>3. rows' = [y \in Years |-> rows'[y]] /\ \A y \in Years : rows'[y] \in Figure
    <2>1. CASE CommitSave(c)
      <3> DEFINE r == request[c]
      <3>1. rows' = [y \in Years |->
                       IF y = r.year THEN r.row
                       ELSE IF method = "Averaging" /\ y < r.year
                            THEN Recomputed(y, r.year, r.submit) ELSE rows[y]]
        BY <2>1 DEF CommitSave
      <3>2. \A y \in Years : Recomputed(y, r.year, r.submit) \in Figure
        BY <1>1, <1>2, UpsertedFigure DEF Recomputed, Figure, FInv
      <3> QED BY <1>1, <1>2, <3>1, <3>2
    <2>2. CASE CommitFinalize(c)
      <3>1. rows' = [y \in Years |-> IF lock[y] = c /\ rows[y].status = "Draft"
                                     THEN [rows[y] EXCEPT !.status = "Submitted"] ELSE rows[y]]
        BY <2>2 DEF CommitFinalize
      <3>2. \A y \in Years : rows[y].status = "Draft" =>
                [rows[y] EXCEPT !.status = "Submitted"] \in Figure
        BY <1>2, Relabelled DEF None, Figure
      <3> QED BY <1>2, <3>1, <3>2
    <2>3. CASE SaveRow(c)
      BY <1>1, <1>2, <2>3 DEF SaveRow
    <2>4. CASE Fail(c)
      BY <1>2, <2>4 DEF Fail
    <2> QED BY <2>1, <2>2, <2>3, <2>4
  <1> QED BY <1>1, <1>3, IdleFigure, IdleShape, RestFigures

LEMMA FiguresInductive == FInv /\ [ANext]_avars => FInv'
  <1> SUFFICES ASSUME FInv, [ANext]_avars PROVE Figures' /\ Averaged'
    BY Inductive DEF FInv
  <1>1. CASE UNCHANGED avars
    <2>1. Counted' = Counted
      BY <1>1 DEF avars, Counted
    <2> QED BY <1>1, <2>1 DEF avars, FInv, Figures, Averaged
  <1>2. CASE YearEnds \/ RequestRetirement \/ \E y \in Years : DecideRetirement(y)
    BY <1>2, WorldFigures
  <1>3. ASSUME NEW c \in Clients,
               \/ \E y \in Years : BeginSave(c, y) \/ BeginSubmit(c, y) \/ BeginApprove(c, y) \/ BeginUpdate(c, y)
               \/ BeginFinalize(c)
        PROVE  Figures' /\ Averaged'
    BY <1>3, BeginsFigures
  <1>4. ASSUME NEW c \in Clients, Proceed(c) \/ Fail(c)
        PROVE  Figures' /\ Averaged'
    BY <1>4, LocksFigures, EndsFigures DEF Proceed, Refused
  <1> QED BY <1>1, <1>2, <1>3, <1>4 DEF ANext

LEMMA FiguresAlways == ASpec => []FInv
  <1>1. AInit => FInv
    <2> SUFFICES ASSUME AInit PROVE FInv
      OBVIOUS
    <2>1. Figures
      <3>1. now \in 1 .. Length + 1 /\ requested \in [Years -> Nat] /\ transferred \in [Years -> Nat]
        BY YearsFinite DEF AInit
      <3>2. Counted \in [Years -> Nat] /\ \A y \in Years : Counted[y] = 0
        BY DEF AInit, Counted
      <3>3. Units(Counted, Years) = {}
        BY <3>2 DEF Units
      <3>4. Total(Counted, Years) = 0
        BY <3>3, FS_EmptySet DEF Total
      <3> QED BY <3>1, <3>4, IdleFigure, AdjustmentAssumption DEF AInit, Figures
    <2>2. Averaged
      BY IdleFigure DEF AInit, Averaged
    <2> QED BY <2>1, <2>2, Initially DEF FInv
  <1> QED BY <1>1, FiguresInductive, PTL DEF ASpec

\* Every figure of every row, filed or draft, stays within the retirements
\* requested in the period, over years of the period.
THEOREM AdjustmentTypeCorrect == ASpec => []ATypeOK
  <1>1. FInv => ATypeOK
    <2> SUFFICES ASSUME FInv PROVE ATypeOK
      OBVIOUS
    <2>1. ASSUME NEW y \in Years
          PROVE  requested[y] \in 0 .. MaxRequested /\ transferred[y] \in 0 .. MaxRequested
      <3>1. Total(Counted, Years) = Total(Counted, Years \ {y}) + Counted[y]
        BY CountedIs, YearsFinite, TotalSplits DEF FInv
      <3>2. Total(Counted, Years \ {y}) \in Nat
        BY CountedIs, YearsFinite, TotalIsNat DEF FInv
      <3>3. Counted[y] = requested[y] + transferred[y] /\ requested[y] \in Nat /\ transferred[y] \in Nat
        BY CountedIs DEF FInv, Figures
      <3> QED BY <3>1, <3>2, <3>3, AdjustmentAssumption DEF FInv, Figures
    <2>2. requested \in [Years -> 0 .. MaxRequested] /\ transferred \in [Years -> 0 .. MaxRequested]
      BY <2>1 DEF FInv, Figures
    <2> QED BY <2>2 DEF ATypeOK, FInv, Figures, Figure, IInv, Shape
  <1> QED BY <1>1, FiguresAlways, PTL

\* Under the averaging method a calculation leaves every open year up to its own
\* averaged over the same years, over no less than its own, although the earlier
\* years are derived later than it and transfers go on in between.
THEOREM AveragesAgree == ASpec => OneAverage
  <1> DEFINE Agree == \A c \in Clients : CommitSave(c) /\ method = "Averaging" =>
                        \A y \in 1 .. request[c].year : Open(y) =>
                           /\ rows'[y].over = request[c].year
                           /\ rows'[y].total >= request[c].row.total
  <1>1. ASSUME FInv, NEW c \in Clients, CommitSave(c), method = "Averaging",
               NEW y \in 1 .. request[c].year, Open(y)
        PROVE  rows'[y].over = request[c].year /\ rows'[y].total >= request[c].row.total
    <2> DEFINE r == request[c]
    <2>1. r.pc = "earlier" /\ r.year \in Years /\ HasRequest(r)
      BY <1>1 DEF CommitSave, FInv, IInv, Shape, HasRequest
    <2>2. y \in Years /\ (y # r.year => y < r.year)
      BY <2>1, YearsFinite DEF Years
    <2>3. r.row.over = r.year /\ r.row.total <= Total(transferred, 1 .. r.year)
      BY <1>1, <2>1 DEF FInv, Averaged
    <2>4. rows'[y] = IF y = r.year THEN r.row ELSE Recomputed(y, r.year, r.submit)
      BY <1>1, <2>2 DEF CommitSave
    <2>5. r.row.total \in Nat
      BY <1>1, AdjustmentAssumption DEF FInv, Figures, Figure, Row, NoRow
    <2>6. CASE y = r.year
      BY <2>3, <2>4, <2>5, <2>6
    <2>7. CASE y # r.year
      <3>1. rows'[y] = Upserted(y, r.year, r.submit)
        BY <1>1, <2>4, <2>7 DEF Recomputed
      <3>2. rows'[y] \in Row /\ rows'[y].over = r.year /\ rows'[y].total = Total(transferred, 1 .. r.year)
        BY <1>1, <2>1, <2>2, <3>1, UpsertedFigure DEF FInv, IInv, Shape
      <3>3. rows'[y].total \in Nat
        BY <3>2, AdjustmentAssumption DEF Row
      <3> QED BY <2>3, <2>5, <3>2, <3>3
    <2> QED BY <2>6, <2>7
  <1>2. FInv => Agree
    BY <1>1
  <1>3. ASpec => [][Agree]_avars
    BY <1>2, FiguresAlways, PTL
  <1> QED BY <1>3 DEF OneAverage
=============================================================================
