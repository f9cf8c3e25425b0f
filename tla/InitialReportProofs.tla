------------------------- MODULE InitialReportProofs -------------------------
(***************************************************************************)
(* The invariants of InitialReport, for every set of clients, approaches   *)
(* and values, every bound, and every status an update may ask for.        *)
(*                                                                         *)
(* That a submitted report matches its version is not inductive alone:     *)
(* the whole rows that the requests in progress hold are saved later, so   *)
(* each of them, too, has to match a version if it says Submitted.         *)
(*                                                                         *)
(* Of requests that come one at a time more is true (AloneInv): what a     *)
(* request holds is what the tables hold.                                  *)
(***************************************************************************)
EXTENDS InitialReport, FiniteSetTheorems, TLAPS

Ids == 0 .. Cardinality(Clients) + 1
Link == [no : 0 .. MaxReports, added : Nat, id : Ids]
ApproachRow == [status : ApproachStatus, ref : Nat]
Operation == {"idle", "update", "discard", "revert", "link", "unlink", "submit",
              "approach", "addEntity", "removeEntity"}
Request == [op : Operation, row : Row, approach : Approaches \cup {None}, flag : BOOLEAN,
            id : Ids, ca : ApproachRow, entity : EntityState]
ListRow == [added : Nat, ref : Nat, entity : EntityState]
Version == [no : 0 .. MaxReports, major : Nat, minor : Nat, general : Generals,
            trajectory : Trajectories \cup {None},
            lists : UNION {[D -> ListRow] : D \in SUBSET Approaches}]

\* What a client may hold: only a complete report is on its way to submission.
Held(r) == r \in Request /\ (r.op = "submit" => r.row.general \in Generals)

Typed ==
    /\ report \in Row
    /\ lastReport \in 0 .. MaxReports
    /\ links \in [Approaches -> Link]
    /\ approach \in [Approaches -> ApproachRow]
    /\ minted \in [Approaches -> Nat]
    /\ entity \in [Approaches -> EntityState]
    /\ versions \in Seq(Version)
    /\ request \in [Clients -> Request]
    /\ \A c \in Clients : Held(request[c])

\* A row that says it is submitted is one that was filed.
Matches(row, filed) ==
    row.status = "Submitted" =>
        \E i \in DOMAIN filed :
            /\ filed[i].no = row.no
            /\ filed[i].major = row.major
            /\ filed[i].minor = row.minor
            /\ filed[i].general = row.general
            /\ filed[i].trajectory = row.trajectory

RowsMatch ==
    /\ Matches(report, versions)
    /\ \A c \in Clients : Matches(request[c].row, versions)

IInv == Typed /\ RowsMatch /\ FiledLinkIsInAVersion

-----------------------------------------------------------------------------
(* Types *)

LEMMA IdleTyped == Held(Idle) /\ NoReport \in Row
  <1>1. NoReport \in Row
    BY ReportAssumption DEF NoReport, Row
  <1>2. Cardinality(Clients) \in Nat
    BY ReportAssumption, FS_CardinalityType
  <1>3. 0 \in Ids /\ "absent" \in EntityState /\ "Draft" \in ApproachStatus
    BY <1>2 DEF Ids, EntityState, ApproachStatus
  <1> QED BY <1>1, <1>3 DEF Held, Idle, Request, Operation, ApproachRow

\* Some id is held by no client: there is one id more than there are clients.
LEMMA FreshIdTyped ==
    ASSUME NEW a
    PROVE  FreshId(a) \in Ids
  <1> DEFINE Free(i) == \A c \in Clients :
                ~(request[c].op = "unlink" /\ request[c].approach = a /\ request[c].id = i)
             N == Cardinality(Clients)
             I == 1 .. N + 1
  <1>1. N \in Nat
    BY ReportAssumption, FS_CardinalityType
  <1>2. \E i \in I : Free(i)
    <2> SUFFICES ASSUME \A i \in I : ~Free(i) PROVE FALSE
      OBVIOUS
    <2> DEFINE f == [i \in I |-> CHOOSE c \in Clients : request[c].id = i]
    <2>1. ASSUME NEW i \in I PROVE f[i] \in Clients /\ request[f[i]].id = i
      BY <2>1
    <2>2. f \in [I -> Clients]
      BY <2>1
    <2>3. IsFiniteSet(I) /\ Cardinality(I) = N + 1
      <3>1. 1 \in Int /\ N + 1 \in Int
        BY <1>1
      <3>2. IsFiniteSet(I) /\ Cardinality(I) = IF 1 > N + 1 THEN 0 ELSE (N + 1) - 1 + 1
        BY <3>1, FS_Interval
      <3> QED BY <1>1, <3>2
    <2>4. \E i, j \in I : i # j /\ f[i] = f[j]
      <3>1. Cardinality(Clients) < Cardinality(I)
        BY <1>1, <2>3 DEF N
      <3>2. IsFiniteSet(Clients)
        BY ReportAssumption
      <3> HIDE DEF f, I, N
      <3> QED BY <2>2, <2>3, <3>1, <3>2, FS_PigeonHole
    <2> QED BY <2>1, <2>4
  <1>3. FreshId(a) \in I
    BY <1>2 DEF FreshId
  <1> QED BY <1>1, <1>3 DEF Ids

LEMMA RowsTyped ==
    ASSUME Typed
    PROVE  /\ \A g \in Generals, t \in Trajectories :
                [Reopened(report) EXCEPT !.general = g, !.trajectory = t] \in Row
           /\ Reopened(report) \in Row
           /\ \A i \in DOMAIN versions : Reverted(report, i) \in Row
  <1>1. report \in Row /\ Reopened(report) \in Row
    BY DEF Typed, Reopened, Row
  <1>2. ASSUME NEW i \in DOMAIN versions
        PROVE  Reverted(report, i) \in Row
    <2>1. versions[i] \in Version
      BY DEF Typed
    <2> QED BY <1>1, <2>1 DEF Reverted, Version, Row
  <1> QED BY <1>1, <1>2 DEF Row

LEMMA StartTyped ==
    ASSUME Typed, NEW c \in Clients, NEW r, Held(r), Start(c, r)
    PROVE  Typed'
  <1>1. request' \in [Clients -> Request]
    BY DEF Start, Held, Typed
  <1>2. ASSUME NEW d \in Clients PROVE Held(request'[d])
    BY DEF Start, Held, Typed
  <1> QED BY <1>1, <1>2 DEF Start, Typed, Held

LEMMA FinishTyped ==
    ASSUME Typed, NEW c \in Clients, NEW op, Finish(c, op)
    PROVE  /\ request' \in [Clients -> Request]
           /\ \A d \in Clients : Held(request'[d])
           /\ lastReport' = lastReport /\ minted' = minted /\ versions' = versions
  BY IdleTyped DEF Finish, Held, Typed

LEMMA InitTyped == IRInit => Typed
  <1> SUFFICES ASSUME IRInit PROVE Typed
    OBVIOUS
  <1>1. 0 \in Ids /\ MaxReports \in Nat
    <2>1. Cardinality(Clients) \in Nat
      BY ReportAssumption, FS_CardinalityType
    <2> QED BY <2>1, ReportAssumption DEF Ids
  <1>2. /\ links \in [Approaches -> Link]
        /\ approach \in [Approaches -> ApproachRow]
        /\ minted \in [Approaches -> Nat]
        /\ entity \in [Approaches -> EntityState]
    BY <1>1 DEF IRInit, NoLink, Link, ApproachRow, ApproachStatus, EntityState
  <1>3. versions \in Seq(Version) /\ report \in Row /\ lastReport \in 0 .. MaxReports
    BY <1>1, IdleTyped DEF IRInit
  <1>4. request \in [Clients -> Request] /\ \A c \in Clients : Held(request[c])
    BY IdleTyped DEF IRInit, Held
  <1> QED BY <1>2, <1>3, <1>4 DEF Typed

\* Every step keeps the types, action by action.
LEMMA StepTyped ==
    ASSUME Typed, [IRNext]_irvars
    PROVE  Typed'
  <1>1. CASE UNCHANGED irvars
    BY <1>1 DEF irvars, Typed, Held
  <1>2. ASSUME NEW c \in Clients, GenerateDraft(c)
        PROVE  Typed'
    <2>1. report' \in Row /\ lastReport' \in 0 .. MaxReports
      BY <1>2, ReportAssumption DEF GenerateDraft, Row, Typed
    <2> QED BY <1>2, <2>1 DEF GenerateDraft, Typed, Held
  <1>3. ASSUME NEW c \in Clients, BeginUpdate(c)
        PROVE  Typed'
    <2>1. PICK g \in Generals, t \in Trajectories :
            Start(c, [Idle EXCEPT !.op = "update",
                        !.row = [Reopened(report) EXCEPT !.general = g, !.trajectory = t]])
      BY <1>3 DEF BeginUpdate
    <2>2. Held([Idle EXCEPT !.op = "update",
                 !.row = [Reopened(report) EXCEPT !.general = g, !.trajectory = t]])
      BY IdleTyped, RowsTyped DEF Held, Request, Operation, Idle
    <2> QED BY <2>1, <2>2, StartTyped
  <1>4. ASSUME NEW c \in Clients, EndUpdate(c) \/ EndRevert(c) \/ EndDiscard(c)
        PROVE  Typed'
    <2>1. request[c].row \in Row /\ NoReport \in Row /\ NoLink \in Link
      <3>1. NoLink \in Link
        <4>1. Cardinality(Clients) \in Nat
          BY ReportAssumption, FS_CardinalityType
        <4> QED BY <4>1, ReportAssumption DEF NoLink, Link, Ids
      <3> QED BY <3>1, IdleTyped DEF Typed, Request
    <2>2. report' \in Row
      BY <1>4, <2>1 DEF EndUpdate, EndRevert, EndDiscard, Save, Typed
    <2>3. links' \in [Approaches -> Link]
      BY <1>4, <2>1 DEF EndUpdate, EndRevert, EndDiscard, Typed
    <2>4. Finish(c, "update") \/ Finish(c, "revert") \/ Finish(c, "discard")
      BY <1>4 DEF EndUpdate, EndRevert, EndDiscard
    <2> QED BY <1>4, <2>2, <2>3, <2>4, FinishTyped DEF EndUpdate, EndRevert, EndDiscard, Typed
  <1>5. ASSUME NEW c \in Clients, BeginDiscard(c)
        PROVE  Typed'
    <2>1. Held([Idle EXCEPT !.op = "discard", !.row = report])
      BY IdleTyped DEF Held, Request, Operation, Idle, Typed
    <2>2. ASSUME NEW i \in VersionsOf(report.no)
          PROVE  Held([Idle EXCEPT !.op = "revert", !.row = Reverted(report, i)])
      <3>1. Reverted(report, i) \in Row
        BY RowsTyped DEF VersionsOf
      <3> QED BY <3>1, IdleTyped DEF Held, Request, Operation, Idle
    <2> QED BY <1>5, <2>1, <2>2, StartTyped DEF BeginDiscard
  <1>6. ASSUME NEW c \in Clients, NEW a \in Approaches, BeginLink(c, a) \/ BeginUnlink(c, a)
        PROVE  Typed'
    <2>1. Held([Idle EXCEPT !.op = "link", !.approach = a, !.row = Reopened(report),
                            !.flag = (report.status = "Submitted")])
      BY IdleTyped, RowsTyped DEF Held, Request, Operation, Idle
    <2>2. Held([Idle EXCEPT !.op = "unlink", !.approach = a, !.id = links[a].id])
      <3>1. links[a].id \in Ids
        BY DEF Typed, Link
      <3> QED BY <3>1, IdleTyped DEF Held, Request, Operation, Idle
    <2> QED BY <1>6, <2>1, <2>2, StartTyped DEF BeginLink, BeginUnlink
  <1>7. ASSUME NEW c \in Clients, EndLink(c) \/ EndUnlink(c)
        PROVE  Typed'
    <2> DEFINE r == request[c]
    <2>1. r.row \in Row /\ NoLink \in Link
      <3>1. Cardinality(Clients) \in Nat
        BY ReportAssumption, FS_CardinalityType
      <3> QED BY <3>1, ReportAssumption DEF NoLink, Link, Ids, Typed, Request
    <2>2. [no |-> r.row.no, added |-> 0, id |-> FreshId(r.approach)] \in Link
      BY <2>1, FreshIdTyped DEF Link, Row
    <2>3. report' \in Row
      BY <1>7, <2>1 DEF EndLink, EndUnlink, Save, Typed
    <2>4. links' \in [Approaches -> Link]
      BY <1>7, <2>1, <2>2 DEF EndLink, EndUnlink, Typed
    <2>5. Finish(c, "link") \/ Finish(c, "unlink")
      BY <1>7 DEF EndLink, EndUnlink
    <2> QED BY <1>7, <2>3, <2>4, <2>5, FinishTyped DEF EndLink, EndUnlink, Typed
  <1>8. ASSUME NEW c \in Clients, BeginSubmit(c)
        PROVE  Typed'
    <2>1. report \in Row /\ report.general \in Generals
      BY <1>8 DEF BeginSubmit, Typed, Row
    <2>2. Held([Idle EXCEPT !.op = "submit", !.row = report])
      BY <2>1, IdleTyped DEF Held, Request, Operation, Idle
    <2> QED BY <1>8, <2>2, StartTyped DEF BeginSubmit
  <1>9. ASSUME NEW c \in Clients, File(c)
        PROVE  Typed'
    <2> DEFINE row == request[c].row
               linked == LinkedTo(row.no)
               drafts == {a \in linked : approach[a].status = "Draft"}
               next == NextVersion(row, \E a \in drafts : links[a].added = 0)
               added(a) == IF links[a].added = 0 THEN next.major ELSE links[a].added
               lists == [a \in linked |-> [added |-> added(a), ref |-> approach[a].ref,
                                           entity |-> Flipped(entity[a])]]
               version == [no |-> row.no, major |-> next.major, minor |-> next.minor,
                           general |-> row.general, trajectory |-> row.trajectory,
                           lists |-> lists]
    <2>1. row \in Row /\ row.general \in Generals
      BY <1>9 DEF File, Typed, Held, Request
    <2>2. next.major \in Nat /\ next.minor \in Nat
      BY <2>1 DEF NextVersion, Row
    <2>3. \A a \in Approaches : added(a) \in Nat /\ Flipped(entity[a]) \in EntityState
      BY <2>2 DEF Typed, Link, Flipped, EntityState
    <2>4. linked \subseteq Approaches
      BY DEF LinkedTo
    <2>5. lists \in [linked -> ListRow]
      BY <2>3, <2>4 DEF ListRow, Typed, ApproachRow
    <2>6. version \in Version
      BY <2>1, <2>2, <2>4, <2>5 DEF Version, Row
    <2>7. versions' \in Seq(Version)
      <3>1. versions' = Append(versions, version)
        BY <1>9 DEF File
      <3> HIDE DEF version
      <3> QED BY <2>6, <3>1 DEF Typed
    <2>8. report' \in Row
      BY <1>9, <2>1, <2>2 DEF File, Row
    <2>9. links' \in [Approaches -> Link]
      BY <1>9, <2>3 DEF File, Typed, Link
    <2>10. approach' \in [Approaches -> ApproachRow]
      BY <1>9 DEF File, Typed, ApproachRow, ApproachStatus, MarkSubmitted
    <2>11. minted' \in [Approaches -> Nat]
      BY <1>9 DEF File, Typed
    <2>12. entity' \in [Approaches -> EntityState]
      BY <1>9, <2>3 DEF File, Typed
    <2>13. request' \in [Clients -> Request] /\ \A d \in Clients : Held(request'[d])
      BY <1>9, IdleTyped DEF File, Typed, Held
    <2> QED BY <1>9, <2>7, <2>8, <2>9, <2>10, <2>11, <2>12, <2>13 DEF File, Typed
  <1>10. ASSUME NEW c \in Clients, NEW a \in Approaches, BeginApproachUpdate(c, a)
         PROVE  Typed'
    <2>1. PICK s \in {approach[a].status} \cup (ALLOWED_TRANSITIONS[approach[a].status] \cap Asked) :
            Start(c, [Idle EXCEPT !.op = "approach", !.approach = a,
                                  !.ca = [approach[a] EXCEPT !.status = s]])
      BY <1>10 DEF BeginApproachUpdate
    <2>2. approach[a] \in ApproachRow /\ s \in ApproachStatus
      BY AskedAssumption DEF Typed, ApproachRow
    <2>3. [approach[a] EXCEPT !.status = s] \in ApproachRow
      BY <2>2 DEF ApproachRow
    <2>4. Held([Idle EXCEPT !.op = "approach", !.approach = a,
                            !.ca = [approach[a] EXCEPT !.status = s]])
      BY <2>3, IdleTyped DEF Held, Request, Operation, Idle
    <2> QED BY <2>1, <2>4, StartTyped
  <1>11. ASSUME NEW c \in Clients, NEW a \in Approaches, BeginAddEntity(c, a) \/ BeginRemoveEntity(c, a)
         PROVE  Typed'
    <2>1. Held([Idle EXCEPT !.op = "addEntity", !.approach = a])
      BY IdleTyped DEF Held, Request, Operation, Idle
    <2>2. Deactivated(entity[a]) \in EntityState /\ "deleted" \in EntityState
      BY DEF Typed, Deactivated, EntityState
    <2>3. ASSUME NEW e \in EntityState
          PROVE  Held([Idle EXCEPT !.op = "removeEntity", !.approach = a, !.entity = e])
      BY IdleTyped DEF Held, Request, Operation, Idle
    <2> QED BY <1>11, <2>1, <2>2, <2>3, StartTyped DEF BeginAddEntity, BeginRemoveEntity
  <1>12. ASSUME NEW c \in Clients, EndApproachUpdate(c) \/ EndAddEntity(c) \/ EndRemoveEntity(c)
         PROVE  Typed'
    <2> DEFINE r == request[c]
    <2>1. r.ca \in ApproachRow /\ r.entity \in EntityState /\ "draft" \in EntityState
      BY DEF Typed, EntityState, Request
    <2>2. approach' \in [Approaches -> ApproachRow] /\ entity' \in [Approaches -> EntityState]
      <3>1. approach \in [Approaches -> ApproachRow] /\ entity \in [Approaches -> EntityState]
        BY DEF Typed
      <3>2. \/ approach' = [approach EXCEPT ![r.approach] = r.ca] /\ entity' = entity
            \/ approach' = approach /\ entity' = [entity EXCEPT ![r.approach] = r.entity]
            \/ approach' = approach
               /\ entity' = [entity EXCEPT ![r.approach] = IF @ = "absent" THEN "draft" ELSE @]
        BY <1>12 DEF EndApproachUpdate, EndAddEntity, EndRemoveEntity
      <3> HIDE DEF r
      <3> QED BY <2>1, <3>1, <3>2
    <2>3. Finish(c, "approach") \/ Finish(c, "addEntity") \/ Finish(c, "removeEntity")
      BY <1>12 DEF EndApproachUpdate, EndAddEntity, EndRemoveEntity
    <2> QED BY <1>12, <2>2, <2>3, FinishTyped
            DEF EndApproachUpdate, EndAddEntity, EndRemoveEntity, Typed
  <1>13. ASSUME NEW c \in Clients, Fail(c)
         PROVE  Typed'
    <2>1. request' \in [Clients -> Request] /\ \A d \in Clients : Held(request'[d])
      BY <1>13, IdleTyped DEF Fail, Typed, Held
    <2> QED BY <1>13, <2>1 DEF Fail, Typed
  <1> QED BY <1>1, <1>2, <1>3, <1>4, <1>5, <1>6, <1>7, <1>8, <1>9, <1>10, <1>11, <1>12, <1>13
          DEF IRNext

-----------------------------------------------------------------------------
(* Rows and versions *)

\* Versions are only ever added, and only by a filing.
LEMMA VersionsGrow ==
    ASSUME Typed, [IRNext]_irvars
    PROVE  /\ DOMAIN versions \subseteq DOMAIN versions'
           /\ \A i \in DOMAIN versions : versions'[i] = versions[i]
  <1>1. CASE \E c \in Clients : File(c)
    <2>1. PICK v : versions' = Append(versions, v)
      BY <1>1 DEF File
    <2>2. versions \in Seq(Version)
      BY DEF Typed
    <2> QED BY <2>1, <2>2
  <1>2. CASE ~\E c \in Clients : File(c)
    <2>1. versions' = versions
      BY <1>2 DEF IRNext, irvars, GenerateDraft, BeginUpdate, EndUpdate, BeginDiscard, EndDiscard,
         EndRevert, BeginSubmit, BeginLink, BeginUnlink, BeginApproachUpdate, BeginAddEntity,
         BeginRemoveEntity, EndLink, EndUnlink, EndApproachUpdate, EndAddEntity, EndRemoveEntity,
         Fail, Start, Finish
    <2> QED BY <2>1
  <1> QED BY <1>1, <1>2

LEMMA MatchesKept ==
    ASSUME Typed, [IRNext]_irvars, NEW row, Matches(row, versions)
    PROVE  Matches(row, versions')
  BY VersionsGrow DEF Matches

\* A draft matches whatever was filed.
LEMMA DraftMatches ==
    ASSUME NEW row, row.status = "Draft", NEW filed
    PROVE  Matches(row, filed)
  BY DEF Matches

LEMMA DraftRows ==
    ASSUME Typed
    PROVE  /\ Idle.row.status = "Draft" /\ NoReport.status = "Draft"
           /\ Reopened(report).status = "Draft"
           /\ \A g, t : [Reopened(report) EXCEPT !.general = g, !.trajectory = t].status = "Draft"
  BY DEF Idle, NoReport, Typed, Reopened, Row

\* A client that starts with a row that matches, or finishes.
LEMMA StartMatches ==
    ASSUME Typed, RowsMatch, [IRNext]_irvars, NEW c \in Clients, NEW r,
           Matches(r.row, versions), Start(c, r)
    PROVE  RowsMatch'
  <1>1. report' = report /\ versions' = versions
    BY DEF Start
  <1>2. ASSUME NEW d \in Clients PROVE Matches(request'[d].row, versions)
    <2>1. request'[d] = request[d] \/ request'[d] = r
      BY DEF Start, Typed
    <2> QED BY <2>1 DEF RowsMatch
  <1> QED BY <1>1, <1>2 DEF RowsMatch

LEMMA RequestsMatch ==
    ASSUME Typed, RowsMatch, [IRNext]_irvars, NEW c \in Clients,
           request' = [request EXCEPT ![c] = Idle]
    PROVE  \A d \in Clients : Matches(request'[d].row, versions')
  <1>1. ASSUME NEW d \in Clients PROVE Matches(request'[d].row, versions')
    <2>1. request'[d] = request[d] \/ request'[d] = Idle
      BY DEF Typed
    <2> QED BY <2>1, MatchesKept, DraftMatches, DraftRows DEF RowsMatch
  <1> QED BY <1>1

LEMMA StepMatches ==
    ASSUME Typed, RowsMatch, [IRNext]_irvars
    PROVE  RowsMatch'
  <1>1. CASE UNCHANGED irvars
    BY <1>1 DEF irvars, RowsMatch
  <1>2. ASSUME NEW c \in Clients, GenerateDraft(c)
        PROVE  RowsMatch'
    <2>1. report'.status = "Draft"
      BY <1>2 DEF GenerateDraft
    <2> QED BY <1>2, <2>1 DEF GenerateDraft, RowsMatch, Matches
  <1>3. ASSUME NEW c \in Clients, BeginUpdate(c)
        PROVE  RowsMatch'
    <2>1. PICK g \in Generals, t \in Trajectories :
            Start(c, [Idle EXCEPT !.op = "update",
                        !.row = [Reopened(report) EXCEPT !.general = g, !.trajectory = t]])
      BY <1>3 DEF BeginUpdate
    <2>2. [Idle EXCEPT !.op = "update",
             !.row = [Reopened(report) EXCEPT !.general = g, !.trajectory = t]].row.status = "Draft"
      BY DraftRows DEF Idle
    <2> QED BY <2>1, <2>2, DraftMatches, StartMatches
  <1>4. ASSUME NEW c \in Clients, EndUpdate(c) \/ EndRevert(c) \/ EndDiscard(c) \/ EndLink(c)
        PROVE  RowsMatch'
    <2>1. report' \in {report, request[c].row, NoReport}
      BY <1>4 DEF EndUpdate, EndRevert, EndDiscard, EndLink, Save
    <2>2. request' = [request EXCEPT ![c] = Idle] /\ versions' = versions
      BY <1>4 DEF EndUpdate, EndRevert, EndDiscard, EndLink, Finish
    <2> QED BY <2>1, <2>2, RequestsMatch, DraftMatches, DraftRows DEF RowsMatch
  <1>5. ASSUME NEW c \in Clients, BeginDiscard(c)
        PROVE  RowsMatch'
    <2>1. Matches([Idle EXCEPT !.op = "discard", !.row = report].row, versions)
      BY DEF RowsMatch, Idle
    <2>2. ASSUME NEW i \in VersionsOf(report.no),
                 versions[i].major = report.major, versions[i].minor = report.minor
          PROVE  Matches([Idle EXCEPT !.op = "revert", !.row = Reverted(report, i)].row, versions)
      <3>1. Matches(Reverted(report, i), versions)
        BY <2>2 DEF Matches, Reverted, VersionsOf, Typed, Row
      <3> QED BY <3>1 DEF Idle
    <2> QED BY <1>5, <2>1, <2>2, StartMatches DEF BeginDiscard
  <1>6. ASSUME NEW c \in Clients, NEW a \in Approaches, BeginLink(c, a)
        PROVE  RowsMatch'
    <2> DEFINE r == [Idle EXCEPT !.op = "link", !.approach = a, !.row = Reopened(report),
                                 !.flag = (report.status = "Submitted")]
    <2>1. r.row = Reopened(report) /\ Start(c, r)
      BY <1>6 DEF BeginLink, Idle
    <2> HIDE DEF r
    <2> QED BY <2>1, DraftMatches, DraftRows, StartMatches
  <1>7. ASSUME NEW c \in Clients, BeginSubmit(c)
        PROVE  RowsMatch'
    <2>1. Matches([Idle EXCEPT !.op = "submit", !.row = report].row, versions)
      BY DEF RowsMatch, Idle
    <2> QED BY <1>7, <2>1, StartMatches DEF BeginSubmit
  <1>8. ASSUME NEW c \in Clients, NEW a \in Approaches,
               BeginUnlink(c, a) \/ BeginApproachUpdate(c, a) \/ BeginAddEntity(c, a) \/ BeginRemoveEntity(c, a)
        PROVE  RowsMatch'
    <2>1. CASE BeginUnlink(c, a)
      <3>1. [Idle EXCEPT !.op = "unlink", !.approach = a, !.id = links[a].id].row.status = "Draft"
        BY DraftRows DEF Idle
      <3> QED BY <2>1, <3>1, DraftMatches, StartMatches DEF BeginUnlink
    <2>2. CASE BeginApproachUpdate(c, a)
      <3>1. \A ca : [Idle EXCEPT !.op = "approach", !.approach = a, !.ca = ca].row.status = "Draft"
        BY DraftRows DEF Idle
      <3> QED BY <2>2, <3>1, DraftMatches, StartMatches DEF BeginApproachUpdate
    <2>3. CASE BeginAddEntity(c, a)
      <3>1. [Idle EXCEPT !.op = "addEntity", !.approach = a].row.status = "Draft"
        BY DraftRows DEF Idle
      <3> QED BY <2>3, <3>1, DraftMatches, StartMatches DEF BeginAddEntity
    <2>4. CASE BeginRemoveEntity(c, a)
      <3>1. \A e : [Idle EXCEPT !.op = "removeEntity", !.approach = a, !.entity = e].row.status = "Draft"
        BY DraftRows DEF Idle
      <3>2. PICK e : Start(c, [Idle EXCEPT !.op = "removeEntity", !.approach = a, !.entity = e])
        BY <2>4 DEF BeginRemoveEntity
      <3> QED BY <3>1, <3>2, DraftMatches, StartMatches
    <2> QED BY <1>8, <2>1, <2>2, <2>3, <2>4
  <1>9. ASSUME NEW c \in Clients, File(c)
        PROVE  RowsMatch'
    <2>1. PICK v : /\ versions' = Append(versions, v)
                   /\ v.no = report'.no /\ v.major = report'.major /\ v.minor = report'.minor
                   /\ v.general = report'.general /\ v.trajectory = report'.trajectory
      <3> DEFINE row == request[c].row
      <3>1. row \in Row
        BY DEF Typed, Request
      <3>2. PICK next, lists :
              /\ versions' = Append(versions,
                   [no |-> row.no, major |-> next.major, minor |-> next.minor,
                    general |-> row.general, trajectory |-> row.trajectory, lists |-> lists])
              /\ report' = [row EXCEPT !.status = "Submitted", !.major = next.major, !.minor = next.minor]
        BY <1>9 DEF File
      <3> HIDE DEF row
      <3> QED BY <3>1, <3>2 DEF Row
    <2>2. versions \in Seq(Version)
      BY DEF Typed
    <2>3. Matches(report', versions')
      <3>1. Len(versions) + 1 \in DOMAIN versions' /\ versions'[Len(versions) + 1] = v
        BY <2>1, <2>2
      <3> QED BY <2>1, <3>1 DEF Matches
    <2>4. request' = [request EXCEPT ![c] = Idle]
      BY <1>9 DEF File
    <2> QED BY <2>3, <2>4, RequestsMatch DEF RowsMatch
  <1>10. ASSUME NEW c \in Clients,
                EndUnlink(c) \/ EndApproachUpdate(c) \/ EndAddEntity(c) \/ EndRemoveEntity(c) \/ Fail(c)
         PROVE  RowsMatch'
    <2>1. request' = [request EXCEPT ![c] = Idle] /\ report' = report /\ versions' = versions
      BY <1>10 DEF EndUnlink, EndApproachUpdate, EndAddEntity, EndRemoveEntity, Fail, Finish
    <2> QED BY <2>1, RequestsMatch DEF RowsMatch
  <1> QED BY <1>1, <1>2, <1>3, <1>4, <1>5, <1>6, <1>7, <1>8, <1>9, <1>10 DEF IRNext

-----------------------------------------------------------------------------
(* Links *)

LEMMA StepLinks ==
    ASSUME Typed, FiledLinkIsInAVersion, [IRNext]_irvars
    PROVE  FiledLinkIsInAVersion'
  <1> DEFINE Listed(a, l, filed) ==
               \E i \in DOMAIN filed :
                  /\ filed[i].no = l.no /\ filed[i].major = l.added
                  /\ a \in DOMAIN filed[i].lists /\ filed[i].lists[a].added = l.added
  <1> SUFFICES ASSUME NEW a \in Approaches, links'[a].added # 0
               PROVE  Listed(a, links'[a], versions')
    BY DEF FiledLinkIsInAVersion, VersionsOf
  <1>1. CASE links'[a] = links[a]
    <2>1. Listed(a, links[a], versions)
      BY <1>1 DEF FiledLinkIsInAVersion, VersionsOf
    <2> QED BY <1>1, <2>1, VersionsGrow
  <1>2. ASSUME NEW c \in Clients, File(c), links'[a] # links[a]
        PROVE  Listed(a, links'[a], versions')
    <2> DEFINE row == request[c].row
               linked == LinkedTo(row.no)
               drafts == {b \in linked : approach[b].status = "Draft"}
               next == NextVersion(row, \E b \in drafts : links[b].added = 0)
               added(b) == IF links[b].added = 0 THEN next.major ELSE links[b].added
    <2>1. PICK major, v :
            /\ versions' = Append(versions, v)
            /\ links' = [b \in Approaches |->
                           IF b \in linked
                           THEN [links[b] EXCEPT !.added = IF links[b].added = 0 THEN major ELSE links[b].added]
                           ELSE links[b]]
            /\ v.no = row.no /\ v.major = major /\ DOMAIN v.lists = linked
            /\ \A b \in linked : v.lists[b].added = IF links[b].added = 0 THEN major ELSE links[b].added
      <3> DEFINE v == [no |-> row.no, major |-> next.major, minor |-> next.minor,
                       general |-> row.general, trajectory |-> row.trajectory,
                       lists |-> [b \in linked |-> [added |-> added(b), ref |-> approach[b].ref,
                                                    entity |-> Flipped(entity[b])]]]
      <3>1. /\ versions' = Append(versions, v)
            /\ links' = [b \in Approaches |-> IF b \in linked THEN [links[b] EXCEPT !.added = added(b)]
                                              ELSE links[b]]
        BY <1>2 DEF File
      <3>2. /\ v.no = row.no /\ v.major = next.major /\ DOMAIN v.lists = linked
            /\ \A b \in linked : v.lists[b].added = added(b)
        OBVIOUS
      <3> HIDE DEF v, next, row, linked
      <3> QED BY <3>1, <3>2
    <2>2. a \in linked /\ links[a] \in Link
      BY <1>2, <2>1 DEF Typed
    <2>3. links'[a].no = row.no /\ links'[a].added = major /\ v.lists[a].added = major
      BY <1>2, <2>1, <2>2 DEF Link, LinkedTo
    <2>4. versions \in Seq(Version)
      BY DEF Typed
    <2>5. Len(versions) + 1 \in DOMAIN versions' /\ versions'[Len(versions) + 1] = v
      BY <2>1, <2>4
    <2> QED BY <2>1, <2>2, <2>3, <2>5
  <1>3. ASSUME NEW c \in Clients,
               EndDiscard(c) \/ EndRevert(c) \/ EndLink(c) \/ EndUnlink(c), links'[a] # links[a]
        PROVE  FALSE
    <2>1. links'[a].added = 0
      BY <1>3 DEF EndDiscard, EndRevert, EndLink, EndUnlink, NoLink, Typed
    <2> QED BY <2>1
  <1>4. CASE UNCHANGED links
    BY <1>1, <1>4
  <1>5. \/ UNCHANGED links
        \/ \E c \in Clients : File(c) \/ EndDiscard(c) \/ EndRevert(c) \/ EndLink(c) \/ EndUnlink(c)
    BY DEF IRNext, irvars, GenerateDraft, BeginUpdate, EndUpdate, BeginDiscard, BeginSubmit,
       BeginLink, BeginUnlink, BeginApproachUpdate, BeginAddEntity, BeginRemoveEntity,
       EndApproachUpdate, EndAddEntity, EndRemoveEntity, Fail, Start
  <1> QED BY <1>1, <1>2, <1>3, <1>4, <1>5

-----------------------------------------------------------------------------
LEMMA Initially == IRInit => IInv
  <1> SUFFICES ASSUME IRInit PROVE IInv
    OBVIOUS
  <1>1. RowsMatch
    BY DEF IRInit, RowsMatch, Matches, Idle, NoReport
  <1>2. FiledLinkIsInAVersion
    BY DEF IRInit, FiledLinkIsInAVersion, NoLink
  <1> QED BY <1>1, <1>2, InitTyped DEF IInv

LEMMA Always == IRSpec => []IInv
  <1>1. IInv /\ [IRNext]_irvars => IInv'
    BY StepTyped, StepMatches, StepLinks DEF IInv
  <1> QED BY <1>1, Initially, PTL DEF IRSpec

\* Every reachable state is well typed, for every number of clients and
\* approaches: rows, links and entities stay in their states whichever request
\* saves what it read, and no incomplete report is ever filed.
THEOREM ReportTypeCorrect == IRSpec => []IRTypeOK
  <1>1. IInv => IRTypeOK
    <2> SUFFICES ASSUME IInv PROVE IRTypeOK
      OBVIOUS
    <2>1. \A i \in DOMAIN versions : versions[i] \in Version
      BY DEF IInv, Typed
    <2>2. \A c \in Clients : request[c].row \in Row
      BY DEF IInv, Typed, Request
    <2> QED BY <2>1, <2>2 DEF IInv, Typed, IRTypeOK, Link, Ids, ApproachRow, Version
  <1> QED BY <1>1, Always, PTL

\* A submitted report shows what the version it names was filed with, whichever
\* edits, reverts, links and submissions race, for every number of clients.
THEOREM SubmittedMatches == IRSpec => []SubmittedMatchesItsVersion
  <1>1. IInv => SubmittedMatchesItsVersion
    BY DEF IInv, RowsMatch, Matches, SubmittedMatchesItsVersion, VersionsOf
  <1> QED BY <1>1, Always, PTL

\* A link that has its major version is in a filed version of that number, which
\* is what hasSubmittedReport relies on, for every number of clients.
THEOREM FiledLinkListed == IRSpec => []FiledLinkIsInAVersion
  <1>1. IInv => FiledLinkIsInAVersion
    BY DEF IInv
  <1> QED BY <1>1, Always, PTL

-----------------------------------------------------------------------------
(* One request at a time *)

OneClient == \A c, d \in Clients : c = d

\* The version a row names, as a request that is to save it found it.
Names(row, r) == row.no = r.no /\ row.major = r.major /\ row.minor = r.minor

\* What a request read is what is still there when it writes.
Current(r) ==
    LET a == r.approach IN
    CASE r.op = "idle" -> TRUE
      [] r.op \in {"update", "revert"} ->
            /\ report.no # 0
            /\ Names(r.row, report)
            /\ versions # <<>> => r.row.trajectory = report.trajectory
      [] r.op = "discard" -> r.row = report /\ versions = <<>>
      [] r.op = "submit" -> r.row = report /\ report.no # 0
      [] r.op = "link" ->
            /\ report.no # 0
            /\ Names(r.row, report) /\ r.row.trajectory = report.trajectory
            /\ links[a].no = 0
      [] r.op = "unlink" -> approach[a].status = "Draft"
      [] r.op = "approach" -> approach[a].status # "Draft" => r.ca.status # "Draft"
      [] r.op = "addEntity" -> entity[a] = "absent"
      [] r.op = "removeEntity" ->
            approach[a].status # "Draft" /\ entity[a] \in {"filed", "filedInactive"} =>
                r.entity \in {"filed", "filedInactive"}

RequestsCurrent == \A c \in Clients : Current(request[c])

\* The report names the last version, which lists the links that have a number.
LastVersion ==
    versions # <<>> =>
        LET last == versions[Len(versions)] IN
        /\ report.no # 0
        /\ last.major = report.major /\ last.minor = report.minor
        /\ DOMAIN last.lists = {a \in Approaches : links[a].no = report.no /\ links[a].added # 0}

ListedWithNumber ==
    \A i \in DOMAIN versions : \A a \in DOMAIN versions[i].lists : versions[i].lists[a].added # 0

NoReportIsEmpty == report.no = 0 => report.general = None

Filing == VersionsAreInOrder /\ FiledStays /\ LastVersion /\ ListedWithNumber /\ NoReportIsEmpty

AloneInv == RequestsCurrent /\ Filing

LEMMA ListsTyped ==
    ASSUME Typed
    PROVE  \A i \in DOMAIN versions : DOMAIN versions[i].lists \subseteq Approaches
  <1> SUFFICES ASSUME NEW i \in DOMAIN versions
               PROVE  DOMAIN versions[i].lists \subseteq Approaches
    OBVIOUS
  <1>1. versions[i] \in Version
    BY DEF Typed
  <1>2. PICK D \in SUBSET Approaches : versions[i].lists \in [D -> ListRow]
    BY <1>1 DEF Version
  <1> QED BY <1>2

\* As long as nothing is filed there is nothing to keep.
LEMMA NothingFiled ==
    ASSUME versions' = <<>>, NoReportIsEmpty'
    PROVE  Filing'
  <1>1. Len(versions') = 0 /\ DOMAIN versions' = {}
    OBVIOUS
  <1> QED BY <1>1 DEF Filing, VersionsAreInOrder, FiledStays, LastVersion, ListedWithNumber

\* What was filed stays when the report keeps its number and trajectory, and the
\* approaches it lists keep their links, leave no status for Draft and keep an
\* entity that was filed.
LEMMA FilingKept ==
    ASSUME Typed, Filing, versions' = versions, target' = target,
           Names(report', report), report'.trajectory = report.trajectory,
           NoReportIsEmpty',
           \A a \in Approaches :
              links[a].no = report.no /\ links[a].added # 0 /\ approach[a].status # "Draft" =>
                 /\ links'[a] = links[a]
                 /\ approach'[a].status # "Draft"
                 /\ entity[a] \in {"filed", "filedInactive"} =>
                       entity'[a] \in {"filed", "filedInactive"},
           \A a \in Approaches :
              links'[a].no = report.no /\ links'[a].added # 0 => links'[a] = links[a]
    PROVE  Filing'
  <1>1. \A i \in DOMAIN versions : DOMAIN versions[i].lists \subseteq Approaches
    BY ListsTyped
  <1>2. VersionsAreInOrder' /\ ListedWithNumber'
    BY DEF Filing, VersionsAreInOrder, ListedWithNumber
  <1>3. FiledStays'
    <2>1. ASSUME NEW i \in DOMAIN versions, NEW a \in DOMAIN versions[i].lists
          PROVE  /\ links'[a].no = versions[i].no
                 /\ links'[a].added = versions[i].lists[a].added
                 /\ approach'[a].status # "Draft"
                 /\ versions[i].lists[a].entity \in {"filed", "filedInactive"} =>
                      entity'[a] \in {"filed", "filedInactive"}
      <3>1. a \in Approaches
        BY <1>1
      <3>2. /\ versions[i].no = report.no /\ versions[i].lists[a].added # 0
            /\ links[a].no = versions[i].no /\ links[a].added = versions[i].lists[a].added
            /\ approach[a].status # "Draft"
            /\ versions[i].lists[a].entity \in {"filed", "filedInactive"} =>
                 entity[a] \in {"filed", "filedInactive"}
        BY DEF Filing, FiledStays, ListedWithNumber
      <3> QED BY <3>1, <3>2
    <2>2. \A i \in DOMAIN versions :
             versions[i].no = report'.no /\ versions[i].trajectory = report'.trajectory
             /\ target' = report'.trajectory
      BY DEF Filing, FiledStays, Names
    <2> QED BY <2>1, <2>2 DEF FiledStays
  <1>4. LastVersion'
    <2> SUFFICES ASSUME versions # <<>>
                 PROVE  LastVersion'
      BY DEF LastVersion
    <2> DEFINE n == Len(versions)
               numbered == {a \in Approaches : links[a].no = report.no /\ links[a].added # 0}
    <2>1. n \in DOMAIN versions
      BY DEF Typed
    <2>2. /\ report.no # 0 /\ versions[n].major = report.major /\ versions[n].minor = report.minor
          /\ DOMAIN versions[n].lists = numbered
      BY DEF Filing, LastVersion
    <2>3. \A a \in numbered : approach[a].status # "Draft"
      BY <2>1, <2>2 DEF Filing, FiledStays
    <2>4. numbered = {a \in Approaches : links'[a].no = report'.no /\ links'[a].added # 0}
      BY <2>3 DEF Names
    <2> QED BY <2>2, <2>4 DEF LastVersion, Names
  <1> QED BY <1>2, <1>3, <1>4 DEF Filing

LEMMA StartAlone ==
    ASSUME OneClient, Typed, AloneInv, NEW c \in Clients, NEW r, Current(r), Start(c, r)
    PROVE  AloneInv'
  <1>1. UNCHANGED <<report, links, approach, entity, versions, target>>
    BY DEF Start
  <1>2. ASSUME NEW d \in Clients PROVE request'[d] = r
    BY DEF OneClient, Start, Typed
  <1>3. Current(r)'
    BY <1>1 DEF Current
  <1>4. RequestsCurrent'
    <2> SUFFICES ASSUME NEW d \in Clients PROVE Current(request[d])'
      BY DEF RequestsCurrent
    <2>1. request'[d] = r
      BY <1>2
    <2> QED BY <1>1, <2>1 DEF Current
  <1>5. Filing'
    BY <1>1 DEF AloneInv, Filing, VersionsAreInOrder, FiledStays, LastVersion, ListedWithNumber,
                NoReportIsEmpty
  <1> QED BY <1>4, <1>5 DEF AloneInv

LEMMA IdleAlone ==
    ASSUME OneClient, Typed, NEW c \in Clients, request' = [request EXCEPT ![c] = Idle]
    PROVE  RequestsCurrent'
  <1>1. ASSUME NEW d \in Clients PROVE Current(request[d])'
    <2>1. request'[d] = Idle /\ Idle.op = "idle"
      BY DEF OneClient, Typed, Idle
    <2>2. request'[d].op = "idle"
      BY <2>1
    <2> QED BY <2>2 DEF Current
  <1> QED BY <1>1 DEF RequestsCurrent

\* The versions there are belong to the report.
LEMMA OwnVersions ==
    ASSUME Typed, Filing
    PROVE  /\ ~Filed(report.no) => versions = <<>>
           /\ VersionsOf(report.no) # {} => versions # <<>>
           /\ \A i \in VersionsOf(report.no) : versions[i].trajectory = report.trajectory
  <1>1. versions \in Seq(Version)
    BY DEF Typed
  <1>2. \A i \in DOMAIN versions : versions[i].no = report.no /\ versions[i].trajectory = report.trajectory
    BY DEF Filing, FiledStays
  <1>3. ASSUME versions # <<>> PROVE Filed(report.no)
    <2>1. 1 \in DOMAIN versions
      BY <1>1, <1>3
    <2> QED BY <1>2, <2>1 DEF Filed, VersionsOf
  <1> QED BY <1>1, <1>2, <1>3 DEF VersionsOf

LEMMA BeginsAlone ==
    ASSUME OneClient, Typed, AloneInv, NEW c \in Clients,
           BeginUpdate(c) \/ BeginDiscard(c) \/ BeginSubmit(c)
    PROVE  AloneInv'
  <1>1. report \in Row
    BY DEF Typed
  <1>2. Filing /\ Idle \in Request
    BY IdleTyped DEF AloneInv, Held
  <1>3. CASE BeginUpdate(c)
    <2>1. PICK g \in Generals, t \in Trajectories :
            /\ Filed(report.no) => t = report.trajectory
            /\ Start(c, [Idle EXCEPT !.op = "update",
                           !.row = [Reopened(report) EXCEPT !.general = g, !.trajectory = t]])
      BY <1>3 DEF BeginUpdate
    <2> DEFINE row == [Reopened(report) EXCEPT !.general = g, !.trajectory = t]
               r == [Idle EXCEPT !.op = "update", !.row = row]
    <2>2. r.op = "update" /\ r.row = row
      BY DEF Idle
    <2>3. Names(row, report) /\ row.trajectory = t
      BY <1>1 DEF Names, Reopened, Row
    <2>4. Start(c, r) /\ report.no # 0
      BY <1>3, <2>1 DEF BeginUpdate
    <2>5. versions # <<>> => t = report.trajectory
      BY <1>2, <2>1, OwnVersions
    <2> HIDE DEF row, r
    <2>6. Current(r)
      BY <2>2, <2>3, <2>4, <2>5 DEF Current
    <2> QED BY <2>4, <2>6, StartAlone
  <1>4. CASE BeginDiscard(c)
    <2>1. CASE ~Filed(report.no) /\ Start(c, [Idle EXCEPT !.op = "discard", !.row = report])
      <3> DEFINE r == [Idle EXCEPT !.op = "discard", !.row = report]
      <3>1. r.op = "discard" /\ r.row = report
        BY DEF Idle
      <3>2. Start(c, r) /\ versions = <<>>
        BY <1>2, <2>1, OwnVersions
      <3> HIDE DEF r
      <3>3. Current(r)
        BY <3>1, <3>2 DEF Current
      <3> QED BY <3>2, <3>3, StartAlone
    <2>2. ASSUME NEW i \in VersionsOf(report.no),
                 Start(c, [Idle EXCEPT !.op = "revert", !.row = Reverted(report, i)])
          PROVE  AloneInv'
      <3> DEFINE r == [Idle EXCEPT !.op = "revert", !.row = Reverted(report, i)]
      <3>1. r.op = "revert" /\ r.row = Reverted(report, i)
        BY DEF Idle
      <3>2. Names(Reverted(report, i), report) /\ Reverted(report, i).trajectory = report.trajectory
        BY <1>1, <1>2, OwnVersions DEF Names, Reverted, Row
      <3>3. Start(c, r) /\ report.no # 0
        BY <1>4, <2>2 DEF BeginDiscard
      <3> HIDE DEF r
      <3>4. Current(r)
        BY <3>1, <3>2, <3>3 DEF Current
      <3> QED BY <3>3, <3>4, StartAlone
    <2> QED BY <1>4, <2>1, <2>2 DEF BeginDiscard
  <1>5. CASE BeginSubmit(c)
    <2> DEFINE r == [Idle EXCEPT !.op = "submit", !.row = report]
    <2>1. r.op = "submit" /\ r.row = report
      BY DEF Idle
    <2>2. Start(c, r) /\ report.no # 0
      BY <1>2, <1>5 DEF BeginSubmit, Filing, NoReportIsEmpty
    <2> HIDE DEF r
    <2>3. Current(r)
      BY <2>1, <2>2 DEF Current
    <2> QED BY <2>2, <2>3, StartAlone
  <1> QED BY <1>3, <1>4, <1>5

LEMMA ApproachBeginsAlone ==
    ASSUME OneClient, Typed, AloneInv, NEW c \in Clients, NEW a \in Approaches,
           \/ BeginLink(c, a) \/ BeginUnlink(c, a) \/ BeginApproachUpdate(c, a)
           \/ BeginAddEntity(c, a) \/ BeginRemoveEntity(c, a)
    PROVE  AloneInv'
  <1>1. report \in Row /\ approach[a] \in ApproachRow /\ entity[a] \in EntityState
    BY DEF Typed
  <1>2. CASE BeginLink(c, a)
    <2> DEFINE r == [Idle EXCEPT !.op = "link", !.approach = a, !.row = Reopened(report),
                                 !.flag = (report.status = "Submitted")]
    <2>1. r.op = "link" /\ r.row = Reopened(report) /\ r.approach = a
      BY DEF Idle
    <2>2. Names(Reopened(report), report) /\ Reopened(report).trajectory = report.trajectory
      BY <1>1 DEF Names, Reopened, Row
    <2>3. Start(c, r) /\ report.no # 0 /\ links[a].no = 0
      BY <1>2 DEF BeginLink
    <2> HIDE DEF r
    <2>4. Current(r)
      BY <2>1, <2>2, <2>3 DEF Current
    <2> QED BY <2>3, <2>4, StartAlone
  <1>3. CASE BeginUnlink(c, a)
    <2> DEFINE r == [Idle EXCEPT !.op = "unlink", !.approach = a, !.id = links[a].id]
    <2>1. r.op = "unlink" /\ r.approach = a
      BY DEF Idle
    <2>2. Start(c, r) /\ approach[a].status = "Draft"
      BY <1>3 DEF BeginUnlink
    <2> HIDE DEF r
    <2>3. Current(r)
      BY <2>1, <2>2 DEF Current
    <2> QED BY <2>2, <2>3, StartAlone
  <1>4. CASE BeginApproachUpdate(c, a)
    <2>1. PICK s \in {approach[a].status} \cup (ALLOWED_TRANSITIONS[approach[a].status] \cap Asked) :
            Start(c, [Idle EXCEPT !.op = "approach", !.approach = a,
                                  !.ca = [approach[a] EXCEPT !.status = s]])
      BY <1>4 DEF BeginApproachUpdate
    <2>2. approach[a].status # "Draft" => s # "Draft"
      BY <1>1, <2>1 DEF ALLOWED_TRANSITIONS, ApproachRow, ApproachStatus
    <2> DEFINE ca == [approach[a] EXCEPT !.status = s]
               r == [Idle EXCEPT !.op = "approach", !.approach = a, !.ca = ca]
    <2>3. r.op = "approach" /\ r.approach = a /\ r.ca = ca
      BY DEF Idle
    <2>4. Start(c, r) /\ ca.status = s
      BY <1>1, <2>1 DEF ApproachRow
    <2> HIDE DEF ca, r
    <2>5. Current(r)
      BY <2>2, <2>3, <2>4 DEF Current
    <2> QED BY <2>4, <2>5, StartAlone
  <1>5. CASE BeginAddEntity(c, a)
    <2> DEFINE r == [Idle EXCEPT !.op = "addEntity", !.approach = a]
    <2>1. r.op = "addEntity" /\ r.approach = a
      BY DEF Idle
    <2>2. Start(c, r) /\ entity[a] = "absent"
      BY <1>5 DEF BeginAddEntity
    <2> HIDE DEF r
    <2>3. Current(r)
      BY <2>1, <2>2 DEF Current
    <2> QED BY <2>2, <2>3, StartAlone
  <1>6. CASE BeginRemoveEntity(c, a)
    <2> DEFINE e == IF approach[a].status = "Draft" THEN "deleted" ELSE Deactivated(entity[a])
               r == [Idle EXCEPT !.op = "removeEntity", !.approach = a, !.entity = e]
    <2>1. r.op = "removeEntity" /\ r.approach = a /\ r.entity = e
      BY DEF Idle
    <2>2. Start(c, r)
      BY <1>6 DEF BeginRemoveEntity
    <2>3. approach[a].status # "Draft" /\ entity[a] \in {"filed", "filedInactive"} =>
             e \in {"filed", "filedInactive"}
      BY DEF Deactivated
    <2> HIDE DEF e, r
    <2>4. Current(r)
      BY <2>1, <2>3 DEF Current
    <2> QED BY <2>2, <2>4, StartAlone
  <1> QED BY <1>2, <1>3, <1>4, <1>5, <1>6

\* A whole row that is saved as it was read still finds its report.
LEMMA SavedAlone ==
    ASSUME Typed, AloneInv, NEW row, Names(row, report), Save(row)
    PROVE  report' = row
  BY DEF Save, CanSave, Names

LEMMA EndsAlone ==
    ASSUME OneClient, Typed, AloneInv, NEW c \in Clients,
           EndUpdate(c) \/ EndRevert(c) \/ EndLink(c)
    PROVE  Filing'
  <1> DEFINE r == request[c]
  <1>1. Filing /\ Current(r) /\ r.row \in Row /\ r.approach \in Approaches \cup {None}
    BY DEF AloneInv, RequestsCurrent, Typed, Request
  <1>2. versions' = versions /\ target' = target
    BY DEF EndUpdate, EndRevert, EndLink, Finish
  <1>3. ASSUME report' = r.row, report.no # 0, Names(r.row, report)
        PROVE  NoReportIsEmpty' /\ Names(report', report)
    BY <1>3 DEF NoReportIsEmpty, Names
  <1>4. CASE EndUpdate(c)
    <2>1. report.no # 0 /\ Names(r.row, report) /\ (versions # <<>> => r.row.trajectory = report.trajectory)
      BY <1>1, <1>4 DEF EndUpdate, Finish, Current
    <2>2. report' = r.row /\ UNCHANGED <<links, approach, entity>>
      BY <1>4, <2>1, SavedAlone DEF EndUpdate
    <2> HIDE DEF r
    <2> QED BY <1>1, <1>2, <1>3, <2>1, <2>2, FilingKept, NothingFiled
  <1>5. CASE EndRevert(c)
    <2>1. report.no # 0 /\ Names(r.row, report) /\ (versions # <<>> => r.row.trajectory = report.trajectory)
      BY <1>1, <1>5 DEF EndRevert, Finish, Current
    <2>2. report' = r.row /\ UNCHANGED <<approach, entity>>
      BY <1>5, <2>1, SavedAlone DEF EndRevert
    <2>3. \A a \in Approaches : links'[a] = links[a] \/ (links[a].added = 0 /\ links'[a] = NoLink)
      BY <1>5 DEF EndRevert
    <2>4. NoLink.added = 0
      BY DEF NoLink
    <2> HIDE DEF r
    <2>5. \A a \in Approaches :
             /\ links[a].added # 0 => links'[a] = links[a]
             /\ links'[a].added # 0 => links'[a] = links[a]
      BY <2>3, <2>4
    <2> QED BY <1>1, <1>2, <1>3, <2>1, <2>2, <2>5, FilingKept, NothingFiled
  <1>6. CASE EndLink(c)
    <2>1. /\ report.no # 0 /\ Names(r.row, report) /\ r.row.trajectory = report.trajectory
          /\ links[r.approach].no = 0
      BY <1>1, <1>6 DEF EndLink, Finish, Current
    <2>2. report' \in {report, r.row} /\ UNCHANGED <<approach, entity>>
      BY <1>6, <2>1, SavedAlone DEF EndLink
    <2>3. \A a \in Approaches :
             \/ links'[a] = links[a]
             \/ a = r.approach /\ links'[a].added = 0
      <3>1. \/ links' = links
            \/ links' = [links EXCEPT ![r.approach] =
                           [no |-> r.row.no, added |-> 0, id |-> FreshId(r.approach)]]
        BY <1>6 DEF EndLink
      <3> HIDE DEF r
      <3> QED BY <3>1 DEF Typed
    <2>4. NoReportIsEmpty' /\ Names(report', report) /\ report'.trajectory = report.trajectory
      BY <1>1, <1>3, <2>1, <2>2 DEF NoReportIsEmpty, Names
    <2> HIDE DEF r
    <2> QED BY <1>1, <1>2, <2>1, <2>2, <2>3, <2>4, FilingKept
  <1> QED BY <1>4, <1>5, <1>6

LEMMA OtherEndsAlone ==
    ASSUME OneClient, Typed, AloneInv, NEW c \in Clients,
           \/ EndDiscard(c) \/ EndUnlink(c)
           \/ EndApproachUpdate(c) \/ EndAddEntity(c) \/ EndRemoveEntity(c)
    PROVE  Filing'
  <1> DEFINE r == request[c]
             a == r.approach
  <1>1. Filing /\ Current(r)
    BY DEF AloneInv, RequestsCurrent
  <1>2. versions' = versions /\ target' = target
    BY DEF EndDiscard, EndUnlink, EndApproachUpdate, EndAddEntity, EndRemoveEntity, Finish
  <1>3. CASE EndDiscard(c)
    <2>1. r.row = report /\ versions = <<>>
      BY <1>1, <1>3 DEF EndDiscard, Finish, Current
    <2>2. report' = NoReport /\ NoReport.general = None
      BY <1>3, <2>1 DEF EndDiscard, NoReport
    <2> QED BY <1>2, <2>1, <2>2, NothingFiled DEF NoReportIsEmpty
  <1>4. ASSUME report' = report
        PROVE  NoReportIsEmpty' /\ Names(report', report) /\ report'.trajectory = report.trajectory
    BY <1>1, <1>4 DEF Filing, NoReportIsEmpty, Names
  <1>5. CASE EndUnlink(c)
    <2>1. approach[a].status = "Draft"
      BY <1>1, <1>5 DEF EndUnlink, Finish, Current
    <2>2. report' = report /\ UNCHANGED <<approach, entity>>
      BY <1>5 DEF EndUnlink
    <2>3. \A b \in Approaches : links'[b] = links[b] \/ (b = a /\ links'[b].added = 0)
      <3>1. links' = [links EXCEPT ![a] = NoLink] \/ links' = links
        BY <1>5 DEF EndUnlink
      <3> HIDE DEF a
      <3> QED BY <3>1 DEF Typed, NoLink
    <2> HIDE DEF a, r
    <2> QED BY <1>1, <1>2, <1>4, <2>1, <2>2, <2>3, FilingKept
  <1>6. CASE EndApproachUpdate(c)
    <2>1. approach[a].status # "Draft" => r.ca.status # "Draft"
      BY <1>1, <1>6 DEF EndApproachUpdate, Finish, Current
    <2>2. /\ approach' = [approach EXCEPT ![a] = r.ca]
          /\ report' = report /\ UNCHANGED <<links, entity>>
      BY <1>6 DEF EndApproachUpdate
    <2> HIDE DEF a, r
    <2>3. \A b \in Approaches : approach[b].status # "Draft" => approach'[b].status # "Draft"
      BY <2>1, <2>2 DEF Typed
    <2> QED BY <1>1, <1>2, <1>4, <2>2, <2>3, FilingKept
  <1>7. CASE EndAddEntity(c) \/ EndRemoveEntity(c)
    <2>1. report' = report /\ UNCHANGED <<links, approach>>
      BY <1>7 DEF EndAddEntity, EndRemoveEntity
    <2>2. \A b \in Approaches :
             approach[b].status # "Draft" /\ entity[b] \in {"filed", "filedInactive"} =>
                entity'[b] \in {"filed", "filedInactive"}
      <3>1. CASE EndAddEntity(c)
        <4>1. entity[a] = "absent"
          BY <1>1, <3>1 DEF EndAddEntity, Finish, Current
        <4>2. entity' = [entity EXCEPT ![a] = "draft"]
          BY <3>1, <4>1 DEF EndAddEntity, Typed
        <4> HIDE DEF a
        <4> QED BY <4>1, <4>2 DEF Typed
      <3>2. CASE EndRemoveEntity(c)
        <4>1. approach[a].status # "Draft" /\ entity[a] \in {"filed", "filedInactive"} =>
                 r.entity \in {"filed", "filedInactive"}
          BY <1>1, <3>2 DEF EndRemoveEntity, Finish, Current
        <4>2. entity' = [entity EXCEPT ![a] = r.entity]
          BY <3>2 DEF EndRemoveEntity
        <4> HIDE DEF a, r
        <4> QED BY <4>1, <4>2 DEF Typed
      <3> QED BY <1>7, <3>1, <3>2
    <2> HIDE DEF r, a
    <2> QED BY <1>1, <1>2, <1>4, <2>1, <2>2, FilingKept
  <1> QED BY <1>3, <1>5, <1>6, <1>7

\* A filing with nothing else going on.  The approaches it lists for the first
\* time are those whose link has no number, all of them drafts.
LEMMA FileAlone ==
    ASSUME OneClient, Typed, AloneInv, NEW c \in Clients, File(c)
    PROVE  Filing'
  <1> DEFINE linked == LinkedTo(report.no)
             drafts == {b \in linked : approach[b].status = "Draft"}
             newly == \E b \in drafts : links[b].added = 0
             next == NextVersion(report, newly)
             added(b) == IF links[b].added = 0 THEN next.major ELSE links[b].added
             lists == [b \in linked |-> [added |-> added(b), ref |-> approach[b].ref,
                                         entity |-> Flipped(entity[b])]]
             v == [no |-> report.no, major |-> next.major, minor |-> next.minor,
                   general |-> report.general, trajectory |-> report.trajectory, lists |-> lists]
             n == Len(versions)
  <1>1. request[c].row = report /\ report.no # 0
    BY DEF AloneInv, RequestsCurrent, Current, File
  <1>2. /\ \A b \in linked \ drafts : links[b].added # 0
        /\ approach' = [b \in Approaches |-> IF b \in drafts THEN MarkSubmitted(b) ELSE approach[b]]
        /\ entity' = [b \in Approaches |-> IF b \in linked THEN Flipped(entity[b]) ELSE entity[b]]
        /\ links' = [b \in Approaches |-> IF b \in linked THEN [links[b] EXCEPT !.added = added(b)]
                                          ELSE links[b]]
        /\ versions' = Append(versions, v)
        /\ target' = report.trajectory
        /\ report' = [report EXCEPT !.status = "Submitted", !.major = next.major, !.minor = next.minor]
    BY <1>1 DEF File
  <1>3. Filing /\ report \in Row /\ versions \in Seq(Version) /\ links \in [Approaches -> Link]
    BY DEF AloneInv, Typed
  <1>4. versions # <<>> => Filed(report.no)
    BY <1>3, OwnVersions
  <1>5. versions = <<>> => ~Filed(report.no)
    BY DEF Filed, VersionsOf
  <1>6. /\ versions = <<>> => next = [major |-> 1, minor |-> 0]
        /\ versions # <<>> /\ newly => next = [major |-> report.major + 1, minor |-> 0]
        /\ versions # <<>> /\ ~newly => next = [major |-> report.major, minor |-> report.minor + 1]
    <2> HIDE DEF newly
    <2> QED BY <1>4, <1>5 DEF NextVersion
  <1>7. /\ v.no = report.no /\ v.major = next.major /\ v.minor = next.minor
        /\ v.trajectory = report.trajectory /\ DOMAIN v.lists = linked
        /\ \A b \in linked : /\ v.lists[b].added = added(b)
                             /\ v.lists[b].entity = Flipped(entity[b])
    OBVIOUS
  <1>8. /\ linked \subseteq Approaches /\ drafts \subseteq linked
        /\ \A b \in Approaches : b \in linked <=> links[b].no = report.no
        /\ newly <=> \E b \in linked : links[b].added = 0
    BY <1>2 DEF LinkedTo
  <1>9. \A b \in linked : added(b) # 0
    <2> SUFFICES ASSUME NEW b \in linked, links[b].added = 0 PROVE next.major # 0
      OBVIOUS
    <2>1. newly
      BY <1>8
    <2>2. next.major \in {1, report.major + 1}
      <3> HIDE DEF newly, next
      <3> QED BY <1>6, <2>1
    <2>3. report.major \in Nat
      BY <1>3 DEF Row
    <2> HIDE DEF next
    <2> QED BY <2>2, <2>3
  <1>10. n \in Nat /\ versions' \in Seq(Version \cup {v}) /\ Len(versions') = n + 1
         /\ versions'[n + 1] = v /\ DOMAIN versions = 1 .. n /\ DOMAIN versions' = 1 .. (n + 1)
         /\ \A i \in 1 .. n : versions'[i] = versions[i]
    <2> HIDE DEF v
    <2> QED BY <1>2, <1>3
  <1>11. /\ report'.no = report.no /\ report'.major = next.major /\ report'.minor = next.minor
         /\ report'.general = report.general /\ report'.trajectory = report.trajectory
    <2> HIDE DEF next
    <2> QED BY <1>2, <1>3 DEF Row
  <1>12. \A b \in linked : /\ links'[b].no = report.no /\ links'[b].added = added(b)
                           /\ approach'[b].status # "Draft"
                           /\ entity'[b] = Flipped(entity[b])
    <2> SUFFICES ASSUME NEW b \in linked
                 PROVE  /\ links'[b].no = report.no /\ links'[b].added = added(b)
                        /\ approach'[b].status # "Draft"
                        /\ entity'[b] = Flipped(entity[b])
      OBVIOUS
    <2>1. b \in Approaches /\ links[b].no = report.no /\ links[b] \in Link
      BY <1>3, <1>8
    <2> DEFINE l == added(b)
    <2>2. links'[b] = [links[b] EXCEPT !.added = l] /\ entity'[b] = Flipped(entity[b])
      BY <1>2, <2>1
    <2>3. approach'[b] = IF b \in drafts THEN MarkSubmitted(b) ELSE approach[b]
      BY <1>2, <2>1
    <2>4. approach'[b].status # "Draft"
      BY <2>3 DEF MarkSubmitted
    <2> HIDE DEF l, drafts
    <2>5. links'[b].no = report.no /\ links'[b].added = l
      BY <2>1, <2>2 DEF Link
    <2> QED BY <2>2, <2>4, <2>5 DEF l
  <1>13. \A e \in {"filed", "filedInactive"} : Flipped(e) = e
    BY DEF Flipped
  <1>14. \A b \in Approaches : b \notin linked => links'[b] = links[b]
    BY <1>2
  <1> HIDE DEF v, lists, linked, drafts, newly, next, added, n
  <1>15. ASSUME NEW i \in 1 .. n
         PROVE  /\ versions[i].no = report.no /\ versions[i].trajectory = report.trajectory
                /\ \A b \in DOMAIN versions[i].lists :
                     /\ b \in linked
                     /\ versions[i].lists[b].added # 0
                     /\ links[b].added = versions[i].lists[b].added
                     /\ versions[i].lists[b].entity \in {"filed", "filedInactive"} =>
                          entity[b] \in {"filed", "filedInactive"}
    <2>1. /\ versions[i].no = report.no /\ versions[i].trajectory = report.trajectory
          /\ \A b \in DOMAIN versions[i].lists :
                     /\ versions[i].lists[b].added # 0
                     /\ links[b].no = report.no
                     /\ links[b].added = versions[i].lists[b].added
                     /\ versions[i].lists[b].entity \in {"filed", "filedInactive"} =>
                          entity[b] \in {"filed", "filedInactive"}
      BY <1>3, <1>10 DEF Filing, FiledStays, ListedWithNumber
    <2>2. DOMAIN versions[i].lists \subseteq Approaches
      BY <1>10, ListsTyped
    <2> QED BY <1>8, <2>1, <2>2
  <1>16. FiledStays'
    <2>1. ASSUME NEW i \in 1 .. n
          PROVE  /\ versions'[i].no = report'.no /\ versions'[i].trajectory = report'.trajectory
                 /\ \A b \in DOMAIN versions'[i].lists :
                      /\ links'[b].no = versions'[i].no
                      /\ links'[b].added = versions'[i].lists[b].added
                      /\ approach'[b].status # "Draft"
                      /\ versions'[i].lists[b].entity \in {"filed", "filedInactive"} =>
                           entity'[b] \in {"filed", "filedInactive"}
      <3>1. versions'[i] = versions[i]
        BY <1>10
      <3>2. \A b \in linked : links[b].added # 0 => links'[b].added = links[b].added
        BY <1>12 DEF added
      <3> QED BY <3>1, <3>2, <1>11, <1>12, <1>13, <1>15
    <2>2. /\ v.no = report'.no /\ v.trajectory = report'.trajectory /\ target' = report'.trajectory
          /\ \A b \in DOMAIN v.lists :
               /\ links'[b].no = v.no
               /\ links'[b].added = v.lists[b].added
               /\ approach'[b].status # "Draft"
               /\ v.lists[b].entity \in {"filed", "filedInactive"} =>
                    entity'[b] \in {"filed", "filedInactive"}
      BY <1>2, <1>7, <1>11, <1>12
    <2>3. \A i \in DOMAIN versions' : i \in 1 .. n \/ (i = n + 1 /\ versions'[i] = v)
      BY <1>10
    <2> QED BY <2>1, <2>2, <2>3 DEF FiledStays
  <1>17. LastVersion'
    <2>1. linked = {b \in Approaches : links'[b].no = report'.no /\ links'[b].added # 0}
      BY <1>8, <1>9, <1>11, <1>12, <1>14
    <2>2. versions'[Len(versions')] = v
      BY <1>10
    <2> QED BY <1>1, <1>7, <1>11, <2>1, <2>2 DEF LastVersion
  <1>18. ListedWithNumber'
    <2>1. \A b \in DOMAIN v.lists : v.lists[b].added # 0
      BY <1>7, <1>9
    <2>2. \A i \in DOMAIN versions' : (i \in 1 .. n /\ versions'[i] = versions[i]) \/ versions'[i] = v
      BY <1>10
    <2> QED BY <1>15, <2>1, <2>2 DEF ListedWithNumber
  <1>19. VersionsAreInOrder'
    <2> SUFFICES ASSUME NEW i \in 1 .. n
                 PROVE  LET old == versions'[i]
                            new == versions'[i + 1]
                        IN  IF DOMAIN new.lists = DOMAIN old.lists
                            THEN new.major = old.major /\ new.minor = old.minor + 1
                            ELSE /\ DOMAIN old.lists \subseteq DOMAIN new.lists
                                 /\ new.major = old.major + 1 /\ new.minor = 0
      BY <1>10 DEF VersionsAreInOrder
    <2>1. CASE i # n
      <3>1. i \in 1 .. n - 1 /\ versions'[i] = versions[i] /\ versions'[i + 1] = versions[i + 1]
        BY <1>10, <2>1
      <3> QED BY <1>3, <3>1 DEF Filing, VersionsAreInOrder, n
    <2>2. CASE i = n
      <3>1. versions # <<>> /\ versions'[i] = versions[n] /\ versions'[i + 1] = v
        BY <1>10, <2>2
      <3>2. /\ versions[n].major = report.major /\ versions[n].minor = report.minor
            /\ DOMAIN versions[n].lists = {b \in Approaches : links[b].no = report.no /\ links[b].added # 0}
        BY <1>3, <3>1 DEF Filing, LastVersion, n
      <3>3. DOMAIN versions[n].lists \subseteq linked
        BY <1>8, <3>2
      <3>4. DOMAIN versions[n].lists = linked <=> ~newly
        BY <1>8, <3>2
      <3>5. CASE newly
        <4>1. v.major = report.major + 1 /\ v.minor = 0
          BY <1>6, <1>7, <3>1, <3>5
        <4> QED BY <1>7, <3>1, <3>2, <3>3, <3>4, <3>5, <4>1
      <3>6. CASE ~newly
        <4>1. v.major = report.major /\ v.minor = report.minor + 1
          BY <1>6, <1>7, <3>1, <3>6
        <4> QED BY <1>7, <3>1, <3>2, <3>4, <3>6, <4>1
      <3> QED BY <3>5, <3>6
    <2> QED BY <2>1, <2>2
  <1>20. NoReportIsEmpty'
    BY <1>1, <1>11 DEF NoReportIsEmpty
  <1> QED BY <1>16, <1>17, <1>18, <1>19, <1>20 DEF Filing

LEMMA GenerateAlone ==
    ASSUME Typed, AloneInv, NEW c \in Clients, GenerateDraft(c)
    PROVE  Filing'
  <1>1. versions = <<>>
    <2> SUFFICES ASSUME versions # <<>> PROVE FALSE
      OBVIOUS
    <2>1. report.no # 0
      BY DEF AloneInv, Filing, LastVersion
    <2> QED BY <2>1 DEF GenerateDraft
  <1>2. versions' = versions
    BY DEF GenerateDraft
  <1>3. NoReportIsEmpty'
    BY DEF GenerateDraft, NoReportIsEmpty
  <1> QED BY <1>1, <1>2, <1>3, NothingFiled

LEMMA StepAlone ==
    ASSUME OneClient, Typed, AloneInv, [IRNext]_irvars
    PROVE  AloneInv'
  <1>1. CASE UNCHANGED irvars
    <2>1. UNCHANGED <<report, links, approach, entity, versions, target, request>>
      BY <1>1 DEF irvars
    <2>2. RequestsCurrent'
      BY <2>1 DEF AloneInv, RequestsCurrent, Current
    <2>3. Filing'
      BY <2>1 DEF AloneInv, Filing, VersionsAreInOrder, FiledStays, LastVersion, ListedWithNumber,
                  NoReportIsEmpty
    <2> QED BY <2>2, <2>3 DEF AloneInv
  <1>2. ASSUME NEW c \in Clients, NEW d \in Clients, GenerateDraft(c)
        PROVE  request[d] = Idle
    BY <1>2 DEF OneClient, GenerateDraft
  <1>3. ASSUME NEW c \in Clients, GenerateDraft(c)
        PROVE  AloneInv'
    <2>1. ASSUME NEW d \in Clients PROVE Current(request[d])'
      <3>1. request'[d].op = "idle"
        BY <1>2, <1>3 DEF GenerateDraft, Idle
      <3> QED BY <3>1 DEF Current
    <2> QED BY <1>3, <2>1, GenerateAlone DEF RequestsCurrent, AloneInv
  <1>4. ASSUME NEW c \in Clients,
               \/ EndUpdate(c) \/ EndDiscard(c) \/ EndRevert(c) \/ File(c) \/ EndLink(c)
               \/ EndUnlink(c) \/ EndApproachUpdate(c) \/ EndAddEntity(c) \/ EndRemoveEntity(c)
        PROVE  AloneInv'
    <2>1. request' = [request EXCEPT ![c] = Idle]
      BY <1>4 DEF EndUpdate, EndDiscard, EndRevert, File, EndLink, EndUnlink, EndApproachUpdate,
                  EndAddEntity, EndRemoveEntity, Finish
    <2>2. Filing'
      BY <1>4, EndsAlone, OtherEndsAlone, FileAlone
    <2> QED BY <2>1, <2>2, IdleAlone DEF AloneInv
  <1>5. ASSUME NEW c \in Clients, Fail(c)
        PROVE  AloneInv'
    <2>1. Filing'
      BY <1>5 DEF Fail, AloneInv, Filing, VersionsAreInOrder, FiledStays, LastVersion,
                  ListedWithNumber, NoReportIsEmpty
    <2> QED BY <1>5, <2>1, IdleAlone DEF Fail, AloneInv
  <1> QED BY <1>1, <1>3, <1>4, <1>5, BeginsAlone, ApproachBeginsAlone DEF IRNext

LEMMA AlwaysAlone ==
    ASSUME OneClient
    PROVE  IRSpec => []AloneInv
  <1>1. IRInit => AloneInv
    <2> SUFFICES ASSUME IRInit PROVE AloneInv
      OBVIOUS
    <2>1. RequestsCurrent
      BY DEF IRInit, RequestsCurrent, Current, Idle
    <2>2. versions = <<>> /\ NoReportIsEmpty
      BY DEF IRInit, NoReportIsEmpty, NoReport
    <2>3. Len(versions) = 0 /\ DOMAIN versions = {}
      BY <2>2
    <2>4. Filing
      BY <2>2, <2>3 DEF Filing, VersionsAreInOrder, FiledStays, LastVersion, ListedWithNumber
    <2> QED BY <2>1, <2>4 DEF AloneInv
  <1>2. IInv /\ AloneInv /\ [IRNext]_irvars => AloneInv'
    BY StepAlone DEF IInv
  <1> QED BY <1>1, <1>2, Always, PTL DEF IRSpec

\* With one request at a time, versions are numbered in the order they are filed,
\* a major one for each filing that lists an approach for the first time.
THEOREM VersionsNumbered ==
    ASSUME OneClient
    PROVE  IRSpec => []VersionsAreInOrder
  <1>1. AloneInv => VersionsAreInOrder
    BY DEF AloneInv, Filing
  <1> QED BY <1>1, AlwaysAlone, PTL

\* With one request at a time, what was filed stays: no edit, discard, removal or
\* transition takes a filed trajectory, link, approach or entity back.
THEOREM FiledForGood ==
    ASSUME OneClient
    PROVE  IRSpec => []FiledStays
  <1>1. AloneInv => FiledStays
    BY DEF AloneInv, Filing
  <1> QED BY <1>1, AlwaysAlone, PTL
=============================================================================
