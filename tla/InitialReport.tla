---------------------------- MODULE InitialReport ----------------------------
(***************************************************************************)
(* The initial report of one NDC period and the cooperative approaches it  *)
(* covers.                                                                 *)
(*                                                                         *)
(* The report is one row that is edited in place; a submission freezes it  *)
(* in a version.  Its links, the approaches and their authorized entities  *)
(* are rows of their own, and every request but the submission works on    *)
(* them without a transaction: it reads what it needs, checks it, and      *)
(* later saves whole rows as it read them, with its own change.  So each   *)
(* request is two steps, what it reads and what it writes.  The            *)
(* submission reads the report the same way and does the rest in one       *)
(* transaction, which locks the links; it is one step here.                *)
(*                                                                         *)
(* The fields of a report are abstracted to `general`, which may be edited *)
(* at any time, None while some are missing, and `trajectory`, which is    *)
(* fixed by the first filing.                                              *)
(***************************************************************************)
EXTENDS Naturals, Sequences, FiniteSets

CONSTANTS
    Clients,      \* requests in progress at one time
    Approaches,   \* cooperative approaches of the registry
    Generals,     \* values of the general fields
    Trajectories, \* values of the fields that describe the trajectory
    Asked,        \* bound: the statuses an update asks for
    MaxReports,   \* bound: reports generated
    MaxVersions   \* bound: versions filed

ASSUME ReportAssumption ==
    /\ Clients # {} /\ IsFiniteSet(Clients) /\ Trajectories # {}
    /\ MaxReports \in Nat /\ MaxVersions \in Nat

ApproachStatus == {"Draft", "Submitted", "Active", "Suspended", "Completed", "Revoked"}

ASSUME AskedAssumption == Asked \subseteq ApproachStatus

VARIABLES
    report,     \* the row of the period's report, number 0 when there is none
    lastReport, \* the counter of report numbers
    links,      \* per approach: its report (0 when it has none), the major version
                \* that added it (0 before it is filed), and the row's id
    approach,   \* per approach: its status and its reference, 0 before it has one
    minted,     \* per approach: references minted for it
    entity,     \* per approach: one authorized entity
    versions,   \* filed versions, in the order they were filed
    target,     \* the trajectory of the period's ndc_target row, or None
    request     \* what each client is in the middle of

irvars == <<report, lastReport, links, approach, minted, entity, versions, target,
            request>>

None == "none"

NoReport == [no |-> 0, status |-> "Draft", major |-> 0, minor |-> 0,
             general |-> None, trajectory |-> None]

NoLink == [no |-> 0, added |-> 0, id |-> 0]

\* An authorized entity is removed for good only before its approach is filed.
EntityState == {"absent", "draft", "filed", "draftInactive", "filedInactive", "deleted"}

Idle == [op |-> "idle", row |-> NoReport, approach |-> None, flag |-> FALSE, id |-> 0,
         ca |-> [status |-> "Draft", ref |-> 0], entity |-> "absent"]

IRInit ==
    /\ report = NoReport
    /\ lastReport = 0
    /\ links = [a \in Approaches |-> NoLink]
    /\ approach = [a \in Approaches |-> [status |-> "Draft", ref |-> 0]]
    /\ minted = [a \in Approaches |-> 0]
    /\ entity \in [Approaches -> {"absent", "draft"}]
    /\ versions = <<>>
    /\ target = None
    /\ request = [c \in Clients |-> Idle]

VersionsOf(no) == {i \in DOMAIN versions : versions[i].no = no}
Filed(no) == VersionsOf(no) # {}
LinkedTo(no) == {a \in Approaches : links[a].no = no}

\* A client starts a request, with what it has read.
Start(c, r) ==
    /\ request[c] = Idle
    /\ request' = [request EXCEPT ![c] = r]
    /\ UNCHANGED <<report, lastReport, links, approach, minted, entity, versions, target>>

Finish(c, op) ==
    /\ request[c].op = op
    /\ request' = [request EXCEPT ![c] = Idle]
    /\ UNCHANGED <<lastReport, minted, versions, target>>

\* The row may be saved: no other report of the period holds it.  A row that was
\* deleted meanwhile is inserted again.
CanSave(row) == report.no \in {0, row.no}
Save(row) == report' = IF CanSave(row) THEN row ELSE report

\* Mutants of Reopened: a status of its own, and a report that stays submitted.
ReopenedByName(row) == [row EXCEPT !.status = "Reopened"]
KeptSubmitted(row) == row

\* Any edit reopens a submitted report.
Reopened(row) == [row EXCEPT !.status = "Draft"]

-----------------------------------------------------------------------------
(* The report *)

GenerateDraft(c) ==
    /\ request[c] = Idle
    /\ report.no = 0
    /\ lastReport < MaxReports
    /\ lastReport' = lastReport + 1
    /\ \E t \in Trajectories :
         report' = [no |-> lastReport', status |-> "Draft", major |-> 1, minor |-> 0,
                    general |-> None, trajectory |-> t]
    /\ UNCHANGED <<links, approach, minted, entity, versions, target, request>>

\* update: the trajectory is locked once a version has been filed.
BeginUpdate(c) ==
    /\ report.no # 0
    /\ \E g \in Generals, t \in Trajectories :
         /\ Filed(report.no) => t = report.trajectory
         /\ Start(c, [Idle EXCEPT !.op = "update",
                        !.row = [Reopened(report) EXCEPT !.general = g, !.trajectory = t]])

EndUpdate(c) ==
    /\ Finish(c, "update")
    /\ Save(request[c].row)
    /\ UNCHANGED <<links, approach, entity>>

\* The row as the version it names has it.
Reverted(row, i) ==
    [row EXCEPT !.status = "Submitted", !.general = versions[i].general,
                !.trajectory = versions[i].trajectory]

\* discardDraft: with nothing filed the report goes; else it is reverted to the
\* version it names.
BeginDiscard(c) ==
    /\ report.no # 0
    /\ report.status = "Draft"
    /\ \/ /\ ~Filed(report.no)
          /\ Start(c, [Idle EXCEPT !.op = "discard", !.row = report])
       \/ \E i \in VersionsOf(report.no) :
            /\ versions[i].major = report.major
            /\ versions[i].minor = report.minor
            /\ Start(c, [Idle EXCEPT !.op = "revert", !.row = Reverted(report, i)])

EndDiscard(c) ==
    LET no == request[c].row.no IN
    /\ Finish(c, "discard")
    /\ links' = [a \in Approaches |-> IF links[a].no = no THEN NoLink ELSE links[a]]
    /\ report' = IF report.no = no THEN NoReport ELSE report
    /\ UNCHANGED <<approach, entity>>

EndRevert(c) ==
    LET no == request[c].row.no IN
    /\ Finish(c, "revert")
    /\ links' = [a \in Approaches |-> IF links[a].no = no /\ links[a].added = 0
                                      THEN NoLink ELSE links[a]]
    /\ Save(request[c].row)
    /\ UNCHANGED <<approach, entity>>

-----------------------------------------------------------------------------
(* The approaches of the report *)

\* An id no request still holds (ids are generated; only equality matters).
FreshId(a) ==
    CHOOSE i \in 1 .. Cardinality(Clients) + 1 :
        \A c \in Clients : ~(request[c].op = "unlink" /\ request[c].approach = a /\ request[c].id = i)

\* addCooperativeApproach: a draft that no report has yet.
BeginLink(c, a) ==
    /\ report.no # 0
    /\ approach[a].status = "Draft"
    /\ links[a].no = 0
    /\ Start(c, [Idle EXCEPT !.op = "link", !.approach = a, !.row = Reopened(report),
                             !.flag = (report.status = "Submitted")])

\* Mutant of EndLink: the link gets the major version of the report at once.
EndLinkStamped(c) ==
    LET r == request[c] IN
    /\ Finish(c, "link")
    /\ IF r.flag THEN Save(r.row) ELSE UNCHANGED report
    /\ links' = IF links[r.approach].no # 0 THEN links
                ELSE [links EXCEPT ![r.approach] =
                        [no |-> r.row.no, added |-> r.row.major, id |-> FreshId(r.approach)]]
    /\ UNCHANGED <<approach, entity>>

\* The report is reopened if it was seen submitted, and the link saved unless
\* another has come in between.
EndLink(c) ==
    LET r == request[c] IN
    /\ Finish(c, "link")
    /\ IF r.flag THEN Save(r.row) ELSE UNCHANGED report
    /\ links' = IF links[r.approach].no # 0 \/ (r.flag /\ ~CanSave(r.row))
                THEN links
                ELSE [links EXCEPT ![r.approach] =
                        [no |-> r.row.no, added |-> 0, id |-> FreshId(r.approach)]]
    /\ UNCHANGED <<approach, entity>>

\* Mutant of BeginUnlink: any approach may be taken off.
BeginUnlinkAny(c, a) ==
    /\ links[a].no # 0
    /\ Start(c, [Idle EXCEPT !.op = "unlink", !.approach = a, !.id = links[a].id])

\* removeCooperativeApproach: as long as the approach is a draft.
BeginUnlink(c, a) ==
    /\ links[a].no # 0
    /\ approach[a].status = "Draft"
    /\ Start(c, [Idle EXCEPT !.op = "unlink", !.approach = a, !.id = links[a].id])

EndUnlink(c) ==
    LET r == request[c] IN
    /\ Finish(c, "unlink")
    /\ links' = IF links[r.approach].id = r.id
                THEN [links EXCEPT ![r.approach] = NoLink] ELSE links
    /\ UNCHANGED <<report, approach, entity>>

-----------------------------------------------------------------------------
(* Filing *)

\* submitReport reads a complete report, in whatever status, with a link.
BeginSubmit(c) ==
    /\ report.general # None
    /\ LinkedTo(report.no) # {}
    /\ Start(c, [Idle EXCEPT !.op = "submit", !.row = report])

\* Mutant of NextVersion: the minor number goes on in the next major version.
NextVersionOnward(row, newly) ==
    IF ~Filed(row.no) THEN [major |-> 1, minor |-> 0]
    ELSE [major |-> row.major + IF newly THEN 1 ELSE 0, minor |-> row.minor + 1]

\* A new approach begins a major version, anything else is a minor one.
NextVersion(row, newly) ==
    IF ~Filed(row.no) THEN [major |-> 1, minor |-> 0]
    ELSE IF newly THEN [major |-> row.major + 1, minor |-> 0]
    ELSE [major |-> row.major, minor |-> row.minor + 1]

Flipped(e) == CASE e = "draft" -> "filed" [] e = "draftInactive" -> "filedInactive" [] OTHER -> e

\* markSubmitted: a draft becomes submitted and has a reference minted if it has none.
MarkSubmitted(a) ==
    [status |-> "Submitted", ref |-> IF approach[a].ref = 0 THEN minted[a] + 1 ELSE approach[a].ref]

\* The transaction is rolled back when a link that was never filed is to an
\* approach that is no draft, the version exists, or the period is taken.
File(c) ==
    LET row == request[c].row
        linked == LinkedTo(row.no)
        drafts == {a \in linked : approach[a].status = "Draft"}
        newly == \E a \in drafts : links[a].added = 0
        next == NextVersion(row, newly)
        added(a) == IF links[a].added = 0 THEN next.major ELSE links[a].added
    IN  /\ request[c].op = "submit"
        /\ \A a \in linked \ drafts : links[a].added # 0
        /\ \A i \in VersionsOf(row.no) : <<versions[i].major, versions[i].minor>> # <<next.major, next.minor>>
        /\ CanSave(row)
        /\ Len(versions) < MaxVersions
        /\ approach' = [a \in Approaches |-> IF a \in drafts THEN MarkSubmitted(a) ELSE approach[a]]
        /\ minted' = [a \in Approaches |-> IF a \in drafts /\ approach[a].ref = 0
                                           THEN minted[a] + 1 ELSE minted[a]]
        /\ entity' = [a \in Approaches |-> IF a \in linked THEN Flipped(entity[a]) ELSE entity[a]]
        /\ links' = [a \in Approaches |-> IF a \in linked THEN [links[a] EXCEPT !.added = added(a)]
                                          ELSE links[a]]
        /\ versions' = Append(versions,
             [no |-> row.no, major |-> next.major, minor |-> next.minor,
              general |-> row.general, trajectory |-> row.trajectory,
              lists |-> [a \in linked |-> [added |-> added(a), ref |-> approach[a].ref,
                                           entity |-> Flipped(entity[a])]]])
        /\ target' = row.trajectory
        /\ report' = [row EXCEPT !.status = "Submitted", !.major = next.major, !.minor = next.minor]
        /\ request' = [request EXCEPT ![c] = Idle]
        /\ UNCHANGED lastReport

\* The request fails: at a check, in the database, or because its process stops.
Fail(c) ==
    /\ request[c] # Idle
    /\ request' = [request EXCEPT ![c] = Idle]
    /\ UNCHANGED <<report, lastReport, links, approach, minted, entity, versions, target>>

-----------------------------------------------------------------------------
(* Cooperative approaches *)

ALLOWED_TRANSITIONS ==
    [Draft |-> {}, Submitted |-> {"Active"},
     Active |-> {"Suspended", "Completed", "Revoked"},
     Suspended |-> {"Active", "Completed", "Revoked"}, Completed |-> {}, Revoked |-> {}]

\* update: the title and the like, or a status the transitions allow.
BeginApproachUpdate(c, a) ==
    \E s \in {approach[a].status} \cup (ALLOWED_TRANSITIONS[approach[a].status] \cap Asked) :
        Start(c, [Idle EXCEPT !.op = "approach", !.approach = a,
                              !.ca = [approach[a] EXCEPT !.status = s]])

EndApproachUpdate(c) ==
    /\ Finish(c, "approach")
    /\ approach' = [approach EXCEPT ![request[c].approach] = request[c].ca]
    /\ UNCHANGED <<report, links, entity>>

BeginAddEntity(c, a) ==
    /\ approach[a].status \in {"Draft", "Submitted", "Active"}
    /\ entity[a] = "absent"
    /\ Start(c, [Idle EXCEPT !.op = "addEntity", !.approach = a])

EndAddEntity(c) ==
    /\ Finish(c, "addEntity")
    /\ entity' = [entity EXCEPT ![request[c].approach] = IF @ = "absent" THEN "draft" ELSE @]
    /\ UNCHANGED <<report, links, approach>>

Deactivated(e) ==
    CASE e = "draft" -> "draftInactive" [] e = "filed" -> "filedInactive" [] OTHER -> e

\* removeAuthorizedEntity: deleted under a draft, else saved as inactive.
BeginRemoveEntity(c, a) ==
    /\ entity[a] \notin {"absent", "deleted"}
    /\ Start(c, [Idle EXCEPT !.op = "removeEntity", !.approach = a,
                   !.entity = IF approach[a].status = "Draft" THEN "deleted"
                              ELSE Deactivated(entity[a])])

EndRemoveEntity(c) ==
    /\ Finish(c, "removeEntity")
    /\ entity' = [entity EXCEPT ![request[c].approach] = request[c].entity]
    /\ UNCHANGED <<report, links, approach>>

-----------------------------------------------------------------------------
IRNext ==
    \E c \in Clients :
        \/ GenerateDraft(c)
        \/ BeginUpdate(c) \/ EndUpdate(c)
        \/ BeginDiscard(c) \/ EndDiscard(c) \/ EndRevert(c)
        \/ BeginSubmit(c) \/ File(c)
        \/ \E a \in Approaches :
             \/ BeginLink(c, a) \/ BeginUnlink(c, a)
             \/ BeginApproachUpdate(c, a) \/ BeginAddEntity(c, a) \/ BeginRemoveEntity(c, a)
        \/ EndLink(c) \/ EndUnlink(c)
        \/ EndApproachUpdate(c) \/ EndAddEntity(c) \/ EndRemoveEntity(c)
        \/ Fail(c)

IRSpec == IRInit /\ [][IRNext]_irvars

-----------------------------------------------------------------------------
Row == [no : 0 .. MaxReports, status : {"Draft", "Submitted"}, major : Nat, minor : Nat,
        general : Generals \cup {None}, trajectory : Trajectories \cup {None}]

IRTypeOK ==
    /\ report \in Row
    /\ lastReport \in 0 .. MaxReports
    /\ links \in [Approaches -> [no : 0 .. MaxReports, added : Nat,
                                 id : 0 .. Cardinality(Clients) + 1]]
    /\ approach \in [Approaches -> [status : ApproachStatus, ref : Nat]]
    /\ entity \in [Approaches -> EntityState]
    /\ \A i \in DOMAIN versions : versions[i].general \in Generals
    /\ \A c \in Clients : request[c].row \in Row

\* A submitted report shows what the version it names was filed with, whichever
\* requests race: whole rows are saved, and only submitReport and discardDraft
\* save a submitted one.
SubmittedMatchesItsVersion ==
    report.status = "Submitted" =>
        \E i \in VersionsOf(report.no) :
            /\ versions[i].major = report.major
            /\ versions[i].minor = report.minor
            /\ versions[i].general = report.general
            /\ versions[i].trajectory = report.trajectory

\* hasSubmittedReport opens the authorization of programmes for an approach whose
\* link has the major version that added it: that version lists the approach.
FiledLinkIsInAVersion ==
    \A a \in Approaches : links[a].added # 0 =>
        \E i \in VersionsOf(links[a].no) :
            /\ versions[i].major = links[a].added
            /\ a \in DOMAIN versions[i].lists
            /\ versions[i].lists[a].added = links[a].added

\* With one request at a time: a version is the next minor one, unless it
\* lists an approach for the first time and is the next major one.
VersionsAreInOrder ==
    \A i \in 1 .. Len(versions) - 1 :
        LET old == versions[i]
            new == versions[i + 1]
        IN  IF DOMAIN new.lists = DOMAIN old.lists
            THEN new.major = old.major /\ new.minor = old.minor + 1
            ELSE /\ DOMAIN old.lists \subseteq DOMAIN new.lists
                 /\ new.major = old.major + 1 /\ new.minor = 0

\* With one request at a time: what was filed stays (the trajectory and its copy
\* in ndc_target, the link, the approach's status and its entity), through
\* edits, discards and removals.
FiledStays ==
    \A i \in DOMAIN versions :
        /\ versions[i].no = report.no
        /\ versions[i].trajectory = report.trajectory
        /\ target = report.trajectory
        /\ \A a \in DOMAIN versions[i].lists :
             /\ links[a].no = versions[i].no
             /\ links[a].added = versions[i].lists[a].added
             /\ approach[a].status # "Draft"
             /\ versions[i].lists[a].entity \in {"filed", "filedInactive"} =>
                  entity[a] \in {"filed", "filedInactive"}

\* "a submitted approach can never be pulled back to Draft", says the comment on
\* the transitions an update may make.
NeverBackToDraft ==
    [][\A a \in Approaches : approach[a].status # "Draft" => approach'[a].status # "Draft"]_irvars

\* "rather than silently filing an approach with no caReferenceNumber", says the
\* comment on the guard of submitReport.
FiledWithReference ==
    \A i \in DOMAIN versions : \A a \in DOMAIN versions[i].lists : versions[i].lists[a].ref # 0
=============================================================================
