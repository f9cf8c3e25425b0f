----------------------------- MODULE CadTrustSync -----------------------------
(***************************************************************************)
(* The sync of one project's credits to the CAD Trust network.             *)
(*                                                                         *)
(* Two loops of one process write to the node: the lane, which takes the   *)
(* queued actions in order and saves its cursor after each, and the timer, *)
(* which retries commits and re-drives failed records.  They interleave at *)
(* every await.  Writing to the node is staging a row; a commit publishes  *)
(* all rows staged so far and is refused while an earlier one propagates.  *)
(* What the registry knows of it is one sync record per local record.      *)
(*                                                                         *)
(* There is one verification, the issuance that follows from it, and the   *)
(* units of the credit blocks; the project itself is taken as synced.  The *)
(* content of a block is abstracted to a version number.  Finding out what *)
(* to do (reads of the database and the node) is one step, the request to  *)
(* the node is one, and noting its result is one.                          *)
(***************************************************************************)
EXTENDS Naturals, Sequences, FiniteSets, SequencesExt

CONSTANTS
    Blocks,      \* credit blocks
    SplitAt,     \* the versions of a block that change its serial range
    MaxAttempts, \* reconcileMaxAttempts: failures after which a record is left alone
    MaxVersion,  \* bound: the versions of a block
    MaxFaults    \* bound: calls to the node that fail or whose answer is lost, and
                 \* restarts of the process

ASSUME SyncAssumption ==
    /\ IsFiniteSet(Blocks) /\ Blocks \cap {"verification", "issuance"} = {}
    /\ SplitAt \subseteq Nat
    /\ {MaxAttempts, MaxVersion, MaxFaults} \subseteq Nat

VARIABLES
    queue,     \* the actions, by actionId
    cursor,    \* the counter row of the lane: the last action it has handled
    block,     \* per block: its version, 0 before it exists
    record,    \* the sync records
    rows,      \* the rows staged on the node, in order
    committed, \* how many of them are committed
    confirmed, \* how many of those the network has confirmed
    loop,      \* per loop: the tasks it has left and how far it is with the first
    faults,    \* the failures so far
    exposed    \* history: the records that may have been staged twice

syncvars == <<queue, cursor, block, record, rows, committed, confirmed, loop,
              faults, exposed>>
node == <<rows, committed, confirmed>>

Keys == {"verification", "issuance"} \cup Blocks
Loops == {"lane", "timer"}

Idle == [todo |-> <<>>, at |-> "find", owed |-> FALSE, got |-> FALSE, id |-> 0, version |-> 0]
Task(op, k) == [op |-> op, key |-> k]
Commit == Task("commit", "all")

SInit ==
    /\ queue = <<Task("verify", "verification")>>
    /\ cursor = 0
    /\ block = [b \in Blocks |-> 0]
    /\ record = [k \in Keys |-> [status |-> "NONE", id |-> 0, attempts |-> 0]]
    /\ rows = <<>> /\ committed = 0 /\ confirmed = 0
    /\ loop = [p \in Loops |-> Idle]
    /\ faults = 0
    /\ exposed = {}

-----------------------------------------------------------------------------
(* The registry: what it enqueues *)

Enqueue(b, op) ==
    /\ block[b] < MaxVersion
    /\ block' = [block EXCEPT ![b] = @ + 1]
    /\ queue' = Append(queue, Task(op, b))
    /\ UNCHANGED <<cursor, record, node, loop, faults, exposed>>

Issue(b) == block[b] = 0 /\ Enqueue(b, "issue")
Change(b) == block[b] # 0 /\ Enqueue(b, "change")

-----------------------------------------------------------------------------
(* The node *)

Serial(v) == Cardinality({w \in SplitAt : w <= v})

Propagating == confirmed < committed

Confirm ==
    /\ Propagating
    /\ confirmed' = committed
    /\ UNCHANGED <<queue, cursor, block, record, rows, committed, loop, faults, exposed>>

\* get finds what is committed.
RowsOf(id) == {i \in 1 .. committed : rows[i].id = id}

\* Mutant of ExistsOnCadTrust: a record that failed was never created.
NeverExists(id) == FALSE

ExistsOnCadTrust(id) == RowsOf(id) # {}

IsUnchangedOnCadTrust(id, v) ==
    \E i \in RowsOf(id) : rows[i].version = v /\ \A j \in RowsOf(id) : j <= i

\* The rows staged and not committed, by what they create or by their id.
StagedRows == {i \in DOMAIN rows : i > committed}
StagedFor(k) ==
    {i \in StagedRows : rows[i].key = k /\ (k \in Blocks => Serial(rows[i].version) = Serial(block[k]))}
StagedWith(id) == {i \in StagedRows : rows[i].id = id}

Fault == faults < MaxFaults /\ faults' = faults + 1
NoFault == UNCHANGED faults

-----------------------------------------------------------------------------
(* The sync records *)

Synced(k) == record[k].status \in {"STAGED", "COMMITTED"}

MarkFailed(r) ==
    [r EXCEPT !.status = "FAILED", !.attempts = IF @ < MaxAttempts THEN @ + 1 ELSE @]

MarkStaged(r, id) == [r EXCEPT !.status = "STAGED", !.id = id]

MarkCommitted(r) == [r EXCEPT !.status = "COMMITTED"]

Set(k, r) == record' = [record EXCEPT ![k] = r]

MarkAllStagedAsCommitted ==
    record' = [k \in Keys |-> IF record[k].status = "STAGED" THEN MarkCommitted(record[k]) ELSE record[k]]
MarkAllStagedAsFailed ==
    record' = [k \in Keys |-> IF record[k].status = "STAGED" THEN MarkFailed(record[k]) ELSE record[k]]

\* Failed records that have attempts left.
FindFailed(keys) == {k \in keys : record[k].status = "FAILED" /\ record[k].attempts < MaxAttempts}

-----------------------------------------------------------------------------
(* Loops *)

IsAt(p, at, ops) == loop[p].todo # <<>> /\ loop[p].at = at /\ Head(loop[p].todo).op \in ops
Key(p) == Head(loop[p].todo).key

\* The first task is done, with or without a commit owed, and with or without a
\* result for the task that may need it.
Done(p, owed, got) ==
    LET rest == Tail(loop[p].todo) IN
    loop' = [loop EXCEPT ![p] = [Idle EXCEPT !.todo = rest, !.owed = loop[p].owed \/ owed,
                                   !.got = got /\ rest # <<>> /\ Head(rest).op = "create"]]

\* The first task is replaced by others.
Instead(p, todo) == loop' = [loop EXCEPT ![p].todo = todo \o Tail(@)]

\* The other loop is on its way to stage a row for the same record, or to note it.
Contended(p) ==
    \E q \in Loops \ {p} : loop[q].at \in {"stage", "mark"} /\ Key(q) = Key(p)

\* A row that was staged for the record before its serial range changed.
Outgrown(k) ==
    \E i \in StagedRows : rows[i].key = k /\ i \notin StagedFor(k)

\* The loop goes on to stage a row, for a record that has id on the node or none (0).
ToStage(p, id, blind) ==
    /\ loop' = [loop EXCEPT ![p].at = "stage", ![p].id = id,
                  ![p].version = IF Key(p) \in Blocks THEN block[Key(p)] ELSE 0]
    /\ exposed' = exposed \cup
         IF id = 0 /\ (blind \/ Contended(p) \/ Outgrown(Key(p))) THEN {Key(p)} ELSE {}

-----------------------------------------------------------------------------
(* What a loop finds out about a record; fresh is what a new record gets *)

\* Staged earlier: the commit is owed.  Committed: nothing is.
FoundSynced(p) ==
    /\ Synced(Key(p))
    /\ Done(p, record[Key(p)].status = "STAGED", TRUE)
    /\ NoFault
    /\ UNCHANGED <<record, exposed>>

\* Failed, but it is on CAD Trust under its id: it is committed.
FoundPublished(p) ==
    LET r == record[Key(p)] IN
    /\ r.status = "FAILED" /\ r.id # 0 /\ ExistsOnCadTrust(r.id)
    /\ Set(Key(p), MarkCommitted(r))
    /\ Done(p, FALSE, TRUE)
    /\ NoFault
    /\ UNCHANGED exposed

\* Failed, and the node does not say: it stays for the next pass.
FoundNothing(p) ==
    LET r == record[Key(p)] IN
    /\ r.status = "FAILED" /\ r.id # 0
    /\ Fault
    /\ Done(p, FALSE, TRUE)
    /\ UNCHANGED <<record, exposed>>

\* Failed before: a row left on the node is taken over.
Adopt(p, left) ==
    /\ record[Key(p)].status = "FAILED"
    /\ \E i \in left :
         /\ \A j \in left : i <= j
         /\ Set(Key(p), MarkStaged(record[Key(p)], rows[i].id))
    /\ Done(p, TRUE, TRUE)
    /\ NoFault
    /\ UNCHANGED exposed

\* Nothing to take over, or the list of rows could not be read.
Create(p, fresh) ==
    LET r == record[Key(p)]
        left == StagedFor(Key(p))
    IN  /\ \/ NoFault /\ (r.status # "FAILED" \/ left = {}) /\ ToStage(p, 0, FALSE)
           \/ Fault /\ r.status = "FAILED" /\ left # {} /\ ToStage(p, 0, TRUE)
        /\ Set(Key(p), IF r.status = "NONE" THEN [r EXCEPT !.status = fresh] ELSE r)

\* existingSync with what follows it.
EnsureRecord(p, fresh) ==
    \/ FoundSynced(p)
    \/ FoundPublished(p)
    \/ FoundNothing(p)
    \/ LET r == record[Key(p)] IN
       /\ ~Synced(Key(p))
       /\ ~(r.status = "FAILED" /\ r.id # 0 /\ ExistsOnCadTrust(r.id))
       /\ Adopt(p, StagedFor(Key(p))) \/ Create(p, fresh)

Frame == UNCHANGED <<queue, cursor, block, node>>

\* Mutant of Refuse: the failure is only logged.
RefuseLogged(p, failed) ==
    /\ Done(p, FALSE, FALSE)
    /\ NoFault
    /\ UNCHANGED <<record, exposed>>

\* The record fails for what it lacks, if there is one to fail.
Refuse(p, failed) ==
    /\ record' = IF failed THEN [record EXCEPT ![Key(p)] = MarkFailed(@)] ELSE record
    /\ Done(p, FALSE, FALSE)
    /\ NoFault
    /\ UNCHANGED exposed

\* ensureVerification and ensureIssuance.  Without a synced verification the
\* issuance does not even get a record.
Ensure(p) ==
    /\ IsAt(p, "find", {"ensure"})
    /\ \/ /\ Key(p) = "issuance" => Synced("verification")
          /\ EnsureRecord(p, "PENDING")
       \/ /\ Key(p) = "issuance" /\ ~Synced("verification")
          /\ Refuse(p, FALSE)
    /\ Frame

\* Mutant of CreateUnit: the unit is created although its issuance was not.
CreateUnitAnyway(p) ==
    /\ IsAt(p, "find", {"create"})
    /\ EnsureRecord(p, "NONE")
    /\ Frame

\* ensureCreditIssuance, once the issuance has been seen to: the unit of a block.
CreateUnit(p) ==
    /\ IsAt(p, "find", {"create"})
    /\ IF loop[p].got THEN EnsureRecord(p, "NONE") ELSE Refuse(p, TRUE)
    /\ Frame

\* stageUnit for a unit that is on CAD Trust: staged unless nothing has changed.
Replace(p) ==
    LET k == Key(p)
        id == record[k].id
    IN  IF IsUnchangedOnCadTrust(id, block[k])
        THEN /\ Set(k, MarkCommitted(record[k]))
             /\ Done(p, FALSE, TRUE)
             /\ UNCHANGED exposed
        ELSE ToStage(p, id, FALSE) /\ UNCHANGED record

\* The node could not be asked whether anything has.
ReplaceUnseen(p) == ToStage(p, record[Key(p)].id, FALSE) /\ UNCHANGED record

\* ensureUnitUpdate.
UpdateUnit(p) ==
    LET k == Key(p)
        r == record[k]
        onNode == r.status = "FAILED" /\ r.id # 0 /\ ExistsOnCadTrust(r.id)
    IN  /\ IsAt(p, "find", {"update"})
        /\ \/ r.status = "STAGED" /\ FoundSynced(p)
           \/ r.status = "COMMITTED" /\ ((Replace(p) /\ NoFault) \/ (ReplaceUnseen(p) /\ Fault))
           \/ FoundNothing(p)
           \/ onNode /\ Adopt(p, StagedWith(r.id))
           \* Nothing to take over, or the list of rows could not be read.
           \/ onNode /\ StagedWith(r.id) = {} /\ ((Replace(p) /\ NoFault) \/ (ReplaceUnseen(p) /\ Fault))
           \/ onNode /\ StagedWith(r.id) # {} /\ Replace(p) /\ Fault
           \/ /\ ~Synced(k) /\ ~onNode
              /\ IF Synced("issuance") THEN Adopt(p, StagedFor(k)) \/ Create(p, "NONE")
                                       ELSE Refuse(p, TRUE)
        /\ Frame

\* ensureIssuanceForUncreatedUnit.
Heal(p) ==
    /\ IsAt(p, "find", {"heal"})
    /\ IF record[Key(p)].id = 0 /\ ~Synced("issuance")
       THEN Instead(p, <<Task("ensure", "issuance")>>)
       ELSE Done(p, FALSE, FALSE)
    /\ UNCHANGED <<record, faults, exposed>> /\ Frame

-----------------------------------------------------------------------------
(* Staging a row and noting it *)

StagedRow(p) ==
    [key |-> Key(p), version |-> loop[p].version,
     id |-> IF loop[p].id = 0 THEN Len(rows) + 1 ELSE loop[p].id]

\* The node takes the row and says so.
Stage(p) ==
    /\ IsAt(p, "stage", {"ensure", "create", "update"})
    /\ rows' = Append(rows, StagedRow(p))
    /\ loop' = [loop EXCEPT ![p].at = "mark", ![p].id = StagedRow(p).id]
    /\ UNCHANGED <<queue, cursor, block, record, committed, confirmed, faults, exposed>>

\* The request fails, or its answer is lost.  The node may also refuse to replace
\* what is not committed.
StageFails(p) ==
    /\ IsAt(p, "stage", {"ensure", "create", "update"})
    /\ \/ Fault /\ UNCHANGED <<rows, exposed>>
       \/ /\ loop[p].id # 0 /\ ~ExistsOnCadTrust(loop[p].id)
          /\ NoFault /\ UNCHANGED <<rows, exposed>>
       \/ /\ Fault
          /\ rows' = Append(rows, StagedRow(p))
          /\ exposed' = exposed \cup IF loop[p].id = 0 THEN {Key(p)} ELSE {}
    /\ Set(Key(p), MarkFailed(record[Key(p)]))
    /\ Done(p, FALSE, FALSE)
    /\ UNCHANGED <<queue, cursor, block, committed, confirmed>>

Note(p) ==
    /\ IsAt(p, "mark", {"ensure", "create", "update"})
    /\ Set(Key(p), MarkStaged(record[Key(p)], loop[p].id))
    /\ Done(p, TRUE, TRUE)
    /\ UNCHANGED <<faults, exposed>> /\ Frame

-----------------------------------------------------------------------------
(* The commit handler *)

\* Nothing is owed, or nothing is left to commit.
SkipCommit(p) ==
    /\ IsAt(p, "find", {"commit"})
    /\ ~loop[p].owed \/ StagedRows = {}
    /\ IF loop[p].owed THEN MarkAllStagedAsCommitted ELSE UNCHANGED record
    /\ loop' = [loop EXCEPT ![p] = [Idle EXCEPT !.todo = Tail(loop[p].todo)]]
    /\ UNCHANGED <<faults, exposed>> /\ Frame

CommitRows(p) ==
    /\ IsAt(p, "find", {"commit"})
    /\ loop[p].owed
    /\ \/ /\ StagedRows # {} /\ ~Propagating
          /\ committed' = Len(rows)
          /\ \/ NoFault /\ loop' = [loop EXCEPT ![p].at = "succeeded"]
             \/ Fault /\ loop' = [loop EXCEPT ![p].at = "failed"]
       \/ /\ IF Propagating /\ StagedRows # {} THEN NoFault ELSE Fault
          /\ loop' = [loop EXCEPT ![p].at = "failed"]
          /\ UNCHANGED committed
    /\ UNCHANGED <<queue, cursor, block, record, rows, confirmed, exposed>>

MarkAll(p) ==
    /\ loop[p].at \in {"succeeded", "failed"}
    /\ IF loop[p].at = "succeeded" THEN MarkAllStagedAsCommitted ELSE MarkAllStagedAsFailed
    /\ loop' = [loop EXCEPT ![p] = [Idle EXCEPT !.todo = Tail(loop[p].todo)]]
    /\ UNCHANGED <<faults, exposed>> /\ Frame

-----------------------------------------------------------------------------
(* The lane and the timer *)

Handler(action) ==
    CASE action.op = "verify" -> <<Task("ensure", "verification")>>
      [] action.op = "issue" -> <<Task("ensure", "issuance"), Task("create", action.key)>>
      [] action.op = "change" -> <<Task("update", action.key)>>

Take ==
    /\ loop["lane"] = Idle
    /\ cursor < Len(queue)
    /\ loop' = [loop EXCEPT !["lane"].todo =
                  Handler(queue[cursor + 1]) \o <<Commit, Task("save", "all")>>]
    /\ UNCHANGED <<record, faults, exposed>> /\ Frame

\* The action is handled, whatever came of it.
SaveCursor ==
    /\ IsAt("lane", "find", {"save"})
    /\ cursor' = cursor + 1
    /\ loop' = [loop EXCEPT !["lane"] = Idle]
    /\ UNCHANGED <<queue, block, record, node, faults, exposed>>

\* Mutant of Tick: only failed records are looked after.
TickWithoutCommit ==
    /\ loop["timer"] = Idle
    /\ StagedRows # {} \/ FindFailed(Keys) # {}
    /\ loop' = [loop EXCEPT !["timer"].todo = <<Task("snapshots", "all"), Task("units", "all")>>]
    /\ UNCHANGED <<record, faults, exposed>> /\ Frame

\* The timer has a tick: rows left on the node are committed first.
Tick ==
    /\ loop["timer"] = Idle
    /\ StagedRows # {} \/ FindFailed(Keys) # {}
    /\ loop' = [loop EXCEPT !["timer"] =
                  [Idle EXCEPT !.owed = StagedRows # {},
                               !.todo = <<Commit, Task("snapshots", "all"), Task("units", "all")>>]]
    /\ UNCHANGED <<record, faults, exposed>> /\ Frame

\* The failed records in the order they depend on each other, each kind with its commit.
SweepSnapshots ==
    LET failed == FindFailed({"verification", "issuance"})
        group(k) == IF k \in failed THEN <<Task("ensure", k), Commit>> ELSE <<>>
    IN  /\ IsAt("timer", "find", {"snapshots"})
        /\ Instead("timer", group("verification") \o group("issuance"))
        /\ UNCHANGED <<record, faults, exposed>> /\ Frame

SweepUnits ==
    LET order == SetToSeq(FindFailed(Blocks))
        tasks == [i \in 1 .. 2 * Len(order) |->
                    IF i % 2 = 1 THEN Task("heal", order[(i + 1) \div 2])
                                 ELSE Task("update", order[i \div 2])]
    IN  /\ IsAt("timer", "find", {"units"})
        /\ Instead("timer", tasks \o <<Commit>>)
        /\ UNCHANGED <<record, faults, exposed>> /\ Frame

\* The process stops and starts again: the cursor and the records are what it has.
Restart ==
    /\ Fault
    /\ loop' = [p \in Loops |-> Idle]
    /\ exposed' = exposed \cup {Key(p) : p \in {q \in Loops : loop[q].at = "mark"}}
    /\ UNCHANGED <<queue, cursor, block, record, node>>

-----------------------------------------------------------------------------
Advance(p) ==
    \/ Ensure(p) \/ CreateUnit(p) \/ UpdateUnit(p) \/ Heal(p)
    \/ Stage(p) \/ StageFails(p) \/ Note(p)
    \/ SkipCommit(p) \/ CommitRows(p) \/ MarkAll(p)

Lane == Take \/ Advance("lane") \/ SaveCursor
Timer == Tick \/ Advance("timer") \/ SweepSnapshots \/ SweepUnits

SNext ==
    \/ \E b \in Blocks : Issue(b) \/ Change(b)
    \/ Lane \/ Timer
    \/ Confirm
    \/ Restart

\* The process goes on, with either loop (both reschedule themselves), and the
\* network confirms what was committed.
SyncSpec ==
    /\ SInit /\ [][SNext]_syncvars
    /\ WF_syncvars(Lane \/ Timer) /\ WF_syncvars(Confirm)

-----------------------------------------------------------------------------
RefersBack ==
    \A i \in DOMAIN rows :
        /\ rows[i].key = "issuance" => \E j \in 1 .. i - 1 : rows[j].key = "verification"
        /\ rows[i].key \in Blocks => \E j \in 1 .. i - 1 : rows[j].key = "issuance"

\* Every field holds a value of its kind, and the rows on the node refer to rows
\* that are there: no unit without its issuance, no issuance without its
\* verification, even if these have failed and been staged again.
STypeOK ==
    /\ RefersBack
    /\ cursor \in 0 .. Len(queue)
    /\ block \in [Blocks -> 0 .. MaxVersion]
    /\ record \in [Keys -> [status : {"NONE", "PENDING", "STAGED", "COMMITTED", "FAILED"},
                            id : 0 .. Len(rows), attempts : 0 .. MaxAttempts]]
    /\ \A i \in DOMAIN rows : rows[i].key \in Keys /\ rows[i].id \in 1 .. i
    /\ committed \in 0 .. Len(rows) /\ confirmed \in 0 .. committed
    /\ \A p \in Loops : loop[p].at \in {"find", "stage", "mark", "succeeded", "failed"}
    /\ exposed \subseteq Keys

\* Nothing fails without a trace: the record of every action the lane has passed
\* is staged, committed, or failed and so found by the sweeps.
NothingForgotten ==
    \A i \in 1 .. cursor :
        record[queue[i].key].status \in {"STAGED", "COMMITTED", "FAILED"}

\* A record is created once on the node, unless the answer to its request was
\* lost (by the network or a restart), the rows on the node could not be read,
\* both loops worked on it at once, or its block was split before it was
\* committed: a failed commit, whichever loop issued it, creates nothing twice.
CreatedOnce ==
    \A i, j \in DOMAIN rows :
        rows[i].key = rows[j].key /\ rows[i].id # rows[j].id => rows[i].key \in exposed

\* Whatever is staged is committed, time and again, although a commit is refused
\* while another propagates and the loops mark each other's records.
RowsAreCommitted == []<>(committed = Len(rows))

\* "kept in sync via full-replace stageUpdate for the rest of its life", says the
\* comment on the units: when the lane has handled every action and the unit
\* counts as committed, it shows the block as it is.
UnitShowsBlock ==
    \A b \in Blocks :
        (/\ cursor = Len(queue) /\ \A p \in Loops : loop[p] = Idle
         /\ record[b].status = "COMMITTED" /\ committed = Len(rows))
        => IsUnchangedOnCadTrust(record[b].id, block[b])
=============================================================================
