---------------------------- MODULE Replication ----------------------------
(***************************************************************************)
(* From the ledger's event tables to the operational database.  A ledger   *)
(* transaction stamps its rows with a txTime, inserts them one statement   *)
(* after the other - each insert draws the row's hash from the sequence of *)
(* its table - and commits.  The replicator goes round the tables; in each *)
(* it reads the rows above its cursor in the order of their hash, applies  *)
(* them one by one and saves the cursor after each.                        *)
(*                                                                         *)
(* Abstracted: what a row holds, beyond its key, hash and txTime.  Every   *)
(* block event stands for an issuance or a transfer, the two that create a *)
(* row of credit_transactions under a new id; the events of requests and   *)
(* decisions write the row of an existing id and may be repeated.          *)
(***************************************************************************)
EXTENDS Integers, Sequences, FiniteSetsExt, SequencesExt

CONSTANTS
    Writers,            \* API processes with a ledger transaction
    WriteSets,          \* rows of one transaction: functions table -> key
    FaultySections,     \* tables whose section may throw
    RetryLimit,         \* retryLimit
    MaxWrites,          \* bound: ledger transactions
    MaxCrashes          \* bound: restarts of the replicator

\* The sections of replicateActions, in their order.
Sections == <<"programme", "company", "project", "block">>

Tables == ToSet(Sections)

ASSUME ReplicationAssumption ==
    /\ FaultySections \subseteq Tables
    /\ RetryLimit \in Nat \ {0} /\ MaxWrites \in Nat /\ MaxCrashes \in Nat
    /\ \A ws \in WriteSets : DOMAIN ws \subseteq Tables

VARIABLES
    clock,      \* wall clock, in distinguishable milliseconds
    started,    \* ledger transactions started
    lastHash,   \* last value of each table's hash sequence
    writer,     \* the transaction of each writer
    log,        \* committed events of each table, by hash
    cursor,     \* counters of the operational database, by table
    replica,    \* the event each row of the operational database reflects
    created,    \* rows of credit_transactions created, by hash of the block event
    section,    \* index of the section at work
    phase,      \* "poll" before the section's query, "rows" after it
    batch,      \* hashes of the rows read and not finished
    applied,    \* the least of the batch has been applied, its cursor not saved
    retry,      \* retryCountTable and retryCountCTable
    ended,      \* the replicator gave up
    crashes     \* restarts so far

ledger == <<clock, started, lastHash, writer, log>>
store == <<cursor, replica, created>>
process == <<section, phase, batch, applied, retry, ended>>
vars == <<ledger, store, process, crashes>>

NoTransaction == [time |-> 0, todo |-> <<>>, rows |-> <<>>]

\* No retries yet: a fresh process.
NoRetries == [table |-> 0, company |-> 0]

Init ==
    /\ clock = 1
    /\ started = 0
    /\ lastHash = [t \in Tables |-> 0]
    /\ writer = [w \in Writers |-> NoTransaction]
    /\ log = [t \in Tables |-> <<>>]
    /\ cursor = [t \in Tables |-> 0]
    /\ replica = [t \in Tables |-> <<>>]
    /\ created = <<>>
    /\ section = 1
    /\ phase = "poll"
    /\ batch = {}
    /\ applied = FALSE
    /\ retry = NoRetries
    /\ ended = FALSE
    /\ crashes = 0

Put(f, k, v) == [x \in DOMAIN f \cup {k} |-> IF x = k THEN v ELSE f[x]]

-----------------------------------------------------------------------------
(* Ledger transactions *)

\* processGetFn takes the txTime before anything is inserted; two transactions
\* may do so in the same millisecond.
Stamp(w, ws) ==
    /\ writer[w] = NoTransaction
    /\ started < MaxWrites
    /\ started' = started + 1
    /\ \E tick \in {0, 1} : clock' = clock + tick
    /\ writer' = [writer EXCEPT ![w] = [time |-> clock', todo |-> ws, rows |-> <<>>]]
    /\ UNCHANGED <<lastHash, log, store, process, crashes>>

InsertRow(w, t) ==
    /\ t \in DOMAIN writer[w].todo
    /\ t \notin DOMAIN writer[w].rows
    /\ lastHash' = [lastHash EXCEPT ![t] = @ + 1]
    /\ writer' = [writer EXCEPT ![w].rows = Put(@, t, lastHash'[t])]
    /\ UNCHANGED <<clock, started, log, store, process, crashes>>

Commit(w) ==
    LET tx == writer[w] IN
    /\ tx # NoTransaction
    /\ DOMAIN tx.rows = DOMAIN tx.todo
    /\ log' = [t \in Tables |->
                 IF t \in DOMAIN tx.rows
                 THEN Put(log[t], tx.rows[t], [key |-> tx.todo[t], time |-> tx.time])
                 ELSE log[t]]
    /\ writer' = [writer EXCEPT ![w] = NoTransaction]
    /\ UNCHANGED <<clock, started, lastHash, store, process, crashes>>

\* A failed insert rolls back; the hashes drawn stay drawn.
Rollback(w) ==
    /\ writer[w] # NoTransaction
    /\ writer' = [writer EXCEPT ![w] = NoTransaction]
    /\ UNCHANGED <<clock, started, lastHash, log, store, process, crashes>>

-----------------------------------------------------------------------------
(* The replicator *)

Table == Sections[section]
RetryCounter(t) == IF t = "company" THEN "company" ELSE "table"

\* After the last section setTimeout starts the next round.
NextSection == (section % Len(Sections)) + 1

\* Mutant of Unseen: the row at the cursor is read again.
UnseenAgain(t) == {h \in DOMAIN log[t] : h >= cursor[t]}

Unseen(t) == {h \in DOMAIN log[t] : h > cursor[t]}

\* The cursor and the rows above it are read, once per round.
Poll ==
    /\ phase = "poll" /\ ~ended
    /\ batch' = Unseen(Table)
    /\ phase' = "rows"
    /\ UNCHANGED <<ledger, store, section, applied, retry, ended, crashes>>

\* Mutant of Finish: the counter of failures is never reset.
FinishCounting ==
    /\ phase = "rows" /\ batch = {}
    /\ section' = NextSection
    /\ phase' = "poll"
    /\ UNCHANGED <<ledger, store, batch, applied, retry, ended, crashes>>

\* The section is done; its retry counter is reset.
Finish ==
    /\ phase = "rows" /\ batch = {}
    /\ section' = NextSection
    /\ phase' = "poll"
    /\ retry' = [retry EXCEPT ![RetryCounter(Table)] = 0]
    /\ UNCHANGED <<ledger, store, batch, applied, ended, crashes>>

\* Mutant of Newer: events of the same millisecond are taken for old.
NewerStrictly(t, e) ==
    t # "company" /\ e.key \in DOMAIN replica[t] => replica[t][e.key].time < e.time

\* The replica refuses rows older than the one it has, balances excepted.
Newer(t, e) ==
    t # "company" /\ e.key \in DOMAIN replica[t] => replica[t][e.key].time <= e.time

\* The rows come in the order of their hash.  One database transaction upserts
\* the operational row and what is derived from it.
Apply ==
    LET h == Min(batch)
        e == log[Table][h]
    IN
    /\ batch # {} /\ ~applied
    /\ IF Newer(Table, e)
       THEN /\ replica' = [replica EXCEPT ![Table] =
                              Put(@, e.key, [time |-> e.time, hash |-> h])]
            /\ created' = IF Table = "block"
                          THEN Put(created, h, IF h \in DOMAIN created
                                               THEN created[h] + 1 ELSE 1)
                          ELSE created
       ELSE UNCHANGED <<replica, created>>
    /\ applied' = TRUE
    /\ UNCHANGED <<ledger, cursor, section, phase, batch, retry, ended, crashes>>

\* Mutant of SaveCursor: the cursor is moved past the whole batch.
SaveCursorToEnd ==
    /\ applied
    /\ cursor' = [cursor EXCEPT ![Table] = Max(batch)]
    /\ batch' = batch \ {Min(batch)}
    /\ applied' = FALSE
    /\ UNCHANGED <<ledger, replica, created, section, phase, retry, ended, crashes>>

SaveCursor ==
    /\ applied
    /\ cursor' = [cursor EXCEPT ![Table] = Min(batch)]
    /\ batch' = batch \ {Min(batch)}
    /\ applied' = FALSE
    /\ UNCHANGED <<ledger, replica, created, section, phase, retry, ended, crashes>>

\* Mutant of Fail: `replicateActions` is called and starts a new round.
FailRestarting ==
    LET c == RetryCounter(Table) IN
    /\ Table \in FaultySections /\ ~ended
    /\ IF retry[c] > RetryLimit
       THEN ended' = TRUE /\ UNCHANGED <<section, retry>>
       ELSE retry' = [retry EXCEPT ![c] = @ + 1] /\ section' = 1 /\ UNCHANGED ended
    /\ phase' = "poll" /\ batch' = {} /\ applied' = FALSE
    /\ UNCHANGED <<ledger, store, crashes>>

\* The section throws at any await.  Beyond the limit the replicator returns for
\* good; otherwise the counter goes up and, since `replicateActions;` calls
\* nothing, the next section follows.
Fail ==
    LET c == RetryCounter(Table) IN
    /\ Table \in FaultySections /\ ~ended
    /\ IF retry[c] > RetryLimit
       THEN ended' = TRUE /\ UNCHANGED <<section, retry>>
       ELSE /\ retry' = [retry EXCEPT ![c] = @ + 1]
            /\ section' = NextSection
            /\ UNCHANGED ended
    /\ phase' = "poll" /\ batch' = {} /\ applied' = FALSE
    /\ UNCHANGED <<ledger, store, crashes>>

\* The process is restarted: only the operational database remains.
Restart ==
    /\ crashes < MaxCrashes
    /\ crashes' = crashes + 1
    /\ section' = 1 /\ phase' = "poll" /\ batch' = {} /\ applied' = FALSE
    /\ retry' = NoRetries /\ ended' = FALSE
    /\ UNCHANGED <<ledger, store>>

-----------------------------------------------------------------------------

Transaction(w) ==
    \/ \E ws \in WriteSets : Stamp(w, ws)
    \/ \E t \in Tables : InsertRow(w, t)
    \/ Commit(w)
    \/ Rollback(w)

ReplicateActions == Poll \/ Apply \/ SaveCursor \/ Finish \/ Fail

Next == (\E w \in Writers : Transaction(w)) \/ ReplicateActions \/ Restart

\* The event loop resumes replicateActions after every await and setTimeout.
Spec == Init /\ [][Next]_vars /\ WF_vars(ReplicateActions)

-----------------------------------------------------------------------------
(* Properties *)

\* Rows stay typed, and a batch in hand is what its section still has to do.
TypeOK ==
    /\ \A t \in Tables :
        /\ cursor[t] \in 0 .. lastHash[t]
        /\ DOMAIN log[t] \subseteq 1 .. lastHash[t]
        /\ \A k \in DOMAIN replica[t] : replica[t][k].hash \in DOMAIN log[t]
    /\ section \in DOMAIN Sections
    /\ phase \in {"poll", "rows"}
    /\ batch \subseteq Unseen(Table)
    /\ applied => batch # {}
    /\ retry \in [{"table", "company"} -> 0 .. RetryLimit + 1]

Older(t, h, key) == {g \in DOMAIN log[t] : g <= h /\ log[t][g].key = key}

\* Whatever fails and wherever the replicator restarts, the operational row is
\* the ledger's latest event up to the cursor, or the event after it when it was
\* applied and its cursor not saved.
ReplicaFollowsLog ==
    \A t \in Tables : \A g \in DOMAIN log[t] :
        LET key == log[t][g].key IN
        g <= cursor[t] =>
            /\ key \in DOMAIN replica[t]
            /\ replica[t][key].hash >= Max(Older(t, cursor[t], key))
            /\ Cardinality({h \in DOMAIN log[t] :
                    cursor[t] < h /\ h <= replica[t][key].hash}) <= 1

Reflected(t, h) ==
    /\ h \in DOMAIN log[t]
    /\ log[t][h].key \in DOMAIN replica[t]
    /\ replica[t][log[t][h].key].hash >= h

\* Every committed event reaches the operational database, for the tables whose
\* section does not fail, even while other sections fail for good.
EveryEventArrives ==
    \A t \in Tables \ FaultySections : \A h \in 1 .. MaxWrites :
        h \in DOMAIN log[t] ~> Reflected(t, h)

\* Stated by the README: ledger events are replicated into the operational
\* database.  None is left below the cursor without having been applied.
NothingPassedOver ==
    [][\A t \in Tables : DOMAIN log'[t] # DOMAIN log[t] =>
         \A h \in DOMAIN log'[t] \ DOMAIN log[t] : h > cursor[t]]_vars

\* An issuance or a transfer creates one row of credit_transactions; a restart
\* between the row and its cursor creates one more, and nothing else does.
RowsRepeatedOnlyByRestart == \A h \in DOMAIN created : created[h] <= 1 + crashes

\* A project or block event that can never be applied does not end the
\* replicator: it is retried for ever, since other sections reset the counter
\* they share with it.
EndsOnlyInOutage ==
    ended => \/ "company" \in FaultySections
             \/ {"programme", "project", "block"} \subseteq FaultySections

=============================================================================
