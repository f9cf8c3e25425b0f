-------------------------- MODULE ReplicationProofs --------------------------
(***************************************************************************)
(* The invariants of Replication, for every set of writers, every set of   *)
(* operations and every bound on transactions and restarts.                *)
(*                                                                         *)
(* Typed is the inductive invariant of all of them.  Each of the others    *)
(* needs its own strengthening, and says which part of the environment it  *)
(* relies on: Unrepeated on a block section that does not throw, Resets on *)
(* one section of the three that share a retry counter, InStep on a single *)
(* writer.  With two writers an event can commit below the cursor, and     *)
(* with a throwing block section a failure between an event and its cursor *)
(* repeats the event's row: the hypotheses are needed.                     *)
(***************************************************************************)
EXTENDS Replication, FiniteSetTheorems, WellFoundedInduction, TLAPS

-----------------------------------------------------------------------------
(* Operators *)

LEMMA SectionFacts ==
    /\ DOMAIN Sections = 1 .. 4 /\ Len(Sections) = 4
    /\ Sections[1] = "programme" /\ Sections[2] = "company"
    /\ Sections[3] = "project" /\ Sections[4] = "block"
    /\ Tables = {"programme", "company", "project", "block"}
  <1>1. /\ DOMAIN Sections = 1 .. 4 /\ Len(Sections) = 4
        /\ Sections[1] = "programme" /\ Sections[2] = "company"
        /\ Sections[3] = "project" /\ Sections[4] = "block"
    BY DEF Sections
  <1>2. Tables = {Sections[i] : i \in 1 .. 4}
    BY <1>1 DEF Tables, ToSet
  <1> QED BY <1>1, <1>2

\* A set of hashes that is not empty has a least element; the prefixes of the
\* natural numbers are well-founded under inclusion.
LEMMA LeastHash ==
    ASSUME NEW T \in SUBSET Nat, T # {}
    PROVE  Min(T) \in T /\ \A y \in T : Min(T) <= y
  <1> DEFINE R == StrictSubsetOrdering(Nat)
             F == FiniteSubsetsOf(Nat)
             Segments == {1 .. x : x \in T}
  <1>1. IsWellFoundedOn(R, F)
    BY FS_StrictSubsetOrderingWellFounded
  <1>2. Segments \subseteq F /\ Segments # {}
    <2>1. \A x \in T : 1 .. x \in F
      BY FS_Interval DEF FiniteSubsetsOf
    <2> QED BY <2>1
  <1>3. \E P \in Segments : \A Q \in Segments : <<Q, P>> \notin R
    <2> HIDE DEF R, F, Segments
    <2> QED BY <1>1, <1>2, WFMin
  <1>4. PICK x \in T : \A y \in T : <<1 .. y, 1 .. x>> \notin R
    BY <1>3
  <1>5. \A y \in T : y < x => <<1 .. y, 1 .. x>> \in R
    <2> TAKE y \in T
    <2> HAVE y < x
    <2>1. /\ 1 .. y \subseteq 1 .. x /\ x \in 1 .. x /\ x \notin 1 .. y
          /\ 1 .. y \subseteq Nat /\ 1 .. x \subseteq Nat
      OBVIOUS
    <2> QED BY <2>1 DEF StrictSubsetOrdering
  <1>6. \A y \in T : x <= y
    <2>1. \A y \in T : ~(y < x)
      <3> HIDE DEF R
      <3> QED BY <1>4, <1>5
    <2> QED BY <2>1
  <1> QED BY <1>6 DEF Min

\* The same at the other end, for a set with a bound.
LEMMA GreatestHash ==
    ASSUME NEW n \in Nat, NEW T \in SUBSET (0 .. n), T # {}
    PROVE  Max(T) \in T /\ \A y \in T : Max(T) >= y
  <1> DEFINE U == {n - x : x \in T}
  <1>1. U \in SUBSET Nat /\ U # {}
    OBVIOUS
  <1>2. Min(U) \in U /\ \A y \in U : Min(U) <= y
    <2> HIDE DEF U
    <2> QED BY <1>1, LeastHash
  <1>3. PICK x \in T : \A y \in T : n - x <= n - y
    BY <1>2
  <1>4. \A y \in T : x >= y
    BY <1>3
  <1> QED BY <1>4 DEF Max

-----------------------------------------------------------------------------
(* Types *)

WriterOK(tx) ==
    /\ tx = [time |-> tx.time, todo |-> tx.todo, rows |-> tx.rows]
    /\ tx.time \in Nat
    /\ DOMAIN tx.todo \subseteq Tables
    /\ DOMAIN tx.rows \subseteq DOMAIN tx.todo
    /\ \A t \in DOMAIN tx.rows : tx.rows[t] \in 1 .. lastHash[t]

LogOK ==
    /\ DOMAIN log = Tables
    /\ \A t \in Tables :
        /\ DOMAIN log[t] \subseteq 1 .. lastHash[t]
        /\ \A h \in DOMAIN log[t] : log[t][h].time \in Nat

StoreOK ==
    /\ cursor \in [Tables -> Nat] /\ DOMAIN replica = Tables
    /\ \A t \in Tables :
        /\ cursor[t] <= lastHash[t]
        /\ \A k \in DOMAIN replica[t] : replica[t][k].hash \in DOMAIN log[t]

ProcessOK ==
    /\ section \in 1 .. 4
    /\ phase \in {"poll", "rows"}
    /\ batch \subseteq Unseen(Table)
    /\ applied \in BOOLEAN
    /\ applied => batch # {}
    /\ phase = "poll" => batch = {}
    /\ retry \in [{"table", "company"} -> 0 .. RetryLimit + 1]

Typed ==
    /\ clock \in Nat /\ crashes \in Nat
    /\ lastHash \in [Tables -> Nat]
    /\ DOMAIN writer = Writers
    /\ \A w \in Writers : WriterOK(writer[w])
    /\ LogOK
    /\ StoreOK
    /\ ProcessOK

LEMMA TypesFollow ==
    ASSUME Typed
    PROVE  TypeOK
  <1>1. \A t \in Tables : cursor[t] \in 0 .. lastHash[t]
    BY DEF Typed, StoreOK
  <1> QED BY <1>1, SectionFacts DEF Typed, LogOK, StoreOK, ProcessOK, TypeOK

LEMMA TableTyped ==
    ASSUME section \in 1 .. 4
    PROVE  /\ Table \in Tables /\ NextSection \in 1 .. 4
           /\ NextSection = IF section = 4 THEN 1 ELSE section + 1
           /\ RetryCounter(Table) \in {"table", "company"}
  <1>1. Table \in Tables
    BY SectionFacts DEF Table
  <1>2. NextSection = IF section = 4 THEN 1 ELSE section + 1
    BY SectionFacts DEF NextSection
  <1> QED BY <1>1, <1>2 DEF RetryCounter

LEMMA TypedInit == Init => Typed
  <1> SUFFICES ASSUME Init PROVE Typed
    OBVIOUS
  <1>1. WriterOK(NoTransaction)
    BY DEF WriterOK, NoTransaction
  <1>2. /\ LogOK /\ StoreOK /\ clock \in Nat /\ crashes \in Nat
        /\ lastHash \in [Tables -> Nat] /\ DOMAIN writer = Writers
        /\ \A w \in Writers : WriterOK(writer[w])
    BY <1>1 DEF Init, LogOK, StoreOK
  <1>3. NoRetries \in [{"table", "company"} -> 0 .. RetryLimit + 1]
    <2>1. NoRetries = [c \in {"table", "company"} |-> 0]
      BY DEF NoRetries
    <2> QED BY <2>1, ReplicationAssumption
  <1>4. applied \in BOOLEAN /\ ~applied
    BY DEF Init
  <1>5. ProcessOK
    <2>1. /\ section \in 1 .. 4 /\ phase \in {"poll", "rows"} /\ batch \subseteq Unseen(Table)
          /\ retry \in [{"table", "company"} -> 0 .. RetryLimit + 1]
      BY <1>3 DEF Init
    <2>2. batch = {}
      BY DEF Init
    <2> QED BY <1>4, <2>1, <2>2, Zenon DEF ProcessOK
  <1> QED BY <1>2, <1>5 DEF Typed

\* A step of the ledger reaches the replicator only through the log.
LEMMA LedgerTyped ==
    ASSUME Typed, clock' \in Nat, lastHash' \in [Tables -> Nat], DOMAIN writer' = Writers,
           \A t \in Tables : lastHash[t] <= lastHash'[t],
           \A w \in Writers : WriterOK(writer[w])',
           LogOK', \A t \in Tables : DOMAIN log[t] \subseteq DOMAIN log'[t],
           UNCHANGED <<store, process, crashes>>
    PROVE  Typed'
  <1>1. StoreOK'
    <2>1. \A t \in Tables : cursor[t] <= lastHash'[t]
      BY DEF Typed, StoreOK
    <2> QED BY <2>1 DEF Typed, StoreOK, store
  <1>2. ProcessOK'
    <2>1. Table' = Table /\ Table \in Tables
      BY TableTyped DEF Typed, ProcessOK, Table, process
    <2>2. Unseen(Table) \subseteq Unseen(Table)'
      BY <2>1 DEF Unseen, store
    <2> QED BY <2>2 DEF Typed, ProcessOK, process
  <1> QED BY <1>1, <1>2 DEF Typed

LEMMA StampTyped ==
    ASSUME Typed, NEW w \in Writers, NEW ws \in WriteSets, Stamp(w, ws)
    PROVE  Typed'
  <1> DEFINE tx == [time |-> clock', todo |-> ws, rows |-> <<>>]
  <1>1. clock' \in Nat
    BY DEF Stamp, Typed
  <1>2. /\ writer' = [writer EXCEPT ![w] = tx] /\ UNCHANGED <<lastHash, log, store, process, crashes>>
    BY DEF Stamp
  <1>3. DOMAIN ws \subseteq Tables
    BY ReplicationAssumption
  <1>4. tx.time = clock' /\ tx.todo = ws /\ DOMAIN tx.rows = {}
        /\ tx = [time |-> tx.time, todo |-> tx.todo, rows |-> tx.rows]
    OBVIOUS
  <1> HIDE DEF tx
  <1>5. \A v \in Writers : WriterOK(writer[v])'
    <2> SUFFICES ASSUME NEW v \in Writers PROVE WriterOK(writer[v])'
      OBVIOUS
    <2>1. writer'[v] = IF v = w THEN tx ELSE writer[v]
      BY <1>2 DEF Typed
    <2> QED BY <1>1, <1>2, <1>3, <1>4, <2>1 DEF Typed, WriterOK
  <1> QED BY <1>1, <1>2, <1>5, LedgerTyped DEF Typed, LogOK

LEMMA InsertTyped ==
    ASSUME Typed, NEW w \in Writers, NEW t \in Tables, InsertRow(w, t)
    PROVE  Typed'
  <1> DEFINE h == lastHash[t] + 1
             rows == Put(writer[w].rows, t, h)
             tx == [time |-> writer[w].time, todo |-> writer[w].todo, rows |-> rows]
  <1>1. /\ lastHash' = [lastHash EXCEPT ![t] = h]
        /\ UNCHANGED <<clock, started, log, store, process, crashes>>
    BY DEF InsertRow
  <1>2. /\ lastHash' \in [Tables -> Nat] /\ lastHash'[t] = h /\ h \in Nat \ {0}
        /\ \A u \in Tables : lastHash[u] <= lastHash'[u]
    BY <1>1 DEF Typed
  <1>3. WriterOK(writer[w])
    BY DEF Typed
  <1>4. writer' = [writer EXCEPT ![w] = tx]
    <2>1. writer' = [writer EXCEPT ![w].rows = rows]
      BY <1>2 DEF InsertRow
    <2>2. [writer[w] EXCEPT !.rows = rows] = tx
      <3> HIDE DEF rows
      <3> QED BY <1>3 DEF WriterOK
    <2> HIDE DEF tx, rows
    <2> QED BY <2>1, <2>2
  <1>5. DOMAIN rows = DOMAIN writer[w].rows \cup {t} /\ rows[t] = h
        /\ \A u \in DOMAIN writer[w].rows : u # t => rows[u] = writer[w].rows[u]
    BY DEF Put
  <1>6. /\ tx.time = writer[w].time /\ tx.todo = writer[w].todo /\ tx.rows = rows
        /\ tx = [time |-> tx.time, todo |-> tx.todo, rows |-> tx.rows]
    OBVIOUS
  <1>7. t \in DOMAIN writer[w].todo
    BY DEF InsertRow
  <1> HIDE DEF tx, rows, h
  <1>8. \A v \in Writers : WriterOK(writer[v])'
    <2> SUFFICES ASSUME NEW v \in Writers PROVE WriterOK(writer[v])'
      OBVIOUS
    <2>1. writer'[v] = IF v = w THEN tx ELSE writer[v]
      BY <1>4 DEF Typed
    <2>2. CASE v = w
      <3>1. \A u \in DOMAIN rows : rows[u] \in 1 .. lastHash'[u]
        BY <1>2, <1>3, <1>5 DEF Typed, WriterOK
      <3> QED BY <1>3, <1>5, <1>6, <1>7, <2>1, <2>2, <3>1 DEF WriterOK
    <2>3. CASE v # w
      <3>1. WriterOK(writer[v])
        BY DEF Typed
      <3>2. \A u \in DOMAIN writer[v].rows : writer[v].rows[u] \in 1 .. lastHash'[u]
        BY <1>2, <3>1 DEF Typed, WriterOK
      <3> QED BY <2>1, <2>3, <3>1, <3>2 DEF WriterOK
    <2> QED BY <2>2, <2>3
  <1>9. LogOK'
    <2>1. \A u \in Tables : DOMAIN log[u] \subseteq 1 .. lastHash'[u]
      BY <1>2 DEF Typed, LogOK
    <2> QED BY <1>1, <2>1 DEF Typed, LogOK
  <1> QED BY <1>1, <1>2, <1>4, <1>8, <1>9, LedgerTyped DEF Typed

\* What a commit adds to a table.
Committed(w, t) ==
    /\ DOMAIN log' = Tables
    /\ t \notin DOMAIN writer[w].rows => log'[t] = log[t]
    /\ t \in DOMAIN writer[w].rows =>
         /\ DOMAIN log'[t] = DOMAIN log[t] \cup {writer[w].rows[t]}
         /\ log'[t][writer[w].rows[t]] = [key |-> writer[w].todo[t], time |-> writer[w].time]
         /\ \A h \in DOMAIN log[t] : h # writer[w].rows[t] => log'[t][h] = log[t][h]

LEMMA CommitAdds ==
    ASSUME Typed, NEW w \in Writers, Commit(w), NEW t \in Tables
    PROVE  Committed(w, t)
  <1> DEFINE e == [key |-> writer[w].todo[t], time |-> writer[w].time]
  <1>1. /\ DOMAIN log' = Tables
        /\ t \notin DOMAIN writer[w].rows => log'[t] = log[t]
        /\ t \in DOMAIN writer[w].rows => log'[t] = Put(log[t], writer[w].rows[t], e)
    BY DEF Commit
  <1>2. ASSUME t \in DOMAIN writer[w].rows
        PROVE  /\ DOMAIN log'[t] = DOMAIN log[t] \cup {writer[w].rows[t]}
               /\ log'[t][writer[w].rows[t]] = e
               /\ \A h \in DOMAIN log[t] : h # writer[w].rows[t] => log'[t][h] = log[t][h]
    <2> HIDE DEF e
    <2>1. log'[t] = Put(log[t], writer[w].rows[t], e)
      BY <1>1, <1>2
    <2> QED BY <1>2, <2>1 DEF Put
  <1> QED BY <1>1, <1>2 DEF Committed

LEMMA CommitTyped ==
    ASSUME Typed, NEW w \in Writers, Commit(w)
    PROVE  Typed'
  <1>1. writer' = [writer EXCEPT ![w] = NoTransaction]
        /\ UNCHANGED <<clock, started, lastHash, store, process, crashes>>
    BY DEF Commit
  <1>2. \A v \in Writers : WriterOK(writer[v])'
    <2>1. WriterOK(NoTransaction)'
      BY DEF WriterOK, NoTransaction
    <2> QED BY <1>1, <2>1 DEF Typed, WriterOK
  <1>3. WriterOK(writer[w])
    BY DEF Typed
  <1>4. DOMAIN log' = Tables
    BY DEF Commit
  <1>5. ASSUME NEW t \in Tables
        PROVE  /\ DOMAIN log'[t] \subseteq 1 .. lastHash[t]
               /\ DOMAIN log[t] \subseteq DOMAIN log'[t]
               /\ \A h \in DOMAIN log'[t] : log'[t][h].time \in Nat
    <2>0. Committed(w, t)
      BY CommitAdds
    <2>1. CASE t \notin DOMAIN writer[w].rows
      BY <2>0, <2>1 DEF Typed, LogOK, Committed
    <2>2. CASE t \in DOMAIN writer[w].rows
      <3>1. /\ DOMAIN log[t] \subseteq 1 .. lastHash[t]
            /\ \A h \in DOMAIN log[t] : log[t][h].time \in Nat
        BY DEF Typed, LogOK
      <3>2. writer[w].rows[t] \in 1 .. lastHash[t] /\ writer[w].time \in Nat
        BY <1>3, <2>2 DEF WriterOK
      <3>3. log'[t][writer[w].rows[t]].time \in Nat
        BY <2>0, <2>2, <3>2 DEF Committed
      <3> QED BY <2>0, <2>2, <3>1, <3>2, <3>3 DEF Committed
    <2> QED BY <2>1, <2>2
  <1>6. LogOK'
    BY <1>1, <1>4, <1>5 DEF LogOK
  <1> QED BY <1>1, <1>2, <1>5, <1>6, LedgerTyped DEF Typed

LEMMA RollbackTyped ==
    ASSUME Typed, NEW w \in Writers, Rollback(w)
    PROVE  Typed'
  <1>1. writer' = [writer EXCEPT ![w] = NoTransaction]
        /\ UNCHANGED <<clock, started, lastHash, log, store, process, crashes>>
    BY DEF Rollback
  <1>2. \A v \in Writers : WriterOK(writer[v])'
    <2>1. WriterOK(NoTransaction)'
      BY DEF WriterOK, NoTransaction
    <2> QED BY <1>1, <2>1 DEF Typed, WriterOK
  <1> QED BY <1>1, <1>2, LedgerTyped DEF Typed, LogOK

\* The row at work: its hash is the least of the batch.
LEMMA RowAtWork ==
    ASSUME Typed, batch # {}
    PROVE  /\ Min(batch) \in batch /\ Min(batch) \in DOMAIN log[Table]
           /\ Min(batch) > cursor[Table] /\ Min(batch) <= lastHash[Table]
           /\ Min(batch) \in Nat /\ batch \subseteq Nat
           /\ \A h \in batch : Min(batch) <= h
  <1>1. Table \in Tables
    BY TableTyped DEF Typed, ProcessOK
  <1>2. batch \subseteq DOMAIN log[Table] /\ \A h \in batch : h > cursor[Table]
    BY DEF Typed, ProcessOK, Unseen
  <1>3. DOMAIN log[Table] \subseteq 1 .. lastHash[Table] /\ lastHash[Table] \in Nat
    BY <1>1 DEF Typed, LogOK
  <1>4. batch \in SUBSET Nat
    BY <1>2, <1>3
  <1>5. Min(batch) \in batch /\ \A h \in batch : Min(batch) <= h
    BY <1>4, LeastHash
  <1>6. Min(batch) > cursor[Table] /\ Min(batch) \in DOMAIN log[Table]
    BY <1>2, <1>5
  <1>7. Min(batch) \in 1 .. lastHash[Table]
    BY <1>3, <1>6
  <1>8. Min(batch) <= lastHash[Table] /\ Min(batch) \in Nat
    BY <1>3, <1>7
  <1> QED BY <1>4, <1>5, <1>6, <1>8

LEMMA PollTyped ==
    ASSUME Typed, Poll
    PROVE  Typed'
  <1>1. /\ batch' = Unseen(Table) /\ phase' = "rows"
        /\ UNCHANGED <<ledger, store, section, applied, retry, ended, crashes>>
    BY DEF Poll
  <1>2. /\ LogOK' /\ StoreOK' /\ clock' \in Nat /\ crashes' \in Nat
        /\ lastHash' \in [Tables -> Nat] /\ DOMAIN writer' = Writers
        /\ \A w \in Writers : WriterOK(writer[w])'
    BY <1>1 DEF Typed, ledger, store, LogOK, StoreOK, WriterOK
  <1>3. Unseen(Table)' = Unseen(Table)
    BY <1>1 DEF Unseen, Table, ledger, store
  <1>4. applied' => batch' # {}
    BY <1>1 DEF Typed, ProcessOK
  <1>5. /\ section' \in 1 .. 4 /\ phase' \in {"poll", "rows"}
        /\ retry' \in [{"table", "company"} -> 0 .. RetryLimit + 1]
    BY <1>1 DEF Typed, ProcessOK
  <1>6. applied' \in BOOLEAN
    BY <1>1 DEF Typed, ProcessOK
  <1>7. ProcessOK'
    BY <1>1, <1>3, <1>4, <1>5, <1>6 DEF ProcessOK
  <1> QED BY <1>2, <1>7 DEF Typed

\* A step of the replicator that leaves both databases alone.
LEMMA LoopTyped ==
    ASSUME Typed, UNCHANGED <<ledger, store>>, crashes' \in Nat,
           section' \in 1 .. 4, phase' \in {"poll", "rows"}, batch' = {}, applied' = FALSE,
           retry' \in [{"table", "company"} -> 0 .. RetryLimit + 1]
    PROVE  Typed'
  <1>1. /\ LogOK' /\ StoreOK' /\ clock' \in Nat
        /\ lastHash' \in [Tables -> Nat] /\ DOMAIN writer' = Writers
        /\ \A w \in Writers : WriterOK(writer[w])'
    BY DEF Typed, ledger, store, LogOK, StoreOK, WriterOK
  <1>2. batch' \subseteq Unseen(Table)' /\ applied' \in BOOLEAN /\ (applied' => batch' # {})
    OBVIOUS
  <1>3. ProcessOK'
    BY <1>2, Zenon DEF ProcessOK
  <1> QED BY <1>1, <1>3 DEF Typed

LEMMA FinishTyped ==
    ASSUME Typed, Finish
    PROVE  Typed'
  <1>1. section' \in 1 .. 4 /\ RetryCounter(Table) \in {"table", "company"}
    BY TableTyped DEF Typed, ProcessOK, Finish
  <1>2. retry' \in [{"table", "company"} -> 0 .. RetryLimit + 1]
    <2>1. RetryLimit + 1 \in Nat
      BY ReplicationAssumption
    <2> QED BY <1>1, <2>1 DEF Typed, ProcessOK, Finish
  <1>3. batch' = {} /\ ~applied' /\ applied' \in BOOLEAN
    BY DEF Finish, Typed, ProcessOK
  <1>4. applied' = FALSE
    BY <1>3
  <1> QED BY <1>1, <1>2, <1>3, <1>4, LoopTyped DEF Finish, Typed

LEMMA FailTyped ==
    ASSUME Typed, Fail
    PROVE  Typed'
  <1> DEFINE c == RetryCounter(Table)
  <1>1. section \in 1 .. 4 /\ NextSection \in 1 .. 4 /\ c \in {"table", "company"}
    BY TableTyped DEF Typed, ProcessOK
  <1>2. \/ section' = section /\ retry' = retry
        \/ /\ section' = NextSection /\ ~(retry[c] > RetryLimit)
           /\ retry' = [retry EXCEPT ![c] = @ + 1]
    BY DEF Fail
  <1>3. retry' \in [{"table", "company"} -> 0 .. RetryLimit + 1]
    <2> HIDE DEF c
    <2>1. RetryLimit \in Nat /\ retry \in [{"table", "company"} -> 0 .. RetryLimit + 1]
      BY ReplicationAssumption DEF Typed, ProcessOK
    <2>2. ~(retry[c] > RetryLimit) => retry[c] + 1 \in 0 .. RetryLimit + 1
      BY <1>1, <2>1
    <2> QED BY <1>1, <1>2, <2>1, <2>2
  <1>4. section' \in 1 .. 4
    BY <1>1, <1>2
  <1>5. /\ UNCHANGED <<ledger, store>> /\ crashes' = crashes
        /\ phase' = "poll" /\ batch' = {} /\ applied' = FALSE
    BY DEF Fail
  <1> QED BY <1>3, <1>4, <1>5, LoopTyped DEF Typed

LEMMA RestartTyped ==
    ASSUME Typed, Restart
    PROVE  Typed'
  <1>1. NoRetries \in [{"table", "company"} -> 0 .. RetryLimit + 1]
    <2>1. NoRetries = [c \in {"table", "company"} |-> 0]
      BY DEF NoRetries
    <2> QED BY <2>1, ReplicationAssumption
  <1>2. /\ UNCHANGED <<ledger, store>> /\ section' = 1 /\ phase' = "poll" /\ batch' = {}
        /\ applied' = FALSE /\ retry' = NoRetries
    BY DEF Restart
  <1>3. crashes' \in Nat
    BY DEF Restart, Typed
  <1>4. /\ section' \in 1 .. 4 /\ phase' \in {"poll", "rows"}
        /\ retry' \in [{"table", "company"} -> 0 .. RetryLimit + 1]
    BY <1>1, <1>2
  <1> QED BY <1>2, <1>3, <1>4, LoopTyped

\* What applying a row does to the replica.
LEMMA ApplyWrites ==
    ASSUME Typed, Apply
    PROVE  /\ Table \in Tables /\ batch # {} /\ ~applied /\ applied'
           /\ \/ UNCHANGED <<replica, created>> /\ ~Newer(Table, log[Table][Min(batch)])
              \/ LET e == log[Table][Min(batch)] IN
                 /\ Newer(Table, e)
                 /\ DOMAIN replica' = Tables
                 /\ \A t \in Tables : t # Table => replica'[t] = replica[t]
                 /\ DOMAIN replica'[Table] = DOMAIN replica[Table] \cup {e.key}
                 /\ replica'[Table][e.key] = [time |-> e.time, hash |-> Min(batch)]
                 /\ \A k \in DOMAIN replica[Table] :
                        k # e.key => replica'[Table][k] = replica[Table][k]
  <1> DEFINE e == log[Table][Min(batch)]
             x == [time |-> e.time, hash |-> Min(batch)]
  <1>1. Table \in Tables
    BY TableTyped DEF Typed, ProcessOK
  <1>2. batch # {} /\ ~applied /\ applied'
    BY DEF Apply
  <1>3. \/ UNCHANGED <<replica, created>> /\ ~Newer(Table, e)
        \/ /\ Newer(Table, e)
           /\ replica' = [replica EXCEPT ![Table] = Put(@, e.key, x)]
    BY DEF Apply
  <1>4. DOMAIN replica = Tables
    BY DEF Typed, StoreOK
  <1>5. ASSUME replica' = [replica EXCEPT ![Table] = Put(@, e.key, x)]
        PROVE  /\ DOMAIN replica' = Tables
               /\ \A t \in Tables : t # Table => replica'[t] = replica[t]
               /\ DOMAIN replica'[Table] = DOMAIN replica[Table] \cup {e.key}
               /\ replica'[Table][e.key] = x
               /\ \A k \in DOMAIN replica[Table] :
                     k # e.key => replica'[Table][k] = replica[Table][k]
    <2> HIDE DEF e, x
    <2>1. replica'[Table] = Put(replica[Table], e.key, x)
      BY <1>1, <1>4, <1>5
    <2>2. DOMAIN replica' = Tables /\ \A t \in Tables : t # Table => replica'[t] = replica[t]
      BY <1>4, <1>5
    <2> QED BY <2>1, <2>2 DEF Put
  <1> QED BY <1>1, <1>2, <1>3, <1>5

LEMMA ApplyTyped ==
    ASSUME Typed, Apply
    PROVE  Typed'
  <1>1. UNCHANGED <<ledger, cursor, section, phase, batch, retry, ended, crashes>>
    BY DEF Apply
  <1>2. /\ LogOK' /\ clock' \in Nat /\ crashes' \in Nat
        /\ lastHash' \in [Tables -> Nat] /\ DOMAIN writer' = Writers
        /\ \A w \in Writers : WriterOK(writer[w])'
    BY <1>1 DEF Typed, ledger, LogOK, WriterOK
  <1>3. Min(batch) \in DOMAIN log[Table]
    BY RowAtWork, ApplyWrites
  <1>4. DOMAIN replica' = Tables /\
        \A t \in Tables : \A k \in DOMAIN replica'[t] : replica'[t][k].hash \in DOMAIN log[t]
    <2>1. DOMAIN replica = Tables /\
          \A t \in Tables : \A k \in DOMAIN replica[t] : replica[t][k].hash \in DOMAIN log[t]
      BY DEF Typed, StoreOK
    <2> DEFINE e == log[Table][Min(batch)]
    <2>2. CASE UNCHANGED replica
      BY <2>1, <2>2
    <2>3. CASE /\ DOMAIN replica' = Tables
               /\ \A t \in Tables : t # Table => replica'[t] = replica[t]
               /\ DOMAIN replica'[Table] = DOMAIN replica[Table] \cup {e.key}
               /\ replica'[Table][e.key].hash = Min(batch)
               /\ \A k \in DOMAIN replica[Table] :
                        k # e.key => replica'[Table][k] = replica[Table][k]
      <3> HIDE DEF e
      <3> QED BY <1>3, <2>1, <2>3
    <2> QED BY <2>2, <2>3, ApplyWrites
  <1>5. StoreOK'
    BY <1>1, <1>4 DEF Typed, StoreOK, ledger
  <1>6. Unseen(Table)' = Unseen(Table)
    BY <1>1 DEF Unseen, Table, ledger
  <1>7. batch' # {} /\ applied' \in BOOLEAN
    BY <1>1 DEF Apply
  <1>8. ProcessOK'
    <2>1. /\ section' \in 1 .. 4 /\ phase' \in {"poll", "rows"} /\ batch' \subseteq Unseen(Table)'
          /\ retry' \in [{"table", "company"} -> 0 .. RetryLimit + 1]
      BY <1>1, <1>6 DEF Typed, ProcessOK
    <2>2. phase' = "poll" => batch' = {}
      BY <1>1 DEF Typed, ProcessOK
    <2> QED BY <1>7, <2>1, <2>2, Zenon DEF ProcessOK
  <1> QED BY <1>2, <1>5, <1>8 DEF Typed

LEMMA SaveCursorTyped ==
    ASSUME Typed, SaveCursor
    PROVE  Typed'
  <1> DEFINE h == Min(batch)
  <1>1. /\ cursor' = [cursor EXCEPT ![Table] = h] /\ batch' = batch \ {h} /\ applied' = FALSE
        /\ UNCHANGED <<ledger, replica, created, section, phase, retry, ended, crashes>>
    BY DEF SaveCursor
  <1>2. batch # {}
    BY DEF SaveCursor, Typed, ProcessOK
  <1>3. /\ h \in batch /\ h \in Nat /\ h <= lastHash[Table] /\ batch \subseteq Nat
        /\ \A g \in batch : h <= g
    BY <1>2, RowAtWork
  <1>4. Table \in Tables /\ Table' = Table
    BY <1>1, TableTyped DEF Typed, ProcessOK, Table
  <1> HIDE DEF h
  <1>5. /\ LogOK' /\ clock' \in Nat /\ crashes' \in Nat
        /\ lastHash' \in [Tables -> Nat] /\ DOMAIN writer' = Writers
        /\ \A w \in Writers : WriterOK(writer[w])'
    BY <1>1 DEF Typed, ledger, LogOK, WriterOK
  <1>6. StoreOK'
    <2>1. cursor' \in [Tables -> Nat] /\ \A t \in Tables : cursor'[t] <= lastHash[t]
      BY <1>1, <1>3, <1>4 DEF Typed, StoreOK
    <2> QED BY <1>1, <2>1 DEF Typed, StoreOK, ledger
  <1>7. batch' \subseteq Unseen(Table)'
    <2>1. batch \subseteq DOMAIN log[Table]
      BY DEF Typed, ProcessOK, Unseen
    <2>2. cursor'[Table] = h /\ log' = log
      BY <1>1, <1>4 DEF Typed, StoreOK, ledger
    <2>3. \A g \in batch' : g \in DOMAIN log[Table] /\ g > h
      BY <1>1, <1>3, <2>1
    <2> QED BY <1>4, <2>2, <2>3 DEF Unseen
  <1>8. ProcessOK'
    <2>1. /\ section' \in 1 .. 4 /\ phase' \in {"poll", "rows"}
          /\ retry' \in [{"table", "company"} -> 0 .. RetryLimit + 1]
      BY <1>1 DEF Typed, ProcessOK
    <2>2. applied' \in BOOLEAN /\ (applied' => batch' # {})
      BY <1>1
    <2>3. phase' = "poll" => batch' = {}
      BY <1>1 DEF Typed, ProcessOK
    <2> QED BY <1>7, <2>1, <2>2, <2>3, Zenon DEF ProcessOK
  <1> QED BY <1>5, <1>6, <1>8 DEF Typed

LEMMA TypedNext == Typed /\ [Next]_vars => Typed'
  <1> SUFFICES ASSUME Typed, [Next]_vars PROVE Typed'
    OBVIOUS
  <1>1. CASE \E w \in Writers : Transaction(w)
    BY <1>1, StampTyped, InsertTyped, CommitTyped, RollbackTyped DEF Transaction
  <1>2. CASE ReplicateActions
    BY <1>2, PollTyped, ApplyTyped, SaveCursorTyped, FinishTyped, FailTyped DEF ReplicateActions
  <1>3. CASE Restart
    BY <1>3, RestartTyped
  <1>4. CASE UNCHANGED vars
    BY <1>4 DEF vars, ledger, store, process, Typed, WriterOK, LogOK, StoreOK, ProcessOK,
        Unseen, Table
  <1> QED BY <1>1, <1>2, <1>3, <1>4 DEF Next

\* Every cursor points at a hash that was drawn, every row of the replica
\* reflects a committed event, and the batch in hand is part of what its
\* section has still to do - for any number of racing writers, failing sections
\* and restarts.
THEOREM TypeCorrect == Spec => []TypeOK
  <1>1. Spec => []Typed
    BY TypedInit, TypedNext, PTL DEF Spec
  <1> QED BY <1>1, TypesFollow, PTL
-----------------------------------------------------------------------------
(* Rows of credit_transactions *)

\* The row that was applied and whose cursor is still to be saved.
InHand(t, h) == applied /\ Table = t /\ h = Min(batch)

\* A block event above the cursor has created rows in earlier lives of the
\* process only, at most one in each, unless it is the row in hand.
Unrepeated ==
    \A h \in DOMAIN created :
        /\ h \in Nat /\ created[h] \in Nat
        /\ created[h] <= 1 + crashes
        /\ h > cursor["block"] /\ ~InHand("block", h) => created[h] <= crashes

LEMMA ApplyCounts ==
    ASSUME Typed, Unrepeated, Apply
    PROVE  Unrepeated'
  <1> DEFINE m == Min(batch)
             v == IF m \in DOMAIN created THEN created[m] + 1 ELSE 1
  <1>1. /\ UNCHANGED <<cursor, crashes>> /\ Table' = Table /\ batch' = batch /\ applied' = TRUE
        /\ ~applied
    BY DEF Apply, Table
  <1>2. m \in Nat /\ m > cursor[Table]
    BY RowAtWork, ApplyWrites
  <1>3. cursor["block"] \in Nat /\ crashes \in Nat
    BY SectionFacts DEF Typed, StoreOK
  <1>4. created' = created \/ (Table = "block" /\ created' = Put(created, m, v))
    BY DEF Apply
  <1>5. \A h \in DOMAIN created : h > cursor["block"] => created[h] <= crashes
    BY <1>1 DEF Unrepeated, InHand
  <1>6. CASE created' = created
    BY <1>1, <1>5, <1>6 DEF Unrepeated
  <1>7. CASE Table = "block" /\ created' = Put(created, m, v)
    <2>1. v \in Nat /\ v <= 1 + crashes
      BY <1>2, <1>3, <1>5, <1>7 DEF Unrepeated
    <2>2. InHand("block", m)'
      BY <1>1, <1>7 DEF InHand
    <2> HIDE DEF m, v
    <2>3. /\ DOMAIN created' = DOMAIN created \cup {m} /\ created'[m] = v
          /\ \A h \in DOMAIN created : h # m => created'[h] = created[h]
      BY <1>7 DEF Put
    <2> SUFFICES ASSUME NEW h \in DOMAIN created'
                 PROVE  /\ h \in Nat /\ created'[h] \in Nat
                        /\ created'[h] <= 1 + crashes'
                        /\ h > cursor'["block"] /\ ~InHand("block", h)' => created'[h] <= crashes'
      BY DEF Unrepeated
    <2>4. CASE h = m
      <3>1. h \in Nat /\ created'[h] \in Nat /\ created'[h] <= 1 + crashes'
        BY <1>1, <1>2, <2>1, <2>3, <2>4
      <3>2. InHand("block", h)'
        BY <2>4, <1>1, <1>7 DEF InHand, m
      <3> QED BY <3>1, <3>2
    <2>5. CASE h # m
      BY <1>1, <1>5, <2>3, <2>5 DEF Unrepeated
    <2> QED BY <2>4, <2>5
  <1> QED BY <1>4, <1>6, <1>7

LEMMA SaveCursorCounts ==
    ASSUME Typed, Unrepeated, SaveCursor
    PROVE  Unrepeated'
  <1> DEFINE m == Min(batch)
  <1>1. /\ cursor' = [cursor EXCEPT ![Table] = m] /\ applied /\ ~applied'
        /\ UNCHANGED <<created, crashes>>
    BY DEF SaveCursor
  <1>2. m \in Nat /\ m > cursor[Table]
    BY <1>1, RowAtWork DEF Typed, ProcessOK
  <1>3. Table \in Tables /\ "block" \in Tables /\ cursor \in [Tables -> Nat]
    BY TableTyped, SectionFacts DEF Typed, StoreOK, ProcessOK
  <1>4. ASSUME NEW h \in DOMAIN created, h > cursor'["block"]
        PROVE  created[h] <= crashes
    <2>1. h \in Nat
      BY DEF Unrepeated
    <2>2. CASE Table = "block"
      <3>1. h > m
        BY <1>1, <1>3, <1>4, <2>2
      <3>2. h # m /\ h > cursor["block"]
        BY <1>2, <1>3, <2>1, <2>2, <3>1
      <3> QED BY <3>2 DEF Unrepeated, InHand
    <2>3. CASE Table # "block"
      <3>1. h > cursor["block"]
        BY <1>1, <1>3, <1>4, <2>3
      <3> QED BY <2>3, <3>1 DEF Unrepeated, InHand
    <2> QED BY <2>2, <2>3
  <1> QED BY <1>1, <1>4 DEF Unrepeated

\* A step that neither creates a row nor saves a cursor, and leaves no row in
\* hand behind.
LEMMA CountsKept ==
    ASSUME Typed, Unrepeated, UNCHANGED store, crashes' \in {crashes, crashes + 1},
           \/ ~applied \/ Table # "block"
           \/ crashes' = crashes + 1
    PROVE  Unrepeated'
  <1>1. created' = created /\ cursor' = cursor
    BY DEF store
  <1>2. crashes \in Nat
    BY DEF Typed
  <1>3. ASSUME NEW h \in DOMAIN created
        PROVE  /\ h \in Nat /\ created[h] \in Nat /\ created[h] <= 1 + crashes'
               /\ h > cursor["block"] => created[h] <= crashes'
    BY <1>2 DEF Unrepeated, InHand
  <1> QED BY <1>1, <1>3 DEF Unrepeated

LEMMA CountsNext ==
    ASSUME "block" \notin FaultySections, Typed, Unrepeated, [Next]_vars
    PROVE  Unrepeated'
  <1>1. CASE UNCHANGED <<store, process, crashes>>
    BY <1>1 DEF Unrepeated, InHand, store, process, Table
  <1>2. CASE \E w \in Writers : Transaction(w)
    BY <1>1, <1>2 DEF Transaction, Stamp, InsertRow, Commit, Rollback
  <1>3. CASE Poll
    <2>1. ~applied
      BY <1>3 DEF Poll, Typed, ProcessOK
    <2> QED BY <1>3, <2>1, CountsKept DEF Poll
  <1>4. CASE Finish
    <2>1. ~applied
      BY <1>4 DEF Finish, Typed, ProcessOK
    <2> QED BY <1>4, <2>1, CountsKept DEF Finish
  <1>5. CASE Fail
    BY <1>5, CountsKept DEF Fail
  <1>6. CASE Restart
    BY <1>6, CountsKept DEF Restart
  <1>7. CASE UNCHANGED vars
    BY <1>1, <1>7 DEF vars
  <1> QED BY <1>2, <1>3, <1>4, <1>5, <1>6, <1>7, ApplyCounts, SaveCursorCounts
        DEF Next, ReplicateActions

\* An event of a block creates one row of credit_transactions, and one more for
\* every restart at the most, as long as the section of blocks does not throw
\* between the row and its cursor - whatever the other sections do, and for any
\* number of racing writers.
THEOREM RowsCounted ==
    ASSUME "block" \notin FaultySections
    PROVE  Spec => []RowsRepeatedOnlyByRestart
  <1>1. Init => Unrepeated
    BY DEF Init, Unrepeated
  <1>2. Unrepeated => RowsRepeatedOnlyByRestart
    BY DEF Unrepeated, RowsRepeatedOnlyByRestart
  <1>3. Typed /\ Unrepeated /\ [Next]_vars => Typed' /\ Unrepeated'
    BY TypedNext, CountsNext
  <1> QED BY TypedInit, <1>1, <1>2, <1>3, PTL DEF Spec

-----------------------------------------------------------------------------
(* Retries *)

\* Failures counted, at the most, when a section starts: by the section that
\* does not throw, then by the section that starts.
MostFailures(p) ==
    CASE p = 1 -> <<2, 0, 0, 1>> [] p = 3 -> <<1, 2, 2, 0>> [] p = 4 -> <<0, 1, 1, 2>>

Resets ==
    /\ "company" \notin FaultySections => retry["company"] = 0
    /\ \A p \in {1, 3, 4} :
         Sections[p] \notin FaultySections => retry["table"] <= MostFailures(p)[section]
    /\ EndsOnlyInOutage

LEMMA FailureBounds ==
    /\ MostFailures(1) = <<2, 0, 0, 1>>
    /\ MostFailures(3) = <<1, 2, 2, 0>>
    /\ MostFailures(4) = <<0, 1, 1, 2>>
  BY DEF MostFailures

LEMMA TableAt ==
    ASSUME Typed
    PROVE  /\ section \in {1, 2, 3, 4}
           /\ retry["table"] \in Nat /\ retry["company"] \in Nat
           /\ DOMAIN retry = {"table", "company"}
           /\ section = 1 => Table = Sections[1] /\ RetryCounter(Table) = "table" /\ NextSection = 2
           /\ section = 2 => Table = "company" /\ RetryCounter(Table) = "company" /\ NextSection = 3
           /\ section = 3 => Table = Sections[3] /\ RetryCounter(Table) = "table" /\ NextSection = 4
           /\ section = 4 => Table = Sections[4] /\ RetryCounter(Table) = "table" /\ NextSection = 1
  <1>1. section \in {1, 2, 3, 4}
    BY DEF Typed, ProcessOK
  <1>2. NextSection = IF section = 4 THEN 1 ELSE section + 1
    BY TableTyped DEF Typed, ProcessOK
  <1>3. /\ retry["table"] \in Nat /\ retry["company"] \in Nat
        /\ DOMAIN retry = {"table", "company"}
    BY ReplicationAssumption DEF Typed, ProcessOK
  <1> QED BY <1>1, <1>2, <1>3, SectionFacts DEF Table, RetryCounter

LEMMA FinishResets ==
    ASSUME Typed, Resets, Finish
    PROVE  Resets'
  <1>1. /\ section' = NextSection /\ retry' = [retry EXCEPT ![RetryCounter(Table)] = 0]
        /\ ended' = ended
    BY DEF Finish
  <1>2. "company" \notin FaultySections => retry'["company"] = 0
    BY <1>1, TableAt DEF Resets
  <1>3. ASSUME NEW p \in {1, 3, 4}, Sections[p] \notin FaultySections
        PROVE  retry'["table"] <= MostFailures(p)[section']
    <2>1. retry["table"] <= MostFailures(p)[section]
      BY <1>3 DEF Resets
    <2>2. CASE section = 2
      <3>1. retry'["table"] = retry["table"] /\ section' = 3
        BY <1>1, <2>2, TableAt
      <3> QED BY <2>1, <2>2, <3>1, FailureBounds
    <2>3. CASE section # 2
      <3>1. retry'["table"] = 0 /\ section' \in {1, 2, 4}
        BY <1>1, <2>3, TableAt
      <3> QED BY <3>1, FailureBounds
    <2> QED BY <2>2, <2>3
  <1> QED BY <1>1, <1>2, <1>3 DEF Resets, EndsOnlyInOutage

LEMMA FailResets ==
    ASSUME Typed, Resets, Fail
    PROVE  Resets'
  <1> DEFINE c == RetryCounter(Table)
  <1>1. /\ Table \in FaultySections
        /\ \/ retry[c] > RetryLimit /\ ended' /\ UNCHANGED <<section, retry>>
           \/ /\ retry' = [retry EXCEPT ![c] = @ + 1] /\ section' = NextSection
              /\ UNCHANGED ended
    BY DEF Fail
  <1>2. RetryLimit \in Nat /\ RetryLimit >= 1
    BY ReplicationAssumption
  <1>3. CASE retry[c] > RetryLimit /\ ended' /\ UNCHANGED <<section, retry>>
    <2>1. EndsOnlyInOutage'
      <3> SUFFICES ASSUME "company" \notin FaultySections,
                          NEW p \in {1, 3, 4}, Sections[p] \notin FaultySections
                   PROVE  FALSE
        BY SectionFacts DEF EndsOnlyInOutage
      <3>1. c = "table" /\ section # 2 /\ section # p
        BY <1>1, TableAt
      <3>2. retry["table"] <= MostFailures(p)[section]
        BY DEF Resets
      <3>3. MostFailures(p)[section] <= 1
        BY <3>1, FailureBounds, TableAt
      <3> HIDE DEF c
      <3>4. retry["table"] > RetryLimit
        BY <1>3, <3>1
      <3>5. MostFailures(p)[section] \in {0, 1}
        BY <3>1, FailureBounds, TableAt
      <3> QED BY <1>2, <3>2, <3>4, <3>5, TableAt
    <2> QED BY <1>3, <2>1 DEF Resets
  <1>4. CASE /\ retry' = [retry EXCEPT ![c] = @ + 1] /\ section' = NextSection
             /\ UNCHANGED ended
    <2>1. "company" \notin FaultySections => retry'["company"] = 0
      BY <1>1, <1>4, TableAt DEF Resets
    <2>2. ASSUME NEW p \in {1, 3, 4}, Sections[p] \notin FaultySections
          PROVE  retry'["table"] <= MostFailures(p)[section']
      <3>1. retry["table"] <= MostFailures(p)[section] /\ section # p
        BY <1>1, <2>2, TableAt DEF Resets
      <3>2. CASE section = 2
        <4>1. retry'["table"] = retry["table"] /\ section' = 3
          BY <1>4, <3>2, TableAt
        <4> QED BY <3>1, <3>2, <4>1, FailureBounds
      <3>3. CASE section # 2
        <4>1. retry'["table"] = retry["table"] + 1 /\ section' = NextSection
          BY <1>4, <3>3, TableAt
        <4> QED BY <3>1, <3>3, <4>1, FailureBounds, TableAt
      <3> QED BY <3>2, <3>3
    <2> QED BY <1>4, <2>1, <2>2 DEF Resets, EndsOnlyInOutage
  <1> QED BY <1>1, <1>3, <1>4

LEMMA FreshResets ==
    ASSUME section = 1, retry = NoRetries, ended = FALSE
    PROVE  Resets
  <1>1. retry["table"] = 0 /\ retry["company"] = 0
    BY DEF NoRetries
  <1>2. \A p \in {1, 3, 4} : MostFailures(p)[1] \in Nat
    BY FailureBounds
  <1> QED BY <1>1, <1>2 DEF Resets, EndsOnlyInOutage

LEMMA ResetsNext ==
    ASSUME Typed, Resets, [Next]_vars
    PROVE  Resets'
  <1>1. CASE UNCHANGED <<section, retry, ended>>
    BY <1>1 DEF Resets, EndsOnlyInOutage
  <1>2. CASE \E w \in Writers : Transaction(w)
    BY <1>1, <1>2 DEF Transaction, Stamp, InsertRow, Commit, Rollback, process
  <1>3. CASE Poll \/ Apply \/ SaveCursor
    BY <1>1, <1>3 DEF Poll, Apply, SaveCursor
  <1>4. CASE Restart
    <2>1. section' = 1 /\ retry' = NoRetries /\ ended' = FALSE
      BY <1>4 DEF Restart
    <2>2. (section = 1 /\ retry = NoRetries /\ ended = FALSE => Resets)'
      BY FreshResets, PTL
    <2> QED BY <2>1, <2>2
  <1>5. CASE UNCHANGED vars
    BY <1>1, <1>5 DEF vars, process
  <1> QED BY <1>2, <1>3, <1>4, <1>5, FinishResets, FailResets DEF Next, ReplicateActions

\* The replicator gives up only when the section of companies throws, or all
\* three sections that share the other retry counter do: one of them that works
\* resets the failures of the rest once in every round.
THEOREM GivesUpInOutage == Spec => []EndsOnlyInOutage
  <1>1. Init => Resets
    BY FreshResets DEF Init
  <1>2. Resets => EndsOnlyInOutage
    BY DEF Resets
  <1>3. Typed /\ Resets /\ [Next]_vars => Typed' /\ Resets'
    BY TypedNext, ResetsNext
  <1> QED BY TypedInit, <1>1, <1>2, <1>3, PTL DEF Spec
-----------------------------------------------------------------------------
(* The replica of a single writer *)

OneWriter == \A v, w \in Writers : v = w

EventsInOrder ==
    \A t \in Tables : \A h \in DOMAIN log[t] :
        /\ log[t][h].time <= clock
        /\ \A g \in DOMAIN log[t] : g <= h => log[t][g].time <= log[t][h].time

\* What a transaction is about to commit comes after all that is committed.
NextInOrder(w) ==
    writer[w] # NoTransaction =>
        /\ writer[w].time <= clock
        /\ \A t \in Tables :
             /\ \A h \in DOMAIN log[t] : log[t][h].time <= writer[w].time
             /\ t \in DOMAIN writer[w].rows =>
                  /\ cursor[t] < writer[w].rows[t]
                  /\ \A h \in DOMAIN log[t] : h < writer[w].rows[t]

\* A row of the replica is an event of its key: none of those up to the cursor
\* is later, none of those above it is earlier.
RowInStep(t, k) ==
    /\ log[t][replica[t][k].hash].key = k
    /\ log[t][replica[t][k].hash].time = replica[t][k].time
    /\ \A g \in DOMAIN log[t] :
         /\ g > cursor[t] => replica[t][k].hash <= g
         /\ g <= cursor[t] /\ log[t][g].key = k => g <= replica[t][k].hash

ReplicaInStep(t) ==
    /\ \A k \in DOMAIN replica[t] : RowInStep(t, k)
    /\ \A g \in DOMAIN log[t] : g <= cursor[t] => log[t][g].key \in DOMAIN replica[t]

BatchInStep ==
    /\ \A g \in Unseen(Table) \ batch : \A h \in batch : h < g
    /\ applied => /\ log[Table][Min(batch)].key \in DOMAIN replica[Table]
                  /\ replica[Table][log[Table][Min(batch)].key].hash = Min(batch)

InStep ==
    /\ EventsInOrder
    /\ \A w \in Writers : NextInOrder(w)
    /\ \A t \in Tables : ReplicaInStep(t)
    /\ BatchInStep

\* A step of the writer that commits nothing.
LEMMA OpenTransactionInStep ==
    ASSUME Typed, InStep, clock' >= clock, clock' \in Nat,
           UNCHANGED <<log, store, process, crashes>>,
           \A w \in Writers : NextInOrder(w)'
    PROVE  InStep'
  <1>1. EventsInOrder'
    <2> SUFFICES ASSUME NEW t \in Tables, NEW h \in DOMAIN log[t]
                 PROVE  /\ log[t][h].time <= clock'
                        /\ \A g \in DOMAIN log[t] : g <= h => log[t][g].time <= log[t][h].time
      BY DEF EventsInOrder
    <2>1. log[t][h].time \in Nat /\ clock \in Nat
      BY DEF Typed, LogOK
    <2>2. /\ log[t][h].time <= clock
          /\ \A g \in DOMAIN log[t] : g <= h => log[t][g].time <= log[t][h].time
      BY DEF InStep, EventsInOrder
    <2> QED BY <2>1, <2>2
  <1>2. \A t \in Tables : ReplicaInStep(t)'
    BY DEF InStep, ReplicaInStep, RowInStep, store
  <1>3. BatchInStep'
    BY DEF InStep, BatchInStep, Unseen, Table, store, process
  <1> QED BY <1>1, <1>2, <1>3 DEF InStep

LEMMA StampInStep ==
    ASSUME OneWriter, Typed, InStep, NEW w \in Writers, NEW ws \in WriteSets, Stamp(w, ws)
    PROVE  InStep'
  <1> DEFINE tx == [time |-> clock', todo |-> ws, rows |-> <<>>]
  <1>1. /\ clock' \in Nat /\ clock \in Nat /\ clock' >= clock
        /\ UNCHANGED <<log, store, process, crashes>>
    BY DEF Stamp, Typed
  <1>2. writer'[w] = tx
    BY DEF Stamp, Typed
  <1>3. tx.time = clock' /\ DOMAIN tx.rows = {}
    OBVIOUS
  <1>4. \A t \in Tables : \A h \in DOMAIN log[t] : log[t][h].time <= clock'
    <2>1. \A t \in Tables : \A h \in DOMAIN log[t] : log[t][h].time \in Nat /\ log[t][h].time <= clock
      BY DEF InStep, EventsInOrder, Typed, LogOK
    <2> QED BY <1>1, <2>1
  <1> HIDE DEF tx
  <1>5. NextInOrder(w)'
    BY <1>1, <1>2, <1>3, <1>4 DEF NextInOrder
  <1>6. \A v \in Writers : NextInOrder(v)'
    BY <1>5 DEF OneWriter
  <1> QED BY <1>1, <1>6, OpenTransactionInStep

LEMMA InsertInStep ==
    ASSUME OneWriter, Typed, InStep, NEW w \in Writers, NEW t \in Tables, InsertRow(w, t)
    PROVE  InStep'
  <1> DEFINE h == lastHash[t] + 1
             rows == Put(writer[w].rows, t, h)
  <1>1. UNCHANGED <<clock, log, store, process, crashes>> /\ lastHash'[t] = h
    BY DEF InsertRow, Typed
  <1>2. WriterOK(writer[w])
    BY DEF Typed
  <1>3. writer'[w].rows = rows /\ writer'[w].time = writer[w].time
    <2>1. writer'[w] = [writer[w] EXCEPT !.rows = rows]
      BY <1>1 DEF InsertRow, Typed
    <2> HIDE DEF rows
    <2> QED BY <1>2, <2>1 DEF WriterOK
  <1>4. writer[w] # NoTransaction
    BY DEF InsertRow, NoTransaction
  <1>5. cursor[t] < h /\ \A g \in DOMAIN log[t] : g < h
    <2>1. /\ cursor[t] \in Nat /\ lastHash[t] \in Nat /\ cursor[t] <= lastHash[t]
          /\ DOMAIN log[t] \subseteq 1 .. lastHash[t]
      BY DEF Typed, StoreOK, LogOK
    <2> QED BY <2>1
  <1>6. NextInOrder(w)
    BY DEF InStep
  <1> HIDE DEF h
  <1>7. /\ DOMAIN rows = DOMAIN writer[w].rows \cup {t} /\ rows[t] = h
        /\ \A u \in DOMAIN writer[w].rows : u # t => rows[u] = writer[w].rows[u]
    BY DEF Put
  <1> HIDE DEF rows
  <1>8. NextInOrder(w)'
    <2>1. writer'[w].time <= clock'
      BY <1>1, <1>3, <1>4, <1>6 DEF NextInOrder
    <2>2. ASSUME NEW u \in Tables
          PROVE  /\ \A g \in DOMAIN log[u] : log[u][g].time <= writer'[w].time
                 /\ u \in DOMAIN rows => cursor[u] < rows[u] /\ \A g \in DOMAIN log[u] : g < rows[u]
      BY <1>3, <1>4, <1>5, <1>6, <1>7 DEF NextInOrder
    <2>3. cursor' = cursor /\ log' = log
      BY <1>1 DEF store
    <2> QED BY <1>3, <2>1, <2>2, <2>3 DEF NextInOrder
  <1>9. \A v \in Writers : NextInOrder(v)'
    BY <1>8 DEF OneWriter
  <1>10. clock' >= clock /\ clock' \in Nat
    BY <1>1 DEF Typed
  <1> QED BY <1>1, <1>9, <1>10, OpenTransactionInStep

LEMMA RollbackInStep ==
    ASSUME OneWriter, Typed, InStep, NEW w \in Writers, Rollback(w)
    PROVE  InStep'
  <1>1. /\ UNCHANGED <<clock, log, store, process, crashes>>
        /\ clock' >= clock /\ clock' \in Nat
    BY DEF Rollback, Typed
  <1>2. writer'[w] = NoTransaction
    BY DEF Rollback, Typed
  <1>3. \A v \in Writers : NextInOrder(v)'
    BY <1>2 DEF NextInOrder, OneWriter
  <1> QED BY <1>1, <1>3, OpenTransactionInStep

\* A commit adds to a table one event at the most, the last of it.
LEMMA CommitAppends ==
    ASSUME OneWriter, Typed, InStep, NEW w \in Writers, Commit(w), NEW t \in Tables
    PROVE  \/ log'[t] = log[t]
           \/ \E r \in Nat :
                /\ DOMAIN log'[t] = DOMAIN log[t] \cup {r} /\ r \notin DOMAIN log[t]
                /\ r > cursor[t] /\ \A h \in DOMAIN log[t] : h < r
                /\ \A h \in DOMAIN log[t] : log'[t][h] = log[t][h] /\ log[t][h].time <= log'[t][r].time
                /\ log'[t][r].time <= clock /\ log'[t][r].time \in Nat
  <1>1. Committed(w, t)
    BY CommitAdds
  <1>2. WriterOK(writer[w]) /\ NextInOrder(w) /\ writer[w] # NoTransaction
    BY DEF Typed, InStep, Commit
  <1>3. CASE t \notin DOMAIN writer[w].rows
    BY <1>1, <1>3 DEF Committed
  <1>4. CASE t \in DOMAIN writer[w].rows
    <2> DEFINE r == writer[w].rows[t]
    <2>1. /\ r \in 1 .. lastHash[t] /\ lastHash[t] \in Nat /\ writer[w].time \in Nat
      BY <1>2, <1>4 DEF WriterOK, Typed
    <2>2. /\ r > cursor[t] /\ \A h \in DOMAIN log[t] : h < r
          /\ \A h \in DOMAIN log[t] : log[t][h].time <= writer[w].time
          /\ writer[w].time <= clock
      BY <1>2, <1>4, <2>1 DEF NextInOrder, Typed, StoreOK
    <2>3. DOMAIN log[t] \subseteq Nat
      BY DEF Typed, LogOK
    <2>4. r \notin DOMAIN log[t]
      <3> HIDE DEF r
      <3> QED BY <2>2, <2>3
    <2>5. /\ DOMAIN log'[t] = DOMAIN log[t] \cup {r}
          /\ log'[t][r] = [key |-> writer[w].todo[t], time |-> writer[w].time]
          /\ \A h \in DOMAIN log[t] : h # r => log'[t][h] = log[t][h]
      BY <1>1, <1>4 DEF Committed
    <2>6. r \in Nat
      BY <2>1
    <2> HIDE DEF r
    <2>7. log'[t][r].time = writer[w].time
      BY <2>5
    <2>8. \A h \in DOMAIN log[t] : log'[t][h] = log[t][h] /\ log[t][h].time <= log'[t][r].time
      BY <2>2, <2>4, <2>5, <2>7
    <2> QED BY <2>1, <2>2, <2>4, <2>5, <2>6, <2>7, <2>8
  <1> QED BY <1>3, <1>4

LEMMA CommitInStep ==
    ASSUME OneWriter, Typed, InStep, NEW w \in Writers, Commit(w)
    PROVE  InStep'
  <1>1. UNCHANGED <<clock, store, process, crashes>> /\ writer'[w] = NoTransaction
    BY DEF Commit, Typed
  <1>2. \A v \in Writers : NextInOrder(v)'
    BY <1>1 DEF NextInOrder, OneWriter
  <1>3. ASSUME NEW t \in Tables
        PROVE  /\ DOMAIN log[t] \subseteq Nat /\ cursor[t] \in Nat
               /\ \A h \in DOMAIN log[t] : log[t][h].time \in Nat
               /\ \A k \in DOMAIN replica[t] : replica[t][k].hash \in DOMAIN log[t]
    BY DEF Typed, LogOK, StoreOK
  <1>4. ASSUME NEW t \in Tables
        PROVE  \A h \in DOMAIN log'[t] :
                 /\ log'[t][h].time <= clock
                 /\ \A g \in DOMAIN log'[t] : g <= h => log'[t][g].time <= log'[t][h].time
    <2>1. \A h \in DOMAIN log[t] :
             /\ log[t][h].time <= clock
             /\ \A g \in DOMAIN log[t] : g <= h => log[t][g].time <= log[t][h].time
      BY DEF InStep, EventsInOrder
    <2>2. CASE log'[t] = log[t]
      BY <2>1, <2>2
    <2>3. ASSUME NEW r \in Nat,
                 DOMAIN log'[t] = DOMAIN log[t] \cup {r}, r \notin DOMAIN log[t],
                 \A h \in DOMAIN log[t] : h < r,
                 \A h \in DOMAIN log[t] : log'[t][h] = log[t][h] /\ log[t][h].time <= log'[t][r].time,
                 log'[t][r].time <= clock, log'[t][r].time \in Nat
          PROVE  \A h \in DOMAIN log'[t] :
                   /\ log'[t][h].time <= clock
                   /\ \A g \in DOMAIN log'[t] : g <= h => log'[t][g].time <= log'[t][h].time
      BY <1>3, <2>1, <2>3
    <2> QED BY <2>2, <2>3, CommitAppends
  <1>5. EventsInOrder'
    BY <1>1, <1>4 DEF EventsInOrder
  <1>6. ASSUME NEW t \in Tables
        PROVE  ReplicaInStep(t)'
    <2>1. ReplicaInStep(t)
      BY DEF InStep
    <2>2. cursor' = cursor /\ replica' = replica
      BY <1>1 DEF store
    <2>3. CASE log'[t] = log[t]
      BY <2>1, <2>2, <2>3 DEF ReplicaInStep, RowInStep
    <2>4. ASSUME NEW r \in Nat,
                 DOMAIN log'[t] = DOMAIN log[t] \cup {r}, r > cursor[t],
                 \A h \in DOMAIN log[t] : h < r /\ log'[t][h] = log[t][h]
          PROVE  ReplicaInStep(t)'
      <3>1. ASSUME NEW k \in DOMAIN replica[t]
            PROVE  RowInStep(t, k)'
        <4>1. RowInStep(t, k) /\ replica[t][k].hash \in DOMAIN log[t]
          BY <1>3, <2>1 DEF ReplicaInStep
        <4>2. log'[t][replica[t][k].hash] = log[t][replica[t][k].hash] /\ replica[t][k].hash <= r
          BY <1>3, <2>4, <4>1
        <4>3. ~(r <= cursor[t])
          BY <1>3, <2>4
        <4> QED BY <2>2, <2>4, <4>1, <4>2, <4>3 DEF RowInStep
      <3>2. \A g \in DOMAIN log'[t] : g <= cursor[t] => log'[t][g].key \in DOMAIN replica[t]
        BY <1>3, <2>1, <2>4 DEF ReplicaInStep
      <3> QED BY <2>2, <3>1, <3>2 DEF ReplicaInStep
    <2> QED BY <2>3, <2>4, CommitAppends
  <1>7. BatchInStep'
    <2>1. Table' = Table /\ Table \in Tables /\ UNCHANGED <<batch, applied, cursor, replica>>
      BY <1>1, TableTyped DEF process, store, Table, Typed, ProcessOK
    <2>2. BatchInStep /\ batch \subseteq DOMAIN log[Table] /\ (applied => batch # {})
      BY DEF InStep, Typed, ProcessOK, Unseen
    <2>3. CASE log'[Table] = log[Table]
      BY <2>1, <2>2, <2>3 DEF BatchInStep, Unseen
    <2>4. ASSUME NEW r \in Nat,
                 DOMAIN log'[Table] = DOMAIN log[Table] \cup {r},
                 \A h \in DOMAIN log[Table] : h < r /\ log'[Table][h] = log[Table][h]
          PROVE  BatchInStep'
      <3>1. \A g \in Unseen(Table)' \ batch : \A h \in batch : h < g
        BY <2>1, <2>2, <2>4 DEF BatchInStep, Unseen
      <3>2. applied => log'[Table][Min(batch)] = log[Table][Min(batch)]
        BY <2>2, <2>4, RowAtWork
      <3> QED BY <2>1, <2>2, <3>1, <3>2 DEF BatchInStep
    <2> QED BY <2>1, <2>3, <2>4, CommitAppends
  <1> QED BY <1>2, <1>5, <1>6, <1>7 DEF InStep

\* A step of the replicator that leaves both databases alone.
LEMMA LoopInStep ==
    ASSUME InStep, UNCHANGED <<ledger, store>>, BatchInStep'
    PROVE  InStep'
  BY DEF InStep, EventsInOrder, NextInOrder, ReplicaInStep, RowInStep, ledger, store

\* The row at work is the first its section has not seen.
LEMMA FirstUnseen ==
    ASSUME Typed, InStep, batch # {}
    PROVE  /\ Min(batch) \in Unseen(Table) /\ Min(batch) \in Nat
           /\ \A g \in Unseen(Table) : Min(batch) <= g
  <1> DEFINE m == Min(batch)
  <1>1. m \in batch /\ m \in Nat /\ \A h \in batch : m <= h
    BY RowAtWork
  <1>2. batch \subseteq Unseen(Table) /\ \A g \in Unseen(Table) \ batch : \A h \in batch : h < g
    BY DEF Typed, ProcessOK, InStep, BatchInStep
  <1>3. Unseen(Table) \subseteq Nat
    BY TableTyped DEF Typed, ProcessOK, LogOK, Unseen
  <1> HIDE DEF m
  <1>4. \A g \in Unseen(Table) : m <= g
    BY <1>1, <1>2, <1>3
  <1> QED BY <1>1, <1>2, <1>4 DEF m

\* The row at work is never refused.
LEMMA RowIsNewer ==
    ASSUME Typed, InStep, batch # {}
    PROVE  Newer(Table, log[Table][Min(batch)])
  <1> DEFINE m == Min(batch)
             k == log[Table][m].key
  <1> SUFFICES ASSUME k \in DOMAIN replica[Table]
               PROVE  replica[Table][k].time <= log[Table][m].time
    BY DEF Newer
  <1>1. Table \in Tables
    BY TableTyped DEF Typed, ProcessOK
  <1>2. m \in DOMAIN log[Table] /\ m > cursor[Table]
    BY RowAtWork
  <1>3. RowInStep(Table, k) /\ replica[Table][k].hash \in DOMAIN log[Table]
    BY <1>1 DEF InStep, ReplicaInStep, Typed, StoreOK
  <1> HIDE DEF k, m
  <1>4. replica[Table][k].hash <= m /\ replica[Table][k].time = log[Table][replica[Table][k].hash].time
    BY <1>2, <1>3 DEF RowInStep
  <1> QED BY <1>1, <1>2, <1>3, <1>4 DEF InStep, EventsInOrder

LEMMA ApplyInStep ==
    ASSUME Typed, InStep, Apply
    PROVE  InStep'
  <1> DEFINE m == Min(batch)
             k == log[Table][m].key
  <1>1. /\ UNCHANGED <<ledger, cursor, batch>> /\ Table' = Table /\ Table \in Tables
        /\ batch # {} /\ log' = log
    BY ApplyWrites DEF Apply, Table, ledger
  <1>2. /\ DOMAIN replica' = Tables
        /\ \A t \in Tables : t # Table => replica'[t] = replica[t]
        /\ DOMAIN replica'[Table] = DOMAIN replica[Table] \cup {k}
        /\ replica'[Table][k].hash = m /\ replica'[Table][k].time = log[Table][m].time
        /\ \A x \in DOMAIN replica[Table] : x # k => replica'[Table][x] = replica[Table][x]
    BY <1>1, ApplyWrites, RowIsNewer
  <1>3. m \in DOMAIN log[Table] /\ m > cursor[Table] /\ m \in Nat
    BY <1>1, RowAtWork
  <1>4. \A g \in DOMAIN log[Table] : g > cursor[Table] => m <= g
    BY <1>1, FirstUnseen DEF Unseen
  <1>5. DOMAIN log[Table] \subseteq Nat /\ cursor[Table] \in Nat
    BY <1>1 DEF Typed, LogOK, StoreOK
  <1>6. BatchInStep'
    <2>1. Unseen(Table)' = Unseen(Table) /\ BatchInStep
      BY <1>1 DEF Unseen, InStep
    <2> QED BY <1>1, <1>2, <2>1 DEF BatchInStep
  <1>7. k = log[Table][m].key
    OBVIOUS
  <1> HIDE DEF m, k
  <1>8. ASSUME NEW t, NEW x, t = Table, x = k
        PROVE  RowInStep(t, x)'
    <2>1. /\ log[t][m].key = x
          /\ \A g \in DOMAIN log[t] :
               /\ g > cursor[t] => m <= g
               /\ g <= cursor[t] => g <= m
      BY <1>3, <1>4, <1>5, <1>7, <1>8
    <2>2. replica'[t][x].hash = m /\ replica'[t][x].time = log[t][m].time
      BY <1>2, <1>8
    <2>3. log' = log /\ cursor' = cursor
      BY <1>1
    <2> QED BY <2>1, <2>2, <2>3 DEF RowInStep
  <1>9. ASSUME NEW t \in Tables
        PROVE  ReplicaInStep(t)'
    <2>1. ReplicaInStep(t)
      BY DEF InStep
    <2>2. CASE t # Table
      BY <1>1, <1>2, <2>1, <2>2 DEF ReplicaInStep, RowInStep
    <2>3. CASE t = Table
      <3>1. ASSUME NEW x \in DOMAIN replica[t], x # k
            PROVE  RowInStep(t, x)'
        <4>1. RowInStep(t, x) /\ replica'[t][x] = replica[t][x]
          BY <1>2, <2>1, <2>3, <3>1 DEF ReplicaInStep
        <4> QED BY <1>1, <4>1 DEF RowInStep
      <3>2. ASSUME NEW x \in DOMAIN replica'[t]
            PROVE  RowInStep(t, x)'
        <4>1. CASE x = k
          BY <1>8, <2>3, <4>1
        <4>2. CASE x # k
          <5>1. x \in DOMAIN replica[t]
            BY <1>2, <2>3, <4>2
          <5> QED BY <3>1, <4>2, <5>1
        <4> QED BY <4>1, <4>2
      <3>3. \A g \in DOMAIN log[t] : g <= cursor[t] => log[t][g].key \in DOMAIN replica'[t]
        BY <1>2, <2>1, <2>3 DEF ReplicaInStep
      <3> QED BY <1>1, <3>2, <3>3 DEF ReplicaInStep
    <2> QED BY <2>2, <2>3
  <1>10. EventsInOrder' /\ \A w \in Writers : NextInOrder(w)'
    BY <1>1 DEF InStep, EventsInOrder, NextInOrder, ledger
  <1> QED BY <1>6, <1>9, <1>10 DEF InStep

LEMMA SaveCursorInStep ==
    ASSUME Typed, InStep, SaveCursor
    PROVE  InStep'
  <1> DEFINE m == Min(batch)
             k == log[Table][m].key
  <1>1. /\ UNCHANGED <<ledger, replica>> /\ Table' = Table /\ batch' = batch \ {m} /\ ~applied'
        /\ cursor' = [cursor EXCEPT ![Table] = m] /\ applied
    BY DEF SaveCursor, Table
  <1>2. /\ batch # {} /\ Table \in Tables /\ DOMAIN cursor = Tables
        /\ DOMAIN log[Table] \subseteq Nat /\ cursor[Table] \in Nat
    BY <1>1, TableTyped DEF Typed, ProcessOK, LogOK, StoreOK
  <1>3. m \in DOMAIN log[Table] /\ m > cursor[Table] /\ m \in Nat
    BY <1>2, RowAtWork
  <1>4. \A g \in DOMAIN log[Table] : g > cursor[Table] => m <= g
    BY <1>2, FirstUnseen DEF Unseen
  <1>5. k \in DOMAIN replica[Table] /\ replica[Table][k].hash = m
    BY <1>1 DEF InStep, BatchInStep
  <1>6. k = log[Table][m].key /\ log' = log /\ writer' = writer /\ clock' = clock
    BY <1>1 DEF ledger
  <1> HIDE DEF m, k
  <1>7. cursor'[Table] = m /\ \A t \in Tables : t # Table => cursor'[t] = cursor[t]
    BY <1>1, <1>2
  <1>8. BatchInStep'
    <2>1. \A g \in Unseen(Table)' : g \in Unseen(Table) /\ g # m
      BY <1>1, <1>2, <1>3, <1>6, <1>7 DEF Unseen
    <2>2. BatchInStep
      BY DEF InStep
    <2>3. \A g \in Unseen(Table)' \ batch' : \A h \in batch' : h < g
      BY <1>1, <2>1, <2>2 DEF BatchInStep
    <2> QED BY <1>1, <2>3 DEF BatchInStep
  <1>9. ASSUME NEW t \in Tables
        PROVE  ReplicaInStep(t)'
    <2>1. ReplicaInStep(t)
      BY DEF InStep
    <2>2. CASE t # Table
      BY <1>1, <1>6, <1>7, <2>1, <2>2 DEF ReplicaInStep, RowInStep
    <2>3. CASE t = Table
      <3>1. \A g \in DOMAIN log[t] : g <= m => g <= cursor[t] \/ g = m
        BY <1>2, <1>3, <1>4, <2>3
      <3>2. \A g \in DOMAIN log[t] : g > m => g > cursor[t]
        BY <1>2, <1>3, <2>3
      <3>3. ASSUME NEW x \in DOMAIN replica[t]
            PROVE  RowInStep(t, x)'
        <4>1. RowInStep(t, x)
          BY <2>1 DEF ReplicaInStep
        <4>2. \A g \in DOMAIN log[t] : g > m => replica[t][x].hash <= g
          BY <3>2, <4>1 DEF RowInStep
        <4>3. log[t][m].key = x => m <= replica[t][x].hash
          BY <1>3, <1>5, <1>6, <2>3
        <4>4. \A g \in DOMAIN log[t] : g <= m /\ log[t][g].key = x => g <= replica[t][x].hash
          BY <3>1, <4>1, <4>3 DEF RowInStep
        <4> QED BY <1>1, <1>6, <1>7, <2>3, <4>1, <4>2, <4>4 DEF RowInStep
      <3>4. \A g \in DOMAIN log[t] : g <= m => log[t][g].key \in DOMAIN replica[t]
        BY <1>5, <1>6, <2>1, <2>3, <3>1 DEF ReplicaInStep
      <3> QED BY <1>1, <1>6, <1>7, <2>3, <3>3, <3>4 DEF ReplicaInStep
    <2> QED BY <2>2, <2>3
  <1>10. EventsInOrder'
    BY <1>6 DEF InStep, EventsInOrder
  <1>11. ASSUME NEW w \in Writers
         PROVE  NextInOrder(w)'
    <2>1. NextInOrder(w)
      BY DEF InStep
    <2>2. writer[w] # NoTransaction /\ Table \in DOMAIN writer[w].rows => m < writer[w].rows[Table]
      BY <1>2, <1>3, <2>1 DEF NextInOrder
    <2> QED BY <1>6, <1>7, <2>1, <2>2 DEF NextInOrder
  <1> QED BY <1>8, <1>9, <1>10, <1>11 DEF InStep

LEMMA InStepNext ==
    ASSUME OneWriter, Typed, InStep, [Next]_vars
    PROVE  InStep'
  <1>1. CASE \E w \in Writers : Transaction(w)
    BY <1>1, StampInStep, InsertInStep, CommitInStep, RollbackInStep DEF Transaction
  <1>2. CASE Poll
    <2>1. Unseen(Table)' = Unseen(Table) /\ batch' = Unseen(Table) /\ applied' = applied
      BY <1>2 DEF Poll, Unseen, Table, ledger, store
    <2>2. ~applied
      BY <1>2 DEF Poll, Typed, ProcessOK
    <2>3. BatchInStep'
      BY <2>1, <2>2 DEF BatchInStep
    <2> QED BY <1>2, <2>3, LoopInStep DEF Poll
  <1>3. CASE Finish \/ Fail \/ Restart
    <2>1. batch' = {} /\ ~applied' /\ UNCHANGED <<ledger, store>>
      BY <1>3 DEF Finish, Fail, Restart, Typed, ProcessOK
    <2>2. BatchInStep'
      BY <2>1 DEF BatchInStep
    <2> QED BY <2>1, <2>2, LoopInStep
  <1>4. CASE UNCHANGED vars
    <2>1. BatchInStep'
      BY <1>4 DEF InStep, BatchInStep, Unseen, Table, vars, ledger, store, process
    <2> QED BY <1>4, <2>1, LoopInStep DEF vars
  <1> QED BY <1>1, <1>2, <1>3, <1>4, ApplyInStep, SaveCursorInStep DEF Next, ReplicateActions

\* In step, the replica follows the log.
LEMMA InStepFollows ==
    ASSUME Typed, InStep
    PROVE  ReplicaFollowsLog
  <1> SUFFICES ASSUME NEW t \in Tables, NEW g \in DOMAIN log[t], g <= cursor[t]
               PROVE  LET key == log[t][g].key IN
                      /\ key \in DOMAIN replica[t]
                      /\ replica[t][key].hash >= Max(Older(t, cursor[t], key))
                      /\ Cardinality({h \in DOMAIN log[t] :
                            cursor[t] < h /\ h <= replica[t][key].hash}) <= 1
    BY DEF ReplicaFollowsLog
  <1> DEFINE key == log[t][g].key
             x == replica[t][key].hash
             S == {h \in DOMAIN log[t] : cursor[t] < h /\ h <= x}
             T == Older(t, cursor[t], key)
  <1>1. key \in DOMAIN replica[t] /\ RowInStep(t, key)
    BY DEF InStep, ReplicaInStep
  <1>2. /\ DOMAIN log[t] \subseteq Nat /\ cursor[t] \in Nat
        /\ x \in DOMAIN log[t]
    BY <1>1 DEF Typed, LogOK, StoreOK
  <1>3. \A h \in DOMAIN log[t] : h > cursor[t] => x <= h
    BY <1>1 DEF RowInStep
  <1>4. \A h \in T : h <= x
    BY <1>1 DEF RowInStep, Older
  <1>5. T \in SUBSET (0 .. cursor[t]) /\ T # {}
    BY <1>2 DEF Older
  <1> HIDE DEF x, T
  <1>6. Max(T) \in T
    BY <1>2, <1>5, GreatestHash
  <1>7. x >= Max(T)
    <2>1. PICK y \in T : y = Max(T)
      BY <1>6
    <2>2. y <= x /\ y \in Nat /\ x \in Nat
      BY <1>2, <1>4, <1>5
    <2> QED BY <2>1, <2>2
  <1>8. S \subseteq {x}
    BY <1>2, <1>3
  <1>9. Cardinality(S) <= 1
    <2> HIDE DEF S
    <2>1. S = {} \/ S = {x}
      BY <1>8
    <2>2. Cardinality({}) = 0 /\ Cardinality({x}) = 1
      BY FS_EmptySet, FS_Singleton
    <2> QED BY <2>1, <2>2
  <1> QED BY <1>1, <1>7, <1>9 DEF x, T

\* With a single writer, whatever fails and wherever the replicator restarts,
\* each row of the operational database is the last event of its key up to the
\* cursor, or the one event after the cursor that was applied.
THEOREM ReplicaIsFaithful ==
    ASSUME OneWriter
    PROVE  Spec => []ReplicaFollowsLog
  <1>1. Init => InStep
    BY DEF Init, InStep, EventsInOrder, NextInOrder, ReplicaInStep, BatchInStep, Unseen
  <1>2. Typed /\ InStep => ReplicaFollowsLog
    BY InStepFollows
  <1>3. Typed /\ InStep /\ [Next]_vars => Typed' /\ InStep'
    BY TypedNext, InStepNext
  <1> QED BY TypedInit, <1>1, <1>2, <1>3, PTL DEF Spec

\* With a single writer no event is committed below a cursor: every one of them
\* is read by the section of its table.
THEOREM NoEventPassedOver ==
    ASSUME OneWriter
    PROVE  Spec => NothingPassedOver
  <1>1. Init => InStep
    BY DEF Init, InStep, EventsInOrder, NextInOrder, ReplicaInStep, BatchInStep, Unseen
  <1>2. Typed /\ InStep /\ [Next]_vars => Typed' /\ InStep'
    BY TypedNext, InStepNext
  <1>3. Typed /\ InStep /\ [Next]_vars =>
          [\A t \in Tables : DOMAIN log'[t] # DOMAIN log[t] =>
             \A h \in DOMAIN log'[t] \ DOMAIN log[t] : h > cursor[t]]_vars
    <2> SUFFICES ASSUME Typed, InStep, [Next]_vars,
                        NEW t \in Tables, NEW h \in DOMAIN log'[t] \ DOMAIN log[t]
                 PROVE  h > cursor[t]
      OBVIOUS
    <2>1. CASE \E w \in Writers : Commit(w)
      <3>1. PICK w \in Writers : Commit(w)
        BY <2>1
      <3> QED BY <3>1, CommitAppends
    <2>2. CASE UNCHANGED log
      BY <2>2
    <2> QED BY <2>1, <2>2 DEF Next, vars, ledger, Transaction, Stamp, InsertRow, Rollback,
              ReplicateActions, Poll, Apply, SaveCursor, Finish, Fail, Restart
  <1> QED BY TypedInit, <1>1, <1>2, <1>3, PTL DEF Spec, NothingPassedOver

=============================================================================
