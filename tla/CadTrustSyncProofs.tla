-------------------------- MODULE CadTrustSyncProofs --------------------------
(***************************************************************************)
(* The invariants of CadTrustSync, for every set of blocks, every way they *)
(* split, and any number of attempts and failures.                         *)
(*                                                                         *)
(* What a loop found out may be out of date when it stages its row, since  *)
(* the other loop goes on.  Working says what stays true of it: the rows   *)
(* it refers to are never taken off the node.  NoneYet and Known say why a *)
(* row is created once: whoever is about to create one is alone with its   *)
(* record, and a record knows the row there is, unless a loop is about to  *)
(* note it.  LaneShape ties the tasks of the lane to the action at hand.   *)
(***************************************************************************)
EXTENDS CadTrustSync, FiniteSetTheorems, TLAPS

Snapshots == {"verification", "issuance"}
Action == [op : {"verify"}, key : {"verification"}] \cup [op : {"issue", "change"}, key : Blocks]
TimerTask ==
    [op : {"ensure"}, key : Snapshots] \cup [op : {"update", "heal"}, key : Blocks]
        \cup [op : {"commit", "snapshots", "units"}, key : {"all"}]
AnyTask == TimerTask \cup [op : {"create"}, key : Blocks] \cup [op : {"save"}, key : {"all"}]
Status == {"NONE", "PENDING", "STAGED", "COMMITTED", "FAILED"}
SyncRecord == [status : Status, id : Nat, attempts : 0 .. MaxAttempts]
NodeRow == [key : Keys, version : Nat, id : Nat]
LoopState == [todo : Seq(AnyTask), at : {"find", "stage", "mark", "succeeded", "failed"},
              owed : BOOLEAN, got : BOOLEAN, id : Nat, version : Nat]
Save == Task("save", "all")

Typed ==
    /\ queue \in Seq(Action)
    /\ cursor \in 0 .. Len(queue)
    /\ block \in [Blocks -> 0 .. MaxVersion]
    /\ record \in [Keys -> SyncRecord]
    /\ rows \in Seq(NodeRow)
    /\ committed \in 0 .. Len(rows) /\ confirmed \in 0 .. committed
    /\ loop \in [Loops -> LoopState]
    /\ exposed \subseteq Keys

Placed(k) == \E i \in DOMAIN rows : rows[i].key = k
Holds(k, id) == \E i \in DOMAIN rows : rows[i].key = k /\ rows[i].id = id
SeenIn(r) == r.status \in {"STAGED", "COMMITTED", "FAILED"}

\* The rows of one id are those of one record.
Numbered ==
    /\ \A i \in DOMAIN rows : rows[i].id \in 1 .. i
    /\ \A i, j \in DOMAIN rows : rows[i].id = rows[j].id => rows[i].key = rows[j].key

\* A record that is synced has an id, and the id is that of a row of it.
Fine(k, r) ==
    /\ r.status \in {"STAGED", "COMMITTED"} => r.id # 0
    /\ r.id # 0 => SeenIn(r) /\ Holds(k, r.id)

Recorded == \A k \in Keys : Fine(k, record[k])

\* What a row of the record refers to is on the node.
Grounded(k) == (k = "issuance" => Placed("verification")) /\ (k \in Blocks => Placed("issuance"))

Writing(p) == loop[p].at \in {"stage", "mark"}

Working ==
    \A p \in Loops :
        /\ loop[p].got => Placed("issuance")
        /\ Writing(p) =>
             /\ loop[p].todo # <<>> /\ Head(loop[p].todo).op \in {"ensure", "create", "update"}
             /\ Grounded(Key(p))
             /\ loop[p].id # 0 => Holds(Key(p), loop[p].id)
             /\ loop[p].at = "mark" => loop[p].id # 0
        /\ loop[p].at \in {"succeeded", "failed"} =>
             loop[p].todo # <<>> /\ Head(loop[p].todo).op = "commit"

\* The lane is with the action after its cursor; once its own task is gone the
\* record has seen it.
LaneHas(t, a) ==
    \/ t \in {<<Save>>, <<Commit, Save>>} /\ SeenIn(record[a.key])
    \/ a.op = "verify" /\ t = <<Task("ensure", "verification"), Commit, Save>>
    \/ a.op = "issue" /\ t = <<Task("ensure", "issuance"), Task("create", a.key), Commit, Save>>
    \/ a.op = "issue" /\ t = <<Task("create", a.key), Commit, Save>>
    \/ a.op = "change" /\ t = <<Task("update", a.key), Commit, Save>>

LaneShape ==
    loop["lane"].todo # <<>> =>
        cursor < Len(queue) /\ LaneHas(loop["lane"].todo, queue[cursor + 1])

TimerShape == loop["timer"].todo \in Seq(TimerTask)

\* Whoever is about to create a row finds none, and nobody else at the record.
NoneYet ==
    \A p \in Loops :
        loop[p].at = "stage" /\ loop[p].id = 0 /\ Key(p) \notin exposed =>
            /\ ~Placed(Key(p))
            /\ \A q \in Loops : q # p /\ Writing(q) => Key(q) # Key(p)

\* A row is known to its record, or is about to be.
Known ==
    \A i \in DOMAIN rows :
        \/ rows[i].key \in exposed
        \/ record[rows[i].key].id = rows[i].id
        \/ \E p \in Loops : loop[p].at = "mark" /\ Key(p) = rows[i].key

OnNode == Numbered /\ RefersBack /\ CreatedOnce

IInv ==
    /\ Typed /\ OnNode /\ Recorded /\ Working /\ NoneYet /\ Known
    /\ LaneShape /\ TimerShape /\ NothingForgotten

-----------------------------------------------------------------------------
(* Sequences *)

LEMMA Tails ==
    ASSUME NEW x, NEW y, NEW z, NEW w
    PROVE  /\ Tail(<<x>>) = <<>> /\ Tail(<<x, y>>) = <<y>>
           /\ Tail(<<x, y, z>>) = <<y, z>> /\ Tail(<<x, y, z, w>>) = <<y, z, w>>
           /\ Head(<<x>>) = x /\ Head(<<x, y>>) = x
           /\ Head(<<x, y, z>>) = x /\ Head(<<x, y, z, w>>) = x
    OBVIOUS

LEMMA Joined ==
    ASSUME NEW x, NEW y, NEW z, NEW w
    PROVE  /\ <<x>> \o <<z, w>> = <<x, z, w>>
           /\ <<x, y>> \o <<z, w>> = <<x, y, z, w>>
  <1> DEFINE S == {x, y, z, w}
  <1>1. /\ <<x>> \in Seq(S) /\ <<x, y>> \in Seq(S) /\ <<z, w>> \in Seq(S)
        /\ <<x, z, w>> \in Seq(S) /\ <<x, y, z, w>> \in Seq(S)
    OBVIOUS
  <1>2. /\ Len(<<x>> \o <<z, w>>) = 3
        /\ \A i \in 1 .. 3 : (<<x>> \o <<z, w>>)[i] = <<x, z, w>>[i]
    OBVIOUS
  <1>3. /\ Len(<<x, y>> \o <<z, w>>) = 4
        /\ \A i \in 1 .. 4 : (<<x, y>> \o <<z, w>>)[i] = <<x, y, z, w>>[i]
    OBVIOUS
  <1>4. \A s, t \in Seq(S) : Len(s) = Len(t) /\ (\A i \in 1 .. Len(s) : s[i] = t[i]) => s = t
    OBVIOUS
  <1>5. <<x>> \o <<z, w>> \in Seq(S) /\ <<x, y>> \o <<z, w>> \in Seq(S)
    OBVIOUS
  <1>6. <<x>> \o <<z, w>> = <<x, z, w>>
    <2>1. Len(<<x, z, w>>) = 3
      OBVIOUS
    <2> HIDE DEF S
    <2> QED BY <1>1, <1>2, <1>4, <1>5, <2>1
  <1>7. <<x, y>> \o <<z, w>> = <<x, y, z, w>>
    <2>1. Len(<<x, y, z, w>>) = 4
      OBVIOUS
    <2> HIDE DEF S
    <2> QED BY <1>1, <1>3, <1>4, <1>5, <2>1
  <1> QED BY <1>6, <1>7

LEMMA TailTyped ==
    ASSUME NEW S, NEW t \in Seq(S), t # <<>>
    PROVE  /\ Tail(t) \in Seq(S) /\ Head(t) \in S
           /\ Tail(t) # <<>> => Head(Tail(t)) \in S
    OBVIOUS

LEMMA Appended ==
    ASSUME NEW S, NEW s \in Seq(S), NEW e \in S, NEW t, t = Append(s, e)
    PROVE  /\ t \in Seq(S) /\ Len(t) = Len(s) + 1
           /\ DOMAIN t = DOMAIN s \cup {Len(t)}
           /\ \A i \in DOMAIN s : t[i] = s[i] /\ i \in 1 .. Len(s)
           /\ t[Len(t)] = e
    OBVIOUS

-----------------------------------------------------------------------------
(* Steps of one loop *)

\* A record goes on: it is not taken back to one that was never seen, and an id
\* it gets is that of a row of it.
GoesOn(k, r, s) ==
    /\ s \in SyncRecord /\ Fine(k, s)
    /\ SeenIn(r) => SeenIn(s)
    /\ s.id = r.id \/ Holds(k, s.id)

RecordsGoOn == record' \in [Keys -> SyncRecord] /\ \A k \in Keys : GoesOn(k, record[k], record'[k])

LEMMA Unmoved ==
    ASSUME Typed, Recorded, record' = record
    PROVE  RecordsGoOn
    BY DEF Typed, Recorded, RecordsGoOn, GoesOn

LEMMA OneMoves ==
    ASSUME Typed, Recorded, NEW k \in Keys, NEW s, GoesOn(k, record[k], s),
           record' = [record EXCEPT ![k] = s]
    PROVE  RecordsGoOn /\ record'[k] = s
  <1>1. \A j \in Keys : record'[j] = IF j = k THEN s ELSE record[j]
    BY DEF Typed
  <1>2. s \in SyncRecord
    BY DEF GoesOn
  <1>3. record' \in [Keys -> SyncRecord]
    BY <1>2 DEF Typed
  <1>4. ASSUME NEW j \in Keys PROVE GoesOn(j, record[j], record'[j])
    <2>1. CASE j = k
      BY <1>1, <2>1
    <2>2. CASE j # k
      <3>1. record'[j] = record[j] /\ record[j] \in SyncRecord
        BY <1>1, <2>2 DEF Typed
      <3> QED BY <3>1 DEF Recorded, GoesOn
    <2> QED BY <2>1, <2>2
  <1> QED BY <1>1, <1>3, <1>4 DEF RecordsGoOn

\* What may become of a record.
LEMMA Moves ==
    ASSUME SyncAssumption, NEW k, NEW r \in SyncRecord, Fine(k, r)
    PROVE  /\ GoesOn(k, r, r)
           /\ GoesOn(k, r, MarkFailed(r)) /\ SeenIn(MarkFailed(r))
           /\ r.id # 0 => GoesOn(k, r, MarkCommitted(r)) /\ SeenIn(MarkCommitted(r))
           /\ \A id \in Nat \ {0} : Holds(k, id) => /\ GoesOn(k, r, MarkStaged(r, id))
                                                    /\ SeenIn(MarkStaged(r, id))
                                                    /\ MarkStaged(r, id).id = id
           /\ \A s \in {"NONE", "PENDING"} :
                r.status = "NONE" => GoesOn(k, r, [r EXCEPT !.status = s])
  <1> USE DEF SyncRecord, Status, GoesOn, Fine, SeenIn
  <1>1. MaxAttempts \in Nat
    BY DEF SyncAssumption
  <1>2. GoesOn(k, r, MarkFailed(r)) /\ SeenIn(MarkFailed(r))
    <2> DEFINE n == IF r.attempts < MaxAttempts THEN r.attempts + 1 ELSE r.attempts
    <2>1. n \in 0 .. MaxAttempts
      BY <1>1
    <2>2. MarkFailed(r) = [r EXCEPT !.status = "FAILED", !.attempts = n]
      BY DEF MarkFailed
    <2> HIDE DEF n
    <2>3. MarkFailed(r) = [status |-> "FAILED", id |-> r.id, attempts |-> n]
      BY <2>2
    <2> QED BY <2>1, <2>3
  <1>3. r.id # 0 => GoesOn(k, r, MarkCommitted(r)) /\ SeenIn(MarkCommitted(r))
    BY DEF MarkCommitted
  <1>4. ASSUME NEW id \in Nat \ {0}, Holds(k, id)
        PROVE  GoesOn(k, r, MarkStaged(r, id)) /\ SeenIn(MarkStaged(r, id)) /\ MarkStaged(r, id).id = id
    BY <1>4 DEF MarkStaged
  <1>5. ASSUME NEW s \in {"NONE", "PENDING"}, r.status = "NONE"
        PROVE  GoesOn(k, r, [r EXCEPT !.status = s])
    BY <1>5
  <1> QED BY <1>2, <1>3, <1>4, <1>5

LEMMA StillRecorded ==
    ASSUME RecordsGoOn, rows' = rows
    PROVE  Recorded'
    BY DEF RecordsGoOn, GoesOn, Recorded, Fine, Holds, SeenIn

\* A loop that is not writing, or that has noted what it wrote, goes on with
\* nothing in hand.
LEMMA Calm ==
    ASSUME IInv, RecordsGoOn, UNCHANGED <<rows, exposed>>,
           NEW p \in Loops, NEW x \in LoopState, loop' = [loop EXCEPT ![p] = x],
           x.at \in {"find", "succeeded", "failed"},
           x.at # "find" => x.todo # <<>> /\ Head(x.todo).op = "commit",
           x.got => Placed("issuance"),
           loop[p].at = "mark" => record'[Key(p)].id = loop[p].id
    PROVE  OnNode' /\ Recorded' /\ Working' /\ NoneYet' /\ Known' /\ loop' \in [Loops -> LoopState]
  <1>1. /\ \A q \in Loops : loop'[q] = IF q = p THEN x ELSE loop[q]
        /\ loop' \in [Loops -> LoopState]
    BY DEF IInv, Typed
  <1>2. OnNode'
    BY DEF IInv, OnNode, Numbered, RefersBack, CreatedOnce
  <1>3. Working'
    BY <1>1 DEF IInv, Working, Writing, Grounded, Holds, Placed, Key
  <1>4. NoneYet'
    BY <1>1 DEF IInv, NoneYet, Writing, Placed, Key
  <1>5. ASSUME NEW i \in DOMAIN rows, rows[i].key \notin exposed
        PROVE  \/ record'[rows[i].key].id = rows[i].id
               \/ \E q \in Loops : loop'[q].at = "mark" /\ Head(loop'[q].todo).key = rows[i].key
    <2> DEFINE k == rows[i].key
    <2>1. k \in Keys
      <3>1. rows[i] \in NodeRow
        BY DEF IInv, Typed
      <3> QED BY <3>1 DEF NodeRow
    <2>2. \A j \in DOMAIN rows : rows[j].key = k => rows[j].id = rows[i].id
      BY <1>5 DEF IInv, OnNode, CreatedOnce
    <2>3. CASE record[k].id = rows[i].id
      <3>1. record'[k].id = record[k].id \/ Holds(k, record'[k].id)
        BY <2>1 DEF RecordsGoOn, GoesOn
      <3> QED BY <2>2, <2>3, <3>1 DEF Holds
    <2>4. ASSUME NEW q \in Loops, loop[q].at = "mark", Key(q) = k
          PROVE  \/ record'[k].id = rows[i].id
                 \/ loop'[q].at = "mark" /\ Head(loop'[q].todo).key = k
      <3>1. CASE q = p
        <4>1. Holds(k, loop[p].id)
          BY <2>4, <3>1 DEF IInv, Working, Writing
        <4> QED BY <2>2, <2>4, <3>1, <4>1 DEF Holds
      <3>2. CASE q # p
        BY <1>1, <2>4, <3>2 DEF Key
      <3> QED BY <3>1, <3>2
    <2> QED BY <1>5, <2>3, <2>4 DEF IInv, Known
  <1>6. Known'
    BY <1>5 DEF Known, Key
  <1> QED BY <1>1, <1>2, <1>3, <1>4, <1>6, StillRecorded

LEMMA StillSeen ==
    ASSUME IInv, RecordsGoOn, UNCHANGED <<queue, cursor>>
    PROVE  /\ NothingForgotten'
           /\ \A a \in Action : SeenIn(record[a.key]) => SeenIn(record'[a.key])
  <1>1. \A a \in Action : a.key \in Keys
    BY DEF Action, Keys
  <1>2. \A k \in Keys : SeenIn(record[k]) => SeenIn(record'[k])
    BY DEF RecordsGoOn, GoesOn
  <1>3. \A i \in 1 .. cursor : queue[i] \in Action
    BY DEF IInv, Typed
  <1> QED BY <1>1, <1>2, <1>3 DEF IInv, NothingForgotten, SeenIn

\* What the lane or the timer is left with when its first task is done.
LEMMA NextTask ==
    ASSUME SyncAssumption, IInv, RecordsGoOn, UNCHANGED <<queue, cursor>>,
           NEW p \in Loops, loop[p].todo # <<>>,
           loop'[p].todo = Tail(loop[p].todo),
           \A q \in Loops : q # p => loop'[q] = loop[q],
           Head(loop[p].todo).op \in {"ensure", "create", "update"} /\ Key(p) # "issuance" =>
              SeenIn(record'[Key(p)])
    PROVE  /\ LaneShape' /\ TimerShape'
           /\ loop'[p].todo # <<>> /\ Head(loop'[p].todo).op = "create" => Key(p) = "issuance"
  <1> DEFINE t == loop[p].todo
  <1>1. CASE p = "lane"
    <2> PICK a : a = queue[cursor + 1]
      OBVIOUS
    <2>1. cursor < Len(queue) /\ LaneHas(t, a)
      BY <1>1 DEF IInv, LaneShape
    <2>2. a \in Action
      BY <2>1 DEF IInv, Typed
    <2>3. a.key \in Keys /\ (a.op = "verify" => a.key = "verification")
          /\ (a.op \in {"issue", "change"} => a.key # "issuance")
      BY <2>2 DEF Action, Keys, SyncAssumption
    <2>4. SeenIn(record[a.key]) => SeenIn(record'[a.key])
      BY <2>2, StillSeen
    <2> PICK u : u = loop'[p].todo
      OBVIOUS
    <2>10. ASSUME \/ u = <<>>
                  \/ LaneHas(u, a)' /\ Head(u).op # "create"
           PROVE  /\ LaneShape' /\ TimerShape'
                  /\ loop'[p].todo # <<>> /\ Head(loop'[p].todo).op = "create" => Key(p) = "issuance"
      <3>1. TimerShape'
        BY <1>1 DEF IInv, TimerShape, Loops
      <3>2. LaneShape'
        BY <1>1, <2>1, <2>10 DEF LaneShape
      <3> QED BY <2>10, <3>1, <3>2
    <2>11. ASSUME Tail(t) = <<Commit, Save>>, SeenIn(record'[a.key])
           PROVE  /\ LaneShape' /\ TimerShape'
                  /\ loop'[p].todo # <<>> /\ Head(loop'[p].todo).op = "create" => Key(p) = "issuance"
      <3>1. u = <<Commit, Save>>
        BY <2>11
      <3>4. Head(u) = Commit
        BY <3>1
      <3>2. LaneHas(u, a)'
        BY <2>11, <3>1 DEF LaneHas, SeenIn
      <3>3. Commit.op # "create"
        BY DEF Commit, Task
      <3> QED BY <2>10, <3>2, <3>3, <3>4
    <2>5. CASE t \in {<<Save>>, <<Commit, Save>>} /\ SeenIn(record[a.key])
      <3>1. CASE t = <<Save>>
        <4>1. u = <<>>
          BY <3>1
        <4> QED BY <2>10, <4>1
      <3>2. CASE t = <<Commit, Save>>
        <4>1. u = <<Save>> /\ Head(u) = Save
          BY <3>2
        <4>2. LaneHas(u, a)'
          BY <2>4, <2>5, <4>1 DEF LaneHas, SeenIn
        <4>3. Save.op # "create"
          BY DEF Save, Task
        <4> QED BY <2>10, <4>1, <4>2, <4>3
      <3> QED BY <2>5, <3>1, <3>2
    <2>6. CASE a.op = "verify" /\ t = <<Task("ensure", "verification"), Commit, Save>>
      <3>1. Head(t) = Task("ensure", "verification")
        BY <2>6, Tails
      <3>2. Tail(t) = <<Commit, Save>>
        BY <2>6, Tails
      <3>3. SeenIn(record'[a.key])
        BY <2>3, <2>6, <3>1 DEF Key, Task
      <3> QED BY <2>11, <3>2, <3>3
    <2>7. CASE a.op = "issue" /\ t = <<Task("ensure", "issuance"), Task("create", a.key), Commit, Save>>
      <3>1. loop'[p].todo = <<Task("create", a.key), Commit, Save>> /\ Key(p) = "issuance"
        BY <2>7, Tails DEF Key, Task
      <3> QED BY <1>1, <2>1, <2>7, <3>1 DEF LaneShape, LaneHas, IInv, TimerShape, Loops
    <2>8. CASE a.op = "issue" /\ t = <<Task("create", a.key), Commit, Save>>
      <3>1. Head(t) = Task("create", a.key)
        BY <2>8, Tails
      <3>2. Tail(t) = <<Commit, Save>>
        BY <2>8, Tails
      <3>3. SeenIn(record'[a.key])
        BY <2>3, <2>8, <3>1 DEF Key, Task
      <3> QED BY <2>11, <3>2, <3>3
    <2>9. CASE a.op = "change" /\ t = <<Task("update", a.key), Commit, Save>>
      <3>1. Head(t) = Task("update", a.key)
        BY <2>9, Tails
      <3>2. Tail(t) = <<Commit, Save>>
        BY <2>9, Tails
      <3>3. SeenIn(record'[a.key])
        BY <2>3, <2>9, <3>1 DEF Key, Task
      <3> QED BY <2>11, <3>2, <3>3
    <2> QED BY <2>1, <2>5, <2>6, <2>7, <2>8, <2>9 DEF LaneHas
  <1>2. CASE p = "timer"
    <2>1. t \in Seq(TimerTask)
      BY <1>2 DEF IInv, TimerShape
    <2>2. Tail(t) \in Seq(TimerTask) /\ (Tail(t) # <<>> => Head(Tail(t)) \in TimerTask)
      BY <2>1, TailTyped
    <2>3. \A e \in TimerTask : e.op # "create"
      BY DEF TimerTask
    <2>4. LaneShape'
      <3>1. loop'["lane"] = loop["lane"]
        BY <1>2 DEF Loops
      <3>2. loop["lane"].todo # <<>> => queue[cursor + 1] \in Action
        BY DEF IInv, LaneShape, Typed
      <3> QED BY <3>1, <3>2, StillSeen DEF IInv, LaneShape, LaneHas
    <2> QED BY <1>2, <2>2, <2>3, <2>4 DEF TimerShape
  <1> QED BY <1>1, <1>2 DEF Loops

LEMMA Passed ==
    ASSUME SyncAssumption, IInv, RecordsGoOn, UNCHANGED <<queue, cursor, block, node, exposed>>,
           NEW p \in Loops, loop[p].todo # <<>>,
           NEW x \in LoopState, loop' = [loop EXCEPT ![p] = x],
           x.todo = Tail(loop[p].todo), x.at = "find",
           x.got => /\ x.todo # <<>> /\ Head(x.todo).op = "create"
                    /\ Key(p) = "issuance" => Placed("issuance"),
           loop[p].at = "mark" => record'[Key(p)].id = loop[p].id,
           Head(loop[p].todo).op \in {"ensure", "create", "update"} /\ Key(p) # "issuance" =>
              SeenIn(record'[Key(p)])
    PROVE  IInv'
  <1>1. \A q \in Loops : loop'[q] = IF q = p THEN x ELSE loop[q]
    BY DEF IInv, Typed
  <1>2. LaneShape' /\ TimerShape' /\ (x.got => Placed("issuance"))
    <2>1. loop'[p] = x /\ loop'[p].todo = Tail(loop[p].todo)
      BY <1>1
    <2>2. \A q \in Loops : q # p => loop'[q] = loop[q]
      BY <1>1
    <2>3. /\ LaneShape' /\ TimerShape'
          /\ loop'[p].todo # <<>> /\ Head(loop'[p].todo).op = "create" => Key(p) = "issuance"
      BY <2>1, <2>2, NextTask
    <2> QED BY <2>1, <2>3
  <1>3. OnNode' /\ Recorded' /\ Working' /\ NoneYet' /\ Known' /\ loop' \in [Loops -> LoopState]
    BY <1>2, Calm DEF node
  <1>4. NothingForgotten'
    BY StillSeen
  <1>5. Typed'
    BY <1>3 DEF IInv, Typed, node, RecordsGoOn
  <1> QED BY <1>2, <1>3, <1>4, <1>5 DEF IInv

LEMMA TaskDone ==
    ASSUME SyncAssumption, IInv, RecordsGoOn, UNCHANGED <<queue, cursor, block, node, exposed>>,
           NEW p \in Loops, loop[p].todo # <<>>,
           NEW owed \in BOOLEAN, NEW got \in BOOLEAN, Done(p, owed, got),
           got => SeenIn(record'[Key(p)]) /\ record'[Key(p)].id # 0 /\ Key(p) \in Keys,
           loop[p].at = "mark" => record'[Key(p)].id = loop[p].id,
           Head(loop[p].todo).op \in {"ensure", "create", "update"} /\ Key(p) # "issuance" =>
              SeenIn(record'[Key(p)])
    PROVE  IInv'
  <1> DEFINE rest == Tail(loop[p].todo)
             o == loop[p].owed \/ owed
             g == got /\ rest # <<>> /\ Head(rest).op = "create"
             x == [Idle EXCEPT !.todo = rest, !.owed = o, !.got = g]
  <1>1. loop' = [loop EXCEPT ![p] = x]
    BY DEF Done
  <1>2. loop[p] \in LoopState
    BY DEF IInv, Typed
  <1>3. rest \in Seq(AnyTask) /\ o \in BOOLEAN /\ g \in BOOLEAN
    BY <1>2, TailTyped DEF LoopState
  <1>4. g => got /\ rest # <<>> /\ Head(rest).op = "create"
    OBVIOUS
  <1> HIDE DEF o, g
  <1>5. x \in LoopState /\ x.todo = rest /\ x.at = "find" /\ x.got = g
    BY <1>3 DEF LoopState, Idle
  <1>6. got /\ Key(p) = "issuance" => Placed("issuance")
    BY DEF RecordsGoOn, GoesOn, Fine, Holds, Placed
  <1>7. /\ x.todo = Tail(loop[p].todo) /\ x.at = "find"
        /\ x.got => /\ x.todo # <<>> /\ Head(x.todo).op = "create"
                    /\ Key(p) = "issuance" => Placed("issuance")
    BY <1>5, <1>6, <1>4
  <1> HIDE DEF x
  <1> QED BY <1>1, <1>5, <1>7, Passed

-----------------------------------------------------------------------------
(* Finding out what to do *)

LEMMA FirstTask ==
    ASSUME Typed, NEW p \in Loops, loop[p].todo # <<>>
    PROVE  /\ Head(loop[p].todo) \in AnyTask
           /\ Head(loop[p].todo).op = "ensure" => Key(p) \in Snapshots
           /\ Head(loop[p].todo).op \in {"create", "update", "heal"} => Key(p) \in Blocks
           /\ Head(loop[p].todo).op \in {"ensure", "create", "update", "heal"} => Key(p) \in Keys
  <1>1. Head(loop[p].todo) \in AnyTask
    BY TailTyped DEF Typed, LoopState
  <1> QED BY <1>1 DEF AnyTask, TimerTask, Key, Keys, Snapshots

LEMMA ShapesStay ==
    ASSUME IInv, RecordsGoOn, UNCHANGED <<queue, cursor>>,
           \A q \in Loops : loop'[q].todo = loop[q].todo
    PROVE  LaneShape' /\ TimerShape'
  <1>1. loop'["lane"].todo = loop["lane"].todo /\ loop'["timer"].todo = loop["timer"].todo
    BY DEF Loops
  <1>2. loop["lane"].todo # <<>> => queue[cursor + 1] \in Action
    BY DEF IInv, LaneShape, Typed
  <1> QED BY <1>1, <1>2, StillSeen DEF IInv, LaneShape, LaneHas, TimerShape

\* A loop that creates a row of a record nobody else has created one of: none is
\* committed, none is staged, and no other loop is at the record.
LEMMA NoneIsThere ==
    ASSUME IInv, NEW p \in Loops, loop[p].at = "find",
           NEW k \in Keys, k \notin exposed, Key(p) = k,
           ~Contended(p), ~Outgrown(k), ~Synced(k),
           ~(record[k].status = "FAILED" /\ record[k].id # 0 /\ ExistsOnCadTrust(record[k].id)),
           record[k].status = "FAILED" => StagedFor(k) = {}
    PROVE  ~Placed(k) /\ \A q \in Loops : q # p /\ Writing(q) => Key(q) # k
  <1>1. \A q \in Loops : q # p /\ Writing(q) => Key(q) # k
    BY DEF Contended, Writing
  <1>2. ASSUME NEW i \in DOMAIN rows, rows[i].key = k PROVE FALSE
    <2>1. \A q \in Loops : loop[q].at = "mark" => Key(q) # k
      BY <1>1 DEF Writing
    <2>2. record[k].id = rows[i].id /\ rows[i].id # 0
      BY <1>2, <2>1 DEF IInv, Known, OnNode, Numbered
    <2>3. record[k].status = "FAILED"
      BY <2>2 DEF IInv, Recorded, Fine, SeenIn, Synced
    <2>4. i \in 1 .. Len(rows)
      BY DEF IInv, Typed
    <2>5. i > committed
      BY <2>2, <2>3, <2>4 DEF ExistsOnCadTrust, RowsOf, IInv, Typed
    <2> QED BY <1>2, <2>3, <2>5 DEF Outgrown, StagedRows
  <1> QED BY <1>1, <1>2 DEF Placed

LEMMA Sought ==
    ASSUME SyncAssumption, IInv, RecordsGoOn, \A k \in Keys : record'[k].id = record[k].id,
           UNCHANGED <<queue, cursor, block, node>>,
           NEW p \in Loops, loop[p].at = "find", loop[p].todo # <<>>,
           Head(loop[p].todo).op \in {"ensure", "create", "update"},
           NEW id \in Nat, NEW blind \in BOOLEAN, ToStage(p, id, blind),
           Grounded(Key(p)), id # 0 => Holds(Key(p), id),
           id = 0 /\ ~blind =>
              LET r == record[Key(p)] IN
              /\ ~Synced(Key(p))
              /\ ~(r.status = "FAILED" /\ r.id # 0 /\ ExistsOnCadTrust(r.id))
              /\ r.status = "FAILED" => StagedFor(Key(p)) = {}
    PROVE  IInv'
  <1> DEFINE v == IF Key(p) \in Blocks THEN block[Key(p)] ELSE 0
             k == Key(p)
  <1>1. k \in Keys
    BY FirstTask DEF IInv
  <1>2. v \in Nat
    BY DEF IInv, Typed, SyncAssumption
  <1>3. loop' = [loop EXCEPT ![p].at = "stage", ![p].id = id, ![p].version = v]
    BY DEF ToStage
  <1> HIDE DEF v
  <1>4. loop \in [Loops -> LoopState]
    BY DEF IInv, Typed
  <1>5. /\ loop' \in [Loops -> LoopState]
        /\ \A q \in Loops : q # p => loop'[q] = loop[q]
        /\ loop'[p].todo = loop[p].todo /\ loop'[p].at = "stage" /\ loop'[p].id = id
        /\ loop'[p].got = loop[p].got
    <2> DEFINE x == [loop[p] EXCEPT !.at = "stage", !.id = id, !.version = v]
    <2>1. \A q \in Loops : loop'[q] = IF q = p THEN x ELSE loop[q]
      BY <1>3, <1>4
    <2>2. loop' = [q \in Loops |-> loop'[q]]
      BY <1>3, <1>4
    <2>3. loop[p] \in LoopState
      BY <1>4
    <2>4. x \in LoopState /\ x.todo = loop[p].todo /\ x.at = "stage" /\ x.id = id /\ x.got = loop[p].got
      BY <1>2, <2>3 DEF LoopState
    <2> HIDE DEF x
    <2> QED BY <1>4, <2>1, <2>2, <2>4
  <1>6. \A q \in Loops : loop'[q].todo = loop[q].todo /\ Key(q)' = Key(q)
    BY <1>5 DEF Key
  <1>7. rows' = rows /\ exposed \subseteq exposed' /\ exposed' \subseteq Keys
    BY <1>1 DEF node, ToStage, IInv, Typed
  <1>8. k \notin exposed' /\ id = 0 => k \notin exposed /\ ~blind /\ ~Contended(p) /\ ~Outgrown(k)
    BY DEF ToStage
  <1>9. k \notin exposed' /\ id = 0 => ~Placed(k) /\ \A q \in Loops : q # p /\ Writing(q) => Key(q) # k
    BY <1>1, <1>8, NoneIsThere
  <1>10. OnNode' /\ Recorded'
    BY <1>7, StillRecorded DEF IInv, OnNode, Numbered, RefersBack, CreatedOnce
  <1>11. Working'
    BY <1>5, <1>6, <1>7 DEF IInv, Working, Writing, Grounded, Holds, Placed, Key
  <1>12. NoneYet'
    <2> SUFFICES ASSUME NEW q \in Loops, loop'[q].at = "stage", loop'[q].id = 0, Key(q) \notin exposed'
                 PROVE  /\ ~Placed(Key(q))
                        /\ \A o \in Loops : o # q /\ loop'[o].at \in {"stage", "mark"} => Key(o) # Key(q)
      BY <1>6, <1>7 DEF NoneYet, Writing, Placed
    <2>1. CASE q = p
      BY <1>5, <1>9, <2>1 DEF Writing
    <2>2. CASE q # p
      <3>1. loop[q].at = "stage" /\ loop[q].id = 0 /\ Key(q) \notin exposed
        BY <1>5, <1>7, <2>2
      <3>2. ~Placed(Key(q)) /\ \A o \in Loops : o # q /\ Writing(o) => Key(o) # Key(q)
        BY <3>1 DEF IInv, NoneYet
      <3>3. Key(q) # k
        <4>1. CASE id = 0
          BY <1>9, <2>2, <3>1, <4>1 DEF Writing
        <4>2. CASE id # 0
          BY <3>2, <4>2 DEF Holds, Placed
        <4> QED BY <4>1, <4>2
      <3> QED BY <1>5, <3>2, <3>3 DEF Writing
    <2> QED BY <2>1, <2>2
  <1>13. Known'
    <2>1. \A i \in DOMAIN rows : rows[i].key \in Keys
      <3>1. \A i \in DOMAIN rows : rows[i] \in NodeRow
        BY DEF IInv, Typed
      <3> QED BY <3>1 DEF NodeRow
    <2>2. \A q \in Loops : loop[q].at = "mark" => loop'[q].at = "mark"
      BY <1>5
    <2> QED BY <1>6, <1>7, <2>1, <2>2 DEF IInv, Known
  <1>14. LaneShape' /\ TimerShape' /\ NothingForgotten'
    BY <1>6, ShapesStay, StillSeen
  <1>15. Typed'
    BY <1>5, <1>7 DEF IInv, Typed, node, RecordsGoOn
  <1> QED BY <1>10, <1>11, <1>12, <1>13, <1>14, <1>15 DEF IInv

\* A loop at the first of its tasks, which is one about a record.
Finds(p) ==
    /\ p \in Loops /\ loop[p].at = "find" /\ loop[p].todo # <<>>
    /\ Head(loop[p].todo).op \in {"ensure", "create", "update"}
    /\ Frame

LEMMA FindsRecord ==
    ASSUME IInv, NEW p, Finds(p)
    PROVE  /\ Key(p) \in Keys /\ record[Key(p)] \in SyncRecord /\ Fine(Key(p), record[Key(p)])
           /\ UNCHANGED <<queue, cursor, block, node>>
  <1>1. Key(p) \in Keys
    BY FirstTask DEF Finds, IInv
  <1> QED BY <1>1 DEF IInv, Typed, Recorded, Finds, Frame

\* The record is synced, or becomes so, or it has failed and stays so.
LEMMA FoundIt ==
    ASSUME SyncAssumption, IInv, NEW p, Finds(p),
           NEW s, GoesOn(Key(p), record[Key(p)], s), SeenIn(s),
           record' = [record EXCEPT ![Key(p)] = s],
           NEW owed \in BOOLEAN, NEW got \in BOOLEAN, got => s.id # 0,
           Done(p, owed, got), UNCHANGED exposed
    PROVE  IInv'
  <1>1. RecordsGoOn /\ record'[Key(p)] = s
    BY FindsRecord, OneMoves DEF IInv
  <1> QED BY <1>1, FindsRecord, TaskDone DEF Finds

LEMMA SyncedFound ==
    ASSUME SyncAssumption, IInv, NEW p, Finds(p), FoundSynced(p)
    PROVE  IInv'
  <1> DEFINE r == record[Key(p)]
             owed == r.status = "STAGED"
  <1>1. GoesOn(Key(p), r, r) /\ SeenIn(r) /\ r.id # 0
    BY FindsRecord, Moves DEF FoundSynced, Synced, SeenIn, Fine
  <1>2. record' = [record EXCEPT ![Key(p)] = r]
    BY FindsRecord DEF FoundSynced, IInv, Typed
  <1>3. Done(p, owed, TRUE) /\ UNCHANGED exposed /\ owed \in BOOLEAN
    BY DEF FoundSynced
  <1> HIDE DEF owed
  <1> QED BY <1>1, <1>2, <1>3, FoundIt

LEMMA PublishedFound ==
    ASSUME SyncAssumption, IInv, NEW p, Finds(p), FoundPublished(p)
    PROVE  IInv'
  <1> DEFINE s == MarkCommitted(record[Key(p)])
  <1>1. GoesOn(Key(p), record[Key(p)], s) /\ SeenIn(s)
    BY FindsRecord, Moves DEF FoundPublished
  <1>2. s.id # 0
    BY FindsRecord DEF FoundPublished, MarkCommitted, SyncRecord
  <1> HIDE DEF s
  <1>3. record' = [record EXCEPT ![Key(p)] = s] /\ Done(p, FALSE, TRUE) /\ UNCHANGED exposed
    BY DEF FoundPublished, Set, s
  <1> QED BY <1>1, <1>2, <1>3, FoundIt

LEMMA NothingFound ==
    ASSUME SyncAssumption, IInv, NEW p, Finds(p), FoundNothing(p)
    PROVE  IInv'
  <1> DEFINE r == record[Key(p)]
  <1>1. GoesOn(Key(p), r, r) /\ SeenIn(r) /\ r.id # 0
    BY FindsRecord, Moves DEF FoundNothing, SeenIn
  <1>2. record' = [record EXCEPT ![Key(p)] = r]
    BY FindsRecord DEF FoundNothing, IInv, Typed
  <1> QED BY <1>1, <1>2, FoundIt DEF FoundNothing

LEMMA Adopted ==
    ASSUME SyncAssumption, IInv, NEW p, Finds(p), NEW left, Adopt(p, left),
           \A i \in left : i \in DOMAIN rows /\ rows[i].key = Key(p)
    PROVE  IInv'
  <1>1. PICK i \in left : record' = [record EXCEPT ![Key(p)] = MarkStaged(record[Key(p)], rows[i].id)]
    BY DEF Adopt, Set
  <1>2. Holds(Key(p), rows[i].id) /\ rows[i].id \in Nat \ {0}
    BY DEF Holds, IInv, OnNode, Numbered
  <1> PICK id \in Nat \ {0} : id = rows[i].id
    BY <1>2
  <1> DEFINE s == MarkStaged(record[Key(p)], id)
  <1>3. /\ record[Key(p)] \in SyncRecord /\ Fine(Key(p), record[Key(p)])
        /\ Holds(Key(p), id)
    BY <1>2, FindsRecord
  <1>4. GoesOn(Key(p), record[Key(p)], s) /\ SeenIn(s) /\ s.id = id
    BY <1>3, Moves
  <1>5. record' = [record EXCEPT ![Key(p)] = s]
    BY <1>1
  <1>6. Done(p, TRUE, TRUE) /\ UNCHANGED exposed
    BY DEF Adopt
  <1> HIDE DEF s
  <1> QED BY <1>4, <1>5, <1>6, FoundIt

LEMMA Refused ==
    ASSUME SyncAssumption, IInv, NEW p, Finds(p),
           NEW failed \in BOOLEAN, Refuse(p, failed), failed \/ Key(p) = "issuance"
    PROVE  IInv'
  <1>1. CASE failed
    <2> DEFINE s == MarkFailed(record[Key(p)])
    <2>1. GoesOn(Key(p), record[Key(p)], s) /\ SeenIn(s)
      BY FindsRecord, Moves
    <2>2. record' = [record EXCEPT ![Key(p)] = s]
      BY <1>1 DEF Refuse
    <2> HIDE DEF s
    <2> QED BY <2>1, <2>2, FoundIt DEF Refuse
  <1>2. CASE ~failed
    <2>1. RecordsGoOn
      BY <1>2, Unmoved DEF Refuse, IInv
    <2> QED BY <1>2, <2>1, FindsRecord, TaskDone DEF Finds, Refuse
  <1> QED BY <1>1, <1>2

\* The node has no row of the record to take over, or it does not say.
LEMMA Created ==
    ASSUME SyncAssumption, IInv, NEW p, Finds(p),
           NEW fresh \in {"NONE", "PENDING"}, Create(p, fresh), Grounded(Key(p)),
           ~Synced(Key(p)),
           ~(/\ record[Key(p)].status = "FAILED" /\ record[Key(p)].id # 0
             /\ ExistsOnCadTrust(record[Key(p)].id))
    PROVE  IInv'
  <1> DEFINE r == record[Key(p)]
             s == IF r.status = "NONE" THEN [r EXCEPT !.status = fresh] ELSE r
  <1>1. GoesOn(Key(p), r, s) /\ s.id = r.id
    <2>1. CASE r.status = "NONE"
      BY <2>1, FindsRecord, Moves DEF SyncRecord
    <2>2. CASE r.status # "NONE"
      BY <2>2, FindsRecord, Moves
    <2> QED BY <2>1, <2>2
  <1>2. record' = [record EXCEPT ![Key(p)] = s]
    BY DEF Create, Set
  <1> HIDE DEF s
  <1>3. RecordsGoOn /\ record'[Key(p)] = s
    BY <1>1, <1>2, FindsRecord, OneMoves DEF IInv
  <1>4. \A k \in Keys : record'[k].id = record[k].id
    BY <1>1, <1>2, <1>3 DEF IInv, Typed
  <1>5. PICK blind \in BOOLEAN :
          ToStage(p, 0, blind) /\ (~blind => r.status # "FAILED" \/ StagedFor(Key(p)) = {})
    BY DEF Create
  <1> QED BY <1>3, <1>4, <1>5, FindsRecord, Sought DEF Finds

LEMMA Ensured ==
    ASSUME SyncAssumption, IInv, NEW p, Finds(p),
           NEW fresh \in {"NONE", "PENDING"}, EnsureRecord(p, fresh), Grounded(Key(p))
    PROVE  IInv'
  <1>1. \A i \in StagedFor(Key(p)) : i \in DOMAIN rows /\ rows[i].key = Key(p)
    BY DEF StagedFor, StagedRows
  <1>2. CASE FoundSynced(p) \/ FoundPublished(p) \/ FoundNothing(p)
    BY <1>2, SyncedFound, PublishedFound, NothingFound
  <1>3. CASE Adopt(p, StagedFor(Key(p)))
    BY <1>1, <1>3, Adopted
  <1>4. CASE /\ ~Synced(Key(p))
             /\ ~(/\ record[Key(p)].status = "FAILED" /\ record[Key(p)].id # 0
                  /\ ExistsOnCadTrust(record[Key(p)].id))
             /\ Create(p, fresh)
    BY <1>4, Created
  <1> QED BY <1>2, <1>3, <1>4 DEF EnsureRecord

LEMMA SyncedPlaced ==
    ASSUME Recorded, NEW k \in Keys, Synced(k)
    PROVE  Placed(k)
    BY DEF Recorded, Fine, Synced, Holds, Placed

LEMMA EnsureKeeps ==
    ASSUME SyncAssumption, IInv, NEW p \in Loops, Ensure(p)
    PROVE  IInv'
  <1>1. Finds(p) /\ Head(loop[p].todo).op = "ensure"
    BY DEF Ensure, Finds, IsAt
  <1>2. Key(p) \in Snapshots
    BY <1>1, FirstTask DEF IInv, Finds
  <1>3. CASE (Key(p) = "issuance" => Synced("verification")) /\ EnsureRecord(p, "PENDING")
    <2>1. Grounded(Key(p))
      BY <1>2, <1>3, SyncedPlaced DEF Grounded, Snapshots, SyncAssumption, IInv, Keys
    <2> QED BY <1>1, <1>3, <2>1, Ensured
  <1>4. CASE Key(p) = "issuance" /\ Refuse(p, FALSE)
    BY <1>1, <1>4, Refused
  <1> QED BY <1>3, <1>4 DEF Ensure

LEMMA CreateUnitKeeps ==
    ASSUME SyncAssumption, IInv, NEW p \in Loops, CreateUnit(p)
    PROVE  IInv'
  <1>1. Finds(p) /\ Head(loop[p].todo).op = "create"
    BY DEF CreateUnit, Finds, IsAt
  <1>2. Key(p) \in Blocks
    BY <1>1, FirstTask DEF IInv, Finds
  <1>3. CASE loop[p].got /\ EnsureRecord(p, "NONE")
    <2>1. Grounded(Key(p))
      BY <1>2, <1>3 DEF Grounded, SyncAssumption, IInv, Working
    <2> QED BY <1>1, <1>3, <2>1, Ensured
  <1>4. CASE Refuse(p, TRUE)
    BY <1>1, <1>4, Refused
  <1> QED BY <1>3, <1>4 DEF CreateUnit

\* The unit of a row that is there is staged again, or counts as committed.
LEMMA Replaced ==
    ASSUME SyncAssumption, IInv, NEW p, Finds(p), Key(p) \in Blocks, record[Key(p)].id # 0,
           Replace(p) \/ ReplaceUnseen(p)
    PROVE  IInv'
  <1> DEFINE id == record[Key(p)].id
  <1>1. Holds(Key(p), id) /\ id \in Nat
    BY FindsRecord DEF Fine, SyncRecord
  <1>2. Grounded(Key(p))
    <2>1. Key(p) # "issuance"
      BY DEF SyncAssumption
    <2>2. Placed("issuance")
      BY <1>1 DEF Holds, Placed, IInv, OnNode, RefersBack, Typed
    <2> QED BY <2>1, <2>2 DEF Grounded
  <1>3. CASE ToStage(p, id, FALSE) /\ UNCHANGED record
    <2>1. RecordsGoOn
      BY <1>3, Unmoved DEF IInv
    <2> HIDE DEF id
    <2> QED BY <1>1, <1>2, <1>3, <2>1, FindsRecord, Sought DEF Finds, id
  <1>4. CASE /\ Set(Key(p), MarkCommitted(record[Key(p)]))
             /\ Done(p, FALSE, TRUE) /\ UNCHANGED exposed
    <2> DEFINE s == MarkCommitted(record[Key(p)])
    <2>1. GoesOn(Key(p), record[Key(p)], s) /\ SeenIn(s)
      BY FindsRecord, Moves
    <2>2. s.id # 0
      BY FindsRecord DEF MarkCommitted, SyncRecord
    <2>3. record' = [record EXCEPT ![Key(p)] = s]
      BY <1>4 DEF Set
    <2> HIDE DEF s
    <2> QED BY <1>4, <2>1, <2>2, <2>3, FoundIt
  <1> QED BY <1>3, <1>4 DEF Replace, ReplaceUnseen

LEMMA UpdateUnitKeeps ==
    ASSUME SyncAssumption, IInv, NEW p \in Loops, UpdateUnit(p)
    PROVE  IInv'
  <1> DEFINE k == Key(p)
             r == record[k]
             onNode == r.status = "FAILED" /\ r.id # 0 /\ ExistsOnCadTrust(r.id)
  <1>1. Finds(p) /\ Head(loop[p].todo).op = "update"
    BY DEF UpdateUnit, Finds, IsAt
  <1>2. k \in Blocks
    BY <1>1, FirstTask DEF IInv, Finds
  <1>3. CASE FoundSynced(p) \/ FoundNothing(p)
    BY <1>1, <1>3, SyncedFound, NothingFound
  <1>4. CASE r.status = "COMMITTED" /\ (Replace(p) \/ ReplaceUnseen(p))
    <2>1. r.id # 0
      BY <1>1, <1>4, FindsRecord DEF Fine
    <2> QED BY <1>1, <1>2, <1>4, <2>1, Replaced
  <1>5. CASE onNode /\ (Replace(p) \/ ReplaceUnseen(p))
    BY <1>1, <1>2, <1>5, Replaced
  <1>6. CASE onNode /\ Adopt(p, StagedWith(r.id))
    <2>1. Holds(k, r.id)
      BY <1>1, <1>6, FindsRecord DEF Fine
    <2>2. \A i \in StagedWith(r.id) : i \in DOMAIN rows /\ rows[i].key = k
      BY <2>1 DEF StagedWith, StagedRows, Holds, IInv, OnNode, Numbered
    <2> QED BY <1>1, <1>6, <2>2, Adopted
  <1>7. CASE ~Synced(k) /\ ~onNode /\ Synced("issuance") /\ Adopt(p, StagedFor(k))
    <2>1. \A i \in StagedFor(k) : i \in DOMAIN rows /\ rows[i].key = k
      BY DEF StagedFor, StagedRows
    <2> QED BY <1>1, <1>7, <2>1, Adopted
  <1>8. CASE ~Synced(k) /\ ~onNode /\ Synced("issuance") /\ Create(p, "NONE")
    <2>1. Grounded(k)
      BY <1>2, <1>8, SyncedPlaced DEF Grounded, SyncAssumption, IInv, Keys
    <2> QED BY <1>1, <1>8, <2>1, Created
  <1>9. CASE Refuse(p, TRUE)
    BY <1>1, <1>9, Refused
  <1> HIDE DEF onNode, k, r
  <1> QED BY <1>3, <1>4, <1>5, <1>6, <1>7, <1>8, <1>9 DEF UpdateUnit, onNode, k, r

-----------------------------------------------------------------------------
(* Staging *)

\* A loop stages the row it is at: nothing that was on the node goes, and the row
\* has a new id or that of a row of the same record.
LEMMA RowStaged ==
    ASSUME IInv, NEW p \in Loops, loop[p].at = "stage", loop[p].version \in Nat,
           rows' = Append(rows, StagedRow(p)),
           exposed \subseteq exposed', loop[p].id = 0 => Key(p) \in exposed' \/ Key(p) \notin exposed
    PROVE  /\ rows' \in Seq(NodeRow) /\ Len(rows') = Len(rows) + 1 /\ OnNode'
           /\ Key(p) \in Keys /\ StagedRow(p).id \in Nat \ {0} /\ StagedRow(p).key = Key(p)
           /\ loop[p].id # 0 => StagedRow(p).id = loop[p].id
           /\ DOMAIN rows' = DOMAIN rows \cup {Len(rows')}
           /\ \A i \in DOMAIN rows : rows'[i] = rows[i]
           /\ rows'[Len(rows')] = StagedRow(p)
  <1> DEFINE n == Len(rows')
             e == StagedRow(p)
  <1>1. /\ loop[p].todo # <<>> /\ Head(loop[p].todo).op \in {"ensure", "create", "update"}
        /\ Grounded(Key(p))
        /\ loop[p].id # 0 => Holds(Key(p), loop[p].id)
    BY DEF IInv, Working, Writing
  <1>2. Key(p) \in Keys
    BY <1>1, FirstTask DEF IInv
  <1>3. rows \in Seq(NodeRow) /\ Len(rows) \in Nat /\ loop[p].id \in Nat
    BY DEF IInv, Typed, LoopState
  <1>4. /\ e.key = Key(p) /\ e.id = IF loop[p].id = 0 THEN Len(rows) + 1 ELSE loop[p].id
        /\ e \in NodeRow
    BY <1>2, <1>3 DEF StagedRow, NodeRow
  <1> HIDE DEF e
  <1>5. /\ rows' \in Seq(NodeRow) /\ n = Len(rows) + 1
        /\ DOMAIN rows' = DOMAIN rows \cup {n}
        /\ \A i \in DOMAIN rows : rows'[i] = rows[i] /\ i \in 1 .. Len(rows)
        /\ rows'[n] = e
    BY <1>3, <1>4, Appended DEF e
  <1> HIDE DEF n
  <1>6. \A i \in DOMAIN rows : rows[i].id \in 1 .. i
    BY DEF IInv, OnNode, Numbered
  <1>7. e.id \in 1 .. n
    BY <1>1, <1>3, <1>4, <1>5, <1>6 DEF Holds
  <1>8. \A i \in DOMAIN rows : rows[i].id = e.id => rows[i].key = Key(p)
    BY <1>1, <1>3, <1>4, <1>5, <1>6 DEF Holds, IInv, OnNode, Numbered
  <1>9. Numbered'
    BY <1>4, <1>5, <1>6, <1>7, <1>8 DEF Numbered, IInv, OnNode
  <1>10. RefersBack'
    <2>1. ASSUME NEW i \in DOMAIN rows'
          PROVE  /\ rows'[i].key = "issuance" => \E j \in 1 .. i - 1 : rows'[j].key = "verification"
                 /\ rows'[i].key \in Blocks => \E j \in 1 .. i - 1 : rows'[j].key = "issuance"
      <3>1. CASE i \in DOMAIN rows
        <4>1. i \in 1 .. Len(rows) /\ \A j \in 1 .. i - 1 : j \in DOMAIN rows /\ rows'[j] = rows[j]
          BY <1>3, <1>5, <3>1
        <4> QED BY <1>5, <3>1, <4>1 DEF IInv, OnNode, RefersBack
      <3>2. CASE i = n
        <4>1. \A j \in DOMAIN rows : j \in 1 .. i - 1 /\ rows'[j] = rows[j]
          BY <1>3, <1>5, <3>2
        <4> QED BY <1>1, <1>4, <1>5, <3>2, <4>1 DEF Grounded, Placed
      <3> QED BY <1>5, <2>1, <3>1, <3>2
    <2> QED BY <2>1 DEF RefersBack
  <1>11. CreatedOnce'
    <2>1. ASSUME NEW i \in DOMAIN rows, rows[i].key = Key(p), rows[i].id # e.id
          PROVE  Key(p) \in exposed'
      <3>1. CASE loop[p].id = 0
        BY <2>1, <3>1 DEF IInv, NoneYet, Placed
      <3>2. CASE loop[p].id # 0
        BY <1>1, <1>4, <2>1, <3>2 DEF Holds, IInv, OnNode, CreatedOnce
      <3> QED BY <3>1, <3>2
    <2> QED BY <1>4, <1>5, <2>1 DEF IInv, OnNode, CreatedOnce
  <1> QED BY <1>2, <1>4, <1>5, <1>7, <1>9, <1>10, <1>11 DEF OnNode, e, n

LEMMA StageKeeps ==
    ASSUME SyncAssumption, IInv, NEW p \in Loops, Stage(p)
    PROVE  IInv'
  <1>1. /\ loop[p].at = "stage" /\ rows' = Append(rows, StagedRow(p))
        /\ loop' = [loop EXCEPT ![p].at = "mark", ![p].id = StagedRow(p).id]
        /\ UNCHANGED <<queue, cursor, block, record, committed, confirmed, exposed>>
    BY DEF Stage, IsAt
  <1>2. loop \in [Loops -> LoopState] /\ loop[p].version \in Nat
    BY DEF IInv, Typed, LoopState
  <1> PICK id : id = StagedRow(p).id
    OBVIOUS
  <1>3. /\ rows' \in Seq(NodeRow) /\ Len(rows') = Len(rows) + 1 /\ OnNode'
        /\ id \in Nat \ {0} /\ StagedRow(p).key = Key(p)
        /\ loop[p].id # 0 => id = loop[p].id
        /\ DOMAIN rows' = DOMAIN rows \cup {Len(rows')}
        /\ \A i \in DOMAIN rows : rows'[i] = rows[i]
        /\ rows'[Len(rows')] = StagedRow(p)
    BY <1>1, <1>2, RowStaged
  <1>4. /\ loop' \in [Loops -> LoopState]
        /\ \A q \in Loops : q # p => loop'[q] = loop[q]
        /\ loop'[p].todo = loop[p].todo /\ loop'[p].at = "mark" /\ loop'[p].id = id
        /\ loop'[p].got = loop[p].got
    <2> DEFINE x == [loop[p] EXCEPT !.at = "mark", !.id = id]
    <2>1. \A q \in Loops : loop'[q] = IF q = p THEN x ELSE loop[q]
      BY <1>1, <1>2
    <2>2. loop' = [q \in Loops |-> loop'[q]]
      BY <1>1, <1>2
    <2>3. loop[p] \in LoopState
      BY <1>2
    <2>4. x \in LoopState /\ x.todo = loop[p].todo /\ x.at = "mark" /\ x.id = id /\ x.got = loop[p].got
      BY <1>3, <2>3 DEF LoopState
    <2> HIDE DEF x
    <2> QED BY <1>2, <2>1, <2>2, <2>4
  <1>5. \A q \in Loops : loop'[q].todo = loop[q].todo /\ Key(q)' = Key(q)
    BY <1>4 DEF Key
  <1>6. /\ \A k : Placed(k) => Placed(k)'
        /\ \A k, i : Holds(k, i) => Holds(k, i)'
        /\ \A k : Placed(k)' => Placed(k) \/ k = Key(p)
        /\ Holds(Key(p), id)'
    BY <1>3, <1>5 DEF Placed, Holds
  <1>7. RecordsGoOn
    BY <1>1, Unmoved DEF IInv
  <1>8. Recorded'
    BY <1>1, <1>6 DEF IInv, Recorded, Fine, SeenIn
  <1>9. Working'
    <2> SUFFICES ASSUME NEW q \in Loops
                 PROVE  /\ loop'[q].got => Placed("issuance")'
                        /\ loop'[q].at \in {"stage", "mark"} =>
                             /\ loop[q].todo # <<>>
                             /\ Head(loop[q].todo).op \in {"ensure", "create", "update"}
                             /\ Grounded(Key(q))'
                             /\ loop'[q].id # 0 => Holds(Key(q), loop[q].id)'
                             /\ loop'[q].at = "mark" => loop'[q].id # 0
                        /\ loop'[q].at \in {"succeeded", "failed"} =>
                             loop[q].todo # <<>> /\ Head(loop[q].todo).op = "commit"
      BY <1>5 DEF Working, Writing
    <2>1. Grounded(Key(q)) => Grounded(Key(q))'
      BY <1>5, <1>6 DEF Grounded
    <2>2. CASE q = p
      BY <1>1, <1>3, <1>4, <1>5, <1>6, <2>1, <2>2 DEF IInv, Working, Writing
    <2>3. CASE q # p
      BY <1>4, <1>5, <1>6, <2>1, <2>3 DEF IInv, Working, Writing
    <2> QED BY <2>2, <2>3
  <1>10. NoneYet'
    <2> SUFFICES ASSUME NEW q \in Loops, loop'[q].at = "stage", loop'[q].id = 0, Key(q)' \notin exposed'
                 PROVE  /\ ~Placed(Key(q))'
                        /\ \A o \in Loops : o # q /\ Writing(o)' => Key(o)' # Key(q)'
      BY DEF NoneYet
    <2>1. q # p
      BY <1>4
    <2>2. loop[q].at = "stage" /\ loop[q].id = 0 /\ Key(q) \notin exposed
      BY <1>1, <1>4, <1>5, <2>1
    <2>3. /\ ~Placed(Key(q))
          /\ \A o \in Loops : o # q /\ Writing(o) => Key(o) # Key(q)
      BY <2>2 DEF IInv, NoneYet
    <2>4. Writing(p) /\ Key(p) # Key(q)
      BY <1>1, <2>1, <2>3 DEF Writing
    <2>5. ~Placed(Key(q))'
      BY <1>5, <1>6, <2>3, <2>4
    <2>6. ASSUME NEW o \in Loops, o # q, Writing(o)' PROVE Key(o)' # Key(q)'
      <3>1. CASE o = p
        BY <1>5, <2>4, <3>1
      <3>2. CASE o # p
        <4>1. Writing(o)
          BY <1>4, <2>6, <3>2 DEF Writing
        <4> QED BY <1>5, <2>3, <2>6, <4>1
      <3> QED BY <3>1, <3>2
    <2> QED BY <2>5, <2>6
  <1>11. Known'
    <2>1. \A q \in Loops : loop[q].at = "mark" => loop'[q].at = "mark" /\ Key(q)' = Key(q)
      BY <1>1, <1>4, <1>5
    <2>2. ASSUME NEW i \in DOMAIN rows
          PROVE  \/ rows[i].key \in exposed'
                 \/ record'[rows[i].key].id = rows[i].id
                 \/ \E q \in Loops : loop'[q].at = "mark" /\ Key(q)' = rows[i].key
      BY <1>1, <2>1 DEF IInv, Known
    <2>3. loop'[p].at = "mark" /\ Key(p)' = StagedRow(p).key
      BY <1>3, <1>4, <1>5
    <2> QED BY <1>3, <2>2, <2>3 DEF Known
  <1>12. LaneShape' /\ TimerShape' /\ NothingForgotten'
    BY <1>1, <1>5, <1>7, ShapesStay, StillSeen
  <1>13. Typed'
    BY <1>1, <1>3, <1>4 DEF IInv, Typed
  <1> QED BY <1>3, <1>8, <1>9, <1>10, <1>11, <1>12, <1>13 DEF IInv

LEMMA NoteKeeps ==
    ASSUME SyncAssumption, IInv, NEW p \in Loops, Note(p)
    PROVE  IInv'
  <1> DEFINE k == Key(p)
  <1>1. /\ loop[p].at = "mark" /\ loop[p].todo # <<>>
        /\ Head(loop[p].todo).op \in {"ensure", "create", "update"}
        /\ Done(p, TRUE, TRUE) /\ UNCHANGED <<queue, cursor, block, node, exposed>>
    BY DEF Note, IsAt, Frame
  <1>2. k \in Keys /\ record[k] \in SyncRecord /\ Fine(k, record[k])
    BY <1>1, FirstTask DEF IInv, Typed, Recorded
  <1> PICK id : id = loop[p].id
    OBVIOUS
  <1>3. id \in Nat \ {0} /\ Holds(k, id)
    BY <1>1 DEF IInv, Typed, LoopState, Working, Writing
  <1> DEFINE s == MarkStaged(record[k], id)
  <1>4. GoesOn(k, record[k], s) /\ SeenIn(s) /\ s.id = id
    <2> PICK r \in SyncRecord : r = record[k]
      BY <1>2
    <2>1. Fine(k, r)
      BY <1>2
    <2>2. GoesOn(k, r, MarkStaged(r, id)) /\ SeenIn(MarkStaged(r, id)) /\ MarkStaged(r, id).id = id
      BY <1>3, <2>1, Moves
    <2> QED BY <2>2
  <1>5. record' = [record EXCEPT ![k] = s]
    BY DEF Note, Set
  <1> HIDE DEF s
  <1>6. RecordsGoOn /\ record'[k] = s
    BY <1>2, <1>4, <1>5, OneMoves DEF IInv
  <1> QED BY <1>1, <1>2, <1>3, <1>4, <1>6, TaskDone

LEMMA StageFailsKeeps ==
    ASSUME SyncAssumption, IInv, NEW p \in Loops, StageFails(p)
    PROVE  IInv'
  <1> DEFINE k == Key(p)
             s == MarkFailed(record[k])
  <1>1. /\ loop[p].at = "stage" /\ loop[p].todo # <<>>
        /\ Head(loop[p].todo).op \in {"ensure", "create", "update"}
        /\ Done(p, FALSE, FALSE) /\ UNCHANGED <<queue, cursor, block, committed, confirmed>>
    BY DEF StageFails, IsAt
  <1>2. k \in Keys /\ record[k] \in SyncRecord /\ Fine(k, record[k])
    BY <1>1, FirstTask DEF IInv, Typed, Recorded
  <1>3. GoesOn(k, record[k], s) /\ SeenIn(s) /\ s.id = record[k].id
    BY <1>2, Moves DEF MarkFailed, SyncRecord
  <1>4. record' = [record EXCEPT ![k] = s]
    BY DEF StageFails, Set
  <1> HIDE DEF s
  <1>5. RecordsGoOn /\ record'[k] = s
    BY <1>2, <1>3, <1>4, OneMoves DEF IInv
  <1>6. CASE UNCHANGED <<rows, exposed>>
    BY <1>1, <1>3, <1>5, <1>6, TaskDone DEF node
  <1>7. CASE /\ rows' = Append(rows, StagedRow(p))
             /\ exposed' = exposed \cup IF loop[p].id = 0 THEN {k} ELSE {}
    <2>1. loop \in [Loops -> LoopState] /\ loop[p].version \in Nat /\ loop[p] \in LoopState
      BY DEF IInv, Typed, LoopState
    <2>2. /\ rows' \in Seq(NodeRow) /\ Len(rows') = Len(rows) + 1 /\ OnNode'
          /\ StagedRow(p).key = k
          /\ loop[p].id # 0 => StagedRow(p).id = loop[p].id
          /\ DOMAIN rows' = DOMAIN rows \cup {Len(rows')}
          /\ \A i \in DOMAIN rows : rows'[i] = rows[i]
          /\ rows'[Len(rows')] = StagedRow(p)
      BY <1>1, <1>7, <2>1, RowStaged
    <2> DEFINE rest == Tail(loop[p].todo)
               o == loop[p].owed \/ FALSE
               x == [Idle EXCEPT !.todo = rest, !.owed = o, !.got = FALSE]
    <2>3. rest \in Seq(AnyTask) /\ o \in BOOLEAN
      BY <1>1, <2>1, TailTyped DEF LoopState
    <2>4. loop' = [loop EXCEPT ![p] = x]
      BY <1>1 DEF Done
    <2> HIDE DEF o
    <2>5. x \in LoopState /\ x.todo = rest /\ x.at = "find" /\ x.got = FALSE
      BY <2>3 DEF LoopState, Idle
    <2> HIDE DEF x
    <2>6. \A q \in Loops : loop'[q] = IF q = p THEN x ELSE loop[q]
      BY <2>1, <2>4
    <2>7. /\ \A j : Placed(j) => Placed(j)'
          /\ \A j, i : Holds(j, i) => Holds(j, i)'
          /\ \A j : Placed(j)' => Placed(j) \/ j = k
      BY <2>2 DEF Placed, Holds
    <2>8. Recorded'
      BY <1>5, <2>7 DEF RecordsGoOn, GoesOn, Recorded, Fine, SeenIn
    <2>9. Working'
      <3>1. \A j : Grounded(j) => Grounded(j)'
        BY <2>7 DEF Grounded
      <3>2. ASSUME NEW q \in Loops, q # p PROVE Key(q)' = Key(q)
        BY <2>6, <3>2 DEF Key
      <3> SUFFICES ASSUME NEW q \in Loops
                   PROVE  /\ loop'[q].got => Placed("issuance")'
                          /\ loop'[q].at \in {"stage", "mark"} =>
                               /\ loop'[q].todo # <<>>
                               /\ Head(loop'[q].todo).op \in {"ensure", "create", "update"}
                               /\ Grounded(Key(q))'
                               /\ loop'[q].id # 0 => Holds(Key(q), loop[q].id)'
                               /\ loop'[q].at = "mark" => loop'[q].id # 0
                          /\ loop'[q].at \in {"succeeded", "failed"} =>
                               loop'[q].todo # <<>> /\ Head(loop'[q].todo).op = "commit"
        BY DEF Working, Writing
      <3>3. CASE q = p
        BY <2>5, <2>6, <3>3
      <3>4. CASE q # p
        BY <2>6, <2>7, <3>1, <3>2, <3>4 DEF IInv, Working, Writing
      <3> QED BY <3>3, <3>4
    <2>10. NoneYet'
      <3> SUFFICES ASSUME NEW q \in Loops, loop'[q].at = "stage", loop'[q].id = 0, Key(q)' \notin exposed'
                   PROVE  /\ ~Placed(Key(q))'
                          /\ \A j \in Loops : j # q /\ loop'[j].at \in {"stage", "mark"} => Key(j)' # Key(q)'
        BY DEF NoneYet, Writing
      <3>1. q # p /\ loop'[q] = loop[q] /\ Key(q)' = Key(q)
        BY <2>5, <2>6 DEF Key
      <3>2. /\ ~Placed(Key(q))
            /\ \A j \in Loops : j # q /\ Writing(j) => Key(j) # Key(q)
        BY <1>7, <3>1 DEF IInv, NoneYet
      <3>3. Key(q) # k
        BY <1>1, <3>1, <3>2 DEF Writing
      <3>4. \A j \in Loops : loop'[j].at \in {"stage", "mark"} => Writing(j) /\ Key(j)' = Key(j)
        BY <2>5, <2>6 DEF Writing, Key
      <3> QED BY <2>7, <3>1, <3>2, <3>3, <3>4
    <2>11. Known'
      <3>1. \A j \in Keys : record'[j].id = record[j].id
        BY <1>2, <1>3, <1>4, <1>5 DEF IInv, Typed
      <3>2. \A i \in DOMAIN rows : rows[i].key \in Keys
        <4>1. \A i \in DOMAIN rows : rows[i] \in NodeRow
          BY DEF IInv, Typed
        <4> QED BY <4>1 DEF NodeRow
      <3>3. \A q \in Loops : loop[q].at = "mark" => loop'[q].at = "mark" /\ Key(q)' = Key(q)
        BY <1>1, <2>6 DEF Key
      <3>4. ASSUME NEW i \in DOMAIN rows
            PROVE  \/ rows[i].key \in exposed'
                   \/ record'[rows[i].key].id = rows[i].id
                   \/ \E q \in Loops : loop'[q].at = "mark" /\ Key(q)' = rows[i].key
        BY <1>7, <3>1, <3>2, <3>3 DEF IInv, Known
      <3>5. loop[p].id # 0 => \E i \in DOMAIN rows : rows[i].key = k /\ rows[i].id = StagedRow(p).id
        BY <1>1, <2>2 DEF IInv, Working, Writing, Holds
      <3>6. loop[p].id = 0 => k \in exposed'
        BY <1>7
      <3> QED BY <2>2, <3>4, <3>5, <3>6 DEF Known
    <2>12. LaneShape' /\ TimerShape'
      BY <1>1, <1>3, <1>5, <2>5, <2>6, NextTask
    <2>13. NothingForgotten'
      BY <1>1, <1>5, StillSeen
    <2>14. Typed'
      <3>1. exposed' \subseteq Keys
        BY <1>2, <1>7 DEF IInv, Typed
      <3>2. loop' \in [Loops -> LoopState]
        BY <2>1, <2>4, <2>5
      <3> QED BY <1>1, <1>5, <2>2, <3>1, <3>2 DEF IInv, Typed, RecordsGoOn
    <2> QED BY <2>2, <2>8, <2>9, <2>10, <2>11, <2>12, <2>13, <2>14 DEF IInv
  <1> QED BY <1>6, <1>7 DEF StageFails

-----------------------------------------------------------------------------
(* Commits *)

LEMMA AllMarked ==
    ASSUME SyncAssumption, IInv, MarkAllStagedAsCommitted \/ MarkAllStagedAsFailed
    PROVE  RecordsGoOn
  <1>1. ASSUME NEW k \in Keys
        PROVE  GoesOn(k, record[k], record'[k])
    <2>1. record[k] \in SyncRecord /\ Fine(k, record[k])
      BY DEF IInv, Typed, Recorded
    <2>2. \/ record'[k] \in {record[k], MarkFailed(record[k])}
          \/ record[k].status = "STAGED" /\ record'[k] = MarkCommitted(record[k])
      BY DEF MarkAllStagedAsCommitted, MarkAllStagedAsFailed
    <2>3. record[k].status = "STAGED" => record[k].id # 0
      BY <2>1 DEF Fine
    <2>4. GoesOn(k, record[k], record[k]) /\ GoesOn(k, record[k], MarkFailed(record[k]))
      BY <2>1, Moves
    <2>5. record[k].status = "STAGED" => GoesOn(k, record[k], MarkCommitted(record[k]))
      BY <2>1, <2>3, Moves
    <2> QED BY <2>2, <2>4, <2>5
  <1>2. record' = [k \in Keys |-> record'[k]]
    BY DEF MarkAllStagedAsCommitted, MarkAllStagedAsFailed
  <1>3. \A k \in Keys : record'[k] \in SyncRecord
    BY <1>1 DEF GoesOn
  <1> QED BY <1>1, <1>2, <1>3 DEF RecordsGoOn

\* The commit of a loop is through.
LEMMA CommitDone ==
    ASSUME SyncAssumption, IInv, RecordsGoOn, UNCHANGED <<queue, cursor, block, node, exposed>>,
           NEW p \in Loops, loop[p].todo # <<>>, Head(loop[p].todo).op = "commit",
           loop[p].at # "mark",
           loop' = [loop EXCEPT ![p] = [Idle EXCEPT !.todo = Tail(loop[p].todo)]]
    PROVE  IInv'
  <1> DEFINE rest == Tail(loop[p].todo)
             x == [Idle EXCEPT !.todo = rest]
  <1>1. rest \in Seq(AnyTask)
    <2>1. loop[p] \in LoopState
      BY DEF IInv, Typed
    <2> QED BY <2>1, TailTyped DEF LoopState
  <1> HIDE DEF rest
  <1>2. x \in LoopState /\ x.todo = rest /\ x.at = "find" /\ x.got = FALSE
    BY <1>1 DEF LoopState, Idle
  <1> HIDE DEF x
  <1>3. loop' = [loop EXCEPT ![p] = x]
    BY DEF x, rest
  <1> QED BY <1>2, <1>3, Passed DEF rest

LEMMA CommitKeeps ==
    ASSUME SyncAssumption, IInv, NEW p \in Loops, SkipCommit(p) \/ MarkAll(p)
    PROVE  IInv'
  <1>1. RecordsGoOn
    BY AllMarked, Unmoved DEF SkipCommit, MarkAll, IInv
  <1>2. /\ loop[p].todo # <<>> /\ Head(loop[p].todo).op = "commit" /\ loop[p].at # "mark"
        /\ loop' = [loop EXCEPT ![p] = [Idle EXCEPT !.todo = Tail(loop[p].todo)]]
    BY DEF SkipCommit, MarkAll, IsAt, IInv, Working
  <1>3. UNCHANGED <<queue, cursor, block, node, exposed>>
    BY DEF SkipCommit, MarkAll, Frame
  <1> QED BY <1>1, <1>2, <1>3, CommitDone

LEMMA CommitRowsKeeps ==
    ASSUME SyncAssumption, IInv, NEW p \in Loops, CommitRows(p)
    PROVE  IInv'
  <1>1. /\ loop[p].todo # <<>> /\ Head(loop[p].todo).op = "commit" /\ loop[p].at = "find"
        /\ UNCHANGED <<queue, cursor, block, record, rows, confirmed, exposed>>
        /\ committed' \in {committed, Len(rows)}
    BY DEF CommitRows, IsAt
  <1>2. PICK at \in {"succeeded", "failed"} : loop' = [loop EXCEPT ![p].at = at]
    BY DEF CommitRows
  <1> DEFINE x == [loop[p] EXCEPT !.at = at]
  <1>3. loop[p] \in LoopState /\ loop \in [Loops -> LoopState]
    BY DEF IInv, Typed
  <1>4. loop' = [loop EXCEPT ![p] = x]
    BY <1>2, <1>3
  <1>5. /\ x \in LoopState /\ x.todo = loop[p].todo /\ x.at = at /\ x.got = loop[p].got
    BY <1>2, <1>3 DEF LoopState
  <1> HIDE DEF x
  <1>6. x.got => Placed("issuance")
    BY <1>5 DEF IInv, Working
  <1>7. RecordsGoOn
    BY <1>1, Unmoved DEF IInv
  <1>8. OnNode' /\ Recorded' /\ Working' /\ NoneYet' /\ Known' /\ loop' \in [Loops -> LoopState]
    <2>1. x.at \in {"find", "succeeded", "failed"}
      BY <1>2, <1>5
    <2>2. x.at # "find" => x.todo # <<>> /\ Head(x.todo).op = "commit"
      BY <1>1, <1>5
    <2>3. loop[p].at = "mark" => record'[Key(p)].id = loop[p].id
      BY <1>1
    <2>4. x \in LoopState /\ UNCHANGED <<rows, exposed>>
      BY <1>1, <1>5
    <2> QED BY <1>4, <1>6, <1>7, <2>1, <2>2, <2>3, <2>4, Calm
  <1>9. \A q \in Loops : loop'[q].todo = loop[q].todo
    BY <1>3, <1>4, <1>5
  <1>10. LaneShape' /\ TimerShape' /\ NothingForgotten'
    BY <1>1, <1>7, <1>9, ShapesStay, StillSeen
  <1>11. Typed'
    BY <1>1, <1>8 DEF IInv, Typed
  <1> QED BY <1>8, <1>10, <1>11 DEF IInv

-----------------------------------------------------------------------------
(* The lane and the timer *)

\* A loop that is not writing gets other tasks.
LEMMA OtherTasks ==
    ASSUME SyncAssumption, IInv, RecordsGoOn, UNCHANGED <<queue, cursor, block, node, exposed>>,
           NEW p \in Loops, loop[p].at = "find",
           NEW x \in LoopState, loop' = [loop EXCEPT ![p] = x], x.at = "find",
           x.got => Placed("issuance"),
           p = "lane" => LaneShape',
           p = "timer" => x.todo \in Seq(TimerTask)
    PROVE  IInv'
  <1>1. \A q \in Loops : loop'[q] = IF q = p THEN x ELSE loop[q]
    BY DEF IInv, Typed
  <1>2. OnNode' /\ Recorded' /\ Working' /\ NoneYet' /\ Known' /\ loop' \in [Loops -> LoopState]
    BY Calm DEF node
  <1>3. TimerShape'
    BY <1>1 DEF IInv, TimerShape, Loops
  <1>4. LaneShape'
    <2>1. CASE p = "timer"
      <3>1. loop'["lane"] = loop["lane"]
        BY <1>1, <2>1 DEF Loops
      <3>2. loop["lane"].todo # <<>> => queue[cursor + 1] \in Action
        BY DEF IInv, LaneShape, Typed
      <3> QED BY <3>1, <3>2, StillSeen DEF IInv, LaneShape, LaneHas
    <2> QED BY <2>1 DEF Loops
  <1>5. NothingForgotten'
    BY StillSeen
  <1>6. Typed'
    BY <1>2 DEF IInv, Typed, node, RecordsGoOn
  <1> QED BY <1>2, <1>3, <1>4, <1>5, <1>6 DEF IInv

LEMMA IdleTyped ==
    /\ Idle \in LoopState /\ Idle.todo = <<>> /\ Idle.at = "find" /\ Idle.got = FALSE
    /\ \A t \in Seq(AnyTask) : \A b \in BOOLEAN :
         LET x == [Idle EXCEPT !.owed = b, !.todo = t] IN
         x \in LoopState /\ x.todo = t /\ x.at = "find" /\ x.got = FALSE
    /\ \A t \in Seq(AnyTask) :
         LET x == [Idle EXCEPT !.todo = t] IN
         x \in LoopState /\ x.todo = t /\ x.at = "find" /\ x.got = FALSE
  <1>1. <<>> \in Seq(AnyTask)
    OBVIOUS
  <1> QED BY <1>1 DEF Idle, LoopState

LEMMA TasksTyped ==
    /\ Commit \in TimerTask /\ Save \in AnyTask
    /\ \A k \in Snapshots : Task("ensure", k) \in TimerTask
    /\ \A b \in Blocks : Task("update", b) \in TimerTask /\ Task("heal", b) \in TimerTask
                         /\ Task("create", b) \in AnyTask
    /\ Task("snapshots", "all") \in TimerTask /\ Task("units", "all") \in TimerTask
    /\ TimerTask \subseteq AnyTask
    /\ \A t : t \in Seq(TimerTask) => t \in Seq(AnyTask)
  <1>1. TimerTask \subseteq AnyTask
    BY DEF AnyTask
  <1> QED BY <1>1 DEF Commit, Save, Task, TimerTask, AnyTask

LEMMA TakeKeeps ==
    ASSUME SyncAssumption, IInv, Take
    PROVE  IInv'
  <1> PICK a : a = queue[cursor + 1]
    OBVIOUS
  <1> DEFINE t == Handler(a) \o <<Commit, Save>>
             x == [Idle EXCEPT !.todo = t]
  <1>1. /\ loop["lane"] = Idle /\ cursor < Len(queue)
        /\ UNCHANGED <<queue, cursor, block, record, node, exposed>>
        /\ loop' = [loop EXCEPT !["lane"].todo = t]
    BY DEF Take, Frame, Save
  <1>2. a \in Action
    BY <1>1 DEF IInv, Typed
  <1>3. /\ LaneHas(t, a)' /\ t \in Seq(AnyTask)
    <2>1. Commit \in AnyTask /\ Save \in AnyTask
      BY TasksTyped
    <2>2. CASE a.op = "verify"
      <3>1. t = <<Task("ensure", "verification"), Commit, Save>>
        BY <2>2, Joined DEF Handler
      <3>2. Task("ensure", "verification") \in AnyTask
        BY TasksTyped DEF Snapshots
      <3> HIDE DEF t
      <3>3. t \in Seq(AnyTask)
        BY <2>1, <3>1, <3>2
      <3> QED BY <2>2, <3>1, <3>3 DEF LaneHas
    <2>3. CASE a.op = "issue"
      <3>1. t = <<Task("ensure", "issuance"), Task("create", a.key), Commit, Save>>
        BY <2>3, Joined, ZenonT(40) DEF Handler
      <3>2. Task("ensure", "issuance") \in AnyTask /\ Task("create", a.key) \in AnyTask
        BY <1>2, <2>3, TasksTyped DEF Snapshots, Action
      <3> HIDE DEF t
      <3>3. t \in Seq(AnyTask)
        BY <2>1, <3>1, <3>2
      <3> QED BY <2>3, <3>1, <3>3 DEF LaneHas
    <2>4. CASE a.op = "change"
      <3>1. t = <<Task("update", a.key), Commit, Save>>
        BY <2>4, Joined DEF Handler
      <3>2. Task("update", a.key) \in AnyTask
        BY <1>2, <2>4, TasksTyped DEF Action
      <3> HIDE DEF t
      <3>3. t \in Seq(AnyTask)
        BY <2>1, <3>1, <3>2
      <3> QED BY <2>4, <3>1, <3>3 DEF LaneHas
    <2> QED BY <1>2, <2>2, <2>3, <2>4 DEF Action
  <1> HIDE DEF t
  <1>4. x \in LoopState /\ x.todo = t /\ x.at = "find" /\ x.got = FALSE
    BY <1>3, IdleTyped
  <1>5. loop' = [loop EXCEPT !["lane"] = x]
    BY <1>1 DEF IInv, Typed, Loops
  <1> HIDE DEF x
  <1>6. LaneShape'
    <2>1. loop'["lane"].todo = t
      BY <1>4, <1>5 DEF IInv, Typed, Loops
    <2> QED BY <1>1, <1>3, <2>1 DEF LaneShape
  <1>7. RecordsGoOn
    BY <1>1, Unmoved DEF IInv
  <1> QED BY <1>1, <1>4, <1>5, <1>6, <1>7, IdleTyped, OtherTasks DEF Loops

\* Only the last of the tasks of the lane saves the cursor, and none heals a unit.
LEMMA LaneTasks ==
    ASSUME IInv, loop["lane"].todo # <<>>
    PROVE  /\ Head(loop["lane"].todo).op # "heal"
           /\ Head(loop["lane"].todo).op = "save" => SeenIn(record[queue[cursor + 1].key])
  <1> DEFINE t == loop["lane"].todo
  <1> PICK a : a = queue[cursor + 1]
    OBVIOUS
  <1>1. LaneHas(t, a)
    BY DEF IInv, LaneShape
  <1>2. Head(<<Save>>) = Save /\ Head(<<Commit, Save>>) = Commit
    OBVIOUS
  <1>3. CASE t \in {<<Save>>, <<Commit, Save>>} /\ SeenIn(record[a.key])
    BY <1>2, <1>3 DEF Save, Commit, Task
  <1>4. CASE Head(t).op \in {"ensure", "create", "update"}
    BY <1>4
  <1>5. CASE t = <<Task("ensure", "verification"), Commit, Save>>
    <2>1. Head(t) = Task("ensure", "verification")
      BY <1>5
    <2> QED BY <1>4, <2>1 DEF Task
  <1>6. CASE t = <<Task("ensure", "issuance"), Task("create", a.key), Commit, Save>>
    <2>1. Head(t) = Task("ensure", "issuance")
      BY <1>6
    <2> QED BY <1>4, <2>1 DEF Task
  <1>7. CASE t = <<Task("create", a.key), Commit, Save>>
    <2>1. Head(t) = Task("create", a.key)
      BY <1>7
    <2> QED BY <1>4, <2>1 DEF Task
  <1>8. CASE t = <<Task("update", a.key), Commit, Save>>
    <2>1. Head(t) = Task("update", a.key)
      BY <1>8
    <2> QED BY <1>4, <2>1 DEF Task
  <1> QED BY <1>1, <1>3, <1>5, <1>6, <1>7, <1>8 DEF LaneHas

LEMMA SaveCursorKeeps ==
    ASSUME SyncAssumption, IInv, SaveCursor
    PROVE  IInv'
  <1>1. /\ loop["lane"].todo # <<>> /\ loop["lane"].at = "find"
        /\ Head(loop["lane"].todo).op = "save"
        /\ cursor' = cursor + 1 /\ loop' = [loop EXCEPT !["lane"] = Idle]
        /\ UNCHANGED <<queue, block, record, rows, committed, confirmed, exposed>>
    BY DEF SaveCursor, IsAt, node
  <1>2. cursor < Len(queue) /\ SeenIn(record[queue[cursor + 1].key])
    BY <1>1, LaneTasks DEF IInv, LaneShape
  <1>3. RecordsGoOn
    BY <1>1, Unmoved DEF IInv
  <1>4. OnNode' /\ Recorded' /\ Working' /\ NoneYet' /\ Known' /\ loop' \in [Loops -> LoopState]
    BY <1>1, <1>3, Calm, IdleTyped DEF Loops
  <1>5. LaneShape' /\ TimerShape'
    <2>1. loop'["lane"] = Idle /\ loop'["timer"] = loop["timer"]
      BY <1>1 DEF IInv, Typed, Loops
    <2> QED BY <2>1, IdleTyped DEF IInv, LaneShape, TimerShape
  <1>6. NothingForgotten'
    BY <1>1, <1>2 DEF IInv, Typed, NothingForgotten, SeenIn
  <1>7. Typed'
    BY <1>1, <1>2, <1>4 DEF IInv, Typed
  <1> QED BY <1>4, <1>5, <1>6, <1>7 DEF IInv

LEMMA TickKeeps ==
    ASSUME SyncAssumption, IInv, Tick
    PROVE  IInv'
  <1> DEFINE t == <<Commit, Task("snapshots", "all"), Task("units", "all")>>
             owed == StagedRows # {}
             x == [Idle EXCEPT !.owed = owed, !.todo = t]
  <1>1. /\ loop["timer"] = Idle /\ loop' = [loop EXCEPT !["timer"] = x]
        /\ UNCHANGED <<queue, cursor, block, record, node, exposed>>
    BY DEF Tick, Frame
  <1>2. t \in Seq(TimerTask)
    BY TasksTyped
  <1>3. owed \in BOOLEAN
    OBVIOUS
  <1> HIDE DEF t, owed
  <1>4. x \in LoopState /\ x.todo = t /\ x.at = "find" /\ x.got = FALSE
    <2>1. t \in Seq(AnyTask)
      BY <1>2, TasksTyped
    <2> QED BY <1>3, <2>1, IdleTyped
  <1> HIDE DEF x
  <1>5. RecordsGoOn
    BY <1>1, Unmoved DEF IInv
  <1> QED BY <1>1, <1>2, <1>4, <1>5, IdleTyped, OtherTasks DEF Loops

\* The timer puts other tasks in the place of its first.
LEMMA Rearranged ==
    ASSUME SyncAssumption, IInv, UNCHANGED <<queue, cursor, block, record, node, exposed>>,
           loop["timer"].todo # <<>>, loop["timer"].at = "find",
           NEW t \in Seq(TimerTask), Instead("timer", t)
    PROVE  IInv'
  <1> DEFINE u == t \o Tail(loop["timer"].todo)
             x == [loop["timer"] EXCEPT !.todo = u]
  <1>1. u \in Seq(TimerTask)
    <2>1. Tail(loop["timer"].todo) \in Seq(TimerTask)
      BY TailTyped DEF IInv, TimerShape
    <2> QED BY <2>1
  <1>2. loop \in [Loops -> LoopState] /\ loop["timer"] \in LoopState
    BY DEF IInv, Typed, Loops
  <1>3. loop' = [loop EXCEPT !["timer"].todo = u]
    BY DEF Instead
  <1> HIDE DEF u
  <1>4. loop' = [loop EXCEPT !["timer"] = x]
    BY <1>2, <1>3 DEF Loops
  <1>5. x \in LoopState /\ x.todo = u /\ x.at = "find" /\ x.got = loop["timer"].got
    BY <1>1, <1>2, TasksTyped DEF LoopState
  <1> HIDE DEF x
  <1>6. x.got => Placed("issuance")
    BY <1>5 DEF IInv, Working, Loops
  <1>7. RecordsGoOn
    BY Unmoved DEF IInv
  <1> QED BY <1>1, <1>4, <1>5, <1>6, <1>7, OtherTasks DEF Loops

LEMMA SweepSnapshotsKeeps ==
    ASSUME SyncAssumption, IInv, SweepSnapshots
    PROVE  IInv'
  <1> DEFINE failed == FindFailed({"verification", "issuance"})
             group(k) == IF k \in failed THEN <<Task("ensure", k), Commit>> ELSE <<>>
             t == group("verification") \o group("issuance")
  <1>1. /\ loop["timer"].todo # <<>> /\ loop["timer"].at = "find"
        /\ UNCHANGED <<queue, cursor, block, record, node, exposed>>
        /\ Instead("timer", t)
    BY DEF SweepSnapshots, IsAt, Frame
  <1>2. group("verification") \in Seq(TimerTask) /\ group("issuance") \in Seq(TimerTask)
    BY TasksTyped DEF Snapshots
  <1>3. t \in Seq(TimerTask)
    BY <1>2
  <1> HIDE DEF t
  <1> QED BY <1>1, <1>3, Rearranged

LEMMA SweepUnitsKeeps ==
    ASSUME SyncAssumption, IInv, SweepUnits
    PROVE  IInv'
  <1> DEFINE failed == FindFailed(Blocks)
             order == SetToSeq(failed)
             tasks == [i \in 1 .. 2 * Len(order) |->
                         IF i % 2 = 1 THEN Task("heal", order[(i + 1) \div 2])
                                      ELSE Task("update", order[i \div 2])]
             t == tasks \o <<Commit>>
  <1>1. /\ loop["timer"].todo # <<>> /\ loop["timer"].at = "find"
        /\ UNCHANGED <<queue, cursor, block, record, node, exposed>>
        /\ Instead("timer", t)
    BY DEF SweepUnits, IsAt, Frame
  <1>2. failed \in SUBSET Blocks
    BY DEF FindFailed
  <1> HIDE DEF failed
  <1>3. IsFiniteSet(failed)
    BY <1>2, FS_Subset DEF SyncAssumption
  <1>4. Cardinality(failed) \in Nat /\ ExistsBijection(1 .. Cardinality(failed), failed)
    BY <1>3, FS_CardinalityType
  <1>5. order \in [1 .. Cardinality(failed) -> failed]
    <2>1. PICK f \in [1 .. Cardinality(failed) -> failed] : IsInjective(f)
      BY <1>4 DEF ExistsBijection, Bijection, Injection, IsInjective
    <2> QED BY <2>1 DEF SetToSeq
  <1> HIDE DEF order
  <1>6. order \in Seq(Blocks)
    BY <1>2, <1>4, <1>5
  <1>7. \A i \in 1 .. 2 * Len(order) :
          /\ i % 2 = 1 => (i + 1) \div 2 \in 1 .. Len(order)
          /\ i % 2 # 1 => i \div 2 \in 1 .. Len(order)
    BY <1>6
  <1>8. \A i \in 1 .. 2 * Len(order) : tasks[i] \in TimerTask
    BY <1>6, <1>7, TasksTyped
  <1>9. tasks \in Seq(TimerTask)
    BY <1>6, <1>8
  <1> HIDE DEF tasks
  <1>10. t \in Seq(TimerTask)
    BY <1>9, TasksTyped
  <1> HIDE DEF t
  <1> QED BY <1>1, <1>10, Rearranged

LEMMA HealKeeps ==
    ASSUME SyncAssumption, IInv, NEW p \in Loops, Heal(p)
    PROVE  IInv'
  <1>1. /\ loop[p].todo # <<>> /\ loop[p].at = "find" /\ Head(loop[p].todo).op = "heal"
        /\ UNCHANGED <<queue, cursor, block, record, node, exposed>>
    BY DEF Heal, IsAt, Frame
  <1>2. CASE Instead(p, <<Task("ensure", "issuance")>>)
    <2>1. p = "timer"
      BY <1>1, LaneTasks DEF Loops
    <2>2. <<Task("ensure", "issuance")>> \in Seq(TimerTask)
      BY TasksTyped DEF Snapshots
    <2> QED BY <1>1, <1>2, <2>1, <2>2, Rearranged
  <1>3. CASE Done(p, FALSE, FALSE)
    <2>1. RecordsGoOn
      BY <1>1, Unmoved DEF IInv
    <2> QED BY <1>1, <1>3, <2>1, TaskDone
  <1> QED BY <1>2, <1>3 DEF Heal

-----------------------------------------------------------------------------
(* The rest *)

LEMMA RestartKeeps ==
    ASSUME SyncAssumption, IInv, Restart
    PROVE  IInv'
  <1>1. /\ loop' = [p \in Loops |-> Idle]
        /\ exposed' = exposed \cup {Key(p) : p \in {q \in Loops : loop[q].at = "mark"}}
        /\ UNCHANGED <<queue, cursor, block, record, rows, committed, confirmed>>
    BY DEF Restart, Frame, node
  <1>2. \A p \in Loops : loop[p].at = "mark" => Key(p) \in Keys
    BY FirstTask DEF IInv, Working, Writing
  <1>3. /\ exposed \subseteq exposed' /\ exposed' \subseteq Keys
        /\ \A p \in Loops : loop[p].at = "mark" => Key(p) \in exposed'
    BY <1>1, <1>2 DEF IInv, Typed
  <1>4. \A p \in Loops : loop'[p] = Idle
    BY <1>1
  <1>5. RecordsGoOn
    BY <1>1, Unmoved DEF IInv
  <1>6. OnNode'
    BY <1>1, <1>3 DEF IInv, OnNode, Numbered, RefersBack, CreatedOnce
  <1>7. Working' /\ NoneYet'
    BY <1>4, IdleTyped DEF Working, NoneYet, Writing
  <1>8. Known'
    BY <1>1, <1>3 DEF IInv, Known
  <1>9. LaneShape' /\ TimerShape'
    <2>1. <<>> \in Seq(TimerTask)
      OBVIOUS
    <2>2. loop'["lane"].todo = <<>> /\ loop'["timer"].todo = <<>>
      BY <1>4, IdleTyped DEF Loops
    <2> QED BY <2>1, <2>2 DEF LaneShape, TimerShape
  <1>10. Recorded' /\ NothingForgotten'
    BY <1>1, <1>5, StillRecorded, StillSeen
  <1>11. Typed'
    BY <1>1, <1>3, IdleTyped DEF IInv, Typed
  <1> QED BY <1>6, <1>7, <1>8, <1>9, <1>10, <1>11 DEF IInv

LEMMA EnqueueKeeps ==
    ASSUME SyncAssumption, IInv, NEW b \in Blocks, NEW op \in {"issue", "change"}, Enqueue(b, op)
    PROVE  IInv'
  <1>1. /\ block[b] < MaxVersion /\ block' = [block EXCEPT ![b] = @ + 1]
        /\ queue' = Append(queue, Task(op, b))
        /\ UNCHANGED <<cursor, record, rows, committed, confirmed, loop, exposed>>
    BY DEF Enqueue, node
  <1>2. Task(op, b) \in Action
    BY DEF Task, Action
  <1>3. /\ queue' \in Seq(Action) /\ Len(queue') = Len(queue) + 1
        /\ \A i \in DOMAIN queue : queue'[i] = queue[i] /\ i \in 1 .. Len(queue)
        /\ DOMAIN queue = 1 .. Len(queue) /\ Len(queue) \in Nat
    <2>1. queue \in Seq(Action)
      BY DEF IInv, Typed
    <2> QED BY <1>1, <1>2, <2>1, Appended
  <1>4. block' \in [Blocks -> 0 .. MaxVersion]
    <2>1. block[b] + 1 \in 0 .. MaxVersion
      BY <1>1 DEF IInv, Typed, SyncAssumption
    <2> QED BY <1>1, <2>1 DEF IInv, Typed
  <1>5. Typed'
    BY <1>1, <1>3, <1>4 DEF IInv, Typed
  <1>6. OnNode' /\ Recorded' /\ TimerShape'
    BY <1>1 DEF IInv, OnNode, Numbered, RefersBack, CreatedOnce, Recorded, Fine, SeenIn, Holds,
                TimerShape
  <1>7. Working' /\ NoneYet' /\ Known'
    BY <1>1 DEF IInv, Working, Writing, Grounded, Holds, Placed, Key, NoneYet, Known
  <1>8. LaneShape' /\ NothingForgotten'
    <2>1. cursor \in 0 .. Len(queue)
      BY DEF IInv, Typed
    <2>2. cursor < Len(queue) => queue'[cursor + 1] = queue[cursor + 1]
      BY <1>3, <2>1
    <2>3. \A i \in 1 .. cursor : queue'[i] = queue[i]
      BY <1>3, <2>1
    <2>4. LaneShape'
      BY <1>1, <1>3, <2>1, <2>2 DEF IInv, LaneShape, LaneHas, SeenIn
    <2> QED BY <1>1, <2>3, <2>4 DEF IInv, NothingForgotten
  <1> QED BY <1>5, <1>6, <1>7, <1>8 DEF IInv

LEMMA NothingMoves ==
    ASSUME IInv, UNCHANGED <<queue, cursor, block, record, rows, committed, loop, exposed>>,
           confirmed' \in 0 .. committed
    PROVE  IInv'
  <1>1. Typed'
    BY DEF IInv, Typed
  <1>2. OnNode' /\ Recorded' /\ TimerShape'
    BY DEF IInv, OnNode, Numbered, RefersBack, CreatedOnce, Recorded, Fine, SeenIn, Holds, TimerShape
  <1>3. Working' /\ NoneYet' /\ Known'
    BY DEF IInv, Working, Writing, Grounded, Holds, Placed, Key, NoneYet, Known
  <1>4. LaneShape' /\ NothingForgotten'
    BY DEF IInv, LaneShape, LaneHas, SeenIn, NothingForgotten
  <1> QED BY <1>1, <1>2, <1>3, <1>4 DEF IInv

LEMMA ConfirmKeeps ==
    ASSUME IInv, Confirm
    PROVE  IInv'
  <1>1. confirmed' \in 0 .. committed
    BY DEF Confirm, IInv, Typed
  <1> QED BY <1>1, NothingMoves DEF Confirm

LEMMA AdvanceKeeps ==
    ASSUME SyncAssumption, IInv, NEW p \in Loops, Advance(p)
    PROVE  IInv'
    BY EnsureKeeps, CreateUnitKeeps, UpdateUnitKeeps, HealKeeps, StageKeeps, StageFailsKeeps,
       NoteKeeps, CommitKeeps, CommitRowsKeeps DEF Advance

LEMMA StepKeeps ==
    ASSUME SyncAssumption, IInv, [SNext]_syncvars
    PROVE  IInv'
  <1>1. CASE UNCHANGED syncvars
    <2>1. confirmed' \in 0 .. committed
      BY <1>1 DEF syncvars, IInv, Typed
    <2> QED BY <1>1, <2>1, NothingMoves DEF syncvars
  <1>2. ASSUME NEW b \in Blocks, Issue(b) \/ Change(b)
        PROVE  IInv'
    BY <1>2, EnqueueKeeps DEF Issue, Change
  <1>3. CASE Lane
    BY <1>3, TakeKeeps, AdvanceKeeps, SaveCursorKeeps DEF Lane, Loops
  <1>4. CASE Timer
    BY <1>4, TickKeeps, AdvanceKeeps, SweepSnapshotsKeeps, SweepUnitsKeeps DEF Timer, Loops
  <1>5. CASE Confirm \/ Restart
    BY <1>5, ConfirmKeeps, RestartKeeps
  <1> QED BY <1>1, <1>2, <1>3, <1>4, <1>5 DEF SNext

LEMMA Beginning ==
    ASSUME SyncAssumption, SInit
    PROVE  IInv
  <1>1. queue \in Seq(Action) /\ Len(queue) = 1
    BY DEF SInit, Task, Action
  <1>2. rows = <<>> /\ DOMAIN rows = {} /\ Len(rows) = 0 /\ cursor = 0 /\ exposed = {}
    BY DEF SInit
  <1>3. \A p \in Loops : loop[p] = Idle
    BY DEF SInit
  <1>4. \A k \in Keys : record[k].status = "NONE" /\ record[k].id = 0
    BY DEF SInit
  <1>5. Typed
    <2>1. record \in [Keys -> SyncRecord]
      BY DEF SInit, SyncRecord, Status, SyncAssumption
    <2>2. loop \in [Loops -> LoopState]
      BY IdleTyped DEF SInit
    <2>3. block \in [Blocks -> 0 .. MaxVersion]
      BY DEF SInit, SyncAssumption
    <2> QED BY <1>1, <1>2, <2>1, <2>2, <2>3 DEF SInit, Typed
  <1>6. OnNode /\ Known /\ NothingForgotten
    BY <1>2 DEF OnNode, Numbered, RefersBack, CreatedOnce, Known, NothingForgotten
  <1>7. Recorded
    BY <1>4 DEF Recorded, Fine
  <1>8. Working /\ NoneYet
    BY <1>3, IdleTyped DEF Working, NoneYet, Writing
  <1>9. LaneShape /\ TimerShape
    <2>1. <<>> \in Seq(TimerTask)
      OBVIOUS
    <2>2. loop["lane"].todo = <<>> /\ loop["timer"].todo = <<>>
      BY <1>3, IdleTyped DEF Loops
    <2> QED BY <2>1, <2>2 DEF LaneShape, TimerShape
  <1> QED BY <1>5, <1>6, <1>7, <1>8, <1>9 DEF IInv

LEMMA Always == SyncSpec => []IInv
  <1>1. SInit => IInv
    BY Beginning, SyncAssumption
  <1>2. IInv /\ [SNext]_syncvars => IInv'
    BY StepKeeps, SyncAssumption
  <1> QED BY <1>1, <1>2, PTL DEF SyncSpec

-----------------------------------------------------------------------------
(* The theorems *)

\* Every field holds a value of its kind, and every row on the node refers to rows
\* staged before it, however the two loops interleave, fail and restart.
THEOREM SyncTypeCorrect == SyncSpec => []STypeOK
  <1>1. IInv => STypeOK
    <2> SUFFICES ASSUME IInv PROVE STypeOK
      OBVIOUS
    <2>1. record \in [Keys -> [status : Status, id : 0 .. Len(rows), attempts : 0 .. MaxAttempts]]
      <3>1. ASSUME NEW k \in Keys
            PROVE  record[k] \in [status : Status, id : 0 .. Len(rows), attempts : 0 .. MaxAttempts]
        <4>1. record[k] \in SyncRecord /\ (record[k].id # 0 => Holds(k, record[k].id))
          BY DEF IInv, Typed, Recorded, Fine
        <4>2. record[k].id \in 0 .. Len(rows)
          BY <4>1 DEF Holds, IInv, Typed, OnNode, Numbered, SyncRecord
        <4> QED BY <4>1, <4>2 DEF SyncRecord
      <3> QED BY <3>1 DEF IInv, Typed
    <2>2. \A i \in DOMAIN rows : rows[i].key \in Keys /\ rows[i].id \in 1 .. i
      <3>1. \A i \in DOMAIN rows : rows[i] \in NodeRow
        BY DEF IInv, Typed
      <3> QED BY <3>1 DEF NodeRow, IInv, OnNode, Numbered
    <2>3. \A p \in Loops : loop[p].at \in {"find", "stage", "mark", "succeeded", "failed"}
      BY DEF IInv, Typed, LoopState
    <2> QED BY <2>1, <2>2, <2>3 DEF STypeOK, Status, IInv, Typed, OnNode
  <1> QED BY <1>1, Always, PTL

\* Whatever fails, and whenever the process restarts: the record of every action
\* the lane has passed is staged or committed, or failed where the sweeps find it.
THEOREM EveryActionLeavesATrace == SyncSpec => []NothingForgotten
  <1>1. IInv => NothingForgotten
    BY DEF IInv
  <1> QED BY <1>1, Always, PTL

\* No record is created twice on the node but for the causes that exposed names,
\* for any number of failed commits and of records the two loops work on.
THEOREM RecordsCreatedOnce == SyncSpec => []CreatedOnce
  <1>1. IInv => CreatedOnce
    BY DEF IInv, OnNode
  <1> QED BY <1>1, Always, PTL
=============================================================================
