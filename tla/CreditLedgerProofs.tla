------------------------- MODULE CreditLedgerProofs -------------------------
(***************************************************************************)
(* The invariants of CreditLedger, for every set of companies, estimate,   *)
(* set of verification reports and bound on requests.                      *)
(*                                                                         *)
(* The first part is about the operators of CreditBlocks alone: what an    *)
(* operation on a block preserves, and what replacing, splitting or adding *)
(* blocks does to a table that partitions the serial numbers.              *)
(*                                                                         *)
(* IInv is the inductive invariant.  The partition of the serial numbers   *)
(* is not inductive alone: a split keeps it only because a request in the  *)
(* records of a block never asks for more than the block reserves, which   *)
(* is SoundBlock.  The estimate is not inductive alone: the issuance does  *)
(* not check it, the report on file was checked when it was uploaded.      *)
(*                                                                         *)
(* RequestsOnFile is the second: every record of a block is the request of *)
(* that id, a pending one awaits its decision on the block it names, and a *)
(* block is retired or authorized as a request says.  It needs IInv.       *)
(***************************************************************************)
EXTENDS CreditLedger, FiniteSetTheorems, WellFoundedInduction, TLAPS

-----------------------------------------------------------------------------
(* Sound blocks *)

Monotone(cum, n) == \A i, j \in 0 .. n : i <= j => cum[i] <= cum[j]

Reservations(b) ==
    \E cum \in [0 .. Len(b.records) -> 0 .. b.reserved] :
        /\ RunningTotal(b.records, cum)
        /\ cum[Len(b.records)] = b.reserved
        /\ Monotone(cum, Len(b.records))

SoundBlock(b) ==
    /\ b \in CreditBlock
    /\ b.reserved <= b.amount
    /\ Reservations(b)
    /\ b.itmoEnd = 0 \/ b.itmoEnd >= b.end
    /\ \A k \in DOMAIN b.records : b.records[k].status = "Pending" => b.records[k].amount > 0
    /\ b.owner = NoCompany => b.reserved = 0

LEMMA RecordFields ==
    ASSUME NEW b \in CreditBlock, NEW k \in DOMAIN b.records
    PROVE  /\ b.records[k] \in TransactionRecord
           /\ k \in 1 .. Len(b.records)
           /\ Len(b.records) \in Nat
  BY DEF CreditBlock

\* What is pending is reserved.
LEMMA PendingIsReserved ==
    ASSUME NEW b, SoundBlock(b), NEW k \in DOMAIN b.records,
           b.records[k].status = "Pending"
    PROVE  b.records[k].amount \in 1 .. b.reserved
  <1>1. PICK cum \in [0 .. Len(b.records) -> 0 .. b.reserved] :
            RunningTotal(b.records, cum)
    BY DEF SoundBlock, Reservations
  <1>2. /\ b.records[k] \in TransactionRecord
        /\ k \in 1 .. Len(b.records)
        /\ Len(b.records) \in Nat
    BY RecordFields DEF SoundBlock
  <1>3. cum[k] \in 0 .. b.reserved /\ cum[k - 1] \in 0 .. b.reserved
    BY <1>2
  <1>4. cum[k] = cum[k - 1] + b.records[k].amount
    BY <1>1 DEF RunningTotal, PendingAmount
  <1>5. b.records[k].amount \in Nat /\ b.reserved \in Nat
    BY <1>2 DEF SoundBlock, TransactionRecord, CreditBlock
  <1>6. b.records[k].amount > 0
    BY DEF SoundBlock
  <1> QED BY <1>3, <1>4, <1>5, <1>6

\* Two pending requests of one block are reserved side by side.
LEMMA PendingAddUp ==
    ASSUME NEW b, SoundBlock(b), NEW j \in DOMAIN b.records, NEW k \in DOMAIN b.records,
           j < k, b.records[j].status = "Pending", b.records[k].status = "Pending"
    PROVE  b.records[j].amount + b.records[k].amount <= b.reserved
  <1>1. PICK cum \in [0 .. Len(b.records) -> 0 .. b.reserved] :
            RunningTotal(b.records, cum) /\ Monotone(cum, Len(b.records))
    BY DEF SoundBlock, Reservations
  <1>2. /\ b.records[k] \in TransactionRecord /\ b.records[j] \in TransactionRecord
        /\ k \in 1 .. Len(b.records) /\ j \in 1 .. Len(b.records)
        /\ Len(b.records) \in Nat
    BY RecordFields DEF SoundBlock
  <1>3. /\ cum[k] \in 0 .. b.reserved /\ cum[k - 1] \in 0 .. b.reserved
        /\ cum[j] \in 0 .. b.reserved /\ cum[j - 1] \in 0 .. b.reserved
    BY <1>2
  <1>4. /\ cum[k] = cum[k - 1] + b.records[k].amount
        /\ cum[j] = cum[j - 1] + b.records[j].amount
    BY <1>1 DEF RunningTotal, PendingAmount
  <1>5. cum[j] <= cum[k - 1]
    BY <1>1, <1>2 DEF Monotone
  <1>6. /\ b.records[k].amount \in Nat /\ b.records[j].amount \in Nat
        /\ b.reserved \in Nat
    BY <1>2 DEF SoundBlock, TransactionRecord, CreditBlock
  <1>7. b.records[j].amount <= cum[j]
    BY <1>3, <1>4, <1>6
  <1>8. cum[k - 1] + b.records[k].amount <= b.reserved
    BY <1>3, <1>4
  <1> DEFINE p == b.records[j].amount
             q == b.records[k].amount
             x == cum[j]
             y == cum[k - 1]
             all == b.reserved
  <1>9. /\ p \in Int /\ q \in Int /\ x \in Int /\ y \in Int /\ all \in Int
        /\ p <= x /\ x <= y /\ y + q <= all
    BY <1>3, <1>5, <1>6, <1>7, <1>8
  <1> HIDE DEF p, q, x, y, all
  <1>10. p + q <= all
    BY <1>9
  <1> QED BY <1>10 DEF p, q, all

LEMMA BlockFields ==
    ASSUME NEW b \in CreditBlock
    PROVE  /\ b.end \in Nat /\ b.amount \in Nat /\ b.reserved \in Nat
           /\ b.owner \in Companies /\ b.itmo \in Nat /\ b.itmoEnd \in Nat
           /\ b.isNotTransferred \in BOOLEAN /\ b.account \in AccountType
           /\ b.records \in Seq(TransactionRecord)
  BY DEF CreditBlock

\* Deciding a request releases its reservation and touches nothing else.
LEMMA SettledFields ==
    ASSUME NEW b \in CreditBlock, NEW k \in DOMAIN b.records, NEW status \in TxStatus,
           b.records[k].amount \in 0 .. b.reserved,
           NEW c, c = Settled(b, k, status)
    PROVE  /\ c \in CreditBlock
           /\ c.reserved = b.reserved - b.records[k].amount
           /\ c.end = b.end /\ c.amount = b.amount /\ c.owner = b.owner
           /\ c.itmo = b.itmo /\ c.itmoEnd = b.itmoEnd
           /\ c.isNotTransferred = b.isNotTransferred /\ c.account = b.account
           /\ Len(c.records) = Len(b.records) /\ DOMAIN c.records = DOMAIN b.records
           /\ \A i \in DOMAIN b.records : i # k => c.records[i] = b.records[i]
           /\ c.records[k] \in TransactionRecord
           /\ c.records[k].status = status
           /\ c.records[k].id = b.records[k].id
           /\ c.records[k].amount = b.records[k].amount
           /\ c.records[k].type = b.records[k].type
  <1> DEFINE r == [b.records[k] EXCEPT !.status = status]
             rs == [b.records EXCEPT ![k] = r]
  <1>1. b.records[k] \in TransactionRecord /\ k \in 1 .. Len(b.records)
    BY RecordFields
  <1>2. r \in TransactionRecord /\ r.status = status /\ r.id = b.records[k].id
        /\ r.amount = b.records[k].amount /\ r.type = b.records[k].type
    BY <1>1 DEF TransactionRecord
  <1>3. b.records \in Seq(TransactionRecord)
    BY BlockFields
  <1>4. /\ rs \in Seq(TransactionRecord) /\ Len(rs) = Len(b.records)
        /\ DOMAIN rs = DOMAIN b.records
        /\ rs[k] = r
        /\ \A i \in DOMAIN b.records : i # k => rs[i] = b.records[i]
    <2> HIDE DEF r
    <2> QED BY <1>1, <1>2, <1>3
  <1>5. c = [b EXCEPT !.reserved = b.reserved - b.records[k].amount, !.records = rs]
    BY DEF Settled
  <1>6. b.reserved - b.records[k].amount \in Nat
    BY BlockFields
  <1>7. /\ c \in CreditBlock
        /\ c.reserved = b.reserved - b.records[k].amount
        /\ c.end = b.end /\ c.amount = b.amount /\ c.owner = b.owner
        /\ c.itmo = b.itmo /\ c.itmoEnd = b.itmoEnd
        /\ c.isNotTransferred = b.isNotTransferred /\ c.account = b.account
        /\ c.records = rs
    <2> HIDE DEF rs
    <2> QED BY <1>4, <1>5, <1>6 DEF CreditBlock
  <1> HIDE DEF rs
  <1> QED BY <1>1, <1>2, <1>4, <1>7 DEF r

LEMMA SettledSound ==
    ASSUME NEW b, SoundBlock(b), NEW k \in DOMAIN b.records,
           b.records[k].status = "Pending", NEW status \in TxStatus \ {"Pending"}
    PROVE  SoundBlock(Settled(b, k, status))
  <1> DEFINE c == Settled(b, k, status)
             n == Len(b.records)
             a == b.records[k].amount
  <1>1. b \in CreditBlock /\ n \in Nat /\ k \in 1 .. n /\ DOMAIN b.records = 1 .. n
    BY RecordFields DEF SoundBlock, CreditBlock
  <1>2. a \in 1 .. b.reserved
    BY PendingIsReserved
  <1>3. /\ c \in CreditBlock
        /\ c.reserved = b.reserved - a
        /\ c.end = b.end /\ c.amount = b.amount /\ c.owner = b.owner
        /\ c.itmoEnd = b.itmoEnd
        /\ Len(c.records) = n /\ DOMAIN c.records = 1 .. n
        /\ \A i \in 1 .. n : i # k => c.records[i] = b.records[i]
        /\ c.records[k].status = status
    <2>1. status \in TxStatus /\ a \in 0 .. b.reserved
      BY <1>2, BlockFields, <1>1
    <2>2. c = Settled(b, k, status)
      OBVIOUS
    <2> HIDE DEF c
    <2>3. /\ c \in CreditBlock
          /\ c.reserved = b.reserved - b.records[k].amount
          /\ c.end = b.end /\ c.amount = b.amount /\ c.owner = b.owner
          /\ c.itmoEnd = b.itmoEnd
          /\ Len(c.records) = Len(b.records) /\ DOMAIN c.records = DOMAIN b.records
          /\ \A i \in DOMAIN b.records : i # k => c.records[i] = b.records[i]
          /\ c.records[k].status = status
      BY <1>1, <2>1, <2>2, SettledFields
    <2> QED BY <1>1, <2>3
  <1>4. b.reserved \in Nat /\ b.amount \in Nat
    BY <1>1, BlockFields
  <1>5. PICK cum \in [0 .. n -> 0 .. b.reserved] :
            /\ RunningTotal(b.records, cum)
            /\ cum[n] = b.reserved
            /\ Monotone(cum, n)
    BY DEF SoundBlock, Reservations
  <1>6. cum[k] = cum[k - 1] + a
    BY <1>1, <1>5 DEF RunningTotal, PendingAmount
  <1> DEFINE new == [i \in 0 .. n |-> IF i < k THEN cum[i] ELSE cum[i] - a]
  <1>7. Reservations(c)
    <2>1. \A i \in 0 .. n : i < k => cum[i] \in 0 .. (b.reserved - a)
      <3>1. TAKE i \in 0 .. n
      <3>2. HAVE i < k
      <3>3. k - 1 \in 0 .. n /\ i <= k - 1
        BY <1>1, <3>2
      <3>4. cum[i] <= cum[k - 1]
        BY <1>5, <3>3 DEF Monotone
      <3>5. cum[k] \in 0 .. b.reserved /\ cum[k - 1] \in 0 .. b.reserved /\ cum[i] \in 0 .. b.reserved
        BY <1>1, <3>3
      <3> DEFINE x == cum[i]
                 y == cum[k - 1]
                 all == b.reserved
      <3>6. /\ x \in Nat /\ y \in Nat /\ a \in Nat /\ all \in Nat
            /\ x <= y /\ y + a <= all
        BY <3>4, <3>5, <1>2, <1>4, <1>6
      <3> HIDE DEF x, y, all, a
      <3>7. x \in 0 .. (all - a)
        BY <3>6
      <3> QED BY <3>7 DEF x, all
    <2>2. \A i \in 0 .. n : ~(i < k) => cum[i] - a \in 0 .. (b.reserved - a)
      <3>1. TAKE i \in 0 .. n
      <3>2. HAVE ~(i < k)
      <3>3. cum[k] <= cum[i]
        BY <1>1, <1>5, <3>2 DEF Monotone
      <3>4. cum[k] \in 0 .. b.reserved /\ cum[i] \in 0 .. b.reserved
        BY <1>1
      <3>5. k - 1 \in 0 .. n
        BY <1>1
      <3>6. cum[k - 1] \in 0 .. b.reserved
        BY <3>5
      <3> DEFINE x == cum[i]
                 all == b.reserved
      <3>7. x \in Nat /\ a \in Nat /\ all \in Nat /\ a <= x /\ x <= all
        BY <3>3, <3>4, <3>6, <1>2, <1>4, <1>6
      <3> HIDE DEF x, all, a
      <3>8. x - a \in 0 .. (all - a)
        BY <3>7
      <3> QED BY <3>8 DEF x, all
    <2>3. new \in [0 .. n -> 0 .. c.reserved]
      BY <2>1, <2>2, <1>3
    <2>4. RunningTotal(c.records, new)
      <3>1. new[0] = 0
        BY <1>1, <1>5 DEF RunningTotal
      <3>2. ASSUME NEW i \in 1 .. n
            PROVE  new[i] = new[i - 1] + PendingAmount(c.records[i])
        <4>1. i - 1 \in 0 .. n /\ i \in 0 .. n
          BY <1>1
        <4>2. cum[i] = cum[i - 1] + PendingAmount(b.records[i])
          BY <1>1, <1>5 DEF RunningTotal
        <4>3. cum[i] \in Int /\ cum[i - 1] \in Int /\ a \in Int
          BY <4>1, <1>2, <1>4
        <4>4. CASE i < k
          BY <4>1, <4>2, <4>4, <1>1, <1>3
        <4>5. CASE i = k
          <5>1. PendingAmount(c.records[i]) = 0
            BY <4>5, <1>3 DEF PendingAmount
          <5>2. new[i] = cum[k] - a /\ new[i - 1] = cum[k - 1]
            BY <4>1, <4>5, <1>1
          <5> QED BY <5>1, <5>2, <1>6, <4>3, <4>5
        <4>6. CASE k < i
          <5>1. PendingAmount(c.records[i]) = PendingAmount(b.records[i])
            BY <4>6, <1>3, <1>1
          <5>2. new[i] = cum[i] - a /\ new[i - 1] = cum[i - 1] - a
            BY <4>1, <4>6, <1>1
          <5>3. PendingAmount(b.records[i]) \in Int
            BY <1>1, RecordFields DEF PendingAmount, TransactionRecord
          <5> HIDE DEF new, a
          <5> QED BY <5>1, <5>2, <5>3, <4>2, <4>3
        <4> QED BY <4>4, <4>5, <4>6, <1>1
      <3> QED BY <3>1, <3>2, <1>3 DEF RunningTotal
    <2>5. new[n] = c.reserved
      BY <1>1, <1>3, <1>5
    <2>6. Monotone(new, n)
      <3>1. SUFFICES ASSUME NEW i \in 0 .. n, NEW j \in 0 .. n, i <= j
                     PROVE  new[i] <= new[j]
        BY DEF Monotone
      <3>2. cum[i] <= cum[j] /\ cum[i] \in Int /\ cum[j] \in Int /\ a \in Int
        BY <3>1, <1>2, <1>4, <1>5 DEF Monotone
      <3>3. CASE j < k
        BY <3>1, <3>2, <3>3, <1>1
      <3>4. CASE ~(i < k)
        BY <3>1, <3>2, <3>4, <1>1
      <3>5. CASE i < k /\ ~(j < k)
        <4>1. new[i] = cum[i] /\ new[j] = cum[j] - a
          BY <3>5
        <4>2. cum[i] <= cum[k - 1] /\ cum[k] <= cum[j]
          BY <3>5, <1>1, <1>5 DEF Monotone
        <4>3. k - 1 \in 0 .. n
          BY <1>1
        <4>4. cum[k - 1] \in Int /\ cum[k] \in Int
          BY <4>3, <1>1, <1>4
        <4> HIDE DEF new, a
        <4> QED BY <4>1, <4>2, <4>4, <3>2, <1>6
      <3> QED BY <3>3, <3>4, <3>5, <1>1
    <2> HIDE DEF new, c
    <2> QED BY <2>3, <2>4, <2>5, <2>6, <1>3 DEF Reservations
  <1>8. \A i \in DOMAIN c.records : c.records[i].status = "Pending" => c.records[i].amount > 0
    <2> HIDE DEF c
    <2> QED BY <1>1, <1>3 DEF SoundBlock
  <1>9. c.reserved <= c.amount /\ (c.itmoEnd = 0 \/ c.itmoEnd >= c.end)
    <2>1. b.reserved <= b.amount /\ (b.itmoEnd = 0 \/ b.itmoEnd >= b.end)
      BY DEF SoundBlock
    <2> HIDE DEF c, a
    <2> QED BY <2>1, <1>2, <1>3, <1>4
  <1>10. c.owner = NoCompany => c.reserved = 0
    <2>1. b.owner = NoCompany => b.reserved = 0
      BY DEF SoundBlock
    <2> HIDE DEF c, a
    <2> QED BY <2>1, <1>2, <1>3, <1>4
  <1> HIDE DEF c
  <1> QED BY <1>3, <1>7, <1>8, <1>9, <1>10 DEF SoundBlock, c

LEMMA SameReservationsSound ==
    ASSUME NEW b, SoundBlock(b), NEW c \in CreditBlock,
           c.records = b.records, c.reserved = b.reserved,
           c.reserved <= c.amount, c.itmoEnd = 0 \/ c.itmoEnd >= c.end,
           c.owner = NoCompany => c.reserved = 0
    PROVE  SoundBlock(c)
  BY DEF SoundBlock, Reservations

\* A block none of whose requests is pending.
LEMMA DecidedSound ==
    ASSUME NEW c \in CreditBlock, c.reserved = 0,
           \A k \in DOMAIN c.records : c.records[k].status # "Pending",
           c.itmoEnd = 0 \/ c.itmoEnd >= c.end
    PROVE  SoundBlock(c)
  <1>1. Len(c.records) \in Nat /\ DOMAIN c.records = 1 .. Len(c.records) /\ c.amount \in Nat
    BY BlockFields
  <1> DEFINE zero == [i \in 0 .. Len(c.records) |-> 0]
  <1>2. /\ zero \in [0 .. Len(c.records) -> 0 .. c.reserved]
        /\ zero[Len(c.records)] = c.reserved
        /\ Monotone(zero, Len(c.records))
    BY <1>1 DEF Monotone
  <1>3. RunningTotal(c.records, zero)
    <2>1. \A k \in 1 .. Len(c.records) : PendingAmount(c.records[k]) = 0
      BY <1>1 DEF PendingAmount
    <2> QED BY <1>1, <2>1 DEF RunningTotal
  <1>4. Reservations(c)
    <2> HIDE DEF zero
    <2> QED BY <1>2, <1>3 DEF Reservations
  <1> QED BY <1>1, <1>4 DEF SoundBlock

LEMMA WithRequestSound ==
    ASSUME NEW b, SoundBlock(b), b.owner # NoCompany,
           NEW id \in Nat, NEW kind \in TxKind, NEW n \in 1 .. Unassigned(b),
           NEW c, c = WithRequest(b, id, kind, n)
    PROVE  /\ SoundBlock(c)
           /\ c.end = b.end /\ c.amount = b.amount
           /\ c.owner = b.owner
  <1> DEFINE r == [id |-> id, type |-> kind, status |-> "Pending", amount |-> n]
             m == Len(b.records)
             rs == Append(b.records, r)
  <1>1. /\ b \in CreditBlock /\ b.records \in Seq(TransactionRecord)
        /\ m \in Nat /\ DOMAIN b.records = 1 .. m
        /\ b.reserved \in Nat /\ b.amount \in Nat
    BY BlockFields DEF SoundBlock
  <1>2. n \in Nat /\ n > 0 /\ b.reserved + n <= b.amount
    BY <1>1 DEF Unassigned
  <1>3. r \in TransactionRecord
    BY <1>2 DEF TransactionRecord, TxStatus
  <1>4. /\ rs \in Seq(TransactionRecord) /\ Len(rs) = m + 1 /\ DOMAIN rs = 1 .. m + 1
        /\ \A i \in 1 .. m : rs[i] = b.records[i]
        /\ rs[m + 1] = r
    <2> HIDE DEF r
    <2> QED BY <1>1, <1>3
  <1>5. /\ c \in CreditBlock /\ c.records = rs /\ c.reserved = b.reserved + n
        /\ c.end = b.end /\ c.amount = b.amount /\ c.owner = b.owner
        /\ c.itmoEnd = b.itmoEnd
    <2>1. c = [b EXCEPT !.reserved = b.reserved + n, !.records = rs]
      BY DEF WithRequest
    <2>2. b.reserved + n \in Nat /\ rs \in Seq(TransactionRecord) /\ b \in CreditBlock
      BY <1>1, <1>2, <1>4
    <2> HIDE DEF rs
    <2> QED BY <2>1, <2>2 DEF CreditBlock
  <1>6. PICK cum \in [0 .. m -> 0 .. b.reserved] :
            /\ RunningTotal(b.records, cum)
            /\ cum[m] = b.reserved
            /\ Monotone(cum, m)
    BY DEF SoundBlock, Reservations
  <1> DEFINE new == [i \in 0 .. m + 1 |-> IF i <= m THEN cum[i] ELSE b.reserved + n]
  <1>7. Reservations(c)
    <2>1. new \in [0 .. m + 1 -> 0 .. b.reserved + n]
      <3>1. \A i \in 0 .. m + 1 : i <= m => cum[i] \in 0 .. b.reserved + n
        <4>1. TAKE i \in 0 .. m + 1
        <4>2. HAVE i <= m
        <4>3. cum[i] \in 0 .. b.reserved
          BY <4>2, <1>1
        <4> QED BY <4>3, <1>1, <1>2
      <3> QED BY <3>1, <1>1, <1>2
    <2>2. RunningTotal(rs, new)
      <3>1. new[0] = 0
        BY <1>1, <1>6 DEF RunningTotal
      <3>2. ASSUME NEW i \in 1 .. m + 1
            PROVE  new[i] = new[i - 1] + PendingAmount(rs[i])
        <4>1. CASE i <= m
          <5>0. i \in DOMAIN b.records
            BY <4>1, <1>1
          <5>1. cum[i] = cum[i - 1] + PendingAmount(b.records[i])
            BY <5>0, <1>6 DEF RunningTotal
          <5>2. new[i] = cum[i] /\ new[i - 1] = cum[i - 1]
            BY <4>1, <1>1
          <5> QED BY <5>1, <5>2, <4>1, <1>4
        <4>2. CASE i = m + 1
          <5>1. PendingAmount(rs[i]) = n
            BY <4>2, <1>4 DEF PendingAmount
          <5>2. new[i] = b.reserved + n /\ new[i - 1] = b.reserved
            BY <4>2, <1>1, <1>6
          <5> QED BY <5>1, <5>2
        <4> QED BY <4>1, <4>2, <1>1
      <3> QED BY <3>1, <3>2, <1>4 DEF RunningTotal
    <2>3. new[m + 1] = b.reserved + n
      BY <1>1
    <2>4. Monotone(new, m + 1)
      <3>1. SUFFICES ASSUME NEW i \in 0 .. m + 1, NEW j \in 0 .. m + 1, i <= j
                     PROVE  new[i] <= new[j]
        BY DEF Monotone
      <3>2. CASE j <= m
        <4>1. i \in 0 .. m /\ j \in 0 .. m
          BY <3>1, <3>2, <1>1
        <4>2. new[i] = cum[i] /\ new[j] = cum[j]
          BY <4>1
        <4> QED BY <4>1, <4>2, <3>1, <1>6 DEF Monotone
      <3>3. CASE j = m + 1
        <4>1. new[i] \in 0 .. b.reserved + n
          BY <2>1
        <4>2. new[j] = b.reserved + n
          BY <3>3, <1>1
        <4> QED BY <4>1, <4>2, <1>1, <1>2
      <3> QED BY <3>2, <3>3, <1>1
    <2> HIDE DEF new, rs
    <2> QED BY <2>1, <2>2, <2>3, <2>4, <1>4, <1>5 DEF Reservations
  <1>8. \A i \in DOMAIN c.records : c.records[i].status = "Pending" => c.records[i].amount > 0
    <2>1. \A i \in 1 .. m : rs[i].status = "Pending" => rs[i].amount > 0
      BY <1>1, <1>4 DEF SoundBlock
    <2>2. rs[m + 1].amount > 0
      BY <1>2, <1>4
    <2> HIDE DEF rs
    <2> QED BY <2>1, <2>2, <1>1, <1>4, <1>5
  <1>9. c.reserved <= c.amount /\ (c.itmoEnd = 0 \/ c.itmoEnd >= c.end)
    BY <1>2, <1>5 DEF SoundBlock
  <1> HIDE DEF rs
  <1> QED BY <1>5, <1>7, <1>8, <1>9 DEF SoundBlock

LEMMA RetainedSound ==
    ASSUME NEW b, SoundBlock(b), NEW n \in Nat, n <= Unassigned(b), n <= b.end,
           NEW c, c = Retained(b, n)
    PROVE  /\ SoundBlock(c)
           /\ c.end = b.end - n /\ c.amount = b.amount - n
           /\ c.owner = b.owner
  <1>1. b \in CreditBlock /\ b.end - n \in Nat /\ b.amount - n \in Nat
        /\ b.reserved <= b.amount - n
    BY BlockFields DEF SoundBlock, Unassigned
  <1>2. c = [b EXCEPT !.end = b.end - n, !.amount = b.amount - n]
    BY DEF Retained
  <1>3. /\ c \in CreditBlock /\ c.end = b.end - n /\ c.amount = b.amount - n
        /\ c.owner = b.owner /\ c.records = b.records /\ c.reserved = b.reserved
        /\ c.itmoEnd = b.itmoEnd
    BY <1>1, <1>2 DEF CreditBlock
  <1>4. c.itmoEnd = 0 \/ c.itmoEnd >= c.end
    <2>1. b.itmoEnd \in Nat /\ b.end \in Nat
      BY <1>1, BlockFields
    <2> QED BY <2>1, <1>3 DEF SoundBlock
  <1>5. c.reserved <= c.amount
    BY <1>1, <1>3
  <1>6. c.owner = NoCompany => c.reserved = 0
    BY <1>3 DEF SoundBlock
  <1> QED BY <1>3, <1>4, <1>5, <1>6, SameReservationsSound

LEMMA NewBlockSound ==
    ASSUME NEW first \in Nat \ {0}, NEW last \in Nat, first <= last,
           NEW company \in Developers, NEW c, c = NewBlock(first, last, company)
    PROVE  /\ SoundBlock(c)
           /\ c.end = last /\ c.amount = last - first + 1
           /\ c.owner = company
  <1>1. <<>> \in Seq(TransactionRecord) /\ last - first + 1 \in Nat
    OBVIOUS
  <1>2. /\ c \in CreditBlock /\ c.reserved = 0 /\ c.records = <<>> /\ c.itmoEnd = 0
        /\ c.end = last /\ c.amount = last - first + 1 /\ c.owner = company
    BY <1>1 DEF NewBlock, CreditBlock, Companies, AccountType
  <1>3. DOMAIN c.records = {}
    BY <1>2
  <1> QED BY <1>2, <1>3, DecidedSound

LEMMA TransferredWholeSound ==
    ASSUME NEW b, SoundBlock(b), NEW to \in Developers,
           NEW c, c = TransferredWhole(b, to)
    PROVE  SoundBlock(c) /\ c.end = b.end /\ c.amount = b.amount
  <1>1. b \in CreditBlock /\ to \in Companies /\ to # NoCompany
    BY CompanyAssumption DEF SoundBlock, Companies
  <1>2. /\ c \in CreditBlock /\ c.records = b.records /\ c.reserved = b.reserved
        /\ c.amount = b.amount /\ c.end = b.end /\ c.itmoEnd = b.itmoEnd /\ c.owner = to
    BY <1>1 DEF TransferredWhole, CreditBlock
  <1> QED BY <1>1, <1>2, SameReservationsSound DEF SoundBlock

LEMMA TransferredPartSound ==
    ASSUME NEW b, SoundBlock(b), NEW n \in Nat, NEW to \in Developers,
           NEW c, c = TransferredPart(b, n, to)
    PROVE  SoundBlock(c) /\ c.end = b.end /\ c.amount = n
  <1>1. b.end \in Nat /\ b.itmo \in Nat /\ <<>> \in Seq(TransactionRecord)
    BY BlockFields DEF SoundBlock
  <1>2. /\ c \in CreditBlock /\ c.reserved = 0 /\ c.records = <<>>
        /\ c.end = b.end /\ c.amount = n /\ c.itmoEnd = 0
    BY <1>1 DEF TransferredPart, CreditBlock, Companies, AccountType
  <1>3. DOMAIN c.records = {}
    BY <1>2
  <1> QED BY <1>2, <1>3, DecidedSound

LEMMA CompletedRecord ==
    ASSUME NEW r \in TransactionRecord, NEW kind \in TxKind
    PROVE  /\ Completed(r, kind) \in Seq(TransactionRecord)
           /\ \A i \in DOMAIN Completed(r, kind) : Completed(r, kind)[i].status # "Pending"
  <1> DEFINE e == [id |-> r.id, type |-> kind, status |-> "Completed", amount |-> r.amount]
  <1>1. e \in TransactionRecord /\ e.status # "Pending"
    BY DEF TransactionRecord, TxStatus
  <1> HIDE DEF e
  <1>2. <<e>> \in Seq(TransactionRecord) /\ \A i \in DOMAIN <<e>> : <<e>>[i].status # "Pending"
    BY <1>1
  <1>3. Completed(r, kind) = <<e>>
    BY DEF Completed, e
  <1> QED BY <1>2, <1>3

\* The part of a block that a decision splits off.
LEMMA RetiredPartSound ==
    ASSUME NEW b, SoundBlock(b), NEW k \in DOMAIN b.records, NEW account \in AccountType,
           NEW c, c = RetiredPart(b, k, account)
    PROVE  SoundBlock(c) /\ c.end = b.end /\ c.amount = b.records[k].amount
  <1> DEFINE rs == Completed(b.records[k], "Retired")
  <1>1. b \in CreditBlock /\ b.records[k] \in TransactionRecord
    BY RecordFields DEF SoundBlock
  <1>2. b.end \in Nat /\ b.itmo \in Nat /\ b.itmoEnd \in Nat /\ b.records[k].amount \in Nat
    BY <1>1, BlockFields DEF TransactionRecord
  <1>3. rs \in Seq(TransactionRecord) /\ \A i \in DOMAIN rs : rs[i].status # "Pending"
    <2>1. "Retired" \in TxKind
      BY DEF TxKind
    <2> QED BY <1>1, <2>1, CompletedRecord
  <1> HIDE DEF rs
  <1>4. /\ c \in CreditBlock /\ c.reserved = 0 /\ c.records = rs
        /\ c.end = b.end /\ c.amount = b.records[k].amount /\ c.itmoEnd = b.itmoEnd
    <2>1. c = [end |-> b.end, amount |-> b.records[k].amount, reserved |-> 0,
               owner |-> NoCompany, itmo |-> b.itmo, itmoEnd |-> b.itmoEnd,
               isNotTransferred |-> FALSE, account |-> account, records |-> rs]
      BY DEF RetiredPart, rs
    <2> QED BY <2>1, <1>2, <1>3 DEF CreditBlock, Companies
  <1> QED BY <1>3, <1>4, DecidedSound DEF SoundBlock

LEMMA AuthorizedPartSound ==
    ASSUME NEW b, SoundBlock(b), NEW k \in DOMAIN b.records,
           NEW c, c = AuthorizedPart(b, k)
    PROVE  SoundBlock(c) /\ c.end = b.end /\ c.amount = b.records[k].amount
  <1> DEFINE rs == Completed(b.records[k], "ItmoAuthorized")
  <1>1. b \in CreditBlock /\ b.records[k] \in TransactionRecord
    BY RecordFields DEF SoundBlock
  <1>2. /\ b.end \in Nat /\ b.records[k].amount \in Nat /\ b.records[k].id \in Nat
        /\ b.owner \in Companies /\ b.isNotTransferred \in BOOLEAN
    BY <1>1, BlockFields DEF TransactionRecord
  <1>3. rs \in Seq(TransactionRecord) /\ \A i \in DOMAIN rs : rs[i].status # "Pending"
    <2>1. "ItmoAuthorized" \in TxKind
      BY DEF TxKind
    <2> QED BY <1>1, <2>1, CompletedRecord
  <1> HIDE DEF rs
  <1>4. /\ c \in CreditBlock /\ c.reserved = 0 /\ c.records = rs
        /\ c.end = b.end /\ c.amount = b.records[k].amount /\ c.itmoEnd = b.end
    <2>1. c = [end |-> b.end, amount |-> b.records[k].amount, reserved |-> 0,
               owner |-> b.owner, itmo |-> b.records[k].id, itmoEnd |-> b.end,
               isNotTransferred |-> b.isNotTransferred, account |-> "Holding",
               records |-> rs]
      BY DEF AuthorizedPart, rs
    <2> QED BY <2>1, <1>2, <1>3 DEF CreditBlock, AccountType
  <1>5. c.itmoEnd >= c.end
    BY <1>2, <1>4
  <1> QED BY <1>3, <1>4, <1>5, DecidedSound

\* Settled as the decisions use it, in the form the next lemmas need.
LEMMA SettledEffect ==
    ASSUME NEW b, SoundBlock(b), NEW k \in DOMAIN b.records,
           b.records[k].status = "Pending", NEW status \in TxStatus \ {"Pending"},
           NEW c, c = Settled(b, k, status)
    PROVE  /\ SoundBlock(c)
           /\ c.reserved = b.reserved - b.records[k].amount
           /\ c.end = b.end /\ c.amount = b.amount /\ c.owner = b.owner
           /\ c.itmoEnd = b.itmoEnd /\ c.itmo = b.itmo
           /\ b.records[k].amount \in 1 .. b.reserved
  <1>1. b.records[k].amount \in 1 .. b.reserved
    BY PendingIsReserved
  <1>2. b \in CreditBlock /\ status \in TxStatus /\ b.reserved \in Nat
    BY BlockFields DEF SoundBlock
  <1>3. b.records[k].amount \in 0 .. b.reserved
    BY <1>1, <1>2
  <1>4. /\ c.reserved = b.reserved - b.records[k].amount
        /\ c.end = b.end /\ c.amount = b.amount /\ c.owner = b.owner
        /\ c.itmoEnd = b.itmoEnd /\ c.itmo = b.itmo
    BY <1>2, <1>3, SettledFields
  <1> QED BY <1>1, <1>4, SettledSound

LEMMA RetiredWholeSound ==
    ASSUME NEW b, SoundBlock(b), NEW k \in DOMAIN b.records,
           b.records[k].status = "Pending", CoversBlock(b, k),
           NEW account \in AccountType, NEW c, c = RetiredWhole(b, k, account)
    PROVE  SoundBlock(c) /\ c.end = b.end /\ c.amount = b.amount
  <1> DEFINE d == Settled(b, k, "Completed")
  <1>1. /\ SoundBlock(d) /\ d.reserved = b.reserved - b.records[k].amount
        /\ d.end = b.end /\ d.amount = b.amount
        /\ b.records[k].amount \in 1 .. b.reserved
    <2>1. "Completed" \in TxStatus \ {"Pending"}
      BY DEF TxStatus
    <2> HIDE DEF d
    <2> QED BY <2>1, SettledEffect DEF d
  <1>2. d \in CreditBlock
    BY <1>1 DEF SoundBlock
  <1>3. c = [d EXCEPT !.owner = NoCompany, !.isNotTransferred = FALSE, !.account = account]
    BY DEF RetiredWhole
  <1> HIDE DEF d
  <1>4. /\ c \in CreditBlock /\ c.records = d.records /\ c.reserved = d.reserved
        /\ c.end = d.end /\ c.amount = d.amount /\ c.itmoEnd = d.itmoEnd
    BY <1>2, <1>3 DEF CreditBlock, Companies
  <1>5. d.reserved = 0
    <2>1. b.reserved \in Nat
      BY BlockFields DEF SoundBlock
    <2> QED BY <2>1, <1>1 DEF CoversBlock
  <1>6. d.reserved <= d.amount /\ (d.itmoEnd = 0 \/ d.itmoEnd >= d.end)
    BY <1>1 DEF SoundBlock
  <1> QED BY <1>1, <1>4, <1>5, <1>6, SameReservationsSound

LEMMA AuthorizedWholeSound ==
    ASSUME NEW b, SoundBlock(b), NEW k \in DOMAIN b.records,
           b.records[k].status = "Pending", NEW c, c = AuthorizedWhole(b, k)
    PROVE  SoundBlock(c) /\ c.end = b.end /\ c.amount = b.amount
  <1> DEFINE d == Settled(b, k, "Completed")
  <1>1. SoundBlock(d) /\ d.end = b.end /\ d.amount = b.amount
    <2>1. "Completed" \in TxStatus \ {"Pending"}
      BY DEF TxStatus
    <2> HIDE DEF d
    <2> QED BY <2>1, SettledEffect DEF d
  <1>2. d \in CreditBlock /\ b \in CreditBlock
    BY <1>1 DEF SoundBlock
  <1>3. b.records[k].id \in Nat /\ b.end \in Nat
    BY <1>2, RecordFields, BlockFields DEF TransactionRecord
  <1>4. c = [d EXCEPT !.itmo = b.records[k].id, !.itmoEnd = b.end]
    BY DEF AuthorizedWhole
  <1> HIDE DEF d
  <1>5. /\ c \in CreditBlock /\ c.records = d.records /\ c.reserved = d.reserved
        /\ c.end = d.end /\ c.amount = d.amount /\ c.itmoEnd = b.end /\ c.owner = d.owner
    BY <1>2, <1>3, <1>4 DEF CreditBlock
  <1>6. d.reserved <= d.amount /\ (d.owner = NoCompany => d.reserved = 0)
    BY <1>1 DEF SoundBlock
  <1>7. c.itmoEnd >= c.end
    BY <1>1, <1>3, <1>5
  <1> QED BY <1>1, <1>5, <1>6, <1>7, SameReservationsSound

\* The block that stays behind when the k-th request is granted in part of it.
LEMMA RestSound ==
    ASSUME NEW b, SoundBlock(b), NEW k \in DOMAIN b.records,
           b.records[k].status = "Pending", b.records[k].amount <= b.end,
           NEW c, c = Retained(Settled(b, k, "Completed"), b.records[k].amount)
    PROVE  /\ SoundBlock(c)
           /\ c.end = b.end - b.records[k].amount
           /\ c.amount = b.amount - b.records[k].amount
           /\ c.owner = b.owner
           /\ c.itmoEnd = b.itmoEnd
  <1> DEFINE d == Settled(b, k, "Completed")
             n == b.records[k].amount
  <1>1. /\ SoundBlock(d) /\ d.reserved = b.reserved - n
        /\ d.end = b.end /\ d.amount = b.amount /\ d.owner = b.owner
        /\ d.itmoEnd = b.itmoEnd /\ n \in 1 .. b.reserved
    <2>1. "Completed" \in TxStatus \ {"Pending"}
      BY DEF TxStatus
    <2> HIDE DEF d
    <2> QED BY <2>1, SettledEffect DEF d
  <1>2. b.reserved \in Nat /\ b.amount \in Nat /\ b.reserved <= b.amount
    BY BlockFields DEF SoundBlock
  <1>3. n \in Nat /\ n <= Unassigned(d) /\ n <= d.end
    <2> HIDE DEF d, n
    <2>1. n <= b.end
      BY DEF n
    <2> QED BY <2>1, <1>1, <1>2 DEF Unassigned
  <1>4. c = Retained(d, n)
    OBVIOUS
  <1>5. c.itmoEnd = d.itmoEnd
    <2>1. d \in CreditBlock
      BY <1>1 DEF SoundBlock
    <2> HIDE DEF d, n
    <2> QED BY <2>1, <1>4 DEF Retained, CreditBlock
  <1> HIDE DEF d, n
  <1>6. SoundBlock(c) /\ c.end = d.end - n /\ c.amount = d.amount - n /\ c.owner = d.owner
    BY <1>1, <1>3, <1>4, RetainedSound
  <1> QED BY <1>1, <1>5, <1>6 DEF n

LEMMA RetiredRestSound ==
    ASSUME NEW b, SoundBlock(b), NEW k \in DOMAIN b.records,
           b.records[k].status = "Pending", b.records[k].amount <= b.end,
           NEW c, c = RetiredRest(b, k)
    PROVE  /\ SoundBlock(c)
           /\ c.end = b.end - b.records[k].amount
           /\ c.amount = b.amount - b.records[k].amount
           /\ c.owner = b.owner
  <1> DEFINE d == Retained(Settled(b, k, "Completed"), b.records[k].amount)
             n == b.records[k].amount
             e == IF d.itmoEnd = 0 THEN 0 ELSE d.itmoEnd - n
  <1>1. /\ SoundBlock(d) /\ d.end = b.end - n /\ d.amount = b.amount - n
        /\ d.owner = b.owner /\ d.itmoEnd = b.itmoEnd
    <2> HIDE DEF d
    <2> QED BY RestSound DEF d
  <1>2. c = [d EXCEPT !.itmoEnd = e]
    BY DEF RetiredRest
  <1>3. b \in CreditBlock /\ d \in CreditBlock /\ b.itmoEnd \in Nat /\ b.end \in Nat
        /\ n \in Nat /\ n <= b.end /\ (b.itmoEnd = 0 \/ b.itmoEnd >= b.end)
    <2>1. b \in CreditBlock /\ d \in CreditBlock
      BY <1>1 DEF SoundBlock
    <2> HIDE DEF d
    <2> QED BY <2>1, BlockFields, RecordFields DEF SoundBlock, TransactionRecord
  <1> HIDE DEF d
  <1>4. e \in Nat /\ (e = 0 \/ e >= d.end)
    <2> HIDE DEF n
    <2> QED BY <1>1, <1>3 DEF e
  <1> HIDE DEF e
  <1>5. /\ c \in CreditBlock /\ c.records = d.records /\ c.reserved = d.reserved
        /\ c.end = d.end /\ c.amount = d.amount /\ c.itmoEnd = e /\ c.owner = d.owner
    BY <1>2, <1>3, <1>4 DEF CreditBlock
  <1>6. d.reserved <= d.amount /\ (d.owner = NoCompany => d.reserved = 0)
    BY <1>1 DEF SoundBlock
  <1>7. SoundBlock(c)
    BY <1>1, <1>4, <1>5, <1>6, SameReservationsSound
  <1> QED BY <1>1, <1>5, <1>7

-----------------------------------------------------------------------------
(* The block table *)

SoundTable(table, n) ==
    /\ table = [s \in DOMAIN table |-> table[s]]
    /\ DOMAIN table \subseteq Nat \ {0}
    /\ \A s \in DOMAIN table : SoundBlock(table[s])
    /\ Partition(table, n)

\* A block is replaced by one that covers the same serial numbers.
LEMMA ReplaceSound ==
    ASSUME NEW table, NEW n \in Nat, SoundTable(table, n), NEW s \in DOMAIN table,
           NEW c, SoundBlock(c), c.end = table[s].end, c.amount = table[s].amount,
           NEW new, new = [table EXCEPT ![s] = c]
    PROVE  SoundTable(new, n)
  <1>1. /\ new = [i \in DOMAIN new |-> new[i]] /\ DOMAIN new = DOMAIN table
        /\ new[s] = c /\ \A i \in DOMAIN table : i # s => new[i] = table[i]
    BY DEF SoundTable
  <1>2. \A i \in DOMAIN table : new[i].end = table[i].end /\ new[i].amount = table[i].amount
    BY <1>1
  <1>3. Partition(new, n)
    BY <1>1, <1>2 DEF SoundTable, Partition
  <1> QED BY <1>1, <1>3 DEF SoundTable

\* A block gives its highest serial numbers to a new block.
LEMMA SplitSound ==
    ASSUME NEW table, NEW n \in Nat, SoundTable(table, n), NEW s \in DOMAIN table,
           NEW k \in Nat \ {0}, CanSplit(s, table[s], k),
           NEW p, SoundBlock(p), p.end = table[s].end - k, p.amount = table[s].amount - k,
           NEW c, SoundBlock(c), c.end = table[s].end, c.amount = k
    PROVE  LET f == SecondStart(table[s], k) IN
           /\ f \in Nat \ {0} /\ f \notin DOMAIN table
           /\ SoundTable(Split(table, s, p, f, c), n)
  <1> DEFINE f == SecondStart(table[s], k)
             new == Split(table, s, p, f, c)
             e == table[s].end
  <1>1. /\ s \in Nat \ {0} /\ e \in Nat /\ e - s + 1 = table[s].amount /\ s <= e /\ e <= n
    <2>1. table[s] \in CreditBlock
      BY DEF SoundTable, SoundBlock
    <2> QED BY <2>1, BlockFields DEF SoundTable, Partition
  <1>2. f \in Nat \ {0} /\ s < f /\ f <= e /\ f = e - k + 1 /\ p.end = f - 1
    <2> HIDE DEF e
    <2>1. f = e - k + 1 /\ k < e - s + 1 /\ p.end = e - k
      BY DEF SecondStart, CanSplit, e
    <2> HIDE DEF f
    <2> QED BY <2>1, <1>1
  <1>3. f \notin DOMAIN table
    <2> HIDE DEF f
    <2>1. \A t \in DOMAIN table : s < t => e < t
      BY DEF SoundTable, Partition
    <2> HIDE DEF e
    <2>2. DOMAIN table \subseteq Nat
      BY DEF SoundTable
    <2> QED BY <2>1, <2>2, <1>1, <1>2
  <1>4. /\ DOMAIN new = DOMAIN table \cup {f}
        /\ new = [i \in DOMAIN new |-> new[i]]
        /\ new[f] = c /\ new[s] = p
        /\ \A i \in DOMAIN table : i # s => new[i] = table[i]
    <2> HIDE DEF f
    <2> QED BY <1>1, <1>2, <1>3 DEF Split
  <1> HIDE DEF new, f, e
  <1>5. DOMAIN new \subseteq Nat \ {0} /\ \A i \in DOMAIN new : SoundBlock(new[i])
    BY <1>2, <1>4 DEF SoundTable
  <1>6. /\ c.end = e /\ p.end = f - 1 /\ c.amount = e - f + 1 /\ p.amount = f - s
    BY <1>1, <1>2 DEF e
  <1>7. \A i \in DOMAIN table : table[i].end \in Nat
    <2>1. \A i \in DOMAIN table : table[i] \in CreditBlock
      BY DEF SoundTable, SoundBlock
    <2> QED BY <2>1, BlockFields
  <1>8. \A i \in DOMAIN new :
            /\ new[i].amount = new[i].end - i + 1
            /\ i <= new[i].end /\ new[i].end <= n
    <2>1. TAKE i \in DOMAIN new
    <2>2. CASE i = f
      BY <2>2, <1>1, <1>2, <1>4, <1>6
    <2>3. CASE i = s
      BY <2>3, <1>1, <1>2, <1>4, <1>6
    <2>4. CASE i \in DOMAIN table /\ i # s
      BY <2>4, <1>4 DEF SoundTable, Partition
    <2> QED BY <2>2, <2>3, <2>4, <1>4
  <1>9. \A i, j \in DOMAIN new : i < j => new[i].end < j
    <2>1. \A i, j \in DOMAIN table : i < j => table[i].end < j
      BY DEF SoundTable, Partition
    <2>2. DOMAIN table \subseteq Nat
      BY DEF SoundTable
    <2>3. TAKE i, j \in DOMAIN new
    <2>4. HAVE i < j
    <2>5. CASE i = f
      <3>1. j \in DOMAIN table /\ s < j /\ j \in Nat
        BY <2>2, <2>4, <2>5, <1>1, <1>2, <1>4
      <3>2. e < j
        BY <3>1, <2>1 DEF e
      <3> QED BY <3>2, <2>5, <1>4, <1>6
    <2>6. CASE i = s
      <3>1. CASE j = f
        BY <3>1, <2>6, <1>1, <1>2, <1>4, <1>6
      <3>2. CASE j \in DOMAIN table
        <4>1. e < j /\ j \in Nat
          BY <3>2, <2>1, <2>2, <2>4, <2>6 DEF e
        <4> QED BY <4>1, <2>6, <1>1, <1>2, <1>4, <1>6
      <3> QED BY <3>1, <3>2, <1>4
    <2>7. CASE i \in DOMAIN table /\ i # s
      <3>1. new[i] = table[i] /\ i \in Nat /\ table[i].end \in Nat
        BY <2>2, <2>7, <1>4, <1>7
      <3>2. CASE j \in DOMAIN table
        BY <3>1, <3>2, <2>1, <2>4, <2>7
      <3>3. CASE j = f
        <4>1. i < s
          <5>1. ~(s < i)
            <6>1. SUFFICES ASSUME s < i PROVE FALSE
              OBVIOUS
            <6>2. e < i
              BY <6>1, <2>1, <2>7 DEF e
            <6> QED BY <6>2, <3>1, <3>3, <2>4, <1>1, <1>2
          <5> QED BY <5>1, <3>1, <2>7, <1>1
        <4>2. table[i].end < s
          BY <4>1, <2>1, <2>7
        <4> QED BY <4>2, <3>1, <3>3, <1>1, <1>2
      <3> QED BY <3>2, <3>3, <1>4
    <2> QED BY <2>5, <2>6, <2>7, <1>4
  <1>10. \A m \in 1 .. n : \E i \in DOMAIN new : i <= m /\ m <= new[i].end
    <2>1. TAKE m \in 1 .. n
    <2>2. PICK i \in DOMAIN table : i <= m /\ m <= table[i].end
      BY DEF SoundTable, Partition
    <2>3. CASE i # s
      BY <2>2, <2>3, <1>4
    <2>4. CASE i = s /\ m < f
      <3>1. s <= m /\ m <= new[s].end
        BY <2>2, <2>4, <1>1, <1>2, <1>4, <1>6
      <3> QED BY <3>1, <1>4
    <2>5. CASE i = s /\ ~(m < f)
      <3>1. f <= m /\ m <= new[f].end
        BY <2>2, <2>5, <1>1, <1>2, <1>4, <1>6 DEF e
      <3> QED BY <3>1, <1>4
    <2> QED BY <2>3, <2>4, <2>5
  <1>11. SoundTable(new, n)
    BY <1>4, <1>5, <1>8, <1>9, <1>10 DEF SoundTable, Partition
  <1> QED BY <1>2, <1>3, <1>11 DEF new, f

-----------------------------------------------------------------------------
(* Issuance *)

LEMMA LeastNatural ==
    ASSUME NEW T \in SUBSET Nat, T # {}
    PROVE  \E x \in T : \A y \in T : x <= y
  <1> DEFINE R == StrictSubsetOrdering(Nat)
             F == FiniteSubsetsOf(Nat)
             Prefixes == {1 .. x : x \in T}
  <1>1. IsWellFoundedOn(R, F)
    BY FS_StrictSubsetOrderingWellFounded
  <1>2. Prefixes \subseteq F
    BY FS_Interval DEF FiniteSubsetsOf
  <1>3. Prefixes # {}
    OBVIOUS
  <1>4. \E P \in Prefixes : \A Q \in Prefixes : <<Q, P>> \notin R
    <2> HIDE DEF R, F, Prefixes
    <2> QED BY <1>1, <1>2, <1>3, WFMin
  <1>5. PICK x \in T : \A y \in T : <<1 .. y, 1 .. x>> \notin R
    BY <1>4
  <1>6. \A y \in T : y < x => <<1 .. y, 1 .. x>> \in R
    <2> TAKE y \in T
    <2> HAVE y < x
    <2>1. 1 .. y \subseteq 1 .. x
      OBVIOUS
    <2>2. x \in 1 .. x /\ x \notin 1 .. y
      OBVIOUS
    <2>3. 1 .. y \subseteq Nat /\ 1 .. x \subseteq Nat
      OBVIOUS
    <2> QED BY <2>1, <2>2, <2>3 DEF StrictSubsetOrdering
  <1>7. \A y \in T : ~(y < x)
    <2> HIDE DEF R
    <2> QED BY <1>5, <1>6
  <1>8. \A y \in T : x <= y
    BY <1>7
  <1> QED BY <1>8

\* The vintages of a report cover every credit from the first to the total.
LEMMA VintagesCover ==
    ASSUME NEW t, IsVintageTotals(t), NEW m \in 1 .. Total(t)
    PROVE  \E i \in DOMAIN t : /\ m <= t[i]
                               /\ (IF i = 1 THEN 0 ELSE t[i - 1]) < m
  <1>1. /\ Len(t) \in Nat \ {0} /\ DOMAIN t = 1 .. Len(t)
        /\ \A i \in DOMAIN t : t[i] \in Nat \ {0}
    BY DEF IsVintageTotals
  <1>2. Len(t) \in DOMAIN t /\ Total(t) \in Nat \ {0} /\ m \in Nat \ {0} /\ m <= Total(t)
    BY <1>1 DEF Total
  <1> DEFINE T == {i \in 1 .. Len(t) : m <= t[i]}
  <1>3. T \in SUBSET Nat /\ T # {}
    BY <1>1, <1>2 DEF Total
  <1>4. PICK i \in T : \A j \in T : i <= j
    <2> HIDE DEF T
    <2> QED BY <1>3, LeastNatural
  <1>5. i \in 1 .. Len(t) /\ m <= t[i]
    OBVIOUS
  <1>6. i # 1 => t[i - 1] < m
    <2>1. SUFFICES ASSUME i # 1 PROVE t[i - 1] < m
      OBVIOUS
    <2>2. i - 1 \in 1 .. Len(t) /\ ~(i <= i - 1)
      BY <2>1, <1>1, <1>5
    <2>3. i - 1 \notin T
      BY <2>2, <1>4
    <2>4. ~(m <= t[i - 1])
      BY <2>2, <2>3
    <2>5. t[i - 1] \in Nat
      BY <2>2, <1>1
    <2> QED BY <2>4, <2>5, <1>2
  <1>7. (IF i = 1 THEN 0 ELSE t[i - 1]) < m
    BY <1>2, <1>6
  <1> HIDE DEF T
  <1> QED BY <1>1, <1>5, <1>7

\* What the blocks of an issuance are.
LEMMA NewBlocksAre ==
    ASSUME NEW t, IsVintageTotals(t), NEW n \in Nat, NEW company
    PROVE  LET new == NewBlocks(t, n, company) IN
           /\ new = [s \in DOMAIN new |-> new[s]]
           /\ DOMAIN new = {VintageStart(t, n, i) : i \in DOMAIN t}
           /\ \A i \in DOMAIN t :
                new[VintageStart(t, n, i)]
                    = NewBlock(VintageStart(t, n, i), n + t[i], company)
  <1> DEFINE Start(i) == VintageStart(t, n, i)
             D == {Start(i) : i \in DOMAIN t}
             At(s) == CHOOSE j \in DOMAIN t : Start(j) = s
             new == [s \in D |-> NewBlock(s, n + t[At(s)], company)]
  <1>1. NewBlocks(t, n, company) = new
    BY DEF NewBlocks
  <1>2. /\ Len(t) \in Nat \ {0} /\ DOMAIN t = 1 .. Len(t)
        /\ \A i \in DOMAIN t : t[i] \in Nat \ {0}
        /\ \A i, j \in DOMAIN t : i < j => t[i] < t[j]
    BY DEF IsVintageTotals
  <1>3. \A i, j \in DOMAIN t : i < j => Start(i) < Start(j)
    <2>1. TAKE i, j \in DOMAIN t
    <2>2. HAVE i < j
    <2>3. j # 1 /\ j - 1 \in DOMAIN t /\ i <= j - 1
      BY <2>2, <1>2
    <2>4. Start(j) = n + 1 + t[j - 1]
      BY <2>3 DEF VintageStart
    <2>5. CASE i = 1
      <3>1. Start(i) = n + 1
        BY <2>5 DEF VintageStart
      <3>2. t[j - 1] \in Nat \ {0}
        BY <2>3, <1>2
      <3> QED BY <2>4, <3>1, <3>2
    <2>6. CASE i # 1
      <3>1. Start(i) = n + 1 + t[i - 1]
        BY <2>6 DEF VintageStart
      <3>2. i - 1 \in DOMAIN t /\ i - 1 < j - 1
        BY <2>2, <2>6, <1>2
      <3>3. t[i - 1] < t[j - 1] /\ t[i - 1] \in Nat /\ t[j - 1] \in Nat
        BY <3>2, <2>3, <1>2
      <3> HIDE DEF Start
      <3> QED BY <2>4, <3>1, <3>3
    <2> QED BY <2>5, <2>6
  <1>4. \A i \in DOMAIN t : Start(i) \in Nat
    <2>1. TAKE i \in DOMAIN t
    <2>2. CASE i = 1
      BY <2>2 DEF VintageStart
    <2>3. CASE i # 1
      <3>1. i - 1 \in DOMAIN t
        BY <2>3, <1>2
      <3>2. t[i - 1] \in Nat
        BY <3>1, <1>2
      <3> QED BY <2>3, <3>2 DEF VintageStart
    <2> QED BY <2>2, <2>3
  <1>5. \A i, j \in DOMAIN t : Start(i) = Start(j) => i = j
    <2>1. TAKE i, j \in DOMAIN t
    <2>2. HAVE Start(i) = Start(j)
    <2>3. ~(i < j) /\ ~(j < i)
      <3> HIDE DEF Start
      <3> QED BY <2>2, <1>3, <1>4
    <2> QED BY <2>3, <1>2
  <1>6. \A i \in DOMAIN t : At(Start(i)) = i
    <2>1. TAKE i \in DOMAIN t
    <2> HIDE DEF Start
    <2>2. At(Start(i)) \in DOMAIN t /\ Start(At(Start(i))) = Start(i)
      OBVIOUS
    <2> HIDE DEF At
    <2> QED BY <2>2, <1>5
  <1>7. \A i \in DOMAIN t : new[Start(i)] = NewBlock(Start(i), n + t[i], company)
    <2> HIDE DEF Start, At
    <2> QED BY <1>6
  <1> HIDE DEF At
  <1>8. DOMAIN new = D /\ new = [s \in DOMAIN new |-> new[s]]
    OBVIOUS
  <1> QED BY <1>1, <1>7, <1>8

LEMMA IssueSound ==
    ASSUME NEW table, NEW n \in Nat, SoundTable(table, n),
           NEW t, IsVintageTotals(t), NEW company \in Developers
    PROVE  LET all == Insert(table, NewBlocks(t, n, company)) IN
           /\ SoundTable(all, n + Total(t))
           /\ \A s \in DOMAIN table : s \in DOMAIN all /\ all[s] = table[s]
  <1> DEFINE new == NewBlocks(t, n, company)
             Start(i) == VintageStart(t, n, i)
             Last(i) == n + t[i]
             Prev(i) == IF i = 1 THEN 0 ELSE t[i - 1]
             all == Insert(table, new)
             N == n + Total(t)
  <1>1. /\ Len(t) \in Nat \ {0} /\ DOMAIN t = 1 .. Len(t)
        /\ \A i \in DOMAIN t : t[i] \in Nat \ {0}
        /\ \A i, j \in DOMAIN t : i < j => t[i] < t[j]
    BY DEF IsVintageTotals
  <1>2. /\ DOMAIN new = {Start(i) : i \in DOMAIN t}
        /\ \A i \in DOMAIN t : new[Start(i)] = NewBlock(Start(i), Last(i), company)
    BY NewBlocksAre
  <1>3. \A i \in DOMAIN t : /\ Prev(i) \in Nat /\ Prev(i) < t[i]
                            /\ Start(i) = n + 1 + Prev(i)
                            /\ t[i] \in Nat /\ t[i] <= Total(t)
    <2>1. TAKE i \in DOMAIN t
    <2>2. Start(i) = n + 1 + Prev(i)
      BY DEF VintageStart
    <2>3. Prev(i) \in Nat /\ Prev(i) < t[i]
      <3>1. CASE i = 1
        BY <3>1, <1>1
      <3>2. CASE i # 1
        <4>1. i - 1 \in DOMAIN t /\ i - 1 < i
          BY <3>2, <1>1
        <4>2. t[i - 1] < t[i] /\ t[i - 1] \in Nat
          BY <4>1, <1>1
        <4> QED BY <4>2, <3>2
      <3> QED BY <3>1, <3>2
    <2>4. t[i] \in Nat /\ t[i] <= Total(t)
      <3>1. Len(t) \in DOMAIN t /\ i <= Len(t) /\ i \in Nat
        BY <1>1
      <3>2. CASE i = Len(t)
        BY <3>1, <3>2, <1>1 DEF Total
      <3>3. CASE i < Len(t)
        BY <3>1, <3>3, <1>1 DEF Total
      <3> QED BY <3>1, <3>2, <3>3
    <2> HIDE DEF Start, Prev
    <2> QED BY <2>2, <2>3, <2>4
  <1>4. Total(t) \in Nat
    BY <1>1 DEF Total
  <1>5. \A i \in DOMAIN t : /\ Start(i) \in Nat \ {0} /\ n < Start(i)
                            /\ Start(i) <= Last(i) /\ Last(i) \in Nat /\ Last(i) <= N
    <2> HIDE DEF Start, Prev
    <2> QED BY <1>3, <1>4
  <1> HIDE DEF new, Start, Last
  <1>6. \A i \in DOMAIN t : /\ SoundBlock(new[Start(i)])
                            /\ new[Start(i)].end = Last(i)
                            /\ new[Start(i)].amount = Last(i) - Start(i) + 1
    <2>1. TAKE i \in DOMAIN t
    <2> DEFINE c == new[Start(i)]
               first == Start(i)
               last == Last(i)
    <2>2. c = NewBlock(first, last, company)
      BY <1>2
    <2>3. first \in Nat \ {0} /\ last \in Nat /\ first <= last
      BY <1>5
    <2> HIDE DEF c, first, last
    <2>4. SoundBlock(c) /\ c.end = last /\ c.amount = last - first + 1
      BY <2>2, <2>3, NewBlockSound
    <2> QED BY <2>4 DEF c, first, last
  <1>7. \A s \in DOMAIN table : s \in Nat \ {0} /\ s <= n /\ table[s].end \in Nat
                                /\ s <= table[s].end /\ table[s].end <= n
    <2>1. \A s \in DOMAIN table : table[s] \in CreditBlock
      BY DEF SoundTable, SoundBlock
    <2>2. \A s \in DOMAIN table : table[s].end \in Nat
      BY <2>1, BlockFields
    <2>3. \A s \in DOMAIN table : s \in Nat \ {0} /\ s <= table[s].end /\ table[s].end <= n
      BY DEF SoundTable, Partition
    <2> QED BY <2>2, <2>3
  <1>8. DOMAIN table \cap DOMAIN new = {}
    <2>1. \A i \in DOMAIN t : Start(i) \notin DOMAIN table
      BY <1>5, <1>7
    <2> QED BY <1>2, <2>1
  <1>9. /\ DOMAIN all = DOMAIN table \cup DOMAIN new
        /\ all = [s \in DOMAIN all |-> all[s]]
        /\ \A s \in DOMAIN table : all[s] = table[s]
        /\ \A s \in DOMAIN new : all[s] = new[s]
    <2> QED BY <1>8 DEF Insert
  <1>10. \A s \in DOMAIN new : \E i \in DOMAIN t : s = Start(i)
    BY <1>2
  <1> HIDE DEF all
  <1>11. DOMAIN all \subseteq Nat \ {0} /\ \A s \in DOMAIN all : SoundBlock(all[s])
    BY <1>5, <1>6, <1>9, <1>10 DEF SoundTable
  <1>12. \A s \in DOMAIN all :
            /\ all[s].amount = all[s].end - s + 1
            /\ s <= all[s].end /\ all[s].end <= N
    <2>1. TAKE s \in DOMAIN all
    <2>2. CASE s \in DOMAIN table
      <3>1. all[s] = table[s] /\ table[s].amount = table[s].end - s + 1
        BY <2>2, <1>9 DEF SoundTable, Partition
      <3>2. n <= N
        BY <1>4
      <3> HIDE DEF N
      <3>3. s <= table[s].end /\ table[s].end <= n /\ table[s].end \in Nat
        BY <2>2, <1>7
      <3>4. N \in Nat
        BY <1>4 DEF N
      <3> QED BY <3>1, <3>2, <3>3, <3>4
    <2>3. CASE s \in DOMAIN new
      <3>1. PICK i \in DOMAIN t : s = Start(i)
        BY <2>3, <1>10
      <3>2. all[s].end = Last(i) /\ all[s].amount = Last(i) - s + 1
        BY <3>1, <2>3, <1>6, <1>9
      <3>3. s <= Last(i) /\ Last(i) <= N
        BY <3>1, <1>5
      <3>4. all[s].amount = all[s].end - s + 1
        BY <3>2
      <3> HIDE DEF N
      <3> QED BY <3>2, <3>3, <3>4
    <2> QED BY <2>2, <2>3, <1>9
  <1>13. \A s, u \in DOMAIN all : s < u => all[s].end < u
    <2>1. TAKE s, u \in DOMAIN all
    <2>2. HAVE s < u
    <2>3. CASE s \in DOMAIN table /\ u \in DOMAIN table
      BY <2>2, <2>3, <1>9 DEF SoundTable, Partition
    <2>4. CASE s \in DOMAIN table /\ u \in DOMAIN new
      <3>1. PICK j \in DOMAIN t : u = Start(j)
        BY <2>4, <1>10
      <3>2. n < u /\ u \in Nat
        BY <3>1, <1>5
      <3>3. all[s].end <= n /\ all[s].end \in Nat
        BY <2>4, <1>7, <1>9
      <3> QED BY <3>2, <3>3
    <2>5. CASE s \in DOMAIN new /\ u \in DOMAIN table
      <3>1. PICK i \in DOMAIN t : s = Start(i)
        BY <2>5, <1>10
      <3>2. n < s /\ s \in Nat
        BY <3>1, <1>5
      <3>3. u <= n /\ u \in Nat
        BY <2>5, <1>7
      <3> QED BY <3>2, <3>3, <2>2
    <2>6. CASE s \in DOMAIN new /\ u \in DOMAIN new
      <3>1. PICK i \in DOMAIN t : s = Start(i)
        BY <2>6, <1>10
      <3>2. PICK j \in DOMAIN t : u = Start(j)
        BY <2>6, <1>10
      <3>3. i < j
        <4>1. SUFFICES ASSUME ~(i < j) PROVE FALSE
          OBVIOUS
        <4>2. i \in Nat /\ j \in Nat /\ j <= i
          BY <4>1, <1>1
        <4>3. i # j
          BY <2>2, <3>1, <3>2, <1>5
        <4>4. t[j] <= Prev(i)
          <5>1. i # 1 /\ i - 1 \in DOMAIN t /\ j <= i - 1
            BY <4>2, <4>3, <1>1
          <5>2. CASE j = i - 1
            BY <5>1, <5>2, <1>1
          <5>3. CASE j < i - 1
            BY <5>1, <5>3, <1>1
          <5> QED BY <5>1, <5>2, <5>3, <4>2
        <4>5. /\ Prev(j) \in Nat /\ Prev(j) < t[j] /\ t[j] \in Nat /\ Prev(i) \in Nat
              /\ s = n + 1 + Prev(i) /\ u = n + 1 + Prev(j)
          BY <3>1, <3>2, <1>3
        <4> HIDE DEF Prev
        <4> QED BY <4>4, <4>5, <2>2
      <3>4. t[i] <= Prev(j)
        <4>1. j # 1 /\ j - 1 \in DOMAIN t /\ i <= j - 1 /\ i \in Nat /\ j \in Nat
          BY <3>3, <1>1
        <4>2. CASE i = j - 1
          BY <4>1, <4>2, <1>1
        <4>3. CASE i < j - 1
          BY <4>1, <4>3, <1>1
        <4> QED BY <4>1, <4>2, <4>3
      <3>5. all[s].end = n + t[i]
        BY <3>1, <2>6, <1>6, <1>9 DEF Last
      <3>6. u = n + 1 + Prev(j) /\ Prev(j) \in Nat /\ t[i] \in Nat
        BY <3>2, <1>3
      <3> HIDE DEF Prev
      <3> QED BY <3>4, <3>5, <3>6
    <2> QED BY <2>3, <2>4, <2>5, <2>6, <1>9
  <1>14. \A m \in 1 .. N : \E s \in DOMAIN all : s <= m /\ m <= all[s].end
    <2>1. TAKE m \in 1 .. N
    <2>2. CASE m <= n
      <3>1. m \in 1 .. n
        BY <2>2, <1>4
      <3>2. PICK s \in DOMAIN table : s <= m /\ m <= table[s].end
        BY <3>1 DEF SoundTable, Partition
      <3> QED BY <3>2, <1>9
    <2>3. CASE n < m
      <3>1. m - n \in 1 .. Total(t)
        BY <2>3, <1>4
      <3>2. PICK i \in DOMAIN t : m - n <= t[i] /\ Prev(i) < m - n
        BY <3>1, VintagesCover
      <3>3. /\ Start(i) = n + 1 + Prev(i) /\ Prev(i) \in Nat /\ t[i] \in Nat
            /\ Start(i) \in DOMAIN new /\ new[Start(i)].end = n + t[i]
        BY <1>2, <1>3, <1>6 DEF Last
      <3>4. m \in Nat
        BY <1>4
      <3> HIDE DEF Prev
      <3>5. Start(i) <= m /\ m <= new[Start(i)].end
        BY <3>2, <3>3, <3>4
      <3> QED BY <3>3, <3>5, <1>9
    <2>4. m <= n \/ n < m
      BY <1>4
    <2> QED BY <2>2, <2>3, <2>4
  <1>15. SoundTable(all, N)
    BY <1>9, <1>11, <1>12, <1>13, <1>14 DEF SoundTable, Partition
  <1> QED BY <1>9, <1>15 DEF all, new

-----------------------------------------------------------------------------
(* The invariant *)

ProjectRow == [issued : Nat, balance : Int, transferred : Nat, retired : Nat]

RowsTyped ==
    /\ project \in ProjectRow
    /\ companyCredit \in Nat
    /\ activity \in ActivityState
    /\ report \in VintageTotals \cup {<<>>}
    /\ requests \in Seq(Request)
    /\ caStatus \in CAStatus

\* The report under verification was checked against what is left of the estimate.
ReportOnFile ==
    activity = "VerificationUploaded" =>
        /\ report \in VintageTotals
        /\ Total(report) <= CreditEst - project.issued

IInv ==
    /\ RowsTyped
    /\ SoundTable(blocks, project.issued)
    /\ ReportOnFile
    /\ IssuedWithinEstimate
    /\ BalanceConserved

LEMMA TypesFollow ==
    ASSUME IInv
    PROVE  TypeOK
  <1>1. /\ blocks = [s \in DOMAIN blocks |-> blocks[s]]
        /\ DOMAIN blocks \subseteq Nat \ {0}
        /\ \A s \in DOMAIN blocks : blocks[s] \in CreditBlock
    BY DEF IInv, SoundTable, SoundBlock
  <1>2. blocks \in [DOMAIN blocks -> CreditBlock]
    BY <1>1
  <1> QED BY <1>1, <1>2 DEF IInv, RowsTyped, ProjectRow, TypeOK

-----------------------------------------------------------------------------
(* Rows *)

LEMMA AccountTyped ==
    ASSUME NEW sub
    PROVE  MapSubTypeToAccountType(sub) \in AccountType
  BY DEF MapSubTypeToAccountType, AccountType

LEMMA DebitConserves ==
    ASSUME project \in ProjectRow, NEW b, NEW n \in Nat,
           NEW counter \in {"transferred", "retired"},
           NEW p, p = Debit(b, n, counter)
    PROVE  /\ p \in ProjectRow
           /\ p.issued = project.issued
           /\ p.balance + p.transferred + p.retired
                = project.balance + project.transferred + project.retired
  <1>1. /\ project.issued \in Nat /\ project.balance \in Int
        /\ project.transferred \in Nat /\ project.retired \in Nat
    BY DEF ProjectRow
  <1>2. CASE ~b.isNotTransferred
    BY <1>2 DEF Debit
  <1>3. CASE b.isNotTransferred
    <2>1. CASE counter = "transferred"
      <3>1. p = [project EXCEPT !.balance = project.balance - n,
                                !.transferred = project.transferred + n]
        BY <1>3, <2>1 DEF Debit
      <3>2. project.balance - n \in Int /\ project.transferred + n \in Nat
        BY <1>1
      <3>3. /\ p \in ProjectRow /\ p.issued = project.issued
            /\ p.balance = project.balance - n
            /\ p.transferred = project.transferred + n /\ p.retired = project.retired
        BY <3>1, <3>2 DEF ProjectRow
      <3> QED BY <1>1, <3>3
    <2>2. CASE counter = "retired"
      <3>1. p = [project EXCEPT !.balance = project.balance - n,
                                !.retired = project.retired + n]
        BY <1>3, <2>2 DEF Debit
      <3>2. project.balance - n \in Int /\ project.retired + n \in Nat
        BY <1>1
      <3>3. /\ p \in ProjectRow /\ p.issued = project.issued
            /\ p.balance = project.balance - n
            /\ p.retired = project.retired + n /\ p.transferred = project.transferred
        BY <3>1, <3>2 DEF ProjectRow
      <3> QED BY <1>1, <3>3
    <2> QED BY <2>1, <2>2
  <1> QED BY <1>2, <1>3

LEMMA RequestFields ==
    ASSUME requests \in Seq(Request), NEW r \in DOMAIN requests
    PROVE  requests[r] \in Request /\ r \in 1 .. Len(requests) /\ Len(requests) \in Nat
  OBVIOUS

LEMMA CompleteTyped ==
    ASSUME requests \in Seq(Request), NEW r \in DOMAIN requests, NEW s \in Nat,
           Complete(r, s)
    PROVE  requests' \in Seq(Request)
  <1> DEFINE q == [requests[r] EXCEPT !.status = "Completed", !.block = s]
  <1>1. requests[r] \in Request
    BY RequestFields
  <1>2. q \in Request
    BY <1>1 DEF Request, TxStatus
  <1>3. requests' = [requests EXCEPT ![r] = q]
    BY DEF Complete
  <1> HIDE DEF q
  <1> QED BY <1>2, <1>3

LEMMA NewRequestTyped ==
    ASSUME requests \in Seq(Request), NEW s \in Nat, blocks[s].owner \in Developers,
           NEW kind \in TxKind, NEW sub \in SubTypes \cup {"None"},
           NEW purpose \in AuthorizationPurpose \cup {"None"}, NEW n \in Nat \ {0}
    PROVE  NewRequest(kind, sub, purpose, n, s) \in Seq(Request)
  <1> DEFINE q == [type |-> kind, subType |-> sub, purpose |-> purpose, amount |-> n,
                   sender |-> blocks[s].owner, block |-> s, status |-> "Pending"]
  <1>1. q \in Request
    BY DEF Request, TxStatus
  <1>2. NewRequest(kind, sub, purpose, n, s) = Append(requests, q)
    BY DEF NewRequest
  <1> HIDE DEF q
  <1> QED BY <1>1, <1>2

-----------------------------------------------------------------------------
(* Steps *)

\* What a step that issues nothing has to show.
LEMMA BlockStep ==
    ASSUME IInv, SoundTable(blocks', project.issued),
           project' \in ProjectRow, project'.issued = project.issued,
           project'.balance + project'.transferred + project'.retired
                = project.balance + project.transferred + project.retired,
           requests' \in Seq(Request),
           UNCHANGED <<companyCredit, activity, report, caStatus>>
    PROVE  IInv'
  <1>1. RowsTyped'
    BY DEF IInv, RowsTyped
  <1>2. SoundTable(blocks, project.issued)'
    OBVIOUS
  <1>3. ReportOnFile' /\ IssuedWithinEstimate'
    BY DEF IInv, ReportOnFile, IssuedWithinEstimate
  <1>4. BalanceConserved'
    BY DEF IInv, BalanceConserved
  <1> QED BY <1>1, <1>2, <1>3, <1>4 DEF IInv

\* The same for a step that leaves the project row alone.
LEMMA RecordStep ==
    ASSUME IInv, SoundTable(blocks', project.issued), requests' \in Seq(Request),
           UNCHANGED <<project, companyCredit, activity, report, caStatus>>
    PROVE  IInv'
  BY BlockStep DEF IInv, RowsTyped

LEMMA BlockFacts ==
    ASSUME IInv, NEW s \in DOMAIN blocks
    PROVE  /\ SoundBlock(blocks[s]) /\ blocks[s] \in CreditBlock
           /\ s \in Nat \ {0} /\ project.issued \in Nat
           /\ blocks[s].end \in Nat /\ blocks[s].amount \in Nat
           /\ blocks[s].reserved \in Nat
           /\ blocks[s].amount = blocks[s].end - s + 1
           /\ s <= blocks[s].end
           /\ SoundTable(blocks, project.issued)
  <1>1. /\ SoundBlock(blocks[s]) /\ s \in Nat \ {0}
        /\ blocks[s].amount = blocks[s].end - s + 1 /\ s <= blocks[s].end
        /\ SoundTable(blocks, project.issued)
    BY DEF IInv, SoundTable, Partition
  <1>2. blocks[s] \in CreditBlock
    BY <1>1 DEF SoundBlock
  <1>3. project.issued \in Nat
    BY DEF IInv, RowsTyped, ProjectRow
  <1> QED BY <1>1, <1>2, <1>3, BlockFields

\* A decision concerns a pending record of a block of the table.
LEMMA UndecidedFacts ==
    ASSUME IInv, NEW r \in DOMAIN requests, NEW k, Undecided(r, k)
    PROVE  LET s == requests[r].block IN
           /\ s \in DOMAIN blocks /\ k \in DOMAIN blocks[s].records
           /\ blocks[s].records[k].status = "Pending"
           /\ blocks[s].records[k].amount \in Nat \ {0}
           /\ blocks[s].records[k].amount <= blocks[s].reserved
           /\ blocks[s].records[k].amount <= blocks[s].end
           /\ requests \in Seq(Request)
  <1> DEFINE s == requests[r].block
             b == blocks[s]
             m == b.records[k].amount
  <1>1. s \in DOMAIN blocks /\ k \in DOMAIN b.records /\ b.records[k].status = "Pending"
    BY DEF Undecided
  <1> HIDE DEF s
  <1>2. /\ SoundBlock(b) /\ b.amount = b.end - s + 1 /\ s \in Nat \ {0}
        /\ b.end \in Nat /\ b.amount \in Nat /\ b.reserved \in Nat
    BY <1>1, BlockFacts
  <1> HIDE DEF b
  <1>3. m \in 1 .. b.reserved
    BY <1>1, <1>2, PendingIsReserved
  <1>4. b.reserved <= b.amount
    BY <1>2 DEF SoundBlock
  <1> HIDE DEF m
  <1>5. m \in Nat \ {0} /\ m <= b.reserved /\ m <= b.end
    BY <1>2, <1>3, <1>4
  <1>6. requests \in Seq(Request)
    BY DEF IInv, RowsTyped
  <1> QED BY <1>1, <1>5, <1>6 DEF m, b, s

LEMMA VerificationSteps ==
    ASSUME IInv,
           \/ VerifyMonitoring
           \/ \E t \in VintageTotals : UploadVerification(t)
           \/ RejectVerification
    PROVE  IInv'
  <1>1. /\ UNCHANGED <<blocks, project, companyCredit, requests, caStatus>>
        /\ activity' \in ActivityState
        /\ report' \in VintageTotals \cup {<<>>}
        /\ ReportOnFile'
    <2>1. CASE VerifyMonitoring
      BY <2>1 DEF VerifyMonitoring, ActivityState, ReportOnFile, IInv, RowsTyped
    <2>2. CASE \E t \in VintageTotals : UploadVerification(t)
      BY <2>2 DEF UploadVerification, ActivityState, ReportOnFile
    <2>3. CASE RejectVerification
      BY <2>3 DEF RejectVerification, ActivityState, ReportOnFile
    <2> QED BY <2>1, <2>2, <2>3
  <1> QED BY <1>1 DEF IInv, RowsTyped, IssuedWithinEstimate, BalanceConserved

\* The blocks of an issuance continue the numbering where the last one stopped.
LEMMA IssueStep ==
    ASSUME IInv, IssueCredits
    PROVE  IInv'
  <1> DEFINE n == Total(report)
  <1>1. report \in VintageTotals /\ n <= CreditEst - project.issued
    BY DEF IssueCredits, IInv, ReportOnFile
  <1>2. IsVintageTotals(report) /\ ProjectOwner \in Developers /\ CreditEst \in Nat
    BY <1>1, LedgerAssumption
  <1>3. n \in Nat
    BY <1>2 DEF IsVintageTotals, Total
  <1>4. /\ project \in ProjectRow /\ companyCredit \in Nat /\ requests \in Seq(Request)
        /\ caStatus \in CAStatus /\ project.issued \in Nat /\ project.balance \in Int
        /\ project.transferred \in Nat /\ project.retired \in Nat
        /\ SoundTable(blocks, project.issued)
    BY DEF IInv, RowsTyped, ProjectRow
  <1>5. SoundTable(blocks', project.issued + n)
    BY <1>2, <1>4, IssueSound DEF IssueCredits
  <1> HIDE DEF n
  <1>6. project' = [project EXCEPT !.issued = project.issued + n,
                                   !.balance = project.balance + n]
    BY DEF IssueCredits, n
  <1>7. project.issued + n \in Nat /\ project.balance + n \in Int
    BY <1>3, <1>4
  <1>8. /\ project' \in ProjectRow /\ project'.issued = project.issued + n
        /\ project'.balance = project.balance + n
        /\ project'.transferred = project.transferred
        /\ project'.retired = project.retired
    BY <1>4, <1>6, <1>7 DEF ProjectRow
  <1>9. /\ companyCredit' = companyCredit + n /\ activity' = "VerificationVerified"
        /\ report' = <<>> /\ UNCHANGED <<requests, caStatus>>
    BY DEF IssueCredits, n
  <1>10. RowsTyped' /\ ReportOnFile'
    BY <1>3, <1>4, <1>8, <1>9 DEF RowsTyped, ReportOnFile, ActivityState
  <1>11. IssuedWithinEstimate'
    BY <1>1, <1>2, <1>3, <1>4, <1>8 DEF IssuedWithinEstimate, n
  <1>12. BalanceConserved'
    BY <1>3, <1>4, <1>8 DEF IInv, BalanceConserved
  <1> QED BY <1>5, <1>8, <1>10, <1>11, <1>12 DEF IInv

\* A company can only transfer what is not reserved.
LEMMA TransferFacts ==
    ASSUME IInv, NEW s \in DOMAIN blocks, NEW n, NEW to, CanTransfer(blocks[s], n, to)
    PROVE  /\ n \in Nat \ {0} /\ n <= Unassigned(blocks[s])
           /\ blocks[s].owner # NoCompany
  <1>1. blocks[s].amount \in Nat /\ blocks[s].reserved \in Nat
    BY BlockFacts
  <1>2. n \in 1 .. Unassigned(blocks[s]) /\ blocks[s].owner \in Developers
    BY DEF CanTransfer
  <1> QED BY <1>1, <1>2, CompanyAssumption DEF Unassigned

LEMMA TransferWholeStep ==
    ASSUME IInv, NEW s \in DOMAIN blocks, NEW n, NEW to \in Developers,
           TransferWhole(s, n, to)
    PROVE  IInv'
  <1>1. n \in Nat
    BY TransferFacts DEF TransferWhole
  <1>2. blocks' = [blocks EXCEPT ![s] = TransferredWhole(blocks[s], to)]
    BY DEF TransferWhole
  <1> DEFINE c == TransferredWhole(blocks[s], to)
  <1>3. SoundTable(blocks', project.issued)
    <2>1. SoundBlock(c) /\ c.end = blocks[s].end /\ c.amount = blocks[s].amount
      BY BlockFacts, TransferredWholeSound
    <2> HIDE DEF c
    <2>2. blocks' = [blocks EXCEPT ![s] = c]
      BY <1>2 DEF c
    <2> QED BY <2>1, <2>2, BlockFacts, ReplaceSound
  <1>4. project' = Debit(blocks[s], n, "transferred")
        /\ UNCHANGED <<companyCredit, activity, report, requests, caStatus>>
    BY DEF TransferWhole
  <1>5. project \in ProjectRow /\ requests \in Seq(Request)
    BY DEF IInv, RowsTyped
  <1> QED BY <1>1, <1>3, <1>4, <1>5, DebitConserves, BlockStep

LEMMA TransferPartStep ==
    ASSUME IInv, NEW s \in DOMAIN blocks, NEW n, NEW to \in Developers,
           TransferPart(s, n, to)
    PROVE  IInv'
  <1> DEFINE b == blocks[s]
             parent == Retained(b, n)
             child == TransferredPart(b, n, to)
  <1>1. n \in Nat \ {0} /\ n <= Unassigned(b)
    BY TransferFacts DEF TransferPart
  <1>2. CanSplit(s, b, n)
        /\ blocks' = Split(blocks, s, parent, SecondStart(b, n), child)
    BY DEF TransferPart
  <1>3. /\ SoundBlock(b) /\ b.end \in Nat /\ s \in Nat \ {0}
        /\ SoundTable(blocks, project.issued) /\ project.issued \in Nat
    BY BlockFacts
  <1> HIDE DEF b
  <1>4. n <= b.end
    BY <1>1, <1>2, <1>3 DEF CanSplit
  <1>5. SoundBlock(parent) /\ parent.end = b.end - n /\ parent.amount = b.amount - n
    BY <1>1, <1>3, <1>4, RetainedSound
  <1>6. SoundBlock(child) /\ child.end = b.end /\ child.amount = n
    BY <1>1, <1>3, TransferredPartSound
  <1> HIDE DEF parent, child
  <1>7. SoundTable(blocks', project.issued)
    BY <1>1, <1>2, <1>3, <1>5, <1>6, SplitSound DEF b
  <1>8. project' = Debit(b, n, "transferred")
        /\ UNCHANGED <<companyCredit, activity, report, requests, caStatus>>
    BY DEF TransferPart, b
  <1>9. project \in ProjectRow /\ requests \in Seq(Request)
    BY DEF IInv, RowsTyped
  <1> QED BY <1>1, <1>7, <1>8, <1>9, DebitConserves, BlockStep

\* What both kinds of request do to the block and to the table of requests.
LEMMA AddRequestStep ==
    ASSUME IInv, NEW s \in DOMAIN blocks, NEW n \in 1 .. Unassigned(blocks[s]),
           NEW kind \in TxKind, NEW sub \in SubTypes \cup {"None"},
           NEW purpose \in AuthorizationPurpose \cup {"None"},
           blocks[s].owner \in Developers,
           blocks' = [blocks EXCEPT
                        ![s] = WithRequest(blocks[s], Len(requests) + 1, kind, n)],
           requests' = NewRequest(kind, sub, purpose, n, s),
           UNCHANGED <<project, companyCredit, activity, report, caStatus>>
    PROVE  IInv'
  <1> DEFINE b == blocks[s]
             id == Len(requests) + 1
             c == WithRequest(b, id, kind, n)
  <1>1. /\ SoundBlock(b) /\ s \in Nat \ {0} /\ project.issued \in Nat
        /\ b.amount \in Nat /\ b.reserved \in Nat
        /\ SoundTable(blocks, project.issued)
    BY BlockFacts
  <1>2. requests \in Seq(Request)
    BY DEF IInv, RowsTyped
  <1>3. id \in Nat
    BY <1>2
  <1>4. n \in Nat \ {0}
    BY <1>1 DEF Unassigned
  <1>5. requests' \in Seq(Request)
    BY <1>1, <1>2, <1>4, NewRequestTyped
  <1>6. b.owner # NoCompany
    BY CompanyAssumption
  <1>7. blocks' = [blocks EXCEPT ![s] = c]
    OBVIOUS
  <1>8. n \in 1 .. Unassigned(b)
    OBVIOUS
  <1> HIDE DEF b, id
  <1>9. SoundBlock(c) /\ c.end = b.end /\ c.amount = b.amount
    BY <1>1, <1>3, <1>6, <1>8, WithRequestSound
  <1> HIDE DEF c
  <1>10. SoundTable(blocks', project.issued)
    <2> SUFFICES SoundBlock(c) /\ c.end = blocks[s].end /\ c.amount = blocks[s].amount
      BY <1>1, <1>7, ReplaceSound
    <2> QED BY <1>9 DEF b
  <1> QED BY <1>5, <1>10, RecordStep

LEMMA AddRetireRequestStep ==
    ASSUME IInv, NEW s \in DOMAIN blocks, NEW n, NEW sub \in UseTypes,
           AddRetireRequest(s, n, sub)
    PROVE  IInv'
  BY AddRequestStep, LedgerAssumption DEF AddRetireRequest, TxKind

LEMMA AddItmoAuthRequestStep ==
    ASSUME IInv, NEW s \in DOMAIN blocks, NEW n, NEW purpose \in Purposes,
           AddItmoAuthRequest(s, n, purpose)
    PROVE  IInv'
  BY AddRequestStep, LedgerAssumption DEF AddItmoAuthRequest, TxKind

LEMMA AcceptRetireWholeStep ==
    ASSUME IInv, NEW r \in DOMAIN requests, NEW k, AcceptRetireWhole(r, k)
    PROVE  IInv'
  <1> DEFINE s == requests[r].block
             b == blocks[s]
             n == b.records[k].amount
             account == MapSubTypeToAccountType(requests[r].subType)
             c == RetiredWhole(b, k, account)
  <1>1. Undecided(r, k) /\ CoversBlock(b, k) /\ blocks' = [blocks EXCEPT ![s] = c]
    BY DEF AcceptRetireWhole
  <1>2. project' = Debit(b, n, "retired") /\ Complete(r, s)
        /\ UNCHANGED <<companyCredit, activity, report, caStatus>>
    BY DEF AcceptRetireWhole
  <1>3. /\ s \in DOMAIN blocks /\ k \in DOMAIN b.records
        /\ b.records[k].status = "Pending"
        /\ n \in Nat \ {0} /\ requests \in Seq(Request)
    BY <1>1, UndecidedFacts
  <1>4. account \in AccountType
    BY AccountTyped
  <1> HIDE DEF s, account
  <1>5. /\ SoundBlock(b) /\ s \in Nat \ {0} /\ SoundTable(blocks, project.issued)
        /\ project.issued \in Nat
    BY <1>3, BlockFacts
  <1>6. SoundBlock(c) /\ c.end = b.end /\ c.amount = b.amount
    BY <1>1, <1>3, <1>4, <1>5, RetiredWholeSound
  <1> HIDE DEF c
  <1>7. SoundTable(blocks', project.issued)
    BY <1>1, <1>3, <1>5, <1>6, ReplaceSound
  <1>8. requests' \in Seq(Request)
    BY <1>2, <1>3, <1>5, CompleteTyped
  <1>9. project \in ProjectRow
    BY DEF IInv, RowsTyped
  <1> QED BY <1>2, <1>3, <1>7, <1>8, <1>9, DebitConserves, BlockStep

LEMMA AcceptRetirePartStep ==
    ASSUME IInv, NEW r \in DOMAIN requests, NEW k, AcceptRetirePart(r, k)
    PROVE  IInv'
  <1> DEFINE s == requests[r].block
             b == blocks[s]
             n == b.records[k].amount
             account == MapSubTypeToAccountType(requests[r].subType)
             parent == RetiredRest(b, k)
             child == RetiredPart(b, k, account)
             first == SecondStart(b, n)
  <1>1. /\ Undecided(r, k) /\ CanSplit(s, b, n)
        /\ blocks' = Split(blocks, s, parent, first, child)
    BY DEF AcceptRetirePart
  <1>2. project' = Debit(b, n, "retired") /\ Complete(r, first)
        /\ UNCHANGED <<companyCredit, activity, report, caStatus>>
    BY DEF AcceptRetirePart
  <1>3. /\ s \in DOMAIN blocks /\ k \in DOMAIN b.records
        /\ b.records[k].status = "Pending"
        /\ n \in Nat \ {0} /\ n <= b.end /\ requests \in Seq(Request)
    BY <1>1, UndecidedFacts
  <1>4. account \in AccountType
    BY AccountTyped
  <1> HIDE DEF s, account
  <1>5. /\ SoundBlock(b) /\ SoundTable(blocks, project.issued)
        /\ project.issued \in Nat
    BY <1>3, BlockFacts
  <1>6. SoundBlock(parent) /\ parent.end = b.end - n /\ parent.amount = b.amount - n
    BY <1>3, <1>5, RetiredRestSound
  <1>7. SoundBlock(child) /\ child.end = b.end /\ child.amount = n
    BY <1>3, <1>4, <1>5, RetiredPartSound
  <1> HIDE DEF parent, child, n
  <1>8. SoundTable(blocks', project.issued) /\ first \in Nat \ {0}
    BY <1>1, <1>3, <1>5, <1>6, <1>7, SplitSound
  <1>9. requests' \in Seq(Request)
    BY <1>2, <1>3, <1>8, CompleteTyped
  <1>10. project \in ProjectRow
    BY DEF IInv, RowsTyped
  <1> QED BY <1>2, <1>3, <1>8, <1>9, <1>10, DebitConserves, BlockStep

LEMMA AcceptItmoWholeStep ==
    ASSUME IInv, NEW r \in DOMAIN requests, NEW k, AcceptItmoWhole(r, k)
    PROVE  IInv'
  <1> DEFINE s == requests[r].block
             b == blocks[s]
             c == AuthorizedWhole(b, k)
  <1>1. Undecided(r, k) /\ blocks' = [blocks EXCEPT ![s] = c]
    BY DEF AcceptItmoWhole, CanAuthorize
  <1>2. Complete(r, s) /\ UNCHANGED <<project, companyCredit, activity, report, caStatus>>
    BY DEF AcceptItmoWhole
  <1>3. /\ s \in DOMAIN blocks /\ k \in DOMAIN b.records
        /\ b.records[k].status = "Pending" /\ requests \in Seq(Request)
    BY <1>1, UndecidedFacts
  <1> HIDE DEF s
  <1>4. /\ SoundBlock(b) /\ s \in Nat \ {0} /\ SoundTable(blocks, project.issued)
        /\ project.issued \in Nat
    BY <1>3, BlockFacts
  <1>5. SoundBlock(c) /\ c.end = b.end /\ c.amount = b.amount
    BY <1>3, <1>4, AuthorizedWholeSound
  <1> HIDE DEF c
  <1>6. SoundTable(blocks', project.issued)
    BY <1>1, <1>3, <1>4, <1>5, ReplaceSound
  <1>7. requests' \in Seq(Request)
    BY <1>2, <1>3, <1>4, CompleteTyped
  <1> QED BY <1>2, <1>6, <1>7, RecordStep

LEMMA AcceptItmoPartStep ==
    ASSUME IInv, NEW r \in DOMAIN requests, NEW k, AcceptItmoPart(r, k)
    PROVE  IInv'
  <1> DEFINE s == requests[r].block
             b == blocks[s]
             n == b.records[k].amount
             parent == Retained(Settled(b, k, "Completed"), n)
             child == AuthorizedPart(b, k)
             first == SecondStart(b, n)
  <1>1. /\ Undecided(r, k) /\ CanSplit(s, b, n)
        /\ blocks' = Split(blocks, s, parent, first, child)
    BY DEF AcceptItmoPart, CanAuthorize
  <1>2. Complete(r, first)
        /\ UNCHANGED <<project, companyCredit, activity, report, caStatus>>
    BY SMTT(30) DEF AcceptItmoPart
  <1>3. /\ s \in DOMAIN blocks /\ k \in DOMAIN b.records
        /\ b.records[k].status = "Pending"
        /\ n \in Nat \ {0} /\ n <= b.end /\ requests \in Seq(Request)
    BY <1>1, UndecidedFacts
  <1> HIDE DEF s
  <1>4. /\ SoundBlock(b) /\ SoundTable(blocks, project.issued)
        /\ project.issued \in Nat
    BY <1>3, BlockFacts
  <1>5. SoundBlock(parent) /\ parent.end = b.end - n /\ parent.amount = b.amount - n
    BY <1>3, <1>4, RestSound
  <1>6. SoundBlock(child) /\ child.end = b.end /\ child.amount = n
    BY <1>3, <1>4, AuthorizedPartSound
  <1> HIDE DEF parent, child, n
  <1>7. SoundTable(blocks', project.issued) /\ first \in Nat \ {0}
    BY <1>1, <1>3, <1>4, <1>5, <1>6, SplitSound
  <1>8. requests' \in Seq(Request)
    BY <1>2, <1>3, <1>7, CompleteTyped
  <1> QED BY <1>2, <1>7, <1>8, RecordStep

LEMMA DeclineStep ==
    ASSUME IInv, NEW r \in DOMAIN requests, NEW k,
           NEW status \in {"Rejected", "Cancelled"}, Decline(r, k, status)
    PROVE  IInv'
  <1> DEFINE s == requests[r].block
             b == blocks[s]
             c == Settled(b, k, status)
             q == [requests[r] EXCEPT !.status = status]
  <1>1. /\ Undecided(r, k) /\ blocks' = [blocks EXCEPT ![s] = c]
        /\ requests' = [requests EXCEPT ![r] = q]
        /\ UNCHANGED <<project, companyCredit, activity, report, caStatus>>
    BY DEF Decline
  <1>2. /\ s \in DOMAIN blocks /\ k \in DOMAIN b.records
        /\ b.records[k].status = "Pending" /\ requests \in Seq(Request)
    BY <1>1, UndecidedFacts
  <1>3. status \in TxStatus \ {"Pending"}
    BY DEF TxStatus
  <1>4. q \in Request
    BY <1>2, <1>3, RequestFields DEF Request
  <1> HIDE DEF s, q
  <1>5. /\ SoundBlock(b) /\ SoundTable(blocks, project.issued)
        /\ project.issued \in Nat
    BY <1>2, BlockFacts
  <1>6. SoundBlock(c) /\ c.end = b.end /\ c.amount = b.amount
    BY <1>2, <1>3, <1>5, SettledEffect
  <1> HIDE DEF c
  <1>7. SoundTable(blocks', project.issued)
    BY <1>1, <1>2, <1>5, <1>6, ReplaceSound
  <1>8. requests' \in Seq(Request)
    BY <1>1, <1>2, <1>4
  <1> QED BY <1>1, <1>7, <1>8, RecordStep

LEMMA ApproachStep ==
    ASSUME IInv, MarkSubmitted \/ \E status \in CAStatus : UpdateApproach(status)
    PROVE  IInv'
  <1>1. /\ UNCHANGED <<blocks, project, companyCredit, activity, report, requests>>
        /\ caStatus' \in CAStatus
    BY DEF MarkSubmitted, UpdateApproach, CAStatus
  <1> QED BY <1>1 DEF IInv, RowsTyped, ReportOnFile, IssuedWithinEstimate, BalanceConserved

-----------------------------------------------------------------------------
(* The inductive invariant *)

LEMMA InitSound == Init => IInv
  <1> SUFFICES ASSUME Init PROVE IInv
    OBVIOUS
  <1>1. CreditEst \in Nat
    BY LedgerAssumption
  <1>2. blocks = <<>> /\ DOMAIN blocks = {} /\ project.issued = 0
    BY DEF Init
  <1>3. SoundTable(blocks, project.issued)
    BY <1>2 DEF SoundTable, Partition
  <1>4. RowsTyped
    BY DEF Init, RowsTyped, ProjectRow, ActivityState, CAStatus
  <1> QED BY <1>1, <1>3, <1>4 DEF Init, IInv, ReportOnFile, IssuedWithinEstimate, BalanceConserved

LEMMA NextSound == IInv /\ [Next]_vars => IInv'
  <1> SUFFICES ASSUME IInv, [Next]_vars PROVE IInv'
    OBVIOUS
  <1>1. CASE UNCHANGED vars
    BY <1>1 DEF vars, IInv, RowsTyped, ReportOnFile, IssuedWithinEstimate, BalanceConserved
  <1>2. CASE Issuance
    BY <1>2, VerificationSteps, IssueStep DEF Issuance
  <1>3. CASE \E s \in DOMAIN blocks : BlockOperation(s)
    BY <1>3, TransferWholeStep, TransferPartStep, AddRetireRequestStep,
       AddItmoAuthRequestStep DEF BlockOperation
  <1>4. CASE \E r \in DOMAIN requests :
               \E k \in DOMAIN blocks[requests[r].block].records : Decision(r, k)
    BY <1>4, AcceptRetireWholeStep, AcceptRetirePartStep, AcceptItmoWholeStep,
       AcceptItmoPartStep, DeclineStep DEF Decision
  <1>5. CASE MarkSubmitted \/ \E status \in CAStatus : UpdateApproach(status)
    BY <1>5, ApproachStep
  <1> QED BY <1>1, <1>2, <1>3, <1>4, <1>5 DEF Next

\* Every state the program can reach is sound.
THEOREM Inductive == Spec => []IInv
  BY InitSound, NextSound, PTL DEF Spec

-----------------------------------------------------------------------------
(* Theorems *)

\* Every row and block keeps the type its entity declares.
THEOREM TypeCorrect == Spec => []TypeOK
  <1>1. IInv => TypeOK
    BY TypesFollow
  <1> QED BY <1>1, Inductive, PTL

\* No serial number is counted twice or lost: transfers, retirements and
\* authorizations split blocks, issuances append them, and after any number of
\* them the blocks cut 1 .. creditIssued into disjoint runs.
THEOREM SerialsPartition == Spec => []SerialsPartitionIssued
  <1>1. IInv => SerialsPartitionIssued
    BY DEF IInv, SoundTable, SerialsPartitionIssued
  <1> QED BY <1>1, Inductive, PTL

\* Issued credits stay within the estimate: the comparison the ledger makes is
\* void for a first issuance, the one made when the report was uploaded holds on.
THEOREM EstimateHolds == Spec => []IssuedWithinEstimate
  <1>1. IInv => IssuedWithinEstimate
    BY DEF IInv
  <1> QED BY <1>1, Inductive, PTL

\* The project row accounts for every issued credit exactly once.
THEOREM BalanceHolds == Spec => []BalanceConserved
  <1>1. IInv => BalanceConserved
    BY DEF IInv
  <1> QED BY <1>1, Inductive, PTL

\* The reservation of a block is the sum of its pending requests and fits the block.
THEOREM ReservationsAddUp == Spec => []ReservedIsPending
  <1>1. IInv => ReservedIsPending
    <2> SUFFICES ASSUME IInv, NEW s \in DOMAIN blocks
                 PROVE  /\ blocks[s].reserved <= blocks[s].amount
                        /\ Reservations(blocks[s])
      BY DEF ReservedIsPending, Reservations
    <2> QED BY BlockFacts DEF SoundBlock
  <1> QED BY <1>1, Inductive, PTL

\* A retired block has no pending request, so nothing but a decision could
\* have been left to do to it.
LEMMA RetiredUndisturbed ==
    ASSUME IInv, Next, NEW s \in DOMAIN blocks, blocks[s].owner = NoCompany
    PROVE  s \in DOMAIN blocks' /\ blocks'[s] = blocks[s]
  <1>1. /\ SoundBlock(blocks[s]) /\ SoundTable(blocks, project.issued)
        /\ project.issued \in Nat
    BY BlockFacts
  <1>2. blocks[s].owner \notin Developers
    BY CompanyAssumption
  <1>3. CASE Issuance
    <2>1. CASE IssueCredits
      <3>1. IsVintageTotals(report) /\ ProjectOwner \in Developers
        BY <2>1, LedgerAssumption DEF IssueCredits, IInv, ReportOnFile
      <3> QED BY <1>1, <2>1, <3>1, IssueSound DEF IssueCredits
    <2>2. CASE ~IssueCredits
      BY <1>3, <2>2 DEF Issuance, VerifyMonitoring, UploadVerification, RejectVerification
    <2> QED BY <2>1, <2>2
  <1>4. ASSUME NEW u \in DOMAIN blocks, blocks[u].owner \in Developers,
               NEW c, blocks' = [blocks EXCEPT ![u] = c]
        PROVE  s \in DOMAIN blocks' /\ blocks'[s] = blocks[s]
    BY <1>1, <1>2, <1>4 DEF SoundTable
  <1>5. ASSUME NEW u \in DOMAIN blocks, blocks[u].owner \in Developers,
               NEW p, NEW c, NEW f, f \notin DOMAIN blocks,
               blocks' = Split(blocks, u, p, f, c)
        PROVE  s \in DOMAIN blocks' /\ blocks'[s] = blocks[s]
    BY <1>2, <1>5 DEF Split
  <1>6. ASSUME NEW u \in DOMAIN blocks, NEW n \in Nat \ {0}, CanSplit(u, blocks[u], n)
        PROVE  SecondStart(blocks[u], n) \notin DOMAIN blocks
    <2> DEFINE f == SecondStart(blocks[u], n)
    <2>1. /\ u \in Nat \ {0} /\ blocks[u].end \in Nat
      BY BlockFacts
    <2>2. u < f /\ f <= blocks[u].end
      BY <1>6, <2>1 DEF CanSplit, SecondStart
    <2>3. \A v \in DOMAIN blocks : u < v => blocks[u].end < v
      BY <1>1 DEF SoundTable, Partition
    <2>4. f \in Int
      BY <2>1 DEF SecondStart
    <2> HIDE DEF f
    <2> SUFFICES ASSUME f \in DOMAIN blocks PROVE FALSE
      BY DEF f
    <2>5. blocks[u].end < f
      BY <2>2, <2>3
    <2> QED BY <2>1, <2>2, <2>4, <2>5
  <1>7. CASE \E u \in DOMAIN blocks : BlockOperation(u)
    <2>1. PICK u \in DOMAIN blocks : BlockOperation(u)
      BY <1>7
    <2>2. PICK n \in 1 .. blocks[u].amount :
            \/ \E to \in Developers : TransferWhole(u, n, to) \/ TransferPart(u, n, to)
            \/ \E sub \in UseTypes : AddRetireRequest(u, n, sub)
            \/ \E purpose \in Purposes : AddItmoAuthRequest(u, n, purpose)
      BY <2>1 DEF BlockOperation
    <2>3. n \in Nat \ {0}
      BY BlockFacts
    <2>4. blocks[u].owner \in Developers
      BY <2>2 DEF TransferWhole, TransferPart, CanTransfer, AddRetireRequest, AddItmoAuthRequest
    <2>5. CASE \E to \in Developers : TransferPart(u, n, to)
      BY <2>5, <2>3, <2>4, <1>5, <1>6 DEF TransferPart
    <2>6. CASE ~ \E to \in Developers : TransferPart(u, n, to)
      <3>1. \E c : blocks' = [blocks EXCEPT ![u] = c]
        BY <2>2, <2>6 DEF TransferWhole, AddRetireRequest, AddItmoAuthRequest
      <3> QED BY <3>1, <2>4, <1>4
    <2> QED BY <2>5, <2>6
  <1>8. CASE \E r \in DOMAIN requests :
               \E k \in DOMAIN blocks[requests[r].block].records : Decision(r, k)
    <2>0. PICK r \in DOMAIN requests :
            \E k \in DOMAIN blocks[requests[r].block].records : Decision(r, k)
      BY <1>8
    <2>1. PICK k \in DOMAIN blocks[requests[r].block].records : Decision(r, k)
      BY <2>0
    <2> DEFINE u == requests[r].block
               n == blocks[u].records[k].amount
    <2>2. Undecided(r, k)
      BY <2>1 DEF Decision, AcceptRetireWhole, AcceptRetirePart, AcceptItmoWhole,
                  AcceptItmoPart, CanAuthorize, Decline
    <2>3. u \in DOMAIN blocks /\ n \in Nat \ {0} /\ n <= blocks[u].reserved
      BY <2>2, UndecidedFacts
    <2>4. \/ \E c : blocks' = [blocks EXCEPT ![u] = c]
          \/ /\ CanSplit(u, blocks[u], n)
             /\ \E p, c : blocks' = Split(blocks, u, p, SecondStart(blocks[u], n), c)
      BY <2>1 DEF Decision, AcceptRetireWhole, AcceptRetirePart, AcceptItmoWhole,
                  AcceptItmoPart, Decline
    <2> HIDE DEF u
    <2>5. blocks[u].owner \in Developers
      <3>1. SoundBlock(blocks[u]) /\ blocks[u].reserved \in Nat /\ blocks[u] \in CreditBlock
        BY <2>3, BlockFacts
      <3>2. blocks[u].owner \in Companies
        BY <3>1, BlockFields
      <3>3. blocks[u].owner # NoCompany
        BY <2>3, <3>1 DEF SoundBlock
      <3> QED BY <3>2, <3>3 DEF Companies
    <2> HIDE DEF n
    <2> QED BY <2>3, <2>4, <2>5, <1>4, <1>5, <1>6
  <1>9. CASE MarkSubmitted \/ \E status \in CAStatus : UpdateApproach(status)
    BY <1>9 DEF MarkSubmitted, UpdateApproach
  <1> QED BY <1>3, <1>7, <1>8, <1>9 DEF Next

\* Retirement is final: a retired block is never split, moved, authorized or
\* put on request again.
THEOREM RetirementFinal == Spec => RetiredIsFinal
  <1>1. IInv /\ [Next]_vars =>
          [\A s \in DOMAIN blocks : blocks[s].owner = NoCompany =>
                s \in DOMAIN blocks' /\ blocks'[s] = blocks[s]]_vars
    BY RetiredUndisturbed
  <1> QED BY <1>1, Inductive, PTL DEF Spec, RetiredIsFinal

-----------------------------------------------------------------------------
(* Requests and records.  A request is a row of its own and a record inside *)
(* the block; the two are written together but read apart.  RequestsOnFile  *)
(* says what they say of each other, and what a block keeps of the requests *)
(* that were decided on it.                                                 *)

\* What resolveRetirementUseFields lets a block retire for, table being the
\* requests on file.
Permitted(b, sub, table) ==
    IF IsItmo(b)
    THEN \/ sub = "FirstTransferTowardsNDC" /\ table[b.itmo].purpose = "NDC"
         \/ sub = "FirstTransferForOIMP" /\ table[b.itmo].purpose # "NDC"
         \/ sub \in Cancellations
    ELSE sub \notin FirstTransfers

\* Record e of block b is pending: the request it names waits at block s for
\* the company that owns it, and may still be granted for what it asked.
Awaits(e, b, s, table) ==
    LET q == table[e.id] IN
    /\ q.status = "Pending" /\ q.block = s
    /\ q.amount = e.amount /\ q.sender = b.owner
    /\ q.type = "Retired" => Permitted(b, q.subType, table)
    /\ q.type = "ItmoAuthorized" => q.subType = "None" /\ ~IsItmo(b)

RecordsOnFile(b, s, table) ==
    /\ \A k \in DOMAIN b.records : b.records[k].id \in DOMAIN table
    /\ \A k \in DOMAIN b.records : b.records[k].status = "Pending" =>
            Awaits(b.records[k], b, s, table)
    /\ \A j, k \in DOMAIN b.records :
            /\ b.records[j].status = "Pending" /\ b.records[k].status = "Pending"
            /\ b.records[j].id = b.records[k].id
            => j = k

Authorized(b, table) ==
    IsItmo(b) => b.itmo \in DOMAIN table /\ b.itmoEnd = b.end

\* Block b, which starts at s, was retired as a request on file asked.
Closed(b, s, table) ==
    /\ b.owner # NoCompany => b.account = "Holding"
    /\ b.account = "RetirementOIMP" => IsItmo(b) /\ table[b.itmo].purpose # "NDC"
    /\ b.account = "RetirementNDC" /\ IsItmo(b) => table[b.itmo].purpose = "NDC"
    /\ b.owner = NoCompany =>
         \E r \in DOMAIN table :
            /\ table[r].status = "Completed" /\ table[r].block = s
            /\ table[r].amount = b.amount
            /\ b.account = MapSubTypeToAccountType(table[r].subType)

Consistent(b, s, table) ==
    RecordsOnFile(b, s, table) /\ Authorized(b, table) /\ Closed(b, s, table)

Carries(b, r) ==
    \E k \in DOMAIN b.records : b.records[k].id = r /\ b.records[k].status = "Pending"

RequestsOnFile ==
    /\ \A s \in DOMAIN blocks : Consistent(blocks[s], s, requests)
    /\ \A r \in DOMAIN requests : requests[r].status = "Pending" =>
          /\ requests[r].block \in DOMAIN blocks
          /\ Carries(blocks[requests[r].block], r)

\* What an operation on block s may do to the requests: the decided ones and
\* those of other blocks stay as they are, and a purpose is never rewritten.
Keeps(table, new, s) ==
    \A r \in DOMAIN table :
        /\ r \in DOMAIN new /\ new[r].purpose = table[r].purpose
        /\ table[r].status # "Pending" \/ table[r].block # s => new[r] = table[r]

-----------------------------------------------------------------------------
(* One block against the requests *)

LEMMA MayRetireIsPermitted ==
    ASSUME NEW b, NEW sub, MayRetireFor(b, sub)
    PROVE  Permitted(b, sub, requests)
  BY DEF MayRetireFor, Permitted, PurposeOf

\* A permission depends on the authorization of the block and on its purpose.
LEMMA PermittedStays ==
    ASSUME NEW b, NEW table, Authorized(b, table), NEW c, c.itmo = b.itmo,
           NEW new, NEW s, Keeps(table, new, s), NEW sub, Permitted(b, sub, table)
    PROVE  Permitted(c, sub, new)
  BY DEF Permitted, Authorized, Keeps, IsItmo

LEMMA AwaitsStays ==
    ASSUME NEW b, NEW table, Authorized(b, table),
           NEW c, c.itmo = b.itmo, c.owner = b.owner,
           NEW new, NEW u, Keeps(table, new, u), NEW s, NEW e, e.id \in DOMAIN table,
           new[e.id] = table[e.id], Awaits(e, b, s, table)
    PROVE  Awaits(e, c, s, new)
  <1>1. table[e.id].type = "Retired" => Permitted(c, table[e.id].subType, new)
    BY PermittedStays DEF Awaits
  <1> QED BY <1>1 DEF Awaits, IsItmo

LEMMA AwaitsSame ==
    ASSUME NEW b, NEW s, NEW table, NEW c, c.itmo = b.itmo, c.owner = b.owner,
           NEW e, Awaits(e, b, s, table)
    PROVE  Awaits(e, c, s, table)
  BY DEF Awaits, Permitted, IsItmo

\* The same records at a block with the same owner and authorization.
LEMMA SameRecords ==
    ASSUME NEW b, NEW table, NEW s, RecordsOnFile(b, s, table), Authorized(b, table),
           NEW c, c.records = b.records, c.itmo = b.itmo, c.owner = b.owner
    PROVE  RecordsOnFile(c, s, table)
  <1>1. Keeps(table, table, s)
    BY DEF Keeps
  <1>2. \A k \in DOMAIN b.records : b.records[k].status = "Pending" =>
            Awaits(b.records[k], c, s, table)
    BY <1>1, AwaitsStays DEF RecordsOnFile
  <1> QED BY <1>2 DEF RecordsOnFile

LEMMA NonePending ==
    ASSUME NEW c, NEW s, NEW new,
           \A k \in DOMAIN c.records : /\ c.records[k].id \in DOMAIN new
                                       /\ c.records[k].status # "Pending"
    PROVE  RecordsOnFile(c, s, new)
  BY DEF RecordsOnFile

\* The part split off for a request carries only its decided record.
LEMMA CompletedOnFile ==
    ASSUME NEW c, NEW s, NEW new, NEW e, e.id \in DOMAIN new, NEW kind,
           c.records = Completed(e, kind)
    PROVE  RecordsOnFile(c, s, new)
  <1>1. \A k \in DOMAIN c.records : /\ c.records[k].id \in DOMAIN new
                                    /\ c.records[k].status # "Pending"
    BY DEF Completed
  <1> QED BY <1>1, NonePending

\* A block of a company in the holding account claims no retirement.
LEMMA StillOpen ==
    ASSUME NEW c, NEW s, NEW new, c.owner # NoCompany, c.account = "Holding"
    PROVE  Closed(c, s, new)
  BY DEF Closed

\* Block u is not disturbed by an operation on block s.
LEMMA Elsewhere ==
    ASSUME NEW table, NEW new, NEW s, Keeps(table, new, s),
           NEW b, NEW u, u # s, Consistent(b, u, table)
    PROVE  Consistent(b, u, new)
  <1>1. RecordsOnFile(b, u, new)
    <2>1. ASSUME NEW k \in DOMAIN b.records, b.records[k].status = "Pending"
          PROVE  Awaits(b.records[k], b, u, new)
      <3>1. Awaits(b.records[k], b, u, table) /\ b.records[k].id \in DOMAIN table
        BY <2>1 DEF Consistent, RecordsOnFile
      <3>2. new[b.records[k].id] = table[b.records[k].id]
        BY <3>1 DEF Awaits, Keeps
      <3> QED BY <3>1, <3>2, AwaitsStays DEF Consistent
    <2> QED BY <2>1 DEF Consistent, RecordsOnFile, Keeps
  <1>2. Authorized(b, new)
    BY DEF Consistent, Authorized, Keeps
  <1>3. Closed(b, u, new)
    <2>1. /\ IsItmo(b) => new[b.itmo].purpose = table[b.itmo].purpose
      BY DEF Consistent, Authorized, Keeps
    <2>2. ASSUME b.owner = NoCompany
          PROVE  \E r \in DOMAIN new :
                    /\ new[r].status = "Completed" /\ new[r].block = u
                    /\ new[r].amount = b.amount
                    /\ b.account = MapSubTypeToAccountType(new[r].subType)
      <3>1. PICK r \in DOMAIN table :
                    /\ table[r].status = "Completed" /\ table[r].block = u
                    /\ table[r].amount = b.amount
                    /\ b.account = MapSubTypeToAccountType(table[r].subType)
        BY <2>2 DEF Consistent, Closed
      <3>2. r \in DOMAIN new /\ new[r] = table[r]
        BY <3>1 DEF Keeps
      <3> QED BY <3>1, <3>2
    <2> QED BY <2>1, <2>2 DEF Consistent, Closed
  <1> QED BY <1>1, <1>2, <1>3 DEF Consistent

\* A request that covers its block is the only one pending there.
LEMMA CoversAlone ==
    ASSUME NEW b, SoundBlock(b), NEW k \in DOMAIN b.records,
           b.records[k].status = "Pending", CoversBlock(b, k),
           NEW j \in DOMAIN b.records, b.records[j].status = "Pending"
    PROVE  j = k
  <1> DEFINE a(i) == b.records[i].amount
  <1>1. /\ a(j) \in 1 .. b.reserved /\ a(k) \in 1 .. b.reserved
        /\ b.reserved \in Nat
    BY PendingIsReserved, BlockFields DEF SoundBlock
  <1>2. j \in 1 .. Len(b.records) /\ k \in 1 .. Len(b.records) /\ Len(b.records) \in Nat
    BY RecordFields DEF SoundBlock
  <1>3. j < k => a(j) + a(k) <= b.reserved
    BY PendingAddUp
  <1>4. k < j => a(k) + a(j) <= b.reserved
    BY PendingAddUp
  <1>5. a(k) = b.reserved
    BY SMTT(30) DEF CoversBlock
  <1> HIDE DEF a
  <1> QED BY <1>1, <1>2, <1>3, <1>4, <1>5

-----------------------------------------------------------------------------
(* Two kinds of operations on the block table *)

\* Requests wait at block s, for which c now stands, or at another block.
Waiting(table, new, s, c) ==
    \A r \in DOMAIN new : new[r].status = "Pending" =>
        \/ r \in DOMAIN table /\ table[r].block # s
        \/ new[r].block = s /\ Carries(c, r)

LEMMA InPlaceOnFile ==
    ASSUME RequestsOnFile, NEW s \in DOMAIN blocks, NEW c,
           blocks' = [blocks EXCEPT ![s] = c],
           Keeps(requests, requests', s), Waiting(requests, requests', s, c),
           Consistent(c, s, requests')
    PROVE  RequestsOnFile'
  <1>1. DOMAIN blocks' = DOMAIN blocks /\ blocks'[s] = c
        /\ \A u \in DOMAIN blocks : u # s => blocks'[u] = blocks[u]
    OBVIOUS
  <1>2. \A u \in DOMAIN blocks' : Consistent(blocks'[u], u, requests')
    BY <1>1, Elsewhere DEF RequestsOnFile
  <1>3. ASSUME NEW r \in DOMAIN requests', requests'[r].status = "Pending"
        PROVE  /\ requests'[r].block \in DOMAIN blocks'
               /\ Carries(blocks'[requests'[r].block], r)
    <2>1. CASE r \in DOMAIN requests /\ requests[r].block # s
      <3>1. requests'[r] = requests[r]
        BY <2>1 DEF Keeps
      <3> QED BY <1>1, <1>3, <2>1, <3>1 DEF RequestsOnFile
    <2>2. CASE requests'[r].block = s /\ Carries(c, r)
      BY <1>1, <2>2
    <2> QED BY <1>3, <2>1, <2>2 DEF Waiting
  <1> QED BY <1>2, <1>3 DEF RequestsOnFile, Consistent, RecordsOnFile, Awaits,
             Authorized, Closed, Permitted

\* The part split off a block begins where no block does.
LEMMA FreshStart ==
    ASSUME SoundTable(blocks, project.issued), project.issued \in Nat,
           NEW s \in DOMAIN blocks, NEW n \in Nat \ {0}, CanSplit(s, blocks[s], n)
    PROVE  SecondStart(blocks[s], n) \notin DOMAIN blocks
  <1> DEFINE f == SecondStart(blocks[s], n)
             e == blocks[s].end
  <1>1. /\ s \in Nat \ {0} /\ SoundBlock(blocks[s]) /\ s <= e
        /\ \A v \in DOMAIN blocks : s < v => e < v
    BY DEF SoundTable, Partition
  <1>2. e \in Nat
    BY <1>1, BlockFields DEF SoundBlock
  <1>3. s < f /\ f <= e /\ f \in Int
    BY <1>1, <1>2 DEF CanSplit, SecondStart
  <1> HIDE DEF f, e
  <1> SUFFICES ASSUME f \in DOMAIN blocks PROVE FALSE
    BY DEF f
  <1>4. e < f
    BY <1>1, <1>3, SMTT(30)
  <1> QED BY <1>2, <1>3, <1>4

LEMMA SplitOnFile ==
    ASSUME RequestsOnFile, NEW s \in DOMAIN blocks, NEW p, NEW c, NEW f,
           f \notin DOMAIN blocks, blocks' = Split(blocks, s, p, f, c),
           Keeps(requests, requests', s), Waiting(requests, requests', s, p),
           Consistent(p, s, requests'), Consistent(c, f, requests')
    PROVE  RequestsOnFile'
  <1>1. DOMAIN blocks' = DOMAIN blocks \cup {f} /\ blocks'[s] = p /\ blocks'[f] = c
        /\ \A u \in DOMAIN blocks : u # s => blocks'[u] = blocks[u]
    BY DEF Split
  <1>2. \A u \in DOMAIN blocks' : Consistent(blocks'[u], u, requests')
    BY <1>1, Elsewhere DEF RequestsOnFile
  <1>3. ASSUME NEW r \in DOMAIN requests', requests'[r].status = "Pending"
        PROVE  /\ requests'[r].block \in DOMAIN blocks'
               /\ Carries(blocks'[requests'[r].block], r)
    <2>1. CASE r \in DOMAIN requests /\ requests[r].block # s
      <3>1. requests'[r] = requests[r]
        BY <2>1 DEF Keeps
      <3> QED BY <1>1, <1>3, <2>1, <3>1 DEF RequestsOnFile
    <2>2. CASE requests'[r].block = s /\ Carries(p, r)
      BY <1>1, <2>2
    <2> QED BY <1>3, <2>1, <2>2 DEF Waiting
  <1> QED BY <1>2, <1>3 DEF RequestsOnFile, Consistent, RecordsOnFile, Awaits,
             Authorized, Closed, Permitted

-----------------------------------------------------------------------------
(* A decision *)

\* The request decided is the one the record names; its final row is q.
LEMMA DecideKeeps ==
    ASSUME NEW table, NEW r \in DOMAIN table, table[r].status = "Pending",
           NEW q, q.purpose = table[r].purpose, q.status # "Pending",
           NEW new, new = [table EXCEPT ![r] = q]
    PROVE  /\ Keeps(table, new, table[r].block)
           /\ DOMAIN new = DOMAIN table /\ new[r] = q
           /\ \A i \in DOMAIN table : i # r => new[i] = table[i]
  BY DEF Keeps

\* c is block b after its k-th record has been decided.
LEMMA RecordDecided ==
    ASSUME NEW b, NEW s, NEW table, RecordsOnFile(b, s, table), Authorized(b, table),
           NEW k \in DOMAIN b.records, b.records[k].status = "Pending",
           NEW r, r = b.records[k].id,
           NEW new, Keeps(table, new, s), DOMAIN new = DOMAIN table,
           \A i \in DOMAIN table : i # r => new[i] = table[i],
           NEW c, c.itmo = b.itmo, c.owner = b.owner,
           DOMAIN c.records = DOMAIN b.records,
           \A i \in DOMAIN b.records : i # k => c.records[i] = b.records[i],
           c.records[k].id = r, c.records[k].status # "Pending"
    PROVE  RecordsOnFile(c, s, new)
  <1>2. ASSUME NEW i \in DOMAIN c.records, c.records[i].status = "Pending"
        PROVE  Awaits(c.records[i], c, s, new)
    <2> DEFINE e == b.records[i]
    <2>1. i # k /\ c.records[i] = e /\ i \in DOMAIN b.records
      BY <1>2
    <2>2. e.id # r /\ e.id \in DOMAIN table /\ Awaits(e, b, s, table)
      BY <1>2, <2>1 DEF RecordsOnFile
    <2> HIDE DEF e
    <2>3. new[e.id] = table[e.id]
      BY <2>2
    <2>4. Awaits(e, c, s, new)
      BY <2>2, <2>3, AwaitsStays
    <2> QED BY <2>1, <2>4
  <1>3. \A i \in DOMAIN c.records : c.records[i].id \in DOMAIN new
    BY DEF RecordsOnFile
  <1>4. ASSUME NEW i \in DOMAIN c.records, NEW j \in DOMAIN c.records,
               c.records[i].status = "Pending", c.records[j].status = "Pending",
               c.records[i].id = c.records[j].id
        PROVE  i = j
    BY <1>4 DEF RecordsOnFile
  <1> QED BY <1>2, <1>3, <1>4 DEF RecordsOnFile

\* Whatever else waited at the block still does.
LEMMA DecidedWaiting ==
    ASSUME RequestsOnFile, NEW r \in DOMAIN requests, NEW s \in DOMAIN blocks,
           NEW k \in DOMAIN blocks[s].records, blocks[s].records[k].id = r,
           DOMAIN requests' = DOMAIN requests, requests'[r].status # "Pending",
           \A i \in DOMAIN requests : i # r => requests'[i] = requests[i],
           NEW c, DOMAIN c.records = DOMAIN blocks[s].records,
           \A i \in DOMAIN blocks[s].records :
                i # k => c.records[i] = blocks[s].records[i]
    PROVE  Waiting(requests, requests', s, c)
  <1>1. ASSUME NEW i \in DOMAIN requests', requests'[i].status = "Pending",
               requests[i].block = s
        PROVE  requests'[i].block = s /\ Carries(c, i)
    <2>1. i # r /\ requests'[i] = requests[i] /\ i \in DOMAIN requests
      BY <1>1
    <2>2. PICK j \in DOMAIN blocks[s].records :
            blocks[s].records[j].id = i /\ blocks[s].records[j].status = "Pending"
      BY <1>1, <2>1 DEF RequestsOnFile, Carries
    <2> QED BY <1>1, <2>1, <2>2 DEF Carries
  <1> QED BY <1>1 DEF Waiting

\* What an undecided request and its record say of each other.
LEMMA UndecidedOnFile ==
    ASSUME IInv, RequestsOnFile, NEW r \in DOMAIN requests, NEW k, Undecided(r, k),
           NEW s, s = requests[r].block, NEW b, b = blocks[s]
    PROVE  /\ s \in DOMAIN blocks /\ k \in DOMAIN b.records
           /\ b.records[k].id = r /\ b.records[k].status = "Pending"
           /\ requests[r].status = "Pending"
           /\ RecordsOnFile(b, s, requests) /\ Authorized(b, requests)
           /\ Awaits(b.records[k], b, s, requests)
           /\ SoundBlock(b) /\ b.owner # NoCompany /\ b.account = "Holding"
           /\ b.records[k].amount \in 1 .. b.reserved
           /\ requests[r] \in Request /\ requests \in Seq(Request)
  <1>1. /\ s \in DOMAIN blocks /\ k \in DOMAIN b.records
        /\ b.records[k].id = r /\ b.records[k].status = "Pending"
        /\ requests[r].status = "Pending"
    BY DEF Undecided
  <1>2. SoundBlock(b) /\ b.reserved \in Nat
    BY <1>1, BlockFacts
  <1>3. b.records[k].amount \in 1 .. b.reserved
    BY <1>1, <1>2, PendingIsReserved
  <1>4. b.owner # NoCompany
    BY <1>2, <1>3 DEF SoundBlock
  <1>5. Consistent(b, s, requests)
    BY <1>1 DEF RequestsOnFile
  <1>6. b.account = "Holding" /\ RecordsOnFile(b, s, requests) /\ Authorized(b, requests)
    BY <1>4, <1>5 DEF Consistent, Closed
  <1>7. Awaits(b.records[k], b, s, requests)
    BY <1>1, <1>6 DEF RecordsOnFile
  <1>8. requests[r] \in Request /\ requests \in Seq(Request)
    BY RequestFields DEF IInv, RowsTyped
  <1> QED BY <1>1, <1>2, <1>3, <1>4, <1>6, <1>7, <1>8

\* The records of a block whose k-th record is decided.
LEMMA SettledRecords ==
    ASSUME NEW b, SoundBlock(b), NEW k \in DOMAIN b.records,
           b.records[k].status = "Pending", NEW status \in TxStatus \ {"Pending"},
           NEW d, d = Settled(b, k, status)
    PROVE  /\ d \in CreditBlock
           /\ d.end = b.end /\ d.amount = b.amount /\ d.owner = b.owner
           /\ d.itmo = b.itmo /\ d.itmoEnd = b.itmoEnd /\ d.account = b.account
           /\ DOMAIN d.records = DOMAIN b.records
           /\ \A i \in DOMAIN b.records : i # k => d.records[i] = b.records[i]
           /\ d.records[k].status = status /\ d.records[k].id = b.records[k].id
  <1>1. b.records[k].amount \in 1 .. b.reserved /\ b \in CreditBlock /\ status \in TxStatus
    BY PendingIsReserved DEF SoundBlock
  <1>2. b.records[k].amount \in 0 .. b.reserved
    BY <1>1
  <1> QED BY <1>1, <1>2, SettledFields

\* A block retired on request r ends in the account of that request, for a
\* purpose it was authorized for.
LEMMA RetiredClosed ==
    ASSUME NEW b, NEW s, NEW table, Authorized(b, table), NEW e, e.id \in DOMAIN table,
           Awaits(e, b, s, table), table[e.id] \in Request,
           NEW new, Keeps(table, new, s), NEW f,
           new[e.id].status = "Completed", new[e.id].block = f,
           new[e.id].amount = e.amount, new[e.id].subType = table[e.id].subType,
           NEW c, c.owner = NoCompany, c.amount = e.amount, c.itmo = b.itmo,
           c.account = MapSubTypeToAccountType(table[e.id].subType)
    PROVE  Closed(c, f, new)
  <1> DEFINE sub == table[e.id].subType
  <1>1. /\ IsItmo(c) = IsItmo(b)
        /\ IsItmo(b) => new[c.itmo].purpose = table[b.itmo].purpose
    BY DEF IsItmo, Authorized, Keeps
  <1>2. \/ sub = "None"
        \/ Permitted(b, sub, table)
    BY DEF Awaits, Request, TxKind
  <1>3. c.account = "RetirementOIMP" => sub = "FirstTransferForOIMP"
    BY DEF MapSubTypeToAccountType
  <1>4. c.account = "RetirementNDC" => sub \in {"UseTowardsNDC", "FirstTransferTowardsNDC"}
    BY DEF MapSubTypeToAccountType
  <1>5. e.id \in DOMAIN new
    BY DEF Keeps
  <1> HIDE DEF sub
  <1>6. c.account = "RetirementOIMP" => IsItmo(c) /\ new[c.itmo].purpose # "NDC"
    BY <1>1, <1>2, <1>3 DEF Permitted, FirstTransfers, Cancellations
  <1>7. c.account = "RetirementNDC" /\ IsItmo(c) => new[c.itmo].purpose = "NDC"
    BY <1>1, <1>2, <1>4 DEF Permitted, FirstTransfers, Cancellations
  <1> QED BY <1>5, <1>6, <1>7 DEF Closed, sub

-----------------------------------------------------------------------------
(* Steps *)

\* A step that touches no block and no request.
LEMMA OnFileUnchanged ==
    ASSUME RequestsOnFile, UNCHANGED <<blocks, requests>>
    PROVE  RequestsOnFile'
  BY DEF RequestsOnFile, Consistent, RecordsOnFile, Awaits, Authorized, Closed,
         Permitted, Carries

LEMMA IssueOnFile ==
    ASSUME IInv, RequestsOnFile, IssueCredits
    PROVE  RequestsOnFile'
  <1> DEFINE n == project.issued
             new == NewBlocks(report, n, ProjectOwner)
             all == Insert(blocks, new)
  <1>1. IsVintageTotals(report) /\ ProjectOwner \in Developers
    BY LedgerAssumption DEF IssueCredits, IInv, ReportOnFile
  <1>2. SoundTable(blocks, n) /\ n \in Nat
    BY DEF IInv, RowsTyped, ProjectRow
  <1>3. \A s \in DOMAIN blocks : s \in DOMAIN all /\ all[s] = blocks[s]
    BY <1>1, <1>2, IssueSound
  <1>4. /\ DOMAIN new = {VintageStart(report, n, i) : i \in DOMAIN report}
        /\ \A i \in DOMAIN report :
              new[VintageStart(report, n, i)]
                = NewBlock(VintageStart(report, n, i), n + report[i], ProjectOwner)
    BY <1>1, <1>2, NewBlocksAre, ZenonT(40)
  <1> HIDE DEF new
  <1>5. DOMAIN all = DOMAIN blocks \cup DOMAIN new
        /\ \A s \in DOMAIN new : all[s] = new[s]
    BY DEF Insert
  <1> HIDE DEF all
  <1>6. blocks' = all /\ requests' = requests
    BY DEF IssueCredits, all, new
  <1>7. ASSUME NEW s \in DOMAIN new
        PROVE  Consistent(new[s], s, requests)
    <2>1. \E last : new[s] = NewBlock(s, last, ProjectOwner)
      BY <1>4
    <2>2. /\ new[s].records = <<>> /\ new[s].owner = ProjectOwner
          /\ new[s].itmo = 0 /\ new[s].account = "Holding"
      BY <2>1 DEF NewBlock
    <2>3. RecordsOnFile(new[s], s, requests)
      BY <2>2, NonePending
    <2>4. new[s].owner # NoCompany
      BY <1>1, <2>2, CompanyAssumption
    <2> QED BY <2>2, <2>3, <2>4, StillOpen DEF Consistent, Authorized, IsItmo
  <1>8. \A s \in DOMAIN all : Consistent(all[s], s, requests)
    BY <1>3, <1>5, <1>7 DEF RequestsOnFile
  <1>9. \A r \in DOMAIN requests : requests[r].status = "Pending" =>
            requests[r].block \in DOMAIN all /\ Carries(all[requests[r].block], r)
    BY <1>3 DEF RequestsOnFile
  <1> QED BY <1>6, <1>8, <1>9 DEF RequestsOnFile, Consistent, RecordsOnFile, Awaits,
             Authorized, Closed, Permitted, Carries

\* A transfer leaves the requests alone.
LEMMA TransferKeeps ==
    ASSUME RequestsOnFile, requests' = requests, NEW s \in DOMAIN blocks, NEW c,
           c.records = blocks[s].records
    PROVE  Keeps(requests, requests', s) /\ Waiting(requests, requests', s, c)
  BY DEF Keeps, Waiting, RequestsOnFile, Carries

LEMMA TransferWholeOnFile ==
    ASSUME IInv, RequestsOnFile, NEW s \in DOMAIN blocks, NEW n, NEW to \in Developers,
           TransferWhole(s, n, to)
    PROVE  RequestsOnFile'
  <1> DEFINE b == blocks[s]
             c == TransferredWhole(b, to)
  <1>1. SoundBlock(b) /\ b \in CreditBlock /\ b.reserved \in Nat
    BY BlockFacts
  <1>2. /\ b.reserved = 0 /\ ~IsItmo(b) /\ b.owner # NoCompany
        /\ blocks' = [blocks EXCEPT ![s] = c] /\ requests' = requests
    BY CompanyAssumption DEF TransferWhole, CanTransfer, TakesWhole
  <1>3. \A k \in DOMAIN b.records : b.records[k].status # "Pending"
    BY <1>1, <1>2, PendingIsReserved
  <1>4. RecordsOnFile(b, s, requests) /\ b.account = "Holding"
    BY <1>2 DEF RequestsOnFile, Consistent, Closed
  <1> HIDE DEF b
  <1>5. /\ c.records = b.records /\ c.owner = to /\ c.itmo = b.itmo
        /\ c.account = b.account
    BY <1>1 DEF TransferredWhole, CreditBlock
  <1> HIDE DEF c
  <1>6. RecordsOnFile(c, s, requests)
    BY <1>3, <1>4, <1>5, NonePending DEF RecordsOnFile
  <1>7. c.owner # NoCompany
    BY <1>5, CompanyAssumption
  <1>8. Consistent(c, s, requests')
    BY <1>2, <1>4, <1>5, <1>6, <1>7, StillOpen DEF Consistent, Authorized, IsItmo
  <1>9. Keeps(requests, requests', s) /\ Waiting(requests, requests', s, c)
    BY <1>2, <1>5, TransferKeeps DEF b
  <1> QED BY <1>2, <1>8, <1>9, InPlaceOnFile

LEMMA TransferPartOnFile ==
    ASSUME IInv, RequestsOnFile, NEW s \in DOMAIN blocks, NEW n, NEW to \in Developers,
           TransferPart(s, n, to)
    PROVE  RequestsOnFile'
  <1> DEFINE b == blocks[s]
             p == Retained(b, n)
             c == TransferredPart(b, n, to)
             f == SecondStart(b, n)
  <1>1. b \in CreditBlock /\ n \in Nat \ {0} /\ project.issued \in Nat
        /\ SoundTable(blocks, project.issued)
    BY BlockFacts, TransferFacts DEF TransferPart
  <1>2. /\ ~IsItmo(b) /\ b.owner # NoCompany /\ CanSplit(s, b, n)
        /\ blocks' = Split(blocks, s, p, f, c) /\ requests' = requests
    BY CompanyAssumption DEF TransferPart, CanTransfer
  <1>3. f \notin DOMAIN blocks
    BY <1>1, <1>2, FreshStart
  <1>4. /\ RecordsOnFile(b, s, requests) /\ Authorized(b, requests)
        /\ b.account = "Holding"
    BY <1>2 DEF RequestsOnFile, Consistent, Closed
  <1>5. /\ p.records = b.records /\ p.owner = b.owner /\ p.itmo = b.itmo
        /\ p.account = b.account
    BY <1>1 DEF Retained, CreditBlock
  <1>6. c.records = <<>> /\ c.owner = to /\ c.itmo = b.itmo /\ c.account = "Holding"
    BY DEF TransferredPart
  <1>7. Keeps(requests, requests', s) /\ Waiting(requests, requests', s, p)
    BY <1>2, <1>5, TransferKeeps
  <1> HIDE DEF b, p, c, f
  <1>8. Consistent(p, s, requests')
    BY <1>2, <1>4, <1>5, SameRecords, StillOpen DEF Consistent, Authorized, IsItmo
  <1>9. RecordsOnFile(c, f, requests) /\ c.owner # NoCompany
    BY <1>6, NonePending, CompanyAssumption
  <1>10. Consistent(c, f, requests')
    BY <1>2, <1>6, <1>9, StillOpen DEF Consistent, Authorized, IsItmo
  <1> QED BY <1>2, <1>3, <1>7, <1>8, <1>10, SplitOnFile

\* A new request: the block gains a pending record of it.
LEMMA AddOnFile ==
    ASSUME IInv, RequestsOnFile, NEW s \in DOMAIN blocks, NEW n,
           NEW kind \in TxKind, NEW sub, NEW purpose,
           blocks[s].owner \in Developers,
           kind = "Retired" => Permitted(blocks[s], sub, requests),
           kind = "ItmoAuthorized" => sub = "None" /\ ~IsItmo(blocks[s]),
           blocks' = [blocks EXCEPT
                        ![s] = WithRequest(blocks[s], Len(requests) + 1, kind, n)],
           requests' = NewRequest(kind, sub, purpose, n, s)
    PROVE  RequestsOnFile'
  <1> DEFINE b == blocks[s]
             id == Len(requests) + 1
             c == WithRequest(b, id, kind, n)
             e == [id |-> id, type |-> kind, status |-> "Pending", amount |-> n]
             q == [type |-> kind, subType |-> sub, purpose |-> purpose, amount |-> n,
                   sender |-> b.owner, block |-> s, status |-> "Pending"]
             m == Len(b.records)
             new == Append(requests, q)
  <1>1. /\ b \in CreditBlock /\ requests \in Seq(Request)
        /\ Len(requests) \in Nat /\ DOMAIN requests = 1 .. Len(requests)
    BY BlockFacts DEF IInv, RowsTyped
  <1>2. b.records \in Seq(TransactionRecord) /\ m \in Nat /\ DOMAIN b.records = 1 .. m
    BY <1>1, BlockFields
  <1>3. b.owner # NoCompany
    BY CompanyAssumption
  <1>4. RecordsOnFile(b, s, requests) /\ Authorized(b, requests) /\ b.account = "Holding"
    BY <1>3 DEF RequestsOnFile, Consistent, Closed
  <1>5. requests' = new /\ blocks' = [blocks EXCEPT ![s] = c]
    BY DEF NewRequest
  <1>6. DOMAIN new = 1 .. id /\ new[id] = q /\ \A r \in DOMAIN requests : new[r] = requests[r]
    <2> HIDE DEF q
    <2> QED BY <1>1
  <1>7. /\ q.status = "Pending" /\ q.block = s /\ q.amount = e.amount /\ q.sender = b.owner
        /\ q.type = kind /\ q.subType = sub /\ e.id = id /\ e.status = "Pending"
    OBVIOUS
  <1>8. /\ c.owner = b.owner /\ c.itmo = b.itmo /\ c.account = b.account
        /\ c.end = b.end /\ c.itmoEnd = b.itmoEnd
        /\ c.records = Append(b.records, e)
    BY <1>1 DEF WithRequest, CreditBlock
  <1> HIDE DEF c, e, q, new
  <1>9. DOMAIN c.records = 1 .. m + 1 /\ c.records[m + 1] = e
        /\ \A i \in 1 .. m : c.records[i] = b.records[i]
    BY <1>2, <1>8
  <1>10. Keeps(requests, new, s)
    BY <1>1, <1>6 DEF Keeps
  <1>11. \A i \in 1 .. m : b.records[i].id \in DOMAIN requests
    BY <1>2, <1>4 DEF RecordsOnFile
  <1>12. id \notin DOMAIN requests /\ id \in DOMAIN new
         /\ DOMAIN requests \subseteq DOMAIN new
    BY <1>1, <1>6
  <1>13. ASSUME NEW i \in DOMAIN c.records, c.records[i].status = "Pending"
         PROVE  Awaits(c.records[i], c, s, new)
    <2>1. CASE i = m + 1
      <3>1. Awaits(e, b, s, new)
        <4>1. kind = "Retired" => Permitted(b, sub, new)
          BY <1>4, <1>10, PermittedStays
        <4> HIDE DEF b, id
        <4> QED BY <4>1, <1>6, <1>7 DEF Awaits, b
      <3>2. Awaits(e, c, s, new)
        BY <3>1, <1>8, AwaitsSame
      <3> QED BY <2>1, <3>2, <1>9
    <2>2. CASE i \in 1 .. m
      <3> DEFINE d == b.records[i]
      <3>1. d.id \in DOMAIN requests /\ Awaits(d, b, s, requests) /\ c.records[i] = d
        BY <1>2, <1>4, <1>9, <1>11, <1>13, <2>2 DEF RecordsOnFile
      <3> HIDE DEF d
      <3>2. new[d.id] = requests[d.id]
        BY <1>6, <3>1
      <3>3. Awaits(d, c, s, new)
        BY <3>1, <3>2, <1>4, <1>8, <1>10, AwaitsStays
      <3> QED BY <3>1, <3>3
    <2> QED BY <2>1, <2>2, <1>2, <1>9
  <1>14. ASSUME NEW i \in DOMAIN c.records, NEW j \in DOMAIN c.records,
                c.records[i].status = "Pending", c.records[j].status = "Pending",
                c.records[i].id = c.records[j].id
         PROVE  i = j
    <2>1. CASE i \in 1 .. m /\ j \in 1 .. m
      BY <1>2, <1>4, <1>9, <1>14, <2>1 DEF RecordsOnFile
    <2>2. CASE i = m + 1 /\ j = m + 1
      BY <2>2
    <2>3. CASE \/ i = m + 1 /\ j \in 1 .. m
               \/ j = m + 1 /\ i \in 1 .. m
      BY <1>7, <1>9, <1>11, <1>12, <1>14, <2>3
    <2> QED BY <2>1, <2>2, <2>3, <1>2, <1>9
  <1>15. \A i \in DOMAIN c.records : c.records[i].id \in DOMAIN new
    <2>1. \A i \in 1 .. m : c.records[i].id \in DOMAIN new
      BY <1>9, <1>11, <1>12
    <2>2. c.records[m + 1].id \in DOMAIN new
      BY <1>7, <1>9, <1>12
    <2> QED BY <2>1, <2>2, <1>2, <1>9
  <1>16. Consistent(c, s, new)
    <2>1. Authorized(c, new)
      BY <1>4, <1>8, <1>12 DEF Authorized, IsItmo
    <2>2. Closed(c, s, new)
      BY <1>3, <1>4, <1>8, StillOpen
    <2> QED BY <2>1, <2>2, <1>13, <1>14, <1>15 DEF Consistent, RecordsOnFile
  <1>17. Waiting(requests, new, s, c)
    <2> SUFFICES ASSUME NEW r \in DOMAIN new, new[r].status = "Pending",
                        ~(r \in DOMAIN requests /\ requests[r].block # s)
                 PROVE  new[r].block = s /\ Carries(c, r)
      BY DEF Waiting
    <2>1. CASE r = id
      BY <2>1, <1>2, <1>6, <1>7, <1>9 DEF Carries
    <2>2. CASE r # id
      <3>1. r \in DOMAIN requests /\ requests[r].block = s /\ new[r] = requests[r]
        BY <2>2, <1>1, <1>6
      <3>2. PICK i \in DOMAIN b.records :
                b.records[i].id = r /\ b.records[i].status = "Pending"
        BY <3>1 DEF RequestsOnFile, Carries
      <3>3. i \in DOMAIN c.records /\ c.records[i] = b.records[i]
        BY <1>2, <1>9
      <3> QED BY <3>1, <3>2, <3>3 DEF Carries
    <2> QED BY <2>1, <2>2
  <1> HIDE DEF b, id
  <1> QED BY <1>5, <1>10, <1>16, <1>17, InPlaceOnFile

LEMMA AddRetireOnFile ==
    ASSUME IInv, RequestsOnFile, NEW s \in DOMAIN blocks, NEW n, NEW sub \in UseTypes,
           AddRetireRequest(s, n, sub)
    PROVE  RequestsOnFile'
  <1>1. Permitted(blocks[s], sub, requests)
    BY MayRetireIsPermitted DEF AddRetireRequest
  <1>2. "Retired" \in TxKind
    BY DEF TxKind
  <1> QED BY <1>1, <1>2, AddOnFile DEF AddRetireRequest

LEMMA AddItmoOnFile ==
    ASSUME IInv, RequestsOnFile, NEW s \in DOMAIN blocks, NEW n, NEW purpose \in Purposes,
           AddItmoAuthRequest(s, n, purpose)
    PROVE  RequestsOnFile'
  <1>1. "ItmoAuthorized" \in TxKind
    BY DEF TxKind
  <1> QED BY <1>1, AddOnFile DEF AddItmoAuthRequest

LEMMA DeclineOnFile ==
    ASSUME IInv, RequestsOnFile, NEW r \in DOMAIN requests, NEW k,
           NEW status \in {"Rejected", "Cancelled"}, Decline(r, k, status)
    PROVE  RequestsOnFile'
  <1> DEFINE s == requests[r].block
             b == blocks[s]
             c == Settled(b, k, status)
             q == [requests[r] EXCEPT !.status = status]
  <1>1. Undecided(r, k) /\ blocks' = [blocks EXCEPT ![s] = c]
        /\ requests' = [requests EXCEPT ![r] = q]
    BY DEF Decline
  <1>2. /\ s \in DOMAIN blocks /\ k \in DOMAIN b.records
        /\ b.records[k].id = r /\ b.records[k].status = "Pending"
        /\ requests[r].status = "Pending"
        /\ RecordsOnFile(b, s, requests) /\ Authorized(b, requests)
        /\ SoundBlock(b) /\ b.owner # NoCompany /\ b.account = "Holding"
        /\ requests[r] \in Request
    BY <1>1, UndecidedOnFile
  <1>3. status \in TxStatus \ {"Pending"}
    BY DEF TxStatus
  <1>4. q.purpose = requests[r].purpose /\ q.status # "Pending"
    BY <1>2, <1>3 DEF Request
  <1>5. requests[r].block = s
    OBVIOUS
  <1> HIDE DEF s, q
  <1>6. /\ c.end = b.end /\ c.owner = b.owner
        /\ c.itmo = b.itmo /\ c.itmoEnd = b.itmoEnd /\ c.account = b.account
        /\ DOMAIN c.records = DOMAIN b.records
        /\ \A i \in DOMAIN b.records : i # k => c.records[i] = b.records[i]
        /\ c.records[k].status = status /\ c.records[k].id = b.records[k].id
    BY <1>2, <1>3, SettledRecords
  <1> HIDE DEF c
  <1>7. /\ Keeps(requests, requests', s) /\ DOMAIN requests' = DOMAIN requests
        /\ requests'[r] = q
        /\ \A i \in DOMAIN requests : i # r => requests'[i] = requests[i]
    <2>1. requests' = [requests EXCEPT ![r] = q]
      BY <1>1
    <2> QED BY <2>1, <1>2, <1>4, <1>5 DEF Keeps
  <1>11. Waiting(requests, requests', s, c)
    BY <1>2, <1>4, <1>6, <1>7, DecidedWaiting
  <1> HIDE DEF b
  <1>8. RecordsOnFile(c, s, requests')
    <2>1. c.records[k].id = r /\ c.records[k].status # "Pending"
      BY <1>2, <1>3, <1>6
    <2> QED BY <2>1, <1>2, <1>6, <1>7, RecordDecided
  <1>9. Closed(c, s, requests')
    BY <1>2, <1>6, StillOpen
  <1>10. Authorized(c, requests')
    BY <1>2, <1>6, <1>7 DEF Authorized, IsItmo, Keeps
  <1> QED BY <1>1, <1>2, <1>7, <1>8, <1>9, <1>10, <1>11, InPlaceOnFile DEF Consistent

\* An approved request, now at block f; d is its block with the record decided.
LEMMA AcceptFacts ==
    ASSUME IInv, RequestsOnFile, NEW r \in DOMAIN requests, NEW k, Undecided(r, k),
           NEW s, s = requests[r].block, NEW b, b = blocks[s], NEW f, Complete(r, f),
           NEW d, d = Settled(b, k, "Completed")
    PROVE  /\ s \in DOMAIN blocks /\ k \in DOMAIN b.records
           /\ b.records[k].id = r /\ b.records[k].status = "Pending"
           /\ Authorized(b, requests) /\ Awaits(b.records[k], b, s, requests)
           /\ SoundBlock(b) /\ b.owner # NoCompany /\ b.account = "Holding"
           /\ b.records[k].amount \in Nat \ {0} /\ requests[r] \in Request
           /\ Keeps(requests, requests', s) /\ DOMAIN requests' = DOMAIN requests
           /\ \A i \in DOMAIN requests : i # r => requests'[i] = requests[i]
           /\ requests'[r].status = "Completed" /\ requests'[r].block = f
           /\ requests'[r].amount = b.records[k].amount
           /\ requests'[r].subType = requests[r].subType
           /\ d \in CreditBlock
           /\ d.end = b.end /\ d.amount = b.amount /\ d.owner = b.owner
           /\ d.itmo = b.itmo /\ d.itmoEnd = b.itmoEnd /\ d.account = b.account
           /\ RecordsOnFile(d, s, requests')
           /\ DOMAIN d.records = DOMAIN b.records
           /\ \A i \in DOMAIN b.records : i # k => d.records[i] = b.records[i]
           /\ d.records[k].status # "Pending"
  <1> DEFINE q == [requests[r] EXCEPT !.status = "Completed", !.block = f]
  <1>1. /\ s \in DOMAIN blocks /\ k \in DOMAIN b.records
        /\ b.records[k].id = r /\ b.records[k].status = "Pending"
        /\ requests[r].status = "Pending"
        /\ RecordsOnFile(b, s, requests) /\ Authorized(b, requests)
        /\ Awaits(b.records[k], b, s, requests)
        /\ SoundBlock(b) /\ b.owner # NoCompany /\ b.account = "Holding"
        /\ b.records[k].amount \in 1 .. b.reserved
        /\ requests[r] \in Request
    BY UndecidedOnFile
  <1>2. b.records[k].amount \in Nat \ {0}
    BY <1>1, BlockFields DEF SoundBlock
  <1>3. /\ requests' = [requests EXCEPT ![r] = q]
        /\ q.status = "Completed" /\ q.block = f /\ q.purpose = requests[r].purpose
        /\ q.amount = requests[r].amount /\ q.subType = requests[r].subType
    BY <1>1 DEF Complete, Request
  <1> HIDE DEF q
  <1>4. /\ Keeps(requests, requests', s) /\ DOMAIN requests' = DOMAIN requests
        /\ requests'[r] = q
        /\ \A i \in DOMAIN requests : i # r => requests'[i] = requests[i]
    BY <1>1, <1>3, DecideKeeps
  <1>5. /\ d \in CreditBlock
        /\ d.end = b.end /\ d.amount = b.amount /\ d.owner = b.owner
        /\ d.itmo = b.itmo /\ d.itmoEnd = b.itmoEnd /\ d.account = b.account
        /\ DOMAIN d.records = DOMAIN b.records
        /\ \A i \in DOMAIN b.records : i # k => d.records[i] = b.records[i]
        /\ d.records[k].status = "Completed" /\ d.records[k].id = r
    <2>1. "Completed" \in TxStatus \ {"Pending"}
      BY DEF TxStatus
    <2> QED BY <1>1, <2>1, SettledRecords
  <1>6. RecordsOnFile(d, s, requests')
    BY <1>1, <1>4, <1>5, RecordDecided
  <1>7. requests[r].amount = b.records[k].amount
    BY <1>1 DEF Awaits
  <1> QED BY <1>1, <1>2, <1>3, <1>4, <1>5, <1>6, <1>7

LEMMA RetireWholeOnFile ==
    ASSUME IInv, RequestsOnFile, NEW r \in DOMAIN requests, NEW k,
           AcceptRetireWhole(r, k)
    PROVE  RequestsOnFile'
  <1> DEFINE s == requests[r].block
             b == blocks[s]
             account == MapSubTypeToAccountType(requests[r].subType)
             d == Settled(b, k, "Completed")
             c == RetiredWhole(b, k, account)
  <1>1. /\ Undecided(r, k) /\ CoversBlock(b, k) /\ Complete(r, s)
        /\ blocks' = [blocks EXCEPT ![s] = c]
    BY DEF AcceptRetireWhole
  <1>2. requests[r].block = s /\ b = blocks[s] /\ d = Settled(b, k, "Completed")
    OBVIOUS
  <1>3. c = [d EXCEPT !.owner = NoCompany, !.isNotTransferred = FALSE, !.account = account]
    BY DEF RetiredWhole
  <1> HIDE DEF s, b, d, c
  <1>4. /\ s \in DOMAIN blocks /\ k \in DOMAIN b.records
        /\ b.records[k].id = r /\ b.records[k].status = "Pending"
        /\ Authorized(b, requests) /\ Awaits(b.records[k], b, s, requests)
        /\ SoundBlock(b) /\ requests[r] \in Request
        /\ Keeps(requests, requests', s) /\ DOMAIN requests' = DOMAIN requests
        /\ \A i \in DOMAIN requests : i # r => requests'[i] = requests[i]
        /\ requests'[r].status = "Completed" /\ requests'[r].block = s
        /\ requests'[r].amount = b.records[k].amount
        /\ requests'[r].subType = requests[r].subType
        /\ d \in CreditBlock
        /\ d.end = b.end /\ d.amount = b.amount
        /\ d.itmo = b.itmo /\ d.itmoEnd = b.itmoEnd
        /\ RecordsOnFile(d, s, requests')
        /\ DOMAIN d.records = DOMAIN b.records
        /\ \A i \in DOMAIN b.records : i # k => d.records[i] = b.records[i]
        /\ d.records[k].status # "Pending"
    BY <1>1, <1>2, AcceptFacts, SMTT(30)
  <1>5. /\ c.owner = NoCompany /\ c.account = account /\ c.records = d.records
        /\ c.amount = b.amount /\ c.end = b.end
        /\ c.itmo = b.itmo /\ c.itmoEnd = b.itmoEnd
    BY <1>3, <1>4 DEF CreditBlock
  <1>6. \A i \in DOMAIN c.records : /\ c.records[i].id \in DOMAIN requests'
                                    /\ c.records[i].status # "Pending"
    <2>1. \A i \in DOMAIN b.records : i # k => b.records[i].status # "Pending"
      BY <1>1, <1>4, CoversAlone
    <2> QED BY <2>1, <1>4, <1>5 DEF RecordsOnFile
  <1>7. RecordsOnFile(c, s, requests')
    BY <1>6, NonePending
  <1>8. Authorized(c, requests')
    BY <1>4, <1>5 DEF Authorized, IsItmo
  <1>9. Closed(c, s, requests')
    <2> DEFINE e == b.records[k]
    <2>1. e.id = r /\ c.amount = e.amount /\ Awaits(e, b, s, requests)
      BY <1>1, <1>4, <1>5 DEF CoversBlock
    <2>2. requests'[r].amount = e.amount
      BY <1>4
    <2> HIDE DEF e
    <2> QED BY <2>1, <2>2, <1>4, <1>5, RetiredClosed
  <1>10. Waiting(requests, requests', s, c)
    BY <1>2, <1>4, <1>5, DecidedWaiting
  <1> QED BY <1>1, <1>4, <1>7, <1>8, <1>9, <1>10, InPlaceOnFile DEF Consistent

LEMMA RetirePartOnFile ==
    ASSUME IInv, RequestsOnFile, NEW r \in DOMAIN requests, NEW k,
           AcceptRetirePart(r, k)
    PROVE  RequestsOnFile'
  <1> DEFINE s == requests[r].block
             b == blocks[s]
             n == b.records[k].amount
             account == MapSubTypeToAccountType(requests[r].subType)
             d == Settled(b, k, "Completed")
             p == RetiredRest(b, k)
             c == RetiredPart(b, k, account)
             f == SecondStart(b, n)
  <1>1. /\ Undecided(r, k) /\ CanSplit(s, b, n) /\ Complete(r, f)
        /\ blocks' = Split(blocks, s, p, f, c)
    BY DEF AcceptRetirePart
  <1>2. requests[r].block = s /\ b = blocks[s] /\ d = Settled(b, k, "Completed")
    OBVIOUS
  <1>3. p = [Retained(d, n) EXCEPT !.itmoEnd = IF @ = 0 THEN 0 ELSE @ - n]
    BY DEF RetiredRest
  <1>4. /\ c.owner = NoCompany /\ c.account = account /\ c.amount = n
        /\ c.end = b.end /\ c.itmo = b.itmo /\ c.itmoEnd = b.itmoEnd
        /\ c.records = Completed(b.records[k], "Retired")
    BY DEF RetiredPart
  <1> HIDE DEF s, b, d, c, p
  <1>5. /\ s \in DOMAIN blocks /\ k \in DOMAIN b.records
        /\ b.records[k].id = r /\ b.records[k].status = "Pending"
        /\ Authorized(b, requests) /\ Awaits(b.records[k], b, s, requests)
        /\ SoundBlock(b) /\ b.owner # NoCompany /\ b.account = "Holding"
        /\ n \in Nat \ {0} /\ requests[r] \in Request
        /\ Keeps(requests, requests', s) /\ DOMAIN requests' = DOMAIN requests
        /\ \A i \in DOMAIN requests : i # r => requests'[i] = requests[i]
        /\ requests'[r].status = "Completed" /\ requests'[r].block = f
        /\ requests'[r].amount = n
        /\ requests'[r].subType = requests[r].subType
        /\ d \in CreditBlock
        /\ d.end = b.end /\ d.owner = b.owner
        /\ d.itmo = b.itmo /\ d.itmoEnd = b.itmoEnd /\ d.account = b.account
        /\ RecordsOnFile(d, s, requests')
        /\ DOMAIN d.records = DOMAIN b.records
        /\ \A i \in DOMAIN b.records : i # k => d.records[i] = b.records[i]
    BY <1>1, <1>2, AcceptFacts
  <1>6. f \notin DOMAIN blocks
    BY <1>1, <1>2, <1>5, BlockFacts, FreshStart
  <1>7. /\ p.owner = b.owner /\ p.account = b.account /\ p.records = d.records
        /\ p.end = b.end - n /\ p.itmo = b.itmo
        /\ p.itmoEnd = IF b.itmoEnd = 0 THEN 0 ELSE b.itmoEnd - n
    <2> HIDE DEF n
    <2> QED BY <1>3, <1>5 DEF CreditBlock, Retained
  <1>8. Authorized(p, requests') /\ Authorized(d, requests') /\ Authorized(c, requests')
    <2>1. s \in Nat \ {0} /\ s <= b.end /\ b.end \in Nat
      BY <1>2, <1>5, BlockFacts
    <2> HIDE DEF n
    <2> QED BY <2>1, <1>4, <1>5, <1>7 DEF Authorized, IsItmo
  <1>9. Consistent(p, s, requests')
    <2>1. RecordsOnFile(p, s, requests')
      BY <1>5, <1>7, <1>8, SameRecords
    <2> QED BY <2>1, <1>5, <1>7, <1>8, StillOpen DEF Consistent
  <1>10. Closed(c, f, requests')
    <2> DEFINE e == b.records[k]
    <2>1. e.id = r /\ c.amount = e.amount /\ Awaits(e, b, s, requests)
          /\ requests'[r].amount = e.amount
      BY <1>4, <1>5
    <2> HIDE DEF e, n, f
    <2>2. /\ requests[e.id] \in Request /\ e.id \in DOMAIN requests
          /\ requests'[e.id].status = "Completed" /\ requests'[e.id].block = f
          /\ requests'[e.id].amount = e.amount
          /\ requests'[e.id].subType = requests[e.id].subType
          /\ c.account = MapSubTypeToAccountType(requests[e.id].subType)
      BY <2>1, <1>4, <1>5
    <2> HIDE DEF account
    <2>3. /\ Authorized(b, requests) /\ Keeps(requests, requests', s)
          /\ c.owner = NoCompany /\ c.itmo = b.itmo
      BY <1>4, <1>5
    <2> QED BY <2>1, <2>2, <2>3, RetiredClosed
  <1>11. RecordsOnFile(c, f, requests')
    BY <1>4, <1>5, CompletedOnFile
  <1>12. Waiting(requests, requests', s, p)
    BY <1>2, <1>5, <1>7, DecidedWaiting
  <1>13. Consistent(c, f, requests')
    BY <1>8, <1>10, <1>11 DEF Consistent
  <1> HIDE DEF n, f
  <1> QED BY <1>1, <1>5, <1>6, <1>9, <1>12, <1>13, SplitOnFile

LEMMA AuthorizeWholeOnFile ==
    ASSUME IInv, RequestsOnFile, NEW r \in DOMAIN requests, NEW k,
           AcceptItmoWhole(r, k)
    PROVE  RequestsOnFile'
  <1> DEFINE s == requests[r].block
             b == blocks[s]
             d == Settled(b, k, "Completed")
             c == AuthorizedWhole(b, k)
  <1>1. /\ Undecided(r, k) /\ CoversBlock(b, k) /\ Complete(r, s)
        /\ blocks' = [blocks EXCEPT ![s] = c]
    BY DEF AcceptItmoWhole, CanAuthorize
  <1>2. requests[r].block = s /\ b = blocks[s] /\ d = Settled(b, k, "Completed")
    OBVIOUS
  <1>3. c = [d EXCEPT !.itmo = b.records[k].id, !.itmoEnd = b.end]
    BY DEF AuthorizedWhole
  <1> HIDE DEF s, b, d, c
  <1>4. /\ s \in DOMAIN blocks /\ k \in DOMAIN b.records
        /\ b.records[k].id = r /\ b.records[k].status = "Pending"
        /\ SoundBlock(b) /\ b.owner # NoCompany /\ b.account = "Holding"
        /\ Keeps(requests, requests', s) /\ DOMAIN requests' = DOMAIN requests
        /\ requests'[r].status = "Completed"
        /\ \A i \in DOMAIN requests : i # r => requests'[i] = requests[i]
        /\ d \in CreditBlock
        /\ d.end = b.end /\ d.owner = b.owner /\ d.account = b.account
        /\ RecordsOnFile(d, s, requests')
        /\ DOMAIN d.records = DOMAIN b.records
        /\ \A i \in DOMAIN b.records : i # k => d.records[i] = b.records[i]
        /\ d.records[k].status # "Pending"
    BY <1>1, <1>2, AcceptFacts
  <1>5. /\ c.owner = b.owner /\ c.account = b.account /\ c.records = d.records
        /\ c.end = b.end /\ c.itmo = r /\ c.itmoEnd = b.end
    BY <1>3, <1>4 DEF CreditBlock
  <1>6. \A i \in DOMAIN c.records : /\ c.records[i].id \in DOMAIN requests'
                                    /\ c.records[i].status # "Pending"
    <2>1. \A i \in DOMAIN b.records : i # k => b.records[i].status # "Pending"
      BY <1>1, <1>4, CoversAlone
    <2> QED BY <2>1, <1>4, <1>5 DEF RecordsOnFile
  <1>7. RecordsOnFile(c, s, requests')
    BY <1>6, NonePending
  <1>8. Authorized(c, requests')
    BY <1>4, <1>5 DEF Authorized
  <1>9. Closed(c, s, requests')
    BY <1>4, <1>5, StillOpen
  <1>10. Waiting(requests, requests', s, c)
    BY <1>2, <1>4, <1>5, DecidedWaiting
  <1> QED BY <1>1, <1>4, <1>7, <1>8, <1>9, <1>10, InPlaceOnFile DEF Consistent

LEMMA AuthorizePartOnFile ==
    ASSUME IInv, RequestsOnFile, NEW r \in DOMAIN requests, NEW k,
           AcceptItmoPart(r, k)
    PROVE  RequestsOnFile'
  <1> DEFINE s == requests[r].block
             b == blocks[s]
             n == b.records[k].amount
             d == Settled(b, k, "Completed")
             p == Retained(d, n)
             c == AuthorizedPart(b, k)
             f == SecondStart(b, n)
  <1>1. /\ Undecided(r, k) /\ CanSplit(s, b, n) /\ Complete(r, f)
        /\ requests[r].type = "ItmoAuthorized"
        /\ blocks' = Split(blocks, s, p, f, c)
    BY DEF AcceptItmoPart, CanAuthorize
  <1>2. requests[r].block = s /\ b = blocks[s] /\ d = Settled(b, k, "Completed")
        /\ p = Retained(d, n)
    OBVIOUS
  <1>3. /\ c.owner = b.owner /\ c.account = "Holding"
        /\ c.end = b.end /\ c.itmo = b.records[k].id /\ c.itmoEnd = b.end
        /\ c.records = Completed(b.records[k], "ItmoAuthorized")
    BY DEF AuthorizedPart
  <1> HIDE DEF s, b, d, c, p
  <1>4. /\ s \in DOMAIN blocks /\ k \in DOMAIN b.records
        /\ b.records[k].id = r /\ b.records[k].status = "Pending"
        /\ Awaits(b.records[k], b, s, requests)
        /\ b.owner # NoCompany /\ b.account = "Holding" /\ n \in Nat \ {0}
        /\ Keeps(requests, requests', s) /\ DOMAIN requests' = DOMAIN requests
        /\ requests'[r].status = "Completed"
        /\ \A i \in DOMAIN requests : i # r => requests'[i] = requests[i]
        /\ d \in CreditBlock /\ d.owner = b.owner
        /\ d.itmo = b.itmo /\ d.account = b.account
        /\ RecordsOnFile(d, s, requests')
        /\ DOMAIN d.records = DOMAIN b.records
        /\ \A i \in DOMAIN b.records : i # k => d.records[i] = b.records[i]
    BY <1>1, <1>2, AcceptFacts
  <1>5. f \notin DOMAIN blocks
    BY <1>1, <1>2, <1>4, BlockFacts, FreshStart
  <1>6. /\ p.owner = b.owner /\ p.account = b.account /\ p.records = d.records
        /\ p.itmo = b.itmo
    <2> HIDE DEF n
    <2> QED BY <1>2, <1>4 DEF CreditBlock, Retained
  <1>7. ~IsItmo(b)
    BY <1>1, <1>4 DEF Awaits
  <1>8. Consistent(p, s, requests')
    <2>1. Authorized(p, requests') /\ Authorized(d, requests')
      BY <1>4, <1>6, <1>7 DEF Authorized, IsItmo
    <2>2. RecordsOnFile(p, s, requests')
      BY <2>1, <1>4, <1>6, SameRecords
    <2> QED BY <2>1, <2>2, <1>4, <1>6, StillOpen DEF Consistent
  <1>9. Authorized(c, requests') /\ Closed(c, f, requests')
    BY <1>3, <1>4, StillOpen DEF Authorized
  <1>10. RecordsOnFile(c, f, requests')
    BY <1>3, <1>4, CompletedOnFile
  <1>11. Waiting(requests, requests', s, p)
    BY <1>2, <1>4, <1>6, DecidedWaiting
  <1>12. Consistent(c, f, requests')
    BY <1>9, <1>10 DEF Consistent
  <1> HIDE DEF n, f
  <1> QED BY <1>1, <1>4, <1>5, <1>8, <1>11, <1>12, SplitOnFile

-----------------------------------------------------------------------------
(* The inductive invariant *)

LEMMA NextOnFile == IInv /\ RequestsOnFile /\ [Next]_vars => RequestsOnFile'
  <1> SUFFICES ASSUME IInv, RequestsOnFile, [Next]_vars PROVE RequestsOnFile'
    OBVIOUS
  <1>1. CASE UNCHANGED vars
    BY <1>1, OnFileUnchanged DEF vars
  <1>2. CASE Issuance
    <2>1. CASE IssueCredits
      BY <2>1, IssueOnFile
    <2>2. CASE ~IssueCredits
      BY <1>2, <2>2, OnFileUnchanged
         DEF Issuance, VerifyMonitoring, UploadVerification, RejectVerification
    <2> QED BY <2>1, <2>2
  <1>3. CASE \E s \in DOMAIN blocks : BlockOperation(s)
    BY <1>3, TransferWholeOnFile, TransferPartOnFile, AddRetireOnFile, AddItmoOnFile
       DEF BlockOperation
  <1>4. CASE \E r \in DOMAIN requests :
               \E k \in DOMAIN blocks[requests[r].block].records : Decision(r, k)
    BY <1>4, RetireWholeOnFile, RetirePartOnFile, AuthorizeWholeOnFile,
       AuthorizePartOnFile, DeclineOnFile DEF Decision
  <1>5. CASE MarkSubmitted \/ \E status \in CAStatus : UpdateApproach(status)
    BY <1>5, OnFileUnchanged DEF MarkSubmitted, UpdateApproach
  <1> QED BY <1>1, <1>2, <1>3, <1>4, <1>5 DEF Next

\* The requests and the records of the blocks agree in every state the program
\* can reach: this is the second inductive invariant, on top of IInv.
THEOREM OnFile == Spec => []RequestsOnFile
  <1>1. Init => RequestsOnFile
    BY DEF Init, RequestsOnFile
  <1> QED BY <1>1, NextOnFile, Inductive, PTL DEF Spec

\* A pending request can always be decided: the block it names still exists,
\* belongs to the company that asked and is wide enough, whatever was moved,
\* split or authorized around it since it was made.
THEOREM PendingSettleable == Spec => []PendingCanBeSettled
  <1>1. IInv /\ RequestsOnFile => PendingCanBeSettled
    <2> SUFFICES ASSUME IInv, RequestsOnFile, NEW r \in DOMAIN requests,
                        requests[r].status = "Pending", NEW s, s = requests[r].block
                 PROVE  \E k \in DOMAIN blocks[s].records :
                          /\ Undecided(r, k)
                          /\ blocks[s].records[k].amount = requests[r].amount
                          /\ blocks[s].owner = requests[r].sender
                          /\ CoversBlock(blocks[s], k)
                             \/ CanSplit(s, blocks[s], requests[r].amount)
      BY DEF PendingCanBeSettled
    <2> DEFINE b == blocks[s]
    <2>1. s \in DOMAIN blocks /\ Carries(b, r) /\ RecordsOnFile(b, s, requests)
      BY DEF RequestsOnFile, Consistent
    <2>2. PICK k \in DOMAIN b.records :
            b.records[k].id = r /\ b.records[k].status = "Pending"
      BY <2>1 DEF Carries
    <2>3. b.records[k].amount = requests[r].amount /\ b.owner = requests[r].sender
      BY <2>1, <2>2 DEF RecordsOnFile, Awaits
    <2>4. /\ SoundBlock(b) /\ b.end \in Nat /\ s \in Nat /\ b.amount \in Nat
          /\ b.reserved \in Nat /\ b.amount = b.end - s + 1
      BY <2>1, BlockFacts
    <2>5. b.reserved <= b.amount /\ b.records[k].amount \in 1 .. b.reserved
      BY <2>2, <2>4, PendingIsReserved DEF SoundBlock
    <2>6. CoversBlock(b, k) \/ CanSplit(s, b, b.records[k].amount)
      BY <2>4, <2>5 DEF CoversBlock, CanSplit
    <2>7. Undecided(r, k)
      BY <2>1, <2>2 DEF Undecided
    <2> QED BY <2>2, <2>3, <2>6, <2>7
  <1> QED BY <1>1, OnFile, Inductive, PTL

\* No credit leaves the country, or is used towards an NDC as an ITMO, for a
\* purpose it was not authorized for, although the purpose is looked up only
\* when the retirement is requested and the approval comes later.
THEOREM PurposeKept == Spec => []RetiredForItsPurpose
  <1>1. RequestsOnFile => RetiredForItsPurpose
    BY DEF RequestsOnFile, Consistent, Closed, RetiredForItsPurpose, PurposeOf
  <1> QED BY <1>1, OnFile, PTL

\* Every retired block leads back to the completed request that covers it, and
\* stays so through every later issuance, split and decision.
THEOREM RetirementsTraced == Spec => []RetirementTraceable
  <1>1. RequestsOnFile => RetirementTraceable
    BY DEF RequestsOnFile, Consistent, Closed, RetirementTraceable
  <1> QED BY <1>1, OnFile, PTL

\* The serial of an ITMO ends where its block ends, through partial retirements
\* and any later request on the same block.
THEOREM ItmoSerialsMatch == Spec => []ItmoSerialMatches
  <1>1. RequestsOnFile => ItmoSerialMatches
    BY DEF RequestsOnFile, Consistent, Authorized, ItmoSerialMatches
  <1> QED BY <1>1, OnFile, PTL

=============================================================================
