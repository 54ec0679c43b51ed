--------------------------- MODULE AuditChainProofs ---------------------------
(***************************************************************************)
(* Theorems about AuditChain: for any number of transactions, appends and  *)
(* stops the table is one well-formed chain.                               *)
(***************************************************************************)
EXTENDS AuditChain, SequenceTheorems, TLAPS

Material ==
  [sequence_number : Nat, event : STRING, payload : {"given"}, created_at : {"aware"}]
Digest == Seq(Material)
LogRow ==
  [sequence_number : Nat, event : STRING, payload : {"given"}, previous_hash : Digest,
   entry_hash : Digest, signature : [signed : Digest], created_at : {"aware"}]

Stored ==
  /\ chain \in Seq(LogRow) /\ pending \in Seq(LogRow)
  /\ read \in [Txs -> Seq(LogRow)]

\* What an append has read: all there is, if its transaction is the writer, else
\* what was committed at some earlier moment.
ReadBefore(t) ==
  pc[t] = "inserting" =>
    /\ done[t] < Len(Appends[t])
    /\ writer = t => read[t] = chain \o pending
    /\ writer # t => /\ Len(read[t]) <= Len(chain)
                     /\ \A i \in 1..Len(read[t]) : read[t][i] = chain[i]

\* Who has appended and not ended is the writer, and nobody else.
Owns(t) ==
  /\ pc[t] \in {"working", "inserting"} /\ done[t] > 0 => writer = t
  /\ writer = t => pc[t] \in {"working", "inserting"}

IInv ==
  /\ TypeOK /\ Stored /\ ChainWellFormed
  /\ \A t \in Txs : ReadBefore(t) /\ Owns(t)

-----------------------------------------------------------------------------
(***************************************************************************)
(* Well-formed chains.                                                     *)
(***************************************************************************)

LEMMA NumberAfter ==
  ASSUME NEW rows \in Seq(LogRow), WellFormed(rows)
  PROVE  NextNumber(rows) = Len(rows) + 1
<1>1. CASE rows = <<>>
  BY <1>1 DEF NextNumber
<1>2. CASE rows # <<>>
  <2>1. Len(rows) \in DOMAIN rows
    BY <1>2
  <2> QED BY <1>2, <2>1 DEF NextNumber, Last, WellFormed
<1> QED BY <1>1, <1>2

LEMMA NewRowStored ==
  ASSUME NEW rows \in Seq(LogRow), NEW event \in STRING
  PROVE  NewRow(rows, event) \in LogRow
<1>1. LastHash(rows) \in Digest /\ NextNumber(rows) \in Nat
  <2>1. CASE rows = <<>>
    BY <2>1 DEF LastHash, NextNumber, Digest
  <2>2. CASE rows # <<>>
    <3>1. rows[Len(rows)] \in LogRow
      BY <2>2
    <3> QED BY <2>2, <3>1 DEF LastHash, NextNumber, Last, LogRow
  <2> QED BY <2>1, <2>2
<1>2. PICK number \in Nat, previous \in Digest :
        number = NextNumber(rows) /\ previous = LastHash(rows)
  BY <1>1
<1> DEFINE material == [sequence_number |-> number, event |-> event, payload |-> "given",
                       created_at |-> "aware"]
           hash == Append(previous, material)
<1>3. material \in Material
  BY DEF Material
<1>4. hash \in Digest
  <2> HIDE DEF material
  <2> QED BY <1>3, AppendProperties DEF Digest
<1>5. NewRow(rows, event) =
        [sequence_number |-> number, event |-> event, payload |-> "given",
         previous_hash |-> previous, entry_hash |-> hash, signature |-> [signed |-> hash],
         created_at |-> "aware"]
  BY <1>2 DEF NewRow, Hash, Sign
<1> HIDE DEF hash
<1> QED BY <1>4, <1>5 DEF LogRow

\* A row made from all rows there are continues the chain.
LEMMA Continues ==
  ASSUME NEW rows \in Seq(LogRow), WellFormed(rows), NEW event \in STRING
  PROVE  WellFormed(Append(rows, NewRow(rows, event)))
<1> DEFINE row == NewRow(rows, event)
           more == Append(rows, row)
           n == Len(rows)
<1>1. row \in LogRow
  BY NewRowStored
<1>2. /\ Len(more) = n + 1 /\ n \in Nat
      /\ \A i \in 1..n : more[i] = rows[i]
      /\ more[n + 1] = row
      /\ DOMAIN more = 1..(n + 1) /\ DOMAIN rows = 1..n
  <2> HIDE DEF row
  <2> QED BY <1>1, AppendProperties
<1>3. /\ row.sequence_number = n + 1
      /\ row.previous_hash = LastHash(rows)
      /\ row.entry_hash = Hash(n + 1, row.event, row.payload, row.previous_hash, row.created_at)
      /\ row.signature = Sign(row.entry_hash)
  BY NumberAfter DEF NewRow
<1>4. LastHash(rows) = IF n + 1 = 1 THEN <<>> ELSE rows[n].entry_hash
  BY DEF LastHash, Last
<1> HIDE DEF row, more, n
<1> DEFINE Fits(i) ==
             /\ more[i].sequence_number = i
             /\ more[i].previous_hash = IF i = 1 THEN <<>> ELSE more[i - 1].entry_hash
             /\ more[i].entry_hash =
                  Hash(i, more[i].event, more[i].payload, more[i].previous_hash,
                       more[i].created_at)
             /\ more[i].signature = Sign(more[i].entry_hash)
<1>5. ASSUME NEW i \in 1..n PROVE Fits(i)
  BY <1>2, <1>5 DEF WellFormed
<1>6. Fits(n + 1)
  BY <1>2, <1>3, <1>4
<1>7. \A i \in DOMAIN more : i \in 1..n \/ i = n + 1
  BY <1>2
<1>8. (\A i \in DOMAIN more : Fits(i)) => WellFormed(more)
  BY DEF WellFormed
<1> HIDE DEF Fits
<1> QED BY <1>5, <1>6, <1>7, <1>8 DEF more, row

\* The beginning of a chain is a chain.
LEMMA PrefixWellFormed ==
  ASSUME NEW rows \in Seq(LogRow), NEW more \in Seq(LogRow), WellFormed(rows \o more),
         NEW some \in Seq(LogRow), Len(some) <= Len(rows),
         \A i \in 1..Len(some) : some[i] = rows[i]
  PROVE  WellFormed(some)
<1> DEFINE whole == rows \o more
<1>1. ASSUME NEW i \in DOMAIN some
      PROVE  /\ i \in DOMAIN whole /\ whole[i] = some[i]
             /\ i # 1 => i - 1 \in DOMAIN some /\ whole[i - 1] = some[i - 1]
  <2>1. i \in 1..Len(some) /\ i \in 1..Len(rows) /\ (i # 1 => i - 1 \in 1..Len(some))
    OBVIOUS
  <2>2. /\ DOMAIN whole = 1..(Len(rows) + Len(more)) /\ Len(more) \in Nat /\ Len(rows) \in Nat
        /\ \A j \in 1..Len(rows) : whole[j] = rows[j]
    BY ConcatProperties
  <2> HIDE DEF whole
  <2> QED BY <2>1, <2>2
<1> HIDE DEF whole
<1>2. ASSUME NEW i \in DOMAIN some
      PROVE  /\ some[i].sequence_number = i
             /\ some[i].previous_hash = IF i = 1 THEN <<>> ELSE some[i - 1].entry_hash
             /\ some[i].entry_hash =
                  Hash(i, some[i].event, some[i].payload, some[i].previous_hash,
                       some[i].created_at)
             /\ some[i].signature = Sign(some[i].entry_hash)
  <2>1. WellFormed(whole)
    BY DEF whole
  <2>2. /\ whole[i].sequence_number = i
        /\ whole[i].previous_hash = IF i = 1 THEN <<>> ELSE whole[i - 1].entry_hash
        /\ whole[i].entry_hash =
             Hash(i, whole[i].event, whole[i].payload, whole[i].previous_hash,
                       whole[i].created_at)
        /\ whole[i].signature = Sign(whole[i].entry_hash)
    BY <1>1, <2>1 DEF WellFormed
  <2> QED BY <1>1, <2>2
<1> QED BY <1>2, Zenon DEF WellFormed

-----------------------------------------------------------------------------
(***************************************************************************)
(* The invariant.                                                          *)
(***************************************************************************)

LEMMA WholeStored ==
  ASSUME Stored
  PROVE  /\ chain \o pending \in Seq(LogRow)
         /\ Len(chain \o pending) = Len(chain) + Len(pending)
         /\ \A i \in 1..Len(chain) : (chain \o pending)[i] = chain[i]
         /\ Len(chain) \in Nat /\ Len(pending) \in Nat
BY ConcatProperties DEF Stored

LEMMA InitIInv == Init => IInv
<1> SUFFICES ASSUME Init PROVE IInv
  OBVIOUS
<1>1. TypeOK
  BY ConstantsAssumption DEF Init, TypeOK
<1>2. Stored
  BY DEF Init, Stored
<1>3. ChainWellFormed
  BY DEF Init, ChainWellFormed, WellFormed
<1>4. \A t \in Txs : ReadBefore(t) /\ Owns(t)
  BY ConstantsAssumption DEF Init, ReadBefore, Owns
<1> QED BY <1>1, <1>2, <1>3, <1>4 DEF IInv

LEMMA SelectStep ==
  ASSUME IInv, NEW t \in Txs, Select(t)
  PROVE  IInv'
<1>1. TypeOK'
  BY DEF IInv, Select, Goto, TypeOK
<1>2. Stored'
  BY WholeStored DEF IInv, Select, Goto, Stored
<1>3. ChainWellFormed'
  BY DEF IInv, Select, Goto, ChainWellFormed
<1>4. ASSUME NEW u \in Txs PROVE ReadBefore(u)' /\ Owns(u)'
  <2>1. CASE u = t
    BY <2>1, WholeStored DEF IInv, Select, Goto, Stored, TypeOK, ReadBefore, Owns
  <2>2. CASE u # t
    BY <2>2 DEF IInv, Select, Goto, Stored, TypeOK, ReadBefore, Owns
  <2> QED BY <2>1, <2>2
<1> QED BY <1>1, <1>2, <1>3, <1>4 DEF IInv

\* An insert that finds its number free has read all rows there are.
LEMMA InsertHasReadAll ==
  ASSUME IInv, NEW t \in Txs, pc[t] = "inserting", ~NumberTaken(t), NumberFree(t)
  PROVE  read[t] = chain \o pending
<1> DEFINE k == Len(read[t])
<1>1. CASE writer = t
  BY <1>1 DEF IInv, ReadBefore
<1>2. CASE writer # t
  <2>1. pending = <<>> /\ chain \o pending = chain
    BY <1>2, ConcatEmptySeq DEF IInv, NumberFree, TypeOK, Stored
  <2>2. /\ read[t] \in Seq(LogRow) /\ k \in Nat /\ k <= Len(chain)
        /\ \A i \in 1..k : read[t][i] = chain[i]
    <3>1. read[t] \in Seq(LogRow) /\ k \in Nat
      BY DEF IInv, Stored
    <3>2. ReadBefore(t)
      BY DEF IInv
    <3> QED BY <1>2, <3>1, <3>2 DEF ReadBefore
  <2>3. WellFormed(read[t])
    BY <2>2, PrefixWellFormed DEF IInv, ChainWellFormed, Stored
  <2>4. NextNumber(read[t]) = k + 1
    BY <2>2, <2>3, NumberAfter
  <2>5. k = Len(chain)
    <3> SUFFICES ASSUME k + 1 <= Len(chain) PROVE FALSE
      BY <2>2 DEF IInv, Stored
    <3>1. k + 1 \in DOMAIN chain
      BY <2>2 DEF IInv, Stored
    <3>2. chain[k + 1].sequence_number = k + 1
      BY <2>1, <3>1 DEF IInv, ChainWellFormed, WellFormed
    <3> QED BY <2>4, <3>1, <3>2 DEF NumberTaken
  <2>6. read[t] = chain
    BY <2>2, <2>5, SeqEqual DEF IInv, Stored
  <2> QED BY <2>1, <2>6
<1> QED BY <1>1, <1>2

LEMMA InsertStep ==
  ASSUME IInv, NEW t \in Txs, Insert(t)
  PROVE  IInv'
<1> DEFINE event == Appends[t][done[t] + 1]
           row == NewRow(read[t], event)
           all == chain \o pending
<1>1. /\ pc[t] = "inserting" /\ done[t] \in Nat /\ done[t] < Len(Appends[t])
      /\ writer \in {Nobody, t} /\ t # Nobody
  BY ConstantsAssumption DEF IInv, Insert, NumberFree, ReadBefore, TypeOK
<1>2. event \in STRING
  BY <1>1, ConstantsAssumption
<1>3. read[t] = all
  BY InsertHasReadAll DEF Insert
<1>4. all \in Seq(LogRow) /\ WellFormed(all) /\ chain \in Seq(LogRow) /\ pending \in Seq(LogRow)
  BY WholeStored DEF IInv, ChainWellFormed, Stored
<1>5. row \in LogRow
  BY <1>2, <1>3, <1>4, NewRowStored
<1>6. pending' = Append(pending, row) /\ chain' = chain
  BY DEF Insert
<1>7. WellFormed(Append(all, row))
  BY <1>2, <1>3, <1>4, Continues
<1>8. /\ Append(pending, row) \in Seq(LogRow) /\ Append(pending, row) # <<>>
      /\ chain \o Append(pending, row) = Append(all, row)
  <2> HIDE DEF row
  <2> QED BY <1>4, <1>5, AppendProperties, AppendIsConcat, ConcatAssociative
<1> HIDE DEF row, event, all
<1>9. TypeOK'
  BY <1>1, <1>6, <1>8 DEF IInv, TypeOK, Insert, Goto
<1>10. Stored'
  BY <1>4, <1>6, <1>8 DEF IInv, Stored, Insert
<1>11. ChainWellFormed'
  BY <1>6, <1>7, <1>8 DEF ChainWellFormed
<1>12. ASSUME NEW u \in Txs PROVE ReadBefore(u)' /\ Owns(u)'
  <2>1. CASE u = t
    BY <1>1, <2>1 DEF IInv, TypeOK, Insert, Goto, ReadBefore, Owns
  <2>2. CASE u # t
    <3>1. writer # u /\ writer' = t /\ pc'[u] = pc[u] /\ done'[u] = done[u] /\ read' = read
      BY <1>1, <2>2, ConstantsAssumption DEF IInv, TypeOK, Insert, Goto
    <3>2. ReadBefore(u) /\ Owns(u)
      BY DEF IInv
    <3>3. ReadBefore(u)'
      BY <1>6, <2>2, <3>1, <3>2 DEF ReadBefore
    <3>4. Owns(u)'
      BY <2>2, <3>1, <3>2 DEF Owns
    <3> QED BY <3>3, <3>4
  <2> QED BY <2>1, <2>2
<1> QED BY <1>9, <1>10, <1>11, <1>12 DEF IInv

\* A transaction that fails or stops takes its rows, and no other, with it.
LEMMA RollbackStep ==
  ASSUME IInv, NEW t \in Txs, Rollback(t), NEW end \in {"failed", "gone"},
         Goto(t, end), UNCHANGED <<chain, read, done>>
  PROVE  IInv'
<1>1. chain \o <<>> = chain /\ WellFormed(chain)
  BY PrefixWellFormed, ConcatEmptySeq DEF IInv, ChainWellFormed, Stored
<1>2. TypeOK'
  BY ConstantsAssumption DEF IInv, TypeOK, Rollback, Goto
<1>3. Stored'
  BY DEF IInv, Stored, Rollback
<1>4. ChainWellFormed'
  BY <1>1 DEF IInv, ChainWellFormed, Rollback
<1>5. ASSUME NEW u \in Txs PROVE ReadBefore(u)' /\ Owns(u)'
  <2>1. CASE u = t
    BY <2>1, ConstantsAssumption DEF IInv, TypeOK, Rollback, Goto, ReadBefore, Owns
  <2>2. CASE u # t
    BY <2>2, ConstantsAssumption DEF IInv, TypeOK, Rollback, Goto, ReadBefore, Owns
  <2> QED BY <2>1, <2>2
<1> QED BY <1>2, <1>3, <1>4, <1>5 DEF IInv

LEMMA CommitStep ==
  ASSUME IInv, NEW t \in Txs, Commit(t)
  PROVE  IInv'
<1>1. writer = t /\ t # Nobody
  BY ConstantsAssumption DEF IInv, Commit, TypeOK, Owns
<1>2. /\ chain \o pending \in Seq(LogRow) /\ (chain \o pending) \o <<>> = chain \o pending
      /\ Len(chain) <= Len(chain \o pending)
      /\ \A i \in 1..Len(chain) : (chain \o pending)[i] = chain[i]
  BY WholeStored, ConcatEmptySeq DEF IInv
<1>3. TypeOK'
  BY ConstantsAssumption DEF IInv, TypeOK, Commit, Goto
<1>4. Stored'
  BY <1>2 DEF IInv, Stored, Commit
<1>5. ChainWellFormed'
  BY <1>2 DEF IInv, ChainWellFormed, Commit
<1>6. ASSUME NEW u \in Txs PROVE ReadBefore(u)' /\ Owns(u)'
  <2>1. CASE u = t
    BY <1>1, <2>1 DEF IInv, TypeOK, Commit, Goto, ReadBefore, Owns
  <2>2. CASE u # t
    <3>1. u # Nobody /\ chain' = chain \o pending /\ read' = read /\ done' = done
      BY ConstantsAssumption DEF Commit
    <3>2. pc'[u] = pc[u] /\ writer' = Nobody
      BY <2>2 DEF IInv, TypeOK, Commit, Goto
    <3>3. read[u] \in Seq(LogRow) /\ chain \in Seq(LogRow)
      BY DEF IInv, Stored
    <3>4. ReadBefore(u)'
      <4>1. ReadBefore(u) /\ writer # u
        BY <1>1, <2>2 DEF IInv
      <4>2. CASE pc[u] # "inserting"
        BY <3>2, <4>2 DEF ReadBefore
      <4>3. CASE pc[u] = "inserting"
        <5>1. /\ done[u] < Len(Appends[u]) /\ Len(read[u]) <= Len(chain)
              /\ \A i \in 1..Len(read[u]) : read[u][i] = chain[i]
          BY <4>1, <4>3 DEF ReadBefore
        <5> DEFINE whole == chain \o pending
        <5>2. /\ whole \in Seq(LogRow) /\ Len(chain) <= Len(whole)
              /\ \A i \in 1..Len(chain) : whole[i] = chain[i]
          BY <1>2
        <5> HIDE DEF whole
        <5>3. /\ Len(read[u]) <= Len(whole)
              /\ \A i \in 1..Len(read[u]) : read[u][i] = whole[i]
          BY <3>3, <5>1, <5>2
        <5>4. chain' = whole
          BY <3>1 DEF whole
        <5> QED BY <3>1, <3>2, <5>1, <5>3, <5>4 DEF ReadBefore
      <4> QED BY <4>2, <4>3
    <3>5. Owns(u)'
      BY <1>1, <2>2, <3>1, <3>2 DEF IInv, Owns
    <3> QED BY <3>4, <3>5
  <2> QED BY <2>1, <2>2
<1> QED BY <1>3, <1>4, <1>5, <1>6 DEF IInv

LEMMA NextIInv == IInv /\ [Next]_vars => IInv'
<1> SUFFICES ASSUME IInv, [Next]_vars PROVE IInv'
  OBVIOUS
<1>1. ASSUME NEW t \in Txs, Select(t) PROVE IInv'
  BY <1>1, SelectStep
<1>2. ASSUME NEW t \in Txs, Insert(t) PROVE IInv'
  BY <1>2, InsertStep
<1>3. ASSUME NEW t \in Txs, Conflict(t) PROVE IInv'
  BY <1>3, RollbackStep DEF Conflict
<1>4. ASSUME NEW t \in Txs, Commit(t) PROVE IInv'
  BY <1>4, CommitStep
<1>5. ASSUME NEW t \in Txs, Abandon(t) PROVE IInv'
  BY <1>5, RollbackStep DEF Abandon
<1>6. CASE UNCHANGED vars
  BY <1>6 DEF vars, IInv, TypeOK, Stored, ChainWellFormed, ReadBefore, Owns
<1> QED BY <1>1, <1>2, <1>3, <1>4, <1>5, <1>6 DEF Next, TxStep, AllEnded

LEMMA Invariance == Spec => []IInv
<1> QED BY InitIInv, NextIInv, PTL DEF Spec

-----------------------------------------------------------------------------
(***************************************************************************)
(* The theorems.                                                           *)
(***************************************************************************)

\* Every variable keeps its type, and only the writer has uncommitted rows.
THEOREM TypeTheorem == Spec => []TypeOK
<1>1. IInv => TypeOK
  BY DEF IInv
<1> QED BY <1>1, Invariance, PTL

\* Transactions that read the same last row race for its successor's number,
\* wait, fail or stop: what is committed, and would be with the uncommitted
\* rows, is one chain without gap, fork or foreign hash.
THEOREM ChainTheorem == Spec => []ChainWellFormed
<1>1. IInv => ChainWellFormed
  BY DEF IInv
<1> QED BY <1>1, Invariance, PTL
=============================================================================
