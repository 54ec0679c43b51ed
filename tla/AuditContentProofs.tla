-------------------------- MODULE AuditContentProofs --------------------------
(***************************************************************************)
(* Theorems about what the chain of AuditChain holds: the events of the    *)
(* transactions that committed, each transaction's all together, and only  *)
(* rows that verify_chain accepts as they are and rejects when altered.    *)
(***************************************************************************)
EXTENDS AuditChainProofs, WellFoundedInduction

\* The n rows after the k-th hold the first n events of t.
Holds(rows, k, t, n) == \A j \in 1..n : rows[k + j].event = Appends[t][j]

\* The uncommitted rows are what their writer has appended so far.
PendingLogged ==
  writer # Nobody => /\ Len(pending) = done[writer]
                     /\ Holds(pending, 0, writer, done[writer])

Logged(t) ==
  \E i \in 0..(Len(chain) - Len(Appends[t])) : Holds(chain, i, t, Len(Appends[t]))

\* The k-th row is one that a committed transaction appended.
Owned(k) ==
  \E u \in Txs : /\ pc[u] = "committed"
                 /\ \E j \in DOMAIN Appends[u] : chain[k].event = Appends[u][j]

Contents ==
  /\ PendingLogged
  /\ \A t \in Txs : pc[t] = "committed" => Logged(t)
  /\ \A k \in 1..Len(chain) : Owned(k)

-----------------------------------------------------------------------------
(***************************************************************************)
(* The contents of the chain.                                              *)
(***************************************************************************)

LEMMA AppendsTyped ==
  ASSUME NEW t \in Txs
  PROVE  /\ Len(Appends[t]) \in Nat /\ Len(Appends[t]) > 0
         /\ DOMAIN Appends[t] = 1..Len(Appends[t])
         /\ \A j \in 1..Len(Appends[t]) : Appends[t][j] \in STRING /\ Appends[t][j] # Altered
         /\ Appends[t] \in Seq(STRING)
<1>1. Appends[t] \in Seq(STRING \ {Altered}) /\ Appends[t] # <<>>
  BY ConstantsAssumption
<1>2. Appends[t] \in Seq(STRING)
  BY <1>1, SeqMonotonic
<1>3. Len(Appends[t]) \in Nat /\ Len(Appends[t]) > 0
  BY <1>1, EmptySeq
<1>4. ASSUME NEW j \in 1..Len(Appends[t])
      PROVE  Appends[t][j] \in STRING /\ Appends[t][j] # Altered
  BY <1>1, ElementOfSeq
<1> QED BY <1>2, <1>3, <1>4, LenProperties

LEMMA InitContents == Init => Contents
<1> SUFFICES ASSUME Init PROVE Contents
  OBVIOUS
<1>1. PendingLogged
  BY DEF Init, PendingLogged
<1>2. \A t \in Txs : pc[t] # "committed"
  BY DEF Init
<1>3. 1..Len(chain) = {}
  BY DEF Init
<1> QED BY <1>1, <1>2, <1>3 DEF Contents

\* A step that leaves the chain alone, and commits nobody, leaves what it holds.
LEMMA ChainKept ==
  ASSUME IInv, Contents, chain' = chain, NEW t \in Txs, NEW next, Goto(t, next),
         pc[t] # "committed", next # "committed", PendingLogged'
  PROVE  Contents'
<1>1. \A u \in Txs : pc'[u] = "committed" <=> pc[u] = "committed"
  BY DEF Goto, IInv, TypeOK
<1>2. \A u \in Txs : pc[u] = "committed" => Logged(u)
  BY DEF Contents
<1>3. \A u \in Txs : Logged(u)' = Logged(u)
  BY DEF Logged, Holds
<1>4. ASSUME NEW k \in 1..Len(chain) PROVE Owned(k)'
  <2>1. Owned(k)
    BY DEF Contents
  <2> QED BY <1>1, <2>1 DEF Owned
<1> QED BY <1>1, <1>2, <1>3, <1>4 DEF Contents

LEMMA InsertContents ==
  ASSUME IInv, Contents, NEW t \in Txs, Insert(t)
  PROVE  Contents'
<1> DEFINE event == Appends[t][done[t] + 1]
           row == NewRow(read[t], event)
           n == done[t]
<1>1. /\ pc[t] = "inserting" /\ n \in Nat /\ n < Len(Appends[t])
      /\ writer \in {Nobody, t} /\ t # Nobody
  BY ConstantsAssumption DEF IInv, Insert, NumberFree, ReadBefore, TypeOK
<1>2. event \in STRING
  BY <1>1, AppendsTyped
<1>3. row \in LogRow /\ row.event = event
  <2>1. read[t] \in Seq(LogRow)
    BY DEF IInv, Stored
  <2> QED BY <1>2, <2>1, NewRowStored DEF NewRow
<1>4. pending \in Seq(LogRow) /\ Len(pending) = n /\ Holds(pending, 0, t, n)
  <2>1. CASE writer = t
    BY <1>1, <2>1 DEF IInv, Stored, Contents, PendingLogged
  <2>2. CASE writer = Nobody
    <3>1. pending = <<>>
      BY <2>2 DEF IInv, TypeOK
    <3>2. n = 0
      BY <1>1, <2>2 DEF IInv, Owns
    <3> QED BY <3>1, <3>2 DEF IInv, Stored, Holds
  <2> QED BY <1>1, <2>1, <2>2
<1>5. /\ writer' = t /\ done'[t] = n + 1 /\ pending' = Append(pending, row)
      /\ chain' = chain /\ Goto(t, "working")
  BY DEF Insert, IInv, TypeOK
<1>6. /\ Len(pending') = n + 1
      /\ \A j \in 1..n : pending'[j] = pending[j]
      /\ pending'[n + 1] = row
  <2> HIDE DEF row
  <2> QED BY <1>3, <1>4, <1>5, AppendProperties
<1>7. ASSUME NEW j \in 1..(n + 1) PROVE pending'[0 + j].event = Appends[t][j]
  <2>1. CASE j \in 1..n
    <3>1. pending[0 + j].event = Appends[t][j]
      BY <1>4, <2>1 DEF Holds
    <3> QED BY <1>6, <2>1, <3>1
  <2>2. CASE j = n + 1
    BY <1>3, <1>6, <2>2
  <2> QED BY <1>1, <2>1, <2>2
<1>8. PendingLogged'
  BY <1>5, <1>6, <1>7 DEF PendingLogged, Holds
<1> QED BY <1>1, <1>5, <1>8, ChainKept

LEMMA CommitContents ==
  ASSUME IInv, Contents, NEW t \in Txs, Commit(t)
  PROVE  Contents'
<1> DEFINE n == Len(Appends[t])
           old == Len(chain)
           whole == chain \o pending
<1>1. writer = t /\ t # Nobody /\ n \in Nat /\ n > 0
  BY AppendsTyped, ConstantsAssumption DEF IInv, Commit, TypeOK, Owns
<1>2. Len(pending) = n /\ Holds(pending, 0, t, n)
  BY <1>1 DEF Contents, PendingLogged, Commit
<1>3. /\ chain' = whole /\ pc'[t] = "committed" /\ writer' = Nobody
      /\ \A u \in Txs : pc'[u] = "committed" <=> (u = t \/ pc[u] = "committed")
  BY DEF Commit, Goto, IInv, TypeOK
<1>4. /\ old \in Nat /\ Len(whole) = old + n
      /\ \A i \in 1..old : whole[i] = chain[i]
      /\ \A j \in 1..n : whole[old + j] = pending[j]
  <2>1. chain \in Seq(LogRow) /\ pending \in Seq(LogRow) /\ old \in Nat
    BY DEF IInv, Stored
  <2>2. /\ Len(whole) = Len(chain) + Len(pending)
        /\ \A i \in 1..(Len(chain) + Len(pending)) :
             whole[i] = IF i <= Len(chain) THEN chain[i] ELSE pending[i - Len(chain)]
    BY <2>1, ConcatProperties
  <2>3. \A i \in 1..old : whole[i] = chain[i]
    BY WholeStored DEF IInv
  <2> HIDE DEF whole
  <2>4. Len(whole) = old + n
    BY <1>2, <2>2
  <2>5. ASSUME NEW j \in 1..n PROVE whole[old + j] = pending[j]
    <3>1. old + j \in 1..(Len(chain) + Len(pending)) /\ ~(old + j <= Len(chain))
      BY <1>1, <1>2, <2>1
    <3>2. (old + j) - Len(chain) = j
      BY <1>1, <2>1
    <3> QED BY <2>2, <3>1, <3>2
  <2> HIDE DEF old, n
  <2> QED BY <2>1, <2>3, <2>4, <2>5 DEF old
<1>5. ASSUME NEW j \in 1..n PROVE whole[old + j].event = Appends[t][j]
  <2>1. pending[0 + j].event = Appends[t][j]
    BY <1>2 DEF Holds
  <2>2. 0 + j = j
    OBVIOUS
  <2> QED BY <1>4, <2>1, <2>2
<1> HIDE DEF whole
<1>6. ASSUME NEW u \in Txs, pc'[u] = "committed" PROVE Logged(u)'
  <2>1. CASE u = t
    <3>1. old \in 0..(Len(whole) - n)
      BY <1>1, <1>4
    <3>2. \A j \in 1..n : whole[old + j].event = Appends[t][j]
      BY <1>5
    <3> QED BY <1>3, <2>1, <3>1, <3>2 DEF Logged, Holds
  <2>2. CASE u # t
    <3>1. PICK i \in 0..(old - Len(Appends[u])) : Holds(chain, i, u, Len(Appends[u]))
      BY <1>3, <1>6, <2>2 DEF Contents, Logged
    <3>2. Len(Appends[u]) \in Nat
      BY AppendsTyped
    <3>3. i \in 0..(Len(whole) - Len(Appends[u]))
      BY <1>1, <1>4, <3>1, <3>2
    <3>4. ASSUME NEW j \in 1..Len(Appends[u]) PROVE whole[i + j].event = Appends[u][j]
      <4>1. i + j \in 1..old
        BY <1>4, <3>1, <3>2
      <4>2. chain[i + j].event = Appends[u][j]
        BY <3>1 DEF Holds
      <4> QED BY <1>4, <4>1, <4>2
    <3> QED BY <1>3, <3>3, <3>4 DEF Logged, Holds
  <2> QED BY <2>1, <2>2
<1>7. ASSUME NEW k \in 1..Len(whole)
      PROVE  \E u \in Txs : /\ pc'[u] = "committed"
                            /\ \E j \in DOMAIN Appends[u] : whole[k].event = Appends[u][j]
  <2>1. CASE k \in 1..old
    <3>1. Owned(k)
      BY <2>1 DEF Contents
    <3> QED BY <1>3, <1>4, <2>1, <3>1 DEF Owned
  <2>2. CASE k \notin 1..old
    <3>1. k - old \in 1..n /\ old + (k - old) = k
      BY <1>1, <1>4, <2>2
    <3>2. whole[k].event = Appends[t][k - old] /\ k - old \in DOMAIN Appends[t]
      BY <1>5, <3>1, AppendsTyped
    <3> QED BY <1>3, <3>2
  <2> QED BY <2>1, <2>2
<1>8. PendingLogged'
  BY <1>3 DEF PendingLogged
<1>9. \A k \in 1..Len(chain') : Owned(k)'
  BY <1>3, <1>7 DEF Owned
<1> QED BY <1>6, <1>8, <1>9 DEF Contents

LEMMA RollbackContents ==
  ASSUME IInv, Contents, NEW t \in Txs, Rollback(t), NEW end \in {"failed", "gone"},
         Goto(t, end), pc[t] # "committed", UNCHANGED <<chain, done>>
  PROVE  Contents'
<1>1. PendingLogged'
  BY DEF Contents, PendingLogged, Holds, Rollback
<1> QED BY <1>1, ChainKept

LEMMA NextContents == IInv /\ Contents /\ [Next]_vars => Contents'
<1> SUFFICES ASSUME IInv, Contents, [Next]_vars PROVE Contents'
  OBVIOUS
<1>1. ASSUME NEW t \in Txs, Select(t) PROVE Contents'
  <2>1. PendingLogged'
    BY <1>1 DEF Select, Contents, PendingLogged, Holds
  <2> QED BY <1>1, <2>1, ChainKept DEF Select
<1>2. ASSUME NEW t \in Txs, Insert(t) PROVE Contents'
  BY <1>2, InsertContents
<1>3. ASSUME NEW t \in Txs, Conflict(t) PROVE Contents'
  BY <1>3, RollbackContents DEF Conflict
<1>4. ASSUME NEW t \in Txs, Commit(t) PROVE Contents'
  BY <1>4, CommitContents
<1>5. ASSUME NEW t \in Txs, Abandon(t) PROVE Contents'
  BY <1>5, RollbackContents DEF Abandon, Ended
<1>6. CASE UNCHANGED vars
  BY <1>6 DEF vars, Contents, PendingLogged, Holds, Logged, Owned
<1> QED BY <1>1, <1>2, <1>3, <1>4, <1>5, <1>6 DEF Next, TxStep, AllEnded

LEMMA ContentsInvariance == Spec => []Contents
<1>1. Spec => []IInv
  BY Invariance
<1> QED BY <1>1, InitContents, NextContents, PTL DEF Spec

\* A transaction's events are in the chain all together, next to each other and
\* in order, if and only if it has committed.
AllOrNothing ==
  \A t \in Txs :
    (pc[t] = "committed") =
      (\E i \in 0..(Len(chain) - Len(Appends[t])) :
         EventsOf(SubSeq(chain, i + 1, i + Len(Appends[t]))) = Appends[t])

\* A block of rows has the events of t, said with sequences and row by row.
LEMMA BlockEvents ==
  ASSUME IInv, NEW t \in Txs, NEW i \in 0..(Len(chain) - Len(Appends[t]))
  PROVE  EventsOf(SubSeq(chain, i + 1, i + Len(Appends[t]))) = Appends[t]
           <=> Holds(chain, i, t, Len(Appends[t]))
<1> DEFINE n == Len(Appends[t])
           block == SubSeq(chain, i + 1, i + n)
<1>1. n \in Nat /\ n > 0 /\ i \in Nat /\ i + n <= Len(chain) /\ Appends[t] \in Seq(STRING)
  BY AppendsTyped DEF IInv, Stored
<1>2. \A k \in (i + 1)..(i + n) : chain[k] \in LogRow
  BY <1>1 DEF IInv, Stored
<1>3. /\ block \in Seq(LogRow) /\ Len(block) = n
      /\ \A j \in 1..n : block[j] = chain[i + j]
  <2>1. /\ block \in Seq(LogRow)
        /\ Len(block) = IF i + 1 <= i + n THEN i + n - (i + 1) + 1 ELSE 0
        /\ \A j \in 1..(i + n - (i + 1) + 1) : block[j] = chain[i + 1 + j - 1]
    BY <1>1, <1>2, SubSeqProperties
  <2>2. i + 1 <= i + n /\ i + n - (i + 1) + 1 = n /\ \A j \in 1..n : i + 1 + j - 1 = i + j
    BY <1>1
  <2> HIDE DEF block
  <2> QED BY <2>1, <2>2
<1> HIDE DEF block
<1>4. EventsOf(block) = [j \in 1..n |-> block[j].event]
  BY <1>3 DEF EventsOf
<1>5. Appends[t] = [j \in 1..n |-> Appends[t][j]]
  BY <1>1
<1>6. EventsOf(block) = Appends[t] <=> \A j \in 1..n : block[j].event = Appends[t][j]
  BY <1>4, <1>5
<1> QED BY <1>3, <1>6 DEF Holds, block

\* A transaction's audit events are in the chain all together, next to each
\* other and in order, if it has committed, and none of them if it has not,
\* however it races with the others, fails or stops.
THEOREM AllOrNothingTheorem == Spec => []AllOrNothing
<1>1. IInv /\ Contents => AllOrNothing
  <2> SUFFICES ASSUME IInv, Contents, NEW t \in Txs
               PROVE  (pc[t] = "committed") =
                        (\E i \in 0..(Len(chain) - Len(Appends[t])) :
                           EventsOf(SubSeq(chain, i + 1, i + Len(Appends[t]))) = Appends[t])
    BY DEF AllOrNothing
  <2>1. (\E i \in 0..(Len(chain) - Len(Appends[t])) :
           EventsOf(SubSeq(chain, i + 1, i + Len(Appends[t]))) = Appends[t]) <=> Logged(t)
    BY BlockEvents DEF Logged
  <2>2. pc[t] = "committed" => Logged(t)
    BY DEF Contents
  <2>3. ASSUME Logged(t) PROVE pc[t] = "committed"
    <3>1. PICK i \in 0..(Len(chain) - Len(Appends[t])) : Holds(chain, i, t, Len(Appends[t]))
      BY <2>3 DEF Logged
    <3>2. Len(Appends[t]) \in Nat /\ 1 \in 1..Len(Appends[t]) /\ 1 \in DOMAIN Appends[t]
      BY AppendsTyped
    <3>3. chain[i + 1].event = Appends[t][1]
      BY <3>1, <3>2 DEF Holds
    <3>4. i + 1 \in 1..Len(chain)
      BY <3>1, <3>2 DEF IInv, Stored
    <3>5. PICK u \in Txs : /\ pc[u] = "committed"
                           /\ \E j \in DOMAIN Appends[u] : chain[i + 1].event = Appends[u][j]
      BY <3>4 DEF Contents, Owned
    <3>6. PICK j \in DOMAIN Appends[u] : chain[i + 1].event = Appends[u][j]
      BY <3>5
    <3>7. Appends[u][j] = Appends[t][1]
      BY <3>3, <3>6
    <3>8. u = t
      BY <3>2, <3>7, ConstantsAssumption DEF DistinctEvents
    <3> QED BY <3>5, <3>8
  <2> QED BY <2>1, <2>2, <2>3, Zenon
<1> QED BY <1>1, Invariance, ContentsInvariance, PTL

-----------------------------------------------------------------------------
(***************************************************************************)
(* The chain as a log.                                                     *)
(***************************************************************************)

LEMMA EventsAre ==
  ASSUME NEW rows \in Seq(LogRow)
  PROVE  /\ EventsOf(rows) \in Seq(STRING) /\ Len(EventsOf(rows)) = Len(rows)
         /\ \A i \in 1..Len(rows) : EventsOf(rows)[i] = rows[i].event
<1>1. /\ Len(rows) \in Nat /\ DOMAIN rows = 1..Len(rows)
      /\ \A i \in 1..Len(rows) : rows[i] \in LogRow
  BY LenProperties, ElementOfSeq
<1>2. EventsOf(rows) = [i \in 1..Len(rows) |-> rows[i].event]
  BY <1>1 DEF EventsOf
<1>3. \A i \in 1..Len(rows) : rows[i].event \in STRING
  BY <1>1 DEF LogRow
<1> QED BY <1>1, <1>2, <1>3, IsASeq

LEMMA InitLog == Init => Log!Init
<1> SUFFICES ASSUME Init PROVE Log!Init
  OBVIOUS
<1>1. EventsOf(chain) = <<>>
  <2>1. chain \in Seq(LogRow) /\ Len(chain) = 0
    BY DEF Init
  <2>2. EventsOf(chain) \in Seq(STRING) /\ Len(EventsOf(chain)) = 0
    BY <2>1, EventsAre
  <2> QED BY <2>2, EmptySeq
<1>2. {t \in Txs : pc[t] = "committed"} = {}
  BY DEF Init
<1> QED BY <1>1, <1>2 DEF Log!Init

\* A commit enters what its transaction has appended, and nothing else.
LEMMA CommitEnters ==
  ASSUME IInv, Contents, NEW t \in Txs, Commit(t)
  PROVE  Log!Enter(t)
<1> DEFINE n == Len(Appends[t])
           whole == chain \o pending
           longer == EventsOf(chain) \o Appends[t]
<1>1. /\ writer = t /\ t # Nobody /\ n \in Nat /\ n > 0 /\ Appends[t] \in Seq(STRING)
      /\ chain \in Seq(LogRow) /\ pending \in Seq(LogRow) /\ Len(chain) \in Nat
  BY AppendsTyped, ConstantsAssumption DEF IInv, Commit, TypeOK, Owns, Stored
<1>2. Len(pending) = n /\ \A j \in 1..n : pending[j].event = Appends[t][j]
  BY <1>1 DEF Contents, PendingLogged, Commit, Holds
<1>3. /\ whole \in Seq(LogRow) /\ Len(whole) = Len(chain) + n
      /\ \A i \in 1..(Len(chain) + n) :
           whole[i] = IF i <= Len(chain) THEN chain[i] ELSE pending[i - Len(chain)]
  <2>1. /\ whole \in Seq(LogRow) /\ Len(whole) = Len(chain) + Len(pending)
        /\ \A i \in 1..(Len(chain) + Len(pending)) :
             whole[i] = IF i <= Len(chain) THEN chain[i] ELSE pending[i - Len(chain)]
    BY <1>1, ConcatProperties
  <2> HIDE DEF whole
  <2> QED BY <1>2, <2>1
<1>4. /\ EventsOf(chain) \in Seq(STRING) /\ Len(EventsOf(chain)) = Len(chain)
      /\ \A i \in 1..Len(chain) : EventsOf(chain)[i] = chain[i].event
  BY <1>1, EventsAre
<1>5. /\ longer \in Seq(STRING) /\ Len(longer) = Len(chain) + n
      /\ \A i \in 1..(Len(chain) + n) :
           longer[i] = IF i <= Len(chain) THEN EventsOf(chain)[i] ELSE Appends[t][i - Len(chain)]
  <2> DEFINE events == EventsOf(chain)
  <2> HIDE DEF events
  <2>1. events \in Seq(STRING) /\ Len(events) = Len(chain)
    BY <1>4 DEF events
  <2>2. /\ events \o Appends[t] \in Seq(STRING)
        /\ Len(events \o Appends[t]) = Len(events) + Len(Appends[t])
        /\ \A i \in 1..(Len(events) + Len(Appends[t])) :
             (events \o Appends[t])[i] =
               IF i <= Len(events) THEN events[i] ELSE Appends[t][i - Len(events)]
    BY <1>1, <2>1, ConcatProperties
  <2>3. longer = events \o Appends[t]
    BY DEF events
  <2> HIDE DEF longer
  <2> QED BY <2>1, <2>2, <2>3 DEF events
<1> HIDE DEF whole, longer
<1>6. /\ EventsOf(whole) \in Seq(STRING) /\ Len(EventsOf(whole)) = Len(chain) + n
      /\ \A i \in 1..(Len(chain) + n) : EventsOf(whole)[i] = whole[i].event
  BY <1>3, EventsAre
<1>7. ASSUME NEW i \in 1..(Len(chain) + n) PROVE EventsOf(whole)[i] = longer[i]
  <2>1. CASE i <= Len(chain)
    <3>1. i \in 1..Len(chain)
      BY <1>1, <2>1
    <3> QED BY <1>3, <1>4, <1>5, <1>6, <2>1, <3>1
  <2>2. CASE ~(i <= Len(chain))
    <3>1. i - Len(chain) \in 1..n
      BY <1>1, <2>2
    <3> QED BY <1>2, <1>3, <1>5, <1>6, <2>2, <3>1
  <2> QED BY <2>1, <2>2
<1>8. EventsOf(whole) = longer
  BY <1>5, <1>6, <1>7, SeqEqual
<1>9. /\ chain' = whole /\ pc[t] = "working"
      /\ \A u \in Txs : pc'[u] = "committed" <=> (u = t \/ pc[u] = "committed")
  BY DEF Commit, Goto, IInv, TypeOK, whole
<1>10. EventsOf(chain)' = EventsOf(chain) \o Appends[t]
  BY <1>8, <1>9 DEF EventsOf, longer
<1>11. {u \in Txs : pc'[u] = "committed"} = {u \in Txs : pc[u] = "committed"} \cup {t}
  BY <1>9
<1>12. t \notin {u \in Txs : pc[u] = "committed"}
  BY <1>9
<1> QED BY <1>10, <1>11, <1>12 DEF Log!Enter

\* Any other step leaves the log as it is.
LEMMA LogKept ==
  ASSUME IInv, chain' = chain, NEW t \in Txs, NEW next, Goto(t, next),
         pc[t] # "committed", next # "committed"
  PROVE  UNCHANGED Log!logVars
<1>1. \A u \in Txs : pc'[u] = "committed" <=> pc[u] = "committed"
  BY DEF Goto, IInv, TypeOK
<1>2. {u \in Txs : pc'[u] = "committed"} = {u \in Txs : pc[u] = "committed"}
  BY <1>1
<1> QED BY <1>2 DEF Log!logVars, EventsOf

LEMMA NextLog == IInv /\ Contents /\ [Next]_vars => [Log!Next]_Log!logVars
<1> SUFFICES ASSUME IInv, Contents, [Next]_vars PROVE [Log!Next]_Log!logVars
  OBVIOUS
<1>1. ASSUME NEW t \in Txs, Select(t) PROVE UNCHANGED Log!logVars
  BY <1>1, LogKept DEF Select
<1>2. ASSUME NEW t \in Txs, Insert(t) PROVE UNCHANGED Log!logVars
  BY <1>2, LogKept DEF Insert
<1>3. ASSUME NEW t \in Txs, Conflict(t) PROVE UNCHANGED Log!logVars
  BY <1>3, LogKept DEF Conflict
<1>4. ASSUME NEW t \in Txs, Commit(t) PROVE Log!Next
  BY <1>4, CommitEnters DEF Log!Next
<1>5. ASSUME NEW t \in Txs, Abandon(t) PROVE UNCHANGED Log!logVars
  BY <1>5, LogKept DEF Abandon, Ended
<1>6. CASE UNCHANGED vars
  BY <1>6 DEF vars, Log!logVars, EventsOf
<1> QED BY <1>1, <1>2, <1>3, <1>4, <1>5, <1>6 DEF Next, TxStep, AllEnded

\* The chain implements the log: handlers that race for sequence numbers, wait,
\* conflict and stop append as if each transaction entered its events in one
\* step, once, and nothing that has entered ever moves.
THEOREM LogTheorem == Spec => ImplementsLog
<1>1. Spec => Log!Init /\ [][Log!Next]_Log!logVars
  BY InitLog, NextLog, Invariance, ContentsInvariance, PTL DEF Spec
<1> QED BY <1>1 DEF ImplementsLog, Log!Spec

-----------------------------------------------------------------------------
(***************************************************************************)
(* verify_chain.                                                           *)
(***************************************************************************)

\* The hash the loop expects a row to hold as its previous one.
HashBefore(db, rows, i) == IF i = 1 THEN <<>> ELSE ReadBack(db, rows[i - 1]).entry_hash
Fits(db, rows, i) == RecordFits(ReadBack(db, rows[i]), Expected(i, HashBefore(db, rows, i)))

\* The loop's state after i rows, in closed form.
AfterRows(db, rows, i) ==
  IF \A j \in 1..i : Fits(db, rows, j) THEN Expected(i + 1, HashBefore(db, rows, i + 1)) ELSE Broken

LEMMA OneRound ==
  ASSUME NEW db, NEW rows, NEW i \in Nat, i > 0
  PROVE  Check(ReadBack(db, rows[i]), AfterRows(db, rows, i - 1)) = AfterRows(db, rows, i)
<1>1. i - 1 + 1 = i /\ (i + 1) - 1 = i /\ i + 1 # 1
  OBVIOUS
<1>2. (\A j \in 1..i : Fits(db, rows, j)) <=> (\A j \in 1..(i - 1) : Fits(db, rows, j)) /\ Fits(db, rows, i)
  <2>1. \A j : j \in 1..i <=> j \in 1..(i - 1) \/ j = i
    OBVIOUS
  <2> HIDE DEF Fits
  <2> QED BY <2>1
<1>3. CASE \A j \in 1..(i - 1) : Fits(db, rows, j)
  <2>1. AfterRows(db, rows, i - 1) = Expected(i, HashBefore(db, rows, i))
    BY <1>1, <1>3 DEF AfterRows
  <2>2. Expected(i, HashBefore(db, rows, i)).ok = TRUE /\ Expected(i, HashBefore(db, rows, i)).number = i
    BY DEF Expected
  <2>3. HashBefore(db, rows, i + 1) = ReadBack(db, rows[i]).entry_hash
    BY <1>1 DEF HashBefore
  <2>4. CASE Fits(db, rows, i)
    BY <1>2, <1>3, <2>1, <2>2, <2>3, <2>4 DEF Check, AfterRows, Fits
  <2>5. CASE ~Fits(db, rows, i)
    BY <1>2, <1>3, <2>1, <2>5 DEF Check, AfterRows, Fits
  <2> QED BY <2>4, <2>5
<1>4. CASE ~\A j \in 1..(i - 1) : Fits(db, rows, j)
  <2>1. AfterRows(db, rows, i - 1) = Broken /\ AfterRows(db, rows, i) = Broken
    BY <1>2, <1>4 DEF AfterRows
  <2>2. Broken.ok = FALSE
    BY DEF Broken
  <2> QED BY <2>1, <2>2 DEF Check
<1> QED BY <1>3, <1>4

\* The equation that defines Rounds has one solution.  Two would differ first
\* at some i, though OneRound computes both from what they agree on.
LEMMA RoundsAre ==
  ASSUME NEW db, NEW rows, NEW n \in Nat, Len(rows) = n
  PROVE  \A i \in 0..n : Rounds(db, rows)[i] = AfterRows(db, rows, i)
<1> DEFINE Step(f, i) == IF i = 0 THEN Expected(1, <<>>) ELSE Check(ReadBack(db, rows[i]), f[i - 1])
           closed == [i \in 0..n |-> AfterRows(db, rows, i)]
<1>1. closed = [i \in 0..n |-> Step(closed, i)]
  <2>1. ASSUME NEW i \in 0..n PROVE AfterRows(db, rows, i) = Step(closed, i)
    <3>1. CASE i = 0
      BY <3>1 DEF AfterRows, HashBefore
    <3>2. CASE i # 0
      <4>1. i \in Nat /\ i > 0 /\ i - 1 \in 0..n
        BY <3>2
      <4>2. closed[i - 1] = AfterRows(db, rows, i - 1)
        BY <4>1
      <4> HIDE DEF closed
      <4> QED BY <3>2, <4>1, <4>2, OneRound
    <3> QED BY <3>1, <3>2
  <2> HIDE DEF Step
  <2> QED BY <2>1
<1>2. Rounds(db, rows) = CHOOSE f : f = [i \in 0..n |-> Step(f, i)]
  BY DEF Rounds
<1> HIDE DEF closed
<1>3. PICK f : f = [i \in 0..n |-> Step(f, i)] /\ f = Rounds(db, rows)
  <2> HIDE DEF Step
  <2> QED BY <1>1, <1>2
<1> DEFINE differ == {i \in 0..n : f[i] # closed[i]}
           less == OpToRel(<, Nat)
<1>4. differ = {}
  <2> SUFFICES ASSUME differ # {} PROVE FALSE
    OBVIOUS
  <2>1. IsWellFoundedOn(less, Nat)
    BY NatLessThanWellFounded
  <2>2. differ \subseteq Nat
    OBVIOUS
  <2> HIDE DEF less, differ
  <2>3. PICK i \in differ : \A j \in differ : ~ (<<j, i>> \in less)
    BY <2>1, <2>2, WFMin
  <2>4. \A j \in differ : ~(j < i)
    BY <2>2, <2>3 DEF less, OpToRel
  <2>5. i \in 0..n /\ f[i] # closed[i]
    BY <2>3 DEF differ
  <2>6. f[i] = Step(f, i) /\ closed[i] = Step(closed, i)
    <3> HIDE DEF Step
    <3> QED BY <1>1, <1>3, <2>5
  <2>7. i # 0
    BY <2>5, <2>6
  <2>8. i - 1 \in 0..n /\ i - 1 < i
    BY <2>5, <2>7
  <2>9. f[i - 1] = closed[i - 1]
    BY <2>4, <2>8 DEF differ
  <2> QED BY <2>5, <2>6, <2>7, <2>9
<1>5. \A i \in 0..n : closed[i] = AfterRows(db, rows, i)
  BY DEF closed
<1> QED BY <1>3, <1>4, <1>5

\* verify_chain returns if and only if every row fits what was before it.
LEMMA VerifiesAll ==
  ASSUME NEW db, NEW rows, Len(rows) \in Nat
  PROVE  Verifies(db, rows) <=> \A i \in 1..Len(rows) : Fits(db, rows, i)
<1> DEFINE n == Len(rows)
<1>1. Rounds(db, rows)[n] = AfterRows(db, rows, n)
  BY RoundsAre
<1>2. Broken.ok = FALSE /\ Expected(n + 1, HashBefore(db, rows, n + 1)).ok = TRUE
  BY DEF Broken, Expected
<1> QED BY <1>1, <1>2 DEF Verifies, AfterRows

\* The rows of the chain as they were appended.
LEMMA ChainRows ==
  ASSUME IInv, Contents
  PROVE  /\ chain \in Seq(LogRow) /\ Len(chain) \in Nat /\ WellFormed(chain)
         /\ \A i \in 1..Len(chain) :
              /\ chain[i] \in LogRow /\ chain[i].event # Altered
              /\ chain[i].sequence_number = i
              /\ chain[i].previous_hash = IF i = 1 THEN <<>> ELSE chain[i - 1].entry_hash
              /\ chain[i].entry_hash =
                   Hash(i, chain[i].event, chain[i].payload, chain[i].previous_hash,
                        chain[i].created_at)
              /\ chain[i].signature = Sign(chain[i].entry_hash)
              /\ chain[i].created_at = "aware" /\ chain[i].payload = "given"
<1>1. chain \in Seq(LogRow) /\ Len(chain) \in Nat /\ DOMAIN chain = 1..Len(chain)
  BY DEF IInv, Stored
<1>2. WellFormed(chain)
  BY PrefixWellFormed DEF IInv, ChainWellFormed, Stored
<1>3. ASSUME NEW i \in 1..Len(chain)
      PROVE  /\ chain[i] \in LogRow /\ chain[i].event # Altered
             /\ chain[i].created_at = "aware" /\ chain[i].payload = "given"
  <2>1. chain[i] \in LogRow
    BY <1>1
  <2>2. chain[i].created_at = "aware" /\ chain[i].payload = "given"
    BY <2>1 DEF LogRow
  <2>3. chain[i].event # Altered
    <3>1. PICK u \in Txs : \E j \in DOMAIN Appends[u] : chain[i].event = Appends[u][j]
      BY DEF Contents, Owned
    <3> QED BY <3>1, AppendsTyped
  <2> QED BY <2>1, <2>2, <2>3
<1>4. ASSUME NEW i \in 1..Len(chain)
      PROVE  /\ chain[i].sequence_number = i
             /\ chain[i].previous_hash = IF i = 1 THEN <<>> ELSE chain[i - 1].entry_hash
             /\ chain[i].entry_hash =
                  Hash(i, chain[i].event, chain[i].payload, chain[i].previous_hash,
                        chain[i].created_at)
             /\ chain[i].signature = Sign(chain[i].entry_hash)
  BY <1>1, <1>2 DEF WellFormed
<1> QED BY <1>1, <1>2, <1>3, <1>4

\* Different fields after the same hash give another hash.
LEMMA HashTells ==
  ASSUME NEW previous \in Digest, NEW n, NEW e, NEW f, NEW p, NEW q, NEW a, NEW b,
         Hash(n, e, p, previous, a) = Hash(n, f, q, previous, b)
  PROVE  e = f /\ p = q /\ a = b
<1> DEFINE left == [sequence_number |-> n, event |-> e, payload |-> p, created_at |-> a]
           right == [sequence_number |-> n, event |-> f, payload |-> q, created_at |-> b]
           all == Material \cup {left, right}
<1>1. previous \in Seq(all)
  <2>1. Material \subseteq all
    OBVIOUS
  <2> HIDE DEF all
  <2> QED BY <2>1, SeqMonotonic DEF Digest
<1>2. left \in all /\ right \in all
  OBVIOUS
<1>3. Append(previous, left) = Append(previous, right)
  BY DEF Hash
<1>4. left = right
  <2> HIDE DEF left, right, all
  <2> QED BY <1>1, <1>2, <1>3, AppendInjective
<1>5. /\ left.event = right.event /\ left.payload = right.payload
      /\ left.created_at = right.created_at
  BY <1>4
<1> QED BY <1>5

\* What a row read back keeps of the row.
LEMMA BackKeeps ==
  ASSUME NEW db, NEW row \in [sequence_number : Nat, event : STRING, payload : {"given"},
                             previous_hash : Digest, entry_hash : Digest,
                             signature : [signed : Digest], created_at : {"aware"}]
  PROVE  LET back == ReadBack(db, row) IN
           /\ back.sequence_number = row.sequence_number /\ back.event = row.event
           /\ back.previous_hash = row.previous_hash /\ back.entry_hash = row.entry_hash
           /\ back.signature = row.signature
BY DEF ReadBack

\* It is the row if its payload and time are.
LEMMA BackSame ==
  ASSUME NEW db, NEW row \in [sequence_number : Nat, event : STRING, payload : {"given"},
                             previous_hash : Digest, entry_hash : Digest,
                             signature : [signed : Digest], created_at : {"aware"}]
  PROVE  LET back == ReadBack(db, row) IN
           back.payload = row.payload /\ back.created_at = row.created_at <=> back = row
BY DEF ReadBack

\* What a database returns of a row fits the chain if and only if it is the row.
LEMMA RowFits ==
  ASSUME IInv, Contents, NEW db, NEW i \in 1..Len(chain)
  PROVE  Fits(db, chain, i) <=> ReadBack(db, chain[i]) = chain[i]
<1> DEFINE row == chain[i]
           back == ReadBack(db, row)
<1>1. /\ row \in LogRow /\ row.sequence_number = i /\ row.previous_hash \in Digest
      /\ row.entry_hash = Hash(i, row.event, row.payload, row.previous_hash, row.created_at)
      /\ row.signature = Sign(row.entry_hash)
  BY ChainRows DEF LogRow
<1>2. row.previous_hash = HashBefore(db, chain, i)
  <2>1. CASE i = 1
    BY <2>1, ChainRows DEF HashBefore
  <2>2. CASE i # 1
    <3>1. i - 1 \in 1..Len(chain)
      BY <2>2, ChainRows
    <3>2. ReadBack(db, chain[i - 1]).entry_hash = chain[i - 1].entry_hash
      BY <3>1, ChainRows, BackKeeps DEF LogRow
    <3> QED BY <2>2, <3>2, ChainRows DEF HashBefore
  <2> QED BY <2>1, <2>2
<1>3. /\ back.sequence_number = row.sequence_number /\ back.event = row.event
      /\ back.previous_hash = row.previous_hash /\ back.entry_hash = row.entry_hash
      /\ back.signature = row.signature
  BY <1>1, BackKeeps DEF LogRow
<1>4. back.payload = row.payload /\ back.created_at = row.created_at <=> back = row
  BY <1>1, BackSame DEF LogRow
<1>5. Fits(db, chain, i) <=>
        Hash(i, row.event, row.payload, row.previous_hash, row.created_at)
          = Hash(i, row.event, back.payload, row.previous_hash, back.created_at)
  <2> HIDE DEF back, row
  <2>1. Fits(db, chain, i) <=> RecordFits(back, Expected(i, HashBefore(db, chain, i)))
    BY DEF Fits, back, row
  <2> QED BY <1>1, <1>2, <1>3, <2>1 DEF RecordFits, Expected
<1> HIDE DEF back, row
<1>6. Fits(db, chain, i) => back.payload = row.payload /\ back.created_at = row.created_at
  BY <1>1, <1>5, HashTells
<1> QED BY <1>4, <1>5, <1>6 DEF back, row

\* verify_chain accepts the chain, on either database, if and only if every row
\* comes back as it was hashed, whichever transactions race, fail or stop.
THEOREM VerifiesTheorem == Spec => []VerifiesAsHashed
<1>1. IInv /\ Contents => VerifiesAsHashed
  <2> SUFFICES ASSUME IInv, Contents, NEW db \in Databases
               PROVE  Verifies(db, chain)
                        <=> \A i \in DOMAIN chain : ReadBack(db, chain[i]) = chain[i]
    BY DEF VerifiesAsHashed
  <2>1. Len(chain) \in Nat /\ DOMAIN chain = 1..Len(chain)
    BY DEF IInv, Stored
  <2> QED BY <2>1, RowFits, VerifiesAll
<1> QED BY <1>1, Invariance, ContentsInvariance, PTL

\* With SQLite it rejects every chain that has a row, altered or not: the hash
\* was taken of an aware time and is compared with that of a naive one.
THEOREM SqliteRejectsTheorem == Spec => [](chain # <<>> => ~Verifies("sqlite", chain))
<1>1. IInv /\ Contents /\ VerifiesAsHashed => (chain # <<>> => ~Verifies("sqlite", chain))
  <2> SUFFICES ASSUME IInv, Contents, VerifiesAsHashed, chain # <<>>, Verifies("sqlite", chain)
               PROVE  FALSE
    OBVIOUS
  <2>1. 1 \in DOMAIN chain /\ 1 \in 1..Len(chain)
    BY ChainRows, EmptySeq
  <2>2. ReadBack("sqlite", chain[1]) = chain[1]
    BY <2>1 DEF VerifiesAsHashed, Databases
  <2>3. chain[1] \in LogRow /\ chain[1].created_at = "aware"
    BY <2>1, ChainRows
  <2>4. ReadBack("sqlite", chain[1]).created_at = "naive"
    BY <2>3 DEF ReadBack, LogRow
  <2> QED BY <2>2, <2>3, <2>4
<1> QED BY <1>1, VerifiesTheorem, Invariance, ContentsInvariance, PTL

\* With PostgreSQL it accepts a chain if and only if JSONB keeps every number in
\* the payloads, which are the clients', as it was hashed.
THEOREM JsonbTheorem ==
  Spec => [](Verifies("postgresql", chain)
               <=> \A i \in DOMAIN chain : chain[i].event \notin Rewritten)
<1>1. IInv /\ Contents /\ VerifiesAsHashed =>
        (Verifies("postgresql", chain)
           <=> \A i \in DOMAIN chain : chain[i].event \notin Rewritten)
  <2> SUFFICES ASSUME IInv, Contents, VerifiesAsHashed, NEW i \in DOMAIN chain
               PROVE  ReadBack("postgresql", chain[i]) = chain[i]
                        <=> chain[i].event \notin Rewritten
    BY DEF VerifiesAsHashed, Databases
  <2>1. chain[i] \in LogRow /\ chain[i].payload = "given"
    BY ChainRows
  <2>2. CASE chain[i].event \in Rewritten
    <3>1. ReadBack("postgresql", chain[i]).payload = "rewritten"
      BY <2>1, <2>2 DEF ReadBack, LogRow
    <3> QED BY <2>1, <2>2, <3>1
  <2>3. CASE chain[i].event \notin Rewritten
    BY <2>3 DEF ReadBack
  <2> QED BY <2>2, <2>3
<1> QED BY <1>1, VerifiesTheorem, Invariance, ContentsInvariance, PTL

-----------------------------------------------------------------------------
(***************************************************************************)
(* Altered rows.                                                           *)
(***************************************************************************)

\* A row with another event and the old hash.
LEMMA EventExposed ==
  ASSUME IInv, Contents, NEW db, NEW i \in DOMAIN chain
  PROVE  ~Verifies(db, [chain EXCEPT ![i].event = Altered])
<1> DEFINE row == chain[i]
           false == [row EXCEPT !.event = Altered]
           rows == [chain EXCEPT ![i] = false]
<1>1. i \in 1..Len(chain) /\ chain \in Seq(LogRow)
  BY ChainRows
<1>2. /\ row \in LogRow /\ row.event # Altered /\ row.previous_hash \in Digest
      /\ row.entry_hash = Hash(i, row.event, row.payload, row.previous_hash, "aware")
      /\ row.sequence_number = i
  BY <1>1, ChainRows DEF LogRow
<1>3. false \in LogRow
  BY <1>2, ConstantsAssumption DEF LogRow
<1>4. /\ false.event = Altered /\ false.previous_hash = row.previous_hash
      /\ false.entry_hash = row.entry_hash /\ false.sequence_number = i
  BY <1>2 DEF LogRow
<1>5. Len(rows) = Len(chain) /\ rows[i] = false /\ rows \in Seq(LogRow)
  <2> HIDE DEF false
  <2> QED BY <1>1, <1>3, ExceptSeq
<1> HIDE DEF false, row
<1>6. ~Fits(db, rows, i)
  <2> SUFFICES ASSUME Fits(db, rows, i) PROVE FALSE
    OBVIOUS
  <2> DEFINE back == ReadBack(db, false)
  <2>1. /\ back.sequence_number = i /\ back.event = Altered
        /\ back.previous_hash = row.previous_hash /\ back.entry_hash = row.entry_hash
    BY <1>3, <1>4, BackKeeps DEF LogRow
  <2>2. back.entry_hash =
          Hash(back.sequence_number, back.event, back.payload, back.previous_hash,
               back.created_at)
    BY <1>5 DEF Fits, RecordFits
  <2> HIDE DEF back
  <2>3. Hash(i, row.event, row.payload, row.previous_hash, "aware")
          = Hash(i, Altered, back.payload, row.previous_hash, back.created_at)
    BY <1>2, <2>1, <2>2
  <2> QED BY <1>2, <2>3, HashTells
<1> HIDE DEF rows
<1>7. ~Verifies(db, rows)
  BY <1>1, <1>5, <1>6, VerifiesAll
<1> QED BY <1>7 DEF rows, false, row

\* A row with another event and the hash recomputed: the signature is not.
LEMMA ForgeExposed ==
  ASSUME IInv, Contents, NEW db, NEW i \in DOMAIN chain
  PROVE  ~Verifies(db, [chain EXCEPT ![i] = Forge([@ EXCEPT !.event = Altered])])
<1> DEFINE row == chain[i]
           false == [row EXCEPT !.event = Altered]
           hash == Hash(i, Altered, "given", row.previous_hash, "aware")
           forged == [false EXCEPT !.entry_hash = hash]
           rows == [chain EXCEPT ![i] = forged]
<1>1. i \in 1..Len(chain) /\ chain \in Seq(LogRow)
  BY ChainRows
<1>2. /\ row \in LogRow /\ row.event # Altered /\ row.previous_hash \in Digest
      /\ row.entry_hash = Hash(i, row.event, row.payload, row.previous_hash, "aware")
      /\ row.sequence_number = i /\ row.created_at = "aware" /\ i \in Nat
      /\ row.payload = "given"
      /\ row.signature = Sign(row.entry_hash)
  BY <1>1, ChainRows DEF LogRow
<1>3. hash \in Digest
  <2> DEFINE material == [sequence_number |-> i, event |-> Altered, payload |-> "given",
                         created_at |-> "aware"]
  <2>1. material \in Material
    BY <1>2, ConstantsAssumption DEF Material
  <2> HIDE DEF material
  <2>2. Append(row.previous_hash, material) \in Digest
    BY <1>2, <2>1, AppendProperties DEF Digest
  <2> QED BY <2>2 DEF material, Hash
<1>4. hash # row.entry_hash
  BY <1>2, HashTells
<1> HIDE DEF hash
<1>5. forged \in LogRow /\ forged.entry_hash = hash /\ forged.signature = Sign(row.entry_hash)
  BY <1>2, <1>3, ConstantsAssumption DEF LogRow
<1>6. forged = Forge([chain[i] EXCEPT !.event = Altered])
  BY <1>2 DEF Forge, LogRow, hash
<1>7. Len(rows) = Len(chain) /\ rows[i] = forged /\ rows \in Seq(LogRow)
  <2> HIDE DEF forged
  <2> QED BY <1>1, <1>5, ExceptSeq
<1> HIDE DEF forged
<1>8. ~Fits(db, rows, i)
  <2> SUFFICES ASSUME Fits(db, rows, i) PROVE FALSE
    OBVIOUS
  <2>1. ReadBack(db, forged).signature = Sign(ReadBack(db, forged).entry_hash)
    BY <1>7 DEF Fits, RecordFits
  <2>2. Sign(row.entry_hash) = Sign(hash)
    BY <1>5, <2>1, BackKeeps DEF LogRow
  <2>3. Sign(row.entry_hash).signed = Sign(hash).signed
    BY <2>2
  <2> QED BY <1>4, <2>3 DEF Sign
<1> HIDE DEF rows
<1>9. ~Verifies(db, rows)
  BY <1>1, <1>7, <1>8, VerifiesAll
<1> QED BY <1>6, <1>9 DEF rows

\* A row in a place that is not its number.
LEMMA PlaceExposed ==
  ASSUME IInv, Contents, NEW db, NEW rows, Len(rows) \in Nat, NEW i \in 1..Len(rows),
         NEW k \in 1..Len(chain), k # i, rows[i] = chain[k]
  PROVE  ~Verifies(db, rows)
<1>1. chain[k] \in LogRow /\ chain[k].sequence_number = k
  BY ChainRows
<1>2. ReadBack(db, rows[i]).sequence_number = k
  BY <1>1, BackKeeps DEF LogRow
<1>3. ~Fits(db, rows, i)
  BY <1>2 DEF Fits, RecordFits, Expected
<1> QED BY <1>3, VerifiesAll

LEMMA RemovalExposed ==
  ASSUME IInv, Contents, NEW db, NEW i \in 1..(Len(chain) - 1)
  PROVE  ~Verifies(db, RemoveAt(chain, i))
<1> DEFINE n == Len(chain)
           before == SubSeq(chain, 1, i - 1)
           after == SubSeq(chain, i + 1, n)
           rows == before \o after
<1>1. chain \in Seq(LogRow) /\ n \in Nat /\ i \in Nat /\ i + 1 <= n /\ i >= 1
  BY ChainRows
<1>2. before \in Seq(LogRow) /\ Len(before) = i - 1
  <2>1. \A k \in 1..(i - 1) : chain[k] \in LogRow
    BY <1>1
  <2>2. /\ before \in Seq(LogRow)
        /\ Len(before) = IF 1 <= i - 1 THEN i - 1 - 1 + 1 ELSE 0
    BY <1>1, <2>1, SubSeqProperties
  <2> HIDE DEF before
  <2> QED BY <1>1, <2>2
<1>3. after \in Seq(LogRow) /\ Len(after) = n - i /\ after[1] = chain[i + 1]
  <2>1. \A k \in (i + 1)..n : chain[k] \in LogRow
    BY <1>1
  <2>2. /\ after \in Seq(LogRow)
        /\ Len(after) = IF i + 1 <= n THEN n - (i + 1) + 1 ELSE 0
        /\ \A k \in 1..(n - (i + 1) + 1) : after[k] = chain[i + 1 + k - 1]
    BY <1>1, <2>1, SubSeqProperties
  <2>3. 1 \in 1..(n - (i + 1) + 1) /\ i + 1 + 1 - 1 = i + 1 /\ n - (i + 1) + 1 = n - i
    BY <1>1
  <2> HIDE DEF after
  <2> QED BY <1>1, <2>2, <2>3
<1> HIDE DEF before, after
<1>4. /\ Len(rows) = Len(before) + Len(after)
      /\ \A k \in 1..(Len(before) + Len(after)) :
           rows[k] = IF k <= Len(before) THEN before[k] ELSE after[k - Len(before)]
  BY <1>2, <1>3, ConcatProperties
<1> HIDE DEF rows
<1>5. Len(rows) = n - 1 /\ i \in 1..Len(rows) /\ Len(rows) \in Nat
  BY <1>1, <1>2, <1>3, <1>4
<1>6. rows[i] = chain[i + 1]
  <2>1. i \in 1..(Len(before) + Len(after)) /\ ~(i <= Len(before)) /\ i - Len(before) = 1
    BY <1>1, <1>2, <1>3
  <2> QED BY <1>3, <1>4, <2>1
<1>7. i + 1 \in 1..Len(chain) /\ i + 1 # i
  BY <1>1
<1>8. ~Verifies(db, rows)
  BY <1>5, <1>6, <1>7, PlaceExposed
<1> QED BY <1>8 DEF RemoveAt, rows, before, after

LEMMA ExchangeExposed ==
  ASSUME IInv, Contents, NEW db, NEW i \in 1..(Len(chain) - 1)
  PROVE  ~Verifies(db, [chain EXCEPT ![i] = chain[i + 1], ![i + 1] = chain[i]])
<1> DEFINE n == Len(chain)
           one == [chain EXCEPT ![i] = chain[i + 1]]
           rows == [one EXCEPT ![i + 1] = chain[i]]
<1>1. /\ chain \in Seq(LogRow) /\ n \in Nat /\ i \in 1..n /\ i + 1 \in 1..n /\ i + 1 # i
      /\ chain[i] \in LogRow /\ chain[i + 1] \in LogRow
  BY ChainRows
<1>2. one \in Seq(LogRow) /\ Len(one) = n /\ one[i] = chain[i + 1]
  BY <1>1, ExceptSeq
<1> HIDE DEF one
<1>3. rows \in Seq(LogRow) /\ Len(rows) = n /\ rows[i] = one[i]
  BY <1>1, <1>2, ExceptSeq
<1> HIDE DEF rows
<1>4. ~Verifies(db, rows)
  BY <1>1, <1>2, <1>3, PlaceExposed
<1> QED BY <1>4 DEF rows, one

\* Nobody without the key can change an event, with or without recomputing its
\* hash, take a row out before the last or exchange two neighbours without
\* verify_chain raising AuditIntegrityError.
THEOREM ExposedTheorem == Spec => []AlterationsExposed
<1>1. IInv /\ Contents => AlterationsExposed
  <2> SUFFICES ASSUME IInv, Contents, NEW rows \in Alterations, NEW db \in Databases
               PROVE  ~Verifies(db, rows)
    BY DEF AlterationsExposed
  <2>1. CASE \E i \in DOMAIN chain : rows = [chain EXCEPT ![i].event = Altered]
    <3>1. PICK i \in DOMAIN chain : rows = [chain EXCEPT ![i].event = Altered]
      BY <2>1
    <3>2. ~Verifies(db, [chain EXCEPT ![i].event = Altered])
      BY EventExposed
    <3> QED BY <3>1, <3>2, Zenon
  <2>2. CASE \E i \in DOMAIN chain :
               rows = [chain EXCEPT ![i] = Forge([@ EXCEPT !.event = Altered])]
    BY <2>2, ForgeExposed
  <2>3. CASE \E i \in 1..(Len(chain) - 1) : rows = RemoveAt(chain, i)
    BY <2>3, RemovalExposed
  <2>4. CASE \E i \in 1..(Len(chain) - 1) :
               rows = [chain EXCEPT ![i] = chain[i + 1], ![i + 1] = chain[i]]
    BY <2>4, ExchangeExposed
  <2> QED BY <2>1, <2>2, <2>3, <2>4 DEF Alterations
<1> QED BY <1>1, Invariance, ContentsInvariance, PTL

\* What verify_chain cannot see on either database: if it accepts the chain, it
\* accepts the chain without its last rows too (nothing outside the table holds
\* the last hash or the number of rows).
CutUnseen ==
  \A db \in Databases : \A n \in 0..Len(chain) :
    Verifies(db, chain) => Verifies(db, SubSeq(chain, 1, n))

\* It never sees such a cut, at any moment of any run.
THEOREM CutUnseenTheorem == Spec => []CutUnseen
<1>1. ASSUME IInv, Contents, NEW db \in Databases, NEW n \in 0..Len(chain),
             Verifies(db, chain)
      PROVE  Verifies(db, SubSeq(chain, 1, n))
  <2> DEFINE rows == SubSeq(chain, 1, n)
  <2>1. chain \in Seq(LogRow) /\ Len(chain) \in Nat /\ n \in Nat /\ n <= Len(chain)
    BY <1>1, ChainRows
  <2>2. Len(rows) = n /\ \A i \in 1..n : rows[i] = chain[i]
    <3>1. \A i \in 1..n : chain[i] \in LogRow
      BY <2>1
    <3>2. /\ Len(rows) = IF 1 <= n THEN n - 1 + 1 ELSE 0
          /\ \A i \in 1..(n - 1 + 1) : rows[i] = chain[1 + i - 1]
      BY <2>1, <3>1, SubSeqProperties
    <3>3. n - 1 + 1 = n /\ \A i \in 1..n : 1 + i - 1 = i
      BY <2>1
    <3> HIDE DEF rows
    <3> QED BY <2>1, <3>2, <3>3
  <2> HIDE DEF rows
  <2>3. \A i \in 1..Len(chain) : Fits(db, chain, i)
    BY <1>1, <2>1, VerifiesAll
  <2>4. ASSUME NEW i \in 1..n PROVE Fits(db, rows, i)
    <3>1. i \in 1..Len(chain) /\ (i # 1 => i - 1 \in 1..n)
      BY <2>1
    <3>2. rows[i] = chain[i] /\ HashBefore(db, rows, i) = HashBefore(db, chain, i)
      BY <2>2, <3>1 DEF HashBefore
    <3> QED BY <2>3, <3>1, <3>2 DEF Fits
  <2>5. Verifies(db, rows)
    BY <2>1, <2>2, <2>4, VerifiesAll
  <2> QED BY <2>5 DEF rows
<1>2. IInv /\ Contents => CutUnseen
  BY <1>1 DEF CutUnseen
<1> QED BY <1>2, Invariance, ContentsInvariance, PTL
=============================================================================
