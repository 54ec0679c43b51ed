----------------------------- MODULE AuditChain -----------------------------
(***************************************************************************)
(* The audit chain of marcel/security/audit.py: the table audit_logs, the  *)
(* transactions that append to it while they do their own work, and        *)
(* verify_chain, which may read it at any time.                            *)
(*                                                                         *)
(* An append reads the last row and inserts the next sequence number.  The *)
(* column is unique: the insert waits while another transaction has the    *)
(* same number inserted uncommitted, fails if that one commits, and goes   *)
(* on if it rolls back (PostgreSQL, READ COMMITTED).                       *)
(*                                                                         *)
(* SHA-256 is taken to be free of collisions: a hash is the sequence of    *)
(* the materials hashed one into the other, and no hash the empty one.     *)
(*                                                                         *)
(* A definition that stands directly before another with the same          *)
(* parameters and is used nowhere is a mutation of the latter: README.md,  *)
(* "Mutations".                                                            *)
(***************************************************************************)
EXTENDS Integers, SequencesExt

CONSTANTS
  Txs,          \* database transactions of handlers
  Appends,      \* Appends[t]: the audit events t appends, in order
  Rewritten,    \* events with a number in their payload that JSONB rewrites
  Altered,      \* what nobody appends
  Faults,       \* whether a handler may stop anywhere ("abandon")
  Nobody        \* no transaction has an uncommitted audit row

\* An event names the one call of append() that logs it.
DistinctEvents ==
  \A t, u \in Txs : \A i \in DOMAIN Appends[t], j \in DOMAIN Appends[u] :
    Appends[t][i] = Appends[u][j] => t = u /\ i = j

ASSUME ConstantsAssumption ==
  /\ \A t \in Txs : Appends[t] \in Seq(STRING \ {Altered}) /\ Appends[t] # <<>>
  /\ DistinctEvents /\ Altered \in STRING
  /\ Rewritten \subseteq STRING
  /\ Faults \subseteq {"abandon"}
  /\ Nobody \notin Txs

VARIABLES
  chain,        \* the committed rows in order of their sequence numbers
  pending,      \* the uncommitted rows, all of the one writer
  writer,       \* the transaction they belong to
  read,         \* read[t]: the rows t's append saw, of which it uses the last
  done,         \* done[t]: how many events t has appended
  pc            \* where each transaction stands

vars == <<chain, pending, writer, read, done, pc>>

-----------------------------------------------------------------------------
(***************************************************************************)
(* Records.                                                                *)
(***************************************************************************)

\* The canonical JSON hashed for a row holds the previous hash and the fields.
Hash(seq, event, payload, previous, at) ==
  Append(previous, [sequence_number |-> seq, event |-> event, payload |-> payload,
                    created_at |-> at])

\* An HMAC that only the holder of the key can make.
Sign(hash) == [signed |-> hash]

LastHash(rows) == IF rows = <<>> THEN <<>> ELSE Last(rows).entry_hash
NextNumber(rows) == IF rows = <<>> THEN 1 ELSE Last(rows).sequence_number + 1

\* The payload is hashed as it was given.  created_at is an aware UTC time; its
\* isoformat() ends in "+00:00".
UnlinkedRow(rows, event) ==
  LET hash == Hash(NextNumber(rows), event, "given", <<>>, "aware")
  IN  [sequence_number |-> NextNumber(rows), event |-> event, payload |-> "given",
       previous_hash |-> <<>>, entry_hash |-> hash, signature |-> Sign(hash),
       created_at |-> "aware"]
NewRow(rows, event) ==
  LET hash == Hash(NextNumber(rows), event, "given", LastHash(rows), "aware")
  IN  [sequence_number |-> NextNumber(rows), event |-> event, payload |-> "given",
       previous_hash |-> LastHash(rows), entry_hash |-> hash, signature |-> Sign(hash),
       created_at |-> "aware"]

\* What DATABASE_URL may name.
Databases == {"postgresql", "sqlite"}

\* What a SELECT returns of a row.  SQLite keeps the text of the JSON payload but
\* not the zone of a DateTime.  PostgreSQL keeps the time, but the payload is
\* JSONB, whose numbers are decimal: 1e16, which Python writes, and append
\* hashes, as 1e+16, comes back as the integer, and -0.0 as 0.0.
ReadBack(db, row) ==
  CASE db = "sqlite" -> [row EXCEPT !.created_at = "naive"]
    [] db = "postgresql" /\ row.event \in Rewritten -> [row EXCEPT !.payload = "rewritten"]
    [] OTHER -> row

-----------------------------------------------------------------------------
(***************************************************************************)
(* verify_chain.                                                           *)
(***************************************************************************)

Expected(n, previous) == [ok |-> TRUE, number |-> n, previous |-> previous]
Broken == [ok |-> FALSE]

\* One round of the loop; an AuditIntegrityError ends it.
RecordFitsUnsigned(row, expected) ==
  /\ row.sequence_number = expected.number
  /\ row.previous_hash = expected.previous
  /\ row.entry_hash =
       Hash(row.sequence_number, row.event, row.payload, row.previous_hash,
            row.created_at)
RecordFits(row, expected) ==
  /\ row.sequence_number = expected.number
  /\ row.previous_hash = expected.previous
  /\ row.entry_hash =
       Hash(row.sequence_number, row.event, row.payload, row.previous_hash,
            row.created_at)
  /\ row.signature = Sign(row.entry_hash)

Check(row, expected) ==
  IF expected.ok /\ RecordFits(row, expected)
    THEN Expected(expected.number + 1, row.entry_hash)
    ELSE Broken

\* What the loop expects after i rows.
Rounds(db, rows) ==
  LET after[i \in 0..Len(rows)] ==
        IF i = 0 THEN Expected(1, <<>>) ELSE Check(ReadBack(db, rows[i]), after[i - 1])
  IN  after

\* Does verify_chain return, the rows being stored in db?
Verifies(db, rows) == Rounds(db, rows)[Len(rows)].ok

-----------------------------------------------------------------------------
Init ==
  /\ chain = <<>> /\ pending = <<>> /\ writer = Nobody
  /\ read = [t \in Txs |-> <<>>]
  /\ done = [t \in Txs |-> 0]
  /\ pc = [t \in Txs |-> "working"]

Goto(t, next) == pc' = [pc EXCEPT ![t] = next]

\* SELECT ... ORDER BY sequence_number DESC LIMIT 1: committed rows and its own.
Select(t) ==
  /\ pc[t] = "working" /\ done[t] < Len(Appends[t])
  /\ read' = [read EXCEPT ![t] = IF writer = t THEN chain \o pending ELSE chain]
  /\ Goto(t, "inserting")
  /\ UNCHANGED <<chain, pending, writer, done>>

\* The unique sequence number: another uncommitted row of the same number makes
\* the insert wait, a committed one makes it fail.
NumberTakenNever(t) == FALSE
NumberTaken(t) == \E i \in DOMAIN chain : chain[i].sequence_number = NextNumber(read[t])
NumberFree(t) == writer \in {Nobody, t}

Insert(t) ==
  /\ pc[t] = "inserting" /\ ~NumberTaken(t) /\ NumberFree(t)
  /\ pending' = Append(pending, NewRow(read[t], Appends[t][done[t] + 1]))
  /\ writer' = t
  /\ done' = [done EXCEPT ![t] = @ + 1]
  /\ Goto(t, "working")
  /\ UNCHANGED <<chain, read>>

\* Rollback takes the uncommitted rows back.
RollbackKeepsLock(t) == UNCHANGED <<pending, writer>>
RollbackLeavesRows(t) ==
  /\ UNCHANGED pending
  /\ writer' = IF writer = t THEN Nobody ELSE writer
Rollback(t) ==
  /\ pending' = IF writer = t THEN <<>> ELSE pending
  /\ writer' = IF writer = t THEN Nobody ELSE writer

\* IntegrityError: caught nowhere, it rolls the handler's own work back too.
Conflict(t) ==
  /\ pc[t] = "inserting" /\ NumberTaken(t)
  /\ Rollback(t)
  /\ Goto(t, "failed")
  /\ UNCHANGED <<chain, read, done>>

Commit(t) ==
  /\ pc[t] = "working" /\ done[t] = Len(Appends[t])
  /\ chain' = chain \o pending
  /\ pending' = <<>> /\ writer' = Nobody
  /\ Goto(t, "committed")
  /\ UNCHANGED <<read, done>>

Ended(t) == pc[t] \in {"committed", "failed", "gone"}

Abandon(t) ==
  /\ "abandon" \in Faults /\ ~Ended(t)
  /\ Rollback(t)
  /\ Goto(t, "gone")
  /\ UNCHANGED <<chain, read, done>>

AllEnded == (\A t \in Txs : Ended(t)) /\ UNCHANGED vars

TxStep(t) == Select(t) \/ Insert(t) \/ Conflict(t) \/ Commit(t)

Next ==
  \/ \E t \in Txs : TxStep(t) \/ Abandon(t)
  \/ AllEnded

\* A handler whose statement has returned goes on.
Fairness == \A t \in Txs : WF_vars(TxStep(t))

Spec == Init /\ [][Next]_vars /\ Fairness

-----------------------------------------------------------------------------
(***************************************************************************)
(* Properties.                                                             *)
(***************************************************************************)

\* Every variable has its type; only the writer has uncommitted rows.
TypeOK ==
  /\ writer \in Txs \cup {Nobody}
  /\ (writer = Nobody) = (pending = <<>>)
  /\ done \in [Txs -> Nat]
  /\ \A t \in Txs : done[t] <= Len(Appends[t])
  /\ pc \in [Txs -> {"working", "inserting", "committed", "failed", "gone"}]

\* What a chain is: numbered from 1 without gaps, every row holding the hash of
\* the one before it, its own hash and the signature of that.
WellFormed(rows) ==
  \A i \in DOMAIN rows :
    /\ rows[i].sequence_number = i
    /\ rows[i].previous_hash = IF i = 1 THEN <<>> ELSE rows[i - 1].entry_hash
    /\ rows[i].entry_hash =
         Hash(i, rows[i].event, rows[i].payload, rows[i].previous_hash, rows[i].created_at)
    /\ rows[i].signature = Sign(rows[i].entry_hash)

\* However transactions that read the same last row race, wait for each other,
\* fail or stop, what is committed, and would be with the uncommitted rows, is
\* one well-formed chain.
ChainWellFormed == WellFormed(chain \o pending)

\* verify_chain accepts the chain of append, at every moment and on every
\* database, if and only if the database returns each of its rows as it was
\* hashed: the linking, the numbering and the signing of racing transactions
\* never are the reason of a rejection, and what storage changes always is.
VerifiesAsHashed ==
  \A db \in Databases :
    Verifies(db, chain) <=> \A i \in DOMAIN chain : ReadBack(db, chain[i]) = chain[i]

\* A chain that nobody has modified verifies on one database at least ("HMAC
\* signatures expose modification of the audit chain ... verify chains",
\* README.md:42).  It need not: with a payload that JSONB rewrites PostgreSQL
\* rejects it, and SQLite, for the time zone, rejects any.
VerifiesSomewhere == \E db \in Databases : Verifies(db, chain)

EventsOf(rows) == [i \in DOMAIN rows |-> rows[i].event]

\* The chain is the log of the events of committed transactions: a commit adds
\* all of its transaction's events at the end, in order, and no other step adds,
\* moves or takes back any.
Log == INSTANCE AuditLog WITH
  log <- EventsOf(chain),
  logged <- {t \in Txs : pc[t] = "committed"}
ImplementsLog == Log!Spec

\* Every transaction ends: nobody waits for a row that is never decided.
EveryTxEnds == \A t \in Txs : <>Ended(t)

Forge(row) ==
  LET hash == Hash(row.sequence_number, row.event, row.payload, row.previous_hash,
                   row.created_at)
  IN  [row EXCEPT !.entry_hash = hash]

\* Changes to the stored rows by somebody without the key: another event with
\* the old or a recomputed hash, a row missing before the last, two exchanged.
Alterations ==
  {[chain EXCEPT ![i].event = Altered] : i \in DOMAIN chain}
    \cup {[chain EXCEPT ![i] = Forge([@ EXCEPT !.event = Altered])] : i \in DOMAIN chain}
    \cup {RemoveAt(chain, i) : i \in 1..(Len(chain) - 1)}
    \cup {[chain EXCEPT ![i] = chain[i + 1], ![i + 1] = chain[i]] : i \in 1..(Len(chain) - 1)}

\* verify_chain rejects all of these on every database ("HMAC signatures expose
\* modification of the audit chain", README.md:42).  Rows cut off at the end it
\* cannot miss.
AlterationsExposed == \A rows \in Alterations : \A db \in Databases : ~Verifies(db, rows)
=============================================================================
