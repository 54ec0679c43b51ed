--------------------------- MODULE BudgetGovernor ---------------------------
(***************************************************************************)
(* The budget of one (agent, currency) pair: its row in the database, its  *)
(* counter in Redis, and the coroutines that read and write both.          *)
(*                                                                         *)
(* Every await of the code is a point where other coroutines run, so every *)
(* database statement and every Redis command is an action of its own.     *)
(* The row is the one PostgreSQL keeps under READ COMMITTED: a plain       *)
(* SELECT sees the last committed row, SELECT ... FOR UPDATE waits for the *)
(* row's lock, and an uncommitted INSERT makes a second INSERT of the same *)
(* unique key wait.  Budgets of other pairs have other rows and other      *)
(* Redis keys and share nothing with this one.                             *)
(*                                                                         *)
(* A call is one financial ExecutionIntent (requested_amount and currency  *)
(* present) on its way through AgentInterceptor; an admin is one request   *)
(* PUT /agents/{agent_id}/budgets.  What policies and reviewers decide is  *)
(* left open here: every outcome the governor's answer permits is allowed. *)
(*                                                                         *)
(* A definition that stands directly before another with the same          *)
(* parameters and is used nowhere (RowFreeUnlocked, CounterIgnored, ...)   *)
(* is a mutation of the latter: README.md, "Mutations".                    *)
(***************************************************************************)
EXTENDS Integers, FiniteSets

CONSTANTS
  Calls,        \* financial intents, one coroutine each
  Wrapped,      \* the calls made by AgentInterceptor.execute, which runs the
                \* tool and settles; the others are POST /intents/evaluate
  Amount,       \* Amount[c]: intent.requested_amount, in units of 0.0001
  Admins,       \* requests that create the budget or move its cap
  NewLimit,     \* NewLimit[a]: payload.limit_amount
  InitRows,     \* rows the behaviour may start from
  FaultSets,    \* which of the things below may go wrong together
  NoRow,        \* the SELECT finds no budget
  NoKey,        \* the GET finds no counter
  Nobody        \* nobody holds the row's lock

(***************************************************************************)
(* "toolError": a tool may raise; "abandon": a handler may stop anywhere   *)
(* (exception from the database or Redis, cancellation, process crash);    *)
(* "expiry": Redis may drop the counter (TTL, eviction, lost AOF tail).    *)
(***************************************************************************)
FaultKinds == {"toolError", "abandon", "expiry"}

Row == [limit : Nat, consumed : Nat, version : Nat, active : BOOLEAN]

Procs == Calls \cup Admins

ASSUME ConstantsAssumption ==
  /\ Wrapped \subseteq Calls
  /\ Calls \cap Admins = {}
  /\ Amount \in [Calls -> Nat \ {0}]
  /\ NewLimit \in [Admins -> Nat \ {0}]
  /\ FaultSets \subseteq SUBSET FaultKinds
  /\ \A r \in InitRows : r = NoRow \/ (r \in Row /\ r.consumed <= r.limit)
  /\ NoRow \notin Row
  /\ NoKey \notin Int
  /\ Nobody \notin Procs

VARIABLES
  row,          \* the committed row of the table budgets
  lock,         \* who has the row locked, or its key inserted uncommitted
  redis,        \* the counter under marcel:budget:{agent_id}:{currency}
  pc,           \* where each coroutine stands
  seen,         \* the Budget object each coroutine loaded and still uses
  faults        \* what may go wrong in this behaviour; a parameter, it never changes

state == <<row, lock, redis, pc, seen>>
vars == <<faults, state>>

CallSteps ==
  {"idle", "lookup", "miss", "reread", "waiting", "allowed", "reserving",
   "granted", "spent", "locked", "reset", "failing", "releasing"}
CallEnds == {"denied", "committed", "unrecorded", "failed", "leaked"}
AdminSteps == {"idle", "inserting", "flushed", "reset"}
AdminEnds == {"updated", "refused", "aborted"}

Remaining(r) == r.limit - r.consumed

\* max(remaining, Decimal("0"))
Floor(n) == IF n < 0 THEN 0 ELSE n

(***************************************************************************)
(* Control moves from one await to the next, keeping the loaded Budget     *)
(* object, replacing it, or, at the end of the handler, dropping it.       *)
(***************************************************************************)
Goto(p, next) == pc' = [pc EXCEPT ![p] = next] /\ UNCHANGED seen
Load(p, r, next) ==
  /\ pc' = [pc EXCEPT ![p] = next]
  /\ seen' = [seen EXCEPT ![p] = r]
Drop(p, next) == Load(p, NoRow, next)

Usable(r) == r # NoRow /\ r.active

\* SELECT ... FOR UPDATE returns at once if there is no row, else with its lock.
RowFreeUnlocked == TRUE
RowFree == row # NoRow => lock = Nobody

\* ROLLBACK frees the lock of a handler that stops.
UnlockForgotten(p) == lock
Unlock(p) == IF lock = p THEN Nobody ELSE lock

\* The counter as remaining() and the Lua script take it: without one, both
\* start from the remaining amount of the row as it was when it was selected.
CounterIgnored(c) == Floor(Remaining(seen[c]))
Counter(c) == IF redis = NoKey THEN Floor(Remaining(seen[c])) ELSE redis

Init ==
  /\ faults \in FaultSets
  /\ row \in InitRows
  /\ redis \in {NoKey} \cup {Remaining(r) : r \in {row} \ {NoRow}}
  /\ lock = Nobody
  /\ pc = [p \in Procs |-> "idle"]
  /\ seen = [p \in Procs |-> NoRow]

-----------------------------------------------------------------------------
(***************************************************************************)
(* DeterministicPolicyEngine.evaluate and TokenBucketGovernor.remaining.   *)
(***************************************************************************)

\* The agent check may refuse at once; otherwise the policies are read and
\* remaining() selects the budget, whose absence is a deny.
Evaluate(c) ==
  /\ pc[c] = "idle"
  /\ \/ Drop(c, "denied")
     \/ IF Usable(row) THEN Load(c, row, "lookup") ELSE Drop(c, "denied")
  /\ UNCHANGED <<row, lock, redis>>

\* With the cached amount in hand nothing is awaited before the outcome is
\* fixed.  An amount beyond it cannot be allowed; policies may always be
\* stricter.
Outcomes(c, cached) ==
  {"denied", "waiting"} \cup (IF Amount[c] > cached THEN {} ELSE {"allowed"})

Decide(c, cached) == \E outcome \in Outcomes(c, cached) : Drop(c, outcome)

Lookup(c) ==
  /\ pc[c] = "lookup"
  /\ IF redis = NoKey THEN Goto(c, "miss") ELSE Decide(c, redis)
  /\ UNCHANGED <<row, lock, redis>>

\* SET key remaining NX: the amount comes from the row loaded before the GET.
Seed(c) ==
  /\ pc[c] = "miss"
  /\ redis' = Counter(c)
  /\ Goto(c, "reread")
  /\ UNCHANGED <<row, lock>>

\* A counter gone again makes Decimal("None") raise.
Reread(c) ==
  /\ pc[c] = "reread"
  /\ IF redis = NoKey THEN Drop(c, "denied") ELSE Decide(c, redis)
  /\ UNCHANGED <<row, lock, redis>>

\* The approval a waiting call gets, or does not get (see HitlApproval).
Resolve(c) ==
  /\ pc[c] = "waiting"
  /\ \E outcome \in {"allowed", "denied"} : Goto(c, outcome)
  /\ UNCHANGED <<row, lock, redis>>

-----------------------------------------------------------------------------
(***************************************************************************)
(* TokenBucketGovernor.reserve, called by evaluate_or_wait for an allowed  *)
(* intent and by _resolution_decision for an approved one.                 *)
(***************************************************************************)

ReserveSelect(c) ==
  /\ pc[c] = "allowed"
  /\ IF Usable(row) /\ Remaining(row) >= Amount[c]
       THEN Load(c, row, "reserving")
       ELSE Drop(c, "denied")
  /\ UNCHANGED <<row, lock, redis>>

ReserveUnchecked(c) ==
  /\ pc[c] = "reserving"
  /\ Drop(c, "granted") /\ redis' = Counter(c) - Amount[c]
  /\ UNCHANGED <<row, lock>>

\* The Lua script: one atomic step.
ReserveScript(c) ==
  /\ pc[c] = "reserving"
  /\ IF Counter(c) < Amount[c]
       THEN Drop(c, "denied") /\ UNCHANGED redis
       ELSE Drop(c, "granted") /\ redis' = Counter(c) - Amount[c]
  /\ UNCHANGED <<row, lock>>

-----------------------------------------------------------------------------
(***************************************************************************)
(* AgentInterceptor.execute after an allow: the tool runs, then the budget *)
(* is committed or the reservation released.                               *)
(***************************************************************************)

ToolSucceeds(c) ==
  /\ pc[c] = "granted" /\ c \in Wrapped
  /\ Goto(c, "spent")
  /\ UNCHANGED <<row, lock, redis>>

ToolFails(c) ==
  /\ "toolError" \in faults
  /\ pc[c] = "granted" /\ c \in Wrapped
  /\ Goto(c, "failing")
  /\ UNCHANGED <<row, lock, redis>>

Consume(r, c) == [r EXCEPT !.consumed = @ + Amount[c], !.version = @ + 1]

\* SELECT ... FOR UPDATE, the checks, and the change of the loaded object.
\* GovernanceError rolls back: the tool has run and the ledger says nothing.
CommitLoad(c) ==
  /\ pc[c] = "spent"
  /\ RowFree
  /\ IF Usable(row) /\ row.consumed + Amount[c] <= row.limit
       THEN /\ lock' = c
            /\ Load(c, Consume(row, c), "locked")
       ELSE Drop(c, "unrecorded") /\ UNCHANGED lock
  /\ UNCHANGED <<row, redis>>

\* What reset() is handed: the remaining amount after the change.  It refuses a
\* negative one; ResetNeverRaises shows that it never gets it.
ResetToBefore(p) == Remaining(IF row = NoRow THEN seen[p] ELSE row)
ResetSkipped(p) == redis
ResetTo(p) == Remaining(seen[p])

\* reset() writes the counter before the transaction commits.
CommitReset(c) ==
  /\ pc[c] = "locked"
  /\ redis' = ResetTo(c)
  /\ Goto(c, "reset")
  /\ UNCHANGED <<row, lock>>

\* The audit append flushes the UPDATE of the changed columns; COMMIT.
CommitFlush(c) ==
  /\ pc[c] = "reset" /\ c \in Calls
  /\ row' = [row EXCEPT !.consumed = seen[c].consumed, !.version = seen[c].version]
  /\ lock' = Nobody
  /\ Drop(c, "committed")
  /\ UNCHANGED redis

ReleaseLoad(c) ==
  /\ pc[c] = "failing"
  /\ IF row = NoRow THEN Drop(c, "failed") ELSE Load(c, row, "releasing")
  /\ UNCHANGED <<row, lock, redis>>

ReleaseSet(c) ==
  /\ pc[c] = "releasing"
  /\ redis' = Floor(Remaining(seen[c]))
  /\ Drop(c, "failed")
  /\ UNCHANGED <<row, lock>>

-----------------------------------------------------------------------------
(***************************************************************************)
(* upsert_budget.                                                          *)
(***************************************************************************)

NewBudget(a) ==
  [limit |-> NewLimit[a], consumed |-> 0, version |-> 1, active |-> TRUE]

MoveLimit(r, a) == [r EXCEPT !.limit = NewLimit[a], !.version = @ + 1]

BelowConsumedAllowed(a) == FALSE
BelowConsumed(a) == NewLimit[a] < row.consumed

UpsertLoad(a) ==
  /\ pc[a] = "idle"
  /\ RowFree
  /\ IF row = NoRow
       THEN Load(a, NewBudget(a), "inserting") /\ UNCHANGED lock
       ELSE IF BelowConsumed(a)
              THEN Drop(a, "refused") /\ UNCHANGED lock
              ELSE lock' = a /\ Load(a, MoveLimit(row, a), "flushed")
  /\ UNCHANGED <<row, redis>>

\* The flush of a new row: uq_budget_agent_currency makes it wait for another
\* uncommitted insert and fail once a row is there.
UpsertInsert(a) ==
  /\ pc[a] = "inserting"
  /\ lock = Nobody
  /\ IF row = NoRow
       THEN lock' = a /\ Goto(a, "flushed")
       ELSE Drop(a, "refused") /\ UNCHANGED lock
  /\ UNCHANGED <<row, redis>>

UpsertReset(a) ==
  /\ pc[a] = "flushed"
  /\ redis' = ResetTo(a)
  /\ Goto(a, "reset")
  /\ UNCHANGED <<row, lock>>

UpsertCommit(a) ==
  /\ pc[a] = "reset" /\ a \in Admins
  /\ row' = IF row = NoRow
              THEN seen[a]
              ELSE [row EXCEPT !.limit = seen[a].limit, !.version = seen[a].version]
  /\ lock' = Nobody
  /\ Drop(a, "updated")
  /\ UNCHANGED redis

-----------------------------------------------------------------------------
\* A call over HTTP ends with its reservation: no route settles it.
Ended(p) ==
  IF p \in Admins
    THEN pc[p] \in AdminEnds
    ELSE pc[p] \in CallEnds \/ (pc[p] = "granted" /\ p \notin Wrapped)

(***************************************************************************)
(* What goes wrong.                                                        *)
(***************************************************************************)

\* What a handler that stops leaves behind.
StopsAs(p) ==
  IF p \in Admins THEN "aborted"
  ELSE IF pc[p] \in {"spent", "locked", "reset"} THEN "unrecorded"
  ELSE IF pc[p] \in {"granted", "failing", "releasing"} THEN "leaked"
  ELSE "denied"

\* The transaction rolls back, the lock goes, Redis keeps what was written.
Abandon(p) ==
  /\ "abandon" \in faults
  /\ ~Ended(p)
  /\ Drop(p, StopsAs(p))
  /\ lock' = Unlock(p)
  /\ UNCHANGED <<row, redis>>

Expire ==
  /\ "expiry" \in faults
  /\ redis # NoKey
  /\ redis' = NoKey
  /\ UNCHANGED <<row, lock, pc, seen>>

-----------------------------------------------------------------------------
CallStep(c) ==
  \/ Evaluate(c) \/ Lookup(c) \/ Seed(c) \/ Reread(c) \/ Resolve(c)
  \/ ReserveSelect(c) \/ ReserveScript(c)
  \/ ToolSucceeds(c) \/ ToolFails(c)
  \/ CommitLoad(c) \/ CommitReset(c) \/ CommitFlush(c)
  \/ ReleaseLoad(c) \/ ReleaseSet(c)

AdminStep(a) ==
  UpsertLoad(a) \/ UpsertInsert(a) \/ UpsertReset(a) \/ UpsertCommit(a)

AllEnded == (\A p \in Procs : Ended(p)) /\ UNCHANGED state

Next ==
  /\ \/ \E c \in Calls : CallStep(c)
     \/ \E a \in Admins : AdminStep(a)
     \/ \E p \in Procs : Abandon(p)
     \/ Expire
     \/ AllEnded
  /\ UNCHANGED faults

\* The event loop runs every coroutine whose await is over, the database hands
\* a freed lock on, tools return and reviews end (with the timeout at worst).
Fairness ==
  /\ \A c \in Calls : WF_state(CallStep(c))
  /\ \A a \in Admins : WF_state(AdminStep(a))

Spec == Init /\ [][Next]_vars /\ Fairness

-----------------------------------------------------------------------------
(***************************************************************************)
(* Properties.                                                             *)
(***************************************************************************)

\* Every variable has its type; the row's lock belongs to a coroutine.
TypeOK ==
  /\ row \in Row \cup {NoRow}
  /\ lock \in Procs \cup {Nobody}
  /\ redis \in Nat \cup {NoKey}
  /\ pc \in [Procs -> CallSteps \cup CallEnds \cup AdminSteps \cup AdminEnds]
  /\ \A c \in Calls : pc[c] \in CallSteps \cup CallEnds
  /\ \A a \in Admins : pc[a] \in AdminSteps \cup AdminEnds
  /\ seen \in [Procs -> Row \cup {NoRow}]

\* The committed usage never exceeds the cap, whatever the counter says,
\* whoever commits or moves the cap at the same time and wherever a handler
\* stops ("PostgreSQL locking at commit remains authoritative", README.md:199).
CapRespected == row # NoRow => row.consumed <= row.limit

\* At most one transaction changes the row at a time, and what it will write is
\* the committed row with its own change applied: nothing it read has gone stale
\* behind its lock, and a commit that holds the lock fits under the cap.
ChangeInFlight ==
  /\ \A p \in Procs : lock = p <=> pc[p] \in {"locked", "flushed", "reset"}
  /\ \A c \in Calls : pc[c] \in {"locked", "reset"} =>
       /\ Usable(row)
       /\ row.consumed + Amount[c] <= row.limit
       /\ seen[c] = Consume(row, c)
  /\ \A a \in Admins : pc[a] \in {"flushed", "reset"} =>
       IF row = NoRow
         THEN seen[a] = NewBudget(a)
         ELSE /\ row.consumed <= NewLimit[a]
              /\ seen[a] = MoveLimit(row, a)

\* reset() is never handed a negative amount: its ValueError would roll back a
\* commit whose tool has already run.
ResetNeverRaises ==
  \A p \in Procs :
    pc[p] \in {"locked", "flushed"} => ResetTo(p) >= 0

\* What the calls S ask for together, counted unit by unit.
Units(S) == UNION {{c} \X (1..Amount[c]) : c \in S}
Sum(S) == Cardinality(Units(S))

\* Reservations whose call has not been settled, those of dead calls included.
Outstanding ==
  {c \in Calls : pc[c] \in {"granted", "spent", "locked", "failing", "releasing", "leaked"}}

\* No counter has yet been overwritten by a commit, a release or an admin.
NoneSettled ==
  \A p \in Procs :
    pc[p] \notin {"reset", "committed", "unrecorded", "failed", "aborted", "updated"}

\* As long as nothing overwrites the counter, the reservations granted to
\* concurrent calls never add up to more than the ledger has left, even when
\* the counter did not exist and several calls seed it from rows they read at
\* different times.  (Not with expiry: a lost counter forgets reservations.)
ReservationsExclusiveUntilSettled ==
  ("expiry" \notin faults /\ NoneSettled /\ row # NoRow) => Sum(Outstanding) <= Remaining(row)

\* Without faults the counter never offers more than the committed row has
\* left, except while a transaction that changes the row is in flight: no
\* seeding, reset or reservation leaves an old, larger amount behind.
CounterNeverOverstates ==
  (faults = {} /\ lock = Nobody /\ redis # NoKey /\ row # NoRow) => redis <= Remaining(row)

\* Without faults, once everything is at rest, the counter is absent or as much
\* below the ledger as some of the reservations that calls over HTTP left behind:
\* exact if there are none.  Whatever order the reservations and the resets came
\* in, no reservation of an execution and no older amount stays in the counter.
CounterConverges ==
  (faults = {} /\ redis # NoKey /\ row # NoRow /\ \A p \in Procs : Ended(p)) =>
    \E kept \in SUBSET {c \in Calls : pc[c] = "granted"} :
      redis + Sum(kept) = Remaining(row)

\* Every handler comes to its end: no row lock is kept by one that is gone and
\* no two wait for each other.
EveryHandlerEnds == <>(\A p \in Procs : Ended(p))

Ledger ==
  INSTANCE BudgetLedger WITH
    Limits <- {NewLimit[a] : a \in Admins},
    charged <- {c \in Calls : pc[c] = "committed"}

\* Seen from outside, the coroutines with their reads, locks, resets, rollbacks
\* and crashes are single steps that charge a call once or move the cap.
ImplementsLedger == Ledger!Spec

\* The tools that have run have spent no more than the cap, recorded or not
\* (README.md:198: "Redis reservation prevents concurrent agents from spending
\* the same currently available budget in the normal path").  It fails: the
\* reset() of one commit erases the reservations of the calls still running.
SpentWithinCap ==
  row # NoRow =>
    row.consumed + Sum({c \in Calls : pc[c] \in {"spent", "locked", "reset", "unrecorded"}})
      <= row.limit
=============================================================================
