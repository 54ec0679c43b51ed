# A verification project for Marcel Arch

Marcel Arch decides whether an AI agent may perform an action, keeps a budget
per agent and currency, holds risky actions back until a human approves them
and signs a chained audit log. This directory holds TLA+ models of its
components, the TLC runs that check them, and proofs that TLAPS checks.
Paths and line numbers are relative to the repository.

## Inventory

| Component | State | Operations | Talks to |
|---|---|---|---|
| `TokenBucketGovernor` (`marcel/core/engine.py:32-126`) and `upsert_budget` (`marcel/api/router.py:68-89`) | row of `budgets` (cap, consumed, version, active), Redis counter `marcel:budget:{agent}:{currency}` | `remaining`, `reserve` (a Lua script), `commit`, `release`, `reset`; create a budget or move its cap | database, Redis |
| `AgentInterceptor` (`marcel/core/interceptor.py`) | none of its own | `evaluate_or_wait`, `execute`/`wrap`, approval wait, expiry, commit, failure record | engine, governor, audit, Redis pub/sub |
| HITL approvals (`interceptor.py:112-201`, `router.py:118-151`) | row of `hitl_transactions`, pub/sub channel per transaction | create or reuse by idempotency key, wait, resolve, expire | audit, Redis pub/sub |
| Audit chain (`marcel/security/audit.py`) | table `audit_logs` with a unique sequence number | `append` inside a handler's transaction, `verify_chain` | database |
| `DeterministicPolicyEngine` (`engine.py:129-258`) | table `policies` | `evaluate` | agent, policies, governor |
| Registration (`router.py:53-65, 92-104`) | tables `agents`, `policies` | insert with a unique key, audited | audit |
| Authentication (`marcel/security/auth.py`) | none | make and check a JWT, check a role | settings, clock |
| Application (`main.py`, `marcel/config.py`, `marcel/models/database.py`) | settings, connection pools, the schema | lifespan, middleware, exception handlers | everything |

Handlers are coroutines: every `await` lets others run, so every database
statement and Redis command is a step of its own. They share the database rows,
the Redis counter, the audit chain and the pool's connections; nothing else is
shared. What is hard:

* the ledger is changed under a row lock, the counter is not, and the counter
  is written before the transaction that it describes commits;
* an approval is resolved by a reviewer and expired by the waiting caller at the
  same time, and the news travels over at-most-once pub/sub backed by polling;
* every audited transaction competes for the next sequence number and loses its
  own work when it loses the race, after the tool has run too;
* handlers may stop anywhere (exception, cancellation, crash), and the answer to
  a COMMIT may be lost, so that a handler takes for failed what has happened;
* connections, rows and the end of the chain are all waited for by somebody who
  has something another one wants.

What makes each component correct: the ledger never exceeds its cap and charges
a call at most once; the counter never offers what the ledger no longer has; a
resolution is final and everybody learns the same one; the chain has no gaps,
verifies, and holds exactly the committed events; a decision is as strict as the
strictest rule in force, and closed on malformed definitions and rules; no tool
runs before what clears it is on record; whoever waits is served. `PROJECT.json`
lists the hazards line by line, each with the properties that are about it.

### About the sources

`marcel/core/engine.py:258-445` and `marcel/security/audit.py:119-183` repeat
earlier parts of their files without indentation, joined to the last good line,
and do not compile. The models follow the well-formed definitions before them
(`engine.py:1-258`, `audit.py:1-119`). `main.py:36-41` decorates
`session_middleware` as an async context manager and `main.py:72` installs it as
an HTTP middleware, which the framework awaits; the models are of the handlers
behind it.

The transactions are PostgreSQL's under READ COMMITTED (`README.md:208`: "Use
PostgreSQL, not SQLite, in non-local environments"); what `verify_chain` reads
back is modelled for both databases. Budget objects do not outlive the functions
that load them (the session's identity map is weak), so each `SELECT` yields the
committed row.

## Modules

| Module | What it is |
|---|---|
| `BudgetLedger` | abstract: a budget row that is opened, has its cap moved, and is charged once per execution, each in one step |
| `BudgetGovernor` | one (agent, currency) pair: row, lock, counter, calls and admins step by step |
| `Approval` | abstract: an approval, requested and resolved in single steps, and who may be told what |
| `HitlApproval` | one idempotency key: callers, reviewers, the row, pub/sub, deadlines, the audit appends of their transactions |
| `AuditLog` | abstract: a log which each transaction enters its events into in one step |
| `AuditChain` | the chain under concurrent transactions, and `verify_chain` |
| `PolicyEngine` | one evaluation over policies of any shape |
| `Executions` | whole executions that share a budget, keys and the chain: evaluation, approval, tool, commit or failure record |
| `Service` | replicas, tokens, pools of connections and all routes that write, with what each of them locks |
| `MC*` | the small instances for TLC |
| `*Proofs` | the theorems about the module they are named after; `BudgetReservationProofs` continues `BudgetGovernorProofs`, `AuditContentProofs` continues `AuditChainProofs` |

The modules meet in this way. `BudgetGovernor` implements `BudgetLedger`,
`HitlApproval` implements `Approval` and `AuditChain` implements `AuditLog`: each
shows one component await by await.
`Executions` puts them together with the audit chain, and stays small by using
what has been shown: the approval of a key moves as `Approval` says
(`ApprovalsKept` checks that it does), and the row changes as `BudgetLedger`
says (`ImplementsLedger`, with the completions on the audit chain as the charged
calls). `Service` forgets amounts and verdicts, and keeps who waits for what.

**BudgetGovernor.** `row` is the committed row, `lock` its row lock (or an
uncommitted insert), `redis` the counter, `pc` the await at which a coroutine
stands, `seen` the `Budget` object it has loaded, `faults` what may go wrong in
this behaviour, chosen once. `Evaluate`, `Lookup`, `Seed`, `Reread` are
`remaining()`; `ReserveSelect`, `ReserveScript` are `reserve()`; `CommitLoad`,
`CommitReset`, `CommitFlush` are `_commit_execution`; `ReleaseLoad`,
`ReleaseSet` are `_record_execution_failure`; `Upsert*` is the PUT of a budget.
The policies' and reviewers' verdicts are open: every outcome that the
governor's answer permits may happen. An evaluation over HTTP ends with its
reservation, because no route settles it.

**HitlApproval.** `status` is the row's, `holder` its lock, `trail` the audit
events, `writer` the transaction with an uncommitted audit row, `last` what each
append has read, `mail` the undelivered messages, `overdue` and `due` the
deadlines. The audit append is in the model because it decides who fails:
`InsertNeverCollides` shows that the `IntegrityError` branch of
`_create_or_get_hitl` (`interceptor.py:135-140`) is never taken, since the audit
row inserted first serializes the evaluations; the branch would raise anyway,
the session being inactive after the failed flush.

**AuditChain.** `chain` is committed, `pending` belongs to the one `writer`.
Hashes are ideal (a hash is the sequence of what was hashed), an HMAC can only
be made by the key's holder. An event names the one call of `append` that logs it
(`DistinctEvents`), so that an event on the chain tells whose it is; `Altered` is
what nobody appends. `ReadBack` says what a database returns of a row, which is
not always what was hashed: SQLite drops the zone of `created_at`
(`audit.py:103`), and PostgreSQL keeps payloads as JSONB (`database.py:22, 83`),
whose numbers are decimal: a client's 1e16 is hashed as `1e+16` and comes back as
an integer, -0.0 as 0.0. `Rewritten` is the set of events with such a payload, any
set. `Rounds` is the loop of `verify_chain` over what a database returns, as a
recursive function of the rows read so far, and `WellFormed` says independently
what a chain is.

**PolicyEngine.** The loops of `evaluate` and `_evaluate_policy`; one policy per
step. A list or payload condition matches, misses or is malformed; amounts are
numbers; an exception (`GovernanceError`, or `TypeError` for an unhashable
effect) is the outcome "raised". `Absent` is a missing key only; a null is a value
of the wrong type. The properties do not use the model's own `_matches`: `InScope`
says what a condition means, as the set of amounts and shapes it is about,
`RisksDue` which risks there is a reason for, and `Demands` which rules are in
force.

**Executions.** `log` is the set of committed audit events, `writer` who has an
uncommitted one, `current` whose append has read the row that is still the last:
who is in it waits, who is not loses its transaction. `decision` is the
`PolicyDecision` in a coroutine's hands, `ran` the executions whose tool has
done its work. A lost answer to a COMMIT (`"ack"`) leaves the change and takes
the handler to where its exception leads. The reservation inside the
transaction of the evaluation (`interceptor.py:71`) changes Redis at once and
for good. A key that was resolved before is found, not asked for again, and the
caller learns that resolution at once.

**Service.** `life` is where the lifespan of each replica stands, `ddl` who has
created the tables uncommitted. A token carries `iat`, the issuer's clock in
whole seconds; the replica that is asked compares it with its own clock. A
handler takes a connection of its replica's pool with its first statement
(`Checkout`), inserts or locks a row, appends to the chain and commits; `Close`
gives everything back at every end. While it waits for a reviewer a request has
nothing, and it takes a connection again to poll and to expire. `crowd` is the
set of requests of a behaviour, a parameter.

## Runs

State counts and times are of one run with two workers.

| Run | Instance | Shows | Distinct states |
|---|---|---|---|
| `budget` | 2 executions, 1 HTTP call, 2 admins; no budget, a fresh one, or a nearly spent inactive one; no fault, every fault, all but expiry | cap, serialized changes, `reset` never raises, reservations exclusive until the first reset, counter never overstates and, when nothing fails, comes to rest short by HTTP reservations only, implements `BudgetLedger`, everybody ends | 930,300 (2 min) |
| `budget_overspend` | 3 executions of 1, cap 2, no fault | **violation** of `README.md:198` | |
| `hitl` | 2 callers, 2 reviewers who disagree, 1 other audited request, all faults | one final resolution, the same for callers, reviewers and audit; implements `Approval`; everybody gets an answer | 725,662 (2 min) |
| `hitl_too_late` | 1 caller, 1 reviewer | **violation**: "has expired" is answered and rolled back (`router.py:138-141`) | |
| `hitl_stays_pending` | 1 caller, 1 other request | **violation** of `README.md:86`: the row is never expired | |
| `executions` | 3 executions, 2 of one key, 2 that exceed the budget together, all faults | nothing held back for its risk or for the budget runs unapproved, one story on the chain, ledger and chain agree, approvals kept, every execution ends | 123,338 |
| `executions_unasked` | the same, no fault | **violation** of `README.md:201`: not approved though nobody was asked | |
| `service` | 2 replicas, pools of 1 connection, 5 crowds of up to 3 requests | served only on a schema, one winner per key, budgets founded, resources in one order, tokens honoured, every request ends | 357,269 |
| `audit_races` | 4 transactions, 6 appends, one payload that JSONB rewrites, stops | well-formed, accepted by exactly the database that returns the rows as hashed, alterations exposed on both, implements `AuditLog`, no blocking | 11,400 |
| `audit_read_back` | 1 transaction, one payload that JSONB rewrites | **violation** of `README.md:42`: neither database accepts an unmodified chain | |
| `policy_decisions` | all conditions in one rule; effects and malformed parts in up to 3 rules of 2 policies | strictest rule in force obeyed, closed where it is closed, budget holds back what exceeds it and nothing else, risk is the highest there is a reason for | 607,152 |
| `policy_malformed` | one policy of one rule | **violation** of `README.md:40`: allowed past a denying rule with a malformed condition | |

**Bounds.** The amounts 1, 2, 1 against caps of 2, 3 and 4 let two calls exhaust
a budget and make a third too many, and let a cap be moved below and above what
is reserved. Three calls and two admins are what the races need: one that
commits, one that holds a reservation, one that comes in between, and two that
change the row. In `HitlApproval` two of each kind suffice for every pair of
actors to race. In `Executions` the first and the third execution compete for
the budget, the first and the second share a key; whoever is left is the other
transaction that takes the end of the chain. In `Service` one connection per
replica is the smallest pool there can be, so that whoever could wait for a
second one would wait for good; the crowds are the ones that meet at a key: two
registrations and a budget, a registration and two spellings of a currency, two
intents and their reviewer, and one request that is forbidden and one that is
invalid. Time passes (`MaxTime`, 6 ticks) only for a crowd of one, because it
matters only to the token; it is more than the lifetime of 4 and the clocks'
difference of 1. `AlterationsExposed` looks at chains of up to six rows. In
`audit_races` the rewritten payload is one transaction's, so that chains with
and without it are committed. The amounts of a policy run lie below, on and
above every bound and budget. No other counter needs an artificial bound: every
process runs once.

**Faults.** Tools that fail; handlers that stop at any await, which stands for
exceptions of the database or Redis, pool timeouts, cancellation and crashes;
answers to COMMITs that are lost (`Executions`, `Service`); a counter that
disappears; messages that are lost; replicas that fail to start or are shut
down. Lost audit races are not a fault but part of the models. In
`BudgetGovernor` what may go wrong is chosen in the initial state, so that one
run has behaviours with and without: `CounterNeverOverstates`,
`CounterConverges` and the exclusivity of reservations are claims about the
normal path and say so in their conditions; `release()` and a rolled back commit
do leave wrong counters behind.

**Fairness** is weak fairness of each coroutine and, for approvals, of time: the
event loop resumes whatever is ready, PostgreSQL hands freed locks on in order,
the pool hands freed connections on in order, `_await_resolution` computes its
deadline from a monotonic clock, tools are assumed to return. Nothing is assumed
about reviewers acting, clients sending or messages arriving. Deadlock checking
is on everywhere; `AllEnded`, `AllQuiet` and `Done` are the self-loops of
systems that have come to rest.

**Mutations.** Each property of a passing run has a mutation of the code that
violates it, listed in `PROJECT.json`: a missing `FOR UPDATE`, a reservation
that does lock the row, a COMMIT inside the `try` of the tool, a missing check
in the Lua script, a session that is not closed, a rollback that forgets the
lock, `>` for `>=` at the bound of an amount, and so on. The mutated definition
stands directly before the one it replaces and is used nowhere else.

## Findings

Six runs end in a violation on purpose; `PROJECT.json` quotes the documents.

1. `_commit_execution` sets the counter to what the ledger has left
   (`interceptor.py:208`) and so forgets the reservations of running tools: with
   a cap of 2, three tools can each spend 1, the last commit being refused after
   its tool has run. `SpentUntilSettledTheorem` proves that before the counter is
   first overwritten or lost this cannot happen.
2. `resolve_hitl` raises inside `session.begin()` and so undoes the EXPIRED it
   has just set (`router.py:138-141`).
3. An audit conflict in `_expire_transaction` leaves a transaction pending for
   good (`interceptor.py:201`).
4. When the engine allows and the reservation then fails, the answer is
   `require_approval` with no transaction (`interceptor.py:72-73`): nobody is
   asked and nothing is waited for, although `README.md:201` says that the
   evaluation waits for a human.
5. On SQLite `verify_chain` rejects every chain that is not empty (`audit.py:103`);
   the run `audit_read_back` shows one, `SqliteRejectsTheorem` proves it of all.
6. On PostgreSQL it rejects every chain with a payload that JSONB does not return
   as it was hashed (`audit.py:101`, `database.py:22`); the same run shows one,
   `JsonbTheorem` proves that these, and no others, are rejected.
7. A rule with a malformed condition is skipped, one that denies or asks for
   approval included (`engine.py:207-211`).

## Proofs

Eight modules of proofs assume nothing but the `ConstantsAssumption` of the
module they are about, which holds for coroutines, requests, replicas and
policies of any number, any amounts, keys, caps, pools, clocks and payloads;
where a theorem is about one database, the table says so. The first of them
about each component has a `TypeTheorem`, `Spec => []TypeOK`.

| Module | Theorem | States |
|---|---|---|
| `BudgetGovernorProofs` | `CapTheorem` | `Spec => []CapRespected` |
| | `ChangeTheorem` | `Spec => []ChangeInFlight` |
| | `ResetTheorem` | `Spec => []ResetNeverRaises` |
| | `CounterTheorem` | `Spec => []CounterNeverOverstates` |
| | `LedgerTheorem` | `Spec => ImplementsLedger` |
| `BudgetReservationProofs` | `ExclusiveTheorem` | `Spec => []ReservationsExclusiveUntilSettled` |
| | `SpentUntilSettledTheorem` | no overspending before the counter is first overwritten or lost |
| | `ConvergesTheorem` | `Spec => []CounterConverges` |
| `HitlApprovalProofs` | `OutcomeTheorem` | `Spec => []OutcomeAgrees` |
| | `CollisionTheorem` | `Spec => []InsertNeverCollides` |
| | `ResolvedOnceTheorem` | `Spec => ResolvedOnce` |
| | `TrailTheorem` | `Spec => []TrailTellsStatus` |
| | `ApprovalTheorem` | `Spec => ImplementsApproval` |
| `ExecutionsProofs` | `ClearedTheorem` | `Spec => []ClearedBeforeRun` |
| | `StoryTheorem` | `Spec => []OneStory` |
| | `LedgerTheorem` | `Spec => ImplementsLedger` |
| | `ApprovalsTheorem` | `Spec => ApprovalsKept` |
| `ServiceProofs` | `SchemaTheorem` | `Spec => []ServedOnSchema` |
| | `OrderTheorem` | `Spec => []WaitsInOrder` |
| | `RegistryTheorem` | `Spec => []OneWinner` |
| | `FoundedTheorem` | `Spec => []BudgetsFounded` |
| | `TokenTheorem` | `Spec => TokenHonoured` |
| `AuditChainProofs` | `ChainTheorem` | `Spec => []ChainWellFormed` |
| `AuditContentProofs` | `AllOrNothingTheorem` | `Spec => []AllOrNothing` |
| | `LogTheorem` | `Spec => ImplementsLog` |
| | `VerifiesTheorem` | `Spec => []VerifiesAsHashed` |
| | `JsonbTheorem` | PostgreSQL: the chain verifies if and only if JSONB rewrites none of its payloads |
| | `SqliteRejectsTheorem` | SQLite: no chain but the empty one verifies |
| | `ExposedTheorem` | `Spec => []AlterationsExposed` |
| | `CutUnseenTheorem` | if the chain verifies, so does every beginning of it |
| `PolicyEngineProofs` | `StrictestTheorem` | `Spec => []StrictestRuleObeyed` |
| | `FailClosedTheorem` | `Spec => []FailClosed` |
| | `BudgetTheorem` | `Spec => []BudgetBinds` |
| | `RiskTheorem` | `Spec => []RiskIsHighestDue` |

**The governor.** The cap is not inductive by itself, because `CommitFlush`
writes an object computed two steps earlier. The inductive invariant `IInv` adds
that whoever is between its `SELECT ... FOR UPDATE` and its end holds the lock,
that the object it will write is the committed row with its own change
(`ChangeInFlight`), and that coroutines between a `SELECT` and its use hold a
row (`Loaded`). `QuietCall` and `QuietAdmin` dispose of the steps that touch
neither row nor lock; each other action has a lemma. For the refinement,
`CommitFlushRow` and `UpsertCommitRow` say what a commit writes, which is
`Charge`, `Open` or `MoveCap` of the ledger; all other steps stutter.

`CounterTheorem` needs `CounterInv` besides: what a coroutine will seed the
counter from may have been selected long ago, but as long as there is no counter
no change of the row has been committed, because a transaction writes the counter
first; and while a transaction has written it and not committed, the counter is
bounded by what that transaction leaves. The property is about behaviours without
faults: a rollback after the write, a release from an unlocked row and an expired
counter each break it.

**Reservations.** `Sum` counts the units that a set of calls has asked for, so
that sums follow from the library's facts about cardinality (`SumAdd`,
`SumCovers`). Until the counter is first overwritten the row does not change,
hence what the calls seed the counter from is the row, however long ago they
read it, and the counter and the outstanding reservations together fit into what
is left (`Exclusive`). After a `reset` this is false, and an equation for the
reservations of *all* running calls is false too, as the first finding shows.
What remains true without faults is that the counter is exact for *some* of
them: `Reserved` says that there is a set of calls that hold reservations with
which the counter adds up to what the row has left, or to what a transaction in
flight will leave (`Backed`). A reservation joins this set, a `reset` empties
it, and a call whose commit finds no room is never in it (`UnrecordedUnbacked`):
the counter had been lowered for every call in the set, so the row has room for
each. At rest only calls over HTTP are left in the set, and `CounterConverges`
follows. TLC checked `Reserved` before it was proved.

**The approval.** `HInv` states for each coroutine where it stands, which locks
it has there and what it knows of the row (`Stands`), and that messages follow
resolutions (`MailTells`). Steps that keep the row disturb nobody (`RowKept`); a
commit that changes it has both locks, so that nobody else relies on the old
status (`RowChanged`). The refinement of `Approval` looks at what one step does
to the answers (`AnswersMoved`, `CallerPromise`, `ReviewerPromise`). For
`TrailTellsStatus`, `EveryStoryMoves` says which events a step may append at
which status, and `StoryGrows` that such an event leaves the story true; the
counting rests on the library's facts about finite sets.

**Executions.** `IInv` states what each execution holds and what is known of it
(`Standing`, where `HeldBack` is what has no allow to show), and that a
transaction which is there has its request on the chain and an approved one its
approval (`Told`). That the row is charged with the completion on the chain
follows from one fact: who stands between `CommitLoad` and its commit has the
lock, so that what it found to fit still fits.

**The service.** `IInv` has the conjuncts of the properties with what makes them
inductive: that a handler between its insert and its commit has its row (`Own`),
what it found in the tables (`Knows`), what its client was told (`Told`), the
clock its token bears (`Stamped`), and that the tables hold what the chain tells
(`Trail`). With `TypeOK`, which bounds every pool, it also is where the pool's
size is proved, by counting the connections in use.

**The audit chain.** `IInv` says what an append has read: everything there is, if
its transaction is the writer, and else a beginning of the committed chain
(`ReadBefore`). An insert that finds its number free has therefore read all rows
there are (`InsertHasReadAll`), and a row made from these continues the chain
(`Continues`). This is the argument by which the unique sequence number alone,
with no lock on the table, keeps the chain from forking.

**What the chain holds.** `Contents` adds that the uncommitted rows are exactly
what their writer has appended so far, that the events of a committed transaction
stand together on the chain, and that every row belongs to a committed
transaction. `AllOrNothing`, that a transaction's events are on the chain
together and in order if and only if it has committed, is its consequence, and
stands with its proof. Because of it a commit is one `Enter` of `AuditLog` and
every other step a stutter.

**verify_chain.** The loop's state after i rows has a closed form, `AfterRows`:
all of them fit, or the chain is broken (`OneRound`). That `Rounds` is this
function needs no induction over the chain: if two functions solve its recursive
equation, there is a least i at which they differ, and `OneRound` computes both
from i - 1 (`RoundsAre`). What `verify_chain` does with a chain of any length,
in either database, is then a statement about its rows (`VerifiesAll`); a row
that `append` has written fits if and only if it is returned as it was hashed,
and each alteration has a row that does not fit: another event has another hash
(`HashTells`), a recomputed hash has no signature, and a row that was moved has
another number (`PlaceExposed`). What it cannot see is proved as well: rows cut
off at the end (`CutUnseenTheorem`).

**The policy engine.** `Gathered` says that the results of all policies read so
far are kept, and that a decision which is neither a refusal nor an exception
combines all of them with the budget's. The properties follow from what
`Combine` and `Risk` make of a set, and from the agreement of `Matches` with
`InScope` where no exception is raised; the maximum exists because the scores lie
in 0..100 (`MaxScore`, by well-foundedness). `FailClosed` lists what is closed; a
malformed condition of a rule is not, as `policy_malformed` shows.

Only model-checked is liveness (`EveryHandlerEnds` of the budget and of the
approvals, `EveryExecutionEnds`, `EveryRequestEnds`, `EveryTxEnds`), which with
ENABLED and fairness is out of the prover's reach. Every other property of a
passing run has a theorem.

## Not modelled

* `get_hitl`, `health` and `AuditLogger.count` only read and answer.
* Logging, CORS, the validation of the settings, and `session_middleware`, whose
  session no route uses.
* Validation of requests and rows by the schemas: a body is accepted or not
  (`Valid`), and the spelling of a currency is normalized (`Normal`). Only the
  rules of policies, which the schema leaves untyped, come in every shape.
* Which payloads JSONB rewrites, and what it makes of them: the model has the set
  of events it concerns and one rewritten form. A payload that PostgreSQL refuses
  altogether is an error of a handler (`Abandon`).
* Signatures of tokens are ideal: what is presented has been issued.
* Numbers: the models count in units of the last decimal place. What a double,
  `tostring` in Lua and the integer reply make of an amount (`engine.py:42`) is a
  function of numbers alone and begins beyond 10^14 units, which TLC's 32-bit
  integers do not reach. The hazard is listed without a property.
* A pool that times out is one of the reasons for `Abandon`; how long it waits is
  not modelled.

## Plan

The plan of modules is done, and so are the proofs of all safety properties and
refinements. What is left:

1. crowds of `Service` with two approvals at once, one per replica, and time
   passing for more than one token;
2. theorems that go beyond the runs: that an execution whose commit was refused
   has lost its reservation to a `reset`, and bounds on what can be overspent.
