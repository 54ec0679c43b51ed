------------------------------- MODULE Service -------------------------------
(***************************************************************************)
(* The whole service: replicas that start on one database, tokens that one *)
(* replica issues and another checks, and all routes that write, each with *)
(* a connection of its replica's pool, the row it inserts or locks and its *)
(* place on the audit chain.  Who waits for whom across these resources is *)
(* what this module is about; what the routes compute is in BudgetGovernor,*)
(* HitlApproval and Executions.                                            *)
(*                                                                         *)
(* A definition that stands directly before another with the same          *)
(* parameters and is used nowhere is a mutation of the latter: README.md,  *)
(* "Mutations".                                                            *)
(***************************************************************************)
EXTENDS Integers, FiniteSets

CONSTANTS
  Replicas,     \* processes that run the application
  Requests,     \* HTTP requests, each with a token of its own
  Asked,        \* Asked[q]: "register", "upsert", "evaluate" or "resolve"
  Spelling,     \* Spelling[q]: the key of its row as the payload spells it
  Normal,       \* Normal[k]: what the schema makes of it
  Agent,        \* Agent[q]: the agent whose budget or intent it is
  Roles,        \* Roles[q]: the roles in its token
  Valid,        \* requests whose body the schema accepts
  Crowds,       \* sets of requests that may come together
  Before,       \* Before[c]: the rows that are there when crowd c comes
  PoolSize,     \* database_pool_size + database_max_overflow
  Lifetime,     \* jwt_expiry_seconds, in ticks of the clock
  Fraction,     \* ticks that a timestamp in whole seconds may lose
  Skew,         \* Skew[r]: how far the clock of r is ahead
  Spread,       \* the clocks differ by no more than this
  MaxTime,      \* MaxTime[c]: bound on the time that passes for crowd c
  Faults,       \* which of the things below may go wrong
  Nobody

\* "abandon": a request may stop anywhere (exception, cancellation, timeout of
\* the pool, crash); "outage": a replica may fail to start or be shut down.
FaultKinds == {"abandon", "outage"}

Keys == DOMAIN Normal

Later == {"deny", "allow", "hold", "expire"}
Tasks == {"register", "upsert", "evaluate", "resolve"} \cup Later

ASSUME ConstantsAssumption ==
  /\ Asked \in [Requests -> Tasks \ Later]
  /\ Spelling \in [Requests -> Keys]
  /\ Normal \in [Keys -> Keys]
  /\ \A k \in Keys : Normal[Normal[k]] = Normal[k]
  /\ \A p, q \in Requests : Asked[p] = "register" /\ Asked[q] = "upsert" =>
       Normal[Spelling[p]] # Normal[Spelling[q]]
  /\ Valid \subseteq Requests
  /\ Crowds \subseteq SUBSET Requests
  /\ Before \in [Crowds -> SUBSET {k \in Keys : Normal[k] = k}]
  /\ IsFiniteSet(Requests)
  /\ PoolSize \in Nat \ {0}
  /\ Lifetime \in Nat /\ Fraction \in Nat /\ Spread \in Nat
  /\ Skew \in [Replicas -> Int]
  /\ \A r, s \in Replicas : Skew[r] - Skew[s] <= Spread
  /\ Faults \subseteq FaultKinds
  /\ Nobody \notin Requests \cup Replicas

VARIABLES
  crowd,        \* the requests of this behaviour; a parameter, it never changes
  now,          \* true time
  life,         \* where each replica's lifespan stands
  schema,       \* the tables are there
  ddl,          \* which replica has created them uncommitted
  token,        \* the token each client is about to send
  at,           \* the replica that serves each request
  task,         \* what each request is about at the moment
  pc,           \* where each request stands
  using,        \* requests that have a connection of their replica's pool
  rows,         \* keys of the committed rows of agents, policies and budgets
  approval,     \* approval[k]: status of the transaction of key k, or "none"
  lock,         \* lock[k]: who has row k locked, or inserted uncommitted
  log,          \* the committed audit events
  writer,       \* who has the next audit row inserted uncommitted
  current       \* whose append has read the row that is still the last

starting == <<life, schema, ddl>>
clients == <<now, token, at>>
tables == <<rows, approval, log>>
handling == <<task, pc, using, rows, approval, lock, log, writer, current>>
vars == <<crowd, starting, clients, handling>>

KeyAsSpelled(q) == Spelling[q]
Key(q) == Normal[Spelling[q]]

Working ==
  {"admitted", "connected", "found", "inserting", "written", "appending",
   "appended", "settled"}
Ends ==
  {"unauthorized", "forbidden", "invalid", "notfound", "conflict", "refused",
   "error", "created", "updated", "denied", "allowed", "resolved", "answered",
   "timedout"}

InFlight(q) == pc[q] \in Working \cup {"waiting"}

Init ==
  /\ crowd \in Crowds
  /\ now = 0
  /\ life = [r \in Replicas |-> "down"] /\ schema \in BOOLEAN /\ ddl = Nobody
  /\ token = [q \in Requests |-> Nobody] /\ at = [q \in Requests |-> Nobody]
  /\ task = Asked
  /\ pc = [q \in Requests |-> "idle"]
  /\ using = {} /\ rows = Before[crowd]
  /\ approval = [k \in Keys |-> "none"]
  /\ lock = [k \in Keys |-> Nobody]
  /\ log = {} /\ writer = Nobody /\ current = {}

-----------------------------------------------------------------------------
(***************************************************************************)
(* The lifespan of a replica.  create_all looks which tables are missing   *)
(* and then creates them, in one transaction.                              *)
(***************************************************************************)

Become(r, state) == life' = [life EXCEPT ![r] = state]

\* The engine connects to nothing yet; Redis answers a ping.
Ping(r) ==
  /\ life[r] = "down"
  /\ Become(r, "pinged")
  /\ UNCHANGED <<schema, ddl>>

Inspect(r) ==
  /\ life[r] = "pinged"
  /\ Become(r, IF schema THEN "serving" ELSE "lacking")
  /\ UNCHANGED <<schema, ddl>>

\* CREATE TABLE waits for an uncommitted one of the same name and then fails,
\* which ends the process: nothing catches it.
CreateLeftToOther(r) ==
  /\ life[r] = "lacking"
  /\ IF schema \/ ddl # Nobody
       THEN Become(r, "serving") /\ UNCHANGED ddl
       ELSE Become(r, "created") /\ ddl' = r
  /\ UNCHANGED schema
CreateTables(r) ==
  /\ life[r] = "lacking"
  /\ ddl = Nobody
  /\ IF schema
       THEN Become(r, "beaten") /\ UNCHANGED ddl
       ELSE Become(r, "created") /\ ddl' = r
  /\ UNCHANGED schema

CommitSchema(r) ==
  /\ life[r] = "created"
  /\ Become(r, "serving")
  /\ schema' = TRUE /\ ddl' = Nobody

\* Redis or the database cannot be reached, or the process dies.
FailToStart(r) ==
  /\ "outage" \in Faults
  /\ life[r] \in {"down", "pinged", "lacking", "created"}
  /\ Become(r, "failed")
  /\ ddl' = IF ddl = r THEN Nobody ELSE ddl
  /\ UNCHANGED schema

\* The server lets its requests end before it ends the lifespan.
Stop(r) ==
  /\ "outage" \in Faults
  /\ life[r] = "serving"
  /\ \A q \in Requests : at[q] = r => ~InFlight(q)
  /\ Become(r, "stopped")
  /\ UNCHANGED <<schema, ddl>>

StartStep(r) == Ping(r) \/ Inspect(r) \/ CreateTables(r) \/ CommitSchema(r)

-----------------------------------------------------------------------------
(***************************************************************************)
(* Tokens.  Everything up to the handler is one step: no await between the *)
(* check of the token, of the role and of the body.                        *)
(***************************************************************************)

Goto(q, next) == pc' = [pc EXCEPT ![q] = next]

Tick ==
  /\ now < MaxTime[crowd]
  /\ now' = now + 1
  /\ UNCHANGED <<token, at, handling>>

\* create_access_token: iat and nbf are the issuer's clock, in whole seconds.
IssueToken(q) ==
  /\ pc[q] = "idle" /\ q \in crowd
  /\ \E r \in Replicas, lost \in 0..Fraction :
       /\ life[r] = "serving"
       /\ token' = [token EXCEPT ![q] = [at |-> now, iat |-> now + Skew[r] - lost]]
  /\ Goto(q, "bearing")
  /\ UNCHANGED <<now, at, task, using, tables, lock, writer, current>>

\* require_principal, by the clock of the replica that is asked.
InTimeNoExpiry(q, r) == token[q].iat <= now + Skew[r]
InTime(q, r) ==
  /\ token[q].iat <= now + Skew[r]
  /\ now + Skew[r] < token[q].iat + Lifetime

\* require_role; evaluate_intent asks for any principal.
Accepted(q) ==
  CASE Asked[q] = "register" -> {"admin", "operator"}
    [] Asked[q] = "upsert" -> {"admin", "finance"}
    [] Asked[q] = "resolve" -> {"admin", "approver"}
    [] OTHER -> Roles[q]
MayAsk(q) == Asked[q] = "evaluate" \/ Roles[q] \cap Accepted(q) # {}

Send(q) ==
  /\ pc[q] = "bearing"
  /\ \E r \in Replicas :
       /\ life[r] = "serving"
       /\ at' = [at EXCEPT ![q] = r]
       /\ Goto(q, IF ~InTime(q, r) THEN "unauthorized"
                  ELSE IF ~MayAsk(q) THEN "forbidden"
                  ELSE IF q \notin Valid THEN "invalid" ELSE "admitted")
  /\ token' = [token EXCEPT ![q] = Nobody]
  /\ UNCHANGED <<now, task, using, tables, lock, writer, current>>

-----------------------------------------------------------------------------
(***************************************************************************)
(* What every handler does: a connection, a transaction, an audit event.   *)
(***************************************************************************)

FreeOrOneMore(r) == Cardinality({p \in using : at[p] = r}) <= PoolSize
Free(r) == Cardinality({p \in using : at[p] = r}) < PoolSize

\* A session takes its connection with its first statement.
Checkout(q) ==
  /\ pc[q] = "admitted"
  /\ Free(at[q])
  /\ using' = using \cup {q}
  /\ Goto(q, "connected")
  /\ UNCHANGED <<task, tables, lock, writer, current>>

\* The end of `async with session': locks and connection go back.
CloseLeaky(q) ==
  /\ lock' = [k \in Keys |-> IF lock[k] = q THEN Nobody ELSE lock[k]]
  /\ writer' = IF writer = q THEN Nobody ELSE writer
  /\ using' = IF pc[q] \in {"settled"} THEN using ELSE using \ {q}
Close(q) ==
  /\ lock' = [k \in Keys |-> IF lock[k] = q THEN Nobody ELSE lock[k]]
  /\ writer' = IF writer = q THEN Nobody ELSE writer
  /\ using' = using \ {q}

\* An HTTPException, or any other, inside the transaction.
Raise(q, end) ==
  /\ Close(q)
  /\ Goto(q, end)
  /\ UNCHANGED <<task, tables, current>>

Step(q, next) ==
  /\ Goto(q, next)
  /\ UNCHANGED <<task, using, tables, lock, writer, current>>

Lock(q, next) ==
  /\ lock[Key(q)] = Nobody
  /\ lock' = [lock EXCEPT ![Key(q)] = q]
  /\ Goto(q, next)
  /\ UNCHANGED <<task, using, tables, writer, current>>

ReadTail(q) ==
  /\ pc[q] = "written"
  /\ current' = current \cup {q}
  /\ Goto(q, "appending")
  /\ UNCHANGED <<task, using, tables, lock, writer>>

InsertTail(q) ==
  /\ pc[q] = "appending"
  /\ \/ /\ q \in current /\ writer = Nobody
        /\ writer' = q
        /\ Goto(q, "appended")
        /\ UNCHANGED <<task, using, tables, lock, current>>
     \/ q \notin current /\ Raise(q, "error")

-----------------------------------------------------------------------------
(***************************************************************************)
(* register_agent and create_policy.                                       *)
(***************************************************************************)

\* The INSERT waits for an uncommitted one of its key and fails on a committed.
InsertMerged(q) ==
  /\ pc[q] = "connected" /\ task[q] = "register"
  /\ Lock(q, "written")
InsertRow(q) ==
  /\ pc[q] = "connected" /\ task[q] = "register"
  /\ \/ Key(q) \notin rows /\ Lock(q, "written")
     \/ Key(q) \in rows /\ lock[Key(q)] = Nobody /\ Raise(q, "conflict")

-----------------------------------------------------------------------------
(***************************************************************************)
(* upsert_budget.                                                          *)
(***************************************************************************)

FindNoAgent(q) ==
  /\ pc[q] = "connected" /\ task[q] = "upsert"
  /\ Step(q, "found")
FindAgent(q) ==
  /\ pc[q] = "connected" /\ task[q] = "upsert"
  /\ IF Agent[q] \in rows THEN Step(q, "found") ELSE Raise(q, "notfound")

\* The new cap may be below what is consumed.
LockBudget(q) ==
  /\ pc[q] = "found"
  /\ \/ Key(q) \in rows /\ Lock(q, "written")
     \/ Key(q) \in rows /\ lock[Key(q)] = Nobody /\ Raise(q, "refused")
     \/ Key(q) \notin rows /\ Step(q, "inserting")

InsertBudget(q) ==
  /\ pc[q] = "inserting"
  /\ \/ Key(q) \notin rows /\ Lock(q, "written")
     \/ Key(q) \in rows /\ lock[Key(q)] = Nobody /\ Raise(q, "error")

-----------------------------------------------------------------------------
(***************************************************************************)
(* evaluate_intent, with the wait for a reviewer.                          *)
(***************************************************************************)

Evaluate(q) ==
  /\ pc[q] = "connected" /\ task[q] = "evaluate"
  /\ \E outcome \in IF Agent[q] \in rows THEN {"deny", "allow", "hold"} ELSE {"deny"} :
       task' = [task EXCEPT ![q] = outcome]
  /\ Goto(q, "written")
  /\ UNCHANGED <<using, tables, lock, writer, current>>

\* _create_or_get_hitl, after the first append: a plain SELECT waits for no
\* reviewer, and the INSERT for no other request (HitlApproval).
CreateOrGetLocked(q) ==
  /\ pc[q] = "appended" /\ task[q] = "hold"
  /\ Lock(q, "settled")
CreateOrGet(q) ==
  /\ pc[q] = "appended" /\ task[q] = "hold"
  /\ Step(q, "settled")

\* A poll, with a session of its own.  One that finds the transaction pending
\* gives its connection back and changes nothing; the reservation after an
\* approval takes a connection in the same way, and waits for no lock.
Learn(q) ==
  /\ pc[q] = "waiting"
  /\ approval[Key(q)] \in {"resolved", "expired"}
  /\ Free(at[q])
  /\ Step(q, "answered")

\* The deadline: _expire_transaction, with a session of its own.
GiveUp(q) ==
  /\ pc[q] = "waiting"
  /\ task' = [task EXCEPT ![q] = "expire"]
  /\ Goto(q, "admitted")
  /\ UNCHANGED <<using, tables, lock, writer, current>>

\* resolve_hitl and _expire_transaction: SELECT ... FOR UPDATE.  A reviewer
\* may find a pending transaction too old.
LockApproval(q) ==
  /\ pc[q] = "connected" /\ task[q] \in {"resolve", "expire"}
  /\ \/ approval[Key(q)] = "pending" /\ Lock(q, "written")
     \/ /\ task[q] = "resolve" /\ lock[Key(q)] = Nobody
        /\ Raise(q, IF approval[Key(q)] = "none" THEN "notfound" ELSE "conflict")
     \/ /\ task[q] = "expire" /\ lock[Key(q)] = Nobody /\ approval[Key(q)] # "pending"
        /\ Raise(q, "timedout")

-----------------------------------------------------------------------------
\* What the transaction of each task leaves, and how its request goes on.
ApprovalAfter(q) ==
  CASE task[q] = "hold" /\ approval[Key(q)] = "none" -> "pending"
    [] task[q] = "resolve" -> "resolved"
    [] task[q] = "expire" -> "expired"
    [] OTHER -> approval[Key(q)]
After(q) ==
  CASE task[q] = "register" -> "created"
    [] task[q] = "upsert" -> "updated"
    [] task[q] = "deny" -> "denied"
    [] task[q] = "allow" -> "allowed"
    [] task[q] = "hold" -> "waiting"
    [] task[q] = "resolve" -> "resolved"
    [] OTHER -> "timedout"

\* COMMIT, the end of the session, and the answer.
Commit(q) ==
  /\ pc[q] = IF task[q] = "hold" THEN "settled" ELSE "appended"
  /\ rows' = IF task[q] \in {"register", "upsert"} THEN rows \cup {Key(q)} ELSE rows
  /\ approval' = [approval EXCEPT ![Key(q)] = ApprovalAfter(q)]
  /\ log' = log \cup {<<task[q], q>>}
  /\ current' = {}
  /\ Close(q)
  /\ \E answered \in {After(q)} \cup (IF "abandon" \in Faults THEN {"error"} ELSE {}) :
       Goto(q, answered)
  /\ UNCHANGED task

Abandon(q) ==
  /\ "abandon" \in Faults
  /\ InFlight(q)
  /\ Raise(q, "error")

-----------------------------------------------------------------------------
HandlerStep(q) ==
  \/ Checkout(q) \/ ReadTail(q) \/ InsertTail(q) \/ InsertRow(q)
  \/ FindAgent(q) \/ LockBudget(q) \/ InsertBudget(q)
  \/ Evaluate(q) \/ CreateOrGet(q) \/ Learn(q) \/ GiveUp(q) \/ LockApproval(q)
  \/ Commit(q)

AllQuiet ==
  /\ \A r \in Replicas : life[r] \in {"serving", "beaten", "failed", "stopped"}
  /\ \A q \in crowd : ~InFlight(q) /\
       (pc[q] \in {"idle", "bearing"} => \A r \in Replicas : life[r] # "serving")
  /\ UNCHANGED <<starting, clients, handling>>

Next ==
  /\ \/ /\ \E r \in Replicas : StartStep(r) \/ FailToStart(r) \/ Stop(r)
        /\ UNCHANGED <<clients, handling>>
     \/ /\ \/ Tick
           \/ \E q \in Requests : IssueToken(q) \/ Send(q)
        /\ UNCHANGED starting
     \/ /\ \E q \in Requests : HandlerStep(q) \/ Abandon(q)
        /\ UNCHANGED <<starting, clients>>
     \/ AllQuiet
  /\ UNCHANGED crowd

\* The event loop runs what is ready, the database hands freed locks on and
\* deadlines pass.  Nobody needs to send anything.
Fairness ==
  /\ \A r \in Replicas : WF_starting(StartStep(r))
  /\ \A q \in Requests : WF_handling(HandlerStep(q))

Spec == Init /\ [][Next]_vars /\ Fairness

-----------------------------------------------------------------------------
(***************************************************************************)
(* Properties.                                                             *)
(***************************************************************************)

\* Every variable has its type, and no pool has given out more than it has.
TypeOK ==
  /\ crowd \in Crowds
  /\ now \in Nat
  /\ life \in [Replicas -> {"down", "pinged", "lacking", "created", "serving", "beaten",
                            "failed", "stopped"}]
  /\ schema \in BOOLEAN /\ ddl \in Replicas \cup {Nobody}
  /\ token \in [Requests -> [at : Nat, iat : Int] \cup {Nobody}]
  /\ at \in [Requests -> Replicas \cup {Nobody}]
  /\ task \in [Requests -> Tasks]
  /\ pc \in [Requests -> {"idle", "bearing", "waiting"} \cup Working \cup Ends]
  /\ using \subseteq Requests
  /\ \A r \in Replicas : Cardinality({q \in using : at[q] = r}) <= PoolSize
  /\ rows \subseteq Keys
  /\ approval \in [Keys -> {"none", "pending", "resolved", "expired"}]
  /\ lock \in [Keys -> Requests \cup {Nobody}]
  /\ log \subseteq Tasks \X Requests
  /\ writer \in Requests \cup {Nobody}
  /\ current \subseteq Requests

\* A replica that serves has its tables, and one that gave up because another
\* was creating them gave up to one that did: when replicas start together the
\* race for the schema never leaves the service without it.
ServedOnSchema ==
  \A r \in Replicas : life[r] \in {"serving", "stopped", "beaten"} => schema

\* A token is honoured on every replica for its lifetime, give or take what the
\* clocks differ: it is refused for its dates only if it is old, or so new that
\* the other replica's clock has not come to its beginning yet, and it is
\* accepted only if it is not old.
TokenHonoured ==
  [][\A q \in Requests : (pc[q] = "bearing" /\ pc'[q] # "bearing") =>
       LET age == now - token[q].at IN
         IF pc'[q] = "unauthorized"
           THEN age < Spread \/ age >= Lifetime - Spread - Fraction
           ELSE age < Lifetime + Spread]_vars

Registered(q) == <<"register", q>> \in log
Earlier == Before[crowd]

\* Of all requests that register one agent or policy, exactly one has put it in
\* the table and on the audit chain: nobody else is told that it has, nobody is
\* told of a conflict before, and the tables hold what the chain tells, whatever
\* becomes of the answers.
OneWinner ==
  /\ \A p, q \in Requests : Registered(p) /\ Registered(q) /\ Key(p) = Key(q) => p = q
  /\ \A q \in Requests : Registered(q) => Key(q) \notin Earlier
  /\ \A q \in Requests : pc[q] = "created" => Registered(q)
  /\ \A q \in Requests : pc[q] = "conflict" /\ task[q] = "register" =>
       Key(q) \in {Key(p) : p \in {o \in Requests \ {q} : Registered(o)}} \cup Earlier
  /\ rows = Earlier \cup {Key(q) : q \in {p \in Requests : Registered(p) \/ <<"upsert", p>> \in log}}

\* No foreign key ties a budget to its agent, and no table knows that "usd" is
\* "USD": still every budget that was set belongs to an agent registered before,
\* and however its currency is spelled it has one row.
BudgetsFounded ==
  /\ \A q \in Requests : <<"upsert", q>> \in log => Agent[q] \in rows
  /\ \A k, l \in rows : Normal[k] = Normal[l] => k = l

\* Resources are taken in one order: a connection, a row, the end of the chain.
\* Who has a connection never waits for another one, who has a row waits for
\* nothing but the chain, who has the end of the chain for nothing; and who has
\* ended, or waits for a reviewer, has nothing.
WaitsInOrder ==
  \A q \in Requests :
    /\ q \in using <=> pc[q] \in Working \ {"admitted"}
    /\ \A k \in Keys : lock[k] = q =>
         pc[q] \in {"written", "appending", "appended", "settled"} /\ q \in using
    /\ writer = q => pc[q] \in {"appended", "settled"} /\ q \in using

\* Every request that was sent is answered, with a pool of one connection too:
\* no two handlers wait for each other's connection, row or place on the chain.
EveryRequestEnds == <>[](\A q \in Requests : ~InFlight(q))
=============================================================================
