---------------------------- MODULE ServiceProofs ----------------------------
(***************************************************************************)
(* Theorems about Service, for any number of replicas and requests, pools  *)
(* of any size, clocks that differ by any bounded amount, and whatever     *)
(* fails: the race for the schema, the honouring of tokens, the order in   *)
(* which resources are taken, and what the tables and the chain tell.      *)
(***************************************************************************)
EXTENDS Service, FiniteSetTheorems, TLAPS

\* Where a handler may have its row, and the tasks that lock one.
Held == {"written", "appending", "appended", "settled"}
Locking == {"register", "upsert", "resolve", "expire"}

Normals == {k \in Keys : Normal[k] = k}

\* What q has: the conjuncts of WaitsInOrder, and its row when it needs one.
Own(q) ==
  /\ q \in using <=> pc[q] \in Working \ {"admitted"}
  /\ \A k \in Keys : lock[k] = q => pc[q] \in Held /\ q \in using
  /\ writer = q => pc[q] \in {"appended", "settled"} /\ q \in using
  /\ pc[q] \in Held /\ task[q] \in Locking => lock[Key(q)] = q

\* What q has found in the tables and holds on to.
Knows(q) ==
  /\ pc[q] \in {"found", "inserting"} => task[q] = "upsert"
  /\ pc[q] \in Held \cup {"found", "inserting"} /\ task[q] = "upsert" => Agent[q] \in rows
  /\ pc[q] \in Held /\ task[q] = "register" => Key(q) \notin rows
  /\ pc[q] \in {"settled", "waiting"} => task[q] = "hold"

\* What q was asked and what its client was told.
Told(q) ==
  /\ task[q] = Asked[q] \/ (Asked[q] = "evaluate" /\ task[q] \in Later)
  /\ task[q] = "register" /\ pc[q] \in {"idle", "bearing"} \cup Working => ~Registered(q)
  /\ pc[q] = "created" => Registered(q)
  /\ pc[q] = "conflict" /\ task[q] = "register" =>
       Key(q) \in {Key(p) : p \in {o \in Requests \ {q} : Registered(o)}} \cup Earlier

\* The token of q bears the clock of some replica, less a fraction.
Stamped(q) ==
  pc[q] = "bearing" =>
    \E r \in Replicas, lost \in 0..Fraction :
      token[q].at \in Nat /\ token[q].iat = token[q].at + Skew[r] - lost

Stored(q) == Registered(q) \/ <<"upsert", q>> \in log

\* What the tables hold is what the chain tells.
Trail ==
  /\ rows \subseteq Normals
  /\ rows = Earlier \cup {Key(q) : q \in {p \in Requests : Stored(p)}}
  /\ \A p, q \in Requests : Registered(p) /\ Registered(q) /\ Key(p) = Key(q) => p = q
  /\ \A q \in Requests : Registered(q) => Key(q) \notin Earlier /\ Asked[q] = "register"
  /\ \A q \in Requests : <<"upsert", q>> \in log => Agent[q] \in rows /\ Asked[q] = "upsert"

IInv ==
  /\ TypeOK
  /\ ServedOnSchema
  /\ Trail
  /\ \A q \in Requests : Own(q) /\ Knows(q) /\ Told(q) /\ Stamped(q)

\* The types of what a handler does not touch, and of what it does.
ClientTypes ==
  /\ crowd \in Crowds
  /\ now \in Nat
  /\ token \in [Requests -> [at : Nat, iat : Int] \cup {Nobody}]
  /\ at \in [Requests -> Replicas \cup {Nobody}]
StartTypes ==
  /\ life \in [Replicas -> {"down", "pinged", "lacking", "created", "serving", "beaten",
                            "failed", "stopped"}]
  /\ schema \in BOOLEAN /\ ddl \in Replicas \cup {Nobody}
Points == {"idle", "bearing", "waiting"} \cup Working \cup Ends
HandlerTypes ==
  /\ task \in [Requests -> Tasks]
  /\ pc \in [Requests -> Points]
  /\ using \subseteq Requests
  /\ rows \subseteq Keys
  /\ approval \in [Keys -> {"none", "pending", "resolved", "expired"}]
  /\ lock \in [Keys -> Requests \cup {Nobody}]
  /\ log \subseteq Tasks \X Requests
  /\ writer \in Requests \cup {Nobody}
  /\ current \subseteq Requests
PoolBound == \A r \in Replicas : Cardinality({q \in using : at[q] = r}) <= PoolSize

LEMMA Types == TypeOK <=> ClientTypes /\ StartTypes /\ HandlerTypes /\ PoolBound
BY DEF TypeOK, ClientTypes, StartTypes, HandlerTypes, PoolBound, Points

LEMMA KeyType == \A q \in Requests : Key(q) \in Normals /\ Key(q) \in Keys
BY ConstantsAssumption DEF Key, Normals

-----------------------------------------------------------------------------
LEMMA InitInv == Init => IInv
<1> SUFFICES ASSUME Init PROVE IInv
  OBVIOUS
<1> USE DEF Init
<1>1. ClientTypes /\ StartTypes /\ HandlerTypes
  <2>1. ClientTypes /\ StartTypes
    BY DEF ClientTypes, StartTypes
  <2>2. task \in [Requests -> Tasks]
    BY ConstantsAssumption
  <2>3. Before[crowd] \subseteq Keys
    BY ConstantsAssumption
  <2> QED BY <2>1, <2>2, <2>3 DEF HandlerTypes, Points
<1>2. PoolBound
  <2> SUFFICES ASSUME NEW r \in Replicas
               PROVE  Cardinality({q \in using : at[q] = r}) <= PoolSize
    BY DEF PoolBound
  <2>1. {q \in using : at[q] = r} = {}
    OBVIOUS
  <2>2. Cardinality({q \in using : at[q] = r}) = 0
    BY <2>1, FS_EmptySet
  <2> QED BY <2>2, ConstantsAssumption
<1>3. ServedOnSchema
  BY DEF ServedOnSchema
<1>4. Trail
  BY ConstantsAssumption DEF Trail, Registered, Stored, Earlier, Normals
<1>5. ASSUME NEW q \in Requests PROVE Own(q) /\ Knows(q) /\ Told(q) /\ Stamped(q)
  BY ConstantsAssumption DEF Own, Knows, Told, Stamped, Working, Held, Registered
<1> QED BY <1>1, <1>2, <1>3, <1>4, <1>5, Types DEF IInv

-----------------------------------------------------------------------------
(***************************************************************************)
(* Pools.                                                                  *)
(***************************************************************************)

LEMMA PoolShrinks ==
  ASSUME TypeOK, using' \subseteq using, \A q \in using' : at'[q] = at[q]
  PROVE  PoolBound'
<1> SUFFICES ASSUME NEW r \in Replicas
             PROVE  Cardinality({q \in using' : at'[q] = r}) <= PoolSize
  BY DEF PoolBound
<1> DEFINE Old == {q \in using : at[q] = r}
           New == {q \in using' : at'[q] = r}
<1>1. Cardinality(Old) <= PoolSize /\ Old \subseteq Requests /\ New \subseteq Old
  BY DEF TypeOK
<1>2. IsFiniteSet(Old)
  BY <1>1, ConstantsAssumption, FS_Subset
<1>3. IsFiniteSet(New) /\ Cardinality(New) <= Cardinality(Old)
  BY <1>1, <1>2, FS_Subset
<1>4. Cardinality(New) \in Nat /\ Cardinality(Old) \in Nat
  BY <1>2, <1>3, FS_CardinalityType
<1> QED BY <1>1, <1>3, <1>4, ConstantsAssumption

LEMMA PoolTakes ==
  ASSUME TypeOK, NEW q \in Requests, Free(at[q]), using' = using \cup {q}, at' = at
  PROVE  PoolBound'
<1> SUFFICES ASSUME NEW r \in Replicas
             PROVE  Cardinality({p \in using' : at'[p] = r}) <= PoolSize
  BY DEF PoolBound
<1> DEFINE Old == {p \in using : at[p] = r}
           New == {p \in using' : at'[p] = r}
<1>1. Cardinality(Old) <= PoolSize /\ Old \subseteq Requests
  BY DEF TypeOK
<1>2. IsFiniteSet(Old)
  BY <1>1, ConstantsAssumption, FS_Subset
<1>3. Cardinality(Old) \in Nat
  BY <1>2, FS_CardinalityType
<1>4. CASE at[q] = r
  <2>1. Cardinality(Old) < PoolSize
    BY <1>4 DEF Free
  <2>2. New = Old \cup {q}
    BY <1>4
  <2>3. Cardinality(New) = IF q \in Old THEN Cardinality(Old) ELSE Cardinality(Old) + 1
    BY <2>2, <1>2, FS_AddElement
  <2> QED BY <2>1, <2>3, <1>3, ConstantsAssumption
<1>5. CASE at[q] # r
  <2>1. New = Old
    BY <1>5
  <2> QED BY <2>1, <1>1
<1> QED BY <1>4, <1>5

-----------------------------------------------------------------------------
(***************************************************************************)
(* A handler disturbs nobody else.                                         *)
(***************************************************************************)

Frame(q) ==
  /\ \A p \in Requests \ {q} :
       /\ pc'[p] = pc[p] /\ task'[p] = task[p]
       /\ p \in using' <=> p \in using
       /\ writer' = p <=> writer = p
       /\ \A k \in Keys : lock'[k] = p <=> lock[k] = p
  /\ rows \subseteq rows' /\ log \subseteq log'
  /\ rows' \subseteq rows \cup {Key(q)} /\ log' \subseteq log \cup {<<task[q], q>>}
  /\ rows' # rows => lock[Key(q)] = q
  /\ UNCHANGED <<crowd, starting, clients>>

LEMMA OthersKept ==
  ASSUME IInv, NEW q \in Requests, Frame(q), NEW p \in Requests \ {q}
  PROVE  (Own(p) /\ Knows(p) /\ Told(p) /\ Stamped(p))'
<1>1. Own(p)'
  <2>1. pc[p] \in Held /\ task[p] \in Locking => lock'[Key(p)] = p
    BY KeyType DEF IInv, Frame, Own
  <2> QED BY <2>1 DEF IInv, Frame, Own, Key
<1>2. Knows(p)'
  <2>1. pc[p] \in Held /\ task[p] = "register" => Key(p) \notin rows'
    BY KeyType DEF IInv, Frame, Own, Knows, Locking
  <2> QED BY <2>1 DEF IInv, Frame, Knows, Key
<1>3. Told(p)'
  <2>1. crowd' = crowd /\ \A o \in Requests : Registered(o) => Registered(o)'
    BY DEF Frame, Registered
  <2>2. Registered(p)' => Registered(p)
    BY DEF Frame, Registered
  <2>3. pc'[p] = pc[p] /\ task'[p] = task[p] /\ Told(p)
    BY DEF IInv, Frame
  <2>4. {Key(o) : o \in {n \in Requests \ {p} : Registered(n)}} \cup Earlier
          \subseteq ({Key(o) : o \in {n \in Requests \ {p} : Registered(n)}} \cup Earlier)'
    BY <2>1 DEF Earlier, Key
  <2> QED BY <2>1, <2>2, <2>3, <2>4 DEF Told, Key
<1>4. Stamped(p)'
  BY DEF IInv, Frame, Stamped, clients
<1> QED BY <1>1, <1>2, <1>3, <1>4

\* What nothing happens to stays as it is.
LEMMA Undisturbed ==
  ASSUME IInv, NEW p \in Requests, pc'[p] = pc[p], task'[p] = task[p], token'[p] = token[p],
         crowd' = crowd, using' = using, rows' = rows, lock' = lock, log' = log, writer' = writer
  PROVE  (Own(p) /\ Knows(p) /\ Told(p) /\ Stamped(p))'
<1>1. Own(p)' /\ Knows(p)' /\ Stamped(p)'
  BY DEF IInv, Own, Knows, Stamped, Key
<1>2. Told(p)'
  <2>1. Earlier' = Earlier /\ \A o \in Requests : Registered(o)' <=> Registered(o)
    BY DEF Earlier, Registered
  <2>2. ({Key(o) : o \in {n \in Requests \ {p} : Registered(n)}} \cup Earlier)'
          = {Key(o) : o \in {n \in Requests \ {p} : Registered(n)}} \cup Earlier
    BY <2>1 DEF Key
  <2> QED BY <2>1, <2>2 DEF IInv, Told, Key
<1> QED BY <1>1, <1>2

\* A step that commits nothing.
LEMMA Uncommitted ==
  ASSUME IInv, NEW q \in Requests, Frame(q), rows' = rows, log' = log,
         HandlerTypes', PoolBound', (Own(q) /\ Knows(q) /\ Told(q))', pc'[q] # "bearing"
  PROVE  IInv'
<1>1. TypeOK'
  <2>1. ClientTypes' /\ StartTypes'
    BY Types DEF IInv, Frame, ClientTypes, StartTypes, clients, starting
  <2> QED BY <2>1, Types DEF TypeOK, ClientTypes, StartTypes, HandlerTypes, PoolBound, Points
<1>2. ServedOnSchema'
  BY DEF IInv, ServedOnSchema, Frame, starting
<1>3. Trail'
  <2>1. crowd' = crowd
    BY DEF Frame
  <2> QED BY <2>1 DEF IInv, Trail, Registered, Stored, Earlier, Key
<1>4. Stamped(q)'
  BY DEF Stamped
<1> QED BY <1>1, <1>2, <1>3, <1>4, OthersKept DEF IInv

\* The request goes on without taking or giving back anything.
LEMMA MoveInv ==
  ASSUME IInv, NEW q \in Requests, NEW next \in Points, NEW what \in Tasks,
         pc' = [pc EXCEPT ![q] = next], task' = [task EXCEPT ![q] = what],
         UNCHANGED <<using, tables, lock, writer>>, current' \subseteq Requests,
         UNCHANGED <<crowd, starting, clients>>,
         next \in Working \ {"admitted"} <=> pc[q] \in Working \ {"admitted"},
         pc[q] \in Held => next \in Held,
         next \in Held /\ what \in Locking => pc[q] \in Held,
         writer = q => next \in {"appended", "settled"},
         next \in {"found", "inserting"} => what = "upsert" /\ Agent[q] \in rows,
         next = "settled" => what = "hold", next # "waiting",
         next = "admitted" => what = "expire", next # "idle",
         next \notin {"bearing", "created", "conflict"},
         what = task[q] \/ (Asked[q] = "evaluate" /\ what \in Later),
         next \in Held /\ what # task[q] => what # "expire"
  PROVE  IInv'
<1>1. /\ pc'[q] = next /\ task'[q] = what
      /\ pc \in [Requests -> Points] /\ task \in [Requests -> Tasks]
  BY Types DEF IInv, HandlerTypes
<1>2. Frame(q)
  BY <1>1 DEF Frame, tables
<1>3. HandlerTypes'
  BY <1>1, Types DEF IInv, HandlerTypes, tables
<1>4. PoolBound'
  BY PoolShrinks DEF IInv, clients
<1>5. Own(q)'
  <2>1. next \in Held /\ what \in Locking => lock'[Key(q)] = q
    <3>1. what = task[q] \/ (task[q] \in {"evaluate"} \cup Later /\ what \in Later)
      BY DEF IInv, Told, Later
    <3>2. what = "expire" /\ next \in Held => task[q] = "expire"
      BY <3>1
    <3> QED BY <3>1, <3>2 DEF IInv, Own, Locking, Later
  <2>2. \A k \in Keys : lock'[k] = q => next \in Held /\ q \in using'
    BY DEF IInv, Own
  <2> QED BY <1>1, <2>1, <2>2 DEF IInv, Own, Key
<1>6. Knows(q)' /\ Told(q)'
  <2>1. what = "register" => task[q] = "register"
    BY DEF Later
  <2>2. what = "upsert" => task[q] = "upsert"
    BY DEF Later
  <2>3. Knows(q)'
    BY <1>1, <2>1, <2>2 DEF IInv, Knows, Key, Locking, tables
  <2>4. Told(q)'
    BY <1>1, <2>1 DEF IInv, Told, Registered, tables, Working
  <2> QED BY <2>3, <2>4
<1> QED BY <1>2, <1>3, <1>4, <1>5, <1>6, <1>1, Uncommitted DEF tables

\* The request locks its row or inserts its key.
LEMMA LockInv ==
  ASSUME IInv, NEW q \in Requests, Lock(q, "written"), pc[q] \in {"connected", "found", "inserting"},
         task[q] = "register" => Key(q) \notin rows,
         task[q] = "upsert" => Agent[q] \in rows,
         UNCHANGED <<crowd, starting, clients>>
  PROVE  IInv'
<1>1. /\ pc' = [pc EXCEPT ![q] = "written"] /\ pc'[q] = "written"
      /\ lock' = [lock EXCEPT ![Key(q)] = q] /\ lock[Key(q)] = Nobody
      /\ lock \in [Keys -> Requests \cup {Nobody}] /\ Key(q) \in Keys
      /\ UNCHANGED <<task, using, rows, approval, log, writer, current>>
      /\ q \in using
  BY Types, KeyType DEF Lock, Goto, IInv, HandlerTypes, tables, Own, Working
<1>2. Frame(q)
  <2>1. \A p \in Requests \ {q} : \A k \in Keys : lock'[k] = p <=> lock[k] = p
    BY <1>1, ConstantsAssumption
  <2> QED BY <1>1, <2>1 DEF Frame
<1>3. HandlerTypes'
  BY <1>1, Types DEF IInv, HandlerTypes, Points, Working
<1>4. PoolBound'
  BY <1>1, PoolShrinks DEF IInv, clients
<1>5. Own(q)'
  BY <1>1 DEF IInv, Own, Key, Working, Held
<1>6. Knows(q)' /\ Told(q)'
  <2>1. Knows(q)'
    BY <1>1 DEF IInv, Knows, Key, Held
  <2>2. Told(q)'
    BY <1>1 DEF IInv, Told, Registered, Working
  <2> QED BY <2>1, <2>2
<1> QED BY <1>1, <1>2, <1>3, <1>4, <1>5, <1>6, Uncommitted

\* A register that finds its key in the table finds another's.
LEMMA RowsTold ==
  ASSUME IInv, NEW q \in Requests, pc[q] = "connected", task[q] = "register", Key(q) \in rows
  PROVE  Key(q) \in {Key(p) : p \in {o \in Requests \ {q} : Registered(o)}} \cup Earlier
<1>1. CASE Key(q) \in Earlier
  BY <1>1
<1>2. CASE Key(q) \notin Earlier
  <2>1. PICK p \in Requests : Stored(p) /\ Key(p) = Key(q)
    BY <1>2 DEF IInv, Trail
  <2>2. Asked[q] = "register"
    BY DEF IInv, Told, Later
  <2>3. Registered(p)
    BY <2>1, <2>2, ConstantsAssumption DEF Stored, IInv, Trail, Key
  <2>4. p # q
    BY <2>3 DEF IInv, Told, Working
  <2> QED BY <2>1, <2>3, <2>4
<1> QED BY <1>1, <1>2

\* The request ends with nothing done.
LEMMA RaiseInv ==
  ASSUME IInv, NEW q \in Requests, NEW end \in Ends, Raise(q, end),
         end # "created", end = "conflict" /\ task[q] = "register" => Key(q) \in rows,
         end = "conflict" /\ task[q] = "register" => pc[q] = "connected",
         UNCHANGED <<crowd, starting, clients>>
  PROVE  IInv'
<1>1. /\ pc' = [pc EXCEPT ![q] = end] /\ pc'[q] = end
      /\ lock' = [k \in Keys |-> IF lock[k] = q THEN Nobody ELSE lock[k]]
      /\ writer' = (IF writer = q THEN Nobody ELSE writer)
      /\ using' = using \ {q}
      /\ UNCHANGED <<task, rows, approval, log, current>>
  BY Types DEF Raise, Close, Goto, IInv, HandlerTypes, tables
<1>2. Nobody \notin Requests /\ end \notin Working \cup Held \cup {"bearing", "idle", "waiting"}
  BY ConstantsAssumption DEF Ends, Working, Held
<1>3. Frame(q)
  BY <1>1, <1>2 DEF Frame
<1>4. HandlerTypes'
  BY <1>1, <1>2, Types DEF IInv, HandlerTypes, Points
<1>5. PoolBound'
  BY <1>1, PoolShrinks DEF IInv, clients
<1>6. Own(q)'
  BY <1>1, <1>2 DEF Own
<1>7. Knows(q)'
  BY <1>1, <1>2 DEF Knows, Held, Working
<1>8. Told(q)'
  <2>1. task[q] = "register" /\ end = "conflict" =>
          Key(q) \in {Key(p) : p \in {o \in Requests \ {q} : Registered(o)}} \cup Earlier
    BY RowsTold
  <2>2. Earlier' = Earlier /\ \A o \in Requests : Registered(o)' <=> Registered(o)
    BY <1>1 DEF Earlier, Registered
  <2>3. end = "conflict" /\ task[q] = "register" =>
          (Key(q) \in {Key(p) : p \in {o \in Requests \ {q} : Registered(o)}} \cup Earlier)'
    BY <2>1, <2>2 DEF Key
  <2> QED BY <1>1, <1>2, <2>3 DEF IInv, Told
<1> QED BY <1>1, <1>2, <1>3, <1>4, <1>5, <1>6, <1>7, <1>8, Uncommitted

-----------------------------------------------------------------------------
(***************************************************************************)
(* The steps of a handler, one by one.                                     *)
(***************************************************************************)

LEMMA CheckoutInv ==
  ASSUME IInv, NEW q \in Requests, Checkout(q), UNCHANGED <<crowd, starting, clients>>
  PROVE  IInv'
<1>1. /\ pc' = [pc EXCEPT ![q] = "connected"] /\ pc'[q] = "connected" /\ pc[q] = "admitted"
      /\ using' = using \cup {q}
      /\ UNCHANGED <<task, rows, approval, lock, log, writer, current>>
  BY Types DEF Checkout, Goto, IInv, HandlerTypes, tables
<1>2. Frame(q)
  BY <1>1 DEF Frame
<1>3. HandlerTypes'
  BY <1>1, Types DEF IInv, HandlerTypes, Points, Working
<1>4. PoolBound'
  BY <1>1, PoolTakes DEF IInv, Checkout, clients
<1>5. Own(q)'
  BY <1>1 DEF IInv, Own, Working, Held
<1>6. Knows(q)'
  BY <1>1 DEF Knows, Held
<1>7. Told(q)'
  BY <1>1 DEF IInv, Told, Registered, Working
<1> QED BY <1>1, <1>2, <1>3, <1>4, <1>5, <1>6, <1>7, Uncommitted

LEMMA InsertTailInv ==
  ASSUME IInv, NEW q \in Requests, InsertTail(q), UNCHANGED <<crowd, starting, clients>>
  PROVE  IInv'
<1>1. CASE Raise(q, "error")
  BY <1>1, RaiseInv DEF Ends
<1>2. CASE ~Raise(q, "error")
  <2>1. /\ pc' = [pc EXCEPT ![q] = "appended"] /\ pc'[q] = "appended" /\ pc[q] = "appending"
        /\ writer = Nobody /\ writer' = q
        /\ UNCHANGED <<task, using, rows, approval, lock, log, current>>
    BY <1>2, Types DEF InsertTail, Goto, IInv, HandlerTypes, tables
  <2>2. Frame(q)
    BY <2>1, ConstantsAssumption DEF Frame
  <2>3. HandlerTypes'
    BY <2>1, Types DEF IInv, HandlerTypes, Points, Working
  <2>4. PoolBound'
    BY <2>1, PoolShrinks DEF IInv, clients
  <2>5. Own(q)'
    BY <2>1 DEF IInv, Own, Working, Held, Key
  <2>6. Knows(q)'
    BY <2>1 DEF IInv, Knows, Held, Key
  <2>7. Told(q)'
    BY <2>1 DEF IInv, Told, Registered, Working
  <2> QED BY <2>1, <2>2, <2>3, <2>4, <2>5, <2>6, <2>7, Uncommitted
<1> QED BY <1>1, <1>2

\* Steps that find something out.
LEMMA ReadingInv ==
  ASSUME IInv, NEW q \in Requests, UNCHANGED <<crowd, starting, clients>>,
         ReadTail(q) \/ Evaluate(q) \/ CreateOrGet(q) \/ Learn(q) \/ GiveUp(q)
  PROVE  IInv'
<1> USE DEF Goto, Step
<1>1. /\ task = [task EXCEPT ![q] = task[q]] /\ task[q] \in Tasks /\ current \subseteq Requests
      /\ Knows(q) /\ Own(q) /\ Told(q)
      /\ {"waiting", "answered", "admitted", "written", "appending", "settled"} \subseteq Points
  BY Types DEF IInv, HandlerTypes, Points, Working, Ends
<1>2. CASE ReadTail(q)
  BY <1>1, <1>2, MoveInv DEF ReadTail, Working, Held, Own
<1>3. CASE Evaluate(q)
  <2>1. PICK what \in {"deny", "allow", "hold"} : task' = [task EXCEPT ![q] = what]
    BY <1>3 DEF Evaluate
  <2>2. Asked[q] = "evaluate" /\ writer # q
    BY <1>1, <1>3 DEF Evaluate, Told, Own, Later
  <2> QED BY <1>1, <1>3, <2>1, <2>2, MoveInv DEF Evaluate, Working, Held, Later, Tasks, Locking
<1>4. CASE CreateOrGet(q)
  BY <1>1, <1>4, MoveInv DEF CreateOrGet, Working, Held
<1>5. CASE Learn(q)
  BY <1>1, <1>5, MoveInv DEF Learn, Working, Held, Own
<1>6. CASE GiveUp(q)
  <2>1. Asked[q] = "evaluate" /\ writer # q
    BY <1>1, <1>6, ConstantsAssumption DEF GiveUp, Own, Knows, Told, Later
  <2> QED BY <1>1, <1>6, <2>1, MoveInv DEF GiveUp, Working, Held, Later, Tasks
<1> QED BY <1>2, <1>3, <1>4, <1>5, <1>6

\* Steps that find a row or not, and lock it or insert it.
LEMMA LockingInv ==
  ASSUME IInv, NEW q \in Requests, UNCHANGED <<crowd, starting, clients>>,
         InsertRow(q) \/ FindAgent(q) \/ LockBudget(q) \/ InsertBudget(q) \/ LockApproval(q)
  PROVE  IInv'
<1>1. /\ task = [task EXCEPT ![q] = task[q]] /\ task[q] \in Tasks /\ current \subseteq Requests
      /\ Knows(q) /\ Own(q) /\ Told(q)
      /\ {"found", "inserting"} \subseteq Points
  BY Types DEF IInv, HandlerTypes, Points, Working, Ends
<1>2. CASE InsertRow(q)
  BY <1>2, LockInv, RaiseInv DEF InsertRow, Ends
<1>3. CASE FindAgent(q)
  <2>1. CASE Step(q, "found") /\ Agent[q] \in rows
    BY <1>1, <1>3, <2>1, MoveInv DEF FindAgent, Step, Goto, Working, Held, Own
  <2>2. CASE Raise(q, "notfound")
    BY <2>2, RaiseInv DEF Ends
  <2> QED BY <1>3, <2>1, <2>2 DEF FindAgent
<1>4. CASE LockBudget(q)
  <2>1. task[q] = "upsert" /\ Agent[q] \in rows
    BY <1>1, <1>4 DEF LockBudget, Knows
  <2>2. CASE Lock(q, "written")
    BY <1>4, <2>1, <2>2, LockInv DEF LockBudget
  <2>3. CASE Raise(q, "refused")
    BY <2>3, RaiseInv DEF Ends
  <2>4. CASE Step(q, "inserting")
    BY <1>1, <1>4, <2>1, <2>4, MoveInv DEF LockBudget, Step, Goto, Working, Held, Own
  <2> QED BY <1>4, <2>2, <2>3, <2>4 DEF LockBudget
<1>5. CASE InsertBudget(q)
  <2>1. task[q] = "upsert" /\ Agent[q] \in rows
    BY <1>1, <1>5 DEF InsertBudget, Knows
  <2> QED BY <1>5, <2>1, LockInv, RaiseInv DEF InsertBudget, Ends
<1>6. CASE LockApproval(q)
  <2>1. CASE Lock(q, "written")
    BY <1>6, <2>1, LockInv DEF LockApproval
  <2>2. ASSUME NEW end \in {"notfound", "conflict", "timedout"}, Raise(q, end) PROVE IInv'
    BY <1>6, <2>2, RaiseInv DEF LockApproval, Ends
  <2> QED BY <1>6, <2>1, <2>2 DEF LockApproval
<1> QED BY <1>2, <1>3, <1>4, <1>5, <1>6

\* The commit: the only step that changes the tables and the chain.
LEMMA CommitInv ==
  ASSUME IInv, NEW q \in Requests, Commit(q), UNCHANGED <<crowd, starting, clients>>
  PROVE  IInv'
<1> DEFINE stores == task[q] \in {"register", "upsert"}
<1>1. PICK end \in {After(q), "error"} :
        /\ pc' = [pc EXCEPT ![q] = end] /\ pc'[q] = end
        /\ pc[q] \in {"appended", "settled"} /\ task' = task
        /\ lock' = [k \in Keys |-> IF lock[k] = q THEN Nobody ELSE lock[k]]
        /\ writer' = (IF writer = q THEN Nobody ELSE writer)
        /\ using' = using \ {q}
        /\ rows' = (IF stores THEN rows \cup {Key(q)} ELSE rows)
        /\ approval' = [approval EXCEPT ![Key(q)] = ApprovalAfter(q)]
        /\ log' = log \cup {<<task[q], q>>} /\ current' = {}
  BY Types DEF Commit, Close, Goto, IInv, HandlerTypes
<1>2. /\ task[q] \in Tasks /\ Key(q) \in Keys /\ Key(q) \in Normals
      /\ Own(q) /\ Knows(q) /\ Told(q)
  BY KeyType, Types DEF IInv, HandlerTypes
<1>3. /\ After(q) \in Ends \cup {"waiting"}
      /\ After(q) = "created" <=> task[q] = "register"
      /\ After(q) = "waiting" <=> task[q] = "hold"
      /\ After(q) # "conflict"
  BY DEF After, Ends
<1>4. /\ end \in Ends \cup {"waiting"} /\ end # "conflict"
      /\ end = "created" => task[q] = "register"
      /\ end = "waiting" => task[q] = "hold"
      /\ end \notin Working \cup Held \cup {"bearing", "idle"}
      /\ Nobody \notin Requests
  BY <1>3, ConstantsAssumption DEF Ends, Working, Held
<1>5. crowd' = crowd /\ Earlier' = Earlier
  BY DEF Earlier
<1>6. stores => lock[Key(q)] = q
  BY <1>1, <1>2 DEF Own, Held, Locking
<1>7. Frame(q)
  BY <1>1, <1>4, <1>6 DEF Frame
<1>8. TypeOK'
  <2>1. HandlerTypes'
    <3>1. approval' \in [Keys -> {"none", "pending", "resolved", "expired"}]
      <4>1. approval \in [Keys -> {"none", "pending", "resolved", "expired"}]
        BY Types DEF IInv, HandlerTypes
      <4>2. ApprovalAfter(q) \in {"none", "pending", "resolved", "expired"}
        BY <1>2, <4>1 DEF ApprovalAfter
      <4> QED BY <1>1, <4>1, <4>2
    <3> QED BY <1>1, <1>2, <1>4, <3>1, Types DEF IInv, HandlerTypes, Points
  <2>2. PoolBound'
    BY <1>1, PoolShrinks DEF IInv, clients
  <2>3. ClientTypes' /\ StartTypes'
    BY Types DEF IInv, ClientTypes, StartTypes, clients, starting
  <2> QED BY <2>1, <2>2, <2>3, Types
           DEF TypeOK, ClientTypes, StartTypes, HandlerTypes, PoolBound, Points
<1>9. ServedOnSchema'
  BY DEF IInv, ServedOnSchema, starting
<1>10. \A p \in Requests :
         /\ Registered(p)' <=> Registered(p) \/ (p = q /\ task[q] = "register")
         /\ Stored(p)' <=> Stored(p) \/ (p = q /\ stores)
         /\ (<<"upsert", p>> \in log)' <=> <<"upsert", p>> \in log \/ (p = q /\ task[q] = "upsert")
  BY <1>1 DEF Registered, Stored
<1>11. stores => Asked[q] = task[q]
  BY <1>2 DEF Told, Later
<1>12. task[q] = "register" => Key(q) \notin rows
  BY <1>1, <1>2 DEF Knows, Held
<1>13. Trail'
  <2>1. rows' \subseteq Normals
    BY <1>1, <1>2 DEF IInv, Trail
  <2>2. rows' = Earlier \cup {Key(o) : o \in {p \in Requests : Stored(p)'}}
    BY <1>1, <1>10 DEF IInv, Trail
  <2>3. \A p, o \in Requests :
          Registered(p)' /\ Registered(o)' /\ Key(p) = Key(o) => p = o
    <3>1. \A p \in Requests : Registered(p) => Key(p) \in rows
      BY DEF IInv, Trail, Stored
    <3> QED BY <1>10, <1>12, <3>1 DEF IInv, Trail
  <2>4. \A o \in Requests : Registered(o)' => Key(o) \notin Earlier /\ Asked[o] = "register"
    BY <1>10, <1>11, <1>12 DEF IInv, Trail
  <2>5. \A o \in Requests : (<<"upsert", o>> \in log)' => Agent[o] \in rows' /\ Asked[o] = "upsert"
    BY <1>1, <1>2, <1>10, <1>11 DEF IInv, Trail, Knows, Held
  <2> QED BY <1>5, <2>1, <2>2, <2>3, <2>4, <2>5 DEF Trail, Stored, Registered, Key
<1>14. Own(q)'
  BY <1>1, <1>4 DEF Own, Held
<1>15. Knows(q)'
  BY <1>1, <1>4 DEF Knows, Held, Working
<1>16. Told(q)'
  BY <1>1, <1>2, <1>4, <1>10 DEF Told
<1>17. Stamped(q)'
  BY <1>1, <1>4 DEF Stamped
<1> QED BY <1>7, <1>8, <1>9, <1>13, <1>14, <1>15, <1>16, <1>17, OthersKept DEF IInv

LEMMA HandlerInv ==
  ASSUME IInv, NEW q \in Requests, HandlerStep(q) \/ Abandon(q),
         UNCHANGED <<crowd, starting, clients>>
  PROVE  IInv'
<1>1. CASE Abandon(q)
  BY <1>1, RaiseInv DEF Abandon, Ends
<1> QED BY <1>1, CheckoutInv, InsertTailInv, ReadingInv, LockingInv, CommitInv DEF HandlerStep

-----------------------------------------------------------------------------
(***************************************************************************)
(* Replicas and clients.                                                   *)
(***************************************************************************)

\* A replica's start or end changes nothing for the handlers.
LEMMA StartInv ==
  ASSUME IInv, NEW r \in Replicas, StartStep(r) \/ FailToStart(r) \/ Stop(r),
         UNCHANGED <<crowd, clients, handling>>
  PROVE  IInv'
<1> USE DEF Become
<1>1. StartTypes
  BY Types DEF IInv
<1>2. StartTypes' /\ ServedOnSchema'
  BY <1>1 DEF StartTypes, StartStep, Ping, Inspect, CreateTables, CommitSchema, FailToStart, Stop,
     IInv, ServedOnSchema
<1>3. TypeOK'
  BY <1>2, Types DEF IInv, TypeOK, StartTypes, clients, handling
<1>4. Trail'
  BY DEF IInv, Trail, Registered, Stored, Earlier, Key, handling
<1>5. ASSUME NEW q \in Requests PROVE (Own(q) /\ Knows(q) /\ Told(q) /\ Stamped(q))'
  BY Undisturbed DEF handling, clients
<1> QED BY <1>2, <1>3, <1>4, <1>5 DEF IInv

LEMMA TickInv ==
  ASSUME IInv, Tick, UNCHANGED <<crowd, starting>>
  PROVE  IInv'
<1>1. TypeOK' /\ ServedOnSchema'
  BY DEF Tick, IInv, TypeOK, ServedOnSchema, starting, handling
<1>2. Trail'
  BY DEF Tick, IInv, Trail, Registered, Stored, Earlier, Key, handling
<1>3. ASSUME NEW q \in Requests PROVE (Own(q) /\ Knows(q) /\ Told(q) /\ Stamped(q))'
  BY Undisturbed DEF Tick, handling
<1> QED BY <1>1, <1>2, <1>3 DEF IInv

\* The client's own steps: only where it stands, its token and its replica.
LEMMA ClientInv ==
  ASSUME IInv, NEW q \in Requests, IssueToken(q) \/ Send(q), UNCHANGED <<crowd, starting>>
  PROVE  IInv'
<1>1. PICK next \in {"bearing", "unauthorized", "forbidden", "invalid", "admitted"} :
        /\ pc' = [pc EXCEPT ![q] = next] /\ pc'[q] = next
        /\ pc[q] \in {"idle", "bearing"}
        /\ next = "bearing" => IssueToken(q)
        /\ UNCHANGED <<now, task, using, rows, approval, log, lock, writer, current>>
        /\ \A p \in Requests \ {q} : token'[p] = token[p] /\ at'[p] = at[p]
  BY Types DEF IssueToken, Send, Goto, IInv, HandlerTypes, ClientTypes, tables
<1>2. ClientTypes'
  <2>1. ClientTypes
    BY Types DEF IInv
  <2>2. CASE IssueToken(q)
    <3>1. PICK r \in Replicas, lost \in 0..Fraction :
            token' = [token EXCEPT ![q] = [at |-> now, iat |-> now + Skew[r] - lost]]
      BY <2>2 DEF IssueToken
    <3>2. now + Skew[r] - lost \in Int
      BY <2>1, ConstantsAssumption DEF ClientTypes
    <3> QED BY <2>1, <2>2, <3>1, <3>2 DEF ClientTypes, IssueToken
  <2>3. CASE Send(q)
    BY <2>1, <2>3 DEF ClientTypes, Send
  <2> QED BY <2>2, <2>3
<1>3. HandlerTypes'
  BY <1>1, Types DEF IInv, HandlerTypes, Points, Working, Ends
<1>4. PoolBound'
  <2>1. \A p \in using' : at'[p] = at[p]
    BY <1>1, Types DEF IInv, Own, Working, HandlerTypes
  <2> QED BY <1>1, <2>1, PoolShrinks DEF IInv
<1>5. TypeOK' /\ ServedOnSchema'
  BY <1>2, <1>3, <1>4, Types DEF IInv, TypeOK, ClientTypes, StartTypes, HandlerTypes, PoolBound,
     Points, ServedOnSchema, starting
<1>6. Trail'
  BY <1>1 DEF IInv, Trail, Registered, Stored, Earlier, Key
<1>7. (Own(q) /\ Knows(q) /\ Told(q))'
  BY <1>1 DEF IInv, Own, Knows, Told, Registered, Working, Held
<1>8. Stamped(q)'
  <2>1. CASE next = "bearing"
    <3>1. PICK r \in Replicas, lost \in 0..Fraction :
            token'[q] = [at |-> now, iat |-> now + Skew[r] - lost]
      BY <1>1, <2>1, Types DEF IssueToken, IInv, ClientTypes
    <3> QED BY <3>1, Types DEF Stamped, IInv, ClientTypes
  <2>2. CASE next # "bearing"
    BY <1>1, <2>2 DEF Stamped
  <2> QED BY <2>1, <2>2
<1>9. ASSUME NEW p \in Requests \ {q} PROVE (Own(p) /\ Knows(p) /\ Told(p) /\ Stamped(p))'
  <2>1. pc'[p] = pc[p]
    BY <1>1, Types DEF IInv, HandlerTypes
  <2>2. using' = using
    BY DEF IssueToken, Send
  <2> QED BY <1>1, <2>1, <2>2, Undisturbed
<1> QED BY <1>5, <1>6, <1>7, <1>8, <1>9 DEF IInv

LEMMA QuietInv == ASSUME IInv, UNCHANGED vars PROVE IInv'
<1>1. TypeOK' /\ ServedOnSchema'
  BY DEF vars, IInv, TypeOK, ServedOnSchema, starting, clients, handling
<1>2. Trail'
  BY DEF vars, IInv, Trail, Registered, Stored, Earlier, Key, handling
<1>3. ASSUME NEW q \in Requests PROVE (Own(q) /\ Knows(q) /\ Told(q) /\ Stamped(q))'
  BY Undisturbed DEF vars, handling, clients
<1> QED BY <1>1, <1>2, <1>3 DEF IInv

LEMMA StepInv == IInv /\ [Next]_vars => IInv'
<1> SUFFICES ASSUME IInv, [Next]_vars PROVE IInv'
  OBVIOUS
<1>1. CASE UNCHANGED vars
  BY <1>1, QuietInv
<1>2. CASE Next
  <2>1. CASE AllQuiet
    BY <1>2, <2>1, QuietInv DEF Next, AllQuiet, vars
  <2>2. CASE ~AllQuiet
    BY <1>2, <2>2, StartInv, TickInv, ClientInv, HandlerInv DEF Next
  <2> QED BY <2>1, <2>2
<1> QED BY <1>1, <1>2

\* A token is given up by sending it only.
LEMMA SentOnly ==
  ASSUME IInv, [Next]_vars, NEW q \in Requests, pc[q] = "bearing", pc'[q] # "bearing"
  PROVE  Send(q)
<1> USE DEF Goto
<1>1. pc \in [Requests -> Points] /\ pc' # pc
  BY Types DEF IInv, HandlerTypes
<1>2. ASSUME NEW p \in Requests, HandlerStep(p) \/ Abandon(p) PROVE FALSE
  <2>1. pc[p] # "bearing" /\ \E next : pc' = [pc EXCEPT ![p] = next]
    BY <1>2 DEF HandlerStep, Checkout, ReadTail, InsertTail, InsertRow, FindAgent, LockBudget,
       InsertBudget, Evaluate, CreateOrGet, Learn, GiveUp, LockApproval, Commit, Abandon,
       InFlight, Working, Raise, Step, Lock
  <2> QED BY <1>1, <2>1
<1>3. ASSUME NEW p \in Requests, IssueToken(p) \/ Send(p) PROVE Send(q)
  <2>1. \E next : pc' = [pc EXCEPT ![p] = next]
    BY <1>3 DEF IssueToken, Send
  <2>2. p = q
    BY <1>1, <2>1
  <2> QED BY <1>3, <2>2 DEF IssueToken
<1>4. ~(UNCHANGED handling) /\ ~(UNCHANGED vars)
  BY <1>1 DEF handling, vars
<1> QED BY <1>2, <1>3, <1>4 DEF Next, Tick, AllQuiet

LEMMA Invariance == Spec => []IInv
BY InitInv, StepInv, PTL DEF Spec

-----------------------------------------------------------------------------
\* Every variable keeps its type.
THEOREM TypeTheorem == Spec => []TypeOK
<1>1. IInv => TypeOK
  BY DEF IInv
<1> QED BY <1>1, Invariance, PTL

\* However many replicas start at once and whichever of them fail, one that
\* serves has its tables, and one that was beaten to them left them to a winner.
THEOREM SchemaTheorem == Spec => []ServedOnSchema
<1>1. IInv => ServedOnSchema
  BY DEF IInv
<1> QED BY <1>1, Invariance, PTL

\* Connections, rows and the end of the chain are taken in one order by every
\* route and given back at every end: no circle of waiting can close, for pools
\* of any size.
THEOREM OrderTheorem == Spec => []WaitsInOrder
<1>1. IInv => WaitsInOrder
  BY DEF IInv, Own, WaitsInOrder, Held
<1> QED BY <1>1, Invariance, PTL

\* Registration is decided once per key, and tables, chain and answers agree.
THEOREM RegistryTheorem == Spec => []OneWinner
<1>1. IInv => OneWinner
  BY DEF IInv, Trail, Told, Stored, OneWinner
<1> QED BY <1>1, Invariance, PTL

\* Every budget belongs to an agent that is registered, whoever raced for it.
THEOREM FoundedTheorem == Spec => []BudgetsFounded
<1>1. IInv => BudgetsFounded
  BY DEF IInv, Trail, BudgetsFounded, Normals
<1> QED BY <1>1, Invariance, PTL

\* A token is honoured for its lifetime, give or take the difference of clocks.
THEOREM TokenTheorem == Spec => TokenHonoured
<1> DEFINE Honoured(q) ==
      (pc[q] = "bearing" /\ pc'[q] # "bearing") =>
        LET age == now - token[q].at IN
          IF pc'[q] = "unauthorized"
            THEN age < Spread \/ age >= Lifetime - Spread - Fraction
            ELSE age < Lifetime + Spread
<1>1. IInv /\ [Next]_vars => [\A q \in Requests : Honoured(q)]_vars
  <2> SUFFICES ASSUME IInv, [Next]_vars, NEW q \in Requests, pc[q] = "bearing", pc'[q] # "bearing"
               PROVE  Honoured(q)
    OBVIOUS
  <2>1. Send(q)
    BY SentOnly
  <2>2. PICK s \in Replicas :
          /\ pc'[q] = "unauthorized" <=> ~InTime(q, s)
    BY <2>1, Types DEF Send, Goto, IInv, HandlerTypes, Points
  <2>3. PICK r \in Replicas, lost \in 0..Fraction :
          token[q].at \in Nat /\ token[q].iat = token[q].at + Skew[r] - lost
    BY DEF IInv, Stamped
  <2>4. /\ now \in Nat /\ Skew[r] \in Int /\ Skew[s] \in Int /\ lost \in Nat /\ lost <= Fraction
        /\ Skew[r] - Skew[s] <= Spread /\ Skew[s] - Skew[r] <= Spread
        /\ Spread \in Nat /\ Lifetime \in Nat /\ Fraction \in Nat
    BY ConstantsAssumption DEF IInv, TypeOK
  <2> QED BY <2>2, <2>3, <2>4 DEF InTime
<1>2. Spec => [][\A q \in Requests : Honoured(q)]_vars
  BY <1>1, Invariance, PTL DEF Spec
<1> QED BY <1>2 DEF TokenHonoured
=============================================================================
