--------------------------- MODULE ExecutionsProofs ---------------------------
(***************************************************************************)
(* Theorems about Executions, for any number of executions, any amounts,   *)
(* keys and cap, and whatever fails: what ran was cleared, the chain tells *)
(* one story, and the ledger is charged when the chain says so.            *)
(***************************************************************************)
EXTENDS Executions, TLAPS

\* Before the evaluation is committed; cleared or failing, the tool not done;
\* the tool done and not yet recorded.
Fresh == {"idle", "evaluated", "appending", "reserving", "closing"}
Clear == {"cleared", "failing", "released", "noting", "noted"}
Owing == {"spent", "locked", "settled", "recording", "recorded"}

Logged(kind, x) == <<kind, x>> \in log

\* What e holds and what is known of it, from where it stands.
Standing(e) ==
  /\ lock = e <=> e \in Financial /\ pc[e] \in Owing \ {"spent"}
  /\ lock = e => Fits(e)
  /\ writer = e <=> pc[e] \in {"reserving", "closing", "recorded", "noted"}
  /\ pc[e] \in {"spent", "locked", "failing"} => e \in Financial
  /\ pc[e] \in Owing => e \in ran
  /\ pc[e] \in Steps \ Owing => e \notin ran
  /\ pc[e] \in Steps => ~Logged("completed", e) /\ ~Logged("failed", e)
  /\ pc[e] \in Steps \ Fresh => Logged("evaluated", e)
  /\ pc[e] = "reserving" => decision[e] = "allow"
  /\ pc[e] \in Fresh \cup {"waiting"} =>
       decision[e] \notin {"approved", "rejected", "expired", "timedout"}
  /\ e \in Risky => decision[e] # "allow"
  /\ HeldBack(e) /\ pc[e] \in Clear \cup Owing \cup {"funding"} =>
       Logged("requested", Key[e]) /\ Logged("approved", Key[e])

\* What the chain says of a transaction.
Told(k) ==
  /\ approval[k] # "none" => Logged("requested", k)
  /\ approval[k] = "approved" => Logged("approved", k)

IInv ==
  /\ TypeOK
  /\ row.consumed <= row.limit
  /\ \A k \in Keys : Told(k)
  /\ \A e \in Execs : Standing(e)
  /\ ClearedBeforeRun
  /\ OneStory

-----------------------------------------------------------------------------
LEMMA InitInv == Init => IInv
<1> SUFFICES ASSUME Init PROVE IInv
  OBVIOUS
<1> USE ConstantsAssumption DEF Init
<1>1. TypeOK
  BY DEF TypeOK, Steps, Financial, Row
<1>2. \A e \in Execs : Standing(e)
  BY DEF Standing, Fresh, Clear, Owing, Steps, Logged
<1> QED BY <1>1, <1>2 DEF IInv, Told, ClearedBeforeRun, OneStory

(***************************************************************************)
(* The statements an execution is made of keep the types.                  *)
(***************************************************************************)
Places == Steps \cup Ends

LEMMA GotoType ==
  ASSUME TypeOK, NEW e \in Execs, NEW next \in Places, Goto(e, next)
  PROVE  pc' \in [Execs -> Steps \cup Ends]
BY DEF TypeOK, Goto, Places

LEMMA ReadTailType ==
  ASSUME TypeOK, NEW e \in Execs, NEW next \in Places, ReadTail(e, next)
  PROVE  TypeOK'
<1>1. pc' \in [Execs -> Steps \cup Ends]
  BY GotoType DEF ReadTail
<1> QED BY <1>1 DEF ReadTail, TypeOK, Events

LEMMA InsertTailType ==
  ASSUME TypeOK, NEW e \in Execs, NEW next \in Places, InsertTail(e, next)
  PROVE  TypeOK'
<1>1. pc' \in [Execs -> Steps \cup Ends]
  BY GotoType DEF InsertTail, Places, Ends
<1> QED BY <1>1 DEF InsertTail, Rollback, TypeOK, Events

LEMMA CommitType ==
  ASSUME TypeOK, NEW e \in Execs, NEW next \in Places, NEW events \in SUBSET Events,
         NEW newRow \in Row,
         Commit(e, newRow, events, next),
         approval' \in [Keys -> {"none", "pending"} \cup Resolutions],
         UNCHANGED <<counter, decision, ran>>
  PROVE  TypeOK'
<1>1. pc' \in [Execs -> Steps \cup Ends]
  BY GotoType DEF Commit, Places, Ends
<1>2. log' \subseteq Events
  BY DEF Commit, TypeOK
<1> QED BY <1>1, <1>2 DEF Commit, TypeOK

LEMMA ConsumeType ==
  ASSUME TypeOK, NEW e \in Execs
  PROVE  Consume(row, e) \in Row
<1>1. row \in Row
  BY DEF TypeOK
<1>2. row.consumed + Amount[e] \in Nat /\ row.version + 1 \in Nat
  BY <1>1, ConstantsAssumption DEF Row
<1> QED BY <1>1, <1>2 DEF Consume, Row

LEMMA StepType ==
  ASSUME IInv, NEW e \in Execs, ExecStep(e)
  PROVE  TypeOK'
<1> USE DEF Places, Steps, Ends
<1>1. TypeOK /\ Key[e] \in Keys
  BY DEF IInv, Keys
<1>2. CASE ReadForEvaluation(e) \/ ReadForRecord(e) \/ ReadForFailure(e)
  BY <1>1, <1>2, ReadTailType DEF ReadForEvaluation, ReadForRecord, ReadForFailure
<1>3. CASE AppendEvaluated(e) \/ AppendCompleted(e) \/ AppendFailed(e)
  BY <1>1, <1>3, InsertTailType DEF AppendEvaluated, AppendCompleted, AppendFailed
<1>4. CASE Evaluate(e)
  <2>1. pc' \in [Execs -> Steps \cup Ends]
    BY <1>1, <1>4, GotoType DEF Evaluate
  <2>2. PICK outcome \in {"deny", "require_approval", "allow"} :
          decision' = [decision EXCEPT ![e] = outcome]
    BY <1>4 DEF Evaluate, Outcomes
  <2> QED BY <1>1, <1>4, <2>1, <2>2 DEF Evaluate, TypeOK
<1>5. CASE Reserve(e) \/ ReserveApproved(e)
  <2>1. counter' \in Nat
    BY <1>1, <1>5, ConstantsAssumption DEF Reserve, ReserveApproved, Reserved, TypeOK
  <2>2. pc' \in [Execs -> Steps \cup Ends]
    BY <1>1, <1>5, GotoType DEF Reserve, ReserveApproved
  <2> QED BY <1>1, <1>5, <2>1, <2>2 DEF Reserve, ReserveApproved, TypeOK
<1>6. CASE ToolSucceeds(e) \/ ToolFails(e)
  <2>1. pc' \in [Execs -> Steps \cup Ends]
    BY <1>1, <1>6, GotoType DEF ToolSucceeds, ToolFails
  <2> QED BY <1>1, <1>6, <2>1 DEF ToolSucceeds, ToolFails, TypeOK
<1>7. CASE CommitLoad(e)
  <2>1. e \in Financial
    BY <1>7 DEF CommitLoad, IInv, Standing
  <2>2. pc' \in [Execs -> Steps \cup Ends]
    BY <1>1, <1>7, GotoType DEF CommitLoad
  <2> QED BY <1>1, <1>7, <2>1, <2>2 DEF CommitLoad, TypeOK
<1>8. CASE CommitReset(e)
  <2>1. counter' \in Nat
    <3>1. lock = e /\ Fits(e)
      BY <1>8 DEF CommitReset, IInv, Standing, Owing
    <3> QED BY <1>1, <1>8, <3>1, ConstantsAssumption DEF CommitReset, Fits, TypeOK, Row
  <2>2. pc' \in [Execs -> Steps \cup Ends]
    BY <1>1, <1>8, GotoType DEF CommitReset
  <2> QED BY <1>1, <1>8, <2>1, <2>2 DEF CommitReset, TypeOK
<1>9. CASE Release(e)
  <2>1. counter' \in Nat
    BY <1>1, <1>9, ConstantsAssumption DEF Release, IInv, TypeOK, Row
  <2>2. pc' \in [Execs -> Steps \cup Ends]
    BY <1>1, <1>9, GotoType DEF Release
  <2> QED BY <1>1, <1>9, <2>1, <2>2 DEF Release, TypeOK
<1>10. CASE CommitEvaluation(e)
  <2>1. approval' \in [Keys -> {"none", "pending"} \cup Resolutions]
    BY <1>1, <1>10 DEF CommitEvaluation, TypeOK
  <2>2. {<<"evaluated", e>>} \in SUBSET Events
        /\ {<<"evaluated", e>>, <<"requested", Key[e]>>} \in SUBSET Events
    BY <1>1 DEF Events
  <2>3. AfterEvaluation(e) \in Places
    BY DEF AfterEvaluation
  <2>4. PICK events \in SUBSET Events : Commit(e, row, events, AfterEvaluation(e))
    BY <1>10, <2>2 DEF CommitEvaluation
  <2> QED BY <1>1, <1>10, <2>1, <2>3, <2>4, CommitType DEF CommitEvaluation, TypeOK
<1>11. CASE CommitExecution(e)
  <2>1. Consume(row, e) \in Row
    BY <1>1, ConsumeType
  <2>2. {<<"completed", e>>} \in SUBSET Events
    BY DEF Events
  <2> QED BY <1>1, <1>11, <2>1, <2>2, CommitType DEF CommitExecution, TypeOK
<1>12. CASE CommitFailure(e)
  <2>1. {<<"failed", e>>} \in SUBSET Events
    BY DEF Events
  <2> QED BY <1>1, <1>12, <2>1, CommitType DEF CommitFailure, TypeOK
<1>13. CASE LearnResolution(e)
  <2>1. PICK next \in {"funding", "cleared", "refused"}, what \in Resolutions :
          Learn(e, what, next)
    BY <1>13 DEF LearnResolution, Resolutions
  <2>2. pc' \in [Execs -> Steps \cup Ends]
    BY <1>1, <2>1, GotoType DEF Learn
  <2>3. UNCHANGED <<row, lock, counter, approval, log, writer, current, ran>>
    BY <1>13, <2>1 DEF LearnResolution, Learn
  <2>4. decision' = [decision EXCEPT ![e] = what]
    BY <2>1 DEF Learn
  <2> QED BY <1>1, <2>2, <2>3, <2>4 DEF TypeOK
<1>14. CASE GiveUp(e)
  <2>1. pc' \in [Execs -> Steps \cup Ends]
    BY <1>1, <1>14, GotoType DEF GiveUp, Learn
  <2>2. approval' \in [Keys -> {"none", "pending"} \cup Resolutions]
    BY <1>1, <1>14 DEF GiveUp, TypeOK, Resolutions
  <2>3. log' \subseteq Events
    BY <1>1, <1>14 DEF GiveUp, TypeOK, Events, Resolutions
  <2> QED BY <1>1, <1>14, <2>1, <2>2, <2>3 DEF GiveUp, Learn, TypeOK
<1> QED
  BY <1>2, <1>3, <1>4, <1>5, <1>6, <1>7, <1>8, <1>9, <1>10, <1>11, <1>12, <1>13, <1>14
     DEF ExecStep

(***************************************************************************)
(* What a step of e can do to anybody else: put its own events and those   *)
(* of its key on the chain, take or free what is free or its own.          *)
(***************************************************************************)
EventsOf(e) ==
  ({"evaluated", "completed", "failed"} \X {e}) \cup ({"requested", "expired"} \X Keys)

Touches(e) ==
  /\ \A f \in Execs \ {e} :
       /\ pc'[f] = pc[f] /\ decision'[f] = decision[f]
       /\ (f \in ran') = (f \in ran)
       /\ (lock' = f) = (lock = f) /\ (writer' = f) = (writer = f)
  /\ log \subseteq log' /\ log' \subseteq log \cup EventsOf(e)
  /\ lock # e => row' = row

LEMMA TouchesStep ==
  ASSUME IInv, NEW e \in Execs, ExecStep(e) \/ Abandon(e)
  PROVE  Touches(e)
<1>1. TypeOK /\ Key[e] \in Keys /\ Nobody \notin Execs
  BY ConstantsAssumption DEF IInv, Keys
<1> USE DEF Goto
<1>2. CASE ReadForEvaluation(e) \/ ReadForRecord(e) \/ ReadForFailure(e)
  BY <1>1, <1>2 DEF ReadForEvaluation, ReadForRecord, ReadForFailure, ReadTail, Touches, TypeOK
<1>3. CASE AppendEvaluated(e) \/ AppendCompleted(e) \/ AppendFailed(e)
  BY <1>1, <1>3
     DEF AppendEvaluated, AppendCompleted, AppendFailed, InsertTail, Rollback, Touches, TypeOK
<1>4. CASE Evaluate(e) \/ Reserve(e) \/ ReserveApproved(e) \/ CommitReset(e) \/ Release(e)
  BY <1>1, <1>4 DEF Evaluate, Reserve, ReserveApproved, CommitReset, Release, Touches, TypeOK
<1>5. CASE ToolSucceeds(e) \/ ToolFails(e) \/ CommitLoad(e)
  BY <1>1, <1>5 DEF ToolSucceeds, ToolFails, CommitLoad, Touches, TypeOK
<1>6. CASE LearnResolution(e) \/ GiveUp(e)
  BY <1>1, <1>6 DEF LearnResolution, GiveUp, Learn, Touches, EventsOf, TypeOK
<1>7. CASE CommitEvaluation(e)
  BY <1>1, <1>7 DEF CommitEvaluation, Commit, Touches, EventsOf, TypeOK
<1>8. CASE CommitExecution(e)
  <2>1. lock # e => e \notin Financial
    BY <1>8 DEF CommitExecution, IInv, Standing, Owing
  <2> QED BY <1>1, <1>8, <2>1 DEF CommitExecution, Commit, Consume, Touches, EventsOf, TypeOK
<1>9. CASE CommitFailure(e)
  BY <1>1, <1>9 DEF CommitFailure, Commit, Touches, EventsOf, TypeOK
<1>10. CASE Abandon(e)
  BY <1>1, <1>10 DEF Abandon, Rollback, Touches, TypeOK
<1> QED
  BY <1>2, <1>3, <1>4, <1>5, <1>6, <1>7, <1>8, <1>9, <1>10 DEF ExecStep

\* Nobody else's standing is disturbed.
LEMMA OthersStand ==
  ASSUME IInv, NEW e \in Execs, Touches(e), NEW f \in Execs \ {e}
  PROVE  Standing(f)'
<1>1. Standing(f) /\ TypeOK
  BY DEF IInv
<1>2. lock = f => Fits(f)'
  <2>1. lock = f => row' = row
    BY DEF Touches
  <2> QED BY <1>1, <2>1 DEF Standing, Fits
<1>3. /\ Logged("completed", f)' = Logged("completed", f)
      /\ Logged("failed", f)' = Logged("failed", f)
  BY DEF Touches, EventsOf, Logged
<1>4. /\ Logged("evaluated", f) => Logged("evaluated", f)'
      /\ Logged("requested", Key[f]) => Logged("requested", Key[f])'
      /\ Logged("approved", Key[f]) => Logged("approved", Key[f])'
  BY DEF Touches, Logged
<1> QED BY <1>1, <1>2, <1>3, <1>4 DEF Touches, Standing, HeldBack

\* A transaction that is approved was requested before.
LEMMA ToldStep ==
  ASSUME IInv, NEW e \in Execs, ExecStep(e) \/ Abandon(e), NEW k \in Keys
  PROVE  Told(k)'
<1>1. Told(k) /\ TypeOK /\ Key[e] \in Keys
  BY DEF IInv, Keys
<1>2. Logged("requested", k) => Logged("requested", k)'
  BY TouchesStep DEF Touches, Logged
<1>3. Logged("approved", k) => Logged("approved", k)'
  BY TouchesStep DEF Touches, Logged
<1>4. CASE approval' = approval
  BY <1>1, <1>2, <1>3, <1>4 DEF Told
<1>5. CASE CommitEvaluation(e) /\ approval' # approval
  <2>1. approval' = [approval EXCEPT ![Key[e]] = "pending"] /\ writer = e
    BY <1>1, <1>5 DEF CommitEvaluation, IInv, Standing
  <2>2. Logged("requested", Key[e])'
    BY <1>5, <2>1 DEF CommitEvaluation, Commit, Logged
  <2> QED BY <1>1, <1>2, <1>3, <2>1, <2>2 DEF Told, TypeOK
<1>6. CASE GiveUp(e) /\ approval' # approval
  <2>1. approval' = [approval EXCEPT ![Key[e]] = "expired"] /\ approval[Key[e]] = "pending"
    BY <1>6 DEF GiveUp
  <2> QED BY <1>1, <1>2, <1>3, <2>1 DEF Told, TypeOK
<1>7. CommitEvaluation(e) \/ GiveUp(e) \/ approval' = approval
  BY DEF ExecStep, Evaluate, ReadForEvaluation, AppendEvaluated, Reserve, LearnResolution,
         Learn, ReserveApproved, ToolSucceeds, ToolFails, CommitLoad, CommitReset,
         ReadForRecord, AppendCompleted, CommitExecution, Release, ReadForFailure,
         AppendFailed, CommitFailure, ReadTail, InsertTail, Abandon
<1> QED BY <1>4, <1>5, <1>6, <1>7

LEMMA OwnStand ==
  ASSUME IInv, NEW e \in Execs, ExecStep(e) \/ Abandon(e)
  PROVE  Standing(e)'
<1>1. TypeOK /\ Standing(e) /\ Told(Key[e]) /\ Nobody # e /\ log \subseteq log'
  BY ConstantsAssumption, TouchesStep DEF IInv, Keys, Touches
<1> USE DEF Goto, Fresh, Clear, Owing, Steps, HeldBack
<1>2. CASE ReadForEvaluation(e) \/ ReadForRecord(e) \/ ReadForFailure(e)
  BY <1>1, <1>2
     DEF ReadForEvaluation, ReadForRecord, ReadForFailure, ReadTail, Standing, Logged, Fits,
         TypeOK
<1>3. CASE AppendEvaluated(e) \/ AppendCompleted(e) \/ AppendFailed(e)
  BY <1>1, <1>3
     DEF AppendEvaluated, AppendCompleted, AppendFailed, InsertTail, Rollback, Standing,
         Logged, Fits, TypeOK
<1>4. CASE Evaluate(e)
  BY <1>1, <1>4 DEF Evaluate, Outcomes, Standing, Logged, Fits, TypeOK
<1>5. CASE Reserve(e)
  BY <1>1, <1>5 DEF Reserve, Standing, Logged, Fits, TypeOK
<1>6. CASE ReserveApproved(e)
  BY <1>1, <1>6 DEF ReserveApproved, Standing, Logged, Fits, TypeOK
<1>7. CASE CommitReset(e) \/ Release(e)
  BY <1>1, <1>7 DEF CommitReset, Release, Standing, Logged, Fits, TypeOK
<1>8. CASE ToolSucceeds(e) \/ ToolFails(e)
  BY <1>1, <1>8 DEF ToolSucceeds, ToolFails, Standing, Logged, Fits, TypeOK
<1>9. CASE CommitLoad(e)
  BY <1>1, <1>9 DEF CommitLoad, Standing, Logged, Fits, TypeOK
<1>10. CASE LearnResolution(e)
  BY <1>1, <1>10 DEF LearnResolution, Learn, Told, Standing, Logged, Fits, TypeOK
<1>11. CASE GiveUp(e)
  BY <1>1, <1>11 DEF GiveUp, Learn, Standing, Logged, Fits, TypeOK
<1>12. CASE CommitEvaluation(e)
  <2>1. /\ writer = e /\ lock # e /\ e \notin ran /\ lock' # e /\ writer' # e
        /\ ran' = ran /\ decision' = decision /\ row' = row
    BY <1>1, <1>12 DEF CommitEvaluation, Commit, Standing
  <2>2. PICK next \in {"refused", "cleared", "waiting", "unasked", "error"} :
          /\ pc' = [pc EXCEPT ![e] = next]
          /\ next = "cleared" => decision[e] = "allow"
    BY <1>12 DEF CommitEvaluation, Commit, AfterEvaluation
  <2>3. /\ Logged("evaluated", e)'
        /\ ~Logged("completed", e)' /\ ~Logged("failed", e)'
    BY <1>1, <1>12, <2>1 DEF CommitEvaluation, Commit, Standing, Logged
  <2>4. decision[e] \notin {"approved", "rejected", "expired", "timedout"}
    BY <1>1, <1>12 DEF CommitEvaluation, Standing
  <2>5. HeldBack(e) => next # "cleared"
    BY <1>1, <2>1, <2>2 DEF Standing
  <2>6. e \in Risky => decision'[e] # "allow"
    BY <1>1, <2>1 DEF Standing
  <2>7. pc'[e] = next /\ decision'[e] = decision[e]
    BY <1>1, <2>1, <2>2 DEF TypeOK
  <2> QED BY <2>1, <2>3, <2>4, <2>5, <2>6, <2>7 DEF Standing
<1>13. CASE CommitExecution(e)
  BY <1>1, <1>13 DEF CommitExecution, Commit, Standing, Logged, Fits, TypeOK
<1>14. CASE CommitFailure(e)
  BY <1>1, <1>14 DEF CommitFailure, Commit, Standing, Logged, Fits, TypeOK
<1>15. CASE Abandon(e)
  BY <1>1, <1>15 DEF Abandon, Rollback, Standing, Logged, Fits, TypeOK
<1> QED
  BY <1>2, <1>3, <1>4, <1>5, <1>6, <1>7, <1>8, <1>9, <1>10, <1>11, <1>12, <1>13, <1>14,
     <1>15 DEF ExecStep

\* Events of e join the chain, and e the executions whose tool has run, only
\* where e stands right for it.
LEMMA StoryStep ==
  ASSUME IInv, NEW e \in Execs, ExecStep(e) \/ Abandon(e)
  PROVE  /\ e \in ran' \ ran => pc[e] = "cleared"
         /\ Logged("completed", e)' /\ ~Logged("completed", e) => pc[e] = "recorded"
         /\ Logged("failed", e)' /\ ~Logged("failed", e) => pc[e] = "noted"
  BY DEF ExecStep, Evaluate, ReadForEvaluation, AppendEvaluated, Reserve, CommitEvaluation,
         LearnResolution, GiveUp, Learn, ReserveApproved, ToolSucceeds, ToolFails, CommitLoad,
         CommitReset, ReadForRecord, AppendCompleted, CommitExecution, Release,
         ReadForFailure, AppendFailed, CommitFailure, ReadTail, InsertTail, Commit, Abandon,
         Logged

\* A decision changes only in the hands of an execution that is yet to be cleared.
LEMMA DecisionStep ==
  ASSUME IInv, NEW e \in Execs, ExecStep(e) \/ Abandon(e), NEW f \in Execs,
         f = e => pc[e] \notin {"idle", "reserving", "waiting"}
  PROVE  decision'[f] = decision[f]
  BY DEF IInv, TypeOK, ExecStep, Evaluate, ReadForEvaluation, AppendEvaluated, Reserve,
         CommitEvaluation, LearnResolution, GiveUp, Learn, ReserveApproved, ToolSucceeds,
         ToolFails, CommitLoad, CommitReset, ReadForRecord, AppendCompleted, CommitExecution,
         Release, ReadForFailure, AppendFailed, CommitFailure, ReadTail, InsertTail, Abandon

LEMMA ClearedStep ==
  ASSUME IInv, NEW e \in Execs, ExecStep(e) \/ Abandon(e)
  PROVE  ClearedBeforeRun' /\ OneStory'
<1>1. Touches(e)
  BY TouchesStep
<1>2. ASSUME NEW f \in Execs, f \in ran'
      PROVE  /\ Logged("evaluated", f)'
             /\ HeldBack(f)' => Logged("requested", Key[f])' /\ Logged("approved", Key[f])'
  <2>1. f \in ran \/ (f = e /\ pc[e] = "cleared")
    BY <1>1, <1>2, StoryStep DEF Touches
  <2>2. /\ Logged("evaluated", f)
        /\ HeldBack(f) => Logged("requested", Key[f]) /\ Logged("approved", Key[f])
    BY <2>1 DEF IInv, ClearedBeforeRun, Standing, Logged, Steps, Fresh, Clear
  <2>3. f = e => pc[e] \notin {"idle", "reserving", "waiting"}
    BY <2>1 DEF IInv, Standing, Steps, Owing
  <2>4. decision'[f] = decision[f]
    BY <2>3, DecisionStep
  <2> QED BY <1>1, <2>2, <2>4 DEF Touches, Logged, HeldBack
<1>3. ASSUME NEW f \in Execs
      PROVE  /\ Logged("completed", f)' => f \in ran' /\ Logged("evaluated", f)'
             /\ Logged("failed", f)' => f \notin ran' /\ Logged("evaluated", f)'
  <2>1. CASE f # e
    <3>1. /\ Logged("completed", f)' => Logged("completed", f)
          /\ Logged("failed", f)' => Logged("failed", f)
          /\ Logged("evaluated", f) => Logged("evaluated", f)'
          /\ (f \in ran') = (f \in ran)
      BY <1>1, <2>1 DEF Touches, EventsOf, Logged
    <3> QED BY <3>1 DEF IInv, OneStory, Logged
  <2>2. CASE f = e
    <3>1. Logged("evaluated", e) => Logged("evaluated", e)'
      BY <1>1 DEF Touches, Logged
    <3>2. ran \subseteq ran'
      BY <1>1 DEF ExecStep, Evaluate, ReadForEvaluation, AppendEvaluated, Reserve,
         CommitEvaluation, LearnResolution, GiveUp, Learn, ReserveApproved, ToolSucceeds,
         ToolFails, CommitLoad, CommitReset, ReadForRecord, AppendCompleted,
         CommitExecution, Release, ReadForFailure, AppendFailed, CommitFailure, ReadTail,
         InsertTail, Abandon
    <3>3. /\ Logged("completed", e)' => e \in ran /\ Logged("evaluated", e)
          /\ Logged("failed", e)' => e \notin ran /\ Logged("evaluated", e)
      BY StoryStep DEF IInv, OneStory, Standing, Logged, Steps, Fresh, Owing
    <3>4. Logged("failed", e)' => e \notin ran'
      BY <3>3, StoryStep DEF IInv, Standing, Steps, Owing, Logged
    <3> QED BY <2>2, <3>1, <3>2, <3>3, <3>4
  <2> QED BY <2>1, <2>2
<1>4. ran' \subseteq Execs
  BY StepType DEF IInv, TypeOK, Abandon
<1> QED BY <1>2, <1>3, <1>4 DEF ClearedBeforeRun, OneStory, Logged

\* What a commit charges fits.
LEMMA CapStep ==
  ASSUME IInv, NEW e \in Execs, ExecStep(e) \/ Abandon(e)
  PROVE  row'.consumed <= row'.limit
<1>1. CASE CommitExecution(e)
  <2>1. e \in Financial => Fits(e)
    BY <1>1 DEF CommitExecution, IInv, Standing, Owing
  <2> QED BY <1>1, <2>1, ConstantsAssumption DEF CommitExecution, Commit, Consume, Fits, IInv,
             TypeOK
<1>2. CASE ~CommitExecution(e)
  <2>1. row' = row
    BY <1>2 DEF ExecStep, Evaluate, ReadForEvaluation, AppendEvaluated, Reserve,
       CommitEvaluation, LearnResolution, GiveUp, Learn, ReserveApproved, ToolSucceeds,
       ToolFails, CommitLoad, CommitReset, ReadForRecord, AppendCompleted,
       Release, ReadForFailure, AppendFailed, CommitFailure, ReadTail,
       InsertTail, Rollback, Commit, Abandon
  <2> QED BY <2>1 DEF IInv
<1> QED BY <1>1, <1>2

LEMMA NextInv == IInv /\ [Next]_vars => IInv'
<1> SUFFICES ASSUME IInv, [Next]_vars PROVE IInv'
  OBVIOUS
<1>1. CASE UNCHANGED vars
  BY <1>1 DEF vars, IInv, TypeOK, Told, Standing, Logged, Fits, HeldBack, ClearedBeforeRun, OneStory
<1>2. ASSUME NEW e \in Execs, ExecStep(e) \/ Abandon(e) PROVE IInv'
  <2>1. TypeOK'
    <3>1. CASE Abandon(e)
      <4>1. pc' \in [Execs -> Steps \cup Ends]
        BY <3>1, GotoType DEF IInv, Abandon, Places, Ends
      <4> QED BY <3>1, <4>1 DEF IInv, TypeOK, Abandon, Rollback, Events
    <3> QED BY <1>2, <3>1, StepType
  <2>2. \A f \in Execs : Standing(f)'
    BY <1>2, TouchesStep, OthersStand, OwnStand
  <2>3. \A k \in Keys : Told(k)'
    BY <1>2, ToldStep
  <2> QED BY <1>2, <2>1, <2>2, <2>3, ClearedStep, CapStep DEF IInv
<1>3. ASSUME NEW k \in Keys, Decide(k) PROVE IInv'
  <2>1. PICK verdict \in {"approved", "rejected"} :
          /\ approval' = [approval EXCEPT ![k] = verdict]
          /\ log' = log \cup {<<verdict, k>>}
    BY <1>3 DEF Decide
  <2>2. UNCHANGED <<row, lock, counter, writer, decision, ran, pc>> /\ approval[k] = "pending"
    BY <1>3 DEF Decide
  <2>3. TypeOK'
    <3>1. verdict \in Resolutions /\ <<verdict, k>> \in Events
      BY DEF Resolutions, Events
    <3>2. approval' \in [Keys -> {"none", "pending"} \cup Resolutions]
      BY <2>1, <3>1 DEF IInv, TypeOK
    <3>3. log' \subseteq Events /\ current' \subseteq Execs
      BY <1>3, <2>1, <3>1 DEF Decide, IInv, TypeOK
    <3> QED BY <2>2, <3>2, <3>3 DEF IInv, TypeOK
  <2>4. \A j \in Keys : Told(j)'
    BY <2>1, <2>2 DEF IInv, Told, Logged, TypeOK
  <2>5. \A kind \in {"evaluated", "completed", "failed", "requested"} :
          \A x : Logged(kind, x)' = Logged(kind, x)
    BY <2>1 DEF Logged
  <2>6. \A x : Logged("approved", x) => Logged("approved", x)'
    BY <2>1 DEF Logged
  <2>7. \A e \in Execs : Standing(e)'
    BY <2>2, <2>5, <2>6 DEF IInv, Standing, HeldBack, Fits
  <2>8. ClearedBeforeRun' /\ OneStory'
    BY <2>2, <2>5, <2>6 DEF IInv, HeldBack, ClearedBeforeRun, OneStory, Logged
  <2> QED BY <2>2, <2>3, <2>4, <2>7, <2>8 DEF IInv
<1> QED BY <1>1, <1>2, <1>3 DEF Next, AllEnded

LEMMA Invariance == Spec => []IInv
  BY InitInv, NextInv, PTL DEF Spec

\* Every variable keeps its type.
THEOREM TypeTheorem == Spec => []TypeOK
<1>1. IInv => TypeOK
  BY DEF IInv
<1> QED BY <1>1, Invariance, PTL

\* No tool runs before its evaluation, and its approval if it was held back, are
\* on the audit chain.
THEOREM ClearedTheorem == Spec => []ClearedBeforeRun
<1>1. IInv => ClearedBeforeRun
  BY DEF IInv
<1> QED BY <1>1, Invariance, PTL

\* The chain says of an execution that it completed or that it failed, never
\* both, and only what its tool did.
THEOREM StoryTheorem == Spec => []OneStory
<1>1. IInv => OneStory
  BY DEF IInv
<1> QED BY <1>1, Invariance, PTL

\* The ledger is charged by the step that puts the completion on the chain, for
\* any executions, amounts and faults.
THEOREM LedgerTheorem == Spec => ImplementsLedger
<1> DEFINE done == {e \in Financial : Logged("completed", e)}
<1>1. Init => Ledger!Init
  BY DEF Init, Ledger!Init
<1>2. ASSUME IInv, [Next]_vars PROVE [Ledger!Next]_(Ledger!ledgerVars)
  <2> SUFFICES [\E e \in Financial : Ledger!Charge(e)]_<<row, done>>
    BY DEF Ledger!Next, Ledger!ledgerVars, Logged
  <2>1. CASE UNCHANGED vars
    BY <2>1 DEF vars, Logged
  <2>2. ASSUME NEW e \in Execs, CommitExecution(e) PROVE \/ Ledger!Charge(e) /\ e \in Financial
                                                         \/ UNCHANGED <<row, done>>
    <3>1. writer = e /\ ~Logged("completed", e) /\ (e \in Financial => Fits(e))
      BY <1>2, <2>2 DEF CommitExecution, IInv, Standing, Owing, Steps
    <3>2. log' = log \cup {<<"completed", e>>} /\ row' = Consume(row, e)
      BY <2>2, <3>1 DEF CommitExecution, Commit
    <3>3. CASE e \in Financial
      <4>1. done' = done \cup {e} /\ e \notin done
        BY <3>1, <3>2, <3>3 DEF Logged
      <4>2. row.active /\ row # Nobody
        BY <1>2, ConstantsAssumption DEF IInv, TypeOK, Row
      <4> QED BY <3>1, <3>2, <3>3, <4>1, <4>2 DEF Ledger!Charge, Consume, Fits, Logged
    <3>4. CASE e \notin Financial
      BY <3>2, <3>4 DEF Consume, Logged
    <3> QED BY <3>3, <3>4
  <2>3. ASSUME NEW e \in Execs, ExecStep(e) \/ Abandon(e), ~CommitExecution(e)
        PROVE  UNCHANGED <<row, done>>
    <3>1. row' = row
      BY <2>3 DEF ExecStep, Evaluate, ReadForEvaluation, AppendEvaluated, Reserve,
         CommitEvaluation, LearnResolution, GiveUp, Learn, ReserveApproved, ToolSucceeds,
         ToolFails, CommitLoad, CommitReset, ReadForRecord, AppendCompleted,
         Release, ReadForFailure, AppendFailed, CommitFailure, ReadTail,
         InsertTail, Rollback, Commit, Abandon
    <3>2. \A f : Logged("completed", f)' = Logged("completed", f)
      BY <2>3 DEF ExecStep, Evaluate, ReadForEvaluation, AppendEvaluated, Reserve,
         CommitEvaluation, LearnResolution, GiveUp, Learn, ReserveApproved, ToolSucceeds,
         ToolFails, CommitLoad, CommitReset, ReadForRecord, AppendCompleted,
         Release, ReadForFailure, AppendFailed, CommitFailure, ReadTail,
         InsertTail, Commit, Abandon, Logged
    <3> QED BY <3>1, <3>2
  <2>4. ASSUME NEW k \in Keys, Decide(k) PROVE UNCHANGED <<row, done>>
    BY <2>4 DEF Decide, Logged
  <2> QED BY <1>2, <2>1, <2>2, <2>3, <2>4 DEF Next, AllEnded
<1>3. IInv /\ [Next]_vars => [Ledger!Next]_(Ledger!ledgerVars)
  BY <1>2
<1> QED BY <1>1, <1>3, Invariance, PTL DEF Spec, ImplementsLedger, Ledger!Spec

-----------------------------------------------------------------------------
(***************************************************************************)
(* The approvals.  A step of e moves only the transaction of its own key   *)
(* and only its own answer; with e's answer still open, the move is one    *)
(* Approval makes.                                                         *)
(***************************************************************************)
Answers(k) == [p \in CallersOf(k) \cup Reviewers |-> IF p \in Execs THEN Answer(p) ELSE "none"]
Kept(k) == [Waiting(k)!Next]_(Waiting(k)!approvalVars)

\* The outcome of e is replaced by one that answers it or does not.
LEMMA AnswerMoved ==
  ASSUME TypeOK, NEW e \in Execs, NEW what, decision' = [decision EXCEPT ![e] = what],
         Answer(e) = "none", NEW k \in Keys
  PROVE  /\ k # Key[e] => Answers(k)' = Answers(k)
         /\ k = Key[e] => /\ Answers(k)[e] = "none"
                          /\ Answers(k)' = [Answers(k) EXCEPT ![e] = Answer(e)']
<1>1. \A f \in Execs : f # e => Answer(f)' = Answer(f)
  BY DEF TypeOK, Answer
<1>2. CASE k # Key[e]
  BY <1>1, <1>2, ConstantsAssumption DEF Answers, CallersOf
<1>3. CASE k = Key[e]
  BY <1>1, <1>3, ConstantsAssumption DEF Answers, CallersOf
<1> QED BY <1>2, <1>3

\* Steps that change neither a transaction nor an answer.
LEMMA QuietApproval ==
  ASSUME NEW k \in Keys, approval' = approval, Answers(k)' = Answers(k)
  PROVE  Kept(k)
  BY DEF Kept, Waiting!approvalVars, Answers

\* An outcome that is no answer replaced by another one.
LEMMA NoAnswer ==
  ASSUME TypeOK, NEW e \in Execs, NEW what \in {"deny", "allow", "require_approval", "unfunded"},
         decision' = [decision EXCEPT ![e] = what], Answer(e) = "none", approval' = approval,
         NEW k \in Keys
  PROVE  Kept(k)
<1>1. Answer(e)' = "none"
  BY DEF TypeOK, Answer
<1>2. \A f \in Execs : Answer(f)' = Answer(f)
  BY <1>1 DEF TypeOK, Answer
<1>3. Answers(k)' = Answers(k)
  BY <1>2 DEF Answers, CallersOf
<1> QED BY <1>3, QuietApproval

\* A waiting execution learns the resolution, or expires the transaction.
LEMMA LearnKept ==
  ASSUME IInv, NEW e \in Execs, LearnResolution(e) \/ GiveUp(e), NEW k \in Keys
  PROVE  Kept(k)
<1>1. TypeOK /\ Answer(e) = "none" /\ Key[e] \in Keys /\ e \in CallersOf(Key[e])
  BY DEF IInv, Standing, LearnResolution, GiveUp, Answer, Keys, CallersOf
<1>2. PICK what \in {"approved", "rejected", "expired", "timedout"} :
        /\ decision' = [decision EXCEPT ![e] = what]
        /\ \/ approval' = approval /\ what \in {approval[Key[e]], "timedout"}
           \/ /\ what = "timedout" /\ approval[Key[e]] = "pending"
              /\ approval' = [approval EXCEPT ![Key[e]] = "expired"]
  BY DEF LearnResolution, GiveUp, Learn
<1>3. CASE k # Key[e]
  <2>1. approval'[k] = approval[k]
    BY <1>1, <1>2, <1>3 DEF TypeOK
  <2>2. Answers(k)' = Answers(k)
    BY <1>1, <1>2, <1>3, AnswerMoved
  <2> QED BY <2>1, <2>2 DEF Kept, Waiting!approvalVars, Answers
<1>4. CASE k = Key[e]
  <2>1. /\ Answers(k)[e] = "none"
        /\ Answers(k)' = [Answers(k) EXCEPT ![e] = Answer(e)']
    BY <1>1, <1>2, <1>4, AnswerMoved
  <2>2. Answer(e)' = IF what = "approved" THEN "allowed"
                     ELSE IF what = "rejected" THEN "refused" ELSE "failed"
    BY <1>1, <1>2 DEF TypeOK, Answer
  <2>3. CASE approval' = approval
    <3>1. \/ Waiting(k)!Proceed(e) \/ Waiting(k)!Refuse(e) \/ Waiting(k)!Fail(e)
      BY <1>2, <1>4, <2>1, <2>2, <2>3
         DEF Waiting!Proceed, Waiting!Refuse, Waiting!Fail, Waiting!Tell, Answers
    <3> QED BY <1>1, <1>4, <3>1 DEF Kept, Waiting!Next
  <2>4. CASE approval' # approval
    <3>1. Waiting(k)!Expire(e)
      BY <1>1, <1>2, <1>4, <2>1, <2>2, <2>4 DEF Waiting!Expire, Answers, TypeOK
    <3> QED BY <1>1, <1>4, <3>1 DEF Kept, Waiting!Next
  <2> QED BY <2>3, <2>4
<1> QED BY <1>3, <1>4

LEMMA EvaluationKept ==
  ASSUME IInv, NEW e \in Execs, CommitEvaluation(e), NEW k \in Keys
  PROVE  Kept(k)
<1>1. Answers(k)' = Answers(k)
  BY DEF CommitEvaluation, Answers, Answer, CallersOf
<1>2. \/ approval' = approval
      \/ approval[Key[e]] = "none" /\ approval' = [approval EXCEPT ![Key[e]] = "pending"]
  BY DEF CommitEvaluation
<1>3. CASE approval'[k] = approval[k]
  BY <1>1, <1>3 DEF Kept, Waiting!approvalVars, Answers
<1>4. CASE approval'[k] # approval[k]
  <2>1. approval[k] = "none" /\ approval'[k] = "pending"
    BY <1>2, <1>4 DEF IInv, TypeOK
  <2>2. Waiting(k)!Request
    BY <1>1, <2>1 DEF Waiting!Request, Answers
  <2> QED BY <2>2 DEF Kept, Waiting!Next
<1> QED BY <1>3, <1>4

LEMMA DecideKept ==
  ASSUME IInv, NEW j \in Keys, Decide(j), NEW k \in Keys
  PROVE  Kept(k)
<1>1. Answers(k)' = Answers(k)
  BY DEF Decide, Answers, Answer, CallersOf
<1>2. PICK r \in Reviewers :
        /\ approval[j] = "pending"
        /\ approval' = [approval EXCEPT ![j] =
                          IF r = "approving" THEN "approved" ELSE "rejected"]
  BY DEF Decide, Reviewers
<1>3. CASE k # j
  BY <1>1, <1>2, <1>3 DEF Kept, Waiting!approvalVars, Answers, IInv, TypeOK
<1>4. CASE k = j
  <2>1. approval'[k] = IF r = "approving" THEN "approved" ELSE "rejected"
    BY <1>2, <1>4 DEF IInv, TypeOK
  <2>2. Answers(k)[r] = "none"
    BY ConstantsAssumption DEF Answers
  <2>3. Waiting(k)!Decide(r)
    BY <1>1, <1>2, <1>4, <2>1, <2>2 DEF Waiting!Decide, Answers
  <2> QED BY <2>3 DEF Kept, Waiting!Next
<1> QED BY <1>3, <1>4

\* Each key's transaction is an Approval towards all executions that share it.
THEOREM ApprovalsTheorem == Spec => ApprovalsKept
<1>1. ASSUME IInv, [Next]_vars, NEW k \in Keys PROVE Kept(k)
  <2>1. CASE UNCHANGED vars
    BY <2>1, QuietApproval DEF vars, Answers, Answer, CallersOf
  <2>2. ASSUME NEW e \in Execs, Evaluate(e) \/ Reserve(e) PROVE Kept(k)
    <3>1. TypeOK /\ Answer(e) = "none" /\ approval' = approval
      BY <1>1, <2>2 DEF IInv, Standing, Evaluate, Reserve, Answer, Fresh
    <3>2. PICK what \in {"deny", "allow", "require_approval", "unfunded"} :
            decision' = [decision EXCEPT ![e] = what]
      BY <2>2 DEF Evaluate, Reserve, Outcomes
    <3> QED BY <3>1, <3>2, NoAnswer
  <2>3. ASSUME NEW e \in Execs, ExecStep(e) \/ Abandon(e),
               ~(\/ Evaluate(e) \/ Reserve(e) \/ CommitEvaluation(e)
                 \/ LearnResolution(e) \/ GiveUp(e))
        PROVE  Kept(k)
    <3>1. approval' = approval /\ decision' = decision
      BY <2>3
         DEF ExecStep, ReadForEvaluation, AppendEvaluated, ReserveApproved, ToolSucceeds,
             ToolFails, CommitLoad, CommitReset, ReadForRecord, AppendCompleted,
             CommitExecution, Release, ReadForFailure, AppendFailed, CommitFailure,
             ReadTail, InsertTail, Abandon
    <3>2. Answers(k)' = Answers(k)
      BY <3>1 DEF Answers, Answer, CallersOf
    <3> QED BY <3>1, <3>2, QuietApproval
  <2> QED BY <1>1, <2>1, <2>2, <2>3, LearnKept, EvaluationKept, DecideKept DEF Next, AllEnded
<1>2. IInv /\ [Next]_vars =>
        [\A k \in Keys : [Waiting(k)!Next]_(Waiting(k)!approvalVars)]_vars
  BY <1>1 DEF Kept
<1> QED BY <1>2, Invariance, PTL DEF Spec, ApprovalsKept
=============================================================================
