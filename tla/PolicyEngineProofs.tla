-------------------------- MODULE PolicyEngineProofs --------------------------
(***************************************************************************)
(* Theorems about PolicyEngine: for any agents, policies, amounts and      *)
(* budgets a decision is as strict as its strictest rule, closed on what   *)
(* is malformed, and allows nothing beyond the budget.                     *)
(***************************************************************************)
EXTENDS PolicyEngine, WellFoundedInduction, TLAPS

\* A decision that is neither a refusal nor an exception combines the results of
\* all policies with the budget's.
Refused ==
  /\ decision = Result("deny", 100)
  /\ AgentMayAct => next = Len(policies) /\ amount # Absent /\ ~has_currency
Combined ==
  /\ AgentMayAct /\ next = Len(policies)
  /\ amount # Absent => has_currency
  /\ decision = Result(Combine(results \cup BudgetResults), Risk(results \cup BudgetResults))

\* The policies evaluated so far raised nothing, and the results are theirs.
Collected ==
  /\ \A i \in 1..next : PolicyResults(policies[i]) \subseteq results
  /\ \A i \in 1..next : ~PolicyRaises(policies[i])
  /\ \A r \in results : \E i \in 1..next : r \in PolicyResults(policies[i])

Gathered ==
  /\ agent \in Agents \cup {Absent}
  /\ policies \in Policies
  /\ amount \in Amounts \cup {Absent} /\ remaining \in Budgets \cup {Absent}
  /\ next \in 0..Len(policies)
  /\ Collected
  /\ \A r \in results : r.outcome \in Effects /\ r.risk_score \in 0..100
  /\ Decided => Refused \/ decision = Raised \/ Combined

LEMMA InitGathered == Init => Gathered
BY ConstantsAssumption DEF Init, Gathered, Collected, Decided

LEMMA Between == \A n, k \in Nat : n \in 0..k /\ n < k => n + 1 \in 0..k
OBVIOUS

LEMMA SameInput ==
  ASSUME UNCHANGED input
  PROVE  /\ \A i : PolicyResults(policies[i])' = PolicyResults(policies[i])
         /\ \A i : PolicyRaises(policies[i])' = PolicyRaises(policies[i])
         /\ BudgetResults' = BudgetResults
         /\ AgentMayAct' = AgentMayAct
<1>1. \A i : PolicyResults(policies[i])' = PolicyResults(policies[i])
  BY DEF input, PolicyResults, RuleResults, Matches, ScopeMatches, AtLeast, MoreThan, Asked,
         EffectOf, RiskOf, Result
<1>2. \A i : PolicyRaises(policies[i])' = PolicyRaises(policies[i])
  BY DEF input, PolicyRaises, RuleRaises, MatchRaises, Matches, ScopeMatches, AtLeast,
         MoreThan, Asked, Invalid
<1>3. BudgetResults' = BudgetResults /\ AgentMayAct' = AgentMayAct
  BY DEF input, Result, BudgetResults, AgentMayAct
<1> QED BY <1>1, <1>2, <1>3

\* A step that neither evaluates a policy nor decides leaves what is collected.
LEMMA CollectedKept ==
  ASSUME Collected, UNCHANGED <<next, results>>, UNCHANGED input
  PROVE  Collected'
BY SameInput DEF Collected, input

LEMMA Fields ==
  \A outcome, risk : /\ Result(outcome, risk).outcome = outcome
                     /\ Result(outcome, risk).risk_score = risk
BY DEF Result

\* One round of the loop yields well-formed results only.
LEMMA ResultsInRange ==
  ASSUME NEW policy, NEW r \in PolicyResults(policy)
  PROVE  r.outcome \in Effects /\ r.risk_score \in 0..100
BY Fields DEF PolicyResults, RuleResults, Effects

LEMMA StepGathered == Gathered /\ [Next]_vars => Gathered'
<1> SUFFICES ASSUME Gathered, [Next]_vars PROVE Gathered'
  OBVIOUS
<1> USE ConstantsAssumption
<1>1. CASE UNCHANGED vars
  <2>1. UNCHANGED <<next, results, decision>> /\ UNCHANGED input
    BY <1>1 DEF vars, input
  <2>2. Combined => Combined'
    BY <2>1, SameInput DEF input, Combined, Combine, SomeResult, Risk
  <2>3. Refused => Refused'
    BY <2>1, SameInput DEF input, Refused, Result
  <2> QED BY <2>1, <2>2, <2>3, CollectedKept DEF input, Gathered, Decided, Raised
<1>2. CASE RefuseAgent
  <2>1. UNCHANGED <<next, results>> /\ UNCHANGED input /\ decision' = Result("deny", 100)
    BY <1>2 DEF RefuseAgent, Return
  <2>2. Refused'
    BY <1>2, <2>1, SameInput DEF RefuseAgent, Refused
  <2> QED BY <2>1, <2>2, CollectedKept DEF input, Gathered
<1>3. CASE EvaluatePolicy
  <2> DEFINE policy == policies[next + 1]
  <2>1. UNCHANGED input /\ ~Decided /\ next < Len(policies)
    BY <1>3 DEF EvaluatePolicy, Return
  <2>2. CASE PolicyRaises(policy)
    <3>1. UNCHANGED <<next, results>> /\ decision' = Raised
      BY <1>3, <2>2 DEF EvaluatePolicy, Return
    <3> QED BY <2>1, <3>1, CollectedKept DEF input, Gathered, Raised
  <2>3. CASE ~PolicyRaises(policy)
    <3>1. results' = results \cup PolicyResults(policy) /\ next' = next + 1 /\ decision' = decision
      BY <1>3, <2>3 DEF EvaluatePolicy
    <3>2. \A i \in 1..next' : i \in 1..next \/ i = next + 1
      BY <3>1, ConstantsAssumption DEF Gathered
    <3>3. next + 1 \in 1..next' /\ \A i \in 1..next : i \in 1..next'
      BY <3>1, ConstantsAssumption DEF Gathered
    <3>4. Collected'
      <4>1. ASSUME NEW i \in 1..next'
            PROVE  PolicyResults(policies[i])' \subseteq results' /\ ~PolicyRaises(policies[i])'
        <5>1. PolicyResults(policies[i]) \subseteq results' /\ ~PolicyRaises(policies[i])
          BY <2>3, <3>1, <3>2 DEF Gathered, Collected
        <5> QED BY <2>1, <5>1, SameInput
      <4>2. ASSUME NEW r \in results'
            PROVE  \E i \in 1..next' : r \in PolicyResults(policies[i])'
        <5>1. \E i \in 1..next' : r \in PolicyResults(policies[i])
          BY <3>1, <3>3 DEF Gathered, Collected
        <5> QED BY <2>1, <5>1, SameInput
      <4> QED BY <4>1, <4>2 DEF Collected
    <3>5. next' \in 0..Len(policies)
      <4>1. Len(policies) \in Nat /\ next \in Nat /\ next \in 0..Len(policies)
        BY ConstantsAssumption DEF Gathered
      <4>2. next + 1 \in 0..Len(policies)
        BY <2>1, <4>1, Between
      <4> QED BY <3>1, <4>2
    <3>6. \A r \in results' : r.outcome \in Effects /\ r.risk_score \in 0..100
      BY <3>1, ResultsInRange DEF Gathered
    <3> QED BY <2>1, <3>1, <3>4, <3>5, <3>6 DEF input, Gathered, Decided
  <2> QED BY <2>2, <2>3
<1>4. CASE Decide
  <2>1. UNCHANGED <<next, results>> /\ UNCHANGED input
    BY <1>4 DEF Decide, Return
  <2>2. CASE amount # Absent /\ ~has_currency
    <3>1. decision' = Result("deny", 100)
      BY <1>4, <2>2 DEF Decide, Return
    <3>2. Refused'
      BY <1>4, <2>1, <2>2, <3>1, SameInput DEF Decide, Refused, input
    <3> QED BY <2>1, <3>2, CollectedKept DEF input, Gathered
  <2>3. CASE ~(amount # Absent /\ ~has_currency)
    <3>1. decision' = Result(Combine(results \cup BudgetResults), Risk(results \cup BudgetResults))
      BY <1>4, <2>3 DEF Decide, Return
    <3>2. Combined'
      BY <1>4, <2>1, <2>3, <3>1, SameInput DEF input, Decide, Combined, Combine, SomeResult, Risk
    <3> QED BY <2>1, <3>2, CollectedKept DEF input, Gathered
  <2> QED BY <2>2, <2>3
<1>5. CASE Done
  BY <1>1, <1>5 DEF Done
<1> QED BY <1>1, <1>2, <1>3, <1>4, <1>5 DEF Next

LEMMA Gathering == Spec => []Gathered
  BY InitGathered, StepGathered, PTL DEF Spec

\* When the loop has ended, the results of every rule are among those collected,
\* and none has raised.
LEMMA EveryRuleCounts ==
  ASSUME Gathered, next = Len(policies), NEW rule \in AllRules
  PROVE  RuleResults(rule) \subseteq results /\ ~RuleRaises(rule)
<1>1. PICK i \in DOMAIN policies :
        policies[i].is_dict /\ policies[i].rules_is_list /\ rule \in ToSet(policies[i].rules)
  BY DEF AllRules
<1>2. PICK j \in DOMAIN policies[i].rules : rule = policies[i].rules[j]
  BY <1>1 DEF ToSet
<1>3. RuleResults(rule) \subseteq PolicyResults(policies[i])
  BY <1>1, <1>2 DEF PolicyResults
<1>4. RuleRaises(rule) => PolicyRaises(policies[i])
  BY <1>1, <1>2 DEF PolicyRaises
<1>5. i \in 1..next
  BY <1>1, ConstantsAssumption DEF Gathered
<1> QED BY <1>3, <1>4, <1>5 DEF Gathered, Collected

\* Conversely every result is that of a malformed policy or of some rule.
LEMMA EveryResultIsFrom ==
  ASSUME Gathered, NEW r \in results
  PROVE  \/ /\ r = Result("deny", 100)
            /\ \E i \in DOMAIN policies : ~(policies[i].is_dict /\ policies[i].rules_is_list)
         \/ \E rule \in AllRules : r \in RuleResults(rule)
<1>1. PICK i \in 1..next : r \in PolicyResults(policies[i])
  BY DEF Gathered, Collected
<1>2. i \in DOMAIN policies
  <2>1. Len(policies) \in Nat /\ DOMAIN policies = 1..Len(policies) /\ next \in 0..Len(policies)
    BY ConstantsAssumption DEF Gathered
  <2> QED BY <2>1
<1>3. CASE ~(policies[i].is_dict /\ policies[i].rules_is_list)
  BY <1>1, <1>2, <1>3 DEF PolicyResults
<1>4. CASE policies[i].is_dict /\ policies[i].rules_is_list
  <2>1. PICK j \in DOMAIN policies[i].rules : r \in RuleResults(policies[i].rules[j])
    BY <1>1, <1>4 DEF PolicyResults
  <2>2. policies[i].rules[j] \in AllRules
    BY <1>2, <1>4 DEF AllRules, ToSet
  <2> QED BY <2>1, <2>2
<1> QED BY <1>3, <1>4

\* _matches finds what a condition means, unless it raises.
LEMMA MatchesScope ==
  ASSUME Gathered, next = Len(policies), NEW rule \in AllRules, rule.is_dict
  PROVE  Matches(rule.when) <=> InScope(rule.when)
<1> DEFINE when == rule.when
<1>1. Asked \in Nat
  BY ConstantsAssumption DEF Gathered, Asked
<1>2. ~MatchRaises(when)
  BY EveryRuleCounts DEF RuleRaises
<1>3. when.is_dict => {when.amount_gte, when.amount_gt} \subseteq Int \cup {Absent}
  <2>1. PICK i \in DOMAIN policies :
          policies[i].is_dict /\ policies[i].rules_is_list /\ rule \in ToSet(policies[i].rules)
    BY DEF AllRules
  <2>2. PICK j \in DOMAIN policies[i].rules : rule = policies[i].rules[j]
    BY <2>1 DEF ToSet
  <2>3. policies \in Policies
    BY DEF Gathered
  <2> QED BY <2>1, <2>2, <2>3, ConstantsAssumption
<1> HIDE DEF when
<1>4. ASSUME Matches(when) PROVE InScope(when)
  <2>1. when.is_dict /\ ~when.unknown_keys /\ {when.lists, when.payload} \subseteq {Absent, "match"}
    BY <1>4 DEF Matches, ScopeMatches
  <2>2. ~Invalid(when.amount_gte) /\ ~Invalid(when.amount_gt)
    BY <1>2, <1>4 DEF Matches, MatchRaises
  <2>3. when.amount_gte \in {Absent} \cup 0..Asked
    BY <1>1, <1>3, <1>4, <2>1, <2>2 DEF Matches, AtLeast, Invalid
  <2>4. when.amount_gt \in {Absent} \cup 0..(Asked - 1)
    BY <1>1, <1>3, <1>4, <2>1, <2>2 DEF Matches, MoreThan, Invalid
  <2> QED BY <2>1, <2>3, <2>4 DEF InScope
<1>5. ASSUME InScope(when) PROVE Matches(when)
  <2>1. AtLeast(when.amount_gte) /\ MoreThan(when.amount_gt)
    BY <1>1, <1>5 DEF InScope, AtLeast, MoreThan
  <2> QED BY <1>5, <2>1 DEF InScope, Matches, ScopeMatches
<1> QED BY <1>4, <1>5 DEF when

\* Whatever the order and the number of the policies, no rule that allows weakens
\* one that denies or asks for approval (engine.py:159-164).
THEOREM StrictestTheorem == Spec => []StrictestRuleObeyed
<1>1. Gathered => StrictestRuleObeyed
  <2> SUFFICES ASSUME Gathered, Combined
               PROVE  /\ Demands("deny") => decision.outcome = "deny"
                      /\ Demands("require_approval") => decision.outcome # "allow"
    BY Fields DEF Gathered, StrictestRuleObeyed, Raised, Refused
  <2>1. ASSUME NEW rule \in AllRules, rule.is_dict, InScope(rule.when),
               EffectOf(rule) \in {"deny", "require_approval"}
        PROVE  \/ SomeResult("deny", results)
               \/ SomeResult(EffectOf(rule), results)
    <3>1. Matches(rule.when)
      BY <2>1, MatchesScope DEF Combined
    <3>2. RuleResults(rule) \in {{Result("deny", 100)}, {Result(EffectOf(rule), RiskOf(rule))}}
      BY <2>1, <3>1 DEF RuleResults
    <3>3. RuleResults(rule) \subseteq results
      BY EveryRuleCounts DEF Combined
    <3> QED BY <2>1, <3>2, <3>3, Fields DEF SomeResult
  <2>2. ASSUME Demands("deny") PROVE SomeResult("deny", results)
    BY <2>1, <2>2 DEF Demands, EffectOf
  <2>3. ASSUME Demands("require_approval")
        PROVE  SomeResult("deny", results) \/ SomeResult("require_approval", results)
    BY <2>1, <2>3 DEF Demands, EffectOf
  <2> QED BY <2>2, <2>3, Fields DEF Combined, Combine, SomeResult
<1> QED BY <1>1, Gathering, PTL

\* An intent that is allowed or put before a reviewer has an active agent with the
\* action, definitions, rule lists and rules of the right type, a valid effect
\* and score in every rule in force and, for an amount, currency and budget
\* (engine.py:136-157, 179-200).  What a malformed condition does is not in it.
THEOREM FailClosedTheorem == Spec => []FailClosed
<1>1. Gathered => FailClosed
  <2> SUFFICES ASSUME Gathered, Combined, ~SomeResult("deny", results \cup BudgetResults)
               PROVE  FailClosed
    BY Fields DEF Gathered, FailClosed, Combined, Combine, Raised, Refused
  <2>1. ASSUME NEW i \in DOMAIN policies
        PROVE  policies[i].is_dict /\ policies[i].rules_is_list
    <3>1. Result("deny", 100) \notin PolicyResults(policies[i])
      <4>1. i \in 1..next
        BY ConstantsAssumption DEF Gathered, Combined
      <4> QED BY <4>1, Fields DEF Gathered, Collected, SomeResult
    <3> QED BY <3>1 DEF PolicyResults
  <2>2. ASSUME NEW rule \in AllRules
        PROVE  /\ rule.is_dict
               /\ InScope(rule.when) =>
                    /\ rule.effect \in Effects
                    /\ rule.risk_score = Absent \/ rule.risk_score \in 0..100
    <3>1. \A r \in RuleResults(rule) : r.outcome # "deny"
      BY EveryRuleCounts DEF SomeResult, Combined
    <3>2. rule.is_dict
      BY <3>1 DEF RuleResults, Result
    <3>3. ASSUME InScope(rule.when)
          PROVE  EffectOf(rule) \in Effects /\ RiskOf(rule) \in 0..100 /\ EffectOf(rule) # "deny"
      <4>1. Matches(rule.when)
        BY <3>2, <3>3, MatchesScope DEF Combined
      <4> QED BY <3>1, <3>2, <4>1 DEF RuleResults, Result
    <3> QED BY <3>2, <3>3 DEF EffectOf, RiskOf
  <2>3. amount # Absent => has_currency /\ remaining # Absent
    BY Fields DEF Combined, BudgetResults, SomeResult
  <2> QED BY <2>1, <2>2, <2>3 DEF FailClosed, Combined, AgentMayAct
<1> QED BY <1>1, Gathering, PTL

\* No policy allows an amount beyond the remaining budget, and none up to it is
\* put before a reviewer unless a rule asks for that (engine.py:149-164).
THEOREM BudgetTheorem == Spec => []BudgetBinds
<1>1. Gathered => BudgetBinds
  <2> SUFFICES ASSUME Gathered, Combined
               PROVE  /\ (decision.outcome = "allow" /\ amount # Absent) =>
                           remaining # Absent /\ ~OverBudget
                      /\ decision.outcome = "require_approval" =>
                           Demands("require_approval") \/ OverBudget
    BY Fields DEF Gathered, BudgetBinds, Raised, Refused
  <2>1. ASSUME decision.outcome = "allow", amount # Absent
        PROVE  remaining # Absent /\ ~OverBudget
    <3>1. \A r \in BudgetResults : r.outcome \notin {"deny", "require_approval"}
      BY <2>1, Fields DEF Combined, Combine, SomeResult
    <3> QED BY <2>1, <3>1, Fields DEF BudgetResults, OverBudget
  <2>2. ASSUME decision.outcome = "require_approval"
        PROVE  Demands("require_approval") \/ OverBudget
    <3>1. PICK r \in results \cup BudgetResults : r.outcome = "require_approval"
      BY <2>2, Fields DEF Combined, Combine, SomeResult
    <3>2. CASE r \in BudgetResults
      BY <3>1, <3>2, Fields DEF BudgetResults, OverBudget
    <3>3. CASE r \in results
      <4>1. PICK rule \in AllRules : r \in RuleResults(rule)
        BY <3>1, <3>3, EveryResultIsFrom, Fields
      <4>2. rule.is_dict /\ Matches(rule.when) /\ EffectOf(rule) = "require_approval"
        BY <3>1, <4>1, Fields DEF RuleResults
      <4>3. InScope(rule.when)
        BY <4>2, MatchesScope DEF Combined
      <4> QED BY <4>2, <4>3 DEF Demands, EffectOf
    <3> QED BY <3>1, <3>2, <3>3
  <2> QED BY <2>1, <2>2
<1> QED BY <1>1, Gathering, PTL

-----------------------------------------------------------------------------
\* max() of scores is one of them, and none is higher.
LEMMA MaxScore ==
  ASSUME NEW S \in SUBSET (0..100), S # {}
  PROVE  Max(S) \in S /\ \A x \in S : Max(S) >= x
<1> DEFINE gaps == {100 - x : x \in S}
           less == OpToRel(<, Nat)
<1>1. PICK s \in S : TRUE
  OBVIOUS
<1>2. gaps \subseteq Nat /\ 100 - s \in gaps
  BY <1>1
<1>3. IsWellFoundedOn(less, Nat)
  BY NatLessThanWellFounded
<1> HIDE DEF less
<1>4. \E g \in gaps : \A h \in gaps : ~ (<<h, g>> \in less)
  BY <1>2, <1>3, WFMin
<1>5. PICK g \in gaps : \A h \in gaps : ~(h < g)
  BY <1>2, <1>4 DEF less, OpToRel
<1>6. PICK m \in S : g = 100 - m
  BY <1>5
<1>7. \A x \in S : m >= x
  <2> TAKE x \in S
  <2>1. ~(100 - x < 100 - m)
    BY <1>5, <1>6
  <2>2. m \in 0..100 /\ x \in 0..100
    OBVIOUS
  <2> QED BY <2>1, <2>2
<1> QED BY <1>7 DEF Max

\* The risk of a decision is the highest of the agent's tier and the results.
Scores == {agent.base_risk} \cup {r.risk_score : r \in results \cup BudgetResults}

LEMMA RiskIsMax ==
  ASSUME Gathered, AgentMayAct
  PROVE  /\ Scores \subseteq 0..100
         /\ Risk(results \cup BudgetResults) \in Scores
         /\ \A x \in Scores : Risk(results \cup BudgetResults) >= x
<1> DEFINE found == results \cup BudgetResults
<1>1. agent.base_risk \in 0..100
  BY ConstantsAssumption DEF Gathered, AgentMayAct
<1>2. \A r \in found : r.risk_score \in 0..100
  BY Fields DEF Gathered, BudgetResults
<1>3. Scores \in SUBSET (0..100) /\ Scores # {}
  BY <1>1, <1>2 DEF Scores
<1>4. Max(Scores) \in Scores /\ \A x \in Scores : Max(Scores) >= x
  BY <1>3, MaxScore
<1>5. Min({100, Max(Scores)}) = Max(Scores)
  <2> DEFINE m == Max(Scores)
  <2>1. m \in 0..100
    BY <1>3, <1>4
  <2> HIDE DEF m
  <2>2. m \in {100, m} /\ \A y \in {100, m} : m =< y
    BY <2>1
  <2>3. \A x \in {100, m} : (\A y \in {100, m} : x =< y) => x = m
    BY <2>1
  <2>4. Min({100, m}) = m
    BY <2>2, <2>3 DEF Min
  <2> QED BY <2>4 DEF m
<1>6. Risk(found) = Max(Scores)
  BY <1>5 DEF Risk, Scores
<1> QED BY <1>3, <1>4, <1>6

\* Types: every result and every decision has an outcome and a score in range.
THEOREM TypeTheorem == Spec => []TypeOK
<1>1. Gathered => TypeOK
  <2> SUFFICES ASSUME Gathered, Decided
               PROVE  /\ decision.outcome \in Effects \cup {"raised"}
                      /\ decision.risk_score \in 0..100
    BY DEF Gathered, TypeOK
  <2>1. CASE Refused \/ decision = Raised
    BY <2>1, Fields DEF Refused, Raised, Effects
  <2>2. CASE Combined
    BY <2>2, Fields, RiskIsMax DEF Combined, Combine, Effects
  <2> QED BY <2>1, <2>2 DEF Gathered
<1> QED BY <1>1, Gathering, PTL

\* A rule leaves a result if and only if it is in force or of the wrong type, and
\* with the score that is due for it.
LEMMA RuleScore ==
  ASSUME Gathered, next = Len(policies), NEW rule \in AllRules
  PROVE  /\ (rule.is_dict => InScope(rule.when)) <=> RuleResults(rule) # {}
         /\ \A r \in RuleResults(rule) : r.risk_score = ScoreDue(rule)
<1>1. rule.is_dict => (Matches(rule.when) <=> InScope(rule.when))
  BY MatchesScope
<1>2. RuleResults(rule) # {} <=> (rule.is_dict => Matches(rule.when))
  BY DEF RuleResults
<1>3. EffectOf(rule) \notin Effects <=> rule.effect \notin Effects \cup {Absent}
  BY DEF EffectOf, Effects
<1>4. ASSUME NEW r \in RuleResults(rule) PROVE r.risk_score = ScoreDue(rule)
  <2> DEFINE score == RiskOf(rule)
  <2>1. CASE ~rule.is_dict \/ rule.effect \notin Effects \cup {Absent}
    <3>1. r = Result("deny", 100)
      BY <1>3, <2>1 DEF RuleResults
    <3> QED BY <2>1, <3>1, Fields DEF ScoreDue
  <2>2. CASE rule.is_dict /\ rule.effect \in Effects \cup {Absent}
    <3>1. ScoreDue(rule) = IF score \in 0..100 THEN score ELSE 100
      BY <2>2 DEF ScoreDue, RiskOf
    <3>2. \/ score \in 0..100 /\ r = Result(EffectOf(rule), score)
          \/ score \notin 0..100 /\ r = Result("deny", 100)
      BY <1>3, <2>2 DEF RuleResults
    <3>3. r.risk_score = IF score \in 0..100 THEN score ELSE 100
      <4> HIDE DEF score
      <4> QED BY <3>2, Fields
    <3> QED BY <3>1, <3>3
  <2> QED BY <2>1, <2>2
<1> QED BY <1>1, <1>2, <1>4

LEMMA DueInRange ==
  ASSUME Gathered, AgentMayAct, NEW due \in RisksDue
  PROVE  due \in 0..100
<1>1. agent.base_risk \in 0..100
  BY ConstantsAssumption DEF Gathered, AgentMayAct
<1>2. \A rule : ScoreDue(rule) \in 0..100
  BY DEF ScoreDue
<1> QED BY <1>1, <1>2 DEF RisksDue

\* What is combined into a decision is what is due.
LEMMA ScoresAreDue ==
  ASSUME Gathered, Combined
  PROVE  Scores = RisksDue
<1>1. ASSUME NEW x \in Scores PROVE x \in RisksDue
  <2>1. CASE x = agent.base_risk
    BY <2>1 DEF RisksDue
  <2>2. CASE \E r \in results : x = r.risk_score
    <3>1. PICK r \in results : x = r.risk_score
      BY <2>2
    <3>2. CASE \E i \in DOMAIN policies : ~(policies[i].is_dict /\ policies[i].rules_is_list)
               /\ r = Result("deny", 100)
      BY <3>1, <3>2, Fields DEF RisksDue
    <3>3. CASE \E rule \in AllRules : r \in RuleResults(rule)
      <4>1. PICK rule \in AllRules : r \in RuleResults(rule)
        BY <3>3
      <4>2. (rule.is_dict => InScope(rule.when)) /\ x = ScoreDue(rule)
        BY <3>1, <4>1, RuleScore DEF Combined
      <4> QED BY <4>2 DEF RisksDue
    <3> QED BY <3>2, <3>3, EveryResultIsFrom
  <2>3. CASE \E r \in BudgetResults : x = r.risk_score
    BY <2>3, Fields DEF BudgetResults, RisksDue, OverBudget
  <2> QED BY <2>1, <2>2, <2>3 DEF Scores
<1>2. ASSUME NEW x \in RisksDue PROVE x \in Scores
  <2>1. CASE x = agent.base_risk
    BY <2>1 DEF Scores
  <2>2. CASE \E rule \in AllRules : (rule.is_dict => InScope(rule.when)) /\ x = ScoreDue(rule)
    <3>1. PICK rule \in AllRules : (rule.is_dict => InScope(rule.when)) /\ x = ScoreDue(rule)
      BY <2>2
    <3>2. PICK r \in RuleResults(rule) : r.risk_score = x
      BY <3>1, RuleScore DEF Combined
    <3>3. r \in results
      BY <3>2, EveryRuleCounts DEF Combined
    <3> QED BY <3>2, <3>3 DEF Scores
  <2>3. CASE x = 100 /\ \E i \in DOMAIN policies :
                          ~(policies[i].is_dict /\ policies[i].rules_is_list)
    <3>1. PICK i \in DOMAIN policies : ~(policies[i].is_dict /\ policies[i].rules_is_list)
      BY <2>3
    <3>2. i \in 1..next
      BY ConstantsAssumption DEF Gathered, Combined
    <3>3. Result("deny", 100) \in results
      BY <3>1, <3>2 DEF Gathered, Collected, PolicyResults
    <3> QED BY <2>3, <3>3, Fields DEF Scores
  <2>4. CASE x = 100 /\ amount # Absent /\ (~has_currency \/ remaining = Absent)
    <3>1. Result("deny", 100) \in BudgetResults
      BY <2>4 DEF BudgetResults, Combined
    <3> QED BY <2>4, <3>1, Fields DEF Scores
  <2>5. CASE x = 90 /\ OverBudget
    <3>1. Result("require_approval", 90) \in BudgetResults
      BY <2>5 DEF BudgetResults, OverBudget
    <3> QED BY <2>5, <3>1, Fields DEF Scores
  <2> QED BY <2>1, <2>2, <2>3, <2>4, <2>5 DEF RisksDue
<1> QED BY <1>1, <1>2

\* The risk of a decision about an agent that may act is the highest there is a
\* reason for: its tier, the rules in force, whatever is malformed or missing at
\* 100, and the budget's 90 (engine.py:149-166, 179-203).
THEOREM RiskTheorem == Spec => []RiskIsHighestDue
<1>1. Gathered => RiskIsHighestDue
  <2> SUFFICES ASSUME Gathered, Decided, decision.outcome # "raised", AgentMayAct
               PROVE  /\ decision.risk_score \in RisksDue
                      /\ \A due \in RisksDue : decision.risk_score >= due
    BY DEF RiskIsHighestDue
  <2>1. CASE Refused
    <3>1. decision.risk_score = 100 /\ 100 \in RisksDue
      BY <2>1, Fields DEF Refused, RisksDue
    <3>2. \A due \in RisksDue : 100 >= due
      BY DueInRange
    <3> QED BY <3>1, <3>2
  <2>2. CASE Combined
    <3>1. decision.risk_score = Risk(results \cup BudgetResults)
      BY <2>2, Fields DEF Combined
    <3> QED BY <2>2, <3>1, RiskIsMax, ScoresAreDue
  <2> QED BY <2>1, <2>2, Fields DEF Gathered, Raised
<1> QED BY <1>1, Gathering, PTL
=============================================================================
