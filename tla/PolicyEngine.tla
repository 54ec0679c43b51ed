---------------------------- MODULE PolicyEngine ----------------------------
(***************************************************************************)
(* DeterministicPolicyEngine.evaluate: one evaluation of one intent, from  *)
(* the agent's row to the decision, over policies of any shape the table   *)
(* may hold (create_policy accepts any JSON object as a definition).       *)
(*                                                                         *)
(* Strings and payloads are abstracted to what the code tells apart: a     *)
(* condition on a list or on the payload matches the intent, misses it or  *)
(* is malformed; amounts are numbers, a negative one standing for every    *)
(* value _decimal_condition rejects; Absent is a missing key.  A null      *)
(* under a key is malformed, misspelt or rejected like any other value of  *)
(* the wrong type.                                                         *)
(*                                                                         *)
(* A definition that stands directly before another with the same          *)
(* parameters and is used nowhere is a mutation of the latter: README.md,  *)
(* "Mutations".                                                            *)
(***************************************************************************)
EXTENDS Integers, FiniteSetsExt, SequencesExt

CONSTANTS
  Agents,       \* agent rows: [active, allowed, base_risk]
  Policies,     \* sequences of enabled policies, in the order of the SELECT
  Amounts,      \* values of requested_amount
  Budgets,      \* values of TokenBucketGovernor.remaining
  Absent        \* no agent row, no such key, no amount, no budget

\* The tiers' risks are in 0..100 (engine.py:136-166); the SELECT yields a list.
ASSUME ConstantsAssumption ==
  /\ \A a \in Agents : a.base_risk \in 0..100
  /\ \A p \in Policies : Len(p) \in Nat /\ DOMAIN p = 1..Len(p)
  /\ \A p \in Policies : \A i \in DOMAIN p : (p[i].is_dict /\ p[i].rules_is_list) =>
       \A j \in DOMAIN p[i].rules : p[i].rules[j].is_dict =>
         {p[i].rules[j].when.amount_gte, p[i].rules[j].when.amount_gt} \subseteq Int \cup {Absent}
  /\ Amounts \subseteq Nat /\ Budgets \subseteq Nat
  /\ \A e \in {"allow", "deny", "require_approval", "raised"}, n \in 0..100 :
       Absent # [outcome |-> e, risk_score |-> n]
  /\ Absent \notin 0..100

VARIABLES
  agent,        \* the agent row, or Absent
  policies,     \* the enabled policies
  amount,       \* intent.requested_amount, or Absent
  has_currency, \* intent.currency is not None
  remaining,    \* what remaining() answers, or Absent
  next,         \* how many policies have been evaluated
  results,      \* the RuleResults so far
  decision      \* the PolicyDecision, or Absent

input == <<agent, policies, amount, has_currency, remaining>>
vars == <<agent, policies, amount, has_currency, remaining, next, results, decision>>

Effects == {"allow", "deny", "require_approval"}
Result(outcome, risk) == [outcome |-> outcome, risk_score |-> risk]

\* An exception leaves evaluate without a decision: the request fails.
Raised == Result("raised", 100)

Init ==
  /\ agent \in Agents \cup {Absent}
  /\ policies \in Policies
  /\ amount \in Amounts \cup {Absent}
  /\ has_currency \in BOOLEAN
  /\ remaining \in Budgets \cup {Absent}
  /\ next = 0
  /\ results = {}
  /\ decision = Absent

-----------------------------------------------------------------------------
(***************************************************************************)
(* _matches and _decimal_condition.                                        *)
(***************************************************************************)

Asked == IF amount = Absent THEN 0 ELSE amount

\* `when' is a dictionary with known keys only, and the lists it names match.
ScopeMatches(when) ==
  /\ when.is_dict /\ ~when.unknown_keys
  /\ when.lists \in {Absent, "match"}

Invalid(bound) == bound # Absent /\ bound < 0
AtLeastExclusive(bound) == bound = Absent \/ Asked > bound
AtLeast(bound) == bound = Absent \/ Asked >= bound
MoreThan(bound) == bound = Absent \/ Asked > bound

\* The bounds are evaluated in turn, and only if everything before matches.
MatchRaises(when) ==
  /\ ScopeMatches(when)
  /\ Invalid(when.amount_gte) \/ (AtLeast(when.amount_gte) /\ Invalid(when.amount_gt))

Matches(when) ==
  /\ ScopeMatches(when)
  /\ AtLeast(when.amount_gte) /\ MoreThan(when.amount_gt)
  /\ when.payload \in {Absent, "match"}

-----------------------------------------------------------------------------
(***************************************************************************)
(* _evaluate_policy.                                                       *)
(***************************************************************************)

EffectOf(rule) == IF rule.effect = Absent THEN "deny" ELSE rule.effect
RiskOf(rule) == IF rule.risk_score = Absent THEN 50 ELSE rule.risk_score

\* An effect that cannot be hashed raises TypeError in the test for membership.
RuleRaises(rule) ==
  rule.is_dict /\ (MatchRaises(rule.when) \/ (Matches(rule.when) /\ rule.effect = "unhashable"))

\* The results of one rule: none if it does not match.
RuleResultsLenient(rule) ==
  IF ~rule.is_dict \/ ~Matches(rule.when) THEN {}
  ELSE IF EffectOf(rule) \notin Effects THEN {}
  ELSE {Result(EffectOf(rule), RiskOf(rule))}
RuleResultsUnbounded(rule) ==
  IF ~rule.is_dict THEN {Result("deny", 100)}
  ELSE IF ~Matches(rule.when) THEN {}
  ELSE IF EffectOf(rule) \notin Effects THEN {Result("deny", 100)}
  ELSE {Result(EffectOf(rule), RiskOf(rule))}
RuleResults(rule) ==
  IF ~rule.is_dict THEN {Result("deny", 100)}
  ELSE IF ~Matches(rule.when) THEN {}
  ELSE IF EffectOf(rule) \notin Effects \/ RiskOf(rule) \notin 0..100
    THEN {Result("deny", 100)}
  ELSE {Result(EffectOf(rule), RiskOf(rule))}

PolicyRaises(policy) ==
  /\ policy.is_dict /\ policy.rules_is_list
  /\ \E i \in DOMAIN policy.rules : RuleRaises(policy.rules[i])

PolicyResults(policy) ==
  IF ~policy.is_dict \/ ~policy.rules_is_list
    THEN {Result("deny", 100)}
    ELSE UNION {RuleResults(policy.rules[i]) : i \in DOMAIN policy.rules}

-----------------------------------------------------------------------------
(***************************************************************************)
(* evaluate.                                                               *)
(***************************************************************************)

Decided == decision # Absent
Return(d) == decision' = d /\ UNCHANGED <<next, results>> /\ UNCHANGED input

\* The agent must exist, be active and be allowed the action.
AgentMayAct == agent # Absent /\ agent.active /\ agent.allowed

RefuseAgent ==
  /\ ~Decided /\ next = 0 /\ ~AgentMayAct
  /\ Return(Result("deny", 100))

EvaluatePolicy ==
  /\ ~Decided /\ AgentMayAct /\ next < Len(policies)
  /\ LET policy == policies[next + 1] IN
       IF PolicyRaises(policy)
         THEN Return(Raised)
         ELSE /\ results' = results \cup PolicyResults(policy)
              /\ next' = next + 1
              /\ UNCHANGED decision /\ UNCHANGED input

\* What the budget adds; Absent stands for a call to remaining() that found none.
BudgetResultsAtEquality ==
  IF amount = Absent THEN {}
  ELSE IF remaining = Absent THEN {Result("deny", 100)}
  ELSE IF amount >= remaining THEN {Result("require_approval", 90)}
  ELSE {}
BudgetResults ==
  IF amount = Absent THEN {}
  ELSE IF remaining = Absent THEN {Result("deny", 100)}
  ELSE IF amount > remaining THEN {Result("require_approval", 90)}
  ELSE {}

SomeResult(outcome, found) == \E r \in found : r.outcome = outcome

Combine(found) ==
  IF SomeResult("deny", found) THEN "deny"
  ELSE IF SomeResult("require_approval", found) THEN "require_approval"
  ELSE "allow"

\* max() over the agent's base risk and every result, at most 100.
RiskLatest(found) == IF found = {} THEN agent.base_risk ELSE Max({r.risk_score : r \in found})
Risk(found) == Min({100, Max({agent.base_risk} \cup {r.risk_score : r \in found})})

Decide ==
  /\ ~Decided /\ AgentMayAct /\ next = Len(policies)
  /\ IF amount # Absent /\ ~has_currency
       THEN Return(Result("deny", 100))
       ELSE LET found == results \cup BudgetResults IN
              Return(Result(Combine(found), Risk(found)))

Done == Decided /\ UNCHANGED vars

Next == RefuseAgent \/ EvaluatePolicy \/ Decide \/ Done

Spec == Init /\ [][Next]_vars /\ WF_vars(Next)

-----------------------------------------------------------------------------
(***************************************************************************)
(* Properties.                                                             *)
(***************************************************************************)

\* Every variable has its type; risk scores stay within 0..100.
TypeOK ==
  /\ next \in 0..Len(policies)
  /\ \A r \in results : r.outcome \in Effects /\ r.risk_score \in 0..100
  /\ Decided =>
       decision.outcome \in Effects \cup {"raised"} /\ decision.risk_score \in 0..100

AllRules ==
  UNION {ToSet(policies[i].rules) :
           i \in {j \in DOMAIN policies : policies[j].is_dict /\ policies[j].rules_is_list}}

\* What a condition means, apart from how _matches goes about it: the intent is
\* what the rule is about, its amount at least amount_gte and above amount_gt.
InScope(when) ==
  /\ when.is_dict /\ ~when.unknown_keys
  /\ {when.lists, when.payload} \subseteq {Absent, "match"}
  /\ when.amount_gte \in {Absent} \cup 0..Asked
  /\ when.amount_gt \in {Absent} \cup 0..(Asked - 1)

\* A rule in force demands `effect': the intent is in its scope, and it has this
\* effect, "deny" if it names none.
Demands(effect) ==
  \E rule \in AllRules :
    /\ rule.is_dict /\ InScope(rule.when)
    /\ rule.effect = effect \/ (rule.effect = Absent /\ effect = "deny")

\* Whatever the order and the number of policies, a rule that demands denial or
\* approval is obeyed, at the bounds of its amounts too: no rule that allows,
\* before or after it, weakens it.
StrictestRuleObeyed ==
  Decided =>
    /\ Demands("deny") => decision.outcome \in {"deny", "raised"}
    /\ Demands("require_approval") => decision.outcome # "allow"

\* The fail-closed cases of README.md:40 that the code closes: an intent that is
\* allowed or put before a reviewer has an active agent with the action, only
\* definitions, rule lists and rules of the right type, a valid effect and score
\* in every rule it is in the scope of and, for an amount, currency and budget.
\* A malformed `when' is not among them: MalformedWhenIsClosed.
FailClosed ==
  (Decided /\ decision.outcome \in {"allow", "require_approval"}) =>
    /\ agent # Absent /\ agent.active /\ agent.allowed
    /\ \A i \in DOMAIN policies : policies[i].is_dict /\ policies[i].rules_is_list
    /\ \A rule \in AllRules : rule.is_dict
    /\ \A rule \in AllRules : InScope(rule.when) =>
         /\ rule.effect \in Effects
         /\ rule.risk_score = Absent \/ rule.risk_score \in 0..100
    /\ amount # Absent => has_currency /\ remaining # Absent

OverBudget == amount # Absent /\ remaining # Absent /\ amount > remaining

\* The budget holds back an amount if and only if it exceeds what remains: none
\* beyond it is allowed, and, up to it, only a rule asks for a review.
BudgetBinds ==
  Decided =>
    /\ (decision.outcome = "allow" /\ amount # Absent) => remaining # Absent /\ ~OverBudget
    /\ decision.outcome = "require_approval" => Demands("require_approval") \/ OverBudget

\* What a rule in force, or one of the wrong type, adds to the risk: its score, 50
\* if it names none, 100 if any of it is malformed.
ScoreDue(rule) ==
  IF ~rule.is_dict \/ rule.effect \notin Effects \cup {Absent} THEN 100
  ELSE IF rule.risk_score = Absent THEN 50
  ELSE IF rule.risk_score \in 0..100 THEN rule.risk_score
  ELSE 100

\* Every risk there is a reason for: the agent's tier, each rule in force, 100 for
\* a policy of the wrong type and for a missing currency or budget, 90 for a
\* review of the budget.
RisksDue ==
  {agent.base_risk}
    \cup {ScoreDue(rule) : rule \in {u \in AllRules : u.is_dict => InScope(u.when)}}
    \cup {100 : i \in {j \in DOMAIN policies : ~(policies[j].is_dict /\ policies[j].rules_is_list)}}
    \cup {n \in {100} : amount # Absent /\ (~has_currency \/ remaining = Absent)}
    \cup {n \in {90} : OverBudget}

\* The risk of a decision about an agent that may act is the highest there is a
\* reason for: none is lost on the way, whatever comes before or after it, and
\* none is made up.
RiskIsHighestDue ==
  (Decided /\ decision.outcome # "raised" /\ AgentMayAct) =>
    /\ decision.risk_score \in RisksDue
    /\ \A due \in RisksDue : decision.risk_score >= due

\* The condition of a rule is malformed: it is not a dictionary, has an unknown
\* key, or a list or payload condition of the wrong type.
Malformed(when) ==
  ~when.is_dict \/ when.unknown_keys \/ "malformed" \in {when.lists, when.payload}

\* Nothing else in the condition keeps the rule from the intent.
NothingMissed(when) ==
  /\ "miss" \notin {when.lists, when.payload}
  /\ when.amount_gte \in {Absent} \cup 0..Asked
  /\ when.amount_gt \in {Absent} \cup 0..(Asked - 1)

\* "The service is deliberately fail-closed for ... malformed policies"
\* (README.md:40), so an intent is not allowed past a rule that denies or asks
\* for approval and would be in force but for the malformed part of its
\* condition.  It fails: such a rule is skipped as if it did not match.
MalformedWhenIsClosed ==
  (Decided /\ decision.outcome = "allow") =>
    \A rule \in AllRules :
      (rule.is_dict /\ rule.effect \in {Absent, "deny", "require_approval"}) =>
        ~(Malformed(rule.when) /\ NothingMissed(rule.when))
=============================================================================
