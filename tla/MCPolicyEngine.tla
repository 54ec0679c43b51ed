--------------------------- MODULE MCPolicyEngine ---------------------------
(***************************************************************************)
(* Small instances of PolicyEngine: every condition with one rule, and     *)
(* every mixture of effects and malformed parts with up to two policies of *)
(* up to two rules.                                                        *)
(***************************************************************************)
EXTENDS PolicyEngine, TLC

Anything ==
  [is_dict |-> TRUE, unknown_keys |-> FALSE, lists |-> Absent, payload |-> Absent,
   amount_gte |-> Absent, amount_gt |-> Absent]

Shapes == {Absent, "match", "miss", "malformed"}
Bounds == {Absent, -1, 1, 2}

AllWhens ==
  [is_dict : {TRUE}, unknown_keys : {FALSE}, lists : Shapes, payload : Shapes,
   amount_gte : Bounds, amount_gt : Bounds]
    \cup {[Anything EXCEPT !.is_dict = FALSE], [Anything EXCEPT !.unknown_keys = TRUE]}

Rule(when, effect, risk) ==
  [is_dict |-> TRUE, when |-> when, effect |-> effect, risk_score |-> risk]

Policy(rules) == [is_dict |-> TRUE, rules_is_list |-> TRUE, rules |-> rules]

\* What the combination of results can tell apart.
SomeRules ==
  {Rule(Anything, e, 60) : e \in {"allow", "deny", "require_approval", "unhashable"}}
    \cup {Rule(Anything, Absent, Absent), Rule(Anything, "allow", 101),
          Rule(Anything, "misspelt", 5), [Rule(Anything, "allow", 5) EXCEPT !.is_dict = FALSE],
          Rule([Anything EXCEPT !.lists = "miss"], "deny", 100),
          Rule([Anything EXCEPT !.amount_gt = 1], "require_approval", 85)}

SomePolicies ==
  {Policy(rules) : rules \in BoundedSeq(SomeRules, 2)}
    \cup {[Policy(<<>>) EXCEPT !.is_dict = FALSE], [Policy(<<>>) EXCEPT !.rules_is_list = FALSE]}

MCConditions == {<<Policy(<<Rule(when, e, 60)>>)>> : when \in AllWhens, e \in Effects}
MCPolicies == MCConditions \cup {<<>>} \cup {<<p>> : p \in SomePolicies}
  \cup {<<Policy(<<r>>), p>> : r \in SomeRules, p \in SomePolicies}

MCAgents ==
  {[active |-> TRUE, allowed |-> TRUE, base_risk |-> 25],
   [active |-> TRUE, allowed |-> TRUE, base_risk |-> 75],
   [active |-> FALSE, allowed |-> TRUE, base_risk |-> 25],
   [active |-> TRUE, allowed |-> FALSE, base_risk |-> 100]}
MCAmounts == {1, 2}
MCBudgets == {0, 1, 5}
=============================================================================
