\* Every combination of conditions in one rule, and every mixture of effects and
\* malformed parts in up to two policies.
SPECIFICATION Spec
CONSTANTS
  Agents <- MCAgents
  Policies <- MCPolicies
  Amounts <- MCAmounts
  Budgets <- MCBudgets
  Absent = Absent
INVARIANTS
  TypeOK
  StrictestRuleObeyed
  FailClosed
  BudgetBinds
  RiskIsHighestDue
