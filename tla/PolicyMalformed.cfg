\* One policy of one rule: every combination of conditions.
SPECIFICATION Spec
CONSTANTS
  Agents <- MCAgents
  Policies <- MCConditions
  Amounts <- MCAmounts
  Budgets <- MCBudgets
  Absent = Absent
INVARIANTS
  MalformedWhenIsClosed
