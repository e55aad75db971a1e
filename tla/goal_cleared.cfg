SPECIFICATION Spec
CONSTANTS
  Turns = {a}
  Default = 1
  NoProgressLimit = 2
  Budgets = {0, 4}
  Evidence = {blank, other}
  Blank = blank
  MaxGoals = 1
  MaxCount = 5
INVARIANTS ClearedStays
