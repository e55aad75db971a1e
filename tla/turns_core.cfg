SPECIFICATION Spec
CONSTANTS
  a = a
  b = b
  c = c
  x = x
  blank = blank
  other = other
  Implied = Implied
  Tasks = {a}
  MaxText = 3
  MaxTurns = 3
  Turns = {a, b}
  Default = 1
  NoProgressLimit = 2
  Budgets = {0, 3}
  Evidence = {blank, other}
  Blank = blank
  MaxGoals = 1
  MaxCount = 4
  Labels = {a, b, c, x}
  Recipes <- AllRecipes
  MaxConcurrency = 2
INVARIANTS TypeOK OutcomeSound Grounded 
PROPERTIES ProtocolSpec NeverStuck OutcomeKept TurnEnds DagSpec RunEnds
CHECK_DEADLOCK FALSE
