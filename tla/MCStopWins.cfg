SPECIFICATION Spec
CONSTANTS
  Callers = {c1, c2}
  Tasks = {"start", "stop"}
  Kinds = {}
  MaxMoves = 2
INVARIANT ExplicitStopWins
CHECK_DEADLOCK FALSE
