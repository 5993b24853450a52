SPECIFICATION Spec
CONSTANTS
  n1 = n1
  n2 = n2
  v1 = v1
  v2 = v2
  Nodes <- MCTwo
  Syncing <- MCNone
  Values <- MCTwoValues
  Genesis = v1
  Delay = 1
  MaxHeight = 4
  MaxRestarts = 0
INVARIANT SameOnAllNodes
CHECK_DEADLOCK FALSE
