\* Two threads push three messages and pop: enough for a node to be taken off the stack,
\* and to come back on top while a Pop still holds it as the old top.
SPECIFICATION Spec
CONSTANTS
  Threads = {t1, t2}
  Nodes = {n1, n2, n3, bottom}
  Bottom = bottom
  Null = null
  Tags = 4
  MaxPushes = 3
INVARIANTS NodesOwned BottomStays SizeSettles
PROPERTIES StackSpec
