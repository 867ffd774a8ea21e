\* Two threads push three messages and pop: enough for a node to be taken out of
\* the queue, handed out again and linked to by a thread that still holds it as tail.
SPECIFICATION FairSpec
CONSTANTS
  Threads = {t1, t2}
  Tags = 8
  Spare = 2
  MaxPushes = 3
INVARIANTS NodesOwned
PROPERTIES QueueSpec CallsEnd
