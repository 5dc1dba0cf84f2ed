\* One job, one drainer: it becomes ambiguous, is resolved for retry, and becomes ambiguous again.
CONSTANTS
  Jobs = {j1}
  Events = {e1}
  Drainers = {loop}
  Loop = loop
  MaxRetries = 2
SPECIFICATION Spec
INVARIANTS
  AmbiguityIsAlerted
