\* A page with its connections; a channel of one event, losses and restarts anywhere.
SPECIFICATION FairSpec
CONSTANTS
  Clients = {c1}
  Capacity = 1
  MaxEvents = 4
  ReplayLimit = 3
  MaxRetry = 2
  MaxDrops = 2
  MaxUnsent = 1
INVARIANTS
  SentIsTheStream
  PageMissesNothing
PROPERTY EventsArrive
CHECK_DEADLOCK FALSE
