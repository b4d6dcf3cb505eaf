SPECIFICATION PromptSpec
CONSTANTS
  BurstSz = 2
  MaxConn = 2
  MaxPkt = 4
  ScopeJoins = FALSE
INVARIANTS TypeOK RoutedInOrder
PROPERTIES RoutesExactlyOurs NeverSentToReplacedClient RegistersClients
  QueuedReachesClient StopsAfterBurst
