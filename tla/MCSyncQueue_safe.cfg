\* Two mutations, room for one, a death, a session change, a failing statement.
CONSTANTS
  e1 = e1 e2 = e2
  Events <- TwoEvents
  MaxRetry = 2
  MaxQueue = 1
  MaxSessions = 1
  MaxKills = 1
  MaxFaults = 1
  MaxTroubles = 2
SPECIFICATION FairSpec
INVARIANTS AcceptedSurvives DuplicatesExplained RetriesBounded QueueBounded
PROPERTY Drains
