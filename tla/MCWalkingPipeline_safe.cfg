\* Taps, fetches, controls and one failing call at any moment.
CONSTANTS
  s1 = s1 s2 = s2 s3 = s3 None = None
  Stories <- TwoStories
  Silent <- OneSilent
  Controls = TRUE
  MaxTaps = 3
  MaxPlays = 2
  MaxFetches = 2
  MaxFaults = 1
CHECK_DEADLOCK FALSE
SPECIFICATION Spec
INVARIANTS ReportedOncePerTrigger StopStops WalkSound
PROPERTIES StoriesInTurn
