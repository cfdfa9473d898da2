\* Stop while the story still loads.
CONSTANTS
  s1 = s1 s2 = s2 s3 = s3 None = None
  Stories <- TwoStories
  Silent <- NoneSilent
  Controls = FALSE
  MaxTaps = 2
  MaxPlays = 1
  MaxFetches = 1
  MaxFaults = 0
CHECK_DEADLOCK FALSE
SPECIFICATION Spec
INVARIANT PacingHonest
