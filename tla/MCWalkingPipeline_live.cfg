\* Fair scheduling, nobody pauses: three taps start, stop and start again.
CONSTANTS
  s1 = s1 s2 = s2 s3 = s3 None = None
  Stories <- TwoStories
  Silent <- OneSilent
  Controls = FALSE
  MaxTaps = 3
  MaxPlays = 2
  MaxFetches = 2
  MaxFaults = 1
CHECK_DEADLOCK FALSE
SPECIFICATION FairSpec
PROPERTY StoryEnds
