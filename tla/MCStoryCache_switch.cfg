\* Two operations and the start-up reconciliation, nothing fails but downloads.
CONSTANTS
  c1 = c1 c2 = c2 s1 = s1 s2 = s2 NoStory = NoStory
  Cities <- TwoCities
  Stories <- TwoStories
  Items <- OneFull
  Size <- Bytes
  MaxCache = 2
  JobIds <- Slots
  MaxStarts = 3
  MaxFaults = 0
SPECIFICATION Spec
PROPERTY CancelsOldWork
CHECK_DEADLOCK FALSE
