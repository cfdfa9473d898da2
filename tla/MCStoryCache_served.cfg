\* A walk's fetches and evictions: is the path returned always that of a file?
CONSTANTS
  c1 = c1 c2 = c2 s1 = s1 s2 = s2 NoStory = NoStory
  Cities <- TwoCities
  Stories <- TwoStories
  Items <- OneFull
  Size <- Bytes
  MaxCache = 2
  JobIds <- Slots
  MaxStarts = 3
  MaxFaults = 0
SPECIFICATION Spec
PROPERTY ServedPresent
CHECK_DEADLOCK FALSE
