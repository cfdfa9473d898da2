\* Two operations and the start-up reconciliation, one fault of any kind.
CONSTANTS
  c1 = c1 c2 = c2 s1 = s1 s2 = s2 NoStory = NoStory
  Cities <- TwoCities
  Stories <- TwoStories
  Items <- OneEach
  Size <- Bytes
  MaxCache = 2
  JobIds <- Slots
  MaxStarts = 2
  MaxFaults = 1
SPECIFICATION Spec
INVARIANTS LimitKept CacheSound
PROPERTIES ServedWhole MarkedUncut
CHECK_DEADLOCK FALSE
