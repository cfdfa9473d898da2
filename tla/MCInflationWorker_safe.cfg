\* Two workers with skewed clocks, two jobs, one fault of any kind, fair scheduling.
CONSTANTS
  j1 = j1 j2 = j2 j3 = j3 w1 = w1 w2 = w2 p1 = p1
  Jobs <- TwoJobs
  POIs <- OnePOI
  POIOf <- AllAtOne
  Workers <- TwoWorkers
  NoWorker = NoWorker
  JobTimeout = 2
  LeaseWindow = 3
  MaxAttempts = 2
  BatchSize = 1
  MaxSegments = 2
  MaxSkew = 1
  MaxFaults = 1
SPECIFICATION FairSpec
INVARIANTS LeaseSafe SegmentCap StoriesWhole
PROPERTIES LifecycleSpec EveryJobSettles
