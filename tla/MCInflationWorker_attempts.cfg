\* A job that times out again and again, default attempt limit.
CONSTANTS
  j1 = j1 j2 = j2 j3 = j3 w1 = w1 w2 = w2 p1 = p1
  Jobs <- OneJob
  POIs <- OnePOI
  POIOf <- AllAtOne
  Workers <- OneWorker
  NoWorker = NoWorker
  JobTimeout = 2
  LeaseWindow = 3
  MaxAttempts = 3
  BatchSize = 1
  MaxSegments = 3
  MaxSkew = 0
  MaxFaults = 4
SPECIFICATION Spec
INVARIANT AttemptsBounded
