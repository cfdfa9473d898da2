SPECIFICATION FairSpec
CONSTANTS
    s1 = s1
    r1 = r1
    k1 = k1
    s2 = s2
    k2 = k2
    POIs = {p1}
    Stories = {s1}
    Reports = {r1}
    ReportOn <- MCReportOn
    Keys = {k1, k2}
    Home <- MCHome
    NoKey = NoKey
    Requests = {q1, q2}
    Cleaners = {w1, w2}
    Free = Free
    BatchSize = 2
    MaxAttempts = 2
    MaxRequests = 2
    MaxFaults = 1
INVARIANTS LiveAudioKept OrphansQueued CompletedMeansGone
PROPERTIES ModerationSound AllComesToEnd
CHECK_DEADLOCK FALSE
