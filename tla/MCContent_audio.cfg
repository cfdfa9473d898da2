SPECIFICATION Spec
CONSTANTS
    s1 = s1
    s2 = s2
    r1 = r1
    k1 = k1
    k2 = k2
    POIs = {p1, p2}
    Stories = {s1, s2}
    Reports = {r1}
    ReportOn <- MCReportOn
    Keys = {k1, k2}
    Home <- MCHomes
    NoKey = NoKey
    Requests = {q1, q2}
    Cleaners = {w1}
    Free = Free
    BatchSize = 2
    MaxAttempts = 1
    MaxRequests = 2
    MaxFaults = 1
INVARIANTS LiveAudioKept OrphansQueued
CHECK_DEADLOCK FALSE
