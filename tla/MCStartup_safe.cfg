CONSTANTS
    MaxCrashes = 1
    MaxPages = 3
    MaxWrites = 3
SPECIFICATION FairSpec
INVARIANT LaunchSound
PROPERTIES OnboardedOnce LaunchEnds
CHECK_DEADLOCK FALSE
