CONSTANTS
    Admins <- TwoAdmins
    Pages <- SomePages
    Looks <- SomeLooks
    Uses <- SomeUses
    MaxEpochs = 1
    MaxEdits = 1
    MaxFetches = 1
    MaxKept = 1
    MaxFlights = 1
SPECIFICATION Spec
INVARIANT SiteSound
PROPERTIES StoryEditsKept
