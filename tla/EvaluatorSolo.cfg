\* One pass at a time; rules come and go and are tested, but are not edited.
CONSTANTS
    r1 = r1
    r2 = r2
    p1 = p1
    p2 = p2
    NoJob = NoJob
    Ids = {r1, r2}
    Passes = {p1}
    Kind <- OneCollection
    Mode <- Collected
    Hold <- MixedHold
    Interval <- NoInterval
    Broken = {}
    BodyStates = {""}
    Requests = {"create", "delete", "test"}
    MaxEntries = 2
    MaxOutstanding = 2
SPECIFICATION Spec
INVARIANT ActiveFiringMatchesRules
PROPERTY ImplementsLifecycle
