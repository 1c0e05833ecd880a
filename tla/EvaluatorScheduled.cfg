\* The scheduler beside the collection, with an interval and an unusable rule.
CONSTANTS
    r1 = r1
    r2 = r2
    p1 = p1
    p2 = p2
    NoJob = NoJob
    Ids = {r1, r2}
    Passes = {p1, p2}
    Kind <- CollectionAndScheduler
    Mode <- Scheduled
    Hold <- NoHold
    Interval <- EveryTwo
    Broken = {r2}
    BodyStates = {""}
    Requests = {"test"}
    MaxEntries = 1
    MaxOutstanding = 1
SPECIFICATION FairSpec
PROPERTIES
    HighFires
    LowResolves
