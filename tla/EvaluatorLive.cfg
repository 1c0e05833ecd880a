\* Overlapping cycles that go on for ever, a rule that is tested, disabled and enabled.
CONSTANTS
    r1 = r1
    r2 = r2
    p1 = p1
    p2 = p2
    NoJob = NoJob
    Ids = {r1}
    Passes = {p1, p2}
    Kind <- TwoCollections
    Mode <- Collected
    Hold <- HoldTwo
    Interval <- NoInterval
    Broken = {}
    BodyStates = {""}
    Requests = {"test", "enable", "disable"}
    MaxEntries = 1
    MaxOutstanding = 1
SPECIFICATION FairSpec
PROPERTIES
    HighFires
    LowResolves
