\* A disable request that arrives while a pass holds a copy of the rule.
CONSTANTS
    r1 = r1
    r2 = r2
    p1 = p1
    p2 = p2
    NoJob = NoJob
    Ids = {r1}
    Passes = {p1}
    Kind <- OneCollection
    Mode <- Collected
    Hold <- NoHold
    Interval <- NoInterval
    Broken = {}
    BodyStates = {""}
    Requests = {"disable"}
    MaxEntries = 2
    MaxOutstanding = 1
SPECIFICATION Spec
PROPERTY DisableSticks
