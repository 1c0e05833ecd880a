\* Cycles, the evaluate request, requests that create, edit and delete, failing saves
\* and restarts, all at once.
CONSTANTS
    r1 = r1
    r2 = r2
    p1 = p1
    p2 = p2
    NoJob = NoJob
    Ids = {r1}
    Passes = {p1, p2}
    Kind <- CollectionAndRequest
    Mode <- Collected
    Hold <- HoldOne
    Interval <- NoInterval
    Broken = {}
    BodyStates = {"", "firing"}
    Requests = {"create", "update", "delete", "restart", "failed save"}
    MaxEntries = 1
    MaxOutstanding = 1
SPECIFICATION Spec
INVARIANTS
    TypeOK
    DeletedStaysDeleted
