\* Two groups that are notified again and again by a manager that may be stopped.
CONSTANTS
    r1 = r1
    r2 = r2
    g1 = g1
    g2 = g2
    Rules = {r1, r2}
    Groups = {g1, g2}
    GroupOf <- OwnGroups
    Capacity = 1
    GroupWait = 1
    GroupInterval = 2
    RepeatInterval = 2
    MaxAlerts = 2
    CanStop = TRUE
SPECIFICATION FairSpec
INVARIANTS
    TypeOK
    NoAlertLost
PROPERTIES
    WaitingAlertsAreSent
    SenderReturns
