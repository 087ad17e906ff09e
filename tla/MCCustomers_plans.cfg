SPECIFICATION FairSpec
CONSTANTS
    c1 = c1
    q1 = q1
    Keep = Keep
    Customers = {c1}
    Requests = {q1}
    MonthStart <- Threes
    WeekDays = 2
    Plans <- SoldPlans
    Updates <- SentUpdates
    Allowed = {"reset", "bulkReset", "enable", "disable", "extend", "traffic", "adjust", "delete"}
    MayOverlap = FALSE
    Shares = {1}
    MaxDay = 4
    MaxUsed = 1
    MaxRequests = 2
CHECK_DEADLOCK FALSE
PROPERTIES StartedPlansEnd RenewalsGoForward KeepsItsDay OverdueCutOff UsedPlansStart
