SPECIFICATION FairSpec
CONSTANTS
    c1 = c1
    f1 = f1
    f2 = f2
    Clients = {c1}
    Files = {f1, f2}
    Owner <- OneOwner
    FirstQuota <- Quota2
    Packets = {1}
    Near = 2
    DriftEvery = 1
    StoredAhead = 1
    KernelAhead = 1
    Raises <- OneUpThreeDown
    Allowed = {"node", "reset", "disable", "raise", "wipe", "nft", "db", "crash", "stop"}
    MaxServed = 1
    MaxTrail = 0
    MaxFaults = 1
    MaxEdits = 2
INVARIANTS BytesConserved FilesMatchCustomer
PROPERTIES ImplementsLedger StaysOff EverythingIsBilled BlockedInTheEnd
