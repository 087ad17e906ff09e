SPECIFICATION FairSpec
CONSTANTS
    c1 = c1
    f1 = f1
    f2 = f2
    Clients = {c1}
    Files = {f1}
    Owner <- OneFile
    FirstQuota <- Quota3
    Packets = {1}
    Near = 2
    DriftEvery = 2
    StoredAhead = 1
    KernelAhead = 1
    Raises = {}
    Allowed = {"node", "period", "enable", "term", "db", "nft"}
    MaxServed = 4
    MaxTrail = 0
    MaxFaults = 1
    MaxEdits = 1
PROPERTIES CutOffOnlyWhenSpent RefusalsEnd
