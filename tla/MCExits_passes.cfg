CONSTANTS
    Outbounds = {1, 2}
    Owned = {2}
    Slow = {2}
    Balancers = {11}
    Members <- TheMembers
    Fallback <- TheFallback
    Pings <- ThePings
    Passes = {tick}
    tick = tick
    Allowed = {"crash", "wipe", "ip", "nft", "look"}
    MaxEdits = 2
    MaxFaults = 1
SPECIFICATION FairSpec
INVARIANT MarksAreCarried
INVARIANT NothingStale
PROPERTY ExitsComeBack
