CONSTANTS
    Outbounds = {1, 2}
    Owned = {2}
    Slow = {2}
    Balancers = {}
    Members <- TheMembers
    Fallback <- TheFallback
    Pings <- ThePings
    Passes = {tick}
    tick = tick
    Allowed = {"lost"}
    MaxEdits = 1
    MaxFaults = 0
SPECIFICATION FairSpec
PROPERTY ExitsComeBack
