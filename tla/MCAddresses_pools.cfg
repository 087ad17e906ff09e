SPECIFICATION Spec
CONSTANTS
    Devices = {1, 2, 3, 4}
    Clients = {"odd", "even"}
    ClientOf <- OddAndEven
    Workers = {w1, w2, w3}
    Subnets <- Sizes
    FirstSubnet <- First
    Allowed = {"move"}
    MaxMoves = 2
    MaxFaults = 2
CHECK_DEADLOCK FALSE
INVARIANTS HeldIsUsed UsedIsHeld OneOwner StartsAgain
