SPECIFICATION LiveSpec
CONSTANTS
    t1 = t1
    t2 = t2
    t3 = t3
    alice = alice
    bob = bob
    Tunnels = {t1, t2, t3}
    Slot <- SlotOf
    Devices = {1, 2, 3}
    On <- OnOf
    Address <- AddressOf
    Customers = {alice, bob}
    Owner <- OwnerOf
    Price <- HalfAgain
    HostLimit = 2
    FirstTunnels = {t1, t3}
    FirstDevices = {1}
    Allowed = {"reuse", "late", "record", "node"}
    MaxCarried = 2
    MaxFaults = 1
    MaxEdits = 2
INVARIANTS Conserved SuccessIsTruth ChargesAddUp BillsAgree
PROPERTY CatchesUp
