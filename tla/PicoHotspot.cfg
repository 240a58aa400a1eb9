SPECIFICATION HotspotFairSpec
CONSTANTS
    Macs = {a, b}
    Addresses = {1, 2}
    Slots = {1, 2}
    MaxQueue = 2
    MaxMoves = 3
    MaxMishaps = 1
    Nobody = Nobody
INVARIANT HotspotInv
PROPERTIES
    IndicatorStable
    DeviceServed
