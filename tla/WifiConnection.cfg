SPECIFICATION FairSpec
CONSTANTS
    Listeners = {photo, http}
    ProbeLimit = 3
    RadioLimit = 2
    MaxArrivals = 1
    MaxFaults = 2
INVARIANT Inv
PROPERTIES
    DirectAccessKept
    HomeLossDebounced
    NetworkPersists
    RestartHappens
