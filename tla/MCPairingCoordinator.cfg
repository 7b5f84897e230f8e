\* Three MACs for two slots, so requests are stored, updated, replace and are
\* rejected; a peer table with fewer entries than MACs and the broadcast address.
SPECIFICATION Spec
CONSTANTS
    ClockMod = 2
    Macs = {m1, m2, m3}
    ZeroMac = zero
    Broadcast = bcast
    DeviceIds = {1, 2}
    OwnChannels = {6}
    MaxPairedClients = 2
    BeaconIntervalMs = 1
    MaxPeers = 2
SYMMETRY AnyMac
INVARIANTS
    TypeOK
    UniqueMacs
    NvsMatchesRam
    ConfirmedSurvivesCrash
    ActivePeers
PROPERTIES
    EvictionOnlyWhenFull
    KeepsRegistry
