\* Two coordinators, a list that does not start with channel 1, and a third
\* channel that a confirmation can name but the list lacks.
SPECIFICATION Spec
CONSTANTS
    ClockMod = 2
    CoordMacs = {c1, c2}
    NoCoord = zero
    ScanChannels <- ScanTwo
    MaxScanChannels = 3
    DeviceId = 1
    DwellMs = 1
    PairingTimeoutMs = 1
    MaxLag = 1
INVARIANTS
    TypeOK
    PairedIdentity
PROPERTIES
    RespondingEnds
    ScanVisitsAll
