\* Scaled from the defaults 2000/500/1000/5/500/3000 ms on a clock that wraps.
SPECIFICATION Spec
CONSTANTS
    ClockMod = 6
    heartbeatTimeoutMs = 2
    degradedGracePeriodMs = 1
    staticProbeIntervalMs = 3
    staticMaxProbes = 2
    dynamicProbeIntervalMs = 1
    bootGracePeriodMs = 3
    ByteMod = 3
    Policies = {"STATIC", "DYNAMIC"}
    RecvPreempts = TRUE
    MaxLag = 1
    SetupMax = 1
INVARIANTS
    TypeOK
    ConnectedFlag
    ReacquiringArmed
    SilenceBounded
PROPERTIES
    OnlyAckEndsReacquisition
    DegradeJustified
    ProbesSpaced
    FlagHeals
    
