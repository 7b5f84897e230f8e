\* Both kinds of chip.  Four events hold an attempt and its retry behind two
\* stale ones.
SPECIFICATION Spec
CONSTANTS
    Modes = {TRUE, FALSE}
    QueueMax = 4
INVARIANTS
    DisconnectHonoured
PROPERTIES
    OutcomeEarned
    ReconnectsAlone
