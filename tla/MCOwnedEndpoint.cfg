CONSTANTS
    Buffers = {b1, b2}
    SLOTS = 2
    DEPTH = 2
    RESERVED = 1
    RESERVE = 1
    Copies = {c1}
    RX_QUEUE_DEPTH = 1
    MaxLifetimes = 2
    None = None
SPECIFICATION FairEndpointSpec
INVARIANTS OneOwner CreditsAreExact
PROPERTIES SlotsKeepComing PacketsArrive LifetimesDoNotMix CachedCreditsAreSafe
