\* Two hooks that share a channel with different types, and one event.
SPECIFICATION Spec
CONSTANTS
    Listeners <- Both
    Channels <- MCChannels
    Types <- MCTypes
    ChannelOf <- ChannelOfBoth
    TypesOf <- TypesOfBoth
    Authorized <- MCChannels
    MaxSockets = 2
    MaxFrames = 2
    MaxAttempts = 1
    MaxConnections = 1
    MaxSubs = 2
    MaxMissed = 1
INVARIANTS
    TypeOK
    NoOrphanSubscription
    ServerIdIsCurrent
    HeardOncePerSocket
\* the bounds on sockets and frames end a behaviour
CHECK_DEADLOCK FALSE
