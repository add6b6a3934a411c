\* One hook, two sockets that may overlap, a network that drops; no events.
SPECIFICATION FairSpec
CONSTANTS
    Listeners <- One
    Channels <- MCChannels
    Types <- NoTypes
    ChannelOf <- ChannelOfOne
    TypesOf <- TypesOfOne
    Authorized <- MCChannels
    MaxSockets = 2
    MaxFrames = 2
    MaxAttempts = 1
    MaxConnections = 1
    MaxSubs = 2
    MaxMissed = 2
PROPERTIES
    MountedIsAnswered
    DegradedEnds
\* the bounds on sockets and frames end a behaviour
CHECK_DEADLOCK FALSE
