SPECIFICATION FairSpec
CONSTANTS
    Clients = {1, 2}
    EventCap = 1
    ChannelCap = 1
    MaxUp <- MCMaxUp
    MaxDown <- MCMaxDown
    WireCap = 2
INVARIANTS
    TypeOK
    NothingLost
    RealmProtocol
    DataAfterConfirm
PROPERTIES
    StreamsKept
    AwaitEnds
    ReaderMovesOn
CHECK_DEADLOCK FALSE
