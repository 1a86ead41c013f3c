SPECIFICATION FairSpec
CONSTANTS
    CheckForUpdates = TRUE
    MaxPings = 2
INVARIANTS
    TypeOK
    HandlesMatchSources
    TicketCycle
    Watched
    OnlineIsIdentified
PROPERTIES
    LoginResolves
    KeepsRenewing
