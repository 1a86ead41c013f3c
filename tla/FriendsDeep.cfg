SPECIFICATION Spec
CONSTANTS
    alice = alice
    bob = bob
    Names <- OnlyAlice
    NoBookmark <- Nobodys
    SyncFriends = TRUE
    SyncBookmarks = TRUE
    Silent = FALSE
    EarlyActions = FALSE
    MaxId = 2
    MaxChanges = 2
    MaxClicks = 2
    MaxFailures = 1
    MaxSessions = 2
CHECK_DEADLOCK FALSE
INVARIANTS
    TypeOK
    NoReadDuringWrite
    OneRound
    NoLostRefresh
PROPERTIES
    ImplementsMirror
