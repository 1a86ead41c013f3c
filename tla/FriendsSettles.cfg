SPECIFICATION FairSpec
CONSTANTS
    alice = alice
    bob = bob
    Names <- OnlyAlice
    NoBookmark <- Nobodys
    SyncFriends = TRUE
    SyncBookmarks = TRUE
    Silent = TRUE
    EarlyActions = FALSE
    MaxId = 2
    MaxChanges = 2
    MaxClicks = 1
    MaxFailures = 1
    MaxSessions = 1
CHECK_DEADLOCK FALSE
PROPERTY Settles
