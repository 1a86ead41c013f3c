SPECIFICATION Spec
CONSTANTS
    alice = alice
    bob = bob
    Names <- AliceAndBob
    NoBookmark <- Nobodys
    SyncFriends = TRUE
    SyncBookmarks = TRUE
    Silent = FALSE
    EarlyActions = FALSE
    MaxId = 1
    MaxChanges = 1
    MaxClicks = 2
    MaxFailures = 1
    MaxSessions = 1
SYMMETRY Characters
CHECK_DEADLOCK FALSE
INVARIANT Coherent
PROPERTIES
    NoResurrection
    GroupsFollowTable
