SPECIFICATION FairSpec
CONSTANTS
    alice = alice
    bob = bob
    Names <- AliceAndBob
    NoOne = NoOne
    NoTable = NoTable
    MaxAsks = 4
CHECK_DEADLOCK FALSE
INVARIANTS
    HandlesMatchRequests
PROPERTIES
    OwnProfile
    ShownProfileStays
    Settles
