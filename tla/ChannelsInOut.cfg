SPECIFICATION FairSpec
CONSTANTS
    me = me
    alice = alice
    bob = bob
    den = den
    inn = inn
    Names <- MeAndAlice
    Me = me
    NoOwner = NoOwner
    Channel <- Den
    CountRange = 16
    SlowServer = FALSE
    MaxChanges = 1
    MaxClicks = 4
    MaxSessions = 2
CHECK_DEADLOCK FALSE
INVARIANTS
    ChatsMatch
    AgreesWhenQuiet
    NoDoubleJoin
    LineIsCurrent
PROPERTIES
    DescriptionFirst
    NoGhosts
