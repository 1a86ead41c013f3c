SPECIFICATION Spec
CONSTANTS
    me = me
    alice = alice
    bob = bob
    den = den
    inn = inn
    Names <- MeAndAlice
    Me = me
    NoOwner = NoOwner
    Channel <- Den
    CountRange = 16
    SlowServer = FALSE
    MaxChanges = 1
    MaxClicks = 0
    MaxSessions = 1
CHECK_DEADLOCK FALSE
INVARIANTS
    OperatorsAreFound
