SPECIFICATION Spec
CONSTANTS
    me = me
    alice = alice
    bob = bob
    den = den
    inn = inn
    Names <- MeAndAlice
    Me = me
    NoOwner = NoOwner
    Channel <- DenAndInn
    CountRange = 16
    SlowServer = FALSE
    MaxChanges = 2
    MaxClicks = 2
    MaxSessions = 1
SYMMETRY Symmetric
CHECK_DEADLOCK FALSE
INVARIANTS
    TypeOK
    RosterShown
    RanksShown
