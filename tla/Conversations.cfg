SPECIFICATION Spec
CONSTANTS
    alice = alice
    Names <- Alice
    Me = Me
    GLOBAL_NAME = GLOBAL_NAME
    Room = Room
    Nowhere = Nowhere
    Notices = TRUE
    Told <- Private
    MaxRequests = 2
    MaxSessions = 2
CHECK_DEADLOCK FALSE
INVARIANTS
    TemporaryBuddiesHaveWindows
    IgnoreListAgrees
    LinesBelong
    EchoedIffSent
