SPECIFICATION FairSpec
CONSTANTS
    me = me
    alice = alice
    heart = heart
    room = room
    FLIST_MAX_ICON_REQUESTS = 2
    Characters <- MeAndAlice
    Me = me
    EIcons <- Heart
    Convos <- Room
    None = None
    MaxFetches = 4
    MaxSessions = 2
    MaxWindows = 2
CHECK_DEADLOCK FALSE
INVARIANTS
    UrlsAreRequests
    SlotsInUse
PROPERTIES
    SmileysEnd
