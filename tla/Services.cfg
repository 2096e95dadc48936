SPECIFICATION Spec
CONSTANTS
    Polls = {p1, p2}
    Close = 2
    Resolve = 3
    BookTime = 4
    Sockets = {1, 2}
    Ips = {1}
    IpOf <- OneAddress
    MaxClients = 2
    MaxPerIp = 1
    MaxPerWindow = 1
    Strikes = 2
    Window = 0
    Decay = 2
    StaleAfter = 2
    MaxInvalid = 2
    GateTime = 3
    Updates = {1, 2, 3}
    Fields = {"mode", "copy"}
    Mode = "mode"
    Calls = {c1, c2, c3}
    MaxRetries = 2
    NoCall = NoCall
INVARIANTS ChainHasLastWord SeatsCounted OnlySustainedAbuse NoUpdateLost OnlyTimeOutsLinger AnswersAreHonest
PROPERTIES SettlingStays SilentPeersLeave FeedRecovers EveryCallAnswered
CHECK_DEADLOCK FALSE
