CONSTANTS
    t1 = t1
    r1 = r1
    r2 = r2
    x1 = x1
    x2 = x2
    Ticket <- OneTicket
    RelayId <- OneRelay
    Retry <- TwoRetries
    MaxAttempts = 2
    MaxMessages = 3
    NoTicket = NoTicket
SPECIFICATION FairSpec
PROPERTIES
    DeliveryEnds
    RelaysArrive
