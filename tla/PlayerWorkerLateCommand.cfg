\* A command sent to a player that is shutting down.
SPECIFICATION FairSpec
CONSTANTS
    c1 = c1
    c2 = c2
    Nobody = Nobody
    Clients <- TwoClients
    MaxPlays = 1
    MaxEpochs = 1
    CommandCap = 1
    EventCap = 1
    Targets = 1
PROPERTIES
    EveryCallReturns
CHECK_DEADLOCK FALSE
