\* A StopAll that overtakes a Play.
SPECIFICATION Spec
CONSTANTS
    c1 = c1
    c2 = c2
    Nobody = Nobody
    Clients <- TwoClients
    MaxPlays = 1
    MaxEpochs = 1
    CommandCap = 1
    EventCap = 1
    Targets = 1
INVARIANTS
    PlayingIsActive
CHECK_DEADLOCK FALSE
