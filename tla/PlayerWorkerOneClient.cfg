\* One client, three plays and two refill passes.  When the player
\* is shut down for the last time the system has stopped.
SPECIFICATION Spec
CONSTANTS
    c1 = c1
    c2 = c2
    Nobody = Nobody
    Clients <- OneClient
    MaxPlays = 3
    MaxEpochs = 1
    CommandCap = 1
    EventCap = 2
    Targets = 2
INVARIANTS
    PlayingIsActive
CHECK_DEADLOCK FALSE
