\* Two clients racing each other and the worker, with a restart.  When the
\* player is shut down for the last time the system has stopped.
SPECIFICATION Spec
CONSTANTS
    c1 = c1
    c2 = c2
    Nobody = Nobody
    Clients <- TwoClients
    MaxPlays = 2
    MaxEpochs = 2
    CommandCap = 1
    EventCap = 1
    Targets = 1
SYMMETRY MCSymmetry
INVARIANTS
    TypeOK
    
    ActiveIsAccounted
    EndedIsInactive
    NewestEventIsKept
    AnswersAreAwaited
    StoppedIsEmpty
PROPERTIES
    EngineOutlivesVoices
CHECK_DEADLOCK FALSE
