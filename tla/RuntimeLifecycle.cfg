\* Initialization and shutdown, any number of calls of three hosts, and the
\* refinement of RuntimeContract, liveness included.
SPECIFICATION FairSpec
CONSTANTS
    h1 = h1
    h2 = h2
    h3 = h3
    g1 = g1
    g2 = g2
    None = None
    Hosts <- MCHosts
    Initializers <- MCInitializers
INVARIANTS
    TypeOK
    ExactlyOneDriver
    
    ShutdownIsAnswered
    
PROPERTIES
    ShutdownIsFinal
    
