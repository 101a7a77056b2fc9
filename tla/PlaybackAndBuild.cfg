\* One playback of one of nine ranges, with a background build.  A playback ends.
SPECIFICATION FairSpec
CONSTANTS
    BufferFrames = 2
    Inputs <- MCInputs
    Targets = 2
    MaxRepeats = 2
    FullGain = 4
    FadeTimes = {2}
    MaxStops = 2
    FrameBytes = 2
    MaxBytes = 10
    Estimates = {0, 3}
INVARIANTS
    TypeOK
    AssetIsRange
    EndMarks
    BuffersOutliveVoice
    BuildIsSound
PROPERTIES
    FadeNeverRises
    
CHECK_DEADLOCK FALSE
