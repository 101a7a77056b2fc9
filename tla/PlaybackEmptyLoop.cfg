\* Endless and other loops over a range without frames.
SPECIFICATION FairSpec
CONSTANTS
    BufferFrames = 2
    Inputs <- MCEmptyInputs
    Targets = 2
    MaxRepeats = 2
    FullGain = 4
    FadeTimes = {2}
    MaxStops = 2
    FrameBytes = 2
    MaxBytes = 10
    Estimates = {0, 3}
PROPERTIES
    EmptyRangeIsRefused
CHECK_DEADLOCK FALSE
