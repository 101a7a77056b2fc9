------------------------------ MODULE DecodedRange -------------------------------
(***************************************************************************)
(* One range of one file, and the PCM the cache may keep of it: what a     *)
(* playback (FilePlayback) and a background build (PcmBuild) share.  Both  *)
(* read the range with a decoder of their own.  The cache itself, with its *)
(* locks, marks and accounts, is AudioCache; here it is one entry, and the *)
(* mark that keeps a capture and a build of one key apart.                 *)
(***************************************************************************)
EXTENDS DecoderContract, Sequences

CONSTANTS
    BufferFrames,   \* bufferFrames: what one read asks for at most
    FrameBytes,     \* channels * 2
    MaxBytes,       \* cache.maxBytes
    Inputs          \* the files and options that are played

ASSUME BufferAssumption == BufferFrames \in Nat \ {0}

\* The budget is a fixed limit, a 64th of the memory or an 8th of what is free of it
\* (memory_windows.go).  Memory comes in pages: the size of a frame, 2 or 4, divides it.
ASSUME BudgetAssumption ==
    /\ FrameBytes \in Nat \ {0}
    /\ MaxBytes \in Nat \ {0}
    /\ MaxBytes % FrameBytes = 0

\* A file of so many frames, and Options in frames: pos and duration (-1: to the
\* end of the file), LoopCount (-1: endless) and whether there are Filters.
InputType == [frames: Nat, pos: Nat, duration: Nat \cup {-1},
              loops: Nat \cup {-1}, filtered: BOOLEAN]

ASSUME InputAssumption == Inputs \subseteq InputType

VARIABLES
    input,      \* the range that is played, one of Inputs
    asset,      \* the cached PCM: Frames(from, frames), or NoFrames
    producer,   \* who makes the PCM: "nobody", "capture" or "build"
    tooLarge    \* usage.tooLarge: nobody is to make it

rangeVars == <<input, asset, producer, tooLarge>>

\* A stretch of the file's frames.
Stretch(from, frames) == [from |-> from, frames |-> frames]
NoFrames == Stretch(0, 0)
Cached == asset # NoFrames

\* The frames of the range: from pos, for duration, as far as the file goes.
RangeLength ==
    LET rest == IF input.pos < input.frames THEN input.frames - input.pos ELSE 0
    IN  IF input.duration < 0 THEN rest ELSE Smaller(input.duration, rest)

RangeInit ==
    /\ input \in Inputs
    /\ asset = NoFrames
    /\ producer = "nobody"
    /\ tooLarge = FALSE

RangeTypeOK ==
    /\ input \in Inputs
    /\ asset \in [from: Nat, frames: Nat]
    /\ producer \in {"nobody", "capture", "build"}
    /\ tooLarge \in BOOLEAN

\* commitPCMLocked: the finished PCM becomes the entry.
Commit(frames) ==
    /\ asset' = frames
    /\ producer' = "nobody"
    /\ UNCHANGED tooLarge

\* A range is given up for ever only if it really exceeds the budget.
TooLargeIsTooLarge == tooLarge => RangeLength * FrameBytes > MaxBytes

\* The cached PCM of a range is that range, all of it, whether a first play or
\* a background build made it: a loop continues with it instead of the file.
AssetIsRange == Cached => asset = Stretch(input.pos, RangeLength)
================================================================================
