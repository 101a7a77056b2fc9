-------------------------------- MODULE PcmBuild ---------------------------------
(***************************************************************************)
(* A background build of the cached PCM of a range, counted in bytes:      *)
(* decodePCMAsset of src/internal/player/pcm_cache.go and what it calls.   *)
(* The buffer starts with an estimate and is doubled up to the budget.     *)
(* AudioCache has the same build as one job among others, in blocks, with  *)
(* its reservations, marks and failures; here is what is read where.       *)
(***************************************************************************)
EXTENDS DecodedRange

CONSTANTS
    Estimates       \* frames after pos by the container's duration (0: unknown)

ASSUME EstimatesAssumption == Estimates \subseteq Nat

VARIABLES
    stage,      \* where the build is
    next,       \* the frame its decoder reads next
    toDiscard,  \* framesToDiscard
    toGo,       \* remainingFrames (-1: to the end of the file)
    capacity, reservation, totalBytes

buildVars == <<stage, next, toDiscard, toGo, capacity, reservation, totalBytes>>

BlockBytes == BufferFrames * FrameBytes
AtLimit == capacity = totalBytes /\ capacity = MaxBytes

BuildInit ==
    /\ stage = "none"
    /\ next = 0 /\ toDiscard = 0 /\ toGo = -1
    /\ capacity = 0 /\ reservation = 0 /\ totalBytes = 0

\* A worker takes the job.  What is too large is never built again.
StartBuild ==
    /\ stage = "none"
    /\ ~tooLarge
    /\ producer = "nobody" /\ ~Cached /\ ~input.filtered
    /\ producer' = "build"
    /\ stage' = "discard"
    /\ next' = 0
    /\ toDiscard' = input.pos
    /\ UNCHANGED <<input, asset, toGo, capacity, reservation, totalBytes, tooLarge>>

EndBuild ==
    /\ stage' = "none"
    /\ next' = 0 /\ toDiscard' = 0 /\ toGo' = -1
    /\ capacity' = 0 /\ reservation' = 0 /\ totalBytes' = 0

GiveUp ==
    /\ EndBuild
    /\ producer' = "nobody"
    /\ UNCHANGED <<input, asset>>

\* A call fails, the budget is not to be had, or the cache is closing.
BuildFails == stage # "none" /\ GiveUp /\ UNCHANGED tooLarge

\* A read of the build's own decoder.
BuildRest == IF next < input.frames THEN input.frames - next ELSE 0

DiscardFrames ==
    /\ stage = "discard"
    /\ toDiscard > 0
    /\ LET max == Smaller(toDiscard, BufferFrames)
           n == Delivered(max, BuildRest)
       IN  IF FileFinished(max, BuildRest)
           THEN GiveUp /\ UNCHANGED tooLarge
           ELSE /\ next' = next + n
                /\ toDiscard' = toDiscard - n
                /\ UNCHANGED <<rangeVars, stage, toGo, capacity, reservation,
                               totalBytes>>

\* initialPCMCapacity: room for what is expected, and for one read more if the
\* length is the container's; one read if more is expected than fits at all.
InitialCapacity(known, guess) ==
    LET expected == (IF known >= 0 THEN known ELSE guess) * FrameBytes
        roomy == IF expected > MaxBytes \/ expected <= BlockBytes THEN BlockBytes
                 ELSE IF known < 0 /\ expected <= MaxBytes - BlockBytes
                      THEN expected + BlockBytes
                      ELSE expected
    IN  Smaller(roomy, MaxBytes)

ReserveBuffer ==
    /\ stage = "discard"
    /\ toDiscard = 0
    /\ input.duration # 0
    /\ toGo' = input.duration
    /\ \E guess \in Estimates : capacity' = InitialCapacity(input.duration, guess)
    /\ reservation' = capacity'
    /\ stage' = "decode"
    /\ UNCHANGED <<rangeVars, next, toDiscard, totalBytes>>

Grown == Smaller(capacity * 2, MaxBytes)

MustGrow == capacity - totalBytes < BlockBytes /\ capacity < MaxBytes

GrowBuffer ==
    /\ stage = "decode"
    /\ toGo # 0
    /\ MustGrow
    /\ capacity' = Grown
    /\ reservation' = reservation + (Grown - capacity)
    /\ stage' = "read"
    /\ UNCHANGED <<rangeVars, next, toDiscard, toGo, totalBytes>>

NoGrowth ==
    /\ stage = "decode"
    /\ toGo # 0
    /\ ~AtLimit
    /\ ~MustGrow
    /\ stage' = "read"
    /\ UNCHANGED <<rangeVars, next, toDiscard, toGo, capacity, reservation,
                   totalBytes>>

\* mutant: a read asks for a block whatever room is left.
RoomForABlock ==
    IF toGo >= 0 THEN Smaller(BufferFrames, toGo) ELSE BufferFrames

\* What the next read asks for: it has to fit.
Room ==
    LET fits == Smaller((capacity - totalBytes) \div FrameBytes, BufferFrames)
    IN  IF toGo >= 0 THEN Smaller(fits, toGo) ELSE fits

\* mutant: the frames of the read that meets the end are left out.
ReadBlockLosesLast ==
    /\ stage = "read"
    /\ LET n == Delivered(Room, BuildRest)
           done == FileFinished(Room, BuildRest)
       IN  /\ next' = next + n
           /\ totalBytes' = IF done THEN totalBytes ELSE totalBytes + n * FrameBytes
           /\ toGo' = IF toGo >= 0 THEN toGo - n ELSE toGo
           /\ stage' = IF done THEN "commit" ELSE "decode"
    /\ UNCHANGED <<rangeVars, toDiscard, capacity, reservation>>

ReadBlock ==
    /\ stage = "read"
    /\ LET n == Delivered(Room, BuildRest)
       IN  /\ next' = next + n
           /\ totalBytes' = totalBytes + n * FrameBytes
           /\ toGo' = IF toGo >= 0 THEN toGo - n ELSE toGo
           /\ stage' = IF FileFinished(Room, BuildRest) THEN "commit" ELSE "decode"
    /\ UNCHANGED <<rangeVars, toDiscard, capacity, reservation>>

\* probePCMCacheLimit: the budget is used up, so one frame more is too much.
Probe ==
    /\ stage = "decode"
    /\ toGo # 0
    /\ AtLimit
    /\ IF BuildRest > 0
       THEN GiveUp /\ tooLarge' = TRUE
       ELSE /\ stage' = "commit"
            /\ UNCHANGED <<rangeVars, next, toDiscard, toGo, capacity, reservation,
                           totalBytes>>

AllRead ==
    /\ stage = "decode"
    /\ toGo = 0
    /\ stage' = "commit"
    /\ UNCHANGED <<rangeVars, next, toDiscard, toGo, capacity, reservation,
                   totalBytes>>

CommitBuild ==
    /\ stage = "commit"
    /\ LET frames == totalBytes \div FrameBytes
       IN  IF frames = 0 THEN GiveUp /\ UNCHANGED tooLarge
           ELSE /\ Commit(Stretch(next - frames, frames))
                /\ EndBuild
                /\ UNCHANGED input

BuildNext ==
    \/ StartBuild \/ BuildFails \/ DiscardFrames \/ ReserveBuffer
    \/ GrowBuffer \/ NoGrowth \/ ReadBlock \/ Probe \/ AllRead \/ CommitBuild

BuildTypeOK ==
    /\ stage \in {"none", "discard", "decode", "read", "commit"}
    /\ next \in Nat /\ toDiscard \in Nat /\ toGo \in Nat \cup {-1}
    /\ capacity \in Nat /\ reservation \in Nat /\ totalBytes \in Nat

\* Every read asks for at least one frame, or the build would give up with "no
\* progress", and for no more than the buffer has room for; the buffer
\* is what was reserved for it and never more than the budget.
ReadsFit ==
    /\ stage = "read" => Room > 0 /\ totalBytes + Room * FrameBytes <= capacity
    /\ capacity = reservation
    /\ totalBytes <= capacity
    /\ capacity <= MaxBytes

\* A build never writes past its buffer, and refuses for good only what cannot fit.
BuildIsSound == ReadsFit /\ TooLargeIsTooLarge
================================================================================
