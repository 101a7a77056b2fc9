----------------------------- MODULE PlaybackAndBuild ----------------------------
(***************************************************************************)
(* A playback, the background build of its range, and the cache's entry    *)
(* between them, which is evicted when nobody holds a lease.  The playback *)
(* may begin before, during or after the build, capture the range itself,  *)
(* and change from the file to the cached PCM with any of its loops.       *)
(***************************************************************************)
EXTENDS FilePlayback, PcmBuild

vars == <<rangeVars, playVars, buildVars>>

Init == RangeInit /\ PlayInit /\ BuildInit

\* The cache evicts what no playback and no decoder leases.
Evict ==
    /\ Cached
    /\ ~leased
    /\ decoder.kind # "memory"
    /\ asset' = NoFrames
    /\ UNCHANGED <<input, producer, tooLarge>>

Next ==
    \/ PlayNext /\ UNCHANGED buildVars
    \/ BuildNext /\ UNCHANGED playVars
    \/ Evict /\ UNCHANGED <<playVars, buildVars>>

Spec == Init /\ [][Next]_vars

\* The worker goes on, the voice plays what it has and time passes.
FairSpec ==
    /\ Spec
    /\ WF_vars(WorkerStep /\ UNCHANGED buildVars)
    /\ WF_vars(VoicePlays /\ UNCHANGED buildVars)
    /\ WF_vars(Clock /\ UNCHANGED buildVars)

TypeOK == RangeTypeOK /\ PlayTypeOK /\ BuildTypeOK

\* The playback keeps the listener's promise: contiguous frames, the right number
\* of plays, and an end, also of a fading endless loop.
Contract == INSTANCE RangeContract WITH
    length <- RangeLength,
    stopping <- Stopping,
    ended <- IF at \notin {"freeing", "closed"} THEN "no"
             ELSE IF outcome = "finished" THEN "finished" ELSE "cut"

ImplementsContract == Contract!RSpec
ImplementsContractSafety == Contract!RSafety

\* Play refuses a range without frames with "Playback range is empty"
\* (file_playback.go:160-163).  An endless loop over such a range does not return.
EmptyRangeIsRefused == (RangeLength = 0) ~> (outcome = "refused")
================================================================================
