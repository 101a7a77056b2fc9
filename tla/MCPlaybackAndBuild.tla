--------------------------- MODULE MCPlaybackAndBuild ----------------------------
\* Instances of PlaybackAndBuild for TLC.
EXTENDS PlaybackAndBuild

\* Frames, pos, duration, LoopCount and Filters.
Range(length, from, for, times, filtered) ==
    [frames |-> length, pos |-> from, duration |-> for, loops |-> times,
     filtered |-> filtered]

MCInputs == {
    Range(4, 0, -1, 0, FALSE),      \* whole buffers: the end shows a read later
    Range(5, 0, -1, 1, FALSE),      \* two plays, as much as the cache takes
    Range(7, 1, -1, -1, FALSE),     \* endless, after a seek, too large to cache
    Range(6, 2, 3, 2, FALSE),       \* a part of the file
    Range(4, 1, 7, -1, FALSE),      \* a duration beyond the end, endless
    Range(5, 2, 2, 1, TRUE),        \* filtered: never cached
    Range(3, 3, -1, 1, FALSE),      \* empty: pos is the end of the file
    Range(3, 4, -1, 0, FALSE),      \* empty: pos is beyond it
    Range(3, 0, 0, 0, FALSE)}       \* empty: no duration

\* An endless loop over an empty range: the finding.
MCEmptyInputs == {Range(3, 3, -1, -1, FALSE), Range(3, 3, -1, 1, FALSE)}
================================================================================
