----------------------------- MODULE MCFFmpegDecoder -----------------------------
\* Instances of FFmpegDecoder for TLC.
EXTENDS FFmpegDecoder

\* No frames, one that fills several reads, two, and several with an empty one,
\* which are too large to keep raw.
MCFiles == {<<>>, <<5>>, <<4, 1>>, <<2, 0, 3>>}
================================================================================
