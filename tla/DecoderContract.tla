----------------------------- MODULE DecoderContract -----------------------------
(***************************************************************************)
(* What a read of a decoder delivers, for those who read (FilePlayback,    *)
(* PcmBuild) and for those who are read: sa_decoder_read of                *)
(* src/internal/ffmpeg/decoder.c, sa_raw_filter_decoder_read of            *)
(* raw_cache.c and pcmMemoryDecoder.Read of                                *)
(* src/internal/player/pcm_memory_decoder.go.  A frame is one sample of    *)
(* each channel; only numbers of frames are modelled.                      *)
(***************************************************************************)
EXTENDS Integers

Smaller(a, b) == IF a <= b THEN a ELSE b

\* A read of at most max frames when left frames are left fills the buffer
\* unless the frames run out.
Delivered(max, left) == Smaller(max, left)

\* A decoder of a file notices the end only when it cannot fill the buffer:
\* the read that takes the last frame may not say so.
FileFinished(max, left) == left < max

\* A decoder of cached PCM knows the end beforehand.
MemoryFinished(max, left) == left <= max
================================================================================
