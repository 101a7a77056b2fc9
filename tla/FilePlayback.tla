------------------------------ MODULE FilePlayback -------------------------------
(***************************************************************************)
(* One playback on the worker thread: src/internal/player/file_playback.go *)
(* with its fade-out (fade_out.go), its in-memory decoder                  *)
(* (pcm_memory_decoder.go) and its XAudio2 voice (xaudio.go, xaudio.cpp).  *)
(* It streams the range through a decoder into buffers that the voice      *)
(* plays, or, when the cache has the range, submits the cached PCM itself. *)
(* Times are ticks and gains are of FullGain.  A step of the worker is one *)
(* read, submission or release; the voice plays and the clock runs between *)
(* any two.                                                                *)
(***************************************************************************)
EXTENDS DecodedRange

CONSTANTS
    Targets,        \* targetQueuedBuffers
    MaxRepeats,     \* plays of one cached submission (255 in fillTo)
    FullGain,       \* the gain without a fade-out
    FadeTimes,      \* fade-outs a host asks for
    MaxStops        \* bound: commands that start a fade-out

ASSUME PlaybackAssumption ==
    /\ Targets \in Nat \ {0}
    /\ MaxRepeats \in Nat \ {0}
    /\ FullGain \in Nat \ {0}
    /\ FadeTimes \subseteq Nat \ {0}
    /\ MaxStops \in Nat

VARIABLES
    at,         \* where the worker is in this playback
    creating,   \* newFilePlayback has not returned
    outcome,    \* "none", "refused", "error", "finished" or "stopped"
    decoder,    \* [kind, next]: the frame its next read starts with
    discard,    \* framesToDiscard of seekStart
    remaining,  \* remainingFrames
    loops,      \* options.LoopCount
    buffers,    \* submitted buffers, each by its first frame
    eof,
    leased,     \* cacheLease # nil: the voice plays the cached PCM
    plays,      \* remainingPlays
    capture,    \* what pcmCapture holds; producer says whether there is one
    target,     \* of the refill pass
    queue,      \* the voice's buffers: [from, frames, times, end]
    fade,       \* fadeOut: [gain, elapsed, time], or NoFade
    level,      \* the part of the gain that the voice got from the fade-out
    stops,      \* fade-outs asked for so far
    heard, left \* history: the frames heard of the present play (-1: not those
                \* that follow), and the plays that follow it

source == <<decoder, discard, remaining, loops>>
voice == <<queue, heard, left>>
fading == <<fade, level, stops>>
playVars == <<at, creating, outcome, source, buffers, eof, leased, plays,
              capture, target, voice, fading>>

NoFade == [gain |-> FullGain, elapsed |-> 0, time |-> 0]
NoDecoder == [kind |-> "none", next |-> 0]
Entry(from, frames, times, end) ==
    [from |-> from, frames |-> frames, times |-> times, end |-> end]
HasVoice == at \notin {"open", "freeing", "closed"}

PlayInit ==
    /\ at = "open" /\ creating = TRUE /\ outcome = "none"
    /\ decoder = NoDecoder /\ discard = 0 /\ remaining = -1
    /\ loops = input.loops
    /\ buffers = <<>> /\ eof = FALSE
    /\ leased = FALSE /\ plays = 0
    /\ capture = NoFrames
    /\ target = Targets
    /\ queue = <<>>
    /\ fade = NoFade /\ level = FullGain /\ stops = 0
    /\ heard = 0 /\ left = input.loops

(***************************************************************************)
(* The end: close() destroys the voice before it frees what it plays.      *)
(***************************************************************************)

End(how) ==
    /\ at' = "closing"
    /\ outcome' = IF creating THEN "refused" ELSE how
    /\ UNCHANGED <<creating, target>>

\* An unfinished capture is aborted, the voice destroyed.
DestroyVoice ==
    /\ at = "closing"
    /\ at' = "freeing"
    /\ queue' = <<>>
    /\ capture' = NoFrames
    /\ producer' = IF producer = "capture" THEN "nobody" ELSE producer
    /\ UNCHANGED <<input, asset, tooLarge, creating, outcome, source, buffers, eof,
                   leased, plays, target, heard, left, fading>>

FreeAll ==
    /\ at = "freeing"
    /\ at' = "closed"
    /\ buffers' = <<>>
    /\ decoder' = NoDecoder
    /\ leased' = FALSE
    /\ UNCHANGED <<rangeVars, creating, outcome, discard, remaining, loops, eof,
                   plays, capture, target, voice, fading>>

\* A call into the decoder, the voice or the allocator fails.
Fails ==
    /\ at \in {"open", "begin", "seek", "fill", "restart", "update"}
    /\ at' = IF at = "open" THEN "closed" ELSE "closing"
    /\ outcome' = IF creating THEN "refused" ELSE "error"
    /\ UNCHANGED <<rangeVars, creating, source, buffers, eof, leased, plays,
                   capture, target, voice, fading>>

(***************************************************************************)
(* newFilePlayback, seekStart and restart.                                 *)
(***************************************************************************)

\* newCachedFilePlayback: an endless loop is one submission.
PlayCached ==
    /\ at = "open"
    /\ ~input.filtered
    /\ Cached
    /\ leased' = TRUE
    /\ IF loops < 0
       THEN /\ queue' = <<Entry(asset.from, asset.frames, -1, FALSE)>>
            /\ UNCHANGED plays
       ELSE /\ plays' = loops + 1
            /\ UNCHANGED queue
    /\ at' = "fill"
    /\ target' = 1
    /\ UNCHANGED <<rangeVars, creating, outcome, source, buffers, eof, capture,
                   heard, left, fading>>

\* A decoder of the file, or of the raw frames the cache has of it, starts at
\* the first frame, and the frames before pos are discarded.
OpenFile ==
    /\ decoder' = [kind |-> "file", next |-> 0]
    /\ discard' = input.pos
    /\ remaining' = input.duration

PlayStreamed ==
    /\ at = "open"
    /\ input.filtered \/ ~Cached
    /\ IF input.duration = 0
       THEN /\ at' = "closing"
            /\ outcome' = "refused"
            /\ UNCHANGED source
       ELSE /\ at' = "begin"
            /\ OpenFile
            /\ UNCHANGED <<outcome, loops>>
    /\ target' = 1
    /\ UNCHANGED <<rangeVars, creating, buffers, eof, leased, plays, capture,
                   voice, fading>>

\* The frames a read of the decoder gets at most, and whether it was the last.
Rest ==
    IF decoder.kind = "file"
    THEN IF decoder.next < input.frames THEN input.frames - decoder.next ELSE 0
    ELSE asset.from + asset.frames - decoder.next
Finished(max) ==
    IF decoder.kind = "file" THEN FileFinished(max, Rest)
    ELSE MemoryFinished(max, Rest)

Seek ==
    /\ at \in {"begin", "seek"}
    /\ discard > 0
    /\ LET max == Smaller(discard, BufferFrames)
           n == Delivered(max, Rest)
       IN  /\ decoder' = [decoder EXCEPT !.next = @ + n]
           /\ discard' = discard - n
           /\ IF Finished(max) /\ discard' > 0
              THEN End("error")
              ELSE UNCHANGED <<at, creating, outcome, target>>
    /\ UNCHANGED <<rangeVars, remaining, loops, buffers, eof, leased, plays,
                   capture, voice, fading>>

\* beginPCMCapture, after the seek of a first play, if nobody makes the PCM.
\* The cache may also refuse: the range is new, too large or failed lately.
BeginCapture ==
    /\ at = "begin"
    /\ ~input.filtered /\ ~Cached /\ ~tooLarge /\ producer = "nobody"
    /\ producer' = "capture"
    /\ capture' = Stretch(decoder.next, 0)

Sought ==
    /\ at \in {"begin", "seek"}
    /\ discard = 0
    /\ BeginCapture \/ UNCHANGED <<producer, capture>>
    /\ at' = "fill"
    /\ UNCHANGED <<input, asset, tooLarge, creating, outcome, source, buffers, eof,
                   leased, plays, target, voice, fading>>

\* mutant: an endless loop is counted down, too.
LoopsAlwaysFewer == loops - 1

LoopsAfter == IF loops > 0 THEN loops - 1 ELSE loops

\* The next play: from the cache if it has the range by now.  The decoder that
\* is closed gives its lease back before the new one takes it.
Restart ==
    /\ at = "restart"
    /\ loops' = LoopsAfter
    /\ IF Cached /\ ~input.filtered
       THEN /\ decoder' = [kind |-> "memory", next |-> asset.from]
            /\ remaining' = input.duration
            /\ at' = "fill"
            /\ UNCHANGED discard
       ELSE /\ OpenFile
            /\ at' = "seek"
    /\ UNCHANGED <<rangeVars, creating, outcome, buffers, eof, leased, plays,
                   capture, target, voice, fading>>

(***************************************************************************)
(* fillTo.                                                                 *)
(***************************************************************************)

\* mutant: every submission of a cached range ends the stream.
ChunkAlwaysEnds(n) == Entry(asset.from, asset.frames, n, TRUE)

\* A submission of n of the remaining plays: the last one ends the stream.
Chunk(n) == Entry(asset.from, asset.frames, n, n = plays)

FillCached ==
    /\ at = "fill"
    /\ leased
    /\ Len(queue) < target
    /\ plays > 0
    /\ LET n == Smaller(plays, MaxRepeats)
       IN  /\ queue' = Append(queue, Chunk(n))
           /\ plays' = plays - n
    /\ UNCHANGED <<rangeVars, at, creating, outcome, source, buffers, eof, leased,
                   capture, target, heard, left, fading>>

Filling == at = "fill" /\ ~leased /\ ~eof /\ Len(buffers) < target

\* mutant: reads are not limited to the duration.
ToReadBlock == BufferFrames

\* The code also tests for nothing to read: a play with remainingFrames = 0 is
\* over in the read that took the last frame, so that never happens.
ToRead == IF remaining >= 0 THEN Smaller(remaining, BufferFrames) ELSE BufferFrames

\* A read that delivers frames: they are submitted, and the last ones of the
\* last play end the stream.
SubmitFrames(n, over) ==
    /\ queue' = Append(queue, Entry(decoder.next, n, 1, over /\ loops = 0))
    /\ buffers' = Append(buffers, decoder.next)

\* A read that delivers none: what the voice still has is the end after all.
SubmitNothing(over) ==
    /\ queue' = IF over /\ loops = 0 /\ buffers # <<>> /\ queue # <<>>
                THEN [queue EXCEPT ![Len(queue)].end = TRUE]
                ELSE queue
    /\ UNCHANGED buffers

\* append and, when the play is over, finish: the capture is given up for ever if it
\* exceeds the budget, given up for want of memory or frames, committed or goes on.
Captured(n, over) ==
    LET frames == capture.frames + n
    IN  IF producer # "capture"
        THEN UNCHANGED <<asset, producer, tooLarge, capture>>
        ELSE \/ /\ tooLarge' = (tooLarge \/ frames * FrameBytes > MaxBytes)
                /\ producer' = "nobody"
                /\ capture' = NoFrames
                /\ UNCHANGED asset
             \/ /\ frames * FrameBytes <= MaxBytes
                /\ over /\ frames > 0
                /\ Commit(Stretch(capture.from, frames))
                /\ capture' = NoFrames
             \/ /\ frames * FrameBytes <= MaxBytes
                /\ ~over
                /\ capture' = [capture EXCEPT !.frames = frames]
                /\ UNCHANGED <<asset, producer, tooLarge>>

Fill ==
    /\ Filling
    /\ LET n == Delivered(ToRead, Rest)
           over == Finished(ToRead) \/ (remaining >= 0 /\ remaining = n)
       IN  /\ decoder' = [decoder EXCEPT !.next = @ + n]
           /\ remaining' = IF remaining >= 0 THEN remaining - n ELSE remaining
           /\ IF n > 0 THEN SubmitFrames(n, over) ELSE SubmitNothing(over)
           /\ Captured(n, over)
           /\ at' = IF over /\ loops # 0 THEN "restart" ELSE "fill"
           /\ eof' = (over /\ loops = 0)
    /\ UNCHANGED <<input, creating, outcome, discard, loops, leased, plays, target,
                   heard, left, fading>>

\* The queue is long enough, or there is no more.  A new playback without
\* any frame is refused; otherwise Play returns, or the worker goes on.
Filled ==
    /\ at = "fill"
    /\ ~Filling
    /\ leased => (Len(queue) >= target \/ plays = 0)
    /\ IF creating /\ eof /\ buffers = <<>>
       THEN /\ at' = "closing"
            /\ outcome' = "refused"
            /\ UNCHANGED <<creating, target>>
       ELSE /\ at' = "idle"
            /\ creating' = FALSE
            /\ target' = IF creating THEN Targets ELSE target
            /\ UNCHANGED outcome
    /\ UNCHANGED <<rangeVars, source, buffers, eof, leased, plays, capture, voice,
                   fading>>

(***************************************************************************)
(* The worker's tick: update the fade-out, reclaim, then refill to one,    *)
(* two and so on, taking a command between two passes.                     *)
(***************************************************************************)

\* fadeGainAt: without a fade-out, or at its start, its gain.
Gain(f) ==
    IF f.elapsed = 0 THEN f.gain
    ELSE IF f.elapsed >= f.time THEN 0
    ELSE (f.gain * (f.time - f.elapsed)) \div f.time

Stopping == fade.time > 0

Tick ==
    /\ at = "idle"
    /\ target = Targets
    /\ at' = "update"
    /\ UNCHANGED <<rangeVars, creating, outcome, source, buffers, eof, leased,
                   plays, capture, target, voice, fading>>

UpdateFadeOut ==
    /\ at = "update"
    /\ level' = Gain(fade)
    /\ IF Stopping /\ Gain(fade) = 0
       THEN End("stopped")
       ELSE /\ at' = "reclaim"
            /\ UNCHANGED <<creating, outcome, target>>
    /\ UNCHANGED <<rangeVars, source, buffers, eof, leased, plays, capture, voice,
                   fade, stops>>

\* mutant: one buffer too many is freed.
StillQueuedShort == SubSeq(buffers, Len(buffers) - Len(queue) + 2, Len(buffers))

\* The voice has as many buffers left as it reports, the last ones submitted.
StillQueued == SubSeq(buffers, Len(buffers) - Len(queue) + 1, Len(buffers))

Reclaim ==
    /\ at = "reclaim"
    /\ IF leased
       THEN /\ eof' = (queue = <<>> /\ plays = 0)
            /\ UNCHANGED buffers
       ELSE /\ buffers' = StillQueued
            /\ UNCHANGED eof
    /\ IF eof' /\ buffers' = <<>>
       THEN End(IF Stopping THEN "stopped" ELSE "finished")
       ELSE /\ at' = "fill"
            /\ target' = 1
            /\ UNCHANGED <<creating, outcome>>
    /\ UNCHANGED <<rangeVars, source, leased, plays, capture, voice, fading>>

Refill ==
    /\ at = "idle"
    /\ target < Targets
    /\ at' = "fill"
    /\ target' = target + 1
    /\ UNCHANGED <<rangeVars, creating, outcome, source, buffers, eof, leased,
                   plays, capture, voice, fading>>

(***************************************************************************)
(* Commands, which the worker takes between two steps of its own, the      *)
(* clock and the voice.                                                    *)
(***************************************************************************)

Stop ==
    /\ at = "idle"
    /\ End("stopped")
    /\ UNCHANGED <<rangeVars, source, buffers, eof, leased, plays, capture, voice,
                   fading>>

\* mutant: a fade-out that is asked for again starts from the full gain.
StartFadeOutAnew(time) ==
    /\ at = "idle"
    /\ stops < MaxStops
    /\ stops' = stops + 1
    /\ fade' = [gain |-> FullGain, elapsed |-> 0, time |-> time]
    /\ UNCHANGED <<rangeVars, at, creating, outcome, source, buffers, eof, leased,
                   plays, capture, target, voice, level>>

\* startFadeOut: from the gain that an earlier fade-out has reached.
StartFadeOut(time) ==
    /\ at = "idle"
    /\ stops < MaxStops
    /\ stops' = stops + 1
    /\ fade' = [gain |-> Gain(fade), elapsed |-> 0, time |-> time]
    /\ UNCHANGED <<rangeVars, at, creating, outcome, source, buffers, eof, leased,
                   plays, capture, target, voice, level>>

\* applyOutput sets the host's gain and that of the fade-out together.
SetPosition ==
    /\ at = "idle"
    /\ level' = Gain(fade)
    /\ UNCHANGED <<rangeVars, at, creating, outcome, source, buffers, eof, leased,
                   plays, capture, target, voice, fade, stops>>

Clock ==
    /\ HasVoice
    /\ fade.elapsed < fade.time
    /\ fade' = [fade EXCEPT !.elapsed = @ + 1]
    /\ UNCHANGED <<rangeVars, at, creating, outcome, source, buffers, eof, leased,
                   plays, capture, target, voice, level, stops>>

\* What the listener makes of n frames that start with from.
Listen(from, n) ==
    IF from # input.pos + heard
    THEN heard' = -1 /\ UNCHANGED left
    ELSE IF heard + n = RangeLength /\ left # 0
         THEN heard' = 0 /\ left' = IF left > 0 THEN left - 1 ELSE left
         ELSE heard' = heard + n /\ UNCHANGED left

\* The voice has played its first buffer once: it repeats it or returns it.
VoicePlays ==
    /\ HasVoice
    /\ queue # <<>>
    /\ LET first == queue[1]
       IN  /\ Listen(first.from, first.frames)
           /\ queue' = IF first.times = 1 THEN Tail(queue)
                       ELSE IF first.times < 0 THEN queue
                       ELSE [queue EXCEPT ![1].times = @ - 1]
    /\ UNCHANGED <<rangeVars, at, creating, outcome, source, buffers, eof, leased,
                   plays, capture, target, fading>>

\* The steps the worker takes of itself.
WorkerStep ==
    \/ PlayCached \/ PlayStreamed \/ Seek \/ Sought \/ Restart
    \/ FillCached \/ Fill \/ Filled
    \/ Tick \/ UpdateFadeOut \/ Reclaim \/ Refill
    \/ DestroyVoice \/ FreeAll

PlayNext ==
    \/ WorkerStep
    \/ Fails
    \/ Stop
    \/ \E time \in FadeTimes : StartFadeOut(time)
    \/ SetPosition
    \/ Clock
    \/ VoicePlays

(***************************************************************************)
(* Types and properties.                                                   *)
(***************************************************************************)

EntryType == [from: Nat, frames: Nat, times: Nat \cup {-1}, end: BOOLEAN]

PlayTypeOK ==
    /\ at \in {"open", "begin", "seek", "fill", "restart", "idle", "update",
               "reclaim", "closing", "freeing", "closed"}
    /\ creating \in BOOLEAN /\ eof \in BOOLEAN /\ leased \in BOOLEAN
    /\ outcome \in {"none", "refused", "error", "finished", "stopped"}
    /\ decoder \in [kind: {"none", "file", "memory"}, next: Nat]
    /\ discard \in Nat /\ plays \in Nat
    /\ remaining \in Nat \cup {-1} /\ loops \in Nat \cup {-1}
    /\ buffers \in Seq(Nat)
    /\ capture \in [from: Nat, frames: Nat]
    /\ target \in 1..Targets
    /\ queue \in Seq(EntryType)
    /\ fade \in [gain: Nat, elapsed: Nat, time: Nat]
    /\ level \in 0..FullGain
    /\ stops \in 0..MaxStops
    /\ heard \in Nat \cup {-1} /\ left \in Nat \cup {-1}

\* The end-of-stream mark is the only thing that tells XAudio2 that what follows
\* is no starvation: it may stand on the last buffer of the last play only, and
\* when the playback has submitted everything, it stands there, be it that the
\* decoder noticed the end only in the read after it (Discontinuity).
EndMarks ==
    /\ \A i \in DOMAIN queue :
           queue[i].end => i = Len(queue) /\ (IF leased THEN plays = 0 ELSE eof)
    /\ queue # <<>> /\ (IF leased THEN plays = 0 /\ input.loops >= 0 ELSE eof)
           => queue[Len(queue)].end

\* What the voice has in its queue is allocated: its buffers are the last ones of
\* those not yet freed, in order, or the cached PCM, which the lease keeps from
\* eviction; and no decoder reads cached PCM that has gone.
BuffersOutliveVoice ==
    /\ IF leased
       THEN Cached /\ \A i \in DOMAIN queue : queue[i].from = asset.from
       ELSE /\ Len(queue) <= Len(buffers)
            /\ \A i \in DOMAIN queue :
                   queue[i].from = buffers[Len(buffers) - Len(queue) + i]
    /\ decoder.kind = "memory" => Cached

\* A sound that is fading out never gets louder, whatever positions and further
\* stops the host sends (fade_out.go).
FadeNeverRises == [][Stopping => level' <= level]_playVars
================================================================================
