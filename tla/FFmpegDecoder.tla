------------------------------ MODULE FFmpegDecoder ------------------------------
(***************************************************************************)
(* A decoder of src/internal/ffmpeg: sa_decoder_read and                   *)
(* sa_decoder_next_frame (decoder.c), its filter graph (filter.c), the     *)
(* decoding of raw frames for the cache and their replay through a filter  *)
(* graph (raw_cache.c), and the loader each open begins with.              *)
(*                                                                         *)
(* External, and modelled from what the code relies on: the container,     *)
(* which may have any number of packets of other streams; the codec, which *)
(* may hold frames back until it is flushed but never refuses both to give *)
(* and to take; the sample converter and the filter graph, which give back *)
(* what they got in order, the graph when it likes or at the end, and      *)
(* perhaps less of it (atrim).  Only numbers of samples are modelled.      *)
(***************************************************************************)
EXTENDS FFmpegLoader, DecoderContract, Sequences, Totals

CONSTANTS
    Reader,         \* the thread that decodes, one of Threads
    Kinds,          \* "plain", "filtered", "raw"
    Files,          \* the frames of a file, one per packet, by their samples
    Delays,         \* frames the codec may hold back
    Limits,         \* samples a filter graph lets pass at most
    Sizes,          \* maxFrames of reads
    MaxRaw          \* max_bytes of a raw decode, in samples

\* A read of no frames is refused (decoder.c, raw_cache.c) before it does anything.
ASSUME DecoderAssumption ==
    /\ Kinds \subseteq {"plain", "filtered", "raw"}
    /\ Files \subseteq Seq(Nat) /\ Limits \subseteq Nat /\ Sizes \subseteq Nat \ {0}

VARIABLES
    kind,       \* also "replay": of the frames a raw decode has kept
    at,         \* where the call is; "idle" between calls
    cancelled,  \* the cancel token
    packets,    \* frames in the container not read yet
    delay, limit,
    codec,      \* frames sent and not received
    pending,    \* the packet read and not sent, as a sequence of one or no frame
    inputEof, sentFlush,
    frame,      \* the frame received last
    raw,        \* frames kept
    graph,      \* the converter or graph exists
    held,       \* samples in it
    passed,     \* samples a filter graph has given
    rest,       \* pending_samples: of an output frame that did not fit
    sentEof, graphFinished,
    finished,   \* the decoder's flag
    max, written,
    left,       \* history: samples that no read has delivered yet
    result      \* history: the last read, [max, left, n, finished]

input == <<packets, delay, limit, codec, pending, inputEof, sentFlush>>
filter == <<graph, held, passed, rest, sentEof, graphFinished>>
call == <<max, written, left, result, finished>>
decoderVars == <<kind, at, cancelled, input, frame, raw, filter, call>>
vars == <<loaderVars, decoderVars>>

NoResult == [max |-> 0, left |-> 0, n |-> 0, finished |-> FALSE]
Samples(frames) == Total(frames)
Filters == kind \in {"filtered", "replay"}
Output(frames) == IF Filters THEN Smaller(limit, Samples(frames)) ELSE Samples(frames)

Init ==
    /\ LoaderInit
    /\ kind \in Kinds /\ packets \in Files /\ delay \in Delays /\ limit \in Limits
    /\ at = "closed" /\ cancelled = FALSE
    /\ codec = <<>> /\ pending = <<>> /\ inputEof = FALSE /\ sentFlush = FALSE
    /\ frame = 0 /\ raw = <<>>
    /\ graph = FALSE /\ held = 0 /\ passed = 0 /\ rest = 0
    /\ sentEof = FALSE /\ graphFinished = FALSE
    /\ finished = FALSE /\ max = 0 /\ written = 0
    /\ left = Output(packets) /\ result = NoResult

(***************************************************************************)
(* Opening, calls and their ends.                                          *)
(***************************************************************************)

\* sa_decoder_open, when the loader lets it go on; a raw decode runs at once.
Open ==
    /\ at = "closed"
    /\ loader[Reader] = Ready
    /\ at' = IF cancelled THEN "failed" ELSE IF kind = "raw" THEN "next" ELSE "idle"
    /\ UNCHANGED <<loaderVars, kind, cancelled, input, frame, raw, filter, call>>

Cancel ==
    /\ ~cancelled
    /\ cancelled' = TRUE
    /\ UNCHANGED <<loaderVars, kind, at, input, frame, raw, filter, call>>

\* A call into FFmpeg or the allocator fails, or the callback interrupts it; the
\* caller closes the decoder.
Fails ==
    /\ at \notin {"idle", "failed"}
    /\ at' = "failed"
    /\ UNCHANGED <<loaderVars, kind, cancelled, input, frame, raw, filter, call>>

Done(n, end) ==
    /\ at' = "idle"
    /\ finished' = end
    /\ left' = left - n
    /\ result' = [max |-> max, left |-> left, n |-> n, finished |-> end]

\* A read begins with what an earlier one left in the filter graph.
Read ==
    /\ at = "idle"
    /\ max' \in Sizes
    /\ written' = 0
    /\ at' = IF finished THEN "full"
             ELSE IF kind = "replay" /\ cancelled THEN "failed"
             ELSE IF graph /\ Filters /\ ~graphFinished THEN "drain" ELSE "next"
    /\ UNCHANGED <<loaderVars, kind, cancelled, input, frame, raw, filter, left,
                   result, finished>>

\* The buffer is full, or the decoder had finished before.
ReturnFull ==
    /\ at = "full"
    /\ Done(written, finished)
    /\ UNCHANGED <<loaderVars, kind, cancelled, input, frame, raw, filter, max,
                   written>>

\* Where a read goes on that has written n frames in all.
Onward(n) == IF n < max THEN "next" ELSE "full"

(***************************************************************************)
(* sa_decoder_next_frame: receive, send, read packets.                     *)
(***************************************************************************)

Unread == kind # "replay"

IfCancelled ==
    /\ at \in {"next", "packets"}
    /\ cancelled
    /\ kind = "replay" => packets # <<>>
    /\ at' = "failed"
    /\ UNCHANGED <<loaderVars, kind, cancelled, input, frame, raw, filter, call>>

NoFrameYet == codec = <<>> \/ (~sentFlush /\ Len(codec) <= delay)

Receive ==
    /\ at = "next" /\ ~cancelled /\ Unread
    /\ ~NoFrameYet
    /\ frame' = codec[1]
    /\ codec' = Tail(codec)
    /\ at' = IF kind = "raw" THEN "append" ELSE "convert"
    /\ UNCHANGED <<loaderVars, kind, cancelled, packets, delay, limit, pending,
                   inputEof, sentFlush, raw, filter, call>>

ReceiveEof ==
    /\ at = "next" /\ ~cancelled /\ Unread
    /\ sentFlush /\ codec = <<>>
    /\ at' = IF kind = "raw" THEN "kept" ELSE "flush"
    /\ UNCHANGED <<loaderVars, kind, cancelled, input, frame, raw, filter, call>>

SendPacket ==
    /\ at = "next" /\ ~cancelled /\ Unread
    /\ NoFrameYet /\ pending # <<>>
    /\ codec' = Append(codec, pending[1])
    /\ pending' = <<>>
    /\ UNCHANGED <<loaderVars, kind, at, cancelled, packets, delay, limit, inputEof,
                   sentFlush, frame, raw, filter, call>>

SendFlush ==
    /\ at = "next" /\ ~cancelled /\ Unread
    /\ NoFrameYet /\ pending = <<>> /\ inputEof /\ ~sentFlush
    /\ sentFlush' = TRUE
    /\ UNCHANGED <<loaderVars, kind, at, cancelled, packets, delay, limit, codec,
                   pending, inputEof, frame, raw, filter, call>>

WantPackets ==
    /\ at = "next" /\ ~cancelled /\ Unread
    /\ NoFrameYet /\ pending = <<>> /\ ~inputEof
    /\ at' = "packets"
    /\ UNCHANGED <<loaderVars, kind, cancelled, input, frame, raw, filter, call>>

\* av_read_frame: a packet of the stream, the end, or a packet of another stream.
NextPacket ==
    \/ /\ packets # <<>>
       /\ pending' = <<packets[1]>>
       /\ packets' = Tail(packets)
       /\ at' = "next"
       /\ UNCHANGED inputEof
    \/ /\ packets = <<>>
       /\ inputEof' = TRUE
       /\ at' = "next"
       /\ UNCHANGED <<pending, packets>>
    \/ /\ at' = "skip"
       /\ UNCHANGED <<pending, packets, inputEof>>

\* mutant: the token is not looked at between packets.
ReadPacketUncancelled ==
    /\ at = "packets"
    /\ NextPacket
    /\ UNCHANGED <<loaderVars, kind, cancelled, delay, limit, codec, sentFlush, frame,
                   raw, filter, call>>

ReadPacket ==
    /\ at = "packets"
    /\ ~cancelled
    /\ NextPacket
    /\ UNCHANGED <<loaderVars, kind, cancelled, delay, limit, codec, sentFlush, frame,
                   raw, filter, call>>

\* The packet belongs to another stream.
SkipPacket ==
    /\ at = "skip"
    /\ at' = "packets"
    /\ UNCHANGED <<loaderVars, kind, cancelled, input, frame, raw, filter, call>>

(***************************************************************************)
(* The raw frames of a file: decoded, kept up to a limit, replayed.        *)
(***************************************************************************)

\* What is accounted for a frame besides its samples (SA_RAW_FRAME_OVERHEAD).
Overhead == 1

\* sa_raw_audio_append_frame, or the file is too large to keep.
AppendFrame ==
    /\ at = "append"
    /\ LET fits == Samples(raw) + Len(raw) * Overhead + frame + Overhead <= MaxRaw
       IN  /\ raw' = IF fits THEN Append(raw, frame) ELSE raw
           /\ at' = IF fits THEN "next" ELSE "failed"
    /\ UNCHANGED <<loaderVars, kind, cancelled, input, frame, filter, call>>

\* The whole file is kept; a playback opens it with a filter.
Keep ==
    /\ at = "kept"
    /\ IF raw = <<>>
       THEN /\ at' = "failed"
            /\ UNCHANGED <<kind, packets, left>>
       ELSE /\ at' = "idle"
            /\ kind' = "replay"
            /\ packets' = raw
            /\ left' = Smaller(limit, Samples(raw))
    /\ UNCHANGED <<loaderVars, cancelled, delay, limit, codec, pending, inputEof,
                   sentFlush, frame, raw, filter, finished, max, written, result>>

ReplayFrame ==
    /\ at = "next" /\ kind = "replay" /\ ~cancelled
    /\ packets # <<>>
    /\ frame' = packets[1]
    /\ packets' = Tail(packets)
    /\ at' = "convert"
    /\ UNCHANGED <<loaderVars, kind, cancelled, delay, limit, codec, pending, inputEof,
                   sentFlush, raw, filter, call>>

ReplayEof ==
    /\ at = "next" /\ kind = "replay"
    /\ packets = <<>>
    /\ at' = "flush"
    /\ UNCHANGED <<loaderVars, kind, cancelled, input, frame, raw, filter, call>>

(***************************************************************************)
(* Converting a frame.                                                     *)
(***************************************************************************)

SkipEmpty ==
    /\ at = "convert" /\ Unread
    /\ frame = 0
    /\ at' = "next"
    /\ UNCHANGED <<loaderVars, kind, cancelled, input, frame, raw, filter, call>>

\* mutant: the converter may fill the whole buffer, whatever is in it already.
ConvertOverruns ==
    /\ at = "convert" /\ kind = "plain" /\ frame > 0
    /\ graph' = TRUE
    /\ LET n == Smaller(held + frame, max)
       IN  /\ written' = written + n
           /\ held' = held + frame - n
           /\ at' = Onward(written + n)
    /\ UNCHANGED <<loaderVars, kind, cancelled, input, frame, raw, passed, rest,
                   sentEof, graphFinished, max, left, result, finished>>

\* swr_convert keeps what does not fit into the buffer.
Convert ==
    /\ at = "convert" /\ kind = "plain" /\ frame > 0
    /\ graph' = TRUE
    /\ LET n == Smaller(held + frame, max - written)
       IN  /\ written' = written + n
           /\ held' = held + frame - n
           /\ at' = Onward(written + n)
    /\ UNCHANGED <<loaderVars, kind, cancelled, input, frame, raw, passed, rest,
                   sentEof, graphFinished, max, left, result, finished>>

\* A graph that has ended before its input refuses the frame or drops it.
AddFrame ==
    /\ at = "convert" /\ Filters
    /\ frame > 0 \/ kind = "replay"
    /\ graph' = TRUE
    /\ held' = Smaller(held + frame, limit - passed)
    /\ at' \in IF graphFinished THEN {"failed", "drain"} ELSE {"drain"}
    /\ UNCHANGED <<loaderVars, kind, cancelled, input, frame, raw, passed, rest,
                   sentEof, graphFinished, call>>

\* mutant: what did not fit is not kept for the next read.
StoredNever(samples) == 0

\* sa_filter_store_pending: the samples of an output frame that did not fit.
Stored(samples) == samples

Draining == at \in {"drain", "flushing"} /\ written < max

CopyRest ==
    /\ Draining
    /\ rest > 0
    /\ LET n == Smaller(rest, max - written)
       IN  /\ written' = written + n
           /\ rest' = rest - n
           /\ at' = IF written + n < max THEN at ELSE "full"
    /\ UNCHANGED <<loaderVars, kind, cancelled, input, frame, raw, graph, held, passed,
                   sentEof, graphFinished, max, left, result, finished>>

SinkFrame ==
    /\ Draining
    /\ rest = 0 /\ ~graphFinished
    /\ \E samples \in 1..held :
           LET n == Smaller(samples, max - written)
           IN  /\ written' = written + n
               /\ rest' = Stored(samples - n)
               /\ held' = held - samples
               /\ passed' = passed + samples
               /\ at' = IF written + n < max THEN at ELSE "full"
    /\ UNCHANGED <<loaderVars, kind, cancelled, input, frame, raw, graph, sentEof,
                   graphFinished, max, left, result, finished>>

\* The graph wants more input.
SinkAgain ==
    /\ Draining
    /\ rest = 0 /\ ~graphFinished /\ ~sentEof
    /\ at' = "next"
    /\ UNCHANGED <<loaderVars, kind, cancelled, input, frame, raw, filter, call>>

SinkEof ==
    /\ Draining
    /\ rest = 0
    /\ graphFinished \/ (held = 0 /\ (sentEof \/ passed = limit))
    /\ graphFinished' = TRUE
    /\ IF at = "flushing"
       THEN Done(written, TRUE)
       ELSE /\ at' = "next"
            /\ UNCHANGED <<left, result, finished>>
    /\ UNCHANGED <<loaderVars, kind, cancelled, input, frame, raw, graph, held, passed,
                   rest, sentEof, max, written>>

(***************************************************************************)
(* The end of the input.                                                   *)
(***************************************************************************)

\* sa_decoder_flush_resampler
FlushPlain ==
    /\ at = "flush" /\ kind = "plain"
    /\ LET n == Smaller(held, max - written)
       IN  /\ held' = held - n
           /\ written' = written + n
           /\ Done(written + n, written + n < max)
    /\ UNCHANGED <<loaderVars, kind, cancelled, input, frame, raw, graph, passed, rest,
                   sentEof, graphFinished, max>>

\* sa_filter_flush; no frame ever came if there is no graph.
FlushFilter ==
    /\ at = "flush" /\ Filters
    /\ IF graph
       THEN /\ sentEof' = TRUE
            /\ at' = "flushing"
            /\ UNCHANGED <<left, result, finished>>
       ELSE /\ Done(written, TRUE)
            /\ UNCHANGED sentEof
    /\ UNCHANGED <<loaderVars, kind, cancelled, input, frame, raw, graph, held, passed,
                   rest, graphFinished, max, written>>

(***************************************************************************)
(* The specification and its properties.                                   *)
(***************************************************************************)

CallStep ==
    \/ ReturnFull \/ IfCancelled
    \/ Receive \/ ReceiveEof \/ SendPacket \/ SendFlush \/ WantPackets \/ ReadPacket \/ SkipPacket
    \/ AppendFrame \/ Keep \/ ReplayFrame \/ ReplayEof
    \/ SkipEmpty \/ Convert \/ AddFrame
    \/ CopyRest \/ SinkFrame \/ SinkAgain \/ SinkEof
    \/ FlushPlain \/ FlushFilter

\* A thread that is in a decoder does not come back to the loader.
Busy(t) == t = Reader /\ at \notin {"closed", "failed"}

Next ==
    \/ \E t \in Threads : ~Busy(t) /\ LoaderStep(t) /\ UNCHANGED decoderVars
    \/ Open \/ Read \/ Cancel \/ Fails
    \/ CallStep

Spec == Init /\ [][Next]_vars

\* The thread of a call runs, and reading from the container does not block: it
\* returns, or the interrupt callback ends it.
FairSpec == Spec /\ WF_vars(CallStep)

Places == {"closed", "idle", "failed", "full", "next", "packets", "skip", "append", "kept",
           "convert", "drain", "flush", "flushing"}

TypeOK ==
    /\ LoaderTypeOK
    /\ kind \in Kinds \cup {"replay"} /\ at \in Places
    /\ left \in Nat /\ held \in Nat /\ rest \in Nat
    /\ written \in 0..max /\ passed \in 0..limit

\* What FilePlayback and PcmBuild assume of a decoder: a read fills the buffer until
\* the samples run out, and the read that does not fill it says that it was the last.
\* So seekStart and decodePCMBuffer, which loop on reads, end.
ReadsAreExact ==
    result # NoResult =>
        /\ result.n = Delivered(result.max, result.left)
        /\ result.finished = FileFinished(result.max, result.left)

\* A cancelled call returns, though the container may have nothing but packets of
\* other streams: close() of the cache waits for its workers.
CancelEnds == cancelled ~> at \in {"closed", "idle", "failed"}
================================================================================
