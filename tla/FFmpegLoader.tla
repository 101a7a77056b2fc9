------------------------------ MODULE FFmpegLoader -------------------------------
(***************************************************************************)
(* sa_ffmpeg_initialize of src/internal/ffmpeg/loader.c.  The thread that  *)
(* initializes the runtime calls it, and so does every thread that opens a *)
(* decoder, among them any host thread in SimpleAudioRuntime_FileInfo.  No *)
(* lock guards the table of libraries and functions or its flag.  On the   *)
(* processor this is built for, stores become visible in program order,    *)
(* and the compiler keeps the two around the call of av_log_set_level.     *)
(***************************************************************************)
EXTENDS Integers

CONSTANTS
    Threads,
    Fields          \* the libraries and functions of the table, in their order

ASSUME FieldsAssumption == Fields \in Nat \ {0}

VARIABLES
    loaded,     \* sa_ffmpeg_initialized
    table,      \* the fields of sa_ffmpeg that are set
    missing,    \* the fields whose file or symbol is not there
    loader      \* each thread: the field it loads next, or one of the following

Out == 0
Failed == -1
Ready == Fields + 2
Loading == 1..Fields

loaderVars == <<loaded, table, missing, loader>>

LoaderInit ==
    /\ loaded = FALSE
    /\ table = {}
    /\ missing \in SUBSET {Fields}
    /\ loader = [t \in Threads |-> Out]

Enter(t) ==
    /\ loader[t] = Out
    /\ loader' = [loader EXCEPT ![t] = IF loaded THEN Ready ELSE 1]
    /\ UNCHANGED <<loaded, table, missing>>

\* mutant: the flag is set as soon as the first field is.
LoadAndAnnounce(t) ==
    /\ loader[t] \in Loading
    /\ loader' = [loader EXCEPT ![t] = IF loader[t] \in missing THEN Failed ELSE @ + 1]
    /\ table' = IF loader[t] \in missing THEN table \ {loader[t]}
                ELSE table \cup {loader[t]}
    /\ loaded' = TRUE
    /\ UNCHANGED missing

\* LoadLibraryW or GetProcAddress: what they return is stored, be it NULL.
\* A second thread stores what the first one has stored.
Load(t) ==
    /\ loader[t] \in Loading
    /\ IF loader[t] \in missing
       THEN /\ table' = table \ {loader[t]}
            /\ loader' = [loader EXCEPT ![t] = Failed]
       ELSE /\ table' = table \cup {loader[t]}
            /\ loader' = [loader EXCEPT ![t] = @ + 1]
    /\ UNCHANGED <<loaded, missing>>

Announce(t) ==
    /\ loader[t] = Fields + 1
    /\ loaded' = TRUE
    /\ loader' = [loader EXCEPT ![t] = Ready]
    /\ UNCHANGED <<table, missing>>

\* The next call starts over; what has been loaded stays.
Return(t) ==
    /\ loader[t] \in {Ready, Failed}
    /\ loader' = [loader EXCEPT ![t] = Out]
    /\ UNCHANGED <<loaded, table, missing>>

LoaderStep(t) == Enter(t) \/ Load(t) \/ Announce(t) \/ Return(t)

\* The loader alone, whatever its callers do.
LoaderSpec == LoaderInit /\ [][\E t \in Threads : LoaderStep(t)]_loaderVars

LoaderTypeOK ==
    /\ loaded \in BOOLEAN
    /\ table \subseteq 1..Fields
    /\ missing \subseteq 1..Fields
    /\ loader \in [Threads -> Failed..Ready]

\* Whoever is told that FFmpeg is ready finds every function in the table, though
\* others may be writing it at the same time or may have failed.
TableIsLoaded ==
    \A t \in Threads : loader[t] = Ready => table = 1..Fields
================================================================================
