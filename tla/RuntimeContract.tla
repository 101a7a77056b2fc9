---------------------------- MODULE RuntimeContract ----------------------------
(***************************************************************************)
(* What a host of the DLL may rely on when it drives the runtime through   *)
(* StartInitialize, InitializationStatus and Shutdown: one status, and a   *)
(* player that is up or down.  No goroutine, mutex or thread appears here; *)
(* RuntimeLifecycle is shown to implement this module.                     *)
(***************************************************************************)

VARIABLES
    status,     \* what InitializationStatus reports
    up          \* the player accepts commands

cvars == <<status, up>>

Statuses == {"Uninitialized", "Initializing", "Ready", "Failed", "ShuttingDown"}

CInit == status = "Uninitialized" /\ up = FALSE

\* A host asks for initialization.
Request ==
    /\ status \in {"Uninitialized", "Failed"}
    /\ status' = "Initializing"
    /\ UNCHANGED up

\* The player comes up; the host may meanwhile have asked for a shutdown.
BringUp ==
    /\ status \in {"Initializing", "ShuttingDown"}
    /\ up = FALSE
    /\ up' = TRUE
    /\ UNCHANGED status

\* Ready is reported only once the player is up, Failed only when it is down.
BecomeReady ==
    /\ status = "Initializing"
    /\ up = TRUE
    /\ status' = "Ready"
    /\ UNCHANGED up

BecomeFailed ==
    /\ status = "Initializing"
    /\ up = FALSE
    /\ status' = "Failed"
    /\ UNCHANGED up

\* A host asks for a shutdown; during initialization this is a cancellation.
AskShutdown ==
    /\ status # "ShuttingDown"
    /\ status' = "ShuttingDown"
    /\ UNCHANGED up

TakeDown ==
    /\ status = "ShuttingDown"
    /\ up = TRUE
    /\ up' = FALSE
    /\ UNCHANGED status

EndShutdown ==
    /\ status = "ShuttingDown"
    /\ up = FALSE
    /\ status' = "Uninitialized"
    /\ UNCHANGED up

CNext ==
    \/ Request \/ BringUp \/ BecomeReady \/ BecomeFailed
    \/ AskShutdown \/ TakeDown \/ EndShutdown

\* The safety half of the contract.
CSafety == CInit /\ [][CNext]_cvars

\* The liveness half: no transitional status lasts for ever.
CLiveness ==
    /\ (status = "Initializing") ~> (status # "Initializing")
    /\ (status = "ShuttingDown") ~> (status = "Uninitialized")

CSpec == CSafety /\ CLiveness
================================================================================
