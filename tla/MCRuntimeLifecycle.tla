--------------------------- MODULE MCRuntimeLifecycle ---------------------------
(***************************************************************************)
(* Three host threads and two initializer goroutines: one more initializer *)
(* than may ever be at work, so that two at once would be seen.            *)
(***************************************************************************)
EXTENDS RuntimeLifecycle

CONSTANTS h1, h2, h3, g1, g2

MCHosts == {h1, h2, h3}
MCInitializers == {g1, g2}
================================================================================
