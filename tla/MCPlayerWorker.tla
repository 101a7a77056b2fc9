---------------------------- MODULE MCPlayerWorker ----------------------------
(***************************************************************************)
(* Small instances of PlayerWorker.  Clients are symmetric; play ids are   *)
(* not, because they are ordered.                                          *)
(***************************************************************************)
EXTENDS PlayerWorker, TLC

CONSTANTS c1, c2

OneClient == {c1}
TwoClients == {c1, c2}
MCSymmetry == Permutations(TwoClients)
================================================================================
