------------------------------ MODULE MCAudioCache ------------------------------
(***************************************************************************)
(* AudioCache for TLC.  Assets, workers, playbacks and keys of one kind are *)
(* interchangeable: no property of the safety runs names one of them.       *)
(***************************************************************************)
EXTENDS AudioCache, TLC

Symmetry ==
    Permutations(PcmKeys) \cup Permutations(Assets) \cup Permutations(Workers)
        \cup Permutations(Files)
================================================================================
