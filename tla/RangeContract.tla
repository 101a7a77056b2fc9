------------------------------ MODULE RangeContract ------------------------------
(***************************************************************************)
(* What a listener of one playback is promised: the frames of the range in *)
(* order and without a gap, as many times as asked for, and then the end.  *)
(* An error or a stop may cut a playback short at any time.  A playback    *)
(* that is not endless ends, and a stop that was asked for ends any.       *)
(***************************************************************************)
EXTENDS Integers

VARIABLES
    length,     \* frames of the range
    left,       \* plays that follow the present one; -1 for an endless loop
    heard,      \* frames of the present play that have been heard
    stopping,   \* a stop with a fade-out has been asked for
    ended       \* "no", "finished" or "cut"

rvars == <<length, left, heard, stopping, ended>>

RInit ==
    /\ length \in Nat
    /\ left \in Nat \cup {-1}
    /\ heard = 0
    /\ stopping = FALSE
    /\ ended = "no"

\* The listener hears n more frames; the next play follows without a gap.
Hear(n) ==
    /\ ended = "no"
    /\ heard + n <= length
    /\ IF heard + n = length /\ left # 0
       THEN /\ heard' = 0
            /\ left' = IF left > 0 THEN left - 1 ELSE left
       ELSE /\ heard' = heard + n
            /\ UNCHANGED left
    /\ UNCHANGED <<length, stopping, ended>>

AskStop ==
    /\ ended = "no"
    /\ stopping' = TRUE
    /\ UNCHANGED <<length, left, heard, ended>>

\* The natural end: everything has been heard.
Finish ==
    /\ ended = "no"
    /\ left = 0
    /\ heard = length
    /\ ended' = "finished"
    /\ UNCHANGED <<length, left, heard, stopping>>

Cut ==
    /\ ended = "no"
    /\ ended' = "cut"
    /\ UNCHANGED <<length, left, heard, stopping>>

RNext == (\E n \in 1..length - heard : Hear(n)) \/ AskStop \/ Finish \/ Cut

RSafety == RInit /\ [][RNext]_rvars

RLiveness ==
    /\ (left >= 0) ~> (ended # "no")
    /\ stopping ~> (ended # "no")

RSpec == RSafety /\ RLiveness
================================================================================
