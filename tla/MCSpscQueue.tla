---------------------------- MODULE MCSpscQueue ----------------------------
(***************************************************************************)
(* SpscQueue on small instances: two messages, and counters that wrap      *)
(* after the ring has gone round twice.                                    *)
(***************************************************************************)
EXTENDS SpscQueue

CONSTANTS m1, m2, none

MCMsg == {m1, m2}
=============================================================================
