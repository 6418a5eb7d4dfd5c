---------------------------- MODULE MCAccessLimits ----------------------------
(* AccessLimits for TLC: a command every 1.5 seconds and two at once; the third *)
(* failure in two seconds blocks for three.  The clock runs long enough for     *)
(* two windows and a block.                                                     *)
EXTENDS AccessLimits
=============================================================================
