------------------------------ MODULE MCDiscord ------------------------------
(* Discord for TLC: more lines posted than the queue holds, so that it          *)
(* overflows, and batches shorter than the queue, so that some lines wait for   *)
(* the next round.                                                              *)
EXTENDS Discord
=============================================================================
