---------------------------- MODULE MCGameThread ----------------------------
(* GameThread for TLC: two callers with two calls each, so that a thread calls  *)
(* again after a timeout, and two places on its stack where the Job may lie.    *)
EXTENDS GameThread
=============================================================================
