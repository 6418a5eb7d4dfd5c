----------------------------- MODULE MCLifecycle -----------------------------
(* Lifecycle for TLC.  The name pool is not at the SDK's offset but behind it,   *)
(* so that an attempt can take other memory for it.                              *)
EXTENDS Lifecycle

MCPlaces == [t \in Tables |-> IF t = "names" THEN 2 ELSE 1]
MCHome == [t \in Tables |-> IF t = "names" THEN 2 ELSE 1]
=============================================================================
