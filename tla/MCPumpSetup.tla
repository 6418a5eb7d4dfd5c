----------------------------- MODULE MCPumpSetup -----------------------------
(* PumpSetup for TLC: two handlers, whose closures are drained together.       *)
EXTENDS ChatRelay, TLC

Symmetry == Permutations(Handlers)
=============================================================================
