------------------------------ MODULE MCDataDir ------------------------------
(* DataDir for TLC: two handler threads, so that one waits for the other's    *)
(* save, two players, and a server that may twice find no settings.           *)
EXTENDS DataDir, TLC

Symmetry == Permutations(NetIds) \cup Permutations(Threads)
=============================================================================
