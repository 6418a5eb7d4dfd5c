---------------------------- MODULE MCRconServer ----------------------------
(* RconServer for TLC: two connections at most, and addresses of three bits.  *)
(* One client calls, whom the whitelists let in or keep out.                  *)
EXTENDS RconServer

MCAddrs == {{0, 2}}

\* The block of addresses with bit 2, beside entries that are rejected; one address
\* and a block without it; the block of all addresses; a list of which no entry
\* is left; and one with a length that is no number.
MCWhitelists ==
  {<<[address |-> {2}, bits |-> 1], [address |-> {1}, bits |-> 4],
     [address |-> Malformed, bits |-> NoSlash]>>,
   <<[address |-> {0}, bits |-> NoSlash], [address |-> {0, 1}, bits |-> 2]>>,
   <<[address |-> {0}, bits |-> 3], [address |-> {2}, bits |-> 0]>>,
   <<[address |-> Malformed, bits |-> 1], [address |-> {2}, bits |-> -1]>>,
   <<[address |-> {1}, bits |-> 2], [address |-> {0}, bits |-> Garbage]>>}
=============================================================================
