------------------------------ MODULE IpFilter ------------------------------
(***************************************************************************)
(* IpFilter of src/src/net/access_control.cpp: the rules that IPWhitelist's    *)
(* entries give, and which addresses they let in.  An address is the set of    *)
(* its bits that are 1, bit 0 the lowest, so that & is the intersection.       *)
(***************************************************************************)
EXTENDS Integers, Sequences

CONSTANTS Width,      \* bits of an address, 32 in the code
          NoSlash,    \* an entry without a prefix length
          Garbage,    \* a prefix length that does not begin with a number
          Malformed   \* an address inet_pton refuses

ASSUME IpFilterAssumption ==
  /\ Width \in Nat \ {0}
  /\ NoSlash \notin Int /\ Garbage \notin Int /\ NoSlash # Garbage
  /\ \A a \in SUBSET (0..Width - 1) : a # Malformed

BitNumbers == 0..Width - 1
Addresses == SUBSET BitNumbers

\* An entry as it is written; of the numbers those around the code's bounds.
EntryTexts == [address : Addresses \cup {Malformed}, bits : {NoSlash, Garbage} \cup (-1..Width + 1)]

Atoi(text) == IF text = Garbage THEN 0 ELSE text
Bits(entry) == IF entry.bits = NoSlash THEN Width ELSE Atoi(entry.bits)
Rejected(entry) == Bits(entry) \notin 0..Width \/ entry.address = Malformed

\* All ones shifted left: the processor takes the distance modulo the width.
OnesShifted(n) == {i \in BitNumbers : i >= n % Width}

\* Faulty variant: without the case for 0, where the shift does nothing.
MaskShifted(bits) == OnesShifted(Width - bits)

Mask(bits) == IF bits = 0 THEN {} ELSE OnesShifted(Width - bits)

Rule(entry) == [network |-> entry.address \cap Mask(Bits(entry)), mask |-> Mask(Bits(entry))]

\* Configure: the m_Rules of a list, whose order Allows does not depend on.
Rules(list) == {Rule(list[i]) : i \in {j \in DOMAIN list : ~Rejected(list[j])}}

Allows(rules, addr) ==
  \/ rules = {}
  \/ \E rule \in rules : addr \cap rule.mask = rule.network

-----------------------------------------------------------------------------
SamePrefix(a, b, n) == \A i \in Width - n..Width - 1 : i \in a <=> i \in b

\* The reference, after README: `IPWhitelist takes a comma separated list of
\* addresses and CIDR blocks.  Empty allows everyone', and `an unparseable entry
\* is logged and ignored rather than silently locking everyone out'.
Parseable(entry) ==
  entry.address # Malformed /\ (entry.bits = NoSlash \/ entry.bits \in 0..Width)

PrefixLength(entry) == IF entry.bits = NoSlash THEN Width ELSE entry.bits

Admitted(list, addr) ==
  LET kept == {i \in DOMAIN list : Parseable(list[i])}
  IN kept = {} \/ \E i \in kept : SamePrefix(addr, list[i].address, PrefixLength(list[i]))

\* Every prefix length of a list begins with a number.
Numbered(list) == \A i \in DOMAIN list : list[i].bits # Garbage
=============================================================================
