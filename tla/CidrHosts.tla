------------------------------ MODULE CidrHosts ------------------------------
(***************************************************************************)
(* ExpandCIDRHosts (src/tplink/scan.go): the addresses a scan probes.  An  *)
(* address is a number of Width bits, 32 in the code.                      *)
(***************************************************************************)
EXTENDS Integers, FiniteSets

CONSTANT Width   \* bits of an address

ASSUME WidthAssumption == Width \in Nat \ {0}

Addresses == 0..(2^Width - 1)

Masked(addr, bits) == addr - (addr % 2^(Width - bits))

\* Bug shape for SkipsEnds: a /31 loses both its addresses.
SkipsEndsToo(bits) == bits <= Width - 1

\* Network and broadcast address are left out below /31.
SkipsEnds(bits) == bits < Width - 1

\* addr/bits holds 2^(Width - bits) addresses, of which the first max are listed.
ExpandCIDRHosts(addr, bits, max) ==
  LET start     == Masked(addr, bits)
      hostStart == IF SkipsEnds(bits) THEN start + 1 ELSE start
      hostCount == IF SkipsEnds(bits) THEN 2^(Width - bits) - 2 ELSE 2^(Width - bits)
      limit     == IF hostCount > max THEN max ELSE hostCount
  IN  [hosts     |-> [i \in 1..limit |-> (hostStart + i - 1) % 2^Width],
       truncated |-> hostCount > max]

\* What is meant: the addresses that share the prefix, without the lowest and the
\* highest of them when there are more than two.
Usable(addr, bits) ==
  LET net == {a \in Addresses : a \div 2^(Width - bits) = addr \div 2^(Width - bits)}
      inner == {a \in net : \E b, c \in net : b < a /\ a < c}
  IN  IF Cardinality(net) > 2 THEN inner ELSE net
=============================================================================
