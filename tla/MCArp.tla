------------------------------- MODULE MCArp --------------------------------
(* Small instances of ArpHistory.  One packet is short enough to be padded,  *)
(* the others are full size; all end where buf_init ends a window, as those  *)
(* of ip_out do.                                                             *)
EXTENDS ArpHistory, TLC

CONSTANTS p1, p2, p3, a1, a2, m1, m2

Handed(p, len) ==
  [data |-> Half - len, len |-> len, org |-> Half - len + 20, src |-> p]

MCBufs == {Handed(p1, 28), Handed(p2, 1500)}

\* One packet more than two peers and a queue of one slot can take.
MCOverfull == MCBufs \cup {Handed(p3, 1500)}

MCSymm == Permutations({a1, a2}) \cup Permutations({m1, m2})
=============================================================================
