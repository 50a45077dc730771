------------------------------- MODULE MCLan --------------------------------
(* Small instance of Lan: one packet each way, ended where buf_init ends a   *)
(* window, as those of ip_out are.                                           *)
EXTENDS Lan

CONSTANTS pa, pb

Handed(p) == [data |-> BUF_MAX_LEN \div 2 - 1500, len |-> 1500,
              org |-> BUF_MAX_LEN \div 2 - 1480, src |-> p]

MCBufsA == {Handed(pa)}
MCBufsB == {Handed(pb)}
=============================================================================
