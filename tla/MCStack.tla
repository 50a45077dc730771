------------------------------ MODULE MCStack -------------------------------
(* Small instance of Stack: a datagram whose last piece is a full one and one *)
(* whose last piece is a single byte; a request for each kind of answer, the  *)
(* ping with IP options; and ARP packets of either kind.                      *)
EXTENDS Stack, TLC

CONSTANTS d1, d2, a1, a2, m1, q1, q2

MCLengths == (d1 :> 2952) @@ (d2 :> 2953)

Udp(port, ip) ==
  [len |-> 60, ethertype |-> "ip", good |-> TRUE, mine |-> TRUE, hdr_len |-> 5,
   total_len |-> 33, protocol |-> "udp", echo |-> FALSE, sum |-> TRUE,
   port |-> port, src_ip |-> ip, src_mac |-> m1, arp |-> Nothing]

ArpFrom(ip, op) ==
  [Udp(q1, ip) EXCEPT !.ethertype = "arp",
     !.arp = [op |-> op, sender_ip |-> ip, sender_mac |-> m1,
              target_ip |-> MY_IP]]

MCFrames ==
  { Udp(q1, a1), Udp(q2, a1),
    [Udp(q1, a2) EXCEPT !.protocol = "icmp", !.echo = TRUE, !.hdr_len = 6,
                        !.len = 1514, !.total_len = 1500],
    ArpFrom(a1, "reply"), ArpFrom(a2, "request"), ArpFrom(a1, "request") }

\* What the refinement asks of the frames is so here.
ASSUME OrderlyInstance == Orderly
=============================================================================
