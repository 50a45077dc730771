------------------------------ MODULE MCRxPath ------------------------------
(* Frames for RxPath: one for each way through the layers, most of them of   *)
(* the Ethernet minimum length, so that padding has to come off.             *)
EXTENDS RxPath

CONSTANTS q1, q2, ip, mac

Udp(port) == [len |-> 60, ethertype |-> "ip", good |-> TRUE, mine |-> TRUE,
              hdr_len |-> 5, total_len |-> 33, protocol |-> "udp",
              echo |-> FALSE, sum |-> TRUE, port |-> port,
              src_ip |-> ip, src_mac |-> mac, arp |-> Nothing]
Icmp == [Udp(q1) EXCEPT !.protocol = "icmp", !.total_len = 30]

MCFrames ==
  { Udp(q1), Udp(q2),
    [Udp(q1) EXCEPT !.total_len = 32],                 \* even length
    [Udp(q1) EXCEPT !.sum = FALSE],
    [Udp(q1) EXCEPT !.total_len = 27],                 \* no UDP header
    [Udp(q1) EXCEPT !.hdr_len = 6, !.total_len = 37],  \* IP options
    [Udp(q1) EXCEPT !.hdr_len = 15],                   \* longer than the packet
    [Udp(q1) EXCEPT !.total_len = 15],                 \* less than its header
    [Udp(q1) EXCEPT !.good = FALSE],
    [Udp(q1) EXCEPT !.mine = FALSE],
    [Udp(q1) EXCEPT !.total_len = 47],                 \* longer than the frame
    [Udp(q1) EXCEPT !.protocol = "none"],
    Icmp, [Icmp EXCEPT !.echo = TRUE],
    [Udp(q1) EXCEPT !.ethertype = "udp"],              \* 802.3 length 17
    [Udp(q1) EXCEPT !.ethertype = "udp", !.len = 1514],
    [Icmp EXCEPT !.ethertype = "icmp"],                \* 802.3 length 1
    [Udp(q1) EXCEPT !.ethertype = "arp"],
    [Udp(q1) EXCEPT !.len = 10] }

\* One frame, for the run that follows the window to the end of the array.
MCOneFrame == {Udp(q1)}
=============================================================================
