------------------------------- MODULE RxPath -------------------------------
(***************************************************************************)
(* The way of a received frame up the stack: driver_recv, ethernet_in,     *)
(* net_in, ip_in, icmp_in and udp_in, all working on the one global rxbuf, *)
(* whose window they narrow and widen.  Each action is one net_poll.       *)
(*                                                                         *)
(* A frame is its length and the fields the layers test; where a header is *)
(* read is given by the window.  What goes back down is recorded as the    *)
(* call of ip_out; module IpSend takes it from there.                      *)
(***************************************************************************)
EXTENDS TimedMap, Headers

CONSTANTS Nothing,
          Ports,       \* UDP ports the application opens and closes
          UdpFits,     \* slots of udp_table
          Frames,      \* frames that may arrive
          Addresses,   \* their source addresses
          ArpPackets,  \* what an ARP frame may carry
          FirstData, LastData   \* bounds on the offset of the receive window

\* ethertype: the frame's type field, which may be the number of ICMP or UDP.
\* good: version and header checksum; echo: an ICMP echo request; sum: the UDP
\* checksum matches.  arp: Nothing in a frame that carries no ARP packet, or one
\* whose header arp_in rejects.
PossibleFrames ==
  [len : 0 .. MaxFrame, ethertype : {"ip", "arp", "icmp", "udp", "none"},
   good : BOOLEAN, mine : BOOLEAN,
   hdr_len : 0 .. 15, total_len : 0 .. MaxTotalLen,
   protocol : {"icmp", "udp", "none"},
   echo : BOOLEAN, sum : BOOLEAN, port : Ports,
   src_ip : Addresses, src_mac : Addresses, arp : ArpPackets \cup {Nothing}]

ASSUME FramesAssumption == Frames \subseteq PossibleFrames

ASSUME UdpFitsAssumption == UdpFits \in Nat \ {0}

VARIABLES rxbuf,
          udp_table,
          top,      \* end of the bytes the last driver_recv wrote
          open,     \* ports whose udp_open succeeded and that were not closed
          upcall,   \* what the application was given by the last poll
          reply     \* what was handed to ip_out by the last poll

vars == <<rxbuf, udp_table, top, open, upcall, reply>>

Handler == "handler"

\* net_init has each layer but Ethernet enter its handler, named like its
\* protocol here, in net_table, under ethertypes and IP protocol numbers alike.
\* The table is never full and never changes again.
NetTable == {"arp", "ip", "icmp", "udp"}

\* The handler that net_in calls, if there is one.
NetHandler(protocol) == IF protocol \in NetTable THEN protocol ELSE "none"

Init ==
  /\ rxbuf = buf_init(ZeroBuf(Nothing), IpHdr + MaxPayload + EtherHdr)
  /\ udp_table = map_init(UdpFits, 0, 0,
                          [key |-> Nothing, value |-> Nothing, time |-> 0])
  /\ top = 0
  /\ open = {}
  /\ upcall = {}
  /\ reply = {}

\* Time does not matter in a map without a timeout.
udp_open(port) ==
  /\ top <= BUF_MAX_LEN
  /\ udp_table' = map_set(udp_table, port, Handler, 1, 1)
  /\ open' = IF map_set_return(udp_table, port, 1, 1) = 0
             THEN open \cup {port} ELSE open
  /\ upcall' = {} /\ reply' = {}
  /\ UNCHANGED <<rxbuf, top>>

udp_close(port) ==
  /\ top <= BUF_MAX_LEN
  /\ udp_table' = map_delete(udp_table, port, 1)
  /\ open' = open \ {port}
  /\ upcall' = {} /\ reply' = {}
  /\ UNCHANGED <<rxbuf, top>>

-----------------------------------------------------------------------------
\* driver_recv copies the frame to wherever the window begins now.
driver_recv(f) ==
  /\ top <= BUF_MAX_LEN /\ rxbuf.data \in FirstData .. LastData
  /\ top' = rxbuf.data + f.len
  /\ UNCHANGED <<udp_table, open>>

Received(f) == Fill([rxbuf EXCEPT !.len = f.len], f, 0)

ethernet_in(f) == buf_remove_header(Received(f), EtherHdr)

IpAccepts(f, b) == /\ b.len >= IpHdr
                   /\ f.good /\ f.hdr_len >= 5 /\ f.total_len <= b.len
                   /\ f.mine

Unpadded(f, b) ==
  IF b.len > f.total_len THEN buf_remove_padding(b, b.len - f.total_len) ELSE b

\* The window ip_in hands on.  When the header claims to be longer than the
\* packet, buf_remove_header fails and the window still shows the IP header.
ip_in(f, b) == buf_remove_header(Unpadded(f, b), 4 * f.hdr_len)

\* Whose address the handler is given as src_ip.
Source(f) == IF f.ethertype = "ip" THEN f.src_ip ELSE f.src_mac

\* The arguments of icmp_unreachable, which quotes from where the window begins
\* whether or not the packet has that many bytes.
Unreachable(code, f, b) ==
  [kind |-> code, frame |-> f, first |-> b.data - b.org, len |-> Quote,
   to |-> Source(f)]

-----------------------------------------------------------------------------
Quiet(b) == rxbuf' = b /\ upcall' = {} /\ reply' = {}

\* Nothing has arrived, or pcap failed: ethernet_poll leaves the buffer alone.
PollIdle == Quiet(rxbuf) /\ UNCHANGED <<udp_table, top, open>>

\* Too short for an Ethernet header, or no handler for the type; or an ARP
\* packet, which module Arp takes on.
PollUnhandled(f) ==
  /\ driver_recv(f)
  /\ \/ f.len < EtherHdr /\ Quiet(Received(f))
     \/ f.len >= EtherHdr /\ NetHandler(f.ethertype) \in {"none", "arp"}
          /\ Quiet(ethernet_in(f))

ReachesIp(f) == f.len >= EtherHdr /\ NetHandler(f.ethertype) = "ip"

PollIpDropped(f) ==
  /\ driver_recv(f)
  /\ ReachesIp(f) /\ ~ IpAccepts(f, ethernet_in(f))
  /\ Quiet(ethernet_in(f))

PollProtocolUnreachable(f) ==
  LET b == Unpadded(f, ethernet_in(f)) IN
  /\ driver_recv(f)
  /\ ReachesIp(f) /\ IpAccepts(f, ethernet_in(f))
  /\ f.protocol \notin {"icmp", "udp"}
  /\ rxbuf' = b
  /\ reply' = {Unreachable("protocol", f, b)}
  /\ upcall' = {}

\* Whether the handler of p is called: by ip_in, or by ethernet_in at once for a
\* frame whose type field is a protocol number.
Reaches(f, p) ==
  \/ ReachesIp(f) /\ IpAccepts(f, ethernet_in(f))
       /\ f.protocol \in {"icmp", "udp"} /\ NetHandler(f.protocol) = p
  \/ f.len >= EtherHdr /\ NetHandler(f.ethertype) = p

\* The window it is called with.
Handed(f) == IF ReachesIp(f) THEN ip_in(f, ethernet_in(f))
             ELSE ethernet_in(f)

PollIcmp(f) ==
  LET b == Handed(f) IN
  /\ driver_recv(f)
  /\ Reaches(f, "icmp")
  /\ rxbuf' = b
  /\ upcall' = {}
  /\ reply' = IF b.len >= IcmpHdr /\ f.echo
              THEN {[kind |-> "echo", frame |-> f,
                     first |-> b.data - b.org, len |-> b.len,
                     to |-> Source(f)]}
              ELSE {}

PollUdpDropped(f) ==
  LET b == Handed(f) IN
  /\ driver_recv(f)
  /\ Reaches(f, "udp")
  /\ \/ b.len < UdpHdr /\ Quiet(b)
     \/ b.len >= UdpHdr /\ ~ f.sum /\ Quiet(udp_checksum(b))

HandlerOf(port) == map_get(udp_table, port, 1)

\* udp_in puts sizeof(ip_hdr_t) back in front, whatever the IP header's length.
PollPortUnreachable(f) ==
  LET b == buf_add_header(udp_checksum(Handed(f)), IpHdr) IN
  /\ driver_recv(f)
  /\ Reaches(f, "udp")
  /\ Handed(f).len >= UdpHdr /\ f.sum
  /\ HandlerOf(f.port) = NULL
  /\ rxbuf' = b
  /\ reply' = {Unreachable("port", f, b)}
  /\ upcall' = {}

PollUdpDelivered(f) ==
  LET b == buf_remove_header(udp_checksum(Handed(f)), UdpHdr) IN
  /\ driver_recv(f)
  /\ Reaches(f, "udp")
  /\ Handed(f).len >= UdpHdr /\ f.sum
  /\ HandlerOf(f.port) # NULL
  /\ rxbuf' = b
  /\ upcall' = {[frame |-> f, first |-> b.data - b.org, len |-> b.len,
                 src |-> Source(f)]}
  /\ reply' = {}

Poll(f) == \/ PollUnhandled(f)
           \/ PollIpDropped(f)
           \/ PollProtocolUnreachable(f)
           \/ PollIcmp(f)
           \/ PollUdpDropped(f)
           \/ PollPortUnreachable(f)
           \/ PollUdpDelivered(f)

Next == \/ \E port \in Ports : udp_open(port) \/ udp_close(port)
        \/ \E f \in Frames : Poll(f)
        \/ PollIdle

Spec == Init /\ [][Next]_vars

-----------------------------------------------------------------------------
\* The receive window stays a window of the array while no copy has run past
\* it, and udp_table keeps its shape.  The window is longest when an IP header
\* has been put back in front of all that follows the Ethernet header.
TypeOK ==
  /\ rxbuf.data \in Nat /\ rxbuf.len \in 0 .. IpHdr + MaxPayload + IpHdr
  /\ top <= BUF_MAX_LEN => InArray(rxbuf)
  /\ udp_table \in [size : 0 .. UdpFits, max_size : {UdpFits}, timeout : {0},
                    entry : [0 .. UdpFits - 1 ->
                               [key : Ports \cup {Nothing},
                                value : {Handler, Nothing}, time : 0 .. 1]]]

\* A datagram reaches a handler only while its port is open, and is answered
\* with port unreachable only while it is not; also after opens and closes have
\* shuffled the slots of udp_table and some opens failed (udp.c:77, 135-148).
DeliveredIffOpen ==
  /\ \A u \in upcall : u.frame.port \in open
  /\ \A r \in reply : r.kind = "port" => r.frame.port \notin open

FitsItsHeader(f) == f.ethertype = "ip" /\ 4 * f.hdr_len <= f.total_len

\* What the layers above IP get is exactly the packet's payload, neither the
\* Ethernet padding nor a header, although udp_checksum moves the window back
\* and forth over the headers on the way (udp.c:21-51, ip.c:42-52).  Where the
\* array has no room for udp_checksum's pad byte, it takes off a payload byte.
PayloadExact ==
  LET payload(f) == EtherHdr + 4 * f.hdr_len
      rest(f) == f.total_len - 4 * f.hdr_len
  IN  top + 1 < BUF_MAX_LEN =>
      /\ \A u \in upcall : FitsItsHeader(u.frame) =>
           u.first = payload(u.frame) + UdpHdr /\ u.len = rest(u.frame) - UdpHdr
      /\ \A r \in reply : r.kind = "echo" /\ FitsItsHeader(r.frame) =>
           r.first = payload(r.frame) /\ r.len = rest(r.frame)

\* Without IP options, an ICMP error quotes the offending packet from its IP
\* header on (icmp.c:58), whichever layer found it undeliverable.
QuotesIpHeader ==
  \A r \in reply : r.kind # "echo" /\ FitsItsHeader(r.frame)
                     /\ r.frame.hdr_len = 5 => r.first = EtherHdr

\* The bytes of every received datagram are those that arrived when its handler
\* reads them and when icmp_unreachable quotes them, IP header included:
\* udp_checksum has put back all it wrote over (udp.c:21-48), also where the
\* window begins too early in the array for an IP header before it.
HeaderComesBack ==
  [][\A x \in upcall' \cup {r \in reply' : r.kind = "port"} :
        Spoilt(Handed(x.frame)) = {}]_vars

\* buf.h:12 declares payload as the maximal amount of data a buf holds: a
\* received frame should lie inside it.
RxFitsArray == top <= BUF_MAX_LEN
=============================================================================
