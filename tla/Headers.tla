------------------------------ MODULE Headers -------------------------------
(***************************************************************************)
(* Sizes of the packed header structs under net-lab-2022-master/include/,  *)
(* and the detour through the pseudo header that udp_checksum makes on the *)
(* buffer it is given, received or to be sent: what it does to the window  *)
(* and to the bytes.                                                       *)
(***************************************************************************)
EXTENDS PacketBuf

EtherHdr == 14      \* ether_hdr_t
ArpLen == 28        \* arp_pkt_t
IpHdr == 20         \* ip_hdr_t
UdpHdr == 8         \* udp_hdr_t
PseudoHdr == 12     \* udp_peso_hdr_t
IcmpHdr == 8        \* icmp_hdr_t
Quote == IpHdr + 8  \* what icmp_unreachable quotes

MinPayload == 46               \* ETHERNET_MIN_TRANSPORT_UNIT
MaxPayload == 1500 - IpHdr     \* ETHERNET_MAX_TRANSPORT_UNIT - 20
MaxFrame == EtherHdr + IpHdr + MaxPayload
MaxTotalLen == 65535           \* total_len16
OffsetUnit == 8                \* IP_HDR_OFFSET_PER_BYTE

\* The window at the pseudo header, which overlaps the end of the IP header,
\* then padded to an even length, and then where udp_checksum's caller had it.
Pseudo(b) == buf_remove_header(buf_add_header(b, IpHdr), IpHdr - PseudoHdr)
Odd(b) == Pseudo(b).len % 2 = 1
Even(b) == IF Odd(b) THEN buf_add_padding(Pseudo(b), 1) ELSE Pseudo(b)
Restored(b) == buf_remove_header(buf_add_header(Even(b), UdpHdr), IpHdr)

\* The places in the array of the bytes it saves (udp.c:21-25), writes the pseudo
\* header over (:35) and puts back in the end (:47-48).
Bytes(b, n) == b.data .. b.data + n - 1
Saved(b) == Bytes(buf_add_header(b, IpHdr), IpHdr)
Overwritten(b) == Bytes(Pseudo(b), PseudoHdr)

\* The bytes put back when the window has left the IP header again.
PutBack_late_bug(b) == Bytes(Restored(b), IpHdr)

PutBack(b) == Bytes(buf_add_header(Even(b), UdpHdr), IpHdr)

\* The places that hold another byte after udp_checksum than before it.
Spoilt(b) == IF PutBack(b) = Saved(b) THEN Overwritten(b) \ Saved(b)
             ELSE Overwritten(b) \cup PutBack(b)

\* A udp_checksum that keeps its padding byte.
udp_checksum_padded_bug(b) == Restored(b)

\* A udp_checksum that leaves the window at the IP header.
udp_checksum_unrestored_bug(b) == buf_add_header(b, IpHdr)

udp_checksum(b) ==
  IF Odd(b) THEN buf_remove_padding(Restored(b), 1) ELSE Restored(b)
=============================================================================
