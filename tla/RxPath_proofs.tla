--------------------------- MODULE RxPath_proofs ----------------------------
(***************************************************************************)
(* Proofs about the receive path, for frames of any contents, any set of   *)
(* ports, a table of any size and a buffer of any size, wherever in it the *)
(* receive window has got to.                                              *)
(***************************************************************************)
EXTENDS RxPath, TimedMap_proofs, PacketBuf_proofs

-----------------------------------------------------------------------------
\* The window of a frame on its way up.  e is where the copy of it ends.
Rx == Windows(Frames \cup {Nothing})

LEMMA FrameFields ==
  ASSUME NEW f \in Frames
  PROVE  /\ f.len \in Nat /\ f.len <= 1514 /\ f.hdr_len \in 0 .. 15
         /\ f.total_len \in Nat /\ f.port \in Ports
<1>1. /\ f.len \in 0 .. MaxFrame /\ f.hdr_len \in 0 .. 15
      /\ f.total_len \in 0 .. MaxTotalLen /\ f.port \in Ports
  BY FramesAssumption DEF PossibleFrames
<1>2. f.len \in Nat /\ f.len <= 1514
  <2>1. MaxFrame \in Nat /\ MaxFrame <= 1514
    BY DEF MaxFrame, EtherHdr, IpHdr, MaxPayload
  <2> QED BY <1>1, <2>1
<1>3. f.total_len \in Nat
  <2>1. MaxTotalLen \in Nat
    BY DEF MaxTotalLen
  <2> QED BY <1>1, <2>1
<1> QED BY <1>1, <1>2, <1>3

\* What driver_recv copies, and what is left without the Ethernet header.
LEMMA EthernetWindow ==
  ASSUME rxbuf \in Rx, NEW f \in Frames, NEW e, e = rxbuf.data + f.len
  PROVE  /\ e \in Nat /\ f.len \in Nat /\ f.len <= 1514
         /\ Received(f) \in Rx /\ EndsBy(Received(f), e)
         /\ Received(f).len = f.len
         /\ ethernet_in(f) \in Rx /\ EndsBy(ethernet_in(f), e)
         /\ ethernet_in(f).org = rxbuf.data
         /\ f.len >= EtherHdr
              => /\ ethernet_in(f).data = rxbuf.data + EtherHdr
                 /\ ethernet_in(f).len = f.len - EtherHdr
<1>1. f.len \in Nat /\ f.len <= 1514
  BY FrameFields
<1>2. rxbuf.data \in Nat /\ e \in Nat
  BY <1>1 DEF Rx, Windows
<1> DEFINE r == Received(f)
           b == buf_remove_header(r, 14)
<1>3. /\ r = [rxbuf EXCEPT !.len = f.len, !.src = f, !.org = rxbuf.data - 0]
      /\ rxbuf.data - 0 = rxbuf.data
  BY <1>2 DEF Received, Fill, Rx, Windows
<1>4. r = [data |-> rxbuf.data, len |-> f.len, org |-> rxbuf.data, src |-> f]
  BY <1>3 DEF Rx, Windows
<1>5. /\ r \in Rx /\ r.data = rxbuf.data /\ r.len = f.len
      /\ r.org = rxbuf.data /\ r = Received(f)
  BY <1>1, <1>2, <1>4 DEF Rx, Windows
<1> HIDE DEF r
<1>6. EndsBy(r, e)
  BY <1>1, <1>2, <1>5 DEF EndsBy
<1>7. /\ b \in Rx /\ b.org = r.org
      /\ r.len >= 14 => b.data = r.data + 14 /\ b.len = r.len - 14
  BY <1>5, RemoveHeader DEF Rx
<1>8. EndsBy(b, e)
  BY <1>2, <1>5, <1>6, OperationsKeepWindows DEF Rx
<1>9. b = ethernet_in(f)
  BY <1>5 DEF ethernet_in, EtherHdr
<1> HIDE DEF b
<1> QED BY <1>1, <1>2, <1>5, <1>6, <1>7, <1>8, <1>9 DEF EtherHdr

\* What ip_in makes of it.
LEMMA IpWindow ==
  ASSUME rxbuf \in Rx, NEW f \in Frames, NEW e, e = rxbuf.data + f.len,
         ReachesIp(f), IpAccepts(f, ethernet_in(f)),
         NEW u, u = Unpadded(f, ethernet_in(f)),
         NEW b, b = ip_in(f, ethernet_in(f))
  PROVE  /\ f.hdr_len \in 5 .. 15 /\ f.total_len \in Nat /\ f.len >= EtherHdr
         /\ u \in Rx /\ EndsBy(u, e) /\ u.org = rxbuf.data
         /\ u.data = rxbuf.data + EtherHdr
         /\ u.len = f.total_len /\ u.len <= f.len - EtherHdr
         /\ b \in Rx /\ EndsBy(b, e) /\ b.org = rxbuf.data /\ b.len <= u.len
         /\ 4 * f.hdr_len <= f.total_len
              => /\ b.data = rxbuf.data + EtherHdr + 4 * f.hdr_len
                 /\ b.len = f.total_len - 4 * f.hdr_len
<1> DEFINE a == ethernet_in(f)
<1>1. /\ f.hdr_len \in 5 .. 15 /\ f.total_len \in Nat
      /\ f.len >= EtherHdr /\ f.total_len <= a.len
  <2>1. /\ f.hdr_len \in 0 .. 15 /\ f.total_len \in Nat
    BY FrameFields
  <2>2. f.hdr_len >= 5 /\ f.len >= EtherHdr /\ f.total_len <= a.len
    BY DEF ReachesIp, IpAccepts
  <2> HIDE DEF a
  <2> QED BY <2>1, <2>2
<1>2. /\ a \in Rx /\ EndsBy(a, e) /\ a.org = rxbuf.data /\ e \in Nat
      /\ a.data = rxbuf.data + EtherHdr /\ a.len = f.len - EtherHdr
  BY <1>1, EthernetWindow
<1> HIDE DEF a
<1>3. a.data \in Nat /\ a.len \in Nat /\ rxbuf.data \in Nat
  BY <1>2 DEF Rx, Windows
<1>4. /\ u \in Rx /\ EndsBy(u, e) /\ u.org = rxbuf.data
      /\ u.data = a.data /\ u.len = f.total_len
  <2>1. CASE a.len > f.total_len
    <3> DEFINE n == a.len - f.total_len
    <3>1. n \in Nat /\ a.len >= n /\ a.len - n = f.total_len
      BY <1>1, <1>3, <2>1
    <3>2. u = buf_remove_padding(a, n)
      BY <2>1 DEF Unpadded, a
    <3> HIDE DEF n
    <3>3. /\ u \in Rx /\ u.org = a.org /\ u.data = a.data
          /\ a.len >= n => u.len = a.len - n
      BY <1>2, <3>1, <3>2, RemovePadding DEF Rx
    <3>4. EndsBy(u, e)
      BY <1>2, <3>1, <3>2, OperationsKeepWindows DEF Rx
    <3> QED BY <1>2, <3>1, <3>3, <3>4
  <2>2. CASE ~ (a.len > f.total_len)
    <3>1. u = a
      BY <2>2 DEF Unpadded, a
    <3> QED BY <1>1, <1>2, <1>3, <2>2, <3>1
  <2> QED BY <2>1, <2>2
<1>5. 4 * f.hdr_len \in Nat
  BY <1>1
<1>6. b = buf_remove_header(u, 4 * f.hdr_len)
  BY DEF ip_in
<1>7. EndsBy(b, e)
  BY <1>2, <1>4, <1>5, <1>6, OperationsKeepWindows DEF Rx
<1> DEFINE n == 4 * f.hdr_len
<1>8. n = 4 * f.hdr_len
  OBVIOUS
<1> HIDE DEF n
<1>9. /\ b \in Rx /\ b.org = u.org
      /\ u.len < n => b.data = u.data /\ b.len = u.len
      /\ u.len >= n => b.data = u.data + n /\ b.len = u.len - n
  <2>1. n \in Nat /\ b = buf_remove_header(u, n)
    BY <1>5, <1>6, <1>8
  <2> QED BY <1>4, <2>1, RemoveHeader DEF Rx
<1>10. b.len <= u.len
  BY <1>1, <1>4, <1>5, <1>8, <1>9
<1>11. u.data = rxbuf.data + EtherHdr /\ u.len <= f.len - EtherHdr
  BY <1>1, <1>2, <1>4
<1>12. 4 * f.hdr_len <= f.total_len
         => /\ b.data = rxbuf.data + EtherHdr + 4 * f.hdr_len
            /\ b.len = f.total_len - 4 * f.hdr_len
  BY <1>1, <1>4, <1>5, <1>8, <1>9, <1>11
<1> QED BY <1>1, <1>4, <1>7, <1>9, <1>10, <1>11, <1>12

\* What icmp_in and udp_in are called with, from ip_in or past it.
LEMMA HandedWindow ==
  ASSUME rxbuf \in Rx, NEW f \in Frames, NEW e, e = rxbuf.data + f.len,
         NEW p \in {"icmp", "udp"}, Reaches(f, p),
         NEW b, b = Handed(f)
  PROVE  /\ e \in Nat
         /\ b \in Rx /\ EndsBy(b, e) /\ b.org = rxbuf.data
         /\ b.len <= 1500
         /\ FitsItsHeader(f)
              => /\ f.hdr_len \in 5 .. 15 /\ f.total_len \in Nat
                 /\ b.data = rxbuf.data + EtherHdr + 4 * f.hdr_len
                 /\ b.len = f.total_len - 4 * f.hdr_len
                 /\ b.data + b.len <= e
                 /\ b.data >= IpHdr
<1>1. /\ e \in Nat /\ f.len \in Nat /\ f.len <= 1514
      /\ ethernet_in(f) \in Rx /\ EndsBy(ethernet_in(f), e)
      /\ ethernet_in(f).org = rxbuf.data
      /\ f.len >= EtherHdr => ethernet_in(f).len = f.len - EtherHdr
      /\ rxbuf.data \in Nat
  BY EthernetWindow DEF Rx, Windows
<1>2. CASE ReachesIp(f) /\ IpAccepts(f, ethernet_in(f))
  <2> DEFINE u == Unpadded(f, ethernet_in(f))
  <2>1. b = ip_in(f, ethernet_in(f))
    BY <1>2 DEF Handed
  <2>2. /\ f.hdr_len \in 5 .. 15 /\ f.total_len \in Nat /\ f.len >= EtherHdr
        /\ u \in Rx /\ u.len = f.total_len /\ u.len <= f.len - EtherHdr
        /\ b \in Rx /\ EndsBy(b, e) /\ b.org = rxbuf.data /\ b.len <= u.len
        /\ 4 * f.hdr_len <= f.total_len
             => /\ b.data = rxbuf.data + EtherHdr + 4 * f.hdr_len
                /\ b.len = f.total_len - 4 * f.hdr_len
    BY <1>2, <2>1, IpWindow
  <2> HIDE DEF u
  <2>3. b.len <= 1500
    <3>1. b.len \in Nat /\ u.len \in Nat /\ f.len \in Nat /\ f.len <= 1514
      BY <1>1, <2>2 DEF Rx, Windows
    <3>2. b.len <= u.len /\ u.len <= f.len - 14
      BY <2>2 DEF EtherHdr
    <3> QED BY <3>1, <3>2
  <2>4. ASSUME 4 * f.hdr_len <= f.total_len
        PROVE  b.data + b.len <= e /\ b.data >= IpHdr
    <3>1. /\ b.data = rxbuf.data + 14 + 4 * f.hdr_len
          /\ b.len = f.total_len - 4 * f.hdr_len
          /\ f.total_len <= f.len - 14
      BY <2>2, <2>4 DEF EtherHdr
    <3>2. /\ f.hdr_len \in 5 .. 15 /\ f.total_len \in Nat /\ f.len \in Nat
          /\ rxbuf.data \in Nat
      BY <1>1, <2>2
    <3> QED BY <3>1, <3>2 DEF IpHdr
  <2> QED BY <1>1, <2>2, <2>3, <2>4 DEF FitsItsHeader
<1>3. CASE ~ (ReachesIp(f) /\ IpAccepts(f, ethernet_in(f)))
  <2>1. f.len >= EtherHdr /\ f.ethertype \in {"icmp", "udp"}
    BY <1>3 DEF Reaches, NetHandler, NetTable
  <2>2. b = ethernet_in(f)
    BY <2>1 DEF Handed, ReachesIp, NetHandler, NetTable
  <2>3. b.len <= 1500
    <3>1. b.len = f.len - 14 /\ f.len \in Nat /\ f.len <= 1514
      BY <1>1, <2>1, <2>2 DEF EtherHdr
    <3> QED BY <3>1
  <2>4. ~ FitsItsHeader(f)
    BY <2>1 DEF FitsItsHeader
  <2> QED BY <1>1, <2>2, <2>3, <2>4
<1> QED BY <1>2, <1>3

-----------------------------------------------------------------------------
UdpTables == TimedMaps(UdpFits, {0}, Ports \cup {Nothing}, {Handler, Nothing}, 1)

LEMMA UdpTableShape ==
  /\ Bounds(UdpFits, {0}, 1)
  /\ UdpTables = [size : 0 .. UdpFits, max_size : {UdpFits}, timeout : {0},
                  entry : [0 .. UdpFits - 1 ->
                             [key : Ports \cup {Nothing},
                              value : {Handler, Nothing}, time : 0 .. 1]]]
BY UdpFitsAssumption DEF Bounds, UdpTables, TimedMaps, Slots

\* The windows never leave the array before a copy has, and the open ports are
\* the ones that udp_table has an entry for.
RxWindow == /\ rxbuf \in Rx /\ rxbuf.len <= 1520
            /\ top \in Nat /\ EndsBy(rxbuf, top)

PortsOf(m, ports) == /\ m \in UdpTables /\ CounterOK(m) /\ UniqueAt(m, 1)
                     /\ \A q \in Ports : q \in ports <=> Matches(m, q, 1) # {}

OpenPorts == PortsOf(udp_table, open)

LEMMA WindowAfterPoll ==
  ASSUME rxbuf \in Rx, NEW f \in Frames, Poll(f)
  PROVE  RxWindow'
<1> DEFINE e == rxbuf.data + f.len
           h == Handed(f)
<1>1. /\ e \in Nat /\ f.len \in Nat /\ f.len <= 1514
      /\ Received(f) \in Rx /\ EndsBy(Received(f), e)
      /\ Received(f).len = f.len
      /\ ethernet_in(f) \in Rx /\ EndsBy(ethernet_in(f), e)
      /\ f.len >= EtherHdr => ethernet_in(f).len = f.len - EtherHdr
  BY EthernetWindow
<1>2. top' = e
  BY DEF Poll, PollUnhandled, PollIpDropped, PollProtocolUnreachable, PollIcmp,
         PollUdpDropped, PollPortUnreachable, PollUdpDelivered, driver_recv
<1>3. f.len >= EtherHdr => ethernet_in(f).len <= 1520
  BY <1>1 DEF EtherHdr
<1> HIDE DEF e
<1>4. ASSUME NEW p \in {"icmp", "udp"}, Reaches(f, p)
      PROVE  h \in Rx /\ EndsBy(h, e) /\ h.len <= 1500 /\ h.len \in Nat
  <2>1. e = rxbuf.data + f.len
    BY DEF e
  <2>2. h \in Rx /\ EndsBy(h, e) /\ h.len <= 1500
    BY <1>4, <2>1, HandedWindow
  <2> HIDE DEF h
  <2> QED BY <2>2 DEF Rx, Windows
<1>5. ASSUME Reaches(f, "udp"), h.len >= UdpHdr
      PROVE  /\ udp_checksum(h) \in Rx /\ EndsBy(udp_checksum(h), e)
             /\ udp_checksum(h).len <= 1500 /\ udp_checksum(h).len \in Nat
  <2>1. h \in Rx /\ EndsBy(h, e) /\ h.len <= 1500 /\ h.len \in Nat
    BY <1>4, <1>5
  <2> HIDE DEF h
  <2>2. udp_checksum(h) \in Rx /\ EndsBy(udp_checksum(h), e)
    BY <1>1, <2>1, ChecksumKeepsWindows DEF Rx
  <2>3. udp_checksum(h).len <= h.len
    BY <1>5, <2>1, ChecksumNeverLengthens DEF Rx
  <2>4. udp_checksum(h).len \in Nat
    BY <2>2 DEF Rx, Windows
  <2> QED BY <2>1, <2>2, <2>3, <2>4
<1>6. rxbuf' \in Rx /\ rxbuf'.len <= 1520 /\ EndsBy(rxbuf', e)
  <2>1. CASE PollUnhandled(f) \/ PollIpDropped(f)
    BY <1>1, <1>3, <2>1 DEF PollUnhandled, PollIpDropped, ReachesIp, Quiet
  <2>2. CASE PollProtocolUnreachable(f)
    <3>1. /\ ReachesIp(f) /\ IpAccepts(f, ethernet_in(f))
          /\ rxbuf' = Unpadded(f, ethernet_in(f))
      BY <2>2 DEF PollProtocolUnreachable
    <3>2. /\ rxbuf' \in Rx /\ EndsBy(rxbuf', e)
          /\ rxbuf'.len <= f.len - EtherHdr
      BY <3>1, IpWindow DEF e
    <3>3. rxbuf'.len \in Nat
      BY <3>2 DEF Rx, Windows
    <3> QED BY <1>1, <3>2, <3>3 DEF EtherHdr
  <2>3. CASE PollIcmp(f)
    <3>1. Reaches(f, "icmp") /\ rxbuf' = h
      BY <2>3 DEF PollIcmp
    <3> HIDE DEF h
    <3> QED BY <1>4, <3>1
  <2>4. CASE PollUdpDropped(f)
    <3>1. /\ Reaches(f, "udp")
          /\ rxbuf' = h \/ (h.len >= UdpHdr /\ rxbuf' = udp_checksum(h))
      BY <2>4 DEF PollUdpDropped, Quiet
    <3> HIDE DEF h
    <3>2. CASE rxbuf' = h
      BY <1>4, <3>1, <3>2
    <3>3. CASE h.len >= UdpHdr /\ rxbuf' = udp_checksum(h)
      BY <1>5, <3>1, <3>3
    <3> QED BY <3>1, <3>2, <3>3
  <2>5. CASE PollPortUnreachable(f)
    <3> DEFINE c == udp_checksum(h)
    <3>1. /\ Reaches(f, "udp") /\ h.len >= UdpHdr
          /\ rxbuf' = buf_add_header(c, IpHdr)
      BY <2>5 DEF PollPortUnreachable
    <3>2. c \in Rx /\ EndsBy(c, e) /\ c.len <= 1500 /\ c.len \in Nat
      BY <1>5, <3>1
    <3> HIDE DEF c
    <3>3. IpHdr = 20
      BY DEF IpHdr
    <3>4. EndsBy(rxbuf', e)
      BY <1>1, <3>1, <3>2, <3>3, OperationsKeepWindows DEF Rx
    <3>5. /\ rxbuf' \in Rx
          /\ c.data < IpHdr => rxbuf'.len = c.len
          /\ c.data >= IpHdr => rxbuf'.len = c.len + IpHdr
      <4>1. IpHdr \in Nat
        BY <3>3
      <4>2. rxbuf' \in Rx
        BY <3>1, <3>2, <4>1, AddHeader DEF Rx
      <4>3. c \in Windows(Frames \cup {Nothing})
        BY <3>2 DEF Rx
      <4> QED BY <3>1, <4>1, <4>2, <4>3, AddHeader
    <3>6. c.data \in Nat
      BY <3>2 DEF Rx, Windows
    <3> QED BY <3>2, <3>3, <3>4, <3>5, <3>6
  <2>6. CASE PollUdpDelivered(f)
    <3> DEFINE c == udp_checksum(h)
    <3>1. /\ Reaches(f, "udp") /\ h.len >= UdpHdr
          /\ rxbuf' = buf_remove_header(c, UdpHdr)
      BY <2>6 DEF PollUdpDelivered
    <3>2. c \in Rx /\ EndsBy(c, e) /\ c.len <= 1500 /\ c.len \in Nat
      BY <1>5, <3>1
    <3> HIDE DEF c
    <3>3. UdpHdr = 8
      BY DEF UdpHdr
    <3>4. EndsBy(rxbuf', e)
      BY <1>1, <3>1, <3>2, <3>3, OperationsKeepWindows DEF Rx
    <3>5. /\ rxbuf' \in Rx
          /\ c.len < UdpHdr => rxbuf'.len = c.len
          /\ c.len >= UdpHdr => rxbuf'.len = c.len - UdpHdr
      <4>1. UdpHdr \in Nat
        BY <3>3
      <4>2. rxbuf' \in Rx
        BY <3>1, <3>2, <4>1, RemoveHeader DEF Rx
      <4>3. c \in Windows(Frames \cup {Nothing})
        BY <3>2 DEF Rx
      <4> QED BY <3>1, <4>1, <4>2, <4>3, RemoveHeader
    <3> QED BY <3>2, <3>3, <3>4, <3>5
  <2> QED BY <2>1, <2>2, <2>3, <2>4, <2>5, <2>6 DEF Poll
<1> QED BY <1>1, <1>2, <1>6 DEF RxWindow

-----------------------------------------------------------------------------
\* udp_table after an open or a close, and the ports that are open then.
EmptyTable == map_init(UdpFits, 0, 0,
                       [key |-> Nothing, value |-> Nothing, time |-> 0])

LEMMA EmptyTableShape ==
  EmptyTable \in UdpTables /\ CounterOK(EmptyTable) /\ Valid(EmptyTable, 1) = {}
<1>1. /\ UdpFits \in Nat \ {0} /\ 0 \in Nat /\ 0 \in {0}
      /\ Nothing \in Ports \cup {Nothing} /\ Nothing \in {Handler, Nothing}
  BY UdpFitsAssumption
<1>2. EmptyTable \in UdpTables
  BY <1>1, UdpTableShape, InitialShape DEF UdpTables, EmptyTable
<1>3. CounterOK(EmptyTable) /\ Valid(EmptyTable, 1) = {}
  BY <1>1, CounterInitially DEF EmptyTable
<1> QED BY <1>2, <1>3

LEMMA NoPortsAtFirst == PortsOf(EmptyTable, {})
BY EmptyTableShape DEF PortsOf, UniqueAt, Matches

LEMMA OpenedPort ==
  ASSUME NEW m, NEW ports, PortsOf(m, ports), NEW port \in Ports,
         NEW m1, m1 = map_set(m, port, Handler, 1, 1),
         NEW ports1, ports1 = IF map_set_return(m, port, 1, 1) = 0
                              THEN ports \cup {port} ELSE ports
  PROVE  PortsOf(m1, ports1)
<1>1. /\ m \in UdpTables /\ CounterOK(m) /\ UniqueAt(m, 1)
      /\ port \in Ports \cup {Nothing} /\ Handler \in {Handler, Nothing}
      /\ 1 \in 1 .. 1 /\ 1 \in Nat /\ 1 <= 1
  BY DEF PortsOf
<1>2. m1 \in UdpTables /\ CounterOK(m1) /\ UniqueAt(m1, 1)
  BY <1>1, UdpTableShape, CounterAfterSet, UniqueAfterSet DEF UdpTables
<1>3. \/ m1 = m /\ map_set_return(m, port, 1, 1) = -1
      \/ /\ map_set_return(m, port, 1, 1) = 0
         /\ \E i \in Positions(m) :
              /\ Stores(m, m1, i, port, Handler, 1)
              /\ Valid(m1, 1) = Valid(m, 1) \cup {i}
              /\ \/ Refreshes(m, m1, i, port, Handler, 1, 1)
                 \/ Inserts(m, m1, i, port, Handler, 1, 1)
  <2> DEFINE K == Ports \cup {Nothing}
             V == {Handler, Nothing}
  <2>1. /\ m \in TimedMaps(UdpFits, {0}, K, V, 1)
        /\ port \in K /\ Handler \in V /\ 1 \in 1 .. 1
        /\ Bounds(UdpFits, {0}, 1)
    BY <1>1, UdpTableShape DEF UdpTables
  <2> HIDE DEF K, V
  <2> QED BY <1>1, <2>1, SetEffect
<1>4. ASSUME NEW q \in Ports
      PROVE  q \in ports1 <=> Matches(m1, q, 1) # {}
  <2>1. CASE m1 = m /\ map_set_return(m, port, 1, 1) = -1
    BY <2>1 DEF PortsOf
  <2>2. ASSUME map_set_return(m, port, 1, 1) = 0, NEW i \in Positions(m),
               Stores(m, m1, i, port, Handler, 1),
               Valid(m1, 1) = Valid(m, 1) \cup {i},
               \/ Refreshes(m, m1, i, port, Handler, 1, 1)
               \/ Inserts(m, m1, i, port, Handler, 1, 1)
        PROVE  q \in ports1 <=> Matches(m1, q, 1) # {}
    <3>1. ports1 = ports \cup {port}
      BY <2>2
    <3>2. i \in Valid(m, 1) => m.entry[i].key = port
      BY <2>2 DEF Refreshes, Inserts, Matches, Invalid
    <3>3. CASE q = port
      <4>1. i \in Matches(m1, q, 1)
        BY <2>2, <3>3 DEF Matches, Stores
      <4> QED BY <3>1, <3>3, <4>1
    <3>4. CASE q # port
      <4>1. Matches(m1, q, 1) = Matches(m, q, 1)
        BY <2>2, <3>2, <3>4 DEF Matches, Stores, Valid
      <4> QED BY <3>1, <3>4, <4>1 DEF PortsOf
    <3> QED BY <3>3, <3>4
  <2> QED BY <1>3, <2>1, <2>2
<1> QED BY <1>2, <1>4 DEF PortsOf

\* The first port to be opened finds room.
LEMMA FirstPort ==
  ASSUME NEW port \in Ports
  PROVE  PortsOf(map_set(EmptyTable, port, Handler, 1, 1), {port})
<1>1. EmptyTable.size = 0 /\ EmptyTable.max_size = UdpFits
        /\ 0 \in Positions(EmptyTable)
  BY UdpFitsAssumption DEF EmptyTable, map_init, Positions
<1>2. map_set_return(EmptyTable, port, 1, 1) = 0
  <2>1. 0 \in Invalid(EmptyTable, 1)
    BY <1>1, EmptyTableShape DEF Invalid
  <2> QED BY <1>1, <2>1, UdpFitsAssumption DEF map_set_return
<1>3. {port} = IF map_set_return(EmptyTable, port, 1, 1) = 0
               THEN {} \cup {port} ELSE {}
  BY <1>2
<1> QED BY <1>3, NoPortsAtFirst, OpenedPort

LEMMA OpenKeepsPorts ==
  ASSUME OpenPorts, NEW port \in Ports, udp_open(port)
  PROVE  OpenPorts'
<1>1. PortsOf(udp_table', open')
  BY OpenedPort DEF OpenPorts, udp_open
<1> QED BY <1>1 DEF OpenPorts, PortsOf

LEMMA CloseKeepsPorts ==
  ASSUME OpenPorts, NEW port \in Ports, udp_close(port)
  PROVE  OpenPorts'
<1>1. /\ udp_table \in UdpTables /\ CounterOK(udp_table)
      /\ UniqueAt(udp_table, 1)
      /\ udp_table' = map_delete(udp_table, port, 1)
      /\ open' = open \ {port} /\ 1 \in Nat
  BY DEF OpenPorts, PortsOf, udp_close
<1>2. /\ udp_table' \in UdpTables /\ CounterOK(udp_table')
      /\ UniqueAt(udp_table', 1)
  BY <1>1, UdpTableShape, CounterAfterDelete, UniqueAfterDelete DEF UdpTables
<1>3. \/ udp_table' = udp_table /\ Matches(udp_table, port, 1) = {}
      \/ \E i \in Matches(udp_table, port, 1) :
           /\ Clears(udp_table, udp_table', i)
           /\ Valid(udp_table', 1) = Valid(udp_table, 1) \ {i}
  BY <1>1, UdpTableShape, DeleteEffect DEF UdpTables
<1>4. ASSUME NEW q \in Ports
      PROVE  q \in open' <=> Matches(udp_table', q, 1) # {}
  <2>1. CASE udp_table' = udp_table /\ Matches(udp_table, port, 1) = {}
    BY <1>1, <2>1 DEF OpenPorts, PortsOf
  <2>2. ASSUME NEW i \in Matches(udp_table, port, 1),
               Clears(udp_table, udp_table', i),
               Valid(udp_table', 1) = Valid(udp_table, 1) \ {i}
        PROVE  q \in open' <=> Matches(udp_table', q, 1) # {}
    <3>1. i \in Valid(udp_table, 1) /\ udp_table.entry[i].key = port
      BY <2>2 DEF Matches
    <3>2. CASE q = port
      <4>1. Matches(udp_table', q, 1) = {}
        BY <1>1, <2>2, <3>1, <3>2 DEF Matches, Clears, UniqueAt, Valid
      <4> QED BY <1>1, <3>2, <4>1
    <3>3. CASE q # port
      <4>1. Matches(udp_table', q, 1) = Matches(udp_table, q, 1)
        BY <2>2, <3>1, <3>3 DEF Matches, Clears, Valid
      <4> QED BY <1>1, <3>3, <4>1 DEF OpenPorts, PortsOf
    <3> QED BY <3>2, <3>3
  <2> QED BY <1>3, <2>1, <2>2
<1> QED BY <1>2, <1>4 DEF OpenPorts, PortsOf

\* The lookup of udp_in tells the open ports from the others.
LEMMA LookupFindsOpenPorts ==
  ASSUME OpenPorts, NEW port \in Ports
  PROVE  HandlerOf(port) # NULL <=> port \in open
<1>1. udp_table \in UdpTables
  BY DEF OpenPorts, PortsOf
<1>2. HandlerOf(port) # NULL <=> Matches(udp_table, port, 1) # {}
  BY <1>1, UdpTableShape, GetFindsAMatch DEF HandlerOf, UdpTables
<1> QED BY <1>2 DEF OpenPorts, PortsOf

LEMMA DeliveryFollowsPorts ==
  ASSUME OpenPorts, NEW f \in Frames, Poll(f)
  PROVE  OpenPorts' /\ DeliveredIffOpen'
<1>1. f.port \in Ports
  BY FrameFields
<1>2. udp_table' = udp_table /\ open' = open
  BY DEF Poll, PollUnhandled, PollIpDropped, PollProtocolUnreachable, PollIcmp,
         PollUdpDropped, PollPortUnreachable, PollUdpDelivered, driver_recv
<1>3. OpenPorts'
  BY <1>2 DEF OpenPorts, PortsOf, CounterOK, UniqueAt, Valid, Matches, Positions,
              map_entry_valid, Occupied
<1>4. ASSUME NEW u \in upcall'
      PROVE  u.frame.port \in open'
  <2>1. PollUdpDelivered(f)
    BY <1>4 DEF Poll, PollUnhandled, PollIpDropped, PollProtocolUnreachable,
                PollIcmp, PollUdpDropped, PollPortUnreachable, Quiet
  <2>2. u.frame = f /\ HandlerOf(f.port) # NULL
    BY <1>4, <2>1 DEF PollUdpDelivered
  <2> QED BY <1>1, <1>2, <2>2, LookupFindsOpenPorts
<1>5. ASSUME NEW r \in reply', r.kind = "port"
      PROVE  r.frame.port \notin open'
  <2>1. PollPortUnreachable(f)
    BY <1>5 DEF Poll, PollUnhandled, PollIpDropped, PollProtocolUnreachable,
                PollIcmp, PollUdpDropped, PollUdpDelivered, Quiet, Unreachable
  <2>2. r.frame = f /\ HandlerOf(f.port) = NULL
    BY <1>5, <2>1 DEF PollPortUnreachable, Unreachable
  <2> QED BY <1>1, <1>2, <2>2, LookupFindsOpenPorts
<1> QED BY <1>3, <1>4, <1>5 DEF DeliveredIffOpen

-----------------------------------------------------------------------------
\* What a datagram, an echo request and an undeliverable packet are answered
\* with: the window the layers have arrived at.
LEMMA PayloadAfterPoll ==
  ASSUME rxbuf \in Rx, NEW f \in Frames, Poll(f), FitsItsHeader(f),
         top' + 1 < BUF_MAX_LEN
  PROVE  /\ \A u \in upcall' :
              /\ u.first = EtherHdr + 4 * f.hdr_len + UdpHdr
              /\ u.len = f.total_len - 4 * f.hdr_len - UdpHdr
         /\ \A r \in reply' : r.kind = "echo" =>
              /\ r.first = EtherHdr + 4 * f.hdr_len
              /\ r.len = f.total_len - 4 * f.hdr_len
<1> DEFINE e == rxbuf.data + f.len
           h == Handed(f)
<1>1. top' = e
  BY DEF Poll, PollUnhandled, PollIpDropped, PollProtocolUnreachable, PollIcmp,
         PollUdpDropped, PollPortUnreachable, PollUdpDelivered, driver_recv
<1>2. BUF_MAX_LEN \in Nat /\ rxbuf.data \in Nat
  BY BufMaxLenAssumption DEF Rx, Windows
<1>3. ASSUME NEW p \in {"icmp", "udp"}, Reaches(f, p)
      PROVE  /\ e \in Nat /\ h \in Rx /\ h.org = rxbuf.data
             /\ f.hdr_len \in 5 .. 15 /\ f.total_len \in Nat
             /\ h.data = rxbuf.data + EtherHdr + 4 * f.hdr_len
             /\ h.len = f.total_len - 4 * f.hdr_len
             /\ h.data + h.len <= e /\ h.data >= IpHdr
  BY <1>3, HandedWindow
<1> HIDE DEF e, h
<1>4. ASSUME NEW u \in upcall'
      PROVE  /\ u.first = EtherHdr + 4 * f.hdr_len + UdpHdr
             /\ u.len = f.total_len - 4 * f.hdr_len - UdpHdr
  <2> DEFINE c == udp_checksum(h)
             b == buf_remove_header(c, UdpHdr)
  <2>1. PollUdpDelivered(f)
    BY <1>4 DEF Poll, PollUnhandled, PollIpDropped, PollProtocolUnreachable,
                PollIcmp, PollUdpDropped, PollPortUnreachable, Quiet
  <2>2. /\ Reaches(f, "udp") /\ h.len >= UdpHdr
        /\ u.first = b.data - b.org /\ u.len = b.len
    BY <1>4, <2>1 DEF PollUdpDelivered, h
  <2>3. /\ e \in Nat /\ h \in Rx /\ h.org = rxbuf.data
        /\ f.hdr_len \in 5 .. 15 /\ f.total_len \in Nat
        /\ h.data = rxbuf.data + EtherHdr + 4 * f.hdr_len
        /\ h.len = f.total_len - 4 * f.hdr_len
        /\ h.data + h.len <= e /\ h.data >= IpHdr
    BY <1>3, <2>2
  <2>4. h.data \in Nat /\ h.len \in Nat /\ h.data + h.len + 1 < BUF_MAX_LEN
    <3>1. h.data \in Nat /\ h.len \in Nat
      BY <2>3 DEF Rx, Windows
    <3> QED BY <1>1, <1>2, <2>3, <3>1
  <2>5. /\ c \in Rx /\ c.data = h.data /\ c.org = h.org /\ c.len = h.len
    <3>1. EndsBy(h, e)
      BY <1>2, <2>3, <2>4 DEF EndsBy
    <3> QED BY <2>3, <2>4, <3>1, ChecksumRestores, ChecksumKeepsWindows DEF Rx
  <2> HIDE DEF c
  <2>6. UdpHdr \in Nat
    BY DEF UdpHdr
  <2>7. b.org = c.org /\ b.data = c.data + UdpHdr /\ b.len = c.len - UdpHdr
    <3>1. c \in Windows(Frames \cup {Nothing}) /\ c.len >= UdpHdr
      BY <2>2, <2>5 DEF Rx
    <3> QED BY <2>6, <3>1, RemoveHeader
  <2> HIDE DEF b
  <2>8. EtherHdr \in Nat /\ 4 * f.hdr_len \in Nat
    BY <2>3 DEF EtherHdr
  <2>9. u.first = (rxbuf.data + EtherHdr + 4 * f.hdr_len + UdpHdr) - rxbuf.data
    BY <2>2, <2>3, <2>5, <2>7
  <2>10. u.len = f.total_len - 4 * f.hdr_len - UdpHdr
    BY <2>2, <2>3, <2>5, <2>7
  <2> DEFINE n == 4 * f.hdr_len
  <2>11. n = 4 * f.hdr_len
    OBVIOUS
  <2> HIDE DEF n
  <2> QED BY <1>2, <2>6, <2>8, <2>9, <2>10, <2>11
<1>5. ASSUME NEW r \in reply', r.kind = "echo"
      PROVE  /\ r.first = EtherHdr + 4 * f.hdr_len
             /\ r.len = f.total_len - 4 * f.hdr_len
  <2>1. PollIcmp(f)
    BY <1>5 DEF Poll, PollUnhandled, PollIpDropped, PollProtocolUnreachable,
                PollUdpDropped, PollPortUnreachable, PollUdpDelivered, Quiet,
                Unreachable
  <2>2. /\ Reaches(f, "icmp") /\ r.first = h.data - h.org /\ r.len = h.len
    BY <1>5, <2>1 DEF PollIcmp, h
  <2>3. /\ h.org = rxbuf.data /\ f.hdr_len \in 5 .. 15
        /\ h.data = rxbuf.data + EtherHdr + 4 * f.hdr_len
        /\ h.len = f.total_len - 4 * f.hdr_len
    BY <1>3, <2>2
  <2>4. EtherHdr \in Nat
    BY DEF EtherHdr
  <2> QED BY <1>2, <2>2, <2>3, <2>4
<1> QED BY <1>4, <1>5

LEMMA QuoteAfterPoll ==
  ASSUME rxbuf \in Rx, NEW f \in Frames, Poll(f), NEW r \in reply',
         r.kind # "echo", r.kind = "port" => FitsItsHeader(f) /\ f.hdr_len = 5
  PROVE  r.first = EtherHdr
<1>0. rxbuf.data \in Nat /\ EtherHdr \in Nat /\ IpHdr = 20 /\ IpHdr \in Nat
  BY DEF Rx, Windows, EtherHdr, IpHdr
<1>1. CASE PollProtocolUnreachable(f)
  <2> DEFINE u == Unpadded(f, ethernet_in(f))
  <2>1. /\ ReachesIp(f) /\ IpAccepts(f, ethernet_in(f))
        /\ r.first = u.data - u.org
    BY <1>1 DEF PollProtocolUnreachable, Unreachable
  <2>2. u.org = rxbuf.data /\ u.data = rxbuf.data + EtherHdr
    BY <2>1, IpWindow
  <2> HIDE DEF u
  <2> QED BY <1>0, <2>1, <2>2
<1>2. CASE PollPortUnreachable(f)
  <2> DEFINE h == Handed(f)
             c == udp_checksum(h)
             b == buf_add_header(c, IpHdr)
  <2>1. /\ Reaches(f, "udp") /\ r.first = b.data - b.org
        /\ FitsItsHeader(f) /\ f.hdr_len = 5
    BY <1>2 DEF PollPortUnreachable, Unreachable
  <2>2. /\ rxbuf.data + f.len \in Nat
        /\ h \in Rx /\ EndsBy(h, rxbuf.data + f.len) /\ h.org = rxbuf.data
        /\ h.data = rxbuf.data + EtherHdr + 4 * f.hdr_len /\ h.data >= IpHdr
    BY <2>1, HandedWindow
  <2> HIDE DEF h
  <2>3. c \in Rx /\ c.data = h.data /\ c.org = rxbuf.data
    BY <2>2, ChecksumRestores, ChecksumKeepsWindows DEF Rx
  <2> HIDE DEF c
  <2>4. b.org = c.org /\ b.data = c.data - IpHdr
    <3>1. c \in Windows(Frames \cup {Nothing}) /\ c.data >= IpHdr
      BY <2>2, <2>3 DEF Rx
    <3>2. IpHdr \in Nat
      BY <1>0
    <3> QED BY <3>1, <3>2, AddHeader
  <2> HIDE DEF b
  <2>5. 4 * f.hdr_len = 20
    BY <2>1
  <2> QED BY <1>0, <2>1, <2>2, <2>3, <2>4, <2>5
<1> QED BY <1>1, <1>2 DEF Poll, PollUnhandled, PollIpDropped, PollIcmp,
           PollUdpDropped, PollUdpDelivered, Quiet

\* Which frames are answered, and to whom: packets that IP accepts, each in the
\* way of its protocol.  Frames that get past IP are another matter.
Accepted(f) == /\ f.ethertype = "ip" /\ f.good /\ f.mine /\ f.hdr_len >= 5
               /\ EtherHdr + f.total_len <= f.len

LEMMA WhatIsAnswered ==
  ASSUME rxbuf \in Rx, OpenPorts, NEW f \in Frames, Poll(f),
         f.ethertype \notin {"icmp", "udp"}
  PROVE  /\ \A u \in upcall' :
              /\ Accepted(f) /\ u.src = f.src_ip
              /\ f.protocol = "udp" /\ f.sum /\ f.port \in open
         /\ \A r \in reply' :
              /\ Accepted(f) /\ r.to = f.src_ip
              /\ r.kind = "echo" => f.protocol = "icmp" /\ f.echo
              /\ r.kind # "echo" =>
                   /\ r.len = Quote
                   /\ \/ f.protocol = "udp" /\ f.sum /\ f.port \notin open
                      \/ f.protocol \notin {"icmp", "udp"} /\ r.kind = "protocol"
<1>1. ASSUME ReachesIp(f), IpAccepts(f, ethernet_in(f))
      PROVE  Accepted(f) /\ Source(f) = f.src_ip
  <2>1. f.ethertype = "ip" /\ f.len >= EtherHdr
    BY <1>1 DEF ReachesIp, NetHandler, NetTable
  <2>2. ethernet_in(f).len = f.len - EtherHdr
    BY <2>1, EthernetWindow
  <2>3. f.len \in Nat /\ f.total_len \in Nat /\ EtherHdr \in Nat
    BY FrameFields DEF EtherHdr
  <2> QED BY <1>1, <2>1, <2>2, <2>3 DEF IpAccepts, Accepted, Source
<1>2. ASSUME NEW p \in {"icmp", "udp"}, Reaches(f, p)
      PROVE  Accepted(f) /\ Source(f) = f.src_ip /\ f.protocol = p
  <2>1. NetHandler(f.ethertype) # p
    BY DEF NetHandler
  <2>2. ReachesIp(f) /\ IpAccepts(f, ethernet_in(f)) /\ f.protocol = p
    BY <1>2, <2>1 DEF Reaches, NetHandler, NetTable
  <2> QED BY <1>1, <2>2
<1>3. CASE PollUnhandled(f) \/ PollIpDropped(f) \/ PollUdpDropped(f)
  BY <1>3 DEF PollUnhandled, PollIpDropped, PollUdpDropped, Quiet
<1>4. CASE PollProtocolUnreachable(f)
  BY <1>1, <1>4 DEF PollProtocolUnreachable, Unreachable
<1>5. CASE PollIcmp(f)
  BY <1>2, <1>5 DEF PollIcmp
<1>6. CASE PollPortUnreachable(f)
  <2>1. f.port \notin open
    BY <1>6, FrameFields, LookupFindsOpenPorts DEF PollPortUnreachable
  <2> QED BY <1>2, <1>6, <2>1 DEF PollPortUnreachable, Unreachable
<1>7. CASE PollUdpDelivered(f)
  <2>1. f.port \in open
    BY <1>7, FrameFields, LookupFindsOpenPorts DEF PollUdpDelivered
  <2> QED BY <1>2, <1>7, <2>1 DEF PollUdpDelivered
<1> QED BY <1>3, <1>4, <1>5, <1>6, <1>7 DEF Poll

LEMMA AnswersAreAboutTheFrame ==
  ASSUME NEW f \in Frames, Poll(f)
  PROVE  /\ \A u \in upcall' : u.frame = f
         /\ \A r \in reply' : r.frame = f
BY DEF Poll, PollUnhandled, PollIpDropped, PollProtocolUnreachable, PollIcmp,
       PollUdpDropped, PollPortUnreachable, PollUdpDelivered, Quiet, Unreachable

-----------------------------------------------------------------------------
\* The invariant: the last three parts are about what the last poll gave rise
\* to, the first two are what every next poll starts from.
RxInv == RxWindow /\ OpenPorts /\ DeliveredIffOpen /\ PayloadExact
           /\ QuotesIpHeader

\* The window net_init makes.
LEMMA RxWindowInit ==
  ASSUME rxbuf = buf_init(ZeroBuf(Nothing), IpHdr + MaxPayload + EtherHdr),
         top = 0
  PROVE  RxWindow
<1> DEFINE z == ZeroBuf(Nothing)
<1>1. /\ rxbuf = buf_init(z, 1514) /\ top = 0
  BY DEF IpHdr, MaxPayload, EtherHdr
<1>2. BUF_MAX_LEN \in Nat /\ Half \in Nat /\ Half < BUF_MAX_LEN
  BY BufMaxLenAssumption DEF Half
<1>3. /\ z \in Windows(Frames \cup {Nothing})
      /\ z.data = 0 /\ z.len = 0
  BY DEF ZeroBuf, Windows
<1> HIDE DEF z
<1>4. /\ rxbuf \in Windows(Frames \cup {Nothing})
      /\ 1514 >= Half => rxbuf = z
      /\ 1514 < Half => rxbuf.data = Half - 1514 /\ rxbuf.len = 1514
  BY <1>1, <1>3, MakeWindow
<1>5. rxbuf \in Rx
  BY <1>4 DEF Rx
<1>6. rxbuf.len <= 1520 /\ rxbuf.data + rxbuf.len < BUF_MAX_LEN
  BY <1>2, <1>3, <1>4
<1> QED BY <1>1, <1>5, <1>6 DEF RxWindow, EndsBy

LEMMA RxInvInit == Init => RxInv
<1> SUFFICES ASSUME Init PROVE RxInv
  OBVIOUS
<1>1. RxWindow
  BY RxWindowInit DEF Init
<1>2. OpenPorts
  BY NoPortsAtFirst DEF Init, OpenPorts, EmptyTable
<1>3. DeliveredIffOpen /\ PayloadExact /\ QuotesIpHeader
  BY DEF Init, DeliveredIffOpen, PayloadExact, QuotesIpHeader
<1> QED BY <1>1, <1>2, <1>3 DEF RxInv

LEMMA RxInvNext == RxInv /\ [Next]_vars => RxInv'
<1> SUFFICES ASSUME RxInv, [Next]_vars PROVE RxInv'
  OBVIOUS
<1>1. ASSUME UNCHANGED <<rxbuf, top>>
      PROVE  RxWindow'
  BY <1>1 DEF RxInv, RxWindow, EndsBy
<1>2. ASSUME upcall' = {}, reply' = {}
      PROVE  DeliveredIffOpen' /\ PayloadExact' /\ QuotesIpHeader'
  BY <1>2 DEF DeliveredIffOpen, PayloadExact, QuotesIpHeader
<1>3. ASSUME NEW port \in Ports, udp_open(port) \/ udp_close(port)
      PROVE  RxInv'
  <2>1. UNCHANGED <<rxbuf, top>> /\ upcall' = {} /\ reply' = {}
    BY <1>3 DEF udp_open, udp_close
  <2>2. OpenPorts'
    BY <1>3, OpenKeepsPorts, CloseKeepsPorts DEF RxInv
  <2> QED BY <1>1, <1>2, <2>1, <2>2 DEF RxInv
<1>4. ASSUME NEW f \in Frames, Poll(f)
      PROVE  RxInv'
  <2>1. rxbuf \in Rx /\ OpenPorts
    BY DEF RxInv, RxWindow
  <2>2. RxWindow'
    BY <1>4, <2>1, WindowAfterPoll
  <2>3. OpenPorts' /\ DeliveredIffOpen'
    BY <1>4, <2>1, DeliveryFollowsPorts
  <2>4. /\ \A u \in upcall' : u.frame = f
        /\ \A r \in reply' : r.frame = f
    BY <1>4, AnswersAreAboutTheFrame
  <2>5. PayloadExact'
    BY <1>4, <2>1, <2>4, PayloadAfterPoll DEF PayloadExact
  <2>6. QuotesIpHeader'
    BY <1>4, <2>1, <2>4, QuoteAfterPoll DEF QuotesIpHeader
  <2> QED BY <2>2, <2>3, <2>5, <2>6 DEF RxInv
<1>5. CASE PollIdle \/ UNCHANGED vars
  <2>1. UNCHANGED <<rxbuf, top, udp_table, open>>
    BY <1>5 DEF PollIdle, Quiet, vars
  <2>2. OpenPorts'
    BY <2>1 DEF RxInv, OpenPorts, PortsOf, CounterOK, UniqueAt, Valid, Matches,
                Positions, map_entry_valid, Occupied
  <2>3. CASE PollIdle
    BY <1>1, <1>2, <2>1, <2>2, <2>3 DEF PollIdle, Quiet, RxInv
  <2>4. CASE UNCHANGED vars
    <3>1. DeliveredIffOpen' /\ PayloadExact' /\ QuotesIpHeader'
      BY <2>4 DEF RxInv, vars, DeliveredIffOpen, PayloadExact, QuotesIpHeader
    <3> QED BY <1>1, <2>1, <2>2, <3>1 DEF RxInv
  <2> QED BY <1>5, <2>3, <2>4
<1> QED BY <1>3, <1>4, <1>5 DEF Next

LEMMA RxInvariant == Spec => []RxInv
BY RxInvInit, RxInvNext, PTL DEF Spec

\* As long as no copy has run past the array the receive window lies in it,
\* whatever the layers have added, removed, padded and failed to; it is never
\* longer than a packet with an IP header put in front; udp_table keeps its
\* shape (buf.c, udp.c:19-54, map.c).
THEOREM TypeCorrect == Spec => []TypeOK
<1>1. RxInv => TypeOK
  <2> SUFFICES ASSUME RxInv PROVE TypeOK
    OBVIOUS
  <2>1. rxbuf.data \in Nat /\ rxbuf.len \in Nat /\ rxbuf.len <= 1520
    BY DEF RxInv, RxWindow, Rx, Windows
  <2>2. IpHdr + MaxPayload + IpHdr = 1520
    BY DEF IpHdr, MaxPayload
  <2>3. top <= BUF_MAX_LEN => InArray(rxbuf)
    BY <2>1, BufMaxLenAssumption DEF RxInv, RxWindow, EndsBy, InArray
  <2>4. rxbuf.len \in 0 .. IpHdr + MaxPayload + IpHdr
    <3> DEFINE n == IpHdr + MaxPayload + IpHdr
    <3>1. n \in Nat /\ rxbuf.len <= n
      BY <2>1, <2>2
    <3> HIDE DEF n
    <3>2. rxbuf.len \in 0 .. n
      BY <2>1, <3>1
    <3> QED BY <3>2 DEF n
  <2> QED BY <2>1, <2>3, <2>4, UdpTableShape DEF RxInv, OpenPorts, PortsOf, TypeOK
<1> QED BY <1>1, RxInvariant, PTL

\* A datagram is handed to the handler of an open port and to no other, and only
\* one for a port that is not open is answered with port unreachable, after any
\* number of opens and closes, also ones that failed (udp.c:77, 135-148).
THEOREM DeliveryFollowsOpenPorts == Spec => []DeliveredIffOpen
<1>1. RxInv => DeliveredIffOpen
  BY DEF RxInv
<1> QED BY <1>1, RxInvariant, PTL

\* The application gets the data of the datagram and the sender of an echo
\* request its payload, byte for byte, wherever in the array the window is, as
\* long as the pad byte of udp_checksum fits behind it (udp.c:19-88, ip.c:42-52).
THEOREM PayloadsAreExact == Spec => []PayloadExact
<1>1. RxInv => PayloadExact
  BY DEF RxInv
<1> QED BY <1>1, RxInvariant, PTL

\* The ICMP errors about a packet without options quote it from its IP header
\* on, from ip_in and from udp_in alike (icmp.c:58, ip.c:49, udp.c:80-81).
THEOREM ErrorsQuoteIpHeader == Spec => []QuotesIpHeader
<1>1. RxInv => QuotesIpHeader
  BY DEF RxInv
<1> QED BY <1>1, RxInvariant, PTL

\* Whatever frame reaches udp_in, and wherever in the array its window lies, the
\* handler and icmp_unreachable find the bytes that arrived: what udp_checksum
\* has written over them is gone again (udp.c:21-48, 75-88).
THEOREM ChecksumLeavesNoTrace == Spec => HeaderComesBack
<1>1. ASSUME RxInv, NEW f \in Frames, Poll(f),
             NEW x \in upcall' \cup {r \in reply' : r.kind = "port"}
      PROVE  Spoilt(Handed(x.frame)) = {}
  <2>1. x.frame = f
    BY <1>1, AnswersAreAboutTheFrame
  <2>2. Reaches(f, "udp") /\ Handed(f).len >= UdpHdr
    BY <1>1 DEF Poll, PollUnhandled, PollIpDropped, PollProtocolUnreachable,
         PollIcmp, PollUdpDropped, PollPortUnreachable, PollUdpDelivered, Quiet,
         Unreachable
  <2> DEFINE h == Handed(f)
             e == rxbuf.data + f.len
  <2>3. /\ h = Handed(f) /\ h.len >= UdpHdr /\ e = rxbuf.data + f.len
        /\ rxbuf \in Rx
    BY <1>1, <2>2 DEF RxInv, RxWindow
  <2> HIDE DEF h, e
  <2>4. h \in Rx
    BY <2>2, <2>3, HandedWindow
  <2>5. Spoilt(h) = {}
    BY <2>3, <2>4, ChecksumPutsBytesBack DEF Rx
  <2> QED BY <2>1, <2>3, <2>5
<1>2. ASSUME RxInv, Next
      PROVE  \A x \in upcall' \cup {r \in reply' : r.kind = "port"} :
               Spoilt(Handed(x.frame)) = {}
  <2>1. CASE \E f \in Frames : Poll(f)
    BY <1>1, <1>2, <2>1
  <2>2. CASE PollIdle \/ \E port \in Ports : udp_open(port) \/ udp_close(port)
    BY <2>2 DEF PollIdle, Quiet, udp_open, udp_close
  <2> QED BY <1>2, <2>1, <2>2 DEF Next
<1>3. RxInv /\ [Next]_vars
      => [\A x \in upcall' \cup {r \in reply' : r.kind = "port"} :
            Spoilt(Handed(x.frame)) = {}]_vars
  BY <1>2
<1> QED BY <1>3, RxInvariant, PTL DEF Spec, HeaderComesBack
=============================================================================
