--------------------------- MODULE Stack_proofs ----------------------------
(***************************************************************************)
(* Proofs about the whole stack, for any peers, frames, datagrams, table   *)
(* sizes and timeouts.                                                     *)
(***************************************************************************)
EXTENDS Stack, TimedMap_proofs, PacketBuf_proofs

\* What was proved about the receive path holds of it here.
RP == INSTANCE RxPath_proofs WITH Addresses <- IPs \cup Macs

-----------------------------------------------------------------------------
\* RP and Rx are the same module twice: what it says of a poll is the same.
LEMMA SameBuffers ==
  /\ \A b, n : Rx!buf_add_header(b, n) = RP!buf_add_header(b, n)
  /\ \A b, n : Rx!buf_remove_header(b, n) = RP!buf_remove_header(b, n)
  /\ \A b, n : Rx!buf_add_padding(b, n) = RP!buf_add_padding(b, n)
  /\ \A b, n : Rx!buf_remove_padding(b, n) = RP!buf_remove_padding(b, n)
  /\ \A b, s, n : Rx!Fill(b, s, n) = RP!Fill(b, s, n)
BY DEF Rx!buf_add_header, Rx!buf_remove_header, Rx!buf_add_padding,
   Rx!buf_remove_padding, Rx!Fill, RP!buf_add_header, RP!buf_remove_header,
   RP!buf_add_padding, RP!buf_remove_padding, RP!Fill

LEMMA SameSizes ==
  /\ Rx!EtherHdr = RP!EtherHdr /\ Rx!IpHdr = RP!IpHdr
  /\ Rx!UdpHdr = RP!UdpHdr /\ Rx!IcmpHdr = RP!IcmpHdr
  /\ Rx!PseudoHdr = RP!PseudoHdr /\ Rx!Quote = RP!Quote
  /\ Rx!NULL = RP!NULL
BY DEF Rx!EtherHdr, Rx!IpHdr, Rx!UdpHdr, Rx!IcmpHdr, Rx!PseudoHdr, Rx!Quote,
   Rx!NULL, RP!EtherHdr, RP!IpHdr, RP!UdpHdr, RP!IcmpHdr, RP!PseudoHdr,
   RP!Quote, RP!NULL

LEMMA SameChecksum == \A b : Rx!udp_checksum(b) = RP!udp_checksum(b)
<1>1. \A b : Rx!Pseudo(b) = RP!Pseudo(b)
  BY SameBuffers, SameSizes DEF Rx!Pseudo, RP!Pseudo
<1>2. \A b : Rx!Even(b) = RP!Even(b) /\ Rx!Odd(b) = RP!Odd(b)
  BY <1>1, SameBuffers DEF Rx!Even, Rx!Odd, RP!Even, RP!Odd
<1>3. \A b : Rx!Restored(b) = RP!Restored(b)
  BY <1>2, SameBuffers, SameSizes DEF Rx!Restored, RP!Restored
<1> QED BY <1>2, <1>3, SameBuffers DEF Rx!udp_checksum, RP!udp_checksum

LEMMA SameWindows ==
  ASSUME NEW f
  PROVE  /\ Rx!Received(f) = RP!Received(f)
         /\ Rx!ethernet_in(f) = RP!ethernet_in(f)
         /\ \A b : Rx!IpAccepts(f, b) = RP!IpAccepts(f, b)
         /\ \A b : Rx!Unpadded(f, b) = RP!Unpadded(f, b)
         /\ Rx!ReachesIp(f) = RP!ReachesIp(f)
         /\ \A p : Rx!Reaches(f, p) = RP!Reaches(f, p)
         /\ Rx!Handed(f) = RP!Handed(f)
         /\ \A code, b : Rx!Unreachable(code, f, b) = RP!Unreachable(code, f, b)
<1>1. Rx!Received(f) = RP!Received(f)
  BY SameBuffers DEF Rx!Received, RP!Received
<1>2. Rx!ethernet_in(f) = RP!ethernet_in(f)
  BY <1>1, SameBuffers, SameSizes DEF Rx!ethernet_in, RP!ethernet_in
<1>3. \A b : Rx!IpAccepts(f, b) = RP!IpAccepts(f, b)
  BY SameSizes DEF Rx!IpAccepts, RP!IpAccepts
<1>4. \A b : Rx!Unpadded(f, b) = RP!Unpadded(f, b)
  BY SameBuffers DEF Rx!Unpadded, RP!Unpadded
<1>5. \A b : Rx!ip_in(f, b) = RP!ip_in(f, b)
  BY <1>4, SameBuffers DEF Rx!ip_in, RP!ip_in
<1>6. \A p : Rx!NetHandler(p) = RP!NetHandler(p)
  BY DEF Rx!NetHandler, Rx!NetTable, RP!NetHandler, RP!NetTable
<1>7. Rx!ReachesIp(f) = RP!ReachesIp(f)
  BY <1>6, SameSizes DEF Rx!ReachesIp, RP!ReachesIp
<1>8. \A p : Rx!Reaches(f, p) = RP!Reaches(f, p)
  BY <1>2, <1>3, <1>6, <1>7, SameSizes DEF Rx!Reaches, RP!Reaches
<1>9. Rx!Handed(f) = RP!Handed(f)
  BY <1>2, <1>5, <1>7 DEF Rx!Handed, RP!Handed
<1>10. \A code, b : Rx!Unreachable(code, f, b) = RP!Unreachable(code, f, b)
  BY SameSizes DEF Rx!Unreachable, Rx!Source, RP!Unreachable, RP!Source
<1> QED BY <1>1, <1>2, <1>3, <1>4, <1>7, <1>8, <1>9, <1>10

LEMMA SameLookup == \A m, key, t : Rx!map_get(m, key, t) = RP!map_get(m, key, t)
<1>1. \A m, key, t : Rx!Matches(m, key, t) = RP!Matches(m, key, t)
  BY DEF Rx!Matches, Rx!Valid, Rx!map_entry_valid, Rx!Positions, RP!Matches,
     RP!Valid, RP!map_entry_valid, RP!Positions
<1>2. \A S : Rx!First(S) = RP!First(S)
  BY DEF Rx!First, RP!First
<1> QED BY <1>1, <1>2, SameSizes DEF Rx!map_get, RP!map_get

LEMMA SamePoll == ASSUME NEW f, Rx!Poll(f) PROVE RP!Poll(f)
<1>1. CASE Rx!PollUnhandled(f)
  <2>1. RP!PollUnhandled(f)
    BY <1>1, SameWindows, SameSizes, SameChecksum, SameBuffers DEF
       Rx!PollUnhandled, Rx!driver_recv, Rx!Quiet, Rx!NetHandler,
       Rx!NetTable, RP!PollUnhandled, RP!driver_recv, RP!Quiet,
       RP!NetHandler, RP!NetTable
  <2> QED BY <2>1 DEF RP!Poll
<1>2. CASE Rx!PollIpDropped(f)
  <2>1. RP!PollIpDropped(f)
    BY <1>2, SameWindows, SameSizes, SameChecksum, SameBuffers DEF
       Rx!PollIpDropped, Rx!driver_recv, Rx!Quiet, RP!PollIpDropped,
       RP!driver_recv, RP!Quiet
  <2> QED BY <2>1 DEF RP!Poll
<1>3. CASE Rx!PollProtocolUnreachable(f)
  <2>1. RP!PollProtocolUnreachable(f)
    BY <1>3, SameWindows, SameSizes, SameChecksum, SameBuffers DEF
       Rx!PollProtocolUnreachable, Rx!driver_recv,
       RP!PollProtocolUnreachable, RP!driver_recv
  <2> QED BY <2>1 DEF RP!Poll
<1>4. CASE Rx!PollIcmp(f)
  <2>1. /\ Rx!driver_recv(f) <=> RP!driver_recv(f)
        /\ Rx!Source(f) = RP!Source(f)
        /\ Rx!Handed(f) = RP!Handed(f) /\ Rx!IcmpHdr = RP!IcmpHdr
        /\ Rx!Reaches(f, "icmp") = RP!Reaches(f, "icmp")
    BY SameWindows, SameSizes DEF Rx!driver_recv, Rx!Source, RP!driver_recv,
     RP!Source
  <2>2. RP!PollIcmp(f)
    BY <1>4, <2>1, Zenon DEF Rx!PollIcmp, RP!PollIcmp
  <2> QED BY <2>2 DEF RP!Poll
<1>5. CASE Rx!PollUdpDropped(f)
  <2>1. RP!PollUdpDropped(f)
    BY <1>5, SameWindows, SameSizes, SameChecksum, SameBuffers DEF
       Rx!PollUdpDropped, Rx!driver_recv, Rx!Quiet, RP!PollUdpDropped,
       RP!driver_recv, RP!Quiet
  <2> QED BY <2>1 DEF RP!Poll
<1>6. CASE Rx!PollPortUnreachable(f)
  <2>1. RP!PollPortUnreachable(f)
    BY <1>6, SameWindows, SameSizes, SameChecksum, SameBuffers, SameLookup DEF
       Rx!PollPortUnreachable, Rx!driver_recv, Rx!HandlerOf,
       RP!PollPortUnreachable, RP!driver_recv, RP!HandlerOf
  <2> QED BY <2>1 DEF RP!Poll
<1>7. CASE Rx!PollUdpDelivered(f)
  <2>1. RP!PollUdpDelivered(f)
    BY <1>7, SameWindows, SameSizes, SameChecksum, SameBuffers, SameLookup DEF
       Rx!PollUdpDelivered, Rx!driver_recv, Rx!Source, Rx!HandlerOf,
       RP!PollUdpDelivered, RP!driver_recv, RP!Source, RP!HandlerOf
  <2> QED BY <2>1 DEF RP!Poll
<1> QED BY <1>1, <1>2, <1>3, <1>4, <1>5, <1>6, <1>7 DEF Rx!Poll

LEMMA SamePossibleFrames == Frames \subseteq RP!PossibleFrames
<1>1. Rx!MaxFrame = RP!MaxFrame /\ Rx!MaxTotalLen = RP!MaxTotalLen
  BY DEF Rx!MaxFrame, RP!MaxFrame, Rx!MaxTotalLen, RP!MaxTotalLen,
     Rx!EtherHdr, RP!EtherHdr, Rx!IpHdr, RP!IpHdr, Rx!MaxPayload, RP!MaxPayload
<1>2. Rx!PossibleFrames = RP!PossibleFrames
  BY <1>1, Zenon DEF Rx!PossibleFrames, RP!PossibleFrames
<1> QED BY <1>2, StackAssumption

LEMMA WindowAfterPoll ==
  ASSUME rxbuf \in RP!Rx, NEW f \in Frames, Rx!Poll(f)
  PROVE  RP!RxWindow'
<1>1. RP!Poll(f)
  BY SamePoll
<1>2. Frames \subseteq RP!PossibleFrames
  BY SamePossibleFrames
<1>3. UdpFits \in Nat \ {0} /\ BUF_MAX_LEN \in Nat /\ BUF_MAX_LEN > 1
  BY StackAssumption, BufMaxLenAssumption
<1> QED BY <1>1, <1>2, <1>3, RP!WindowAfterPoll

\* What the layers hand down after a poll: bytes of the frame polled, as long as
\* the window says, or the quote.
LEMMA AnswerShape ==
  ASSUME RP!RxWindow', NEW f \in Frames, Rx!Poll(f)
  PROVE  /\ \A r \in reply' :
              /\ r.frame = f /\ r.first \in Int /\ r.len \in Nat
              /\ r.len >= 8 /\ r.len <= 1520 /\ r.to \in Peers \cup Macs
              /\ r.kind # "echo" => r.len = 28
         /\ \A u \in upcall' :
              /\ u.frame = f /\ u.first \in Int /\ u.len \in Nat
              /\ u.len <= 1520 /\ u.src \in Peers \cup Macs
<1>1. /\ rxbuf'.data - rxbuf'.org \in Int /\ rxbuf'.len \in Nat
      /\ rxbuf'.len <= 1520
  BY DEF RP!RxWindow, RP!Rx, RP!Windows
<1>2. Rx!Source(f) \in Peers \cup Macs
  BY StackAssumption
<1>3. CASE Rx!PollUnhandled(f) \/ Rx!PollIpDropped(f) \/ Rx!PollUdpDropped(f)
  BY <1>3 DEF Rx!PollUnhandled, Rx!PollIpDropped, Rx!PollUdpDropped, Rx!Quiet
<1>4. CASE Rx!PollProtocolUnreachable(f) \/ Rx!PollPortUnreachable(f)
  <2>1. PICK code : /\ code # "echo" /\ upcall' = {}
                    /\ reply' = {Rx!Unreachable(code, f, rxbuf')}
    BY <1>4 DEF Rx!PollProtocolUnreachable, Rx!PollPortUnreachable
  <2>2. Rx!Unreachable(code, f, rxbuf')
          = [kind |-> code, frame |-> f, first |-> rxbuf'.data - rxbuf'.org,
             len |-> 28, to |-> Rx!Source(f)]
    BY DEF Rx!Unreachable, Rx!Quote, Rx!IpHdr
  <2> QED BY <1>1, <1>2, <2>1, <2>2
<1>5. CASE Rx!PollIcmp(f)
  <2>1. /\ upcall' = {}
        /\ \A r \in reply' :
             /\ rxbuf'.len >= 8
             /\ r = [kind |-> "echo", frame |-> f,
                     first |-> rxbuf'.data - rxbuf'.org, len |-> rxbuf'.len,
                     to |-> Rx!Source(f)]
    BY <1>5 DEF Rx!PollIcmp, Rx!IcmpHdr
  <2> QED BY <1>1, <1>2, <2>1
<1>6. CASE Rx!PollUdpDelivered(f)
  <2>1. /\ reply' = {}
        /\ \A u \in upcall' :
             u = [frame |-> f, first |-> rxbuf'.data - rxbuf'.org,
                  len |-> rxbuf'.len, src |-> Rx!Source(f)]
    BY <1>6 DEF Rx!PollUdpDelivered
  <2> QED BY <1>1, <1>2, <2>1
<1> QED BY <1>3, <1>4, <1>5, <1>6 DEF Rx!Poll

-----------------------------------------------------------------------------
\* The packets of which txbuf may show a window.
Sources == Datagrams \cup Frames \cup {ARP, Nothing}
Tx == Windows(Sources)

\* The room in front of half the array.
LEMMA Room == Half \in Nat /\ 65577 <= Half /\ Half + 1 < BUF_MAX_LEN
<1>1. 2^16 - 1 + UdpHdr + IpHdr + EtherHdr = 65577
  BY DEF UdpHdr, IpHdr, EtherHdr
<1> QED BY <1>1, BufMaxLenAssumption, RoomAssumption DEF Half

\* Bytes copied into a window that ends at half the array.
Holds(b, src, first, n) ==
  /\ b \in Tx /\ b.src = src /\ b.len = n /\ b.data = Half - n
  /\ b.data - b.org = first

LEMMA FillHolds ==
  ASSUME NEW b \in Tx, NEW src \in Sources, NEW first \in Int, NEW n \in Nat,
         n <= 65535
  PROVE  Holds(Fill(buf_init(b, n), src, first), src, first, n)
<1> DEFINE c == buf_init(b, n)
<1>1. c \in Tx /\ c.data = Half - n /\ c.len = n
  BY Room, MakeWindow DEF Tx
<1> HIDE DEF c
<1>2. /\ Fill(c, src, first) \in Tx /\ Fill(c, src, first).data = c.data
      /\ Fill(c, src, first).len = c.len /\ Fill(c, src, first).src = src
      /\ Fill(c, src, first).org = c.data - first
  BY <1>1, FillWindow DEF Tx
<1>3. c.data - (c.data - first) = first
  BY <1>1, Room
<1> QED BY <1>1, <1>2, <1>3 DEF Holds, c

LEMMA HeaderHolds ==
  ASSUME NEW b, NEW src, NEW first \in Int, NEW n \in Nat, NEW h \in Nat,
         n + h <= 65577, Holds(b, src, first, n)
  PROVE  Holds(buf_add_header(b, h), src, first - h, n + h)
<1> DEFINE c == buf_add_header(b, h)
<1>1. /\ b \in Tx /\ b.data = Half - n /\ b.len = n /\ b.src = src
      /\ b.data - b.org = first /\ b.org \in Int
  BY DEF Holds, Tx, Windows
<1>2. b.data >= h
  BY <1>1, Room
<1>3. c \in Tx /\ c.org = b.org /\ c.src = b.src /\ c.data = b.data - h
        /\ c.len = b.len + h
  BY <1>1, <1>2, AddHeader DEF Tx
<1> HIDE DEF c
<1> QED BY <1>1, <1>3, Room DEF Holds, c

LEMMA ChecksumHolds ==
  ASSUME NEW b, NEW src, NEW first \in Int, NEW n \in Nat, n <= 65557,
         Holds(b, src, first, n)
  PROVE  Holds(udp_checksum(b), src, first, n)
<1> DEFINE c == udp_checksum(b)
<1>1. /\ b \in Tx /\ b.data = Half - n /\ b.len = n /\ b.src = src
      /\ b.data - b.org = first /\ b.org \in Int
  BY DEF Holds, Tx, Windows
<1>2. b.data >= IpHdr /\ b.data + b.len + 1 < BUF_MAX_LEN
  BY <1>1, Room DEF IpHdr
<1>3. /\ c.data = b.data /\ c.org = b.org /\ c.src = b.src /\ c.len = b.len
  BY <1>1, <1>2, ChecksumRestores DEF Tx
<1>4. c \in Tx
  <2>1. EndsBy(b, b.data + b.len) /\ b.data + b.len \in Nat
    BY <1>1, Room DEF EndsBy
  <2> QED BY <1>1, <2>1, ChecksumKeepsWindows DEF Tx
<1> HIDE DEF c
<1> QED BY <1>1, <1>3, <1>4 DEF Holds, c

\* What udp_send and icmp build.
LEMMA UdpHolds ==
  ASSUME NEW b \in Tx, NEW src \in Sources, NEW first \in Int,
         NEW n \in Nat, n <= 65535
  PROVE  Holds(udp_checksum(buf_add_header(Fill(buf_init(b, n), src, first),
                                           UdpHdr)),
               src, first - UdpHdr, n + UdpHdr)
<1>1. UdpHdr = 8
  BY DEF UdpHdr
<1>2. Holds(Fill(buf_init(b, n), src, first), src, first, n)
  BY FillHolds
<1>3. Holds(buf_add_header(Fill(buf_init(b, n), src, first), UdpHdr),
            src, first - 8, n + 8)
  BY <1>1, <1>2, HeaderHolds
<1> QED BY <1>1, <1>3, ChecksumHolds

LEMMA ErrorHolds ==
  ASSUME NEW b \in Tx, NEW src \in Sources, NEW first \in Int
  PROVE  Holds(buf_add_header(Fill(buf_init(b, Quote), src, first), IcmpHdr),
               src, first - IcmpHdr, Quote + IcmpHdr)
<1>1. IcmpHdr = 8 /\ Quote = 28
  BY DEF IcmpHdr, Quote, IpHdr
<1>2. Holds(Fill(buf_init(b, 28), src, first), src, first, 28)
  BY FillHolds
<1> QED BY <1>1, <1>2, HeaderHolds

\* What ip_out may be handed: something of a datagram or a frame, and of a
\* datagram all of it.
Proper(tx) ==
  /\ Holds(tx, tx.src, tx.data - tx.org, tx.len)
  /\ tx.src \in Datagrams \cup Frames
  /\ tx.len >= 1 /\ tx.len <= 65543
  /\ tx.src \in Datagrams =>
       tx.data - tx.org = - UdpHdr /\ tx.len = Lengths[tx.src] + UdpHdr

LEMMA UdpIsProper ==
  ASSUME NEW b \in Tx, NEW src \in Datagrams \cup Frames, NEW first \in Int,
         NEW n \in Nat, n <= 65535,
         src \in Datagrams => first = 0 /\ n = Lengths[src]
  PROVE  Proper(udp_checksum(buf_add_header(Fill(buf_init(b, n), src, first),
                                            UdpHdr)))
<1>1. src \in Sources /\ UdpHdr = 8
  BY DEF Sources, UdpHdr
<1> DEFINE t == udp_checksum(buf_add_header(Fill(buf_init(b, n), src, first),
                                            UdpHdr))
<1>2. Holds(t, src, first - 8, n + 8)
  BY <1>1, UdpHolds
<1> HIDE DEF t
<1>3. /\ t.src = src /\ t.data - t.org = first - 8 /\ t.len = n + 8
      /\ Holds(t, t.src, t.data - t.org, t.len)
  BY <1>2 DEF Holds
<1>4. src \in Datagrams => first - 8 = - UdpHdr /\ n + 8 = Lengths[src] + UdpHdr
  BY <1>1
<1> QED BY <1>3, <1>4 DEF Proper, t

LEMMA EchoIsProper ==
  ASSUME NEW b \in Tx, NEW src \in Frames, NEW first \in Int, NEW n \in Nat,
         n >= 1, n <= 65535
  PROVE  Proper(Fill(buf_init(b, n), src, first))
<1> DEFINE t == Fill(buf_init(b, n), src, first)
<1>1. src \in Sources /\ src \notin Datagrams
  BY StackAssumption DEF Sources
<1>2. Holds(t, src, first, n)
  BY <1>1, FillHolds
<1> HIDE DEF t
<1>3. /\ t.src = src /\ t.data - t.org = first /\ t.len = n
      /\ Holds(t, t.src, t.data - t.org, t.len)
  BY <1>2 DEF Holds
<1> QED BY <1>1, <1>3 DEF Proper, t

LEMMA ErrorIsProper ==
  ASSUME NEW b \in Tx, NEW src \in Frames, NEW first \in Int
  PROVE  Proper(buf_add_header(Fill(buf_init(b, 28), src, first), IcmpHdr))
<1> DEFINE t == buf_add_header(Fill(buf_init(b, 28), src, first), IcmpHdr)
<1>1. src \in Sources /\ src \notin Datagrams /\ IcmpHdr = 8
  BY StackAssumption DEF Sources, IcmpHdr
<1>2. Quote = 28
  BY DEF Quote, IpHdr
<1>3. Holds(t, src, first - 8, 36)
  BY <1>1, <1>2, ErrorHolds
<1> HIDE DEF t
<1>4. /\ t.src = src /\ t.data - t.org = first - 8 /\ t.len = 36
      /\ Holds(t, t.src, t.data - t.org, t.len)
  BY <1>3 DEF Holds
<1> QED BY <1>1, <1>4 DEF Proper, t

-----------------------------------------------------------------------------
\* What a step of the stack is to the sending side.
Hosts == Peers \cup Macs
outVars == <<ip_id, job, given, cut, arped>>

HandsDown == \E tx, ip : Proper(tx) /\ ip \in Hosts /\ ip_out(tx, ip)
Hears == /\ job = Idle /\ UNCHANGED outVars
         /\ \E pkt \in ArpPackets, mac \in Hosts : ArpIn(pkt, mac)
Rests == /\ UNCHANGED <<arp_table, arp_buf, txbuf, now, outVars>>
         /\ out' = out \/ out' = {}

LEMMA AnswerKinds ==
  ASSUME RP!RxWindow', txbuf \in Tx, NEW f \in Frames, Rx!Poll(f), Answer
  PROVE  HandsDown \/ Rests
<1>1. CASE reply' = {} /\ upcall' = {} /\ Silent
  BY <1>1 DEF Silent, Rests, outVars, ipVars
<1>2. ASSUME NEW r \in reply', IF r.kind = "echo" THEN icmp_resp(r)
                               ELSE icmp_unreachable(r)
      PROVE  HandsDown
  <2>1. /\ r.frame = f /\ r.first \in Int /\ r.len \in Nat
        /\ r.len >= 8 /\ r.len <= 1520 /\ r.to \in Hosts
        /\ r.kind # "echo" => r.len = 28
    BY AnswerShape DEF Hosts
  <2>2. CASE r.kind = "echo"
    <3>1. Proper(Fill(buf_init(txbuf, r.len), r.frame, r.first))
      BY <2>1, EchoIsProper
    <3>2. ip_out(Fill(buf_init(txbuf, r.len), r.frame, r.first), r.to)
      BY <1>2, <2>2 DEF icmp_resp
    <3> QED BY <2>1, <3>1, <3>2 DEF HandsDown
  <2>3. CASE r.kind # "echo"
    <3>1. Proper(buf_add_header(Fill(buf_init(txbuf, r.len), r.frame, r.first),
                                IcmpHdr))
      BY <2>1, <2>3, ErrorIsProper
    <3>2. ip_out(buf_add_header(Fill(buf_init(txbuf, r.len), r.frame, r.first),
                                IcmpHdr), r.to)
      BY <1>2, <2>3 DEF icmp_unreachable
    <3> QED BY <2>1, <3>1, <3>2 DEF HandsDown
  <2> QED BY <2>2, <2>3
<1>3. ASSUME NEW u \in upcall', handler(u)
      PROVE  HandsDown
  <2>1. /\ u.frame = f /\ u.first \in Int /\ u.len \in Nat
        /\ u.len <= 1520 /\ u.src \in Hosts
    BY AnswerShape DEF Hosts
  <2>2. f \in Datagrams \cup Frames /\ f \notin Datagrams
    BY StackAssumption
  <2>3. Proper(udp_checksum(buf_add_header(
                 Fill(buf_init(txbuf, u.len), u.frame, u.first), UdpHdr)))
    BY <2>1, <2>2, UdpIsProper
  <2>4. ip_out(udp_checksum(buf_add_header(
                 Fill(buf_init(txbuf, u.len), u.frame, u.first), UdpHdr)), u.src)
    BY <1>3 DEF handler, udp_send, udp_out
  <2> QED BY <2>1, <2>3, <2>4 DEF HandsDown
<1> QED BY <1>1, <1>2, <1>3 DEF Answer

LEMMA SendHandsDown ==
  ASSUME txbuf \in Tx, NEW d \in Datagrams, NEW ip, Send(d, ip)
  PROVE  \E tx : Proper(tx) /\ tx.src = d /\ ip_out(tx, ip)
<1> DEFINE n == Lengths[d]
           tx == udp_checksum(buf_add_header(Fill(buf_init(txbuf, n), d, 0),
                                             UdpHdr))
<1>1. n \in Nat /\ n <= 65535
  <2> DEFINE last == 2^16 - 1
  <2>1. last \in Nat /\ last <= 65535
    OBVIOUS
  <2> HIDE DEF last
  <2>2. Lengths \in [Datagrams -> 0 .. last]
    BY IpSendAssumption DEF last
  <2>3. n \in Nat /\ n <= last
    BY <2>1, <2>2
  <2> QED BY <2>1, <2>3
<1>2. ip_out(tx, ip)
  BY DEF Send, SendDatagram, udp_send, udp_out
<1>3. n = Lengths[d] /\ d \in Sources
  BY DEF Sources
<1> HIDE DEF n
<1>4. Proper(tx)
  BY <1>1, <1>3, UdpIsProper
<1>5. tx.src = d
  <2>1. Holds(tx, d, 0 - UdpHdr, n + UdpHdr)
    BY <1>1, <1>3, UdpHolds
  <2> HIDE DEF tx
  <2> QED BY <2>1 DEF Holds
<1> HIDE DEF tx
<1> QED BY <1>2, <1>4, <1>5

LEMMA ArpOfAFrame ==
  ASSUME NEW f \in Frames, f.arp # Nothing
  PROVE  f.arp \in ArpPackets
<1>1. f \in Rx!PossibleFrames
  BY StackAssumption
<1>2. f.arp \in ArpPackets \cup {Nothing}
  BY <1>1, Zenon DEF Rx!PossibleFrames
<1> QED BY <1>2

LEMMA StepKinds ==
  ASSUME RP!RxWindow, txbuf \in Tx, [SNext]_stackVars
  PROVE  /\ RP!RxWindow'
         /\ \/ HandsDown \/ Hears \/ Rests
            \/ IpOutFragment \/ IpOutLast \/ ITick
<1>0. rxbuf \in RP!Rx
  BY DEF RP!RxWindow
<1>1. ASSUME NEW f \in Frames, PollArp(f)
      PROVE  RP!RxWindow' /\ (Hears \/ Rests)
  <2>1. RP!RxWindow'
    BY <1>0, <1>1, WindowAfterPoll DEF PollArp, Arrives
  <2>2. CASE ArpInMalformed
    <3>1. UNCHANGED ipVars
      BY <1>1 DEF PollArp
    <3>2. UNCHANGED outVars
      BY <3>1 DEF ipVars, outVars
    <3>3. Rests
      BY <2>2, <3>2 DEF ArpInMalformed, Rests
    <3> QED BY <2>1, <3>3
  <2>3. CASE ~ (f.arp = Nothing \/ rxbuf'.len < ArpLen)
    <3>1. ArpIn(f.arp, f.src_mac)
      BY <1>1, <2>3 DEF PollArp
    <3>2. f.arp \in ArpPackets
      BY <2>3, ArpOfAFrame
    <3>3. f.src_mac \in Hosts
      <4>1. f.ethertype = "arp"
        BY <1>1 DEF PollArp
      <4>2. Rx!Source(f) = f.src_mac
        BY <4>1 DEF Rx!Source
      <4> QED BY <4>2, StackAssumption DEF Hosts
    <3>4. job = Idle /\ UNCHANGED outVars
      BY <1>1 DEF PollArp, ipVars, outVars
    <3> QED BY <2>1, <3>1, <3>2, <3>3, <3>4 DEF Hears
  <2> QED BY <1>1, <2>1, <2>2, <2>3 DEF PollArp
<1>2. ASSUME NEW f \in Frames, PollOther(f)
      PROVE  RP!RxWindow' /\ (HandsDown \/ Rests)
  <2>1. RP!RxWindow'
    BY <1>0, <1>2, WindowAfterPoll DEF PollOther, Arrives
  <2> QED BY <1>2, <2>1, AnswerKinds DEF PollOther, Arrives
<1>3. ASSUME UNCHANGED rxVars PROVE RP!RxWindow'
  BY <1>3 DEF rxVars, RP!RxWindow, RP!Rx, RP!EndsBy
<1>4. CASE PollNothing
  <2>1. UNCHANGED <<rxbuf, top>>
    BY <1>4 DEF PollNothing, Rx!PollIdle, Rx!Quiet
  <2>2. RP!RxWindow'
    BY <2>1 DEF RP!RxWindow, RP!Rx, RP!EndsBy
  <2>3. Rests
    BY <1>4 DEF PollNothing, Silent, Rests, ipVars, outVars
  <2> QED BY <2>2, <2>3
<1>5. ASSUME NotReceiving PROVE RP!RxWindow'
  <2>1. UNCHANGED <<rxbuf, top>>
    BY <1>5 DEF NotReceiving
  <2> QED BY <2>1 DEF RP!RxWindow, RP!Rx, RP!EndsBy
<1>6. ASSUME NEW d \in Datagrams, NEW ip \in Peers, Send(d, ip)
      PROVE  RP!RxWindow' /\ HandsDown
  <2>1. \E tx : Proper(tx) /\ ip_out(tx, ip)
    BY <1>6, SendHandsDown
  <2>2. ip \in Hosts
    BY DEF Hosts
  <2> QED BY <1>5, <1>6, <2>1, <2>2 DEF HandsDown, Send
<1>7. CASE NextFragment
  BY <1>5, <1>7 DEF NextFragment
<1>8. CASE LastFragment
  BY <1>5, <1>8 DEF LastFragment
<1>9. CASE STick
  BY <1>5, <1>9 DEF STick
<1>10. CASE UNCHANGED stackVars
  <2>1. UNCHANGED rxVars /\ Rests
    BY <1>10 DEF stackVars, sendVars, arpVars, ipVars, Rests, outVars
  <2> QED BY <1>3, <2>1
<1> QED BY <1>1, <1>2, <1>4, <1>6, <1>7, <1>8, <1>9, <1>10 DEF SNext

-----------------------------------------------------------------------------
\* txbuf shows some window, whoever builds in it.
LEMMA FramedWindow ==
  ASSUME NEW S, NEW b \in Windows(S)
  PROVE  Framed(b) \in Windows(S) /\ Framed(b).src = b.src
<1> DEFINE p == IF b.len < MinPayload THEN buf_add_padding(b, MinPayload - b.len)
                ELSE b
<1>1. b.len \in Nat /\ EtherHdr \in Nat
  BY DEF Windows, EtherHdr
<1>2. p \in Windows(S) /\ p.src = b.src
  <2>1. CASE b.len < MinPayload
    <3>1. MinPayload - b.len \in Nat
      BY <1>1, <2>1 DEF MinPayload
    <3> QED BY <2>1, <3>1, AddPadding
  <2>2. CASE ~ (b.len < MinPayload)
    BY <2>2
  <2> QED BY <2>1, <2>2
<1>3. Framed(b) = buf_add_header(p, EtherHdr)
  BY DEF Framed
<1> HIDE DEF p
<1> QED BY <1>1, <1>2, <1>3, AddHeader

LEMMA ArpTxbufIsTx ==
  ASSUME NEW tx \in Tx
  PROVE  ArpTxbuf(tx) \in Tx /\ ArpTxbuf(tx).src = ARP
<1> DEFINE b == Fill(buf_init(tx, ArpLen), ARP, 0)
<1>1. Holds(b, ARP, 0, ArpLen)
  <2>1. ARP \in Sources /\ ArpLen \in Nat /\ ArpLen <= 65535
    BY DEF Sources, ArpLen
  <2> QED BY <2>1, FillHolds
<1>2. b \in Tx /\ b.src = ARP
  BY <1>1 DEF Holds
<1>3. ArpTxbuf(tx) = Framed(b)
  BY DEF ArpTxbuf
<1> HIDE DEF b
<1> QED BY <1>2, <1>3, FramedWindow DEF Tx

\* arp_out leaves txbuf alone unless it asks.
LEMMA ArpOutTxbuf ==
  ASSUME NEW buf, NEW ip, NEW tx \in Tx, ArpOut(buf, ip, tx)
  PROVE  /\ txbuf' \in Tx
         /\ txbuf' = tx \/ txbuf'.src = ARP
         /\ ~ ArpRequested => txbuf' = tx
<1>1. CASE ArpOutDirect(buf, ip, tx) \/ ArpOutBusy(buf, ip, tx)
  BY <1>1 DEF ArpOutDirect, ArpOutBusy
<1>2. CASE ArpOutRequest(buf, ip, tx)
  <2>1. txbuf' = ArpTxbuf(tx) /\ out' = {ArpFrame("request", ip, BROADCAST)}
    BY <1>2 DEF ArpOutRequest, arp_req
  <2>2. ArpRequested
    BY <2>1 DEF ArpRequested, ArpFrame
  <2> QED BY <2>1, <2>2, ArpTxbufIsTx
<1> QED BY <1>1, <1>2 DEF ArpOut

LEMMA ArpInTxbuf ==
  ASSUME txbuf \in Tx, NEW pkt, NEW mac, ArpIn(pkt, mac)
  PROVE  txbuf' \in Tx
<1>1. CASE ArpInAnswer(pkt, mac)
  BY <1>1, ArpTxbufIsTx DEF ArpInAnswer, arp_resp
<1>2. CASE ArpInFlush(pkt, mac) \/ ArpInLearn(pkt, mac)
  BY <1>2 DEF ArpInFlush, ArpInLearn
<1> QED BY <1>1, <1>2 DEF ArpIn

-----------------------------------------------------------------------------
\* The fragments of an ip_out under way, and how much of its payload is left:
\* k fragments of MaxPayload bytes have gone, and txbuf shows the rest.
Shows == [src : Sources, first : Int, len : Nat]
Fragments == [id : Nat, offset : Nat, mf : BOOLEAN, bytes : Shows]

At(k) == MaxPayload * k
Units(k) == (MaxPayload \div OffsetUnit) * k
Longest == 2^16 - 1 + UdpHdr

Piece(id, whole, k) ==
  [id |-> id, offset |-> Units(k - 1), mf |-> TRUE,
   bytes |-> [src |-> whole.src, first |-> whole.first + At(k - 1),
              len |-> MaxPayload]]

Cutting ==
  job # Idle /\ ~ arped =>
    /\ given.len <= Longest
    /\ \A k \in 1 .. Len(cut) : cut[k] = Piece(ip_id, given, k)
    /\ txbuf.src = given.src
    /\ txbuf.len = given.len - At(Len(cut))
    /\ txbuf.len >= 1
    /\ txbuf.data - txbuf.org = given.first + At(Len(cut))
    /\ job.cur = At(Len(cut))

LEMMA Pieces ==
  /\ MaxPayload = 1480 /\ OffsetUnit = 8 /\ Longest = 65543
  /\ \A k \in Nat : At(k) = 1480 * k /\ Units(k) = 185 * k
BY DEF MaxPayload, IpHdr, OffsetUnit, UdpHdr, Longest, At, Units

\* Under way it is for some host; Idle is for Nothing.
Jobs == [ip : Hosts, cur : Nat, stall : Nat] \cup {Idle}

SendTypes ==
  /\ RP!RxWindow
  /\ txbuf \in Tx
  /\ cut \in Seq(Fragments) /\ given \in Shows /\ ip_id \in Nat
  /\ job \in Jobs

CutInv == SendTypes /\ Cutting /\ TilesUnlessAsked

LEMMA ShownShape ==
  ASSUME NEW b \in Tx
  PROVE  Shown(b) \in Shows
<1>1. b.data - b.org \in Int /\ b.len \in Nat /\ b.src \in Sources
  BY DEF Tx, Windows
<1> QED BY <1>1 DEF Shown, Shows

\* The fragments copied out of txbuf.
LEMMA CopyShows ==
  ASSUME NEW b \in Tx, NEW n \in Nat, n <= 1480
  PROVE  /\ Holds(CopyOut(b, n), b.src, b.data - b.org, n)
         /\ Shown(CopyOut(b, n)) = [src |-> b.src, first |-> b.data - b.org,
                                    len |-> n]
<1> DEFINE z == ZeroBuf(Nothing)
           c == Fill(buf_init(z, n), b.src, b.data - b.org)
<1>1. z \in Tx
  BY DEF ZeroBuf, Tx, Windows, Sources
<1>2. b.src \in Sources /\ b.data - b.org \in Int
  BY DEF Tx, Windows
<1>3. CopyOut(b, n) = c
  BY DEF CopyOut
<1> HIDE DEF z
<1>4. Holds(c, b.src, b.data - b.org, n)
  BY <1>1, <1>2, FillHolds
<1> HIDE DEF c
<1>5. c.src = b.src /\ c.data - c.org = b.data - b.org /\ c.len = n
  BY <1>4 DEF Holds
<1> QED BY <1>3, <1>4, <1>5 DEF Shown

\* What a step that hands down a fragment leaves behind.
LEMMA SendTypesAfter ==
  ASSUME SendTypes, RP!RxWindow', NEW buf, NEW ip \in Hosts \cup {Nothing},
         NEW tx \in Tx, ArpOut(buf_add_header(buf, IpHdr), ip, tx),
         buf \in Tx, NEW offset \in Nat, NEW mf \in BOOLEAN,
         NEW before \in Seq(Fragments),
         cut' = Append(before, Fragment(buf, ip_id, offset, mf)),
         given' \in Shows, ip_id' \in Nat,
         job' \in Jobs
  PROVE  SendTypes'
<1>1. txbuf' \in Tx
  BY ArpOutTxbuf
<1>2. Fragment(buf, ip_id, offset, mf) \in Fragments
  <2>1. Shown(buf) \in Shows
    BY ShownShape
  <2> QED BY <2>1 DEF Fragment, Fragments, SendTypes
<1>3. cut' \in Seq(Fragments)
  BY <1>2
<1> QED BY <1>1, <1>3 DEF SendTypes

LEMMA NextIdNat == ASSUME ip_id \in Nat PROVE NextId \in Nat
BY DEF NextId

LEMMA CutInvInit == SInit => CutInv
<1> SUFFICES ASSUME SInit PROVE CutInv
  OBVIOUS
<1>1. RP!RxWindow
  <2>1. rxbuf = RP!buf_init(RP!ZeroBuf(Nothing),
                            RP!IpHdr + RP!MaxPayload + RP!EtherHdr)
    BY DEF SInit, buf_init, RP!buf_init, ZeroBuf, RP!ZeroBuf, Half, RP!Half,
       IpHdr, RP!IpHdr, MaxPayload, RP!MaxPayload, EtherHdr, RP!EtherHdr
  <2>2. top = 0
    BY DEF SInit
  <2>3. UdpFits \in Nat \ {0} /\ BUF_MAX_LEN \in Nat /\ BUF_MAX_LEN > 1
    BY StackAssumption, BufMaxLenAssumption
  <2>4. Frames \subseteq RP!PossibleFrames
    BY SamePossibleFrames
  <2> QED BY <2>1, <2>2, <2>3, <2>4, RP!RxWindowInit
<1>2. ZeroBuf(Nothing) \in Tx
  BY DEF ZeroBuf, Tx, Windows, Sources
<1>3. txbuf \in Tx
  BY <1>2, ArpTxbufIsTx DEF SInit, IInit, Init, arp_init
<1>4. given \in Shows
  BY <1>2, ShownShape DEF SInit, IInit
<1>5. /\ cut = <<>> /\ ip_id = 0 /\ job = [ip |-> Nothing, cur |-> 0, stall |-> 0]
  BY DEF SInit, IInit, Idle
<1>6. SendTypes
  BY <1>1, <1>3, <1>4, <1>5 DEF SendTypes, Jobs, Idle
<1>7. Cutting /\ TilesUnlessAsked
  BY <1>5 DEF Cutting, TilesUnlessAsked, Finished, Idle
<1> QED BY <1>6, <1>7 DEF CutInv

\* Tiles, of any fragments and payload.
Tiled(c, g) ==
  /\ c[1].bytes.first = g.first
  /\ c[Len(c)].bytes.first + c[Len(c)].bytes.len = g.first + g.len
  /\ \A k \in 1 .. Len(c) :
       /\ c[k].bytes.src = g.src
       /\ c[k].offset * OffsetUnit = c[k].bytes.first - g.first
       /\ c[k].mf = (k < Len(c))
       /\ c[k].id = c[1].id
       /\ c[k].bytes.len \in 1 .. MaxPayload
       /\ k < Len(c) =>
            c[k + 1].bytes.first = c[k].bytes.first + c[k].bytes.len

LEMMA TilesIsTiled == /\ Tiles <=> Tiled(cut, given)
                      /\ Tiles' <=> Tiled(cut', given')
BY DEF Tiles, Ends, Tiled

\* Full pieces at their places, then the rest.
Rest(id, whole, n) ==
  [id |-> id, offset |-> Units(n - 1), mf |-> FALSE,
   bytes |-> [src |-> whole.src, first |-> whole.first + At(n - 1),
              len |-> whole.len - At(n - 1)]]

LEMMA TiledIf ==
  ASSUME NEW whole, whole.first \in Int, whole.len \in Nat, NEW id,
         NEW n \in Nat, n >= 1, NEW c, Len(c) = n,
         \A k \in 1 .. n - 1 : c[k] = Piece(id, whole, k),
         c[n] = Rest(id, whole, n),
         whole.len - At(n - 1) \in 1 .. MaxPayload
  PROVE  Tiled(c, whole)
<1> DEFINE first == whole.first
           len == whole.len
<1>0. first \in Int /\ len \in Nat
  OBVIOUS
<1> HIDE DEF first, len
<1>1. ASSUME NEW k \in 1 .. n
      PROVE  /\ c[k].bytes.src = whole.src /\ c[k].id = id
             /\ c[k].offset = Units(k - 1)
             /\ c[k].bytes.first = first + At(k - 1)
             /\ k < n => c[k].bytes.len = MaxPayload /\ c[k].mf = TRUE
             /\ ~ (k < n) => /\ c[k].bytes.len = len - At(n - 1)
                             /\ c[k].mf = FALSE
  <2>1. CASE k = n
    <3>1. c[k] = Rest(id, whole, n) /\ c[k] = Rest(id, whole, k)
      BY <2>1, Zenon
    <3>2. /\ c[k].bytes.src = whole.src /\ c[k].id = id
          /\ c[k].offset = Units(k - 1) /\ c[k].bytes.first = first + At(k - 1)
          /\ c[k].bytes.len = len - At(k - 1) /\ c[k].mf = FALSE
      <4> DEFINE r == Rest(id, whole, k)
      <4>1. /\ r.id = id /\ r.offset = Units(k - 1) /\ r.mf = FALSE
            /\ r.bytes.src = whole.src /\ r.bytes.len = whole.len - At(k - 1)
            /\ r.bytes.first = whole.first + At(k - 1)
        BY DEF Rest
      <4> HIDE DEF r
      <4>2. c[k] = r
        BY <3>1, Zenon DEF r
      <4> QED BY <4>1, <4>2, Zenon DEF first, len
    <3>3. ~ (k < n)
      BY <2>1
    <3> QED BY <2>1, <3>2, <3>3, Zenon
  <2>2. CASE k \in 1 .. n - 1
    <3>1. c[k] = Piece(id, whole, k)
      BY <2>2, Zenon
    <3>2. /\ c[k].bytes.src = whole.src /\ c[k].id = id
          /\ c[k].offset = Units(k - 1) /\ c[k].bytes.first = first + At(k - 1)
          /\ c[k].bytes.len = MaxPayload /\ c[k].mf = TRUE
      <4> DEFINE r == Piece(id, whole, k)
      <4>1. /\ r.id = id /\ r.offset = Units(k - 1) /\ r.mf = TRUE
            /\ r.bytes.src = whole.src /\ r.bytes.len = MaxPayload
            /\ r.bytes.first = whole.first + At(k - 1)
        BY DEF Piece
      <4> HIDE DEF r
      <4>2. c[k] = r
        BY <3>1, Zenon DEF r
      <4> QED BY <4>1, <4>2, Zenon DEF first
    <3>3. k < n
      BY <2>2
    <3> QED BY <3>2, <3>3, Zenon
  <2>3. k = n \/ k \in 1 .. n - 1
    OBVIOUS
  <2> QED BY <2>1, <2>2, <2>3, Zenon
<1>2. 1 \in 1 .. n /\ n \in 1 .. n /\ ~ (n < n)
  OBVIOUS
<1>3. c[1].bytes.first = first /\ c[1].id = id
  <2>1. c[1].bytes.first = first + At(1 - 1) /\ c[1].id = id
    BY <1>1, <1>2, Zenon
  <2>2. first + At(1 - 1) = first
    <3>1. 1 - 1 \in Nat
      OBVIOUS
    <3> QED BY <1>0, <3>1, Pieces
  <2> QED BY <2>1, <2>2, Zenon
<1>4. c[n].bytes.first + c[n].bytes.len = first + len
  <2>1. c[n].bytes.first = first + At(n - 1)
        /\ c[n].bytes.len = len - At(n - 1)
    BY <1>1, <1>2, Zenon
  <2>2. (first + At(n - 1)) + (len - At(n - 1)) = first + len
    <3>1. n - 1 \in Nat
      OBVIOUS
    <3>2. At(n - 1) \in Int
      BY <3>1, Pieces
    <3> QED BY <1>0, <3>2
  <2> QED BY <2>1, <2>2, Zenon
<1>5. ASSUME NEW k \in 1 .. n
      PROVE  /\ c[k].offset * OffsetUnit = c[k].bytes.first - first
             /\ c[k].bytes.len \in 1 .. MaxPayload
             /\ k < n => c[k + 1].bytes.first
                           = c[k].bytes.first + c[k].bytes.len
  <2>1. c[k].offset = Units(k - 1)
        /\ c[k].bytes.first = first + At(k - 1)
    BY <1>1, Zenon
  <2>2. c[k].bytes.len \in 1 .. MaxPayload
    <3>1. c[k].bytes.len = MaxPayload \/ c[k].bytes.len = len - At(n - 1)
      BY <1>1, Zenon
    <3>2. MaxPayload \in 1 .. MaxPayload
      BY Pieces
    <3> QED BY <3>1, <3>2, Zenon DEF len
  <2>3. ASSUME k < n
        PROVE  c[k + 1].bytes.first = c[k].bytes.first + c[k].bytes.len
    <3>1. k + 1 \in 1 .. n
      BY <2>3
    <3>2. c[k + 1].bytes.first = first + At((k + 1) - 1)
      <4>1. \A j \in 1 .. n : c[j].bytes.first = first + At(j - 1)
        BY <1>1, Zenon
      <4> QED BY <3>1, <4>1
    <3>3. c[k].bytes.len = MaxPayload
      BY <1>1, <2>3, Zenon
    <3>4. first + At((k + 1) - 1) = (first + At(k - 1)) + MaxPayload
      <4>1. (k + 1) - 1 \in Nat /\ k - 1 \in Nat
        OBVIOUS
      <4> QED BY <1>0, <4>1, Pieces
    <3> QED BY <2>1, <3>2, <3>3, <3>4, Zenon
  <2>4. Units(k - 1) * OffsetUnit = (first + At(k - 1)) - first
    <3>1. k - 1 \in Nat
      OBVIOUS
    <3> QED BY <1>0, <3>1, Pieces
  <2>5. c[k].offset * OffsetUnit = c[k].bytes.first - first
    BY <2>1, <2>4, Zenon
  <2> QED BY <2>2, <2>3, <2>5
<1>6. ASSUME NEW k \in 1 .. n
      PROVE  c[k].mf = (k < n)
  <2>1. (k < n => c[k].mf = TRUE) /\ (~ (k < n) => c[k].mf = FALSE)
    BY <1>1, Zenon
  <2>2. CASE k < n
    <3>1. (k < n) = TRUE
      BY <2>2, Zenon
    <3> QED BY <2>1, <2>2, <3>1, Zenon
  <2>3. CASE ~ (k < n)
    <3>1. (k < n) = FALSE
      BY <2>3
    <3> QED BY <2>1, <2>3, <3>1, Zenon
  <2> QED BY <2>2, <2>3, Zenon
<1>7. c[Len(c)].bytes.first + c[Len(c)].bytes.len = whole.first + whole.len
  BY <1>4, Zenon DEF first, len
<1>8. c[1].bytes.first = whole.first
  BY <1>3, Zenon DEF first
<1>9. \A k \in 1 .. Len(c) :
       /\ c[k].bytes.src = whole.src
       /\ c[k].offset * OffsetUnit = c[k].bytes.first - whole.first
       /\ c[k].mf = (k < Len(c))
       /\ c[k].id = c[1].id
       /\ c[k].bytes.len \in 1 .. MaxPayload
       /\ k < Len(c) =>
            c[k + 1].bytes.first = c[k].bytes.first + c[k].bytes.len
  BY <1>1, <1>3, <1>5, <1>6, Zenon DEF first
<1> QED BY <1>7, <1>8, <1>9, Zenon DEF Tiled

\* A payload that fits one packet is its own and only fragment; a longer one is
\* still whole.
LEMMA CutHandsDown ==
  ASSUME CutInv, RP!RxWindow', HandsDown
  PROVE  CutInv'
<1>1. PICK tx, ip : Proper(tx) /\ ip \in Hosts /\ ip_out(tx, ip)
  BY Zenon DEF HandsDown
<1>2. /\ tx \in Tx /\ tx.src \in Sources /\ tx.data - tx.org \in Int
      /\ tx.len \in Nat /\ tx.len >= 1 /\ tx.len <= Longest
  BY <1>1, Pieces DEF Proper, Holds, Tx, Windows
<1>3. /\ job = Idle /\ given' = Shown(tx)
      /\ IpOutWhole(tx, ip) \/ IpOutStart(tx, ip)
  BY <1>1, Zenon DEF ip_out
<1>4. /\ given' \in Shows /\ given'.src = tx.src
      /\ given'.first = tx.data - tx.org /\ given'.len = tx.len
  BY <1>2, <1>3, ShownShape DEF Shown
<1>5. ip_id \in Nat /\ SendTypes /\ job \in Jobs
  BY DEF CutInv, SendTypes
<1>6. CASE IpOutWhole(tx, ip)
  <2> DEFINE f == Fragment(tx, ip_id, 0, FALSE)
  <2>1. /\ tx.len <= MaxPayload /\ job' = job /\ ip_id' = NextId
        /\ ArpOut(buf_add_header(tx, IpHdr), ip, tx)
        /\ cut' = Append(<<>>, f)
    BY <1>6, Zenon DEF IpOutWhole, ip_fragment_out
  <2>2. f = [id |-> ip_id, offset |-> 0, mf |-> FALSE, bytes |-> given']
    BY <1>3, Zenon DEF Fragment
  <2>3. SendTypes'
    <3>1. /\ <<>> \in Seq(Fragments) /\ 0 \in Nat /\ FALSE \in BOOLEAN
          /\ ip_id' \in Nat /\ job' \in Jobs /\ ip \in Hosts \cup {Nothing}
      BY <1>1, <1>5, <2>1, NextIdNat
    <3>2. given' \in Shows
      BY <1>4
    <3> QED BY <1>2, <1>5, <2>1, <3>1, <3>2, SendTypesAfter, Zenon
  <2>4. Cutting'
    BY <1>3, <2>1 DEF Cutting
  <2> HIDE DEF f
  <2>5. Len(cut') = 1 /\ cut'[1] = f
    BY <2>1
  <2>6. /\ 1 \in Nat /\ 1 >= 1 /\ Units(1 - 1) = 0
        /\ given'.first + At(1 - 1) = given'.first
        /\ given'.len - At(1 - 1) = given'.len
        /\ given'.len - At(1 - 1) \in 1 .. MaxPayload
    <3>1. 1 - 1 \in Nat /\ 1480 * (1 - 1) = 0 /\ 185 * (1 - 1) = 0
      OBVIOUS
    <3>2. Units(1 - 1) = 0 /\ At(1 - 1) = 0 /\ MaxPayload \in Nat
      BY <3>1, Pieces
    <3>3. /\ given'.first \in Int /\ given'.len \in Nat
          /\ given'.len >= 1 /\ given'.len <= MaxPayload
      BY <1>2, <1>4, <2>1
    <3> QED BY <3>2, <3>3
  <2>7. given' = [src |-> given'.src, first |-> given'.first,
                  len |-> given'.len]
    BY <1>4 DEF Shows
  <2>8. f = Rest(ip_id, given', 1)
    BY <2>2, <2>6, <2>7, Zenon DEF Rest
  <2>9. \A k \in 1 .. 1 - 1 : cut'[k] = Piece(ip_id, given', k)
    OBVIOUS
  <2>10. given'.first \in Int /\ given'.len \in Nat
    BY <1>2, <1>4
  <2>11. Tiled(cut', given')
    BY <2>5, <2>6, <2>8, <2>9, <2>10, TiledIf, Zenon
  <2> QED BY <2>3, <2>4, <2>11, TilesIsTiled, Zenon DEF CutInv, TilesUnlessAsked
<1>7. CASE IpOutStart(tx, ip)
  <2>1. /\ tx.len > MaxPayload /\ txbuf' = tx /\ cut' = <<>> /\ ip_id' = ip_id
        /\ job' = [ip |-> ip, cur |-> 0, stall |-> 0]
    BY <1>7, Zenon DEF IpOutStart
  <2>2. job' \in Jobs
    BY <1>1, <2>1 DEF Jobs
  <2>3. SendTypes'
    BY <1>2, <1>4, <1>5, <2>1, <2>2 DEF SendTypes
  <2>4. Len(cut') = 0 /\ job'.cur = 0 /\ At(0) = 0
    BY <2>1, Pieces
  <2>5. Cutting'
    BY <1>2, <1>4, <2>1, <2>4 DEF Cutting
  <2>6. TilesUnlessAsked'
    BY <2>1, Zenon DEF TilesUnlessAsked, Finished
  <2> QED BY <2>3, <2>5, <2>6 DEF CutInv
<1> QED BY <1>3, <1>6, <1>7

\* A piece of a given length, cut off by one round of the loop or by the last.
LEMMA CutOff ==
  ASSUME NEW b \in Tx, NEW n \in Nat, n <= MaxPayload, n <= b.len
  PROVE  /\ CopyOut(b, n) \in Tx
         /\ Shown(CopyOut(b, n)) = [src |-> b.src, first |-> b.data - b.org,
                                    len |-> n]
         /\ buf_remove_header(b, n) \in Tx
         /\ buf_remove_header(b, n).src = b.src
         /\ buf_remove_header(b, n).data - buf_remove_header(b, n).org
              = b.data - b.org + n
         /\ buf_remove_header(b, n).len = b.len - n
<1>0. n <= 1480
  BY Pieces
<1>1. CopyOut(b, n) \in Tx
  BY <1>0, CopyShows DEF Holds
<1>2. b.data \in Nat /\ b.org \in Int /\ b.len \in Nat /\ b \in Windows(Sources)
  BY DEF Tx, Windows
<1> DEFINE t == buf_remove_header(b, n)
<1>3. /\ t \in Windows(Sources) /\ t.org = b.org /\ t.src = b.src
      /\ t.data = b.data + n /\ t.len = b.len - n
  BY <1>2, RemoveHeader
<1> HIDE DEF t
<1>4. t.data - t.org = b.data - b.org + n
  BY <1>2, <1>3
<1>5. Shown(CopyOut(b, n)) = [src |-> b.src, first |-> b.data - b.org,
                              len |-> n]
  BY <1>0, CopyShows
<1>6. t \in Tx
  BY <1>3 DEF Tx
<1> QED BY <1>1, <1>3, <1>4, <1>5, <1>6 DEF t

\* What one round of the loop cuts off, as long as txbuf is what it was.
LEMMA CutFragment ==
  ASSUME CutInv, RP!RxWindow', IpOutFragment
  PROVE  CutInv'
<1> DEFINE n == Len(cut)
           c == CopyOut(txbuf, MaxPayload)
           t == buf_remove_header(txbuf, MaxPayload)
           at == job.cur \div OffsetUnit
           next == (job.cur + MaxPayload) % 2^16
           f == Fragment(c, ip_id, at, TRUE)
<1> HIDE DEF n, c, t, at, next, f
<1>1. /\ txbuf \in Tx /\ SendTypes /\ Cutting /\ cut \in Seq(Fragments)
      /\ job \in Jobs /\ given \in Shows /\ ip_id \in Nat
  BY Zenon DEF CutInv, SendTypes
<1>2. /\ job # Idle /\ txbuf.len > MaxPayload
      /\ ArpOut(buf_add_header(c, IpHdr), job.ip, t)
      /\ cut' = Append(cut, f)
      /\ job' = [job EXCEPT !.cur = next]
      /\ arped' = (arped \/ ArpRequested)
      /\ ip_id' = ip_id /\ given' = given
  BY Zenon DEF IpOutFragment, ip_fragment_out, c, t, at, next, f
<1>3. MaxPayload \in Nat /\ txbuf.len \in Nat /\ MaxPayload <= txbuf.len
      /\ MaxPayload <= MaxPayload
  BY <1>1, <1>2, Pieces DEF Tx, Windows
<1>4. /\ c \in Tx
      /\ Shown(c) = [src |-> txbuf.src, first |-> txbuf.data - txbuf.org,
                     len |-> MaxPayload]
      /\ t \in Tx /\ t.src = txbuf.src
      /\ t.data - t.org = txbuf.data - txbuf.org + MaxPayload
      /\ t.len = txbuf.len - MaxPayload
  BY <1>1, <1>3, CutOff DEF c, t
<1>5. job \in [ip : Hosts, cur : Nat, stall : Nat] /\ Nothing \notin Hosts
  BY <1>1, <1>2, StackAssumption DEF Jobs, Hosts
<1>6. next \in Nat /\ at \in Nat
  <2>1. job.cur \in Nat
    BY <1>5
  <2> QED BY <2>1, Pieces DEF next, at
<1>7. /\ job' \in [ip : Hosts, cur : Nat, stall : Nat] /\ job'.ip \in Hosts
      /\ job'.cur = next
  BY <1>2, <1>5, <1>6
<1>8. job' \in Jobs /\ job' # Idle
  BY <1>5, <1>7 DEF Jobs, Idle
<1>9. SendTypes'
  <2>1. job.ip \in Hosts \cup {Nothing} /\ TRUE \in BOOLEAN
    BY <1>5
  <2>2. given' \in Shows /\ ip_id' \in Nat
    BY <1>1, <1>2, Zenon
  <2> QED BY <1>1, <1>2, <1>4, <1>6, <1>8, <2>1, <2>2, SendTypesAfter, Zenon DEF f
<1>10. ASSUME ~ arped'
       PROVE  Cutting'
  <2>1. ~ arped /\ ~ ArpRequested
    BY <1>2, <1>10, Zenon
  <2>2. txbuf' = t
    BY <1>2, <1>4, <2>1, ArpOutTxbuf, Zenon
  <2>3. /\ given.len <= Longest
        /\ \A k \in 1 .. n : cut[k] = Piece(ip_id, given, k)
        /\ txbuf.src = given.src
        /\ txbuf.len = given.len - At(n)
        /\ txbuf.data - txbuf.org = given.first + At(n)
        /\ job.cur = At(n)
    BY <1>1, <1>2, <2>1 DEF Cutting, n
  <2>4. n \in Nat /\ given.len \in Nat /\ given.first \in Int
    BY <1>1 DEF Shows, n
  <2>5. /\ Len(cut') = n + 1 /\ cut'[n + 1] = f
        /\ \A k \in 1 .. n : cut'[k] = cut[k]
    BY <1>1, <1>2 DEF n
  <2>6. /\ At(n + 1) = At(n) + MaxPayload /\ At(n) \in Nat
        /\ At(n + 1) < given.len
        /\ next = At(n + 1) /\ at = Units(n)
    <3>1. /\ At(n) = 1480 * n /\ At(n + 1) = 1480 * (n + 1)
          /\ Units(n) = 185 * n
      BY <2>4, Pieces
    <3>2. 1480 * (n + 1) < given.len /\ given.len <= 65543
      BY <1>2, <2>3, <2>4, <3>1, Pieces
    <3>3. 1480 * (n + 1) < 65536
      BY <2>4, <3>2
    <3>4. (1480 * n + 1480) % 65536 = 1480 * (n + 1) /\ (1480 * n) \div 8 = 185 * n
      BY <2>4, <3>3
    <3>5. 2^16 = 65536
      OBVIOUS
    <3>6. next = At(n + 1) /\ at = Units(n)
      BY <2>3, <3>1, <3>4, <3>5, Pieces DEF next, at
    <3> QED BY <2>4, <3>1, <3>2, <3>6, Pieces
  <2>7. Piece(ip_id, given, n + 1) = f
    <3>1. (n + 1) - 1 = n
      BY <2>4
    <3>2. Shown(c) = [src |-> given.src, first |-> given.first + At(n),
                      len |-> MaxPayload]
      BY <1>4, <2>3, Zenon
    <3>3. f = [id |-> ip_id, offset |-> Units(n), mf |-> TRUE,
               bytes |-> Shown(c)]
      BY <2>6, Zenon DEF Fragment, f
    <3>4. Piece(ip_id, given, n + 1)
            = [id |-> ip_id, offset |-> Units((n + 1) - 1), mf |-> TRUE,
               bytes |-> [src |-> given.src,
                          first |-> given.first + At((n + 1) - 1),
                          len |-> MaxPayload]]
      BY DEF Piece
    <3> QED BY <3>1, <3>2, <3>3, <3>4, Zenon
  <2>8. \A k \in 1 .. n + 1 : k = n + 1 \/ k \in 1 .. n
    BY <2>4
  <2>9. \A k \in 1 .. n + 1 : cut'[k] = Piece(ip_id, given, k)
    BY <2>3, <2>5, <2>7, <2>8, Zenon
  <2>10. /\ txbuf'.src = given.src
         /\ txbuf'.len = given.len - At(n + 1) /\ txbuf'.len >= 1
         /\ txbuf'.data - txbuf'.org = given.first + At(n + 1)
    <3>1. At(n) \in Nat /\ At(n + 1) \in Nat
      BY <2>4, Pieces
    <3> QED BY <1>3, <1>4, <2>2, <2>3, <2>4, <2>6, <3>1
  <2>11. /\ given' = given /\ ip_id' = ip_id
         /\ Len(cut') = n + 1 /\ job'.cur = At(n + 1)
    BY <1>2, <1>7, <2>5, <2>6, Zenon
  <2>12. \A k \in 1 .. Len(cut') : cut'[k] = Piece(ip_id', given', k)
    BY <2>9, <2>11, Zenon
  <2> QED BY <2>3, <2>10, <2>11, <2>12 DEF Cutting
<1>11. Cutting'
  <2>1. arped' => Cutting'
    BY DEF Cutting
  <2> QED BY <1>10, <2>1
<1>12. TilesUnlessAsked'
  BY <1>8, Zenon DEF TilesUnlessAsked, Finished
<1> QED BY <1>9, <1>11, <1>12, Zenon DEF CutInv

\* The last round leaves the whole payload cut.
LEMMA CutLast ==
  ASSUME CutInv, RP!RxWindow', IpOutLast
  PROVE  CutInv'
<1> DEFINE n == Len(cut)
           m == txbuf.len
           c == CopyOut(txbuf, m)
           t == buf_remove_header(txbuf, m)
           at == job.cur \div OffsetUnit
           f == Fragment(c, ip_id, at, FALSE)
<1> HIDE DEF n, m, c, t, at, f
<1>1. /\ txbuf \in Tx /\ SendTypes /\ Cutting /\ cut \in Seq(Fragments)
      /\ job \in Jobs /\ given \in Shows /\ ip_id \in Nat
  BY Zenon DEF CutInv, SendTypes
<1>2. /\ job # Idle /\ m \in 1 .. MaxPayload /\ txbuf.len = m
      /\ ArpOut(buf_add_header(c, IpHdr), job.ip, t)
      /\ cut' = Append(cut, f)
      /\ job' = Idle /\ ip_id' = NextId
      /\ arped' = (arped \/ ArpRequested)
      /\ given' = given
  BY Zenon DEF IpOutLast, ip_fragment_out, m, c, t, at, f
<1>3. m \in Nat /\ m >= 1 /\ m <= MaxPayload /\ m <= txbuf.len
  <2>1. MaxPayload \in Nat /\ m \in 1 .. MaxPayload /\ txbuf.len = m
    BY <1>2, Pieces
  <2>2. m \in Nat /\ m >= 1 /\ m <= MaxPayload /\ m <= m
    BY <2>1
  <2> QED BY <2>1, <2>2
<1>4. /\ c \in Tx /\ t \in Tx
      /\ Shown(c) = [src |-> txbuf.src, first |-> txbuf.data - txbuf.org,
                     len |-> m]
  BY <1>1, <1>3, CutOff DEF c, t
<1>5. job \in [ip : Hosts, cur : Nat, stall : Nat]
  BY <1>1, <1>2 DEF Jobs
<1>6. at \in Nat
  <2>1. job.cur \in Nat
    BY <1>5
  <2> QED BY <2>1, Pieces DEF at
<1>7. SendTypes'
  <2>1. job.ip \in Hosts \cup {Nothing} /\ FALSE \in BOOLEAN
    BY <1>5
  <2>2. given' \in Shows /\ ip_id' \in Nat /\ job' \in Jobs
    BY <1>1, <1>2, NextIdNat DEF Jobs
  <2> QED BY <1>1, <1>2, <1>4, <1>6, <2>1, <2>2, SendTypesAfter, Zenon DEF f
<1>8. Cutting'
  BY <1>2 DEF Cutting
<1>9. ASSUME ~ arped'
      PROVE  Tiles'
  <2>1. ~ arped
    BY <1>2, <1>9, Zenon
  <2>2. /\ \A k \in 1 .. n : cut[k] = Piece(ip_id, given, k)
        /\ txbuf.src = given.src
        /\ txbuf.len = given.len - At(n)
        /\ txbuf.data - txbuf.org = given.first + At(n)
        /\ job.cur = At(n)
    BY <1>1, <1>2, <2>1 DEF Cutting, n
  <2>3. n \in Nat /\ given.len \in Nat /\ given.first \in Int
    BY <1>1 DEF Shows, n
  <2>4. /\ Len(cut') = n + 1 /\ cut'[n + 1] = f
        /\ \A k \in 1 .. n : cut'[k] = cut[k]
    BY <1>1, <1>2 DEF n
  <2>5. at = Units(n)
    <3>1. At(n) = 1480 * n /\ Units(n) = 185 * n
      BY <2>3, Pieces
    <3>2. (1480 * n) \div 8 = 185 * n
      BY <2>3
    <3> QED BY <2>2, <3>1, <3>2, Pieces DEF at
  <2>6. (n + 1) - 1 = n
    BY <2>3
  <2>7. f = Rest(ip_id, given, n + 1)
    <3>1. Shown(c) = [src |-> given.src, first |-> given.first + At(n),
                      len |-> given.len - At(n)]
      BY <1>2, <1>4, <2>2, Zenon
    <3>2. f = [id |-> ip_id, offset |-> Units(n), mf |-> FALSE,
               bytes |-> Shown(c)]
      BY <2>5, Zenon DEF Fragment, f
    <3>3. Rest(ip_id, given, n + 1)
            = [id |-> ip_id, offset |-> Units((n + 1) - 1), mf |-> FALSE,
               bytes |-> [src |-> given.src,
                          first |-> given.first + At((n + 1) - 1),
                          len |-> given.len - At((n + 1) - 1)]]
      BY DEF Rest
    <3> QED BY <2>6, <3>1, <3>2, <3>3, Zenon
  <2>8. \A k \in 1 .. (n + 1) - 1 : cut'[k] = Piece(ip_id, given, k)
    BY <2>2, <2>4, <2>6, Zenon
  <2>9. given.len - At((n + 1) - 1) \in 1 .. MaxPayload
    BY <1>2, <2>2, <2>6, Zenon
  <2>10. n + 1 \in Nat /\ n + 1 >= 1
    BY <2>3
  <2>11. cut'[n + 1] = Rest(ip_id, given, n + 1)
    BY <2>4, <2>7, Zenon
  <2>12. Tiled(cut', given)
    BY <2>3, <2>4, <2>8, <2>9, <2>10, <2>11, TiledIf
  <2> QED BY <1>2, <2>12, TilesIsTiled, Zenon
<1>10. TilesUnlessAsked'
  BY <1>9 DEF TilesUnlessAsked
<1> QED BY <1>7, <1>8, <1>10, Zenon DEF CutInv

\* The other steps leave the fragments alone.
LEMMA CutSame ==
  ASSUME CutInv, RP!RxWindow', UNCHANGED outVars, txbuf' \in Tx,
         job = Idle \/ txbuf' = txbuf
  PROVE  CutInv'
<1>1. /\ ip_id' = ip_id /\ job' = job /\ given' = given /\ cut' = cut
      /\ arped' = arped
  BY DEF outVars
<1>2. SendTypes'
  BY <1>1 DEF CutInv, SendTypes
<1>3. Cutting'
  BY <1>1 DEF CutInv, Cutting
<1>4. Tiles' = Tiles
  BY <1>1 DEF Tiles, Ends
<1>5. TilesUnlessAsked'
  BY <1>1, <1>4 DEF CutInv, TilesUnlessAsked, Finished
<1> QED BY <1>2, <1>3, <1>5 DEF CutInv

LEMMA CutTick ==
  ASSUME CutInv, RP!RxWindow', ITick
  PROVE  CutInv'
<1>1. /\ txbuf' = txbuf /\ ip_id' = ip_id /\ given' = given /\ cut' = cut
      /\ arped' = arped
      /\ job' = IF job = Idle THEN job ELSE [job EXCEPT !.stall = @ + 1]
  BY DEF ITick, Tick
<1>2. CASE job = Idle
  BY <1>1, <1>2, CutSame DEF outVars, CutInv, SendTypes
<1>3. CASE job # Idle
  <2>1. job \in [ip : Hosts, cur : Nat, stall : Nat] /\ Nothing \notin Hosts
    BY <1>3, StackAssumption DEF CutInv, SendTypes, Jobs, Hosts
  <2>2. /\ job' \in [ip : Hosts, cur : Nat, stall : Nat]
        /\ job'.ip \in Hosts /\ job'.cur = job.cur
    BY <1>1, <1>3, <2>1
  <2>3. job' \in Jobs /\ job' # Idle
    BY <2>1, <2>2 DEF Jobs, Idle
  <2>4. SendTypes'
    BY <1>1, <2>3 DEF CutInv, SendTypes
  <2>5. Cutting'
    BY <1>1, <1>3, <2>2 DEF CutInv, Cutting
  <2>6. TilesUnlessAsked'
    BY <2>3 DEF TilesUnlessAsked, Finished
  <2> QED BY <2>4, <2>5, <2>6 DEF CutInv
<1> QED BY <1>2, <1>3

LEMMA CutInvNext == CutInv /\ [SNext]_stackVars => CutInv'
<1> SUFFICES ASSUME CutInv, [SNext]_stackVars PROVE CutInv'
  OBVIOUS
<1>1. RP!RxWindow /\ txbuf \in Tx
  BY DEF CutInv, SendTypes
<1>2. /\ RP!RxWindow'
      /\ \/ HandsDown \/ Hears \/ Rests
         \/ IpOutFragment \/ IpOutLast \/ ITick
  BY <1>1, StepKinds
<1>3. CASE Hears
  <2>1. PICK pkt \in ArpPackets, mac \in Hosts : ArpIn(pkt, mac)
    BY <1>3 DEF Hears
  <2>2. txbuf' \in Tx
    BY <1>1, <2>1, ArpInTxbuf
  <2> QED BY <1>2, <1>3, <2>2, CutSame DEF Hears
<1>4. CASE Rests
  <2>1. UNCHANGED outVars /\ txbuf' = txbuf
    BY <1>4 DEF Rests, outVars
  <2> QED BY <1>1, <1>2, <2>1, CutSame
<1> QED BY <1>2, <1>3, <1>4, CutHandsDown, CutFragment, CutLast, CutTick

\* As long as no ARP request is built in txbuf while ip_out is in its loop, the
\* fragments tile the datagram it was given, for any datagrams, any frames that
\* arrive and are answered in between, and any tables (ip.c:95-139).
THEOREM DatagramsAreTiled == SSpec => []TilesUnlessAsked
<1>1. CutInv => TilesUnlessAsked
  BY DEF CutInv
<1> QED BY <1>1, CutInvInit, CutInvNext, PTL DEF SSpec

-----------------------------------------------------------------------------
\* What waits in the queue and what reaches the wire.  A fragment of a datagram
\* is a whole piece of it: n bytes at offset at of the IP payload.
Whole(src, at, n) ==
  src \in Datagrams =>
    LET rest == Lengths[src] + UdpHdr - at
    IN  /\ at >= 0 /\ rest > 0 /\ at % MaxPayload = 0
        /\ n = IF rest > MaxPayload THEN MaxPayload ELSE rest

IpPacket(b) ==
  /\ Holds(b, b.src, b.data - b.org, b.len)
  /\ b.len <= IpHdr + MaxPayload
  /\ Whole(b.src, b.data - b.org + (IpHdr + UdpHdr), b.len - IpHdr)

\* What FramesArePieces says of one frame.
WholeFrame(body) ==
  body.src \in Datagrams =>
    LET at == body.first + EtherHdr + IpHdr + UdpHdr
        rest == Lengths[body.src] + UdpHdr - at
        piece == IpHdr + (IF rest > MaxPayload THEN MaxPayload ELSE rest)
    IN  /\ at >= 0 /\ rest > 0 /\ at % MaxPayload = 0
        /\ body.len = EtherHdr
             + (IF piece < MinPayload THEN MinPayload ELSE piece)

LEMMA LengthsFit == \A d \in Datagrams : Lengths[d] \in Nat
<1> DEFINE last == 2^16 - 1
<1>1. last \in Nat
  OBVIOUS
<1> HIDE DEF last
<1>2. Lengths \in [Datagrams -> 0 .. last]
  BY IpSendAssumption DEF last
<1> QED BY <1>1, <1>2

\* The IP header in front of a fragment.
LEMMA PacketOfFragment ==
  ASSUME NEW x, Holds(x, x.src, x.data - x.org, x.len), x.len <= MaxPayload,
         Whole(x.src, x.data - x.org + UdpHdr, x.len),
         NEW b, b = buf_add_header(x, IpHdr)
  PROVE  IpPacket(b) /\ b.src = x.src /\ b \in Tx
<1> DEFINE first == x.data - x.org
           n == x.len
<1>1. first \in Int /\ n \in Nat
  BY DEF Holds, Tx, Windows
<1>2. IpHdr = 20 /\ UdpHdr = 8 /\ n <= 1480
  BY Pieces DEF IpHdr, UdpHdr
<1> HIDE DEF first, n
<1>3. Holds(x, x.src, first, n)
  BY DEF first, n
<1>4. Holds(b, x.src, first - IpHdr, n + IpHdr)
  <2>1. n + IpHdr <= 65577 /\ IpHdr \in Nat
    BY <1>1, <1>2
  <2> QED BY <1>1, <1>3, <2>1, HeaderHolds
<1>5. /\ b.src = x.src /\ b.data - b.org = first - IpHdr /\ b.len = n + IpHdr
      /\ b \in Tx
  BY <1>4, Zenon DEF Holds
<1>6. /\ b.len <= IpHdr + MaxPayload
      /\ b.data - b.org + (IpHdr + UdpHdr) = first + UdpHdr
      /\ b.len - IpHdr = n
  <2>1. b.data - b.org = first - 20 /\ b.len = n + 20
    BY <1>2, <1>5
  <2> QED BY <1>1, <1>2, <2>1, Pieces
<1>7. Whole(b.src, b.data - b.org + (IpHdr + UdpHdr), b.len - IpHdr)
  BY <1>5, <1>6, Zenon DEF first, n
<1>8. Holds(b, b.src, b.data - b.org, b.len)
  BY <1>4, <1>5, Zenon
<1> QED BY <1>5, <1>6, <1>7, <1>8, Zenon DEF IpPacket

\* The Ethernet header and the padding around a packet.
LEMMA FrameOfPacket ==
  ASSUME NEW b, IpPacket(b)
  PROVE  /\ Shown(Framed(b)).src = b.src
         /\ Shown(Framed(b)).first = b.data - b.org - EtherHdr
         /\ Shown(Framed(b)).len = EtherHdr + (IF b.len < MinPayload
                                               THEN MinPayload ELSE b.len)
         /\ WholeFrame(Shown(Framed(b)))
<1> DEFINE p == IF b.len < MinPayload THEN buf_add_padding(b, MinPayload - b.len)
                ELSE b
           f == buf_add_header(p, EtherHdr)
<1>1. /\ b \in Windows(Sources) /\ b.data = Half - b.len /\ b.len \in Nat
      /\ b.data \in Nat /\ b.org \in Int /\ b.len <= 1500
      /\ Whole(b.src, b.data - b.org + (IpHdr + UdpHdr), b.len - IpHdr)
  BY Pieces DEF IpPacket, Holds, Tx, Windows, IpHdr
<1>2. Half \in Nat /\ 65577 <= Half /\ Half + 46 < BUF_MAX_LEN
  BY Room, BufMaxLenAssumption DEF Half
<1>3. /\ p \in Windows(Sources) /\ p.org = b.org /\ p.src = b.src
      /\ p.data = b.data
      /\ p.len = IF b.len < 46 THEN 46 ELSE b.len
  <2>1. CASE b.len < 46
    <3> DEFINE n == 46 - b.len
    <3>1. n \in Nat /\ b.len + n = 46
      BY <1>1, <2>1
    <3>2. p = buf_add_padding(b, n)
      BY <2>1 DEF MinPayload
    <3> HIDE DEF p, n
    <3>3. b.data + b.len = Half
      BY <1>1, <1>2
    <3>4. b.data + b.len + n < BUF_MAX_LEN
      <4>1. n <= 46
        BY <1>1, <3>1
      <4> QED BY <1>1, <1>2, <3>1, <3>3, <4>1, BufMaxLenAssumption
    <3>5. /\ p \in Windows(Sources) /\ p.org = b.org /\ p.src = b.src
          /\ p.data = b.data /\ p.len = b.len + n
      <4>1. b \in Windows(Sources) /\ n \in Nat
        BY <1>1, <3>1
      <4> QED BY <3>2, <3>4, <4>1, AddPadding
    <3> QED BY <1>1, <2>1, <3>1, <3>5
  <2>2. CASE ~ (b.len < 46)
    <3>1. p = b
      BY <2>2 DEF MinPayload
    <3> HIDE DEF p
    <3> QED BY <1>1, <2>2, <3>1
  <2> QED BY <2>1, <2>2
<1> HIDE DEF p
<1>4. /\ f.org = b.org /\ f.src = b.src /\ f.data = b.data - 14
      /\ f.len = 14 + (IF b.len < 46 THEN 46 ELSE b.len)
  <2>1. 14 \in Nat /\ p.data >= 14 /\ p.len \in Nat
    BY <1>1, <1>2, <1>3
  <2>2. f = buf_add_header(p, 14)
    BY DEF EtherHdr
  <2>3. /\ f.org = p.org /\ f.src = p.src /\ f.data = p.data - 14
        /\ f.len = p.len + 14
    BY <1>3, <2>1, <2>2, AddHeader
  <2> QED BY <1>1, <1>3, <2>1, <2>3
<1>5. Framed(b) = f
  BY DEF Framed, p
<1> HIDE DEF f
<1> DEFINE s == Shown(Framed(b))
<1>6. s.src = b.src /\ s.first = b.data - 14 - b.org /\ s.len = f.len
  BY <1>4, <1>5 DEF Shown
<1> HIDE DEF s
<1>7. ASSUME b.src \in Datagrams PROVE WholeFrame(s)
  <2> DEFINE at == b.data - b.org + 28
             rest == Lengths[b.src] + 8 - at
  <2>1. Lengths[b.src] \in Nat
    BY <1>7, LengthsFit
  <2>2. IpHdr = 20 /\ UdpHdr = 8 /\ EtherHdr = 14 /\ MinPayload = 46
        /\ MaxPayload = 1480
    BY DEF IpHdr, UdpHdr, EtherHdr, MinPayload, MaxPayload
  <2>3. at \in Int /\ rest \in Int
    BY <1>1, <2>1
  <2>4. /\ at >= 0 /\ rest > 0 /\ at % 1480 = 0
        /\ b.len - 20 = IF rest > 1480 THEN 1480 ELSE rest
    BY <1>1, <1>7, <2>2 DEF Whole
  <2>5. s.first + 14 + 20 + 8 = at
    BY <1>1, <1>6
  <2> HIDE DEF at
  <2>6. Lengths[s.src] + 8 - (s.first + 14 + 20 + 8) = rest
    BY <1>6, <2>5
  <2> HIDE DEF rest
  <2>7. b.len = 20 + (IF rest > 1480 THEN 1480 ELSE rest)
    BY <1>1, <2>3, <2>4
  <2>8. s.len = 14 + (IF 20 + (IF rest > 1480 THEN 1480 ELSE rest) < 46 THEN 46
                      ELSE 20 + (IF rest > 1480 THEN 1480 ELSE rest))
    BY <1>4, <1>6, <2>7
  <2> QED BY <2>2, <2>4, <2>5, <2>6, <2>8 DEF WholeFrame
<1>8. WholeFrame(s)
  <2>1. b.src \notin Datagrams => WholeFrame(s)
    BY <1>6 DEF WholeFrame
  <2> QED BY <1>7, <2>1
<1>9. /\ s.first = b.data - b.org - EtherHdr
      /\ s.len = EtherHdr + (IF b.len < MinPayload THEN MinPayload ELSE b.len)
  BY <1>1, <1>4, <1>6 DEF EtherHdr, MinPayload
<1> QED BY <1>6, <1>8, <1>9 DEF s

-----------------------------------------------------------------------------
\* The two maps, whoever is looked up in them.
Keys == IPs \cup Hosts \cup {Nothing}
Table == TimedMaps(TableFits, {ARP_TIMEOUT_SEC}, Keys, Hosts \cup {Nothing},
                   MaxTime)
Queue == TimedMaps(HoldFits, {ARP_MIN_INTERVAL}, Keys, Tx, MaxTime)

MapTypes ==
  /\ now \in 1 .. MaxTime
  /\ arp_table \in Table /\ CounterOK(arp_table)
  /\ arp_buf \in Queue /\ CounterOK(arp_buf) /\ UniqueAt(arp_buf, now)

\* ip_out takes no longer than a packet waits.
Short == MaxStall <= ARP_MIN_INTERVAL

\* What waits is a packet of ip_out, and not one cut out of an ARP packet.
Ours(b) == IpPacket(b) /\ (Short => b.src # ARP)

Waiting == \A i \in Valid(arp_buf, now) : Ours(arp_buf.entry[i].value)

\* Of a datagram, txbuf shows all that is left.
Remains ==
  job # Idle /\ txbuf.src \in Datagrams =>
    LET at == txbuf.data - txbuf.org + UdpHdr
    IN  /\ at >= 0 /\ at % MaxPayload = 0
        /\ txbuf.len = Lengths[txbuf.src] + UdpHdr - at

\* Nothing is sent to ip or queued for it: its address is not known, and the
\* queue is full or holds a packet for ip that came s ticks ago or later.
Stuck(table, queue, t, ip, s) ==
  /\ Matches(table, ip, t) = {}
  /\ \/ queue.size = queue.max_size
     \/ \E i \in Positions(queue) : /\ queue.entry[i].key = ip
                                    /\ queue.entry[i].time # 0
                                    /\ queue.entry[i].time + s >= t

\* An ARP packet is in txbuf because ip_out just asked.
Clobbered ==
  job # Idle => /\ job.stall <= MaxStall
                /\ txbuf.src = ARP => Stuck(arp_table, arp_buf, now, job.ip,
                                            job.stall)

\* FramesArePieces and, if ip_out is short, NoForeignBytesOnWire.
Clean(frames) ==
  \A f \in frames :
    f.type = "ip" => WholeFrame(f.body) /\ (Short => f.body.src # ARP)

WireInv ==
  /\ MapTypes
  /\ Waiting
  /\ Remains
  /\ Clobbered
  /\ Clean(out)

LEMMA MapShapes ==
  /\ Bounds(TableFits, {ARP_TIMEOUT_SEC}, MaxTime)
  /\ Bounds(HoldFits, {ARP_MIN_INTERVAL}, MaxTime)
  /\ MapTypes => now \in Nat /\ now # 0
  /\ ARP_MIN_INTERVAL \in Nat /\ MaxStall \in Nat /\ MaxTime \in Nat
  /\ Hosts \subseteq Keys /\ Senders \subseteq Keys
  /\ ARP \notin Datagrams /\ ARP \notin Frames
<1>1. /\ MaxTime \in Nat \ {0} /\ ARP_MIN_INTERVAL \in Nat
      /\ ARP_TIMEOUT_SEC \in Nat /\ MaxStall \in Nat
      /\ TableFits \in Nat \ {0} /\ HoldFits \in Nat \ {0}
      /\ Senders \subseteq IPs
      /\ ARP \notin Datagrams /\ ARP \notin Frames
  <2>1. MaxStall \in Nat /\ ARP \notin Datagrams
    BY IpSendAssumption, Zenon
  <2>2. ARP \notin Frames
    BY StackAssumption, Zenon
  <2> QED BY <2>1, <2>2, ArpAssumption
<1>2. MapTypes => now \in Nat /\ now # 0
  BY <1>1 DEF MapTypes
<1> QED BY <1>1, <1>2 DEF Bounds, Keys

\* The queue keeps a packet of ip_out as it is.
LEMMA CopyIsSame ==
  ASSUME NEW b, IpPacket(b)
  PROVE  buf_copy(ZeroBuf(Nothing), b) = b
<1>1. /\ b \in Windows(Sources) /\ b.data = Half - b.len /\ b.len \in Nat
      /\ b.len <= 1500 /\ Half \in Nat /\ 65577 <= Half
  BY Pieces, Room DEF IpPacket, Holds, Tx, Windows, IpHdr
<1> DEFINE n == b.len
           w == buf_init(ZeroBuf(Nothing), n)
<1>2. w \in Windows(Sources) /\ w.data = Half - n /\ w.len = n
  <2>1. ZeroBuf(Nothing) \in Windows(Sources)
    BY DEF ZeroBuf, Windows, Sources
  <2>2. n \in Nat /\ n < Half
    BY <1>1
  <2> HIDE DEF n
  <2> QED BY <2>1, <2>2, MakeWindow
<1>3. b = [data |-> Half - n, len |-> n, org |-> b.org, src |-> b.src]
  BY <1>1 DEF Windows
<1>4. buf_copy(ZeroBuf(Nothing), b) = [w EXCEPT !.src = b.src, !.org = b.org]
  BY DEF buf_copy
<1> HIDE DEF n, w
<1>5. [w EXCEPT !.src = b.src, !.org = b.org]
        = [data |-> w.data, len |-> w.len, org |-> b.org, src |-> b.src]
  <2> DEFINE o == b.org
             x == b.src
  <2>1. o \in Int /\ x \in Sources
    BY <1>1 DEF Windows
  <2> HIDE DEF o, x
  <2>2. ASSUME NEW r, r = [w EXCEPT !.src = x, !.org = o]
        PROVE  r = [data |-> w.data, len |-> w.len, org |-> o, src |-> x]
    BY <1>2, <2>1, <2>2 DEF Windows
  <2> QED BY <2>2 DEF o, x
<1> QED BY <1>2, <1>3, <1>4, <1>5, Zenon

\* arp_out asks: the packet is queued, and from now on its destination is stuck.
LEMMA RequestWaits ==
  ASSUME MapTypes, Waiting, NEW b, IpPacket(b), NEW ip \in Keys, NEW tx,
         ArpOutRequest(b, ip, tx), NEW s \in Nat,
         Short /\ b.src = ARP => /\ Stuck(arp_table, arp_buf, now, ip, s)
                                 /\ s <= MaxStall
  PROVE  /\ MapTypes' /\ Waiting' /\ now' = now
         /\ Stuck(arp_table', arp_buf', now', ip, s)
<1>1. /\ arp_buf' = map_set(arp_buf, ip, b, now, now)
      /\ now' = now /\ arp_table' = arp_table
      /\ map_get(arp_table, ip, now) = NULL
      /\ map_get(arp_buf, ip, now) = NULL
  BY CopyIsSame DEF ArpOutRequest, MacOf, HeldFor
<1>2. /\ arp_buf \in Queue /\ CounterOK(arp_buf) /\ UniqueAt(arp_buf, now)
      /\ arp_table \in Table /\ now \in 1 .. MaxTime /\ now \in Nat /\ now # 0
      /\ Bounds(TableFits, {ARP_TIMEOUT_SEC}, MaxTime)
      /\ Bounds(HoldFits, {ARP_MIN_INTERVAL}, MaxTime)
      /\ now <= now
  BY MapShapes DEF MapTypes
<1>3. Matches(arp_table, ip, now) = {}
  BY <1>1, <1>2, GetFindsAMatch DEF Table
<1>4. Matches(arp_buf, ip, now) = {}
  BY <1>1, <1>2, GetFindsAMatch DEF Queue
<1>5. b \in Tx
  BY DEF IpPacket, Holds
<1>6. arp_buf' \in Queue /\ CounterOK(arp_buf') /\ UniqueAt(arp_buf', now)
  BY <1>1, <1>2, <1>5, CounterAfterSet, UniqueAfterSet DEF Queue
<1>7. MapTypes'
  BY <1>1, <1>2, <1>6 DEF MapTypes
<1>8. \/ /\ arp_buf' = arp_buf
         /\ arp_buf.size = arp_buf.max_size \/ Invalid(arp_buf, now) = {}
      \/ \E i \in Positions(arp_buf) :
           /\ Stores(arp_buf, arp_buf', i, ip, b, now)
           /\ Valid(arp_buf', now) = Valid(arp_buf, now) \cup {i}
           /\ \/ Refreshes(arp_buf, arp_buf', i, ip, b, now, now)
              \/ Inserts(arp_buf, arp_buf', i, ip, b, now, now)
  BY <1>1, <1>2, <1>5, SetEffect DEF Queue
<1>9. CASE arp_buf' = arp_buf
             /\ (arp_buf.size = arp_buf.max_size \/ Invalid(arp_buf, now) = {})
  <2>1. arp_buf.size = arp_buf.max_size
    BY <1>2, <1>9, RoomBelowMaxSize DEF Queue
  <2>2. Stuck(arp_table', arp_buf', now', ip, s)
    BY <1>1, <1>3, <1>9, <2>1 DEF Stuck
  <2>3. Waiting'
    BY <1>1, <1>9 DEF Waiting
  <2> QED BY <1>1, <1>7, <2>2, <2>3
<1>10. ASSUME NEW i \in Positions(arp_buf),
              Stores(arp_buf, arp_buf', i, ip, b, now),
              Valid(arp_buf', now) = Valid(arp_buf, now) \cup {i},
              \/ Refreshes(arp_buf, arp_buf', i, ip, b, now, now)
              \/ Inserts(arp_buf, arp_buf', i, ip, b, now, now)
       PROVE  Waiting' /\ Stuck(arp_table', arp_buf', now', ip, s)
  <2>1. arp_buf.size # arp_buf.max_size
    BY <1>4, <1>10 DEF Refreshes, Inserts
  <2>2. /\ arp_buf'.entry[i] = [key |-> ip, value |-> b, time |-> now]
        /\ \A j \in Positions(arp_buf) \ {i} :
             arp_buf'.entry[j] = arp_buf.entry[j]
        /\ arp_buf'.max_size = arp_buf.max_size
    BY <1>10 DEF Stores
  <2>3. i \in Positions(arp_buf')
    BY <2>2 DEF Positions
  <2>4. now + s >= now
    BY <1>2
  <2>5. Stuck(arp_table', arp_buf', now', ip, s)
    <3>1. /\ arp_buf'.entry[i].key = ip /\ arp_buf'.entry[i].time = now
      BY <2>2
    <3> QED BY <1>1, <1>2, <1>3, <2>3, <2>4, <3>1 DEF Stuck
  <2>6. Short => b.src # ARP
    <3> SUFFICES ASSUME Short, Stuck(arp_table, arp_buf, now, ip, s),
                        s <= MaxStall
                 PROVE  FALSE
      OBVIOUS
    <3>1. PICK j \in Positions(arp_buf) : /\ arp_buf.entry[j].key = ip
                                          /\ arp_buf.entry[j].time # 0
                                          /\ arp_buf.entry[j].time + s >= now
      BY <2>1 DEF Stuck
    <3>2. arp_buf.entry[j].time \in Nat /\ arp_buf.timeout = ARP_MIN_INTERVAL
      <4>1. \A k \in Positions(arp_buf) : arp_buf.entry[k].time \in Nat
        BY <1>2, PositionsOfAMap DEF Queue
      <4> QED BY <1>2, <4>1 DEF Queue, TimedMaps
    <3>3. arp_buf.entry[j].time + arp_buf.timeout >= now
      BY <1>2, <3>1, <3>2, MapShapes DEF Short
    <3>4. j \in Matches(arp_buf, ip, now)
      BY <3>1, <3>3 DEF Matches, Valid, map_entry_valid
    <3> QED BY <1>4, <3>4
  <2>7. Ours(b)
    BY <2>6 DEF Ours
  <2>8. ASSUME NEW j \in Valid(arp_buf', now)
        PROVE  Ours(arp_buf'.entry[j].value)
    <3>1. CASE j = i
      <4>1. arp_buf'.entry[i].value = b
        BY <2>2
      <4> QED BY <2>7, <3>1, <4>1, Zenon
    <3>2. CASE j # i
      <4>1. j \in Valid(arp_buf, now) /\ j \in Positions(arp_buf) \ {i}
        BY <1>10, <3>2 DEF Valid
      <4>2. Ours(arp_buf.entry[j].value)
        BY <4>1 DEF Waiting
      <4>3. arp_buf'.entry[j] = arp_buf.entry[j]
        BY <2>2, <4>1
      <4> QED BY <4>2, <4>3, Zenon
    <3> QED BY <3>1, <3>2
  <2>9. Waiting'
    BY <1>1, <2>8, Zenon DEF Waiting
  <2> QED BY <2>5, <2>9
<1> QED BY <1>1, <1>7, <1>8, <1>9, <1>10

LEMMA CleanFrames ==
  /\ Clean(out) <=> FramesArePieces /\ (Short => NoForeignBytesOnWire)
  /\ Clean({})
  /\ \A op, ip, mac : Clean({ArpFrame(op, ip, mac)})
  /\ \A b, mac : Ours(b) => Clean({IpFrame(b, mac)})
<1>1. Clean(out) <=> FramesArePieces /\ (Short => NoForeignBytesOnWire)
  <2>1. FramesArePieces <=> \A f \in IpFrames : WholeFrame(f.body)
    BY DEF FramesArePieces, WholeFrame
  <2>2. NoForeignBytesOnWire <=> \A f \in IpFrames : f.body.src # ARP
    BY DEF NoForeignBytesOnWire
  <2>3. Clean(out) <=> \A f \in IpFrames :
                         WholeFrame(f.body) /\ (Short => f.body.src # ARP)
    BY Zenon DEF Clean, IpFrames
  <2> QED BY <2>1, <2>2, <2>3, Zenon
<1>2. Clean({})
  BY DEF Clean
<1>3. ASSUME NEW op, NEW ip, NEW mac PROVE Clean({ArpFrame(op, ip, mac)})
  BY DEF Clean, ArpFrame
<1>4. ASSUME NEW b, NEW mac, Ours(b) PROVE Clean({IpFrame(b, mac)})
  <2>1. /\ Shown(Framed(b)).src = b.src /\ WholeFrame(Shown(Framed(b)))
        /\ Short => b.src # ARP
    BY <1>4, FrameOfPacket DEF Ours
  <2>2. IpFrame(b, mac).body = Shown(Framed(b))
    BY DEF IpFrame
  <2> QED BY <2>1, <2>2, Zenon DEF Clean
<1> QED BY <1>1, <1>2, <1>3, <1>4

\* What arp_out does with a packet of ip_out.
LEMMA Handing ==
  ASSUME MapTypes, Waiting, NEW b, IpPacket(b), NEW ip \in Keys, NEW tx,
         ArpOut(b, ip, tx), NEW s \in Nat,
         Short /\ b.src = ARP => /\ Stuck(arp_table, arp_buf, now, ip, s)
                                 /\ s <= MaxStall
  PROVE  /\ MapTypes' /\ Waiting' /\ Clean(out')
         /\ \/ Stuck(arp_table', arp_buf', now', ip, s)
            \/ UNCHANGED <<arp_table, arp_buf, now>> /\ txbuf' = tx
<1>1. CASE ArpOutRequest(b, ip, tx)
  <2>1. /\ MapTypes' /\ Waiting'
        /\ Stuck(arp_table', arp_buf', now', ip, s)
    BY <1>1, RequestWaits
  <2>2. Clean(out')
    <3>1. out' = {ArpFrame("request", ip, BROADCAST)}
      BY <1>1 DEF ArpOutRequest, arp_req
    <3> QED BY <3>1, CleanFrames, Zenon
  <2> QED BY <2>1, <2>2
<1>2. CASE ArpOutDirect(b, ip, tx)
  <2>1. /\ UNCHANGED <<arp_table, arp_buf, now>> /\ txbuf' = tx
        /\ map_get(arp_table, ip, now) # NULL
        /\ out' = {IpFrame(b, arp_table.entry[MacOf(ip)].value)}
    BY <1>2 DEF ArpOutDirect, MacOf
  <2>2. MapTypes' /\ Waiting'
    BY <2>1 DEF MapTypes, Waiting
  <2>3. Matches(arp_table, ip, now) # {}
    BY <2>1 DEF map_get
  <2>4. Ours(b)
    BY <2>3 DEF Ours, Stuck
  <2>5. Clean(out')
    BY <2>1, <2>4, CleanFrames, Zenon
  <2> QED BY <2>1, <2>2, <2>5
<1>3. CASE ArpOutBusy(b, ip, tx)
  <2>1. /\ UNCHANGED <<arp_table, arp_buf, now>> /\ txbuf' = tx /\ out' = {}
    BY <1>3 DEF ArpOutBusy
  <2>2. MapTypes' /\ Waiting'
    BY <2>1 DEF MapTypes, Waiting
  <2>3. Clean(out')
    BY <2>1, CleanFrames, Zenon
  <2> QED BY <2>1, <2>2, <2>3
<1> QED BY <1>1, <1>2, <1>3 DEF ArpOut

\* What arp_in does to the queue, and the packet it sends off.
LEMMA Hearing ==
  ASSUME MapTypes, Waiting, NEW pkt \in ArpPackets, NEW mac \in Hosts,
         ArpIn(pkt, mac)
  PROVE  MapTypes' /\ Waiting' /\ Clean(out')
<1> DEFINE key == pkt.sender_ip
<1>1. /\ arp_buf \in Queue /\ CounterOK(arp_buf) /\ UniqueAt(arp_buf, now)
      /\ arp_table \in Table /\ CounterOK(arp_table)
      /\ now \in 1 .. MaxTime /\ now \in Nat /\ MaxTime \in Nat
      /\ Bounds(TableFits, {ARP_TIMEOUT_SEC}, MaxTime)
      /\ Bounds(HoldFits, {ARP_MIN_INTERVAL}, MaxTime)
  BY MapShapes DEF MapTypes
<1>2. key \in Keys /\ mac \in Hosts \cup {Nothing}
  BY MapShapes DEF ArpPackets
<1>3. Learn(pkt, mac)
  BY DEF ArpIn, ArpInFlush, ArpInAnswer, ArpInLearn
<1>4. arp_table' \in Table /\ CounterOK(arp_table')
  <2>1. arp_table' = map_set(arp_table, key, mac, now, now)
    BY <1>3 DEF Learn
  <2> HIDE DEF key
  <2> QED BY <1>1, <1>2, <2>1, CounterAfterSet DEF Table
<1>5. CASE ArpInAnswer(pkt, mac) \/ ArpInLearn(pkt, mac)
  <2>1. arp_buf' = arp_buf /\ now' = now
    BY <1>5 DEF ArpInAnswer, ArpInLearn
  <2>2. MapTypes' /\ Waiting'
    BY <1>1, <1>4, <2>1 DEF MapTypes, Waiting
  <2>3. out' = {} \/ out' = {ArpFrame("reply", pkt.sender_ip, pkt.sender_mac)}
    BY <1>5 DEF ArpInAnswer, ArpInLearn, arp_resp
  <2>4. Clean(out')
    <3>1. CASE out' = {}
      BY <3>1, CleanFrames, Zenon
    <3>2. CASE out' = {ArpFrame("reply", pkt.sender_ip, pkt.sender_mac)}
      BY <3>2, CleanFrames, Zenon
    <3> QED BY <2>3, <3>1, <3>2
  <2> QED BY <2>2, <2>4
<1>6. CASE ArpInFlush(pkt, mac)
  <2> DEFINE i == map_get(arp_buf, key, now)
             framed == Framed(arp_buf.entry[i].value)
  <2>1. /\ i # NULL /\ out' = {IpFrame(arp_buf.entry[i].value, pkt.sender_mac)}
        /\ now' \in now .. MaxTime
    BY <1>6 DEF ArpInFlush, HeldFor
  <2>2. arp_buf' = map_delete(Rewrite(arp_buf, i, framed), key, now')
    BY <1>6 DEF ArpInFlush, HeldFor, FrameInPlace, Rewrite
  <2>3. now' \in Nat /\ now <= now' /\ now' \in 1 .. MaxTime
    BY <1>1, <2>1
  <2> HIDE DEF framed, key
  <2>4. i \in Matches(arp_buf, key, now)
    BY <1>1, <2>1, GetFindsAMatch DEF Queue
  <2> HIDE DEF i
  <2>5. Ours(arp_buf.entry[i].value)
    BY <2>4 DEF Matches, Waiting
  <2>6. framed \in Tx
    <3>1. arp_buf.entry[i].value \in Tx
      BY <2>5 DEF Ours, IpPacket, Holds
    <3> QED BY <3>1, FramedWindow DEF framed, Tx
  <2>7. /\ arp_buf' \in Queue /\ CounterOK(arp_buf')
        /\ UniqueAt(arp_buf', now')
        /\ Valid(arp_buf', now') = Valid(arp_buf, now') \ {i}
        /\ \A j \in Positions(arp_buf) \ {i} :
             arp_buf'.entry[j] = arp_buf.entry[j]
    BY <1>1, <2>2, <2>3, <2>4, <2>6, TakeOut DEF Queue
  <2>8. MapTypes'
    BY <1>4, <2>3, <2>7 DEF MapTypes
  <2>9. Valid(arp_buf, now') \subseteq Valid(arp_buf, now)
    BY <1>1, <2>3, ExpiryIsMonotone DEF Queue
  <2>10. ASSUME NEW j \in Valid(arp_buf', now')
         PROVE  Ours(arp_buf'.entry[j].value)
    <3>1. j \in Valid(arp_buf, now) /\ j \in Positions(arp_buf) \ {i}
      BY <2>7, <2>9 DEF Valid
    <3>2. Ours(arp_buf.entry[j].value)
      BY <3>1 DEF Waiting
    <3>3. arp_buf'.entry[j] = arp_buf.entry[j]
      BY <2>7, <3>1
    <3> QED BY <3>2, <3>3, Zenon
  <2>11. Waiting'
    BY <2>10, Zenon DEF Waiting
  <2>12. Clean(out')
    BY <2>1, <2>5, CleanFrames, Zenon
  <2> QED BY <2>8, <2>11, <2>12
<1> QED BY <1>5, <1>6 DEF ArpIn

\* A tick may free slots, but not for a packet that came s ticks ago.
LEMMA Ticking ==
  ASSUME MapTypes, Waiting, Tick
  PROVE  /\ MapTypes' /\ Waiting' /\ Clean(out')
         /\ \A ip, s : s \in Nat /\ Stuck(arp_table, arp_buf, now, ip, s) =>
                         Stuck(arp_table', arp_buf', now', ip, s + 1)
<1>1. /\ arp_buf \in Queue /\ UniqueAt(arp_buf, now) /\ arp_table \in Table
      /\ CounterOK(arp_buf) /\ CounterOK(arp_table)
      /\ now \in 1 .. MaxTime /\ now \in Nat /\ MaxTime \in Nat
      /\ Bounds(TableFits, {ARP_TIMEOUT_SEC}, MaxTime)
      /\ Bounds(HoldFits, {ARP_MIN_INTERVAL}, MaxTime)
  BY MapShapes DEF MapTypes
<1>2. /\ now < MaxTime /\ now' = now + 1 /\ out' = {}
      /\ arp_table' = arp_table /\ arp_buf' = arp_buf
  BY DEF Tick
<1>3. now' \in 1 .. MaxTime /\ now' \in Nat /\ now <= now'
  BY <1>1, <1>2
<1>4. /\ Valid(arp_buf, now') \subseteq Valid(arp_buf, now)
      /\ UniqueAt(arp_buf, now')
  BY <1>1, <1>3, ExpiryIsMonotone, UniqueLater DEF Queue
<1>5. Valid(arp_table, now') \subseteq Valid(arp_table, now)
  BY <1>1, <1>3, ExpiryIsMonotone DEF Table
<1>6. MapTypes'
  BY <1>1, <1>2, <1>3, <1>4 DEF MapTypes
<1>7. Waiting'
  BY <1>2, <1>4 DEF Waiting
<1>8. Clean(out')
  BY <1>2, CleanFrames, Zenon
<1>9. ASSUME NEW ip, NEW s \in Nat, Stuck(arp_table, arp_buf, now, ip, s)
      PROVE  Stuck(arp_table', arp_buf', now', ip, s + 1)
  <2>1. Matches(arp_table, ip, now') = {}
    BY <1>5, <1>9 DEF Matches, Stuck
  <2>2. \A i \in Positions(arp_buf) : arp_buf.entry[i].time \in Nat
    BY <1>1, PositionsOfAMap DEF Queue
  <2>3. \A i \in Positions(arp_buf) :
          arp_buf.entry[i].time + s >= now
            => arp_buf.entry[i].time + (s + 1) >= now'
    BY <1>1, <1>2, <2>2
  <2> QED BY <1>2, <1>9, <2>1, <2>3 DEF Stuck
<1> QED BY <1>6, <1>7, <1>8, <1>9

-----------------------------------------------------------------------------
\* Step by step.
LEMMA WireInvInit == SInit => WireInv
<1> SUFFICES ASSUME SInit PROVE WireInv
  OBVIOUS
<1>1. /\ arp_table = map_init(TableFits, 0, ARP_TIMEOUT_SEC,
                        [key |-> Nothing, value |-> Nothing, time |-> 0])
      /\ arp_buf = map_init(HoldFits, 0, ARP_MIN_INTERVAL,
                        [key |-> Nothing, value |-> ZeroBuf(Nothing), time |-> 0])
      /\ now = 1 /\ out = {ArpFrame("request", MY_IP, BROADCAST)}
      /\ job = Idle
  BY DEF SInit, IInit, Init, arp_init, BlankMac, BlankBuf
<1>2. /\ TableFits \in Nat \ {0} /\ HoldFits \in Nat \ {0} /\ 0 \in Nat
      /\ MaxTime \in Nat \ {0} /\ ZeroBuf(Nothing) \in Tx
      /\ Nothing \in Keys /\ Nothing \in Hosts \cup {Nothing}
  BY ArpAssumption DEF ZeroBuf, Tx, Windows, Sources, Keys
<1>3. arp_table \in Table
  BY <1>1, <1>2, MapShapes, InitialShape DEF Table
<1>4. arp_buf \in Queue
  BY <1>1, <1>2, MapShapes, InitialShape DEF Queue
<1>5. /\ CounterOK(arp_table) /\ CounterOK(arp_buf) /\ Valid(arp_buf, now) = {}
  BY <1>1, <1>2, CounterInitially
<1>6. MapTypes /\ Waiting
  BY <1>1, <1>2, <1>3, <1>4, <1>5 DEF MapTypes, Waiting, UniqueAt
<1>7. Remains /\ Clobbered
  BY <1>1 DEF Remains, Clobbered
<1>8. Clean(out)
  BY <1>1, CleanFrames, Zenon
<1> QED BY <1>6, <1>7, <1>8 DEF WireInv

\* What ip_out sends in one piece is a packet.
LEMMA AllOfADatagram ==
  ASSUME NEW tx, Proper(tx), tx.src \in Datagrams
  PROVE  /\ tx.data - tx.org + UdpHdr = 0 /\ 0 % MaxPayload = 0
         /\ Lengths[tx.src] \in Nat
         /\ tx.len = Lengths[tx.src] + UdpHdr - 0
<1>1. tx.data - tx.org = - UdpHdr /\ tx.len = Lengths[tx.src] + UdpHdr
  BY DEF Proper
<1>2. Lengths[tx.src] \in Nat
  BY LengthsFit
<1> QED BY <1>1, <1>2, Pieces DEF UdpHdr

LEMMA WholePacket ==
  ASSUME NEW tx, Proper(tx), tx.len <= MaxPayload,
         NEW b, b = buf_add_header(tx, IpHdr)
  PROVE  IpPacket(b) /\ b.src = tx.src
<1>1. Holds(tx, tx.src, tx.data - tx.org, tx.len) /\ tx.len \in Nat /\ tx.len >= 1
  BY DEF Proper, Holds, Tx, Windows
<1>2. Whole(tx.src, tx.data - tx.org + UdpHdr, tx.len)
  BY <1>1, AllOfADatagram, Pieces DEF Whole
<1> QED BY <1>1, <1>2, PacketOfFragment

LEMMA WireHandsDown ==
  ASSUME CutInv, WireInv, HandsDown
  PROVE  WireInv'
<1>1. PICK tx, ip : Proper(tx) /\ ip \in Hosts /\ ip_out(tx, ip)
  BY Zenon DEF HandsDown
<1>2. /\ MapTypes /\ Waiting /\ job = Idle /\ ip \in Keys
      /\ IpOutWhole(tx, ip) \/ IpOutStart(tx, ip)
  BY <1>1, MapShapes DEF ip_out, WireInv
<1>3. tx.src # ARP
  BY <1>1, MapShapes DEF Proper
<1>4. CASE IpOutWhole(tx, ip)
  <2> DEFINE b == buf_add_header(tx, IpHdr)
  <2>1. tx.len <= MaxPayload /\ ArpOut(b, ip, tx) /\ job' = job
    BY <1>4, Zenon DEF IpOutWhole, ip_fragment_out
  <2>2. IpPacket(b) /\ b.src = tx.src
    BY <1>1, <2>1, WholePacket
  <2> HIDE DEF b
  <2>3. 0 \in Nat /\ ~ (Short /\ b.src = ARP)
    BY <1>3, <2>2
  <2>4. MapTypes' /\ Waiting' /\ Clean(out')
    BY <1>2, <2>1, <2>2, <2>3, Handing
  <2>5. Remains' /\ Clobbered'
    BY <1>2, <2>1 DEF Remains, Clobbered
  <2> QED BY <2>4, <2>5 DEF WireInv
<1>5. CASE IpOutStart(tx, ip)
  <2>1. /\ txbuf' = tx /\ out' = {} /\ UNCHANGED <<arp_table, arp_buf, now>>
        /\ job' = [ip |-> ip, cur |-> 0, stall |-> 0]
    BY <1>5, Zenon DEF IpOutStart
  <2>2. MapTypes' /\ Waiting'
    BY <1>2, <2>1 DEF MapTypes, Waiting
  <2>3. Remains'
    <3>1. tx.src \in Datagrams =>
            LET at == tx.data - tx.org + UdpHdr
            IN  /\ at >= 0 /\ at % MaxPayload = 0
                /\ tx.len = Lengths[tx.src] + UdpHdr - at
      BY <1>1, AllOfADatagram
    <3> QED BY <2>1, <3>1, Zenon DEF Remains
  <2>4. Clobbered'
    BY <1>3, <2>1, MapShapes DEF Clobbered
  <2>5. Clean(out')
    BY <2>1, CleanFrames, Zenon
  <2> QED BY <2>2, <2>3, <2>4, <2>5 DEF WireInv
<1> QED BY <1>2, <1>4, <1>5

\* So is what the loop cuts off.
LEMMA LoopPacket ==
  ASSUME CutInv, Remains, job # Idle, NEW n \in Nat, n >= 1,
         n = IF txbuf.len > MaxPayload THEN MaxPayload ELSE txbuf.len,
         NEW b, b = buf_add_header(CopyOut(txbuf, n), IpHdr)
  PROVE  IpPacket(b) /\ b.src = txbuf.src
<1> DEFINE x == CopyOut(txbuf, n)
           first == txbuf.data - txbuf.org
<1>1. txbuf \in Tx /\ txbuf.len \in Nat /\ first \in Int
  BY DEF CutInv, SendTypes, Tx, Windows
<1>2. n <= MaxPayload /\ n <= txbuf.len /\ n <= 1480
  BY <1>1, Pieces
<1>3. Holds(x, txbuf.src, first, n)
  BY <1>1, <1>2, CopyShows
<1> HIDE DEF x
<1>4. /\ x.src = txbuf.src /\ x.data - x.org = first /\ x.len = n
      /\ Holds(x, x.src, x.data - x.org, x.len)
  BY <1>3 DEF Holds
<1>5. Whole(x.src, x.data - x.org + UdpHdr, x.len)
  <2>1. ASSUME txbuf.src \in Datagrams
        PROVE  /\ first + UdpHdr >= 0 /\ (first + UdpHdr) % MaxPayload = 0
               /\ txbuf.len = Lengths[txbuf.src] + UdpHdr - (first + UdpHdr)
    BY <2>1 DEF Remains
  <2> HIDE DEF first
  <2>2. txbuf.len > 0
    BY <1>1, <1>2
  <2>3. Whole(txbuf.src, first + UdpHdr, n)
    BY <2>1, <2>2 DEF Whole
  <2> QED BY <1>4, <2>3, Zenon
<1>6. b = buf_add_header(x, IpHdr) /\ x.len <= MaxPayload
  BY <1>2, <1>4 DEF x
<1> QED BY <1>4, <1>5, <1>6, PacketOfFragment

\* txbuf keeps the remainder, or an ARP packet.
LEMMA LoopHandsDown ==
  ASSUME CutInv, WireInv, job # Idle, NEW n \in Nat, n >= 1,
         n = IF txbuf.len > MaxPayload THEN MaxPayload ELSE txbuf.len,
         NEW b, b = buf_add_header(CopyOut(txbuf, n), IpHdr),
         ArpOut(b, job.ip, buf_remove_header(txbuf, n))
  PROVE  /\ MapTypes' /\ Waiting' /\ Clean(out')
         /\ \/ Stuck(arp_table', arp_buf', now', job.ip, job.stall)
            \/ /\ UNCHANGED <<arp_table, arp_buf, now>>
               /\ txbuf'.src = txbuf.src
         /\ txbuf'.src = txbuf.src \/ txbuf'.src = ARP
         /\ txbuf'.src \in Datagrams =>
              /\ txbuf'.src = txbuf.src /\ txbuf'.len = txbuf.len - n
              /\ txbuf'.data - txbuf'.org = txbuf.data - txbuf.org + n
<1> DEFINE t == buf_remove_header(txbuf, n)
<1>1. /\ txbuf \in Tx /\ txbuf.len \in Nat
      /\ MapTypes /\ Waiting /\ Remains /\ Clobbered
      /\ job \in [ip : Hosts, cur : Nat, stall : Nat]
  BY DEF CutInv, SendTypes, WireInv, Jobs, Tx, Windows
<1>2. n <= MaxPayload /\ n <= txbuf.len
  BY <1>1, Pieces
<1>3. /\ t \in Tx /\ t.src = txbuf.src /\ t.len = txbuf.len - n
      /\ t.data - t.org = txbuf.data - txbuf.org + n
  BY <1>1, <1>2, CutOff
<1> HIDE DEF t
<1>4. IpPacket(b) /\ b.src = txbuf.src
  BY <1>1, LoopPacket
<1>5. /\ job.ip \in Keys /\ job.stall \in Nat /\ job.stall <= MaxStall
      /\ ArpOut(b, job.ip, t)
  BY <1>1, MapShapes DEF Clobbered, t
<1>6. Short /\ b.src = ARP =>
        /\ Stuck(arp_table, arp_buf, now, job.ip, job.stall)
        /\ job.stall <= MaxStall
  BY <1>1, <1>4, <1>5 DEF Clobbered
<1>7. /\ MapTypes' /\ Waiting' /\ Clean(out')
      /\ \/ Stuck(arp_table', arp_buf', now', job.ip, job.stall)
         \/ UNCHANGED <<arp_table, arp_buf, now>> /\ txbuf' = t
  BY <1>1, <1>4, <1>5, <1>6, Handing
<1>8. txbuf' = t \/ txbuf'.src = ARP
  BY <1>3, <1>5, ArpOutTxbuf
<1>9. txbuf'.src \in Datagrams => txbuf' = t
  BY <1>8, MapShapes
<1> QED BY <1>3, <1>7, <1>8, <1>9

LEMMA WireFragment ==
  ASSUME CutInv, WireInv, IpOutFragment
  PROVE  WireInv'
<1> DEFINE n == MaxPayload
           b == buf_add_header(CopyOut(txbuf, n), IpHdr)
           next == (job.cur + MaxPayload) % 2^16
<1> HIDE DEF n, b, next
<1>1. /\ job # Idle /\ txbuf.len > n
      /\ ArpOut(b, job.ip, buf_remove_header(txbuf, n))
      /\ job' = [job EXCEPT !.cur = next]
  BY Zenon DEF IpOutFragment, ip_fragment_out, n, b, next
<1>2. n \in Nat /\ n >= 1 /\ MaxPayload = n /\ n = 1480
  BY Pieces DEF n
<1>3. /\ txbuf.len \in Nat /\ job \in [ip : Hosts, cur : Nat, stall : Nat]
      /\ txbuf.data - txbuf.org \in Int
  BY <1>1 DEF CutInv, SendTypes, Jobs, Tx, Windows
<1>4. n = IF txbuf.len > MaxPayload THEN MaxPayload ELSE txbuf.len
  BY <1>1, <1>2
<1>5. b = buf_add_header(CopyOut(txbuf, n), IpHdr)
  BY DEF b
<1>6. /\ MapTypes' /\ Waiting' /\ Clean(out')
      /\ \/ Stuck(arp_table', arp_buf', now', job.ip, job.stall)
         \/ /\ UNCHANGED <<arp_table, arp_buf, now>>
            /\ txbuf'.src = txbuf.src
      /\ txbuf'.src \in Datagrams =>
           /\ txbuf'.src = txbuf.src /\ txbuf'.len = txbuf.len - n
           /\ txbuf'.data - txbuf'.org = txbuf.data - txbuf.org + n
  BY <1>1, <1>2, <1>4, <1>5, LoopHandsDown
<1>7. job'.ip = job.ip /\ job'.stall = job.stall
  BY <1>1, <1>3
<1>8. Clobbered'
  <2>1. /\ job.stall <= MaxStall
        /\ txbuf.src = ARP => Stuck(arp_table, arp_buf, now, job.ip, job.stall)
    BY <1>1 DEF WireInv, Clobbered
  <2>2. txbuf'.src = ARP =>
          Stuck(arp_table', arp_buf', now', job.ip, job.stall)
    BY <1>6, <2>1
  <2> QED BY <1>7, <2>1, <2>2, Zenon DEF Clobbered
<1>9. Remains'
  <2> SUFFICES ASSUME txbuf'.src \in Datagrams
               PROVE  LET at == txbuf'.data - txbuf'.org + UdpHdr
                      IN  /\ at >= 0 /\ at % MaxPayload = 0
                          /\ txbuf'.len = Lengths[txbuf'.src] + UdpHdr - at
    BY Zenon DEF Remains
  <2> DEFINE at == txbuf.data - txbuf.org + UdpHdr
  <2>1. /\ txbuf'.src = txbuf.src /\ txbuf'.len = txbuf.len - n
        /\ txbuf'.data - txbuf'.org = txbuf.data - txbuf.org + n
    BY <1>6
  <2>2. /\ at >= 0 /\ at % MaxPayload = 0
        /\ txbuf.len = Lengths[txbuf.src] + UdpHdr - at
    BY <1>1, <2>1 DEF WireInv, Remains
  <2>3. Lengths[txbuf.src] \in Nat /\ UdpHdr \in Nat
    BY <2>1, LengthsFit DEF UdpHdr
  <2>4. at \in Int /\ txbuf'.data - txbuf'.org + UdpHdr = at + n
    BY <1>2, <1>3, <2>1, <2>3
  <2> HIDE DEF at
  <2>5. (at + 1480) % 1480 = 0 /\ at + 1480 >= 0
    BY <1>2, <2>2, <2>4
  <2> QED BY <1>2, <1>3, <2>1, <2>2, <2>3, <2>4, <2>5
<1> QED BY <1>6, <1>8, <1>9 DEF WireInv

LEMMA WireLast ==
  ASSUME CutInv, WireInv, IpOutLast
  PROVE  WireInv'
<1> DEFINE n == txbuf.len
           b == buf_add_header(CopyOut(txbuf, n), IpHdr)
<1> HIDE DEF n, b
<1>1. /\ job # Idle /\ n \in 1 .. MaxPayload /\ txbuf.len = n /\ job' = Idle
      /\ ArpOut(b, job.ip, buf_remove_header(txbuf, n))
  BY Zenon DEF IpOutLast, ip_fragment_out, n, b
<1>2. n \in Nat /\ n >= 1 /\ ~ (n > MaxPayload)
  BY <1>1, Pieces
<1>3. n = IF txbuf.len > MaxPayload THEN MaxPayload ELSE txbuf.len
  BY <1>1, <1>2
<1>4. b = buf_add_header(CopyOut(txbuf, n), IpHdr)
  BY DEF b
<1>5. MapTypes' /\ Waiting' /\ Clean(out')
  BY <1>1, <1>2, <1>3, <1>4, LoopHandsDown
<1>6. Remains' /\ Clobbered'
  BY <1>1 DEF Remains, Clobbered
<1> QED BY <1>5, <1>6 DEF WireInv

LEMMA WireTick ==
  ASSUME CutInv, WireInv, ITick
  PROVE  WireInv'
<1>1. /\ Tick /\ txbuf' = txbuf
      /\ job = Idle \/ job.stall < MaxStall
      /\ job' = IF job = Idle THEN job ELSE [job EXCEPT !.stall = @ + 1]
      /\ MapTypes /\ Waiting
  BY DEF ITick, Tick, WireInv
<1>2. /\ MapTypes' /\ Waiting' /\ Clean(out')
      /\ \A ip, s : s \in Nat /\ Stuck(arp_table, arp_buf, now, ip, s) =>
                      Stuck(arp_table', arp_buf', now', ip, s + 1)
  BY <1>1, Ticking
<1>3. CASE job = Idle
  <2>1. Remains' /\ Clobbered'
    BY <1>1, <1>3 DEF Remains, Clobbered
  <2> QED BY <1>2, <2>1 DEF WireInv
<1>4. CASE job # Idle
  <2>1. job \in [ip : Hosts, cur : Nat, stall : Nat]
    BY <1>4 DEF CutInv, SendTypes, Jobs
  <2>2. job'.ip = job.ip /\ job'.stall = job.stall + 1 /\ job.stall \in Nat
    BY <1>1, <1>4, <2>1
  <2>3. Remains'
    BY <1>1, <1>4 DEF WireInv, Remains
  <2>4. job'.stall <= MaxStall
    BY <1>1, <1>4, <2>2, MapShapes
  <2>5. txbuf'.src = ARP => Stuck(arp_table', arp_buf', now', job'.ip, job'.stall)
    BY <1>1, <1>2, <1>4, <2>2, Zenon DEF WireInv, Clobbered
  <2>6. Clobbered'
    BY <2>4, <2>5, Zenon DEF Clobbered
  <2> QED BY <1>2, <2>3, <2>6 DEF WireInv
<1> QED BY <1>3, <1>4

LEMMA WireInvNext == CutInv /\ WireInv /\ [SNext]_stackVars => WireInv'
<1> SUFFICES ASSUME CutInv, WireInv, [SNext]_stackVars PROVE WireInv'
  OBVIOUS
<1>1. RP!RxWindow /\ txbuf \in Tx
  BY DEF CutInv, SendTypes
<1>2. \/ HandsDown \/ Hears \/ Rests
      \/ IpOutFragment \/ IpOutLast \/ ITick
  BY <1>1, StepKinds
<1>3. CASE Hears
  <2>1. PICK pkt \in ArpPackets, mac \in Hosts : ArpIn(pkt, mac)
    BY <1>3 DEF Hears
  <2>2. MapTypes' /\ Waiting' /\ Clean(out')
    BY <2>1, Hearing DEF WireInv
  <2>3. Remains' /\ Clobbered'
    BY <1>3 DEF Hears, outVars, Remains, Clobbered
  <2> QED BY <2>2, <2>3 DEF WireInv
<1>4. CASE Rests
  <2>1. /\ UNCHANGED <<arp_table, arp_buf, txbuf, now, job>>
        /\ out' = out \/ out' = {}
    BY <1>4 DEF Rests, outVars
  <2>2. MapTypes' /\ Waiting' /\ Remains' /\ Clobbered'
    BY <2>1 DEF WireInv, MapTypes, Waiting, Remains, Clobbered
  <2>3. Clean(out) /\ Clean({})
    BY CleanFrames DEF WireInv
  <2>4. Clean(out')
    BY <2>1, <2>3, Zenon
  <2> QED BY <2>2, <2>4 DEF WireInv
<1> QED BY <1>2, <1>3, <1>4, WireHandsDown, WireFragment, WireLast, WireTick

LEMMA WireInvariant == SSpec => [](CutInv /\ WireInv)
BY CutInvInit, CutInvNext, WireInvInit, WireInvNext, PTL DEF SSpec

\* Every IP frame that carries bytes of a datagram carries one whole piece of it,
\* whether arp_out sent it at once or took a copy and arp_in sent that later
\* (ip.c:108-139, arp.c:138-181, ethernet.c:34-50).
THEOREM FramesAreWhole == SSpec => []FramesArePieces
<1>1. WireInv => FramesArePieces
  BY CleanFrames DEF WireInv
<1> QED BY <1>1, WireInvariant, PTL

\* If the fragment loop takes no longer than a packet waits in the queue, no
\* frame carries bytes of an ARP packet as IP payload: what ip_out cuts out of a
\* txbuf that arp_out has built a request in, arp_out then drops (ip.c:123-137,
\* arp.c:177-180).
THEOREM ArpBytesStayHome ==
  ASSUME MaxStall <= ARP_MIN_INTERVAL
  PROVE  SSpec => []NoForeignBytesOnWire
<1>1. WireInv => NoForeignBytesOnWire
  BY CleanFrames DEF WireInv, Short
<1> QED BY <1>1, WireInvariant, PTL
-----------------------------------------------------------------------------
\* The answers, as Responder sees them.
\* The record Responder has for a packet for ip, and the answers that wait in a
\* queue at time t.
Answered(ip, b) == [to |-> ip, bytes |-> Shown(Framed(b))]

Held(queue, t) ==
  {[to |-> e.key, bytes |-> Shown(Framed(e.value))] :
     e \in {g \in map_foreach(queue, t) : g.value.src \in Frames}}

Gone(frames) ==
  {f.body : f \in {g \in frames : g.type = "ip" /\ g.body.src \in Frames}}

Kept(answers, held) ==
  /\ held \subseteq answers
  /\ \A a, b \in held : a.to = b.to => a = b

LEMMA ResponderSteps ==
  /\ \A f : Answers!Receive(f) <=>
       /\ f \in inbox /\ inbox' = inbox \ {f}
       /\ \/ /\ Gone(out') = {a.bytes : a \in Due(f)}
             /\ Kept(Held(arp_buf, now), Held(arp_buf', now'))
          \/ /\ Gone(out') = {}
             /\ Kept(Held(arp_buf, now) \cup Due(f), Held(arp_buf', now'))
  /\ \A f, a : Answers!Release(f, a) <=>
       /\ f \in inbox /\ inbox' = inbox \ {f}
       /\ Gone(out') = {a.bytes}
       /\ Kept(Held(arp_buf, now) \ {a}, Held(arp_buf', now'))
  /\ Answers!Other <=>
       /\ Gone(out') = {} /\ UNCHANGED inbox
       /\ Kept(Held(arp_buf, now), Held(arp_buf', now'))
<1>1. Gone(out') = {f.body : f \in {g \in IpFrames' : g.body.src \in Frames}}
  BY DEF Gone, IpFrames
<1>2. \A f : Answers!Receive(f) <=>
       /\ f \in inbox /\ inbox' = inbox \ {f}
       /\ \/ /\ Gone(out') = {a.bytes : a \in Due(f)}
             /\ Kept(Held(arp_buf, now), Held(arp_buf', now'))
          \/ /\ Gone(out') = {}
             /\ Kept(Held(arp_buf, now) \cup Due(f), Held(arp_buf', now'))
  BY <1>1, Zenon DEF Answers!Receive, Answers!Keeps, Kept, Held
<1>3. \A f, a : Answers!Release(f, a) <=>
       /\ f \in inbox /\ inbox' = inbox \ {f}
       /\ Gone(out') = {a.bytes}
       /\ Kept(Held(arp_buf, now) \ {a}, Held(arp_buf', now'))
  BY <1>1, Zenon DEF Answers!Release, Answers!Keeps, Kept, Held
<1>4. Answers!Other <=>
       /\ Gone(out') = {} /\ UNCHANGED inbox
       /\ Kept(Held(arp_buf, now), Held(arp_buf', now'))
  BY <1>1, Zenon DEF Answers!Other, Answers!Keeps, Kept, Held
<1> QED BY <1>2, <1>3, <1>4

LEMMA HeldAre ==
  ASSUME NEW queue, NEW t
  PROVE  \A a : a \in Held(queue, t) <=>
           \E i \in Valid(queue, t) :
             /\ queue.entry[i].value.src \in Frames
             /\ a = Answered(queue.entry[i].key, queue.entry[i].value)
BY DEF Held, map_foreach, Answered

LEMMA HeldAreKept ==
  ASSUME NEW queue, NEW t, UniqueAt(queue, t), NEW answers,
         Held(queue, t) \subseteq answers
  PROVE  Kept(answers, Held(queue, t))
<1>1. ASSUME NEW a \in Held(queue, t), NEW b \in Held(queue, t), a.to = b.to
      PROVE  a = b
  <2>1. PICK i \in Valid(queue, t) :
          a = Answered(queue.entry[i].key, queue.entry[i].value)
    BY HeldAre
  <2>2. PICK j \in Valid(queue, t) :
          b = Answered(queue.entry[j].key, queue.entry[j].value)
    BY HeldAre
  <2>3. queue.entry[i].key = queue.entry[j].key
    BY <1>1, <2>1, <2>2 DEF Answered
  <2>4. i = j
    BY <2>3 DEF UniqueAt
  <2> QED BY <2>1, <2>2, <2>4
<1> QED BY <1>1 DEF Kept

LEMMA GoneAre ==
  /\ Gone({}) = {}
  /\ \A op, ip, mac : Gone({ArpFrame(op, ip, mac)}) = {}
  /\ \A b, mac : IpPacket(b) =>
       Gone({IpFrame(b, mac)}) = IF b.src \in Frames THEN {Shown(Framed(b))}
                                 ELSE {}
<1>1. Gone({}) = {}
  BY DEF Gone
<1>2. ASSUME NEW op, NEW ip, NEW mac PROVE Gone({ArpFrame(op, ip, mac)}) = {}
  <2>1. ArpFrame(op, ip, mac).type = "arp"
    BY DEF ArpFrame
  <2> QED BY <2>1 DEF Gone
<1>3. ASSUME NEW b, NEW mac, IpPacket(b)
      PROVE  Gone({IpFrame(b, mac)}) = IF b.src \in Frames THEN {Shown(Framed(b))}
                                       ELSE {}
  <2>1. Shown(Framed(b)).src = b.src
    BY <1>3, FrameOfPacket
  <2>2. /\ IpFrame(b, mac).type = "ip"
        /\ IpFrame(b, mac).body = Shown(Framed(b))
    BY DEF IpFrame
  <2> QED BY <2>1, <2>2 DEF Gone
<1> QED BY <1>1, <1>2, <1>3

\* arp_out sends an answer, or keeps it, or drops it.
LEMMA HandingAnswers ==
  ASSUME MapTypes, NEW b, IpPacket(b), NEW ip \in Keys, NEW tx,
         ArpOut(b, ip, tx),
         NEW due, due = IF b.src \in Frames THEN {Answered(ip, b)} ELSE {}
  PROVE  \/ /\ Gone(out') = {a.bytes : a \in due}
            /\ Held(arp_buf', now') \subseteq Held(arp_buf, now)
         \/ /\ Gone(out') = {}
            /\ Held(arp_buf', now') \subseteq Held(arp_buf, now) \cup due
<1>1. CASE ArpOutRequest(b, ip, tx)
  <2>1. /\ arp_buf' = map_set(arp_buf, ip, b, now, now) /\ now' = now
        /\ out' = {ArpFrame("request", ip, BROADCAST)}
    BY <1>1, CopyIsSame DEF ArpOutRequest, arp_req
  <2>2. /\ arp_buf \in Queue /\ now \in 1 .. MaxTime /\ b \in Tx
        /\ Bounds(HoldFits, {ARP_MIN_INTERVAL}, MaxTime)
    BY MapShapes DEF MapTypes, IpPacket, Holds
  <2>3. \/ arp_buf' = arp_buf
        \/ \E i \in Positions(arp_buf) :
             /\ Stores(arp_buf, arp_buf', i, ip, b, now)
             /\ Valid(arp_buf', now) = Valid(arp_buf, now) \cup {i}
    BY <2>1, <2>2, SetEffect DEF Queue
  <2>4. ASSUME NEW i \in Positions(arp_buf),
               Stores(arp_buf, arp_buf', i, ip, b, now),
               Valid(arp_buf', now) = Valid(arp_buf, now) \cup {i},
               NEW a \in Held(arp_buf', now)
        PROVE  a \in Held(arp_buf, now) \cup due
    <3>1. PICK j \in Valid(arp_buf', now) :
            /\ arp_buf'.entry[j].value.src \in Frames
            /\ a = Answered(arp_buf'.entry[j].key, arp_buf'.entry[j].value)
      BY <2>4, HeldAre
    <3>2. CASE j = i
      <4>1. arp_buf'.entry[j].key = ip /\ arp_buf'.entry[j].value = b
        BY <2>4, <3>2 DEF Stores
      <4> QED BY <3>1, <4>1
    <3>3. CASE j # i
      <4>1. j \in Valid(arp_buf, now) /\ j \in Positions(arp_buf) \ {i}
        BY <2>4, <3>3 DEF Valid
      <4>2. arp_buf'.entry[j] = arp_buf.entry[j]
        BY <2>4, <4>1 DEF Stores
      <4> QED BY <3>1, <4>1, <4>2, HeldAre
    <3> QED BY <3>2, <3>3
  <2>5. Held(arp_buf', now') \subseteq Held(arp_buf, now) \cup due
    BY <2>1, <2>3, <2>4
  <2>6. Gone(out') = {}
    BY <2>1, GoneAre, Zenon
  <2> QED BY <2>5, <2>6
<1>2. CASE ArpOutDirect(b, ip, tx)
  <2>1. PICK mac : out' = {IpFrame(b, mac)} /\ UNCHANGED <<arp_buf, now>>
    BY <1>2 DEF ArpOutDirect
  <2>2. Gone(out') = IF b.src \in Frames THEN {Shown(Framed(b))} ELSE {}
    BY <2>1, GoneAre, Zenon
  <2>3. Gone(out') = {a.bytes : a \in due}
    <3>1. Answered(ip, b).bytes = Shown(Framed(b))
      BY DEF Answered
    <3>2. CASE b.src \in Frames
      <4>1. due = {Answered(ip, b)}
        BY <3>2
      <4> QED BY <2>2, <3>1, <3>2, <4>1
    <3>3. CASE b.src \notin Frames
      <4>1. due = {}
        BY <3>3
      <4> QED BY <2>2, <3>3, <4>1
    <3> QED BY <3>2, <3>3
  <2> QED BY <2>1, <2>3
<1>3. CASE ArpOutBusy(b, ip, tx)
  <2>1. out' = {} /\ UNCHANGED <<arp_buf, now>>
    BY <1>3 DEF ArpOutBusy
  <2>2. Gone(out') = {}
    BY <2>1, GoneAre, Zenon
  <2> QED BY <2>1, <2>2
<1> QED BY <1>1, <1>2, <1>3 DEF ArpOut

\* arp_in lets one answer go, or none.
LEMMA HearingAnswers ==
  ASSUME MapTypes, Waiting, NEW pkt \in ArpPackets, NEW mac, ArpIn(pkt, mac)
  PROVE  \/ /\ Gone(out') = {}
            /\ Held(arp_buf', now') \subseteq Held(arp_buf, now)
         \/ \E a \in Held(arp_buf, now) :
              /\ Gone(out') = {a.bytes}
              /\ Held(arp_buf', now') \subseteq Held(arp_buf, now) \ {a}
<1> DEFINE key == pkt.sender_ip
<1>1. CASE ArpInAnswer(pkt, mac) \/ ArpInLearn(pkt, mac)
  <2>1. /\ arp_buf' = arp_buf /\ now' = now
        /\ out' = {} \/ out' = {ArpFrame("reply", pkt.sender_ip, pkt.sender_mac)}
    BY <1>1 DEF ArpInAnswer, ArpInLearn, arp_resp
  <2>2. Gone(out') = {}
    BY <2>1, GoneAre, Zenon
  <2> QED BY <2>1, <2>2
<1>2. CASE ArpInFlush(pkt, mac)
  <2> DEFINE i == map_get(arp_buf, key, now)
             v == arp_buf.entry[i].value
             framed == Framed(v)
  <2>1. /\ i # NULL /\ out' = {IpFrame(v, pkt.sender_mac)}
        /\ now' \in now .. MaxTime
        /\ arp_buf' = map_delete(Rewrite(arp_buf, i, framed), key, now')
    BY <1>2 DEF ArpInFlush, HeldFor, FrameInPlace, Rewrite
  <2>2. /\ arp_buf \in Queue /\ CounterOK(arp_buf) /\ UniqueAt(arp_buf, now)
        /\ now \in Nat /\ now' \in Nat /\ now <= now'
        /\ Bounds(HoldFits, {ARP_MIN_INTERVAL}, MaxTime)
    BY <2>1, MapShapes DEF MapTypes
  <2> HIDE DEF framed, key
  <2>3. i \in Matches(arp_buf, key, now)
    BY <2>1, <2>2, GetFindsAMatch DEF Queue
  <2> HIDE DEF i
  <2>4. /\ i \in Valid(arp_buf, now) /\ arp_buf.entry[i].key = key
        /\ IpPacket(v)
    BY <2>3 DEF Matches, Waiting, Ours
  <2>5. framed \in Tx
    <3>1. v \in Tx
      BY <2>4 DEF IpPacket, Holds
    <3> QED BY <3>1, FramedWindow DEF framed, Tx
  <2>6. /\ Valid(arp_buf', now') = Valid(arp_buf, now') \ {i}
        /\ \A j \in Positions(arp_buf) \ {i} :
             arp_buf'.entry[j] = arp_buf.entry[j]
    BY <2>1, <2>2, <2>3, <2>5, TakeOut DEF Queue
  <2>7. Valid(arp_buf, now') \subseteq Valid(arp_buf, now)
    BY <2>2, ExpiryIsMonotone DEF Queue
  <2>8. ASSUME NEW a \in Held(arp_buf', now')
        PROVE  a \in Held(arp_buf, now) /\ a.to # key
    <3>1. PICK j \in Valid(arp_buf', now') :
            /\ arp_buf'.entry[j].value.src \in Frames
            /\ a = Answered(arp_buf'.entry[j].key, arp_buf'.entry[j].value)
      BY HeldAre
    <3>2. j \in Valid(arp_buf, now) /\ j \in Positions(arp_buf) \ {i}
      BY <2>6, <2>7 DEF Valid
    <3>3. arp_buf'.entry[j] = arp_buf.entry[j]
      BY <2>6, <3>2
    <3>4. arp_buf.entry[j].key # key
      BY <2>2, <2>4, <3>2 DEF UniqueAt
    <3> QED BY <3>1, <3>2, <3>3, <3>4, HeldAre DEF Answered
  <2>9. Gone(out') = IF v.src \in Frames THEN {Shown(Framed(v))} ELSE {}
    BY <2>1, <2>4, GoneAre, Zenon
  <2>10. CASE v.src \in Frames
    <3> DEFINE a == Answered(key, v)
    <3>1. a \in Held(arp_buf, now)
      BY <2>4, <2>10, HeldAre
    <3>2. Gone(out') = {a.bytes} /\ a.to = key
      BY <2>9, <2>10 DEF Answered
    <3> QED BY <2>8, <3>1, <3>2
  <2>11. CASE v.src \notin Frames
    BY <2>8, <2>9, <2>11
  <2> QED BY <2>10, <2>11
<1> QED BY <1>1, <1>2 DEF ArpIn
-----------------------------------------------------------------------------
\* What is due is what the layers build.
\* tx holds len bytes of the frame from first on, and headers in front of them.
LEMMA WireOf ==
  ASSUME NEW f \in Frames, NEW headers \in Nat, NEW first \in Int,
         NEW len \in Int, len + headers \in Nat, len + headers <= MaxPayload,
         NEW tx, Holds(tx, f, first - headers, len + headers)
  PROVE  OnWire(f, headers, first, len)
           = {Answered(f.src_ip, buf_add_header(tx, IpHdr))}
<1> DEFINE b == buf_add_header(tx, IpHdr)
           n == len + headers
           at == first - headers
<1>1. /\ n \in Nat /\ n <= 1480 /\ at \in Int /\ Holds(tx, f, at, n)
      /\ f \notin Datagrams
  BY Pieces, StackAssumption
<1>2. /\ IpHdr = 20 /\ EtherHdr = 14 /\ MinPayload = 46
  BY DEF IpHdr, EtherHdr, MinPayload
<1>3. /\ tx.src = f /\ tx.data - tx.org = at /\ tx.len = n
      /\ Holds(tx, tx.src, tx.data - tx.org, tx.len)
  BY <1>1, Zenon DEF Holds
<1>4. IpPacket(b)
  <2>1. Whole(tx.src, tx.data - tx.org + UdpHdr, tx.len)
    BY <1>1, <1>3 DEF Whole
  <2>2. tx.len <= MaxPayload
    BY <1>1, <1>3, Pieces
  <2> QED BY <1>3, <2>1, <2>2, PacketOfFragment
<1>5. /\ b.src = f /\ b.data - b.org = at - 20 /\ b.len = n + 20
  <2>1. Holds(b, f, at - 20, n + 20)
    BY <1>1, <1>2, HeaderHolds
  <2> QED BY <2>1 DEF Holds
<1> HIDE DEF b
<1>6. /\ Shown(Framed(b)).src = f
      /\ Shown(Framed(b)).first = at - 20 - 14
      /\ Shown(Framed(b)).len = 14 + (IF n + 20 < 46 THEN 46 ELSE n + 20)
  BY <1>2, <1>4, <1>5, FrameOfPacket
<1>7. Shown(Framed(b)) = [src |-> f, first |-> first - headers - IpHdr - EtherHdr,
               len |-> EtherHdr + (IF len + headers + IpHdr < MinPayload
                                   THEN MinPayload ELSE len + headers + IpHdr)]
  <2>1. at - 20 - 14 = first - headers - IpHdr - EtherHdr
    BY <1>2
  <2>2. \A c : Shown(c) = [src |-> Shown(c).src, first |-> Shown(c).first,
                           len |-> Shown(c).len]
    BY DEF Shown
  <2> HIDE DEF at
  <2> QED BY <1>2, <1>6, <2>1, <2>2
<1> QED BY <1>7 DEF OnWire, Answered, b

LEMMA DueIs ==
  ASSUME NEW f
  PROVE  /\ ~ ForUs(f) => Due(f) = {}
         /\ ForUs(f) /\ f.protocol = "icmp" /\ f.echo
              => Due(f) = OnWire(f, 0, EtherHdr + 4 * f.hdr_len,
                                 f.total_len - 4 * f.hdr_len)
         /\ ForUs(f) /\ f.protocol = "udp" /\ f.sum /\ f.port = EchoPort
              => Due(f) = OnWire(f, UdpHdr, EtherHdr + 4 * f.hdr_len + UdpHdr,
                                 f.total_len - 4 * f.hdr_len - UdpHdr)
         /\ ForUs(f) /\ \/ f.protocol = "udp" /\ f.sum /\ f.port # EchoPort
                        \/ f.protocol \notin {"icmp", "udp"}
              => Due(f) = OnWire(f, IcmpHdr, EtherHdr, Quote)
<1> DEFINE wire(h, first, n) == OnWire(f, h, first, n)
<1>1. ~ ForUs(f) => Due(f) = {}
  BY DEF Due
<1>2. ForUs(f) /\ f.protocol = "icmp" /\ f.echo
        => Due(f) = wire(0, EtherHdr + 4 * f.hdr_len,
                         f.total_len - 4 * f.hdr_len)
  <2> HIDE DEF wire
  <2> QED BY DEF Due, wire
<1>3. ForUs(f) /\ f.protocol = "udp" /\ f.sum /\ f.port = EchoPort
        => Due(f) = wire(UdpHdr, EtherHdr + 4 * f.hdr_len + UdpHdr,
                         f.total_len - 4 * f.hdr_len - UdpHdr)
  BY DEF Due
<1>4. ForUs(f) /\ \/ f.protocol = "udp" /\ f.sum /\ f.port # EchoPort
                  \/ f.protocol \notin {"icmp", "udp"}
        => Due(f) = wire(IcmpHdr, EtherHdr, Quote)
  BY DEF Due
<1> QED BY <1>1, <1>2, <1>3, <1>4

\* After a poll ip_out is called with the answer that is due, or not at all.
DueHandedDown(f) ==
  \E tx, ip : /\ Proper(tx) /\ tx.src = f /\ tx.len <= MaxPayload
              /\ ip \in Hosts /\ ip_out(tx, ip)
              /\ Due(f) = {Answered(ip, buf_add_header(tx, IpHdr))}

LEMMA HandedDown ==
  ASSUME NEW f \in Frames, NEW headers \in Nat, NEW first \in Int,
         NEW len \in Int, len + headers \in Nat, len + headers <= MaxPayload,
         NEW tx, Holds(tx, f, first - headers, len + headers), Proper(tx),
         Due(f) = OnWire(f, headers, first, len),
         f.src_ip \in Hosts, ip_out(tx, f.src_ip)
  PROVE  DueHandedDown(f)
<1>1. Due(f) = {Answered(f.src_ip, buf_add_header(tx, IpHdr))}
  BY WireOf
<1>2. tx.src = f /\ tx.len <= MaxPayload
  BY DEF Holds
<1> QED BY <1>1, <1>2 DEF DueHandedDown

LEMMA AnswersAreDue ==
  ASSUME Orderly, RP!RxWindow, RP!RxWindow', RP!OpenPorts, open = {EchoPort},
         txbuf \in Tx, NEW f \in Frames, Rx!Poll(f), Answer
  PROVE  Silent \/ DueHandedDown(f)
<1>1. /\ RP!Poll(f) /\ Frames \subseteq RP!PossibleFrames
      /\ UdpFits \in Nat \ {0} /\ BUF_MAX_LEN \in Nat /\ BUF_MAX_LEN > 1
      /\ rxbuf \in RP!Rx
  BY SamePoll, SamePossibleFrames, StackAssumption, BufMaxLenAssumption
     DEF RP!RxWindow
<1>2. /\ f.len \in Nat /\ f.len <= 1514 /\ f.hdr_len \in 0 .. 15
      /\ f.total_len \in Nat
  BY <1>1, RP!FrameFields
<1>3. top' + 1 < BUF_MAX_LEN
  <2>1. rxbuf.data \in Nat
    BY <1>1 DEF RP!Rx, RP!Windows
  <2>2. top' = rxbuf.data + f.len /\ rxbuf.data \in FirstData .. LastData
    BY <1>1 DEF RP!Poll, RP!PollUnhandled, RP!PollIpDropped,
       RP!PollProtocolUnreachable, RP!PollIcmp, RP!PollUdpDropped,
       RP!PollPortUnreachable, RP!PollUdpDelivered, RP!driver_recv
  <2>3. rxbuf.data <= LastData /\ LastData \in Nat
    BY <2>2 DEF Orderly
  <2>4. LastData + 1514 + 1 < BUF_MAX_LEN
    BY DEF Orderly, MaxFrame, EtherHdr, IpHdr, MaxPayload
  <2> QED BY <1>1, <1>2, <2>1, <2>2, <2>3, <2>4
<1>4. RP!Accepted(f) => /\ ForUs(f) /\ RP!FitsItsHeader(f)
                        /\ 4 * f.hdr_len <= f.total_len /\ f.hdr_len >= 5
                        /\ 14 + f.total_len <= f.len
                        /\ f.protocol = "udp" /\ f.port # EchoPort
                             => f.hdr_len = 5
  BY DEF RP!Accepted, RP!EtherHdr, EtherHdr, ForUs, Orderly, RP!FitsItsHeader
<1>5. /\ \A u \in upcall' :
           /\ RP!Accepted(f) /\ u.src = f.src_ip
           /\ f.protocol = "udp" /\ f.sum /\ f.port = EchoPort
      /\ \A r \in reply' :
           /\ RP!Accepted(f) /\ r.to = f.src_ip
           /\ r.kind = "echo" => f.protocol = "icmp" /\ f.echo
           /\ r.kind # "echo" =>
                /\ r.len = Quote
                /\ \/ f.protocol = "udp" /\ f.sum /\ f.port # EchoPort
                   \/ f.protocol \notin {"icmp", "udp"} /\ r.kind = "protocol"
  <2>1. f.ethertype \notin {"icmp", "udp"}
    BY DEF Orderly
  <2>2. /\ \A u \in upcall' :
             /\ RP!Accepted(f) /\ u.src = f.src_ip
             /\ f.protocol = "udp" /\ f.sum /\ f.port \in open
        /\ \A r \in reply' :
             /\ RP!Accepted(f) /\ r.to = f.src_ip
             /\ r.kind = "echo" => f.protocol = "icmp" /\ f.echo
             /\ r.kind # "echo" =>
                  /\ r.len = RP!Quote
                  /\ \/ f.protocol = "udp" /\ f.sum /\ f.port \notin open
                     \/ f.protocol \notin {"icmp", "udp"} /\ r.kind = "protocol"
    BY <1>1, <2>1, RP!WhatIsAnswered
  <2>3. RP!Quote = Quote
    BY DEF RP!Quote, RP!IpHdr, Quote, IpHdr
  <2> QED BY <2>2, <2>3
<1>6. /\ \A r \in reply' :
           /\ r.frame = f /\ r.first \in Int /\ r.len \in Nat
           /\ r.len >= 8 /\ r.len <= 1520 /\ r.to \in Hosts
      /\ \A u \in upcall' :
           /\ u.frame = f /\ u.first \in Int /\ u.len \in Nat
           /\ u.len <= 1520 /\ u.src \in Hosts
  BY AnswerShape DEF Hosts
<1>7. /\ f \in Sources /\ f \in Datagrams \cup Frames /\ f \notin Datagrams
  BY StackAssumption DEF Sources
<1>8. UdpHdr = 8 /\ EtherHdr = 14 /\ IcmpHdr = 8 /\ Quote = 28
      /\ MaxPayload = 1480
  BY DEF UdpHdr, EtherHdr, IcmpHdr, Quote, IpHdr, MaxPayload
<1>9. RP!Accepted(f) =>
        /\ \A r \in reply' : r.kind = "echo" =>
             /\ r.first = 14 + 4 * f.hdr_len
             /\ r.len = f.total_len - 4 * f.hdr_len
        /\ \A u \in upcall' :
             /\ u.first = 14 + 4 * f.hdr_len + 8
             /\ u.len = f.total_len - 4 * f.hdr_len - 8
  BY <1>1, <1>3, <1>4, RP!PayloadAfterPoll DEF RP!EtherHdr, RP!UdpHdr
<1>10. \A r \in reply' : r.kind # "echo" => r.first = 14
  <2> SUFFICES ASSUME NEW r \in reply', r.kind # "echo" PROVE r.first = 14
    OBVIOUS
  <2>1. r.kind = "port" => RP!FitsItsHeader(f) /\ f.hdr_len = 5
    BY <1>4, <1>5
  <2> QED BY <1>1, <2>1, RP!QuoteAfterPoll DEF RP!EtherHdr
<1>11. ASSUME NEW r \in reply', r.kind = "echo", icmp_resp(r)
       PROVE  DueHandedDown(f)
  <2> DEFINE first == EtherHdr + 4 * f.hdr_len
             len == f.total_len - 4 * f.hdr_len
             tx == Fill(buf_init(txbuf, len), f, first)
  <2>1. /\ r.first = first /\ r.len = len /\ r.frame = f /\ r.to = f.src_ip
        /\ first \in Int /\ len \in Nat /\ len >= 1 /\ len <= 1480
        /\ f.src_ip \in Hosts
    BY <1>2, <1>4, <1>5, <1>6, <1>8, <1>9, <1>11
  <2>2. Due(f) = OnWire(f, 0, first, len)
    BY <1>4, <1>5, <1>11, DueIs
  <2>3. ip_out(tx, f.src_ip)
    BY <1>11, <2>1 DEF icmp_resp
  <2> HIDE DEF first, len
  <2>4. Proper(tx)
    <3>1. len <= 65535
      BY <2>1
    <3> QED BY <2>1, <3>1, EchoIsProper
  <2>5. Holds(tx, f, first, len)
    BY <1>7, <2>1, FillHolds
  <2> HIDE DEF tx
  <2>6. /\ first - 0 = first /\ len + 0 = len /\ len <= MaxPayload /\ 0 \in Nat
    BY <1>8, <2>1
  <2> QED BY <2>1, <2>2, <2>3, <2>4, <2>5, <2>6, HandedDown
<1>12. ASSUME NEW r \in reply', r.kind # "echo", icmp_unreachable(r)
       PROVE  DueHandedDown(f)
  <2> DEFINE tx == buf_add_header(Fill(buf_init(txbuf, Quote), f, EtherHdr),
                                  IcmpHdr)
  <2>1. /\ r.first = EtherHdr /\ r.len = Quote /\ r.frame = f
        /\ r.to = f.src_ip /\ f.src_ip \in Hosts
    BY <1>5, <1>6, <1>8, <1>10, <1>12
  <2>2. Due(f) = OnWire(f, IcmpHdr, EtherHdr, Quote)
    BY <1>4, <1>5, <1>12, DueIs
  <2>3. ip_out(tx, f.src_ip)
    BY <1>12, <2>1 DEF icmp_unreachable
  <2>4. Proper(tx)
    BY <1>8, ErrorIsProper
  <2>5. Holds(tx, f, EtherHdr - IcmpHdr, Quote + IcmpHdr)
    BY <1>7, <1>8, ErrorHolds
  <2> HIDE DEF tx
  <2>6. /\ IcmpHdr \in Nat /\ EtherHdr \in Int /\ Quote \in Int
        /\ Quote + IcmpHdr \in Nat /\ Quote + IcmpHdr <= MaxPayload
    BY <1>8
  <2> QED BY <2>1, <2>2, <2>3, <2>4, <2>5, <2>6, HandedDown
<1>13. ASSUME NEW u \in upcall', handler(u)
       PROVE  DueHandedDown(f)
  <2> DEFINE first == EtherHdr + 4 * f.hdr_len + UdpHdr
             len == f.total_len - 4 * f.hdr_len - UdpHdr
             tx == udp_checksum(buf_add_header(
                     Fill(buf_init(txbuf, len), f, first), UdpHdr))
  <2>1. /\ u.first = first /\ u.len = len /\ u.frame = f /\ u.src = f.src_ip
        /\ first \in Int /\ len \in Nat /\ len + UdpHdr <= 1480
        /\ f.src_ip \in Hosts
    BY <1>2, <1>4, <1>5, <1>6, <1>8, <1>9, <1>13
  <2>2. Due(f) = OnWire(f, UdpHdr, first, len)
    BY <1>4, <1>5, <1>13, DueIs
  <2>3. ip_out(tx, f.src_ip)
    BY <1>13, <2>1 DEF handler, udp_send, udp_out
  <2> HIDE DEF first, len
  <2>4. Proper(tx)
    BY <1>7, <1>8, <2>1, UdpIsProper
  <2>5. Holds(tx, f, first - UdpHdr, len + UdpHdr)
    BY <1>7, <1>8, <2>1, UdpHolds
  <2> HIDE DEF tx
  <2>6. /\ UdpHdr \in Nat /\ len + UdpHdr \in Nat /\ len + UdpHdr <= MaxPayload
    BY <1>8, <2>1
  <2> QED BY <2>1, <2>2, <2>3, <2>4, <2>5, <2>6, HandedDown
<1> QED BY <1>11, <1>12, <1>13 DEF Answer

-----------------------------------------------------------------------------
\* An ip_out under way is never an answer, and only main's port is open.
Looping == job # Idle => txbuf.src \notin Frames
AnsInv == RP!OpenPorts /\ open = {EchoPort} /\ Looping

LEMMA SameOpening ==
  map_set(map_init(UdpFits, 0, 0, [key |-> Nothing, value |-> Nothing,
                                   time |-> 0]), EchoPort, Rx!Handler, 1, 1)
    = RP!map_set(RP!EmptyTable, EchoPort, RP!Handler, 1, 1)
<1> DEFINE m == map_init(UdpFits, 0, 0, [key |-> Nothing, value |-> Nothing,
                                         time |-> 0])
<1>1. RP!EmptyTable = m
  BY DEF RP!EmptyTable, RP!map_init, map_init
<1>2. Rx!Handler = RP!Handler /\ RP!NULL = NULL
  BY DEF Rx!Handler, RP!Handler, RP!NULL, NULL
<1> HIDE DEF m
<1>3. \A S : RP!First(S) = First(S)
  BY DEF RP!First, First
<1>4. \A k, t : RP!Valid(m, t) = Valid(m, t) /\ RP!Matches(m, k, t) = Matches(m, k, t)
  BY DEF RP!Matches, RP!Valid, RP!map_entry_valid, RP!Positions, Matches,
     Valid, map_entry_valid, Positions
<1>5. \A k, t : RP!map_get(m, k, t) = map_get(m, k, t)
  BY <1>2, <1>3, <1>4 DEF RP!map_get, map_get
<1>6. \A t : RP!Invalid(m, t) = Invalid(m, t)
  BY <1>4 DEF RP!Invalid, Invalid, RP!Positions, Positions
<1>7. \A i, k, v, t : RP!Write(m, i, k, v, t) = Write(m, i, k, v, t)
  BY DEF RP!Write, Write
<1>8. \A k, v : RP!map_set(m, k, v, 1, 1) = map_set(m, k, v, 1, 1)
  <2> SUFFICES ASSUME NEW k, NEW v
               PROVE  RP!map_set(m, k, v, 1, 1) = map_set(m, k, v, 1, 1)
    OBVIOUS
  <2>1. /\ RP!map_get(m, k, 1) = map_get(m, k, 1)
        /\ RP!Invalid(m, 1) = Invalid(m, 1)
        /\ RP!First(Invalid(m, 1)) = First(Invalid(m, 1))
        /\ \A i : RP!Write(m, i, k, v, 1) = Write(m, i, k, v, 1)
    BY <1>3, <1>5, <1>6, <1>7
  <2> QED BY <1>2, <2>1, Zenon DEF RP!map_set, map_set
<1> QED BY <1>1, <1>2, <1>8, Zenon DEF m

LEMMA AnsInvInit == SInit => AnsInv
<1> SUFFICES ASSUME SInit PROVE AnsInv
  OBVIOUS
<1>1. /\ udp_table = RP!map_set(RP!EmptyTable, EchoPort, RP!Handler, 1, 1)
      /\ open = {EchoPort} /\ job = Idle
  BY SameOpening, Zenon DEF SInit, IInit
<1>2. /\ UdpFits \in Nat \ {0} /\ EchoPort \in Ports
      /\ BUF_MAX_LEN \in Nat /\ BUF_MAX_LEN > 1
      /\ Frames \subseteq RP!PossibleFrames
  BY StackAssumption, BufMaxLenAssumption, SamePossibleFrames
<1>3. RP!PortsOf(RP!map_set(RP!EmptyTable, EchoPort, RP!Handler, 1, 1),
                 {EchoPort})
  BY <1>2, RP!FirstPort
<1> QED BY <1>1, <1>3, Zenon DEF AnsInv, RP!OpenPorts, Looping

LEMMA PortsStay ==
  ASSUME RP!OpenPorts, open = {EchoPort}, [SNext]_stackVars
  PROVE  RP!OpenPorts' /\ open' = {EchoPort}
<1>1. ASSUME NEW f, Rx!Poll(f) PROVE UNCHANGED <<udp_table, open>>
  BY <1>1 DEF Rx!Poll, Rx!PollUnhandled, Rx!PollIpDropped,
     Rx!PollProtocolUnreachable, Rx!PollIcmp, Rx!PollUdpDropped,
     Rx!PollPortUnreachable, Rx!PollUdpDelivered, Rx!driver_recv
<1>2. UNCHANGED <<udp_table, open>>
  <2>1. CASE \E f \in Frames : PollArp(f) \/ PollOther(f)
    BY <1>1, <2>1 DEF PollArp, PollOther, Arrives
  <2>2. CASE PollNothing
    BY <2>2 DEF PollNothing, Rx!PollIdle
  <2>3. CASE \/ \E d \in Datagrams, ip \in Peers : Send(d, ip)
             \/ NextFragment \/ LastFragment \/ STick
    BY <2>3 DEF Send, NextFragment, LastFragment, STick, NotReceiving
  <2>4. CASE UNCHANGED stackVars
    BY <2>4 DEF stackVars, rxVars
  <2> QED BY <2>1, <2>2, <2>3, <2>4 DEF SNext
<1>3. RP!OpenPorts'
  BY <1>2 DEF RP!OpenPorts, RP!PortsOf, RP!CounterOK, RP!UniqueAt, RP!Valid,
     RP!Matches, RP!Positions, RP!Occupied, RP!UdpTables
<1> QED BY <1>2, <1>3

-----------------------------------------------------------------------------
\* Step by step.  What the maps say after a step bounds the answers that wait.
LEMMA StillKept ==
  ASSUME WireInv', NEW answers, Held(arp_buf', now') \subseteq answers
  PROVE  Kept(answers, Held(arp_buf', now'))
<1>1. UniqueAt(arp_buf', now')
  BY DEF WireInv, MapTypes
<1> QED BY <1>1, HeldAreKept

\* Bytes that are no frame's pass unnoticed.
LEMMA HandingOthers ==
  ASSUME MapTypes, NEW b, IpPacket(b), b.src \notin Frames, NEW ip \in Keys,
         NEW tx, ArpOut(b, ip, tx)
  PROVE  /\ Gone(out') = {}
         /\ Held(arp_buf', now') \subseteq Held(arp_buf, now)
<1>1. {} = IF b.src \in Frames THEN {Answered(ip, b)} ELSE {}
  OBVIOUS
<1>2. \/ /\ Gone(out') = {a.bytes : a \in {}}
         /\ Held(arp_buf', now') \subseteq Held(arp_buf, now)
      \/ /\ Gone(out') = {}
         /\ Held(arp_buf', now') \subseteq Held(arp_buf, now) \cup {}
  BY <1>1, HandingAnswers
<1> QED BY <1>2

\* A step that only moves the clock on.
LEMMA HeldWhileQuiet ==
  ASSUME MapTypes, arp_buf' = arp_buf, now' \in Nat, now <= now', out' = {}
  PROVE  /\ Gone(out') = {}
         /\ Held(arp_buf', now') \subseteq Held(arp_buf, now)
<1>1. Gone(out') = {}
  BY GoneAre, Zenon
<1>2. now \in Nat /\ arp_buf \in Queue /\ Bounds(HoldFits, {ARP_MIN_INTERVAL}, MaxTime)
  BY MapShapes DEF MapTypes
<1>3. Valid(arp_buf, now') \subseteq Valid(arp_buf, now)
  BY <1>2, ExpiryIsMonotone DEF Queue
<1>4. \A a : a \in Held(arp_buf, now') => a \in Held(arp_buf, now)
  BY <1>3, HeldAre
<1> QED BY <1>1, <1>4

LEMMA AnsweringSteps ==
  ASSUME Orderly, CutInv, WireInv, AnsInv, CutInv', WireInv',
         NEW f \in Frames, PollOther(f)
  PROVE  Looping' /\ Answers!Receive(f)
<1>1. /\ RP!RxWindow /\ RP!RxWindow' /\ RP!OpenPorts /\ open = {EchoPort}
      /\ txbuf \in Tx /\ Rx!Poll(f) /\ Answer /\ job = Idle
      /\ f \in inbox /\ inbox' = inbox \ {f} /\ MapTypes
  BY DEF AnsInv, CutInv, SendTypes, PollOther, Arrives, WireInv
<1>2. CASE Silent
  <2>1. out' = {} /\ arp_buf' = arp_buf /\ now' = now /\ job' = job
    BY <1>2 DEF Silent, ipVars
  <2>2. now' \in Nat /\ now <= now'
    BY <1>1, <2>1, MapShapes
  <2>3. /\ Gone(out') = {}
        /\ Held(arp_buf', now') \subseteq Held(arp_buf, now)
    BY <1>1, <2>1, <2>2, HeldWhileQuiet
  <2>4. Kept(Held(arp_buf, now) \cup Due(f), Held(arp_buf', now'))
    BY <2>3, StillKept
  <2>5. Answers!Receive(f)
    BY <1>1, <2>3, <2>4, ResponderSteps
  <2> QED BY <1>1, <2>1, <2>5 DEF Looping
<1>3. CASE DueHandedDown(f)
  <2>1. PICK tx, ip : /\ Proper(tx) /\ tx.src = f /\ tx.len <= MaxPayload
                      /\ ip \in Hosts /\ ip_out(tx, ip)
                      /\ Due(f) = {Answered(ip, buf_add_header(tx, IpHdr))}
    BY <1>3 DEF DueHandedDown
  <2> DEFINE b == buf_add_header(tx, IpHdr)
  <2>2. tx.len \in Nat /\ MaxPayload \in Nat
    BY <2>1, Pieces DEF Proper, Holds, Tx, Windows
  <2>3. ArpOut(b, ip, tx) /\ job' = job
    <3>1. ~ (tx.len > MaxPayload)
      BY <2>1, <2>2
    <3>2. IpOutWhole(tx, ip)
      BY <2>1, <3>1, Zenon DEF ip_out, IpOutStart
    <3> QED BY <3>2, Zenon DEF IpOutWhole, ip_fragment_out
  <2>4. IpPacket(b) /\ b.src = f /\ ip \in Keys
    BY <2>1, WholePacket, MapShapes
  <2>5. Due(f) = IF b.src \in Frames THEN {Answered(ip, b)} ELSE {}
    BY <2>1, <2>4
  <2> HIDE DEF b
  <2>6. \/ /\ Gone(out') = {a.bytes : a \in Due(f)}
           /\ Held(arp_buf', now') \subseteq Held(arp_buf, now)
        \/ /\ Gone(out') = {}
           /\ Held(arp_buf', now') \subseteq Held(arp_buf, now) \cup Due(f)
    BY <1>1, <2>3, <2>4, <2>5, HandingAnswers
  <2>7. \/ /\ Gone(out') = {a.bytes : a \in Due(f)}
           /\ Kept(Held(arp_buf, now), Held(arp_buf', now'))
        \/ /\ Gone(out') = {}
           /\ Kept(Held(arp_buf, now) \cup Due(f), Held(arp_buf', now'))
    BY <2>6, StillKept
  <2>8. Answers!Receive(f)
    BY <1>1, <2>7, ResponderSteps
  <2> QED BY <1>1, <2>3, <2>8 DEF Looping
<1> QED BY <1>1, <1>2, <1>3, AnswersAreDue

LEMMA ListeningSteps ==
  ASSUME CutInv, WireInv, AnsInv, CutInv', WireInv', NEW f \in Frames, PollArp(f)
  PROVE  /\ Looping'
         /\ Answers!Receive(f) \/ \E a \in Held(arp_buf, now) : Answers!Release(f, a)
<1>1. /\ job = Idle /\ job' = job /\ f.ethertype = "arp"
      /\ f \in inbox /\ inbox' = inbox \ {f} /\ MapTypes /\ Waiting
      /\ IF f.arp = Nothing \/ rxbuf'.len < ArpLen THEN ArpInMalformed
         ELSE ArpIn(f.arp, f.src_mac)
  BY DEF PollArp, Arrives, WireInv, ipVars
<1>2. Looping'
  BY <1>1 DEF Looping
<1>3. Due(f) = {}
  BY <1>1, DueIs DEF ForUs
<1>4. CASE /\ Gone(out') = {}
           /\ Held(arp_buf', now') \subseteq Held(arp_buf, now)
  <2>1. Kept(Held(arp_buf, now) \cup Due(f), Held(arp_buf', now'))
    BY <1>4, StillKept
  <2> QED BY <1>1, <1>2, <1>4, <2>1, ResponderSteps
<1>5. CASE ArpInMalformed
  <2>1. out' = {} /\ arp_buf' = arp_buf /\ now' = now
    BY <1>5 DEF ArpInMalformed
  <2>2. now' \in Nat /\ now <= now'
    BY <1>1, <2>1, MapShapes
  <2> QED BY <1>1, <1>4, <2>1, <2>2, HeldWhileQuiet
<1>6. CASE ~ (f.arp = Nothing \/ rxbuf'.len < ArpLen)
  <2>1. ArpIn(f.arp, f.src_mac)
    BY <1>1, <1>6
  <2>2. f.arp \in ArpPackets
    BY <1>6, ArpOfAFrame
  <2>3. \/ /\ Gone(out') = {}
           /\ Held(arp_buf', now') \subseteq Held(arp_buf, now)
        \/ \E a \in Held(arp_buf, now) :
             /\ Gone(out') = {a.bytes}
             /\ Held(arp_buf', now') \subseteq Held(arp_buf, now) \ {a}
    BY <1>1, <2>1, <2>2, HearingAnswers
  <2>4. ASSUME NEW a \in Held(arp_buf, now), Gone(out') = {a.bytes},
               Held(arp_buf', now') \subseteq Held(arp_buf, now) \ {a}
        PROVE  Answers!Release(f, a)
    <3>1. Kept(Held(arp_buf, now) \ {a}, Held(arp_buf', now'))
      BY <2>4, StillKept
    <3> QED BY <1>1, <2>4, <3>1, ResponderSteps
  <2> QED BY <1>2, <1>4, <2>3, <2>4
<1> QED BY <1>1, <1>5, <1>6

LEMMA OtherSteps ==
  ASSUME CutInv, WireInv, AnsInv, CutInv', WireInv',
         \/ PollNothing
         \/ \E d \in Datagrams, ip \in Peers : Send(d, ip)
         \/ NextFragment \/ LastFragment \/ STick
  PROVE  Looping' /\ Answers!Other
<1>1. MapTypes /\ txbuf \in Tx /\ job \in Jobs /\ UNCHANGED inbox
  BY DEF WireInv, CutInv, SendTypes, PollNothing, Send, NextFragment,
     LastFragment, STick, NotReceiving
<1>2. ASSUME /\ Gone(out') = {}
             /\ Held(arp_buf', now') \subseteq Held(arp_buf, now)
      PROVE  Answers!Other
  BY <1>1, <1>2, StillKept, ResponderSteps
<1>3. CASE PollNothing
  <2>1. out' = {} /\ arp_buf' = arp_buf /\ now' = now /\ job' = job /\ job = Idle
    BY <1>3 DEF PollNothing, Silent, ipVars
  <2>2. now' \in Nat /\ now <= now'
    BY <1>1, <2>1, MapShapes
  <2> QED BY <1>1, <1>2, <2>1, <2>2, HeldWhileQuiet DEF Looping
<1>4. ASSUME NEW d \in Datagrams, NEW ip \in Peers, Send(d, ip)
      PROVE  Looping' /\ Answers!Other
  <2>1. PICK tx : Proper(tx) /\ tx.src = d /\ ip_out(tx, ip)
    BY <1>1, <1>4, SendHandsDown
  <2>2. d \notin Frames /\ ip \in Keys
    BY StackAssumption, MapShapes DEF Hosts
  <2>3. CASE IpOutWhole(tx, ip)
    <3> DEFINE b == buf_add_header(tx, IpHdr)
    <3>1. tx.len <= MaxPayload /\ ArpOut(b, ip, tx) /\ job' = job /\ job = Idle
      BY <2>1, <2>3, Zenon DEF IpOutWhole, ip_fragment_out, ip_out
    <3>2. IpPacket(b) /\ b.src = d
      BY <2>1, <3>1, WholePacket
    <3> HIDE DEF b
    <3>3. /\ Gone(out') = {}
          /\ Held(arp_buf', now') \subseteq Held(arp_buf, now)
      BY <1>1, <2>2, <3>1, <3>2, HandingOthers
    <3> QED BY <1>2, <3>1, <3>3 DEF Looping
  <2>4. CASE IpOutStart(tx, ip)
    <3>1. txbuf' = tx /\ out' = {} /\ arp_buf' = arp_buf /\ now' = now
      BY <2>4, Zenon DEF IpOutStart
    <3>2. now' \in Nat /\ now <= now'
      BY <1>1, <3>1, MapShapes
    <3> QED BY <1>1, <1>2, <2>1, <2>2, <3>1, <3>2, HeldWhileQuiet DEF Looping
  <2> QED BY <2>1, <2>3, <2>4 DEF ip_out
<1>5. ASSUME job # Idle, NEW n \in Nat, n >= 1,
             n = IF txbuf.len > MaxPayload THEN MaxPayload ELSE txbuf.len,
             ArpOut(buf_add_header(CopyOut(txbuf, n), IpHdr), job.ip,
                    buf_remove_header(txbuf, n))
      PROVE  Answers!Other /\ txbuf'.src \notin Frames
  <2> DEFINE b == buf_add_header(CopyOut(txbuf, n), IpHdr)
  <2>1. IpPacket(b) /\ b.src = txbuf.src
    BY <1>5, LoopPacket DEF WireInv
  <2>2. txbuf'.src = txbuf.src \/ txbuf'.src = ARP
    BY <1>5, LoopHandsDown
  <2>3. txbuf.src \notin Frames /\ ARP \notin Frames
    BY <1>5, MapShapes DEF AnsInv, Looping
  <2>4. job.ip \in Keys
    BY <1>1, <1>5, MapShapes DEF Jobs
  <2>5. ArpOut(b, job.ip, buf_remove_header(txbuf, n))
    BY <1>5
  <2> HIDE DEF b
  <2>6. /\ Gone(out') = {}
        /\ Held(arp_buf', now') \subseteq Held(arp_buf, now)
    BY <1>1, <2>1, <2>3, <2>4, <2>5, HandingOthers
  <2> QED BY <1>2, <2>2, <2>3, <2>6
<1>6. CASE NextFragment
  <2> DEFINE n == MaxPayload
  <2> HIDE DEF n
  <2>1. /\ job # Idle /\ txbuf.len > n
        /\ ArpOut(buf_add_header(CopyOut(txbuf, n), IpHdr), job.ip,
                  buf_remove_header(txbuf, n))
    BY <1>6, Zenon DEF NextFragment, IpOutFragment, ip_fragment_out, n
  <2>2. n \in Nat /\ n >= 1 /\ MaxPayload = n
    BY Pieces DEF n
  <2> QED BY <1>5, <2>1, <2>2 DEF Looping
<1>7. CASE LastFragment
  <2> DEFINE n == txbuf.len
  <2> HIDE DEF n
  <2>1. /\ job # Idle /\ n \in 1 .. MaxPayload /\ txbuf.len = n /\ job' = Idle
        /\ ArpOut(buf_add_header(CopyOut(txbuf, n), IpHdr), job.ip,
                  buf_remove_header(txbuf, n))
    BY <1>7, Zenon DEF LastFragment, IpOutLast, ip_fragment_out, n
  <2>2. /\ n \in Nat /\ n >= 1
        /\ n = IF txbuf.len > MaxPayload THEN MaxPayload ELSE txbuf.len
    <3>1. n \in Nat /\ n >= 1 /\ ~ (n > MaxPayload)
      BY <2>1, Pieces
    <3> QED BY <2>1, <3>1
  <2> QED BY <1>5, <2>1, <2>2 DEF Looping
<1>8. CASE STick
  <2>1. /\ out' = {} /\ arp_buf' = arp_buf /\ now' = now + 1 /\ txbuf' = txbuf
        /\ job = Idle => job' = Idle
    BY <1>8 DEF STick, ITick, Tick
  <2>2. now' \in Nat /\ now <= now'
    BY <1>1, <2>1, MapShapes
  <2>3. Looping'
    BY <2>1 DEF AnsInv, Looping
  <2> QED BY <1>1, <1>2, <2>1, <2>2, <2>3, HeldWhileQuiet
<1> QED BY <1>3, <1>4, <1>6, <1>7, <1>8

LEMMA AnswersNext ==
  ASSUME Orderly, CutInv, WireInv, AnsInv, CutInv', WireInv', [SNext]_stackVars
  PROVE  AnsInv' /\ [Answers!Next]_(Answers!vars)
<1>1. RP!OpenPorts' /\ open' = {EchoPort}
  BY PortsStay DEF AnsInv
<1>2. CASE UNCHANGED stackVars
  <2>1. UNCHANGED <<arp_buf, now, out, inbox, job, txbuf>>
    BY <1>2 DEF stackVars, sendVars, arpVars, ipVars
  <2>2. Looping'
    BY <2>1 DEF AnsInv, Looping
  <2>3. UNCHANGED Answers!vars
    BY <2>1 DEF Answers!vars, IpFrames
  <2> QED BY <1>1, <2>2, <2>3 DEF AnsInv
<1>3. ASSUME NEW f \in Frames, PollArp(f) \/ PollOther(f)
      PROVE  AnsInv' /\ Answers!Next
  <2>1. f \in inbox
    BY <1>3 DEF PollArp, PollOther, Arrives
  <2>2. /\ Looping'
        /\ Answers!Receive(f) \/ \E a \in Held(arp_buf, now) : Answers!Release(f, a)
    BY <1>3, AnsweringSteps, ListeningSteps
  <2>3. Answers!Next
    BY <2>1, <2>2, Zenon DEF Answers!Next, Held
  <2> QED BY <1>1, <2>2, <2>3 DEF AnsInv
<1>4. CASE \/ PollNothing
           \/ \E d \in Datagrams, ip \in Peers : Send(d, ip)
           \/ NextFragment \/ LastFragment \/ STick
  <2>1. Looping' /\ Answers!Other
    BY <1>4, OtherSteps
  <2> QED BY <1>1, <2>1 DEF AnsInv, Answers!Next
<1> QED BY <1>2, <1>3, <1>4 DEF SNext

LEMMA AnswersInit == SInit => Answers!Init
<1> SUFFICES ASSUME SInit PROVE Answers!Init
  OBVIOUS
<1>1. /\ arp_buf = map_init(HoldFits, 0, ARP_MIN_INTERVAL,
                        [key |-> Nothing, value |-> ZeroBuf(Nothing), time |-> 0])
      /\ out = {ArpFrame("request", MY_IP, BROADCAST)} /\ inbox = Frames
  BY DEF SInit, IInit, Init, arp_init, BlankBuf
<1>2. Valid(arp_buf, now) = {}
  BY <1>1 DEF Valid, map_entry_valid, map_init, Positions
<1>3. Held(arp_buf, now) = {}
  BY <1>2, HeldAre
<1>4. Gone(out) = {}
  BY <1>1, GoneAre, Zenon
<1> QED BY <1>1, <1>3, <1>4 DEF Answers!Init, Held, Gone, IpFrames

\* Every frame is answered at most once, at once or later, with the bytes due to
\* it, and one answer at a time waits for an address, whatever passes through
\* rxbuf and txbuf meanwhile: net_poll, the layers and main.c's handler implement
\* Responder (main.c:6-30, icmp.c:11-77, udp.c:62-116, ip.c:10-87, arp.c:113-181).
THEOREM FramesAreAnsweredOnce ==
  ASSUME Orderly
  PROVE  SSpec => AnswersSpec
<1>1. SInit => CutInv /\ WireInv /\ AnsInv
  BY CutInvInit, WireInvInit, AnsInvInit
<1>2. CutInv /\ WireInv /\ AnsInv /\ [SNext]_stackVars
        => (CutInv /\ WireInv /\ AnsInv)'
  BY CutInvNext, WireInvNext, AnswersNext
<1>3. /\ CutInv /\ WireInv /\ AnsInv /\ CutInv' /\ WireInv' /\ [SNext]_stackVars
        => [Answers!Next]_(Answers!vars)
  BY AnswersNext
<1> QED BY <1>1, <1>2, <1>3, AnswersInit, PTL DEF SSpec, AnswersSpec, Answers!Spec
=============================================================================
