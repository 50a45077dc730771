------------------------------- MODULE Stack --------------------------------
(***************************************************************************)
(* The whole stack as main.c runs it: net_poll in a loop, with the layers  *)
(* of RxPath on rxbuf, those of IpSend and Arp on txbuf, and main's echo   *)
(* handler, which calls udp_send from within udp_in.  A poll runs to its   *)
(* end, except that the fragment loop of ip_out lets the clock move        *)
(* between two fragments; so there is no poll while an ip_out is under way.*)
(* An application may also send datagrams of its own between two polls.    *)
(***************************************************************************)
EXTENDS IpSend

CONSTANTS Ports, UdpFits, Frames, FirstData, LastData,   \* as in RxPath
          EchoPort       \* 60000

VARIABLES rxbuf, udp_table, top, open, upcall, reply,    \* as in RxPath
          inbox          \* frames that have not arrived yet; each does once

rxVars == <<rxbuf, udp_table, top, open, upcall, reply>>
sendVars == <<arpVars, ipVars>>
stackVars == <<sendVars, rxVars, inbox>>

Rx == INSTANCE RxPath WITH Addresses <- IPs \cup Macs

ASSUME StackAssumption ==
  /\ EchoPort \in Ports /\ UdpFits \in Nat \ {0}
  /\ Frames \subseteq Rx!PossibleFrames
  /\ \A f \in Frames : Rx!Source(f) \in Peers \cup Macs
  /\ ARP \notin Frames /\ Datagrams \cap Frames = {}
  /\ Nothing \notin Peers \cup Macs

\* net_init: driver_open has succeeded, each layer is initialised; then main
\* opens its port.
SInit ==
  /\ IInit
  /\ rxbuf = buf_init(ZeroBuf(Nothing), IpHdr + MaxPayload + EtherHdr)
  /\ udp_table = map_set(map_init(UdpFits, 0, 0,
                                  [key |-> Nothing, value |-> Nothing,
                                   time |-> 0]), EchoPort, Rx!Handler, 1, 1)
  /\ open = {EchoPort}
  /\ top = 0 /\ upcall = {} /\ reply = {}
  /\ inbox = Frames

-----------------------------------------------------------------------------
\* The answers, built in txbuf from what rxbuf shows.  An echo reply is a copy of
\* the request with its first bytes rewritten.
icmp_resp(r) == ip_out(Fill(buf_init(txbuf, r.len), r.frame, r.first), r.to)

icmp_unreachable(r) ==
  ip_out(buf_add_header(Fill(buf_init(txbuf, r.len), r.frame, r.first), IcmpHdr),
         r.to)

\* main.c's handler sends the data back, from a pointer into rxbuf.
handler(u) == udp_send(u.frame, u.first, u.len, u.src)

Silent == /\ out' = {}
          /\ UNCHANGED <<arp_table, arp_buf, txbuf, now, ipVars>>

Answer == \/ reply' = {} /\ upcall' = {} /\ Silent
          \/ \E r \in reply' : IF r.kind = "echo" THEN icmp_resp(r)
                               ELSE icmp_unreachable(r)
          \/ \E u \in upcall' : handler(u)

Arrives(f) == /\ f \in inbox
              /\ inbox' = inbox \ {f}
              /\ Rx!Poll(f)

\* A poll that finds an ARP frame, and one that finds any other.
PollArp(f) ==
  /\ job = Idle
  /\ f.ethertype = "arp"
  /\ Arrives(f)
  /\ IF f.arp = Nothing \/ rxbuf'.len < ArpLen THEN ArpInMalformed
     ELSE ArpIn(f.arp, f.src_mac)
  /\ UNCHANGED ipVars

PollOther(f) ==
  /\ job = Idle
  /\ f.ethertype # "arp"
  /\ Arrives(f)
  /\ Answer
  /\ UNCHANGED unsent

PollNothing == job = Idle /\ Rx!PollIdle /\ Silent /\ UNCHANGED inbox

\* The steps of IpSend, during which nothing is received.
NotReceiving == /\ upcall' = {} /\ reply' = {}
                /\ UNCHANGED <<rxbuf, udp_table, top, open, inbox>>

Send(d, ip) == SendDatagram(d, ip) /\ NotReceiving
NextFragment == IpOutFragment /\ NotReceiving
LastFragment == IpOutLast /\ NotReceiving
STick == ITick /\ NotReceiving

SNext == \/ \E f \in Frames : PollArp(f) \/ PollOther(f)
         \/ PollNothing
         \/ \E d \in Datagrams, ip \in Peers : Send(d, ip)
         \/ NextFragment
         \/ LastFragment
         \/ STick

SSpec == SInit /\ [][SNext]_stackVars

-----------------------------------------------------------------------------
\* The answer due to a frame, as RFC and main.c have it, without the way the
\* buffers go: the data of a datagram to the echo port and the payload of an echo
\* request come back, anything else undeliverable is quoted from its IP header
\* on; and the Ethernet frame that carries it, padded to the minimum.
OnWire(f, headers, first, len) ==
  {[to |-> f.src_ip,
    bytes |-> [src |-> f, first |-> first - headers - IpHdr - EtherHdr,
               len |-> EtherHdr + (IF len + headers + IpHdr < MinPayload
                                   THEN MinPayload ELSE len + headers + IpHdr)]]}

ForUs(f) == f.ethertype = "ip" /\ f.good /\ f.mine
              /\ EtherHdr + f.total_len <= f.len

Due(f) ==
  LET payload == EtherHdr + 4 * f.hdr_len
      rest == f.total_len - 4 * f.hdr_len
  IN  IF ~ ForUs(f) \/ (f.protocol = "icmp" /\ ~ f.echo)
         \/ (f.protocol = "udp" /\ ~ f.sum)
      THEN {}
      ELSE CASE f.protocol = "icmp" -> OnWire(f, 0, payload, rest)
             [] f.protocol = "udp" /\ f.port = EchoPort ->
                  OnWire(f, UdpHdr, payload + UdpHdr, rest - UdpHdr)
             [] OTHER -> OnWire(f, IcmpHdr, EtherHdr, Quote)

\* A receive window away from the end of the array, and frames as peers mean
\* them: with a protocol number in its place only (net.c:72), no header longer
\* than the packet, and no IP options in what finds no port (udp.c:80).
Orderly ==
  /\ LastData \in Nat /\ LastData + MaxFrame + 1 < BUF_MAX_LEN
  /\ \A f \in Frames :
       /\ f.ethertype \notin {"icmp", "udp"}
       /\ ForUs(f) => /\ 4 * f.hdr_len <= f.total_len
                      /\ f.protocol = "udp" /\ f.port # EchoPort
                           => f.hdr_len = 5

\* Two buffers shared by all layers, a queue that copies buffers and a clock that
\* runs meanwhile: still every frame, if all are Orderly, is answered at most once
\* and with its own bytes, however many ARP packets, other answers and datagrams
\* pass through txbuf between its arrival and the answer's departure.
Answers == INSTANCE Responder WITH
  waiting <- {[to |-> e.key, bytes |-> Shown(Framed(e.value))] :
                e \in {g \in map_foreach(arp_buf, now) :
                         g.value.src \in Frames}},
  sent <- {f.body : f \in {g \in IpFrames : g.body.src \in Frames}}

AnswersSpec == Answers!Spec
=============================================================================
