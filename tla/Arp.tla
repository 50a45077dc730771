-------------------------------- MODULE Arp ---------------------------------
(***************************************************************************)
(* Address resolution, net-lab-2022-master/src/arp.c, over the maps of     *)
(* map.c: the translation table and the queue that holds one packet per    *)
(* destination while its MAC address is being asked for.                   *)
(*                                                                         *)
(* The stack is single threaded: each handler runs to its end, and only    *)
(* the clock moves meanwhile.  out is what the last handler handed to the  *)
(* driver.                                                                 *)
(***************************************************************************)
EXTENDS TimedMap, Headers

CONSTANTS MY_IP, MY_MAC,       \* net_if_ip, net_if_mac
          Peers, Macs,         \* other hosts' addresses
          Senders, Asked,      \* sender and target IP addresses of the ARP
                               \* packets that arrive
          BROADCAST,
          Nothing,             \* what a zeroed field or array holds
          ARP,                 \* the bytes of an ARP packet
          Bufs,                \* packets the IP layer hands down
          TableFits, HoldFits, \* slots of arp_table and arp_buf
          ARP_TIMEOUT_SEC, ARP_MIN_INTERVAL,
          MaxTime              \* bound on the clock

IPs == Peers \cup {MY_IP}

ASSUME ArpAssumption ==
  /\ Senders \subseteq IPs
  /\ MY_IP \notin Peers /\ MY_MAC \notin Macs /\ BROADCAST \notin Macs
  /\ TableFits \in Nat \ {0} /\ HoldFits \in Nat \ {0}
  /\ ARP_TIMEOUT_SEC \in Nat \ {0} /\ ARP_MIN_INTERVAL \in Nat \ {0}
  /\ ARP_MIN_INTERVAL <= ARP_TIMEOUT_SEC
  /\ MaxTime \in Nat \ {0}
  /\ Bufs \subseteq [data : Nat, len : Nat, org : Int,
                      src : {b.src : b \in Bufs}]

VARIABLES arp_table, arp_buf, txbuf, now, out

arpVars == <<arp_table, arp_buf, txbuf, now, out>>

\* A received ARP packet that passes the header checks of arp_in.
ArpPackets == [op : {"request", "reply"}, sender_ip : Senders,
               sender_mac : Macs, target_ip : Asked]

-----------------------------------------------------------------------------
\* The buffer as ethernet_out hands it to the driver, and the frame it holds.
Framed(b) ==
  buf_add_header(IF b.len < MinPayload
                 THEN buf_add_padding(b, MinPayload - b.len) ELSE b,
                 EtherHdr)

IpFrame(b, mac) == [dst |-> mac, type |-> "ip", body |-> Shown(Framed(b))]

ArpFrame(op, target_ip, mac) ==
  [dst |-> mac, type |-> "arp",
   body |-> [op |-> op, sender_ip |-> MY_IP, target_ip |-> target_ip]]

\* arp_req and arp_resp build their packet in the global txbuf.
ArpTxbuf(tx) == Framed(Fill(buf_init(tx, ArpLen), ARP, 0))

arp_req(tx, target_ip) ==
  /\ txbuf' = ArpTxbuf(tx)
  /\ out' = {ArpFrame("request", target_ip, BROADCAST)}

arp_resp(target_ip, target_mac) ==
  /\ txbuf' = ArpTxbuf(txbuf)
  /\ out' = {ArpFrame("reply", target_ip, target_mac)}

BlankMac == [key |-> Nothing, value |-> Nothing, time |-> 0]
BlankBuf == [key |-> Nothing, value |-> ZeroBuf(Nothing), time |-> 0]

arp_init ==
  /\ arp_table = map_init(TableFits, 0, ARP_TIMEOUT_SEC, BlankMac)
  /\ arp_buf = map_init(HoldFits, 0, ARP_MIN_INTERVAL, BlankBuf)
  /\ txbuf = ArpTxbuf(ZeroBuf(Nothing))
  /\ out = {ArpFrame("request", MY_IP, BROADCAST)}

Init == arp_init /\ now = 1

-----------------------------------------------------------------------------
\* A lookup that forgets that entries expire.
MacOf_stale_bug(ip) == map_get([arp_table EXCEPT !.timeout = 0], ip, now)

\* arp_out(buf, ip), in three cases.  tx is txbuf as the caller leaves it.
MacOf(ip) == map_get(arp_table, ip, now)

\* A queue whose packets never expire.
HeldFor_stale_bug(ip) == map_get([arp_buf EXCEPT !.timeout = 0], ip, now)

HeldFor(ip) == map_get(arp_buf, ip, now)

ArpOutDirect(buf, ip, tx) ==
  /\ MacOf(ip) # NULL
  /\ out' = {IpFrame(buf, arp_table.entry[MacOf(ip)].value)}
  /\ txbuf' = tx
  /\ UNCHANGED <<arp_table, arp_buf, now>>

\* An arp_out that queues without asking whether a packet already waits.
ArpOutRequest_overwrite_bug(buf, ip, tx) ==
  /\ MacOf(ip) = NULL
  /\ arp_buf' = map_set(arp_buf, ip, buf_copy(ZeroBuf(Nothing), buf), now, now)
  /\ arp_req(tx, ip)
  /\ UNCHANGED <<arp_table, now>>

\* The result of map_set is not looked at: with arp_buf full the request goes
\* out and the packet is gone.
ArpOutRequest(buf, ip, tx) ==
  /\ MacOf(ip) = NULL /\ HeldFor(ip) = NULL
  /\ arp_buf' = map_set(arp_buf, ip, buf_copy(ZeroBuf(Nothing), buf), now, now)
  /\ arp_req(tx, ip)
  /\ UNCHANGED <<arp_table, now>>

\* A packet for ip already waits: this one is dropped.
ArpOutBusy(buf, ip, tx) ==
  /\ MacOf(ip) = NULL /\ HeldFor(ip) # NULL
  /\ out' = {}
  /\ txbuf' = tx
  /\ UNCHANGED <<arp_table, arp_buf, now>>

ArpOut(buf, ip, tx) == \/ ArpOutDirect(buf, ip, tx)
                       \/ ArpOutRequest(buf, ip, tx)
                       \/ ArpOutBusy(buf, ip, tx)

-----------------------------------------------------------------------------
\* arp_in: a packet that is too short, not about IP over Ethernet, or neither
\* a request nor a reply is ignored.
ArpInMalformed ==
  /\ out' = {}
  /\ UNCHANGED <<arp_table, arp_buf, txbuf, now>>

\* Learning that only happens when no packet was waiting.
Learn_late_bug(pkt, src_mac) ==
  arp_table' = IF HeldFor(pkt.sender_ip) # NULL THEN arp_table
               ELSE map_set(arp_table, pkt.sender_ip, src_mac, now, now)

Learn(pkt, src_mac) ==
  arp_table' = map_set(arp_table, pkt.sender_ip, src_mac, now, now)

\* ethernet_out pads and prefixes the queued buffer where it lies.
FrameInPlace(m, i) == [m EXCEPT !.entry[i].value = Framed(@)]

\* A flush that leaves the packet in the queue.
ArpInFlush_keep_bug(pkt, src_mac) ==
  LET i == HeldFor(pkt.sender_ip) IN
  /\ Learn(pkt, src_mac)
  /\ i # NULL
  /\ out' = {IpFrame(arp_buf.entry[i].value, pkt.sender_mac)}
  /\ now' \in now .. MaxTime
  /\ UNCHANGED <<arp_buf, txbuf>>

\* The waiting packet leaves for the MAC the ARP packet claims, not the one
\* just learnt; a request that arrives this way is not answered.  Sending may
\* take time: map_delete looks the key up again under a later clock.
ArpInFlush(pkt, src_mac) ==
  LET i == HeldFor(pkt.sender_ip) IN
  /\ Learn(pkt, src_mac)
  /\ i # NULL
  /\ out' = {IpFrame(arp_buf.entry[i].value, pkt.sender_mac)}
  /\ now' \in now .. MaxTime
  /\ arp_buf' = map_delete(FrameInPlace(arp_buf, i), pkt.sender_ip, now')
  /\ UNCHANGED txbuf

AsksForMe(pkt) == pkt.op = "request" /\ pkt.target_ip = MY_IP

ArpInAnswer(pkt, src_mac) ==
  /\ Learn(pkt, src_mac)
  /\ HeldFor(pkt.sender_ip) = NULL
  /\ AsksForMe(pkt)
  /\ arp_resp(pkt.sender_ip, pkt.sender_mac)
  /\ UNCHANGED <<arp_buf, now>>

ArpInLearn(pkt, src_mac) ==
  /\ Learn(pkt, src_mac)
  /\ HeldFor(pkt.sender_ip) = NULL
  /\ ~ AsksForMe(pkt)
  /\ out' = {}
  /\ UNCHANGED <<arp_buf, txbuf, now>>

\* arp_in(pkt) of a frame from src_mac.
ArpIn(pkt, src_mac) == \/ ArpInFlush(pkt, src_mac)
                       \/ ArpInAnswer(pkt, src_mac)
                       \/ ArpInLearn(pkt, src_mac)

Tick == /\ now < MaxTime
        /\ now' = now + 1
        /\ out' = {}
        /\ UNCHANGED <<arp_table, arp_buf, txbuf>>

Next == \/ \E buf \in Bufs, ip \in Peers : ArpOut(buf, ip, txbuf)
        \/ \E pkt \in ArpPackets, src_mac \in Macs : ArpIn(pkt, src_mac)
        \/ ArpInMalformed
        \/ Tick

Spec == Init /\ [][Next]_arpVars

-----------------------------------------------------------------------------
MapOf(capacity, timeout, keys, values) ==
  [size : 0 .. capacity, max_size : {capacity}, timeout : {timeout},
   entry : [0 .. capacity - 1 ->
              [key : keys, value : values, time : 0 .. MaxTime]]]

\* The packets arp_buf can hold: copies of what the IP layer handed down.
HeldBufs == LET copies == {buf_copy(ZeroBuf(Nothing), b) : b \in Bufs}
            IN  copies \cup {Framed(b) : b \in copies} \cup {ZeroBuf(Nothing)}

\* The tables keep their shape, and the queue only ever holds packets.
TypeOK ==
  /\ arp_table \in MapOf(TableFits, ARP_TIMEOUT_SEC,
                         IPs \cup {Nothing}, Macs \cup {Nothing})
  /\ arp_buf \in MapOf(HoldFits, ARP_MIN_INTERVAL,
                       IPs \cup {Nothing}, HeldBufs)
  /\ now \in 1 .. MaxTime
=============================================================================
