----------------------------- MODULE ArpHistory -----------------------------
(***************************************************************************)
(* Arp with the history its requirements are about: what became of each    *)
(* packet of the IP layer, when each address was last asked for, and what  *)
(* each address last claimed.  Every buffer of Bufs carries a packet of    *)
(* its own and is handed down at most once, to any destination.            *)
(***************************************************************************)
EXTENDS Arp

\* Nothing is no address, so that it can stand for "not yet handed down".
ASSUME HistoryAssumption == Nothing \notin Peers

VARIABLES dest,     \* where each packet handed down is going; Nothing before
          copies,   \* frames that carried it
          queued,   \* time it was put in arp_buf; 0 if it was not
          asked,    \* per address: time of the last request, and whether the
                    \* packet it was sent for was queued
          heard     \* per address: the MACs of the last ARP packet, and when

hist == <<dest, copies, queued, asked, heard>>
vars == <<arpVars, hist>>

Packets == {b.src : b \in Bufs}

HInit ==
  /\ Init
  /\ dest = [p \in Packets |-> Nothing]
  /\ copies = [p \in Packets |-> 0]
  /\ queued = [p \in Packets |-> 0]
  /\ asked = [ip \in IPs |-> [time |-> IF ip = MY_IP THEN 1 ELSE 0,
                              kept |-> FALSE]]
  /\ heard = [ip \in IPs |-> [macs |-> {}, time |-> 0]]

Carried(p) == {f \in out' : f.type = "ip" /\ f.body.src = p}

\* Counted from what reached the driver, not from which branch was taken.
CountCopies ==
  copies' = [p \in Packets |-> copies[p] + (IF Carried(p) = {} THEN 0 ELSE 1)]

Requests(f, ip) == /\ f.type = "arp" /\ f.body.op = "request"
                   /\ f.body.target_ip = ip

InQueue(m, p, t) == {i \in Valid(m, t) : m.entry[i].value.src = p}

HArpOut(buf, ip) ==
  /\ dest[buf.src] = Nothing
  /\ ArpOut(buf, ip, txbuf)
  /\ dest' = [dest EXCEPT ![buf.src] = ip]
  /\ CountCopies
  /\ queued' = [queued EXCEPT ![buf.src] =
                  IF InQueue(arp_buf', buf.src, now) # {} THEN now ELSE 0]
  /\ asked' = [asked EXCEPT ![ip] =
                 IF \E f \in out' : Requests(f, ip)
                 THEN [time |-> now, kept |-> queued'[buf.src] # 0] ELSE @]
  /\ UNCHANGED heard

HArpIn(pkt, src_mac) ==
  /\ ArpIn(pkt, src_mac)
  /\ CountCopies
  /\ heard' = [heard EXCEPT ![pkt.sender_ip] =
                 [macs |-> {src_mac, pkt.sender_mac}, time |-> now]]
  /\ UNCHANGED <<dest, queued, asked>>

HIdle == (ArpInMalformed \/ Tick) /\ UNCHANGED hist

HNext == \/ \E buf \in Bufs, ip \in Peers : HArpOut(buf, ip)
         \/ \E pkt \in ArpPackets, src_mac \in Macs : HArpIn(pkt, src_mac)
         \/ HIdle

HSpec == HInit /\ [][HNext]_vars

-----------------------------------------------------------------------------
\* No packet is transmitted twice, although map_delete runs after the
\* transmission and under a later clock (arp.c:140-141).
AtMostOnce == \A p \in Packets : copies[p] <= 1

\* A packet that arp_out put in the queue stays there until it is transmitted
\* or ARP_MIN_INTERVAL has passed: no later packet, reply or reuse of a slot
\* displaces it (arp.c:135-142, 177-180).
NoSilentLoss ==
  \A p \in Packets :
    queued[p] # 0 /\ copies[p] = 0 /\ now <= queued[p] + ARP_MIN_INTERVAL
      => \E i \in InQueue(arp_buf, p, now) : arp_buf.entry[i].key = dest[p]

\* A packet leaves only for an address that claimed its destination, and not
\* later than ARP_TIMEOUT_SEC after that claim; no older claim is ever used.
FreshMac ==
  [][\A f \in out' : f.type = "ip" =>
       LET ip == dest'[f.body.src]
       IN  /\ f.dst \in heard'[ip].macs
           /\ now <= heard'[ip].time + ARP_TIMEOUT_SEC]_vars

\* Two requests for one address are more than ARP_MIN_INTERVAL apart unless the
\* first one's packet found arp_buf full, or the answer found arp_table full.
\* Requests count from the time at which their packets were queued (arp.c:178).
RequestSpacing ==
  [][\A ip \in Peers :
       (\E f \in out' : Requests(f, ip)) =>
         \/ asked[ip].time = 0
         \/ now > asked[ip].time + ARP_MIN_INTERVAL
         \/ ~ asked[ip].kept
         \/ arp_table.size = arp_table.max_size]_vars

\* config.h:36 calls ARP_MIN_INTERVAL the minimal interval between requests for
\* one address.
MinIntervalKept ==
  [][\A ip \in Peers :
       (\E f \in out' : Requests(f, ip)) =>
         \/ asked[ip].time = 0
         \/ now > asked[ip].time + ARP_MIN_INTERVAL]_vars
=============================================================================
