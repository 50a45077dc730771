-------------------------------- MODULE Lan ---------------------------------
(***************************************************************************)
(* Two hosts that run arp.c on one Ethernet which loses, duplicates,       *)
(* reorders and delays frames.  Host a has traffic for host b all the      *)
(* time; b may have some for a.                                            *)
(*                                                                         *)
(* The hosts read the same clock, but only ages matter to arp.c: here the  *)
(* clock stands still, and a second that passes makes every stamp older by *)
(* one.  Stamp 1 stands for all ages at which an entry is dead.            *)
(***************************************************************************)
EXTENDS Integers, FiniteSets

CONSTANTS BUF_MAX_LEN, Nothing, ARP, BROADCAST,
          TableFits, HoldFits, ARP_TIMEOUT_SEC, ARP_MIN_INTERVAL,
          a, b,              \* the hosts, which name their IP addresses too
          mac_a, mac_b,
          BufsA, BufsB       \* what each host's IP layer hands down

MaxTime == ARP_TIMEOUT_SEC + 2

VARIABLES now,       \* always MaxTime
          tableA, holdA, txA, outA,   \* arp_table, arp_buf, txbuf, out of a
          tableB, holdB, txB, outB,   \* and of b
          wire,      \* frames in flight
          sent       \* whether a has sent a packet during this second

idleA == <<tableA, holdA, txA>>
idleB == <<tableB, holdB, txB>>
vars == <<now, idleA, outA, idleB, outB, wire, sent>>

A == INSTANCE Arp WITH
       arp_table <- tableA, arp_buf <- holdA, txbuf <- txA, out <- outA,
       MY_IP <- a, MY_MAC <- mac_a,
       Peers <- {b}, Senders <- {b}, Asked <- {a, b}, Macs <- {mac_b},
       Bufs <- BufsA

B == INSTANCE Arp WITH
       arp_table <- tableB, arp_buf <- holdB, txbuf <- txB, out <- outB,
       MY_IP <- b, MY_MAC <- mac_b,
       Peers <- {a}, Senders <- {a}, Asked <- {a, b}, Macs <- {mac_a},
       Bufs <- BufsB

\* Each host has announced itself before the other one was up.
Init == /\ A!arp_init /\ B!arp_init
        /\ now = MaxTime
        /\ wire = {} /\ sent = FALSE

-----------------------------------------------------------------------------
\* A packet of the IP layer; in every second a has at least one.
SendFromA == /\ \E buf \in BufsA : A!ArpOut(buf, b, txA)
             /\ wire' = wire \cup outA'
             /\ sent' = TRUE
             /\ outB' = {} /\ UNCHANGED idleB

\* What b sends may find a's address resolved or not; once it is in a frame of
\* its own it is of no more interest here.
SendFromB == /\ \E buf \in BufsB : B!ArpOut(buf, a, txB)
             /\ wire' = wire \cup {f \in outB' : f.type = "arp"}
             /\ outA' = {} /\ UNCHANGED <<idleA, sent>>

Packet(f, mac) == [op |-> f.body.op, sender_ip |-> f.body.sender_ip,
                   sender_mac |-> mac, target_ip |-> f.body.target_ip]

ArpFrames(from) ==
  {f \in wire : f.type = "arp" /\ f.body.sender_ip = from}

\* The medium delivers f, and may keep it to deliver it once more.
DeliverToA(f) ==
  /\ A!ArpIn(Packet(f, mac_b), mac_b)
  /\ wire' \in {wire \cup outA', (wire \ {f}) \cup outA'}
  /\ outB' = {} /\ UNCHANGED <<idleB, sent>>

DeliverToB(f) ==
  /\ B!ArpIn(Packet(f, mac_a), mac_a)
  /\ LET answers == {g \in outB' : g.type = "arp"}
     IN  wire' \in {wire \cup answers, (wire \ {f}) \cup answers}
  /\ outA' = {} /\ UNCHANGED <<idleA, sent>>

Quiet == outA' = {} /\ outB' = {} /\ now' = now

\* A packet of a reaches b's ip_in.
Arrives == \E f \in wire : /\ f.type = "ip"
                           /\ wire' = wire \ {f}
                           /\ Quiet /\ UNCHANGED <<idleA, idleB, sent>>

Lose(f) == /\ wire' = wire \ {f}
           /\ Quiet /\ UNCHANGED <<idleA, idleB, sent>>

\* A second passes for both hosts.
Older(m) ==
  [m EXCEPT !.entry = [i \in DOMAIN @ |->
     [@[i] EXCEPT !.time = IF @ > 1 THEN @ - 1 ELSE @]]]

Second == /\ sent
          /\ sent' = FALSE
          /\ tableA' = Older(tableA) /\ holdA' = Older(holdA)
          /\ tableB' = Older(tableB) /\ holdB' = Older(holdB)
          /\ Quiet /\ UNCHANGED <<txA, txB, wire>>

Next == \/ SendFromA \/ SendFromB
        \/ \E f \in ArpFrames(b) : DeliverToA(f)
        \/ \E f \in ArpFrames(a) : DeliverToB(f)
        \/ Arrives
        \/ \E f \in wire : Lose(f)
        \/ Second

\* Both main loops poll for ever and time passes.  The medium may lose any
\* frame, but not every frame of a kind that is sent again and again.
FairMedium ==
  /\ SF_vars(Arrives)
  /\ \A op \in {"request", "reply"} :
       /\ SF_vars(\E f \in ArpFrames(b) : f.body.op = op /\ DeliverToA(f))
       /\ SF_vars(\E f \in ArpFrames(a) : f.body.op = op /\ DeliverToB(f))

Spec == /\ Init /\ [][Next]_vars
        /\ WF_vars(SendFromA) /\ WF_vars(Second)
        /\ FairMedium

-----------------------------------------------------------------------------
\* While a keeps sending, packets of a keep arriving at b.  That a request is
\* not answered by a host which has a packet waiting for the asker (arp.c:142),
\* that replies come too late for the waiting packet, and that later packets are
\* dropped meanwhile must not stop this; only a table that has used up its
\* budget of insertions on entries that have expired may.
GetsThrough ==
  []<><<Arrives>>_vars
  \/ <>(tableA.size = tableA.max_size /\ A!Valid(tableA, now) = {})
=============================================================================
