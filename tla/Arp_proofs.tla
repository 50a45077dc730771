----------------------------- MODULE Arp_proofs -----------------------------
(***************************************************************************)
(* Proofs about arp.c, for any peers and addresses, tables of any size,    *)
(* any timeout and interval (the interval being no longer), any number of  *)
(* packets and every bound on the clock.                                   *)
(***************************************************************************)
EXTENDS ArpHistory, TimedMap_proofs

Table == TimedMaps(TableFits, {ARP_TIMEOUT_SEC}, IPs \cup {Nothing},
                   Macs \cup {Nothing}, MaxTime)
Hold == TimedMaps(HoldFits, {ARP_MIN_INTERVAL}, IPs \cup {Nothing}, HeldBufs,
                  MaxTime)

\* The packets as map_set copies them into the queue.
Copies == {buf_copy(ZeroBuf(Nothing), b) : b \in Bufs}

\* The two maps as the lemmas of TimedMap_proofs have them.
LEMMA Shapes ==
  /\ Bounds(TableFits, {ARP_TIMEOUT_SEC}, MaxTime)
  /\ Bounds(HoldFits, {ARP_MIN_INTERVAL}, MaxTime)
  /\ MapOf(TableFits, ARP_TIMEOUT_SEC, IPs \cup {Nothing}, Macs \cup {Nothing})
       = Table
  /\ MapOf(HoldFits, ARP_MIN_INTERVAL, IPs \cup {Nothing}, HeldBufs) = Hold
  /\ Copies \subseteq HeldBufs /\ ZeroBuf(Nothing) \in HeldBufs
  /\ \A b \in Copies : Framed(b) \in HeldBufs
<1>1. /\ Bounds(TableFits, {ARP_TIMEOUT_SEC}, MaxTime)
      /\ Bounds(HoldFits, {ARP_MIN_INTERVAL}, MaxTime)
  BY ArpAssumption DEF Bounds
<1>2. /\ MapOf(TableFits, ARP_TIMEOUT_SEC, IPs \cup {Nothing},
               Macs \cup {Nothing}) = Table
      /\ MapOf(HoldFits, ARP_MIN_INTERVAL, IPs \cup {Nothing}, HeldBufs) = Hold
  BY DEF MapOf, Table, Hold, TimedMaps, Slots
<1>3. /\ Copies \subseteq HeldBufs /\ ZeroBuf(Nothing) \in HeldBufs
      /\ \A b \in Copies : Framed(b) \in HeldBufs
  BY DEF HeldBufs, Copies
<1> QED BY <1>1, <1>2, <1>3

\* Copying, padding and prefixing a packet leaves it the same packet.
LEMMA CopyKeepsPacket ==
  ASSUME NEW b
  PROVE  buf_copy(ZeroBuf(Nothing), b).src = b.src
BY DEF buf_copy, buf_init, ZeroBuf

LEMMA FramedKeepsPacket ==
  ASSUME NEW b, "src" \in DOMAIN b
  PROVE  Framed(b).src = b.src
BY DEF Framed, buf_add_header, buf_add_padding

-----------------------------------------------------------------------------
\* The invariant of the two maps.  A live slot of the queue holds a packet that
\* has not been framed: one that was, but that map_delete then found expired, is
\* dead and stays so.
ArpInv ==
  /\ now \in 1 .. MaxTime
  /\ arp_table \in Table /\ CounterOK(arp_table) /\ UniqueAt(arp_table, now)
  /\ arp_buf \in Hold /\ CounterOK(arp_buf) /\ UniqueAt(arp_buf, now)
  /\ \A i \in Valid(arp_buf, now) : arp_buf.entry[i].value \in Copies

LEMMA ClockIsNat == ArpInv => now \in Nat /\ MaxTime \in Nat
BY ArpAssumption DEF ArpInv

LEMMA ArpInvInit ==
  Init => /\ ArpInv
          /\ Valid(arp_table, now) = {} /\ Valid(arp_buf, now) = {}
<1> SUFFICES ASSUME Init
             PROVE  /\ ArpInv
                    /\ Valid(arp_table, now) = {} /\ Valid(arp_buf, now) = {}
  OBVIOUS
<1>1. /\ TableFits \in Nat \ {0} /\ HoldFits \in Nat \ {0} /\ 0 \in Nat
      /\ MaxTime \in Nat \ {0} /\ ZeroBuf(Nothing) \in HeldBufs
  BY ArpAssumption, Shapes
<1>2. /\ arp_table = map_init(TableFits, 0, ARP_TIMEOUT_SEC,
                        [key |-> Nothing, value |-> Nothing, time |-> 0])
      /\ arp_buf = map_init(HoldFits, 0, ARP_MIN_INTERVAL,
                        [key |-> Nothing, value |-> ZeroBuf(Nothing), time |-> 0])
      /\ now = 1
  BY DEF Init, arp_init, BlankMac, BlankBuf
<1>3. arp_table \in Table
  BY <1>1, <1>2, Shapes, InitialShape DEF Table
<1>4. arp_buf \in Hold
  BY <1>1, <1>2, Shapes, InitialShape DEF Hold
<1>5. /\ CounterOK(arp_table) /\ Valid(arp_table, now) = {}
      /\ CounterOK(arp_buf) /\ Valid(arp_buf, now) = {}
  BY <1>1, <1>2, CounterInitially
<1> QED BY <1>1, <1>2, <1>3, <1>4, <1>5 DEF ArpInv, UniqueAt

-----------------------------------------------------------------------------
\* What the operations mean for the live entries.  A packet is put in the queue,
\* in a slot of its own, or there is no room for it.
Enqueued(buf, ip) ==
  \/ arp_buf' = arp_buf
  \/ \E i \in Positions(arp_buf) \ Valid(arp_buf, now) :
       /\ Stores(arp_buf, arp_buf', i, ip, buf_copy(ZeroBuf(Nothing), buf), now)
       /\ Valid(arp_buf', now) = Valid(arp_buf, now) \cup {i}

LEMMA RequestEnqueues ==
  ASSUME ArpInv, NEW buf \in Bufs, NEW ip \in Peers, NEW tx,
         ArpOutRequest(buf, ip, tx)
  PROVE  /\ arp_buf' \in Hold /\ CounterOK(arp_buf') /\ UniqueAt(arp_buf', now)
         /\ Enqueued(buf, ip)
         /\ Matches(arp_buf, ip, now) = {} /\ Matches(arp_table, ip, now) = {}
<1> DEFINE copy == buf_copy(ZeroBuf(Nothing), buf)
<1>1. /\ arp_buf \in Hold /\ arp_table \in Table
      /\ CounterOK(arp_buf) /\ UniqueAt(arp_buf, now)
      /\ now \in 1 .. MaxTime /\ now \in Nat /\ now <= now
  BY ClockIsNat DEF ArpInv
<1>2. ip \in IPs \cup {Nothing} /\ copy \in HeldBufs
  BY Shapes DEF IPs, Copies
<1>3. arp_buf' = map_set(arp_buf, ip, copy, now, now)
  BY DEF ArpOutRequest
<1>4. Matches(arp_buf, ip, now) = {} /\ Matches(arp_table, ip, now) = {}
  <2>1. /\ map_get(arp_buf, ip, now) = NULL
        /\ map_get(arp_table, ip, now) = NULL
    BY DEF ArpOutRequest, HeldFor, MacOf
  <2> QED BY <1>1, <2>1, Shapes, GetFindsAMatch DEF Hold, Table
<1> HIDE DEF copy
<1>5. arp_buf' \in Hold /\ CounterOK(arp_buf') /\ UniqueAt(arp_buf', now)
  BY <1>1, <1>2, <1>3, Shapes, CounterAfterSet, UniqueAfterSet DEF Hold
<1>6. \/ arp_buf' = arp_buf
      \/ \E i \in Positions(arp_buf) :
           /\ Stores(arp_buf, arp_buf', i, ip, copy, now)
           /\ Valid(arp_buf', now) = Valid(arp_buf, now) \cup {i}
           /\ \/ Refreshes(arp_buf, arp_buf', i, ip, copy, now, now)
              \/ Inserts(arp_buf, arp_buf', i, ip, copy, now, now)
  BY <1>1, <1>2, <1>3, Shapes, SetEffect DEF Hold
<1>7. Enqueued(buf, ip)
  BY <1>4, <1>6 DEF Enqueued, Refreshes, Inserts, Invalid, copy
<1> QED BY <1>4, <1>5, <1>7

\* An address is learnt, in place of an older claim or in a free slot, or the
\* table is full.
Learnt(ip, mac) ==
  \/ /\ arp_table' = arp_table
     /\ Matches(arp_table, ip, now) = {}
     /\ arp_table.size = arp_table.max_size
  \/ \E i \in Positions(arp_table) :
       /\ Stores(arp_table, arp_table', i, ip, mac, now)
       /\ Valid(arp_table', now) = Valid(arp_table, now) \cup {i}
       /\ \A j \in Valid(arp_table, now) :
            arp_table.entry[j].key = ip <=> j = i
       /\ arp_table.size = arp_table.max_size
            => arp_table'.size = arp_table.size

LEMMA LearnLearns ==
  ASSUME ArpInv, NEW pkt \in ArpPackets, NEW mac \in Macs, Learn(pkt, mac)
  PROVE  /\ arp_table' \in Table /\ CounterOK(arp_table')
         /\ UniqueAt(arp_table', now)
         /\ Learnt(pkt.sender_ip, mac)
<1> DEFINE ip == pkt.sender_ip
<1>1. /\ arp_table \in Table /\ CounterOK(arp_table) /\ UniqueAt(arp_table, now)
      /\ now \in 1 .. MaxTime /\ now \in Nat /\ now <= now
  BY ClockIsNat DEF ArpInv
<1>2. ip \in IPs \cup {Nothing} /\ mac \in Macs \cup {Nothing}
  BY ArpAssumption DEF ArpPackets
<1>3. arp_table' = map_set(arp_table, ip, mac, now, now)
  BY DEF Learn
<1> HIDE DEF ip
<1>4. arp_table' \in Table /\ CounterOK(arp_table') /\ UniqueAt(arp_table', now)
  BY <1>1, <1>2, <1>3, Shapes, CounterAfterSet, UniqueAfterSet DEF Table
<1>5. ASSUME arp_table' = arp_table,
             Matches(arp_table, ip, now) = {},
             \/ arp_table.size = arp_table.max_size
             \/ Invalid(arp_table, now) = {}
      PROVE  Learnt(ip, mac)
  <2>1. arp_table.size = arp_table.max_size
    BY <1>1, <1>5, Shapes, RoomBelowMaxSize DEF Table
  <2> QED BY <1>5, <2>1 DEF Learnt
<1>6. ASSUME NEW i \in Positions(arp_table),
             Stores(arp_table, arp_table', i, ip, mac, now),
             Valid(arp_table', now) = Valid(arp_table, now) \cup {i},
             \/ Refreshes(arp_table, arp_table', i, ip, mac, now, now)
             \/ Inserts(arp_table, arp_table', i, ip, mac, now, now)
      PROVE  Learnt(ip, mac)
  <2>1. \A j \in Valid(arp_table, now) : arp_table.entry[j].key = ip <=> j = i
    BY <1>1, <1>6 DEF Refreshes, Inserts, Matches, Invalid, UniqueAt
  <2>2. arp_table.size = arp_table.max_size => arp_table'.size = arp_table.size
    BY <1>6 DEF Refreshes, Inserts
  <2> QED BY <1>6, <2>1, <2>2 DEF Learnt
<1>7. \/ /\ arp_table' = arp_table
         /\ Matches(arp_table, ip, now) = {}
         /\ \/ arp_table.size = arp_table.max_size
            \/ Invalid(arp_table, now) = {}
      \/ \E i \in Positions(arp_table) :
           /\ Stores(arp_table, arp_table', i, ip, mac, now)
           /\ Valid(arp_table', now) = Valid(arp_table, now) \cup {i}
           /\ \/ Refreshes(arp_table, arp_table', i, ip, mac, now, now)
              \/ Inserts(arp_table, arp_table', i, ip, mac, now, now)
  BY <1>1, <1>2, <1>3, Shapes, SetEffect DEF Table
<1>8. Learnt(ip, mac)
  BY <1>5, <1>6, <1>7
<1> QED BY <1>4, <1>8 DEF ip

-----------------------------------------------------------------------------
\* Taking the waiting packet out, under a later clock: its slot is no longer
\* live, deleted or by then expired, and nothing else changes.
LEMMA FlushEffect ==
  ASSUME ArpInv, NEW pkt \in ArpPackets, NEW mac \in Macs,
         ArpInFlush(pkt, mac)
  PROVE  \E i \in Matches(arp_buf, pkt.sender_ip, now) :
           /\ out' = {IpFrame(arp_buf.entry[i].value, pkt.sender_mac)}
           /\ arp_buf' \in Hold /\ CounterOK(arp_buf')
           /\ UniqueAt(arp_buf', now')
           /\ Valid(arp_buf', now') = Valid(arp_buf, now') \ {i}
           /\ \A j \in Positions(arp_buf) \ {i} :
                arp_buf'.entry[j] = arp_buf.entry[j]
<1> DEFINE key == pkt.sender_ip
           i == map_get(arp_buf, key, now)
           framed == Framed(arp_buf.entry[i].value)
<1>1. /\ arp_buf \in Hold /\ CounterOK(arp_buf) /\ UniqueAt(arp_buf, now)
      /\ \A j \in Valid(arp_buf, now) : arp_buf.entry[j].value \in Copies
      /\ Bounds(HoldFits, {ARP_MIN_INTERVAL}, MaxTime)
  BY Shapes DEF ArpInv
<1>2. now \in Nat /\ now' \in Nat /\ now <= now'
  BY ClockIsNat DEF ArpInFlush
<1>3. i # NULL /\ out' = {IpFrame(arp_buf.entry[i].value, pkt.sender_mac)}
  BY DEF ArpInFlush, HeldFor
<1>4. arp_buf' = map_delete(Rewrite(arp_buf, i, framed), key, now')
  BY DEF ArpInFlush, HeldFor, FrameInPlace, Rewrite
<1> HIDE DEF framed
<1>5. i \in Matches(arp_buf, key, now)
  BY <1>1, <1>3, GetFindsAMatch DEF Hold
<1> HIDE DEF i
<1>6. framed \in HeldBufs
  <2>1. i \in Valid(arp_buf, now)
    BY <1>5 DEF Matches
  <2> QED BY <1>1, <2>1, Shapes DEF framed
<1>7. /\ arp_buf' \in Hold /\ CounterOK(arp_buf')
      /\ UniqueAt(arp_buf', now')
      /\ Valid(arp_buf', now') = Valid(arp_buf, now') \ {i}
      /\ \A j \in Positions(arp_buf) \ {i} :
           arp_buf'.entry[j] = arp_buf.entry[j]
  BY <1>1, <1>2, <1>4, <1>5, <1>6, TakeOut DEF Hold
<1> QED BY <1>3, <1>5, <1>7

-----------------------------------------------------------------------------
LEMMA ArpInvNext == ArpInv /\ [Next]_arpVars => ArpInv'
<1> SUFFICES ASSUME ArpInv, [Next]_arpVars
             PROVE  ArpInv'
  OBVIOUS
<1> USE DEF ArpInv
<1>0. now \in Nat /\ now <= now /\ 1 <= now
  BY ClockIsNat
<1>1. CASE UNCHANGED <<arp_table, arp_buf, now>>
  BY <1>1 DEF Valid, map_entry_valid, Positions, UniqueAt, CounterOK, Occupied
<1>2. ASSUME NEW buf \in Bufs, NEW ip \in Peers,
             ArpOutRequest(buf, ip, txbuf)
      PROVE  ArpInv'
  <2>1. /\ arp_buf' \in Hold /\ CounterOK(arp_buf') /\ UniqueAt(arp_buf', now)
        /\ Enqueued(buf, ip)
    BY <1>2, RequestEnqueues
  <2>2. UNCHANGED <<arp_table, now>>
    BY <1>2 DEF ArpOutRequest
  <2>3. \A i \in Valid(arp_buf', now) : arp_buf'.entry[i].value \in Copies
    BY <2>1 DEF Enqueued, Stores, Copies, Valid
  <2> QED BY <2>1, <2>2, <2>3
<1>3. ASSUME NEW pkt \in ArpPackets, NEW mac \in Macs, ArpIn(pkt, mac)
      PROVE  ArpInv'
  <2>1. Learn(pkt, mac)
    BY <1>3 DEF ArpIn, ArpInFlush, ArpInAnswer, ArpInLearn
  <2>2. /\ arp_table' \in Table /\ CounterOK(arp_table')
        /\ UniqueAt(arp_table', now)
    BY <2>1, LearnLearns
  <2>3. CASE ArpInFlush(pkt, mac)
    <3>1. now' \in now .. MaxTime /\ now' \in Nat /\ now <= now'
      BY <1>0, <2>3 DEF ArpInFlush
    <3>2. UniqueAt(arp_table', now')
      BY <1>0, <2>2, <3>1, Shapes, UniqueLater DEF Table
    <3>3. PICK i \in Matches(arp_buf, pkt.sender_ip, now) :
            /\ arp_buf' \in Hold /\ CounterOK(arp_buf')
            /\ UniqueAt(arp_buf', now')
            /\ Valid(arp_buf', now') = Valid(arp_buf, now') \ {i}
            /\ \A j \in Positions(arp_buf) \ {i} :
                 arp_buf'.entry[j] = arp_buf.entry[j]
      BY <2>3, FlushEffect
    <3>4. Valid(arp_buf, now') \subseteq Valid(arp_buf, now)
      BY <1>0, <3>1, Shapes, ExpiryIsMonotone DEF Hold
    <3>5. \A j \in Valid(arp_buf', now') : arp_buf'.entry[j].value \in Copies
      BY <3>3, <3>4 DEF Valid
    <3> QED BY <1>0, <2>2, <3>1, <3>2, <3>3, <3>5
  <2>4. CASE UNCHANGED <<arp_buf, now>>
    BY <2>2, <2>4
       DEF Valid, map_entry_valid, Positions, UniqueAt, CounterOK, Occupied
  <2> QED BY <1>3, <2>3, <2>4 DEF ArpIn, ArpInAnswer, ArpInLearn
<1>4. CASE Tick
  <2>1. /\ now' \in 1 .. MaxTime /\ now' \in Nat /\ now <= now'
        /\ UNCHANGED <<arp_table, arp_buf>>
    BY <1>0, <1>4, ClockIsNat DEF Tick
  <2>2. /\ Valid(arp_buf, now') \subseteq Valid(arp_buf, now)
        /\ UniqueAt(arp_buf, now')
    BY <1>0, <2>1, Shapes, ExpiryIsMonotone, UniqueLater DEF Hold
  <2>3. UniqueAt(arp_table, now')
    BY <1>0, <2>1, Shapes, UniqueLater DEF Table
  <2>4. \A i \in Valid(arp_buf, now') : arp_buf.entry[i].value \in Copies
    BY <2>2
  <2>5. arp_table' = arp_table /\ arp_buf' = arp_buf
    BY <2>1
  <2> QED BY <2>1, <2>2, <2>3, <2>4, <2>5
<1>5. ASSUME NEW buf \in Bufs, NEW ip \in Peers, ArpOut(buf, ip, txbuf)
      PROVE  ArpInv'
  BY <1>1, <1>2, <1>5 DEF ArpOut, ArpOutDirect, ArpOutBusy
<1>6. CASE ArpInMalformed \/ UNCHANGED arpVars
  BY <1>1, <1>6 DEF ArpInMalformed, arpVars
<1> QED BY <1>3, <1>4, <1>5, <1>6 DEF Next

\* Both maps keep their shape through the calls of arp_out and arp_in
\* (arp.c:131-143, 163-179): the sizes stay between 0 and the capacity, and
\* each slot of arp_buf holds nothing or a copy of a packet that may be handed
\* down, as it was or framed.
THEOREM TypeCorrect == Spec => []TypeOK
<1>1. ArpInv => TypeOK
  BY Shapes DEF ArpInv, TypeOK
<1>2. Init => ArpInv
  BY ArpInvInit
<1> QED BY <1>1, <1>2, ArpInvNext, PTL DEF Spec

-----------------------------------------------------------------------------
\* What the requirements of ArpHistory rest on.  The packets waiting in arp_buf
\* are ones that were handed down for the slot's key and have not left, each in
\* one slot.
Waiting ==
  /\ \A i \in Valid(arp_buf, now) :
       LET e == arp_buf.entry[i]
           p == e.value.src
       IN  p \in Packets /\ e.key \in Peers /\ dest[p] = e.key /\ copies[p] = 0
  /\ \A i, j \in Valid(arp_buf, now) :
       arp_buf.entry[i].value.src = arp_buf.entry[j].value.src => i = j

\* A packet that was put in the queue is there until it leaves or expires.
Kept ==
  \A p \in Packets :
    queued[p] # 0 /\ copies[p] = 0 /\ now <= queued[p] + ARP_MIN_INTERVAL
      => \E i \in InQueue(arp_buf, p, now) :
           /\ arp_buf.entry[i].key = dest[p]
           /\ arp_buf.entry[i].time = queued[p]

\* The live entries of arp_table are what their address claimed last.
Claimed ==
  \A i \in Valid(arp_table, now) :
    LET e == arp_table.entry[i]
    IN  e.key \in IPs /\ e.value \in heard[e.key].macs
          /\ e.time = heard[e.key].time

\* An address that was asked for a moment ago has its packet waiting, has
\* answered, or could not be learnt.
Pending ==
  \A ip \in Peers :
    asked[ip].time # 0 /\ asked[ip].kept
        /\ now <= asked[ip].time + ARP_MIN_INTERVAL
      => \/ \E i \in Matches(arp_buf, ip, now) :
              arp_buf.entry[i].time = asked[ip].time
         \/ \E i \in Matches(arp_table, ip, now) :
              arp_table.entry[i].time >= asked[ip].time
         \/ arp_table.size = arp_table.max_size

HistoryOK ==
  /\ dest \in [Packets -> Peers \cup {Nothing}]
  /\ copies \in [Packets -> {0, 1}]
  /\ queued \in [Packets -> 0 .. MaxTime]
  /\ asked \in [IPs -> [time : 0 .. MaxTime, kept : BOOLEAN]]
  /\ heard \in [IPs -> [macs : SUBSET Macs, time : 0 .. MaxTime]]
  /\ \A ip \in IPs : asked[ip].time <= now
  /\ \A p \in Packets : dest[p] = Nothing => copies[p] = 0

HInv == ArpInv /\ HistoryOK /\ Waiting /\ Kept /\ Claimed /\ Pending

-----------------------------------------------------------------------------
\* What the frames of a step carry.
LEMMA FrameOfPacket ==
  ASSUME NEW b, "src" \in DOMAIN b, NEW mac
  PROVE  /\ IpFrame(b, mac).type = "ip" /\ IpFrame(b, mac).dst = mac
         /\ IpFrame(b, mac).body.src = b.src
BY FramedKeepsPacket DEF IpFrame, Shown

LEMMA OneCarried ==
  ASSUME NEW b, "src" \in DOMAIN b, NEW mac, out' = {IpFrame(b, mac)}
  PROVE  /\ \A p : Carried(p) # {} <=> p = b.src
         /\ \A f \in out' : f.type = "ip" /\ f.dst = mac /\ f.body.src = b.src
BY FrameOfPacket DEF Carried

LEMMA NoneCarried ==
  ASSUME \A f \in out' : f.type # "ip"
  PROVE  \A p : Carried(p) = {}
BY DEF Carried

LEMMA PacketsHaveSources ==
  /\ \A b \in Bufs : "src" \in DOMAIN b /\ b.src \in Packets
  /\ \A b \in Copies : "src" \in DOMAIN b
<1>1. \A b \in Bufs : b \in [data : Nat, len : Nat, org : Int,
                             src : {c.src : c \in Bufs}]
  BY ArpAssumption
<1>2. \A b \in Bufs : "src" \in DOMAIN b /\ b.src \in Packets
  BY <1>1 DEF Packets
<1>3. ASSUME NEW b \in Bufs
      PROVE  "src" \in DOMAIN buf_copy(ZeroBuf(Nothing), b)
  BY DEF buf_copy, buf_init, ZeroBuf
<1> QED BY <1>2, <1>3 DEF Copies

\* An entry outlives a clock that has not passed its timeout.
LEMMA StillValid ==
  ASSUME NEW m, NEW s, NEW t, NEW i \in Valid(m, s),
         m.entry[i].time + m.timeout >= t
  PROVE  i \in Valid(m, t)
BY DEF Valid, map_entry_valid

LEMMA HInvInit == HInit => HInv
<1> SUFFICES ASSUME HInit PROVE HInv
  OBVIOUS
<1>1. /\ ArpInv /\ Valid(arp_table, now) = {} /\ Valid(arp_buf, now) = {}
      /\ now = 1 /\ MaxTime \in Nat \ {0}
  BY ArpInvInit, ArpAssumption DEF HInit, Init
<1>2. HistoryOK
  BY <1>1 DEF HInit, HistoryOK
<1>3. Waiting /\ Claimed
  BY <1>1 DEF Waiting, Claimed
<1>4. Kept /\ Pending
  BY DEF HInit, Kept, Pending, IPs
<1> QED BY <1>1, <1>2, <1>3, <1>4 DEF HInv

-----------------------------------------------------------------------------
\* A packet handed down was unknown before: it is not waiting, nothing carried
\* it, and only it gets a destination.
LEMMA NotYetHandedDown ==
  ASSUME HInv, NEW buf \in Bufs, NEW ip \in Peers, HArpOut(buf, ip)
  PROVE  /\ buf.src \in Packets /\ ip \in IPs
         /\ dest[buf.src] = Nothing /\ copies[buf.src] = 0
         /\ \A i \in Valid(arp_buf, now) :
              arp_buf.entry[i].value.src # buf.src
         /\ now' = now /\ arp_table' = arp_table /\ heard' = heard
         /\ dest' = [dest EXCEPT ![buf.src] = ip]
<1>1. buf.src \in Packets /\ ip \in IPs
  BY PacketsHaveSources DEF IPs
<1>2. dest[buf.src] = Nothing /\ copies[buf.src] = 0
  BY <1>1 DEF HInv, HArpOut, HistoryOK
<1>3. \A i \in Valid(arp_buf, now) : arp_buf.entry[i].value.src # buf.src
  BY <1>2, HistoryAssumption DEF HInv, Waiting
<1>4. now' = now /\ arp_table' = arp_table /\ heard' = heard
  BY DEF HArpOut, ArpOut, ArpOutDirect, ArpOutRequest, ArpOutBusy
<1>5. dest' = [dest EXCEPT ![buf.src] = ip]
  BY DEF HArpOut
<1> QED BY <1>1, <1>2, <1>3, <1>4, <1>5

\* When arp_out asks for no address, the queue is as it was.
LEMMA SendingKeepsHistory ==
  ASSUME HInv, NEW buf \in Bufs, NEW ip \in Peers, HArpOut(buf, ip),
         ArpOutDirect(buf, ip, txbuf) \/ ArpOutBusy(buf, ip, txbuf)
  PROVE  /\ \A p \in Packets \ {buf.src} : copies'[p] = copies[p]
         /\ copies' \in [Packets -> {0, 1}]
         /\ \A f \in out' : f.type = "ip"
         /\ queued' = [queued EXCEPT ![buf.src] = 0]
         /\ asked' = asked /\ arp_buf' = arp_buf
<1>1. /\ copies \in [Packets -> {0, 1}]
      /\ asked \in [IPs -> [time : 0 .. MaxTime, kept : BOOLEAN]]
      /\ copies' = [p \in Packets |->
                      copies[p] + (IF Carried(p) = {} THEN 0 ELSE 1)]
  BY DEF HInv, HistoryOK, HArpOut, CountCopies
<1>2. /\ \A p \in Packets \ {buf.src} : Carried(p) = {}
      /\ \A f \in out' : f.type = "ip"
  <2>1. CASE ArpOutDirect(buf, ip, txbuf)
    <3>1. "src" \in DOMAIN buf
      BY PacketsHaveSources
    <3>2. out' = {IpFrame(buf, arp_table.entry[MacOf(ip)].value)}
      BY <2>1 DEF ArpOutDirect
    <3> QED BY <3>1, <3>2, OneCarried
  <2>2. CASE ArpOutBusy(buf, ip, txbuf)
    BY <2>2, NoneCarried DEF ArpOutBusy
  <2> QED BY <2>1, <2>2
<1>3. buf.src \in Packets /\ copies[buf.src] = 0
  BY NotYetHandedDown
<1>4. /\ \A p \in Packets \ {buf.src} : copies'[p] = copies[p]
      /\ copies' \in [Packets -> {0, 1}]
  BY <1>1, <1>2, <1>3
<1>5. arp_buf' = arp_buf
  BY DEF ArpOutDirect, ArpOutBusy
<1>6. queued' = [queued EXCEPT ![buf.src] = 0]
  <2>1. InQueue(arp_buf', buf.src, now) = {}
    BY <1>5, NotYetHandedDown DEF InQueue
  <2> QED BY <2>1 DEF HArpOut
<1>7. asked' = asked
  <2>1. ~ \E f \in out' : Requests(f, ip)
    BY <1>2 DEF Requests
  <2> QED BY <1>1, <2>1 DEF HArpOut
<1> QED BY <1>2, <1>4, <1>5, <1>6, <1>7

LEMMA SendingKeepsHInv ==
  ASSUME HInv, NEW buf \in Bufs, NEW ip \in Peers, HArpOut(buf, ip),
         ArpOutDirect(buf, ip, txbuf) \/ ArpOutBusy(buf, ip, txbuf)
  PROVE  HistoryOK' /\ Waiting' /\ Kept' /\ Claimed' /\ Pending'
<1>1. /\ buf.src \in Packets /\ ip \in IPs
      /\ dest[buf.src] = Nothing /\ copies[buf.src] = 0
      /\ \A i \in Valid(arp_buf, now) : arp_buf.entry[i].value.src # buf.src
      /\ now' = now /\ arp_table' = arp_table /\ heard' = heard
      /\ dest' = [dest EXCEPT ![buf.src] = ip]
  BY NotYetHandedDown
<1>2. /\ \A p \in Packets \ {buf.src} : copies'[p] = copies[p]
      /\ copies' \in [Packets -> {0, 1}]
      /\ queued' = [queued EXCEPT ![buf.src] = 0]
      /\ asked' = asked /\ arp_buf' = arp_buf
  BY SendingKeepsHistory
<1>3. HistoryOK /\ Waiting /\ Kept /\ Claimed /\ Pending /\ MaxTime \in Nat
  BY ClockIsNat DEF HInv
<1>4. HistoryOK'
  BY <1>1, <1>2, <1>3, HistoryAssumption DEF HistoryOK
<1>5. Waiting'
  BY <1>1, <1>2, <1>3 DEF Waiting, HistoryOK
<1>6. Kept'
  BY <1>1, <1>2, <1>3 DEF Kept, HistoryOK, InQueue
<1>7. Claimed' /\ Pending'
  BY <1>1, <1>2, <1>3 DEF Claimed, Pending
<1> QED BY <1>4, <1>5, <1>6, <1>7

\* A packet that is queued is the only one in its slot, and the address it is
\* asked for has a packet waiting from then on.
LEMMA AskingKeepsHistory ==
  ASSUME HInv, NEW buf \in Bufs, NEW ip \in Peers, HArpOut(buf, ip),
         ArpOutRequest(buf, ip, txbuf)
  PROVE  /\ copies' = copies
         /\ queued' \in [Packets -> 0 .. MaxTime]
         /\ queued'[buf.src] \in {0, now}
         /\ \A p \in Packets \ {buf.src} : queued'[p] = queued[p]
         /\ asked' = [asked EXCEPT ![ip] =
                        [time |-> now, kept |-> queued'[buf.src] # 0]]
         /\ arp_buf' = arp_buf => queued'[buf.src] = 0
<1>1. /\ copies \in [Packets -> {0, 1}]
      /\ queued \in [Packets -> 0 .. MaxTime]
      /\ now \in 0 .. MaxTime
      /\ buf.src \in Packets /\ ip \in IPs
  BY NotYetHandedDown DEF HInv, HistoryOK, ArpInv
<1>2. out' = {ArpFrame("request", ip, BROADCAST)}
  BY DEF ArpOutRequest, arp_req
<1>3. copies' = copies
  <2>1. \A p : Carried(p) = {}
    BY <1>2, NoneCarried DEF ArpFrame
  <2> QED BY <1>1, <2>1 DEF HArpOut, CountCopies
<1>4. \E f \in out' : Requests(f, ip)
  BY <1>2 DEF Requests, ArpFrame
<1>5. queued' = [queued EXCEPT ![buf.src] =
                   IF InQueue(arp_buf', buf.src, now) # {} THEN now ELSE 0]
  BY DEF HArpOut
<1>6. ASSUME arp_buf' = arp_buf
      PROVE  InQueue(arp_buf', buf.src, now) = {}
  BY <1>6, NotYetHandedDown DEF InQueue
<1>7. asked' = [asked EXCEPT ![ip] =
                  [time |-> now, kept |-> queued'[buf.src] # 0]]
  BY <1>4 DEF HArpOut
<1>8. /\ queued' \in [Packets -> 0 .. MaxTime]
      /\ queued'[buf.src] \in {0, now}
      /\ \A p \in Packets \ {buf.src} : queued'[p] = queued[p]
  <2>1. \A t \in 0 .. MaxTime :
          [queued EXCEPT ![buf.src] = t] \in [Packets -> 0 .. MaxTime]
    BY <1>1
  <2>2. 0 \in 0 .. MaxTime
    BY ArpAssumption
  <2> QED BY <1>1, <1>5, <2>1, <2>2
<1>9. arp_buf' = arp_buf => queued'[buf.src] = 0
  BY <1>1, <1>5, <1>6
<1> QED BY <1>3, <1>7, <1>8, <1>9

LEMMA AskingKeepsHInv ==
  ASSUME HInv, NEW buf \in Bufs, NEW ip \in Peers, HArpOut(buf, ip),
         ArpOutRequest(buf, ip, txbuf)
  PROVE  HistoryOK' /\ Waiting' /\ Kept' /\ Claimed' /\ Pending'
<1> DEFINE p0 == buf.src
<1>1. /\ p0 \in Packets /\ ip \in IPs
      /\ dest[p0] = Nothing /\ copies[p0] = 0
      /\ \A i \in Valid(arp_buf, now) : arp_buf.entry[i].value.src # p0
      /\ now' = now /\ arp_table' = arp_table /\ heard' = heard
      /\ dest' = [dest EXCEPT ![p0] = ip]
  BY NotYetHandedDown
<1>2. /\ copies' = copies
      /\ queued' \in [Packets -> 0 .. MaxTime]
      /\ queued'[p0] \in {0, now}
      /\ \A p \in Packets \ {p0} : queued'[p] = queued[p]
      /\ asked' = [asked EXCEPT ![ip] =
                     [time |-> now, kept |-> queued'[p0] # 0]]
      /\ arp_buf' = arp_buf => queued'[p0] = 0
  BY AskingKeepsHistory
<1>3. /\ HistoryOK /\ Waiting /\ Kept /\ Claimed /\ Pending
      /\ ArpInv /\ now \in 1 .. MaxTime /\ MaxTime \in Nat
  BY ClockIsNat DEF HInv, ArpInv
<1>4. \/ arp_buf' = arp_buf
      \/ \E i \in Positions(arp_buf) \ Valid(arp_buf, now) :
           /\ Valid(arp_buf', now) = Valid(arp_buf, now) \cup {i}
           /\ arp_buf'.entry[i].key = ip
           /\ arp_buf'.entry[i].value.src = p0
           /\ arp_buf'.entry[i].time = now
           /\ \A j \in Valid(arp_buf, now) :
                arp_buf'.entry[j] = arp_buf.entry[j]
  <2>1. Enqueued(buf, ip)
    BY <1>3, RequestEnqueues
  <2>2. buf_copy(ZeroBuf(Nothing), buf).src = p0
    BY CopyKeepsPacket
  <2> HIDE DEF p0
  <2> QED BY <2>1, <2>2 DEF Enqueued, Stores, Valid
<1> HIDE DEF p0
<1>5. HistoryOK'
  BY <1>1, <1>2, <1>3, HistoryAssumption DEF HistoryOK
<1>6. Claimed'
  BY <1>1, <1>3 DEF Claimed
<1>7. CASE arp_buf' = arp_buf
  <2>1. Waiting'
    BY <1>1, <1>2, <1>3, <1>7 DEF Waiting, HistoryOK
  <2>2. Kept'
    BY <1>1, <1>2, <1>3, <1>7 DEF Kept, HistoryOK, InQueue
  <2>3. Pending'
    BY <1>1, <1>2, <1>3, <1>7 DEF Pending, HistoryOK, IPs
  <2> QED BY <1>5, <1>6, <2>1, <2>2, <2>3
<1>8. ASSUME NEW i \in Positions(arp_buf) \ Valid(arp_buf, now),
             Valid(arp_buf', now) = Valid(arp_buf, now) \cup {i},
             arp_buf'.entry[i].key = ip,
             arp_buf'.entry[i].value.src = p0,
             arp_buf'.entry[i].time = now,
             \A j \in Valid(arp_buf, now) :
               arp_buf'.entry[j] = arp_buf.entry[j]
      PROVE  Waiting' /\ Kept' /\ Pending'
  <2>1. Waiting'
    BY <1>1, <1>2, <1>3, <1>8 DEF Waiting, HistoryOK
  <2>2. Kept'
    BY <1>1, <1>2, <1>3, <1>8 DEF Kept, HistoryOK, InQueue
  <2>3. Pending'
    BY <1>1, <1>2, <1>3, <1>8 DEF Pending, HistoryOK, IPs, Matches
  <2> QED BY <2>1, <2>2, <2>3
<1> QED BY <1>4, <1>5, <1>6, <1>7, <1>8

-----------------------------------------------------------------------------
\* When an ARP packet arrives, arp_table gains its claim; every other live entry
\* of the table is as it was.
LEMMA HearingKeepsClaims ==
  ASSUME HInv, NEW pkt \in ArpPackets, NEW mac \in Macs, HArpIn(pkt, mac)
  PROVE  Claimed'
<1> DEFINE ip == pkt.sender_ip
<1>1. /\ Learn(pkt, mac) /\ now \in Nat /\ now' \in Nat /\ now <= now'
      /\ heard' = [heard EXCEPT ![ip] = [macs |-> {mac, pkt.sender_mac},
                                         time |-> now]]
      /\ heard \in [IPs -> [macs : SUBSET Macs, time : 0 .. MaxTime]]
      /\ ip \in IPs /\ ArpInv /\ Claimed
  <2>1. now \in Nat /\ MaxTime \in Nat
    BY ClockIsNat DEF HInv
  <2> QED
    BY <2>1, ArpAssumption
       DEF HInv, HistoryOK, HArpIn, ArpIn, ArpInFlush, ArpInAnswer, ArpInLearn,
           ArpPackets
<1>2. arp_table' \in Table /\ Learnt(ip, mac)
  BY <1>1, LearnLearns
<1>3. Valid(arp_table', now') \subseteq Valid(arp_table', now)
  BY <1>1, <1>2, Shapes, ExpiryIsMonotone DEF Table
<1> HIDE DEF ip
<1>4. CASE arp_table' = arp_table /\ Matches(arp_table, ip, now) = {}
  BY <1>1, <1>3, <1>4 DEF Claimed, Matches
<1>5. ASSUME NEW i \in Positions(arp_table),
             Stores(arp_table, arp_table', i, ip, mac, now),
             Valid(arp_table', now) = Valid(arp_table, now) \cup {i},
             \A j \in Valid(arp_table, now) :
               arp_table.entry[j].key = ip <=> j = i
      PROVE  Claimed'
  <2> SUFFICES ASSUME NEW j \in Valid(arp_table', now')
               PROVE  LET e == arp_table'.entry[j]
                      IN  e.key \in IPs /\ e.value \in heard'[e.key].macs
                            /\ e.time = heard'[e.key].time
    BY DEF Claimed
  <2>1. CASE j = i
    BY <1>1, <1>5, <2>1 DEF Stores
  <2>2. CASE j # i
    <3>1. /\ j \in Valid(arp_table, now)
          /\ arp_table'.entry[j] = arp_table.entry[j]
          /\ arp_table.entry[j].key # ip
      BY <1>3, <1>5, <2>2 DEF Stores, Valid
    <3> QED BY <1>1, <3>1 DEF Claimed
  <2> QED BY <2>1, <2>2
<1> QED BY <1>2, <1>4, <1>5 DEF Learnt

\* Arp_buf after an ARP packet: as it was, or the packet waiting for the sender
\* has left and its slot with it.
LEMMA HearingEffect ==
  ASSUME HInv, NEW pkt \in ArpPackets, NEW mac \in Macs, HArpIn(pkt, mac)
  PROVE  /\ now \in Nat /\ now' \in Nat /\ now <= now' /\ ArpInv
         /\ pkt.sender_ip \in IPs
         /\ Learn(pkt, mac)
         /\ dest' = dest /\ queued' = queued /\ asked' = asked
         /\ \/ /\ arp_buf' = arp_buf /\ now' = now /\ copies' = copies
               /\ \A f \in out' : f.type # "ip"
            \/ \E i \in Matches(arp_buf, pkt.sender_ip, now) :
                 LET p == arp_buf.entry[i].value.src IN
                 /\ Valid(arp_buf', now') = Valid(arp_buf, now') \ {i}
                 /\ Valid(arp_buf, now') \subseteq Valid(arp_buf, now)
                 /\ \A j \in Positions(arp_buf) \ {i} :
                      arp_buf'.entry[j] = arp_buf.entry[j]
                 /\ copies' = [copies EXCEPT ![p] = 1]
                 /\ \A f \in out' : f.dst = pkt.sender_mac /\ f.body.src = p
<1>1. /\ now \in Nat /\ MaxTime \in Nat /\ ArpInv
      /\ copies \in [Packets -> {0, 1}]
      /\ pkt.sender_ip \in IPs
  BY ClockIsNat, ArpAssumption DEF HInv, HistoryOK, ArpPackets
<1>2. /\ Learn(pkt, mac) /\ now' \in Nat /\ now <= now'
      /\ dest' = dest /\ queued' = queued /\ asked' = asked
      /\ copies' = [q \in Packets |->
                      copies[q] + (IF Carried(q) = {} THEN 0 ELSE 1)]
  BY <1>1 DEF HArpIn, ArpIn, ArpInFlush, ArpInAnswer, ArpInLearn, CountCopies
<1>3. CASE ArpInAnswer(pkt, mac) \/ ArpInLearn(pkt, mac)
  <2>1. /\ arp_buf' = arp_buf /\ now' = now
        /\ \A f \in out' : f.type # "ip"
    BY <1>3 DEF ArpInAnswer, ArpInLearn, arp_resp, ArpFrame
  <2>2. \A p : Carried(p) = {}
    BY <2>1, NoneCarried
  <2>3. copies' = copies
    BY <1>1, <1>2, <2>2
  <2> QED BY <1>1, <1>2, <2>1, <2>3
<1>4. CASE ArpInFlush(pkt, mac)
  <2>1. PICK i \in Matches(arp_buf, pkt.sender_ip, now) :
          /\ out' = {IpFrame(arp_buf.entry[i].value, pkt.sender_mac)}
          /\ Valid(arp_buf', now') = Valid(arp_buf, now') \ {i}
          /\ \A j \in Positions(arp_buf) \ {i} :
               arp_buf'.entry[j] = arp_buf.entry[j]
    BY <1>1, <1>4, FlushEffect
  <2> DEFINE p == arp_buf.entry[i].value.src
  <2>2. i \in Valid(arp_buf, now)
    BY <2>1 DEF Matches
  <2>3. /\ "src" \in DOMAIN arp_buf.entry[i].value
        /\ p \in Packets /\ copies[p] = 0
    BY <2>2, PacketsHaveSources DEF HInv, ArpInv, Waiting
  <2>4. /\ \A q : Carried(q) # {} <=> q = p
        /\ \A f \in out' : f.dst = pkt.sender_mac /\ f.body.src = p
    BY <2>1, <2>3, OneCarried
  <2>5. copies' = [copies EXCEPT ![p] = 1]
    <3> HIDE DEF p
    <3>1. ASSUME NEW q \in Packets
          PROVE  copies'[q] = [copies EXCEPT ![p] = 1][q]
      <4>1. copies'[q] = copies[q] + (IF Carried(q) = {} THEN 0 ELSE 1)
        BY <1>2
      <4>2. CASE q = p
        BY <1>1, <2>3, <2>4, <4>1, <4>2
      <4>3. CASE q # p
        BY <1>1, <2>3, <2>4, <4>1, <4>3
      <4> QED BY <4>2, <4>3
    <3>2. copies' = [q \in Packets |-> copies'[q]]
      BY <1>2
    <3> QED BY <1>1, <3>1, <3>2
  <2>6. Valid(arp_buf, now') \subseteq Valid(arp_buf, now)
    BY <1>1, <1>2, Shapes, ExpiryIsMonotone DEF Hold, ArpInv
  <2> QED BY <1>1, <1>2, <2>1, <2>4, <2>5, <2>6
<1> QED BY <1>3, <1>4 DEF HArpIn, ArpIn

LEMMA HearingKeepsQueue ==
  ASSUME HInv, NEW pkt \in ArpPackets, NEW mac \in Macs, HArpIn(pkt, mac)
  PROVE  HistoryOK' /\ Waiting' /\ Kept'
<1>1. /\ now \in Nat /\ now' \in Nat /\ now <= now' /\ ArpInv
      /\ pkt.sender_ip \in IPs
      /\ dest' = dest /\ queued' = queued /\ asked' = asked
      /\ HistoryOK /\ Waiting /\ Kept
      /\ now \in 0 .. MaxTime /\ MaxTime \in Nat
      /\ ARP_MIN_INTERVAL \in Nat
  BY HearingEffect, ClockIsNat, ArpAssumption DEF HInv, ArpInv
<1>2. /\ heard' \in [IPs -> [macs : SUBSET Macs, time : 0 .. MaxTime]]
      /\ \A ip \in IPs : asked'[ip].time <= now'
  <2>1. heard' = [heard EXCEPT ![pkt.sender_ip] =
                    [macs |-> {mac, pkt.sender_mac}, time |-> now]]
    BY DEF HArpIn
  <2>2. pkt.sender_mac \in Macs
    BY DEF ArpPackets
  <2> QED BY <1>1, <2>1, <2>2 DEF HistoryOK
<1>3. CASE arp_buf' = arp_buf /\ now' = now /\ copies' = copies
  <2>1. HistoryOK'
    BY <1>1, <1>2, <1>3 DEF HistoryOK
  <2>2. Waiting' /\ Kept'
    BY <1>1, <1>3 DEF Waiting, Kept, InQueue
  <2> QED BY <2>1, <2>2
<1>4. ASSUME NEW i \in Matches(arp_buf, pkt.sender_ip, now),
             NEW p, p = arp_buf.entry[i].value.src,
             Valid(arp_buf', now') = Valid(arp_buf, now') \ {i},
             Valid(arp_buf, now') \subseteq Valid(arp_buf, now),
             \A j \in Positions(arp_buf) \ {i} :
               arp_buf'.entry[j] = arp_buf.entry[j],
             copies' = [copies EXCEPT ![p] = 1]
      PROVE  HistoryOK' /\ Waiting' /\ Kept'
  <2>1. i \in Valid(arp_buf, now) /\ Valid(arp_buf, now) \subseteq Positions(arp_buf)
    BY <1>4 DEF Matches, Valid
  <2>2. /\ p \in Packets /\ dest[p] # Nothing /\ copies[p] = 0
        /\ \A j \in Valid(arp_buf, now) \ {i} :
             arp_buf.entry[j].value.src # p
    BY <1>1, <1>4, <2>1, HistoryAssumption DEF Waiting
  <2>3. HistoryOK'
    BY <1>1, <1>2, <1>4, <2>2 DEF HistoryOK
  <2>4. Waiting'
    BY <1>1, <1>4, <2>1, <2>2 DEF Waiting, HistoryOK
  <2>5. Kept'
    <3> SUFFICES ASSUME NEW q \in Packets, queued[q] # 0, copies'[q] = 0,
                        now' <= queued[q] + ARP_MIN_INTERVAL
                 PROVE  \E j \in InQueue(arp_buf', q, now') :
                          /\ arp_buf'.entry[j].key = dest[q]
                          /\ arp_buf'.entry[j].time = queued[q]
      BY <1>1 DEF Kept
    <3>1. q # p /\ copies[q] = 0
      BY <1>1, <1>4, <2>2 DEF HistoryOK
    <3>2. queued[q] \in Nat /\ now <= queued[q] + ARP_MIN_INTERVAL
      BY <1>1 DEF HistoryOK
    <3>3. PICK j \in InQueue(arp_buf, q, now) :
            /\ arp_buf.entry[j].key = dest[q]
            /\ arp_buf.entry[j].time = queued[q]
      BY <1>1, <3>1, <3>2 DEF Kept
    <3>4. /\ j \in Valid(arp_buf, now) /\ j # i
          /\ arp_buf.entry[j].value.src = q
      BY <1>4, <3>1, <3>3 DEF InQueue
    <3>5. arp_buf.timeout = ARP_MIN_INTERVAL
      BY <1>1 DEF ArpInv, Hold, TimedMaps
    <3>6. j \in Valid(arp_buf, now')
      BY <3>3, <3>4, <3>5, StillValid
    <3>7. j \in Valid(arp_buf', now') /\ arp_buf'.entry[j] = arp_buf.entry[j]
      BY <1>4, <2>1, <3>4, <3>6
    <3> QED BY <3>3, <3>4, <3>7 DEF InQueue
  <2> QED BY <2>3, <2>4, <2>5
<1> QED BY <1>3, <1>4, HearingEffect

LEMMA HearingKeepsPending ==
  ASSUME HInv, NEW pkt \in ArpPackets, NEW mac \in Macs, HArpIn(pkt, mac)
  PROVE  Pending'
<1> DEFINE ip == pkt.sender_ip
<1>1. /\ now \in Nat /\ now' \in Nat /\ now <= now' /\ ArpInv
      /\ Learn(pkt, mac) /\ asked' = asked /\ HistoryOK /\ Pending
      /\ ip \in IPs /\ 1 <= now
      /\ ARP_MIN_INTERVAL \in Nat /\ ARP_TIMEOUT_SEC \in Nat
      /\ ARP_MIN_INTERVAL <= ARP_TIMEOUT_SEC
  BY HearingEffect, ArpAssumption DEF HInv, ArpInv
<1>2. arp_table' \in Table /\ Learnt(ip, mac)
  BY <1>1, LearnLearns
<1> HIDE DEF ip
<1> SUFFICES ASSUME NEW q \in Peers, asked[q].time # 0, asked[q].kept,
                    now' <= asked[q].time + ARP_MIN_INTERVAL
             PROVE  \/ \E i \in Matches(arp_buf', q, now') :
                         arp_buf'.entry[i].time = asked[q].time
                    \/ \E i \in Matches(arp_table', q, now') :
                         arp_table'.entry[i].time >= asked[q].time
                    \/ arp_table'.size = arp_table'.max_size
  BY <1>1 DEF Pending
<1>3. /\ asked[q].time \in Nat /\ asked[q].time <= now
      /\ now <= asked[q].time + ARP_MIN_INTERVAL
  BY <1>1 DEF HistoryOK, IPs
<1>4. /\ arp_table'.timeout = ARP_TIMEOUT_SEC
      /\ arp_buf.timeout = ARP_MIN_INTERVAL
      /\ \A i \in Valid(arp_table', now) : arp_table'.entry[i].time \in Nat
  <2>1. arp_buf.timeout = ARP_MIN_INTERVAL
    BY <1>1 DEF ArpInv, Hold, TimedMaps
  <2>2. arp_table'.timeout = ARP_TIMEOUT_SEC
    BY <1>2 DEF Table, TimedMaps
  <2>3. \A i \in Positions(arp_table') : arp_table'.entry[i].time \in Nat
    BY <1>2, Shapes, PositionsOfAMap DEF Table
  <2> QED BY <2>1, <2>2, <2>3 DEF Valid
\* A claim that is at least as young as the request outlives the interval.
<1>5. ASSUME NEW i \in Valid(arp_table', now),
             arp_table'.entry[i].key = q,
             arp_table'.entry[i].time >= asked[q].time
      PROVE  \E j \in Matches(arp_table', q, now') :
               arp_table'.entry[j].time >= asked[q].time
  <2>1. arp_table'.entry[i].time + arp_table'.timeout >= now'
    BY <1>1, <1>3, <1>4, <1>5
  <2>2. i \in Valid(arp_table', now')
    BY <1>5, <2>1, StillValid
  <2> QED BY <1>5, <2>2 DEF Matches
<1>6. CASE arp_table.size = arp_table.max_size
  BY <1>2, <1>6 DEF Learnt, Stores
<1>7. ASSUME q = ip
      PROVE  \/ \E j \in Matches(arp_table', q, now') :
                  arp_table'.entry[j].time >= asked[q].time
             \/ arp_table'.size = arp_table'.max_size
  <2>1. CASE arp_table' = arp_table /\ arp_table.size = arp_table.max_size
    BY <2>1
  <2>2. ASSUME NEW i \in Positions(arp_table),
               Stores(arp_table, arp_table', i, ip, mac, now),
               Valid(arp_table', now) = Valid(arp_table, now) \cup {i}
        PROVE  \E j \in Matches(arp_table', q, now') :
                 arp_table'.entry[j].time >= asked[q].time
    <3>1. /\ i \in Valid(arp_table', now) /\ arp_table'.entry[i].key = q
          /\ arp_table'.entry[i].time >= asked[q].time
      BY <1>1, <1>3, <1>7, <2>2 DEF Stores
    <3> QED BY <1>5, <3>1
  <2> QED BY <1>2, <2>1, <2>2 DEF Learnt
<1>8. ASSUME NEW k \in Matches(arp_table, q, now),
             arp_table.entry[k].time >= asked[q].time,
             q # ip
      PROVE  \E j \in Matches(arp_table', q, now') :
               arp_table'.entry[j].time >= asked[q].time
  <2>1. /\ k \in Valid(arp_table, now) /\ k \in Positions(arp_table)
        /\ arp_table.entry[k].key = q
    BY <1>8 DEF Matches, Valid
  <2>2. k \in Valid(arp_table', now) /\ arp_table'.entry[k] = arp_table.entry[k]
    BY <1>2, <1>8, <2>1 DEF Learnt, Stores
  <2> QED BY <1>5, <1>8, <2>1, <2>2
<1>9. ASSUME NEW k \in Matches(arp_buf, q, now),
             arp_buf.entry[k].time = asked[q].time,
             q # ip
      PROVE  \E j \in Matches(arp_buf', q, now') :
               arp_buf'.entry[j].time = asked[q].time
  <2>1. /\ k \in Valid(arp_buf, now) /\ k \in Positions(arp_buf)
        /\ arp_buf.entry[k].key = q
    BY <1>9 DEF Matches, Valid
  <2>2. CASE arp_buf' = arp_buf /\ now' = now
    BY <1>9, <2>2
  <2>3. ASSUME NEW i \in Matches(arp_buf, ip, now),
               Valid(arp_buf', now') = Valid(arp_buf, now') \ {i},
               \A j \in Positions(arp_buf) \ {i} :
                 arp_buf'.entry[j] = arp_buf.entry[j]
        PROVE  \E j \in Matches(arp_buf', q, now') :
                 arp_buf'.entry[j].time = asked[q].time
    <3>1. k # i
      BY <1>9, <2>1, <2>3 DEF Matches
    <3>2. arp_buf.entry[k].time + arp_buf.timeout >= now'
      BY <1>4, <1>9
    <3>3. k \in Valid(arp_buf, now')
      BY <2>1, <3>2, StillValid
    <3> QED BY <1>9, <2>1, <2>3, <3>1, <3>3 DEF Matches
  <2> QED BY <2>2, <2>3, HearingEffect DEF ip
<1>10. \/ \E i \in Matches(arp_buf, q, now) :
            arp_buf.entry[i].time = asked[q].time
       \/ \E i \in Matches(arp_table, q, now) :
            arp_table.entry[i].time >= asked[q].time
       \/ arp_table.size = arp_table.max_size
  BY <1>1, <1>3 DEF Pending
<1> QED BY <1>6, <1>7, <1>8, <1>9, <1>10

-----------------------------------------------------------------------------
LEMMA TimeKeepsHInv ==
  ASSUME HInv, ArpInv', UNCHANGED <<arp_table, arp_buf, hist>>,
         now' \in Nat, now <= now'
  PROVE  HInv'
<1>1. /\ now \in Nat /\ ArpInv /\ HistoryOK /\ Waiting /\ Kept /\ Claimed
      /\ Pending /\ ARP_MIN_INTERVAL \in Nat /\ ARP_TIMEOUT_SEC \in Nat
      /\ ARP_MIN_INTERVAL <= ARP_TIMEOUT_SEC
      /\ arp_table' = arp_table /\ arp_buf' = arp_buf /\ dest' = dest
      /\ copies' = copies /\ queued' = queued /\ asked' = asked
      /\ heard' = heard
  BY ClockIsNat, ArpAssumption DEF HInv, hist
<1>2. /\ Valid(arp_buf, now') \subseteq Valid(arp_buf, now)
      /\ Valid(arp_table, now') \subseteq Valid(arp_table, now)
  BY <1>1, Shapes, ExpiryIsMonotone DEF ArpInv, Hold, Table
<1>3. /\ arp_buf.timeout = ARP_MIN_INTERVAL
      /\ arp_table.timeout = ARP_TIMEOUT_SEC
  BY <1>1 DEF ArpInv, Hold, Table, TimedMaps
<1>4. \A i \in Valid(arp_table, now) : arp_table.entry[i].time \in Nat
  <2>1. \A i \in Positions(arp_table) : arp_table.entry[i].time \in Nat
    BY <1>1, Shapes, PositionsOfAMap DEF ArpInv, Table
  <2> QED BY <2>1 DEF Valid
<1>5. HistoryOK'
  BY <1>1 DEF HistoryOK
<1>6. Waiting' /\ Claimed'
  BY <1>1, <1>2 DEF Waiting, Claimed
<1>7. Kept'
  <2> SUFFICES ASSUME NEW p \in Packets, queued[p] # 0, copies[p] = 0,
                      now' <= queued[p] + ARP_MIN_INTERVAL
               PROVE  \E i \in InQueue(arp_buf, p, now') :
                        /\ arp_buf.entry[i].key = dest[p]
                        /\ arp_buf.entry[i].time = queued[p]
    BY <1>1 DEF Kept
  <2>1. queued[p] \in Nat /\ now <= queued[p] + ARP_MIN_INTERVAL
    BY <1>1 DEF HistoryOK
  <2>2. PICK i \in InQueue(arp_buf, p, now) :
          /\ arp_buf.entry[i].key = dest[p]
          /\ arp_buf.entry[i].time = queued[p]
    BY <1>1, <2>1 DEF Kept
  <2>3. i \in Valid(arp_buf, now) /\ arp_buf.entry[i].value.src = p
    BY <2>2 DEF InQueue
  <2>4. i \in Valid(arp_buf, now')
    BY <1>3, <2>2, <2>3, StillValid
  <2> QED BY <2>2, <2>3, <2>4 DEF InQueue
<1>8. Pending'
  <2> SUFFICES ASSUME NEW q \in Peers, asked[q].time # 0, asked[q].kept,
                      now' <= asked[q].time + ARP_MIN_INTERVAL
               PROVE  \/ \E i \in Matches(arp_buf, q, now') :
                           arp_buf.entry[i].time = asked[q].time
                      \/ \E i \in Matches(arp_table, q, now') :
                           arp_table.entry[i].time >= asked[q].time
                      \/ arp_table.size = arp_table.max_size
    BY <1>1 DEF Pending
  <2>1. asked[q].time \in Nat /\ now <= asked[q].time + ARP_MIN_INTERVAL
    BY <1>1 DEF HistoryOK, IPs
  <2>2. ASSUME NEW i \in Matches(arp_buf, q, now),
               arp_buf.entry[i].time = asked[q].time
        PROVE  i \in Matches(arp_buf, q, now')
    BY <1>3, <2>2, StillValid DEF Matches
  <2>3. ASSUME NEW i \in Matches(arp_table, q, now),
               arp_table.entry[i].time >= asked[q].time
        PROVE  i \in Matches(arp_table, q, now')
    <3>1. i \in Valid(arp_table, now) /\ arp_table.entry[i].key = q
      BY DEF Matches
    <3>2. arp_table.entry[i].time + arp_table.timeout >= now'
      BY <1>1, <1>3, <1>4, <2>1, <2>3, <3>1
    <3> QED BY <3>1, <3>2, StillValid DEF Matches
  <2> QED BY <1>1, <2>1, <2>2, <2>3 DEF Pending
<1> QED BY <1>5, <1>6, <1>7, <1>8 DEF HInv

LEMMA HStepIsStep == [HNext]_vars => [Next]_arpVars
BY DEF HNext, HArpOut, HArpIn, HIdle, Next, vars

\* The history adds no steps: what holds of Spec holds of HSpec.  The converse is
\* not claimed, since HArpOut assumes that each packet is handed down once.
LEMMA HistoryAddsNoSteps == HSpec => Spec
<1>1. HInit => Init
  BY DEF HInit
<1> QED BY <1>1, HStepIsStep, PTL DEF HSpec, Spec

LEMMA HInvNext == HInv /\ [HNext]_vars => HInv'
<1> SUFFICES ASSUME HInv, [HNext]_vars PROVE HInv'
  OBVIOUS
<1>1. ArpInv'
  BY HStepIsStep, ArpInvNext DEF HInv
<1>2. ASSUME NEW buf \in Bufs, NEW ip \in Peers, HArpOut(buf, ip)
      PROVE  HInv'
  BY <1>1, <1>2, SendingKeepsHInv, AskingKeepsHInv DEF HArpOut, ArpOut, HInv
<1>3. ASSUME NEW pkt \in ArpPackets, NEW mac \in Macs, HArpIn(pkt, mac)
      PROVE  HInv'
  BY <1>1, <1>3, HearingKeepsClaims, HearingKeepsQueue, HearingKeepsPending
     DEF HInv
<1>4. CASE HIdle \/ UNCHANGED vars
  <2>1. now \in Nat /\ ArpInv
    BY ClockIsNat DEF HInv
  <2>2. /\ UNCHANGED <<arp_table, arp_buf, hist>>
        /\ now' \in Nat /\ now <= now'
    BY <1>4, <2>1 DEF HIdle, ArpInMalformed, Tick, vars, arpVars
  <2> QED BY <1>1, <2>2, TimeKeepsHInv
<1> QED BY <1>2, <1>3, <1>4 DEF HNext

LEMMA HInvariant == HSpec => []HInv
BY HInvInit, HInvNext, PTL DEF HSpec

\* No packet is transmitted twice, although arp_in takes it out of the queue
\* only after the transmission, and under a later clock (arp.c:140-141).
THEOREM SentAtMostOnce == HSpec => []AtMostOnce
<1>1. HInv => AtMostOnce
  BY DEF HInv, HistoryOK, AtMostOnce
<1> QED BY <1>1, HInvariant, PTL

\* A packet that arp_out put in the queue stays there, for its destination,
\* until it is transmitted or ARP_MIN_INTERVAL has passed (arp.c:135-142,
\* 177-180).
THEOREM QueueKeepsPackets == HSpec => []NoSilentLoss
<1>1. HInv => NoSilentLoss
  BY DEF HInv, Kept, NoSilentLoss
<1> QED BY <1>1, HInvariant, PTL

\* A packet leaves only for an address that its destination claimed last, and
\* not later than ARP_TIMEOUT_SEC after that claim (arp.c:135-142, 172-176).
THEOREM MacsAreFresh == HSpec => FreshMac
<1>1. HInv /\ [HNext]_vars
        => [\A f \in out' : f.type = "ip" =>
              LET ip == dest'[f.body.src]
              IN  /\ f.dst \in heard'[ip].macs
                  /\ now <= heard'[ip].time + ARP_TIMEOUT_SEC]_vars
  <2> SUFFICES ASSUME HInv, HNext, NEW f \in out', f.type = "ip"
               PROVE  /\ f.dst \in heard'[dest'[f.body.src]].macs
                      /\ now <= heard'[dest'[f.body.src]].time
                                  + ARP_TIMEOUT_SEC
    OBVIOUS
  <2>1. ASSUME NEW buf \in Bufs, NEW ip \in Peers, HArpOut(buf, ip)
        PROVE  /\ f.dst \in heard'[dest'[f.body.src]].macs
               /\ now <= heard'[dest'[f.body.src]].time + ARP_TIMEOUT_SEC
    <3> DEFINE i == MacOf(ip)
    <3>1. CASE ArpOutDirect(buf, ip, txbuf)
      <4>1. /\ i # NULL /\ out' = {IpFrame(buf, arp_table.entry[i].value)}
            /\ "src" \in DOMAIN buf
        BY <3>1, PacketsHaveSources DEF ArpOutDirect
      <4>2. /\ f.dst = arp_table.entry[i].value /\ f.body.src = buf.src
        <5> HIDE DEF i
        <5> QED BY <4>1, OneCarried
      <4>3. i \in Matches(arp_table, ip, now)
        BY <4>1, Shapes, GetFindsAMatch DEF MacOf, HInv, ArpInv, Table
      <4>4. dest'[buf.src] = ip /\ heard' = heard
        BY <2>1, NotYetHandedDown DEF HInv, HistoryOK
      <4>5. /\ arp_table.timeout = ARP_TIMEOUT_SEC /\ ARP_TIMEOUT_SEC # 0
        BY ArpAssumption DEF HInv, ArpInv, Table, TimedMaps
      <4> HIDE DEF i
      <4>6. /\ arp_table.entry[i].value \in heard[ip].macs
            /\ arp_table.entry[i].time = heard[ip].time
            /\ arp_table.entry[i].time + arp_table.timeout >= now
        BY <4>3, <4>5 DEF HInv, Claimed, Matches, Valid, map_entry_valid
      <4>7. heard[ip].time + ARP_TIMEOUT_SEC >= now
        BY <4>5, <4>6
      <4>8. now \in Nat /\ heard[ip].time \in Nat /\ ARP_TIMEOUT_SEC \in Nat
        BY ClockIsNat, ArpAssumption DEF HInv, HistoryOK, IPs
      <4> QED BY <4>2, <4>4, <4>6, <4>7, <4>8
    <3>2. CASE ArpOutRequest(buf, ip, txbuf) \/ ArpOutBusy(buf, ip, txbuf)
      BY <3>2 DEF ArpOutRequest, ArpOutBusy, arp_req, ArpFrame
    <3> QED BY <2>1, <3>1, <3>2 DEF HArpOut, ArpOut
  <2>2. ASSUME NEW pkt \in ArpPackets, NEW mac \in Macs, HArpIn(pkt, mac)
        PROVE  /\ f.dst \in heard'[dest'[f.body.src]].macs
               /\ now <= heard'[dest'[f.body.src]].time + ARP_TIMEOUT_SEC
    <3>1. PICK i \in Matches(arp_buf, pkt.sender_ip, now) :
            /\ f.dst = pkt.sender_mac
            /\ f.body.src = arp_buf.entry[i].value.src
      BY <2>2, HearingEffect
    <3>2. /\ dest' = dest /\ now \in Nat /\ pkt.sender_ip \in IPs
      BY <2>2, HearingEffect
    <3>3. dest'[f.body.src] = pkt.sender_ip
      BY <3>1, <3>2 DEF Matches, HInv, Waiting
    <3>4. heard'[pkt.sender_ip] = [macs |-> {mac, pkt.sender_mac},
                                   time |-> now]
      BY <2>2, <3>2 DEF HArpIn, HInv, HistoryOK
    <3>5. now <= now + ARP_TIMEOUT_SEC
      BY <3>2, ArpAssumption
    <3> QED BY <3>1, <3>3, <3>4, <3>5
  <2>3. CASE HIdle
    BY <2>3 DEF HIdle, ArpInMalformed, Tick
  <2> QED BY <2>1, <2>2, <2>3 DEF HNext
<1> QED BY <1>1, HInvariant, PTL DEF HSpec, FreshMac

\* Two requests for one address are more than ARP_MIN_INTERVAL apart unless the
\* first one's packet found arp_buf full, or the answer found arp_table full
\* (arp.c:163-179).  arp_table stays full once it has spent its budget, and then
\* nothing is promised; where a full arp_buf begins, MinIntervalKept fails.
THEOREM RequestsAreSpaced == HSpec => RequestSpacing
<1>1. HInv /\ [HNext]_vars
        => [\A ip \in Peers :
              (\E f \in out' : Requests(f, ip)) =>
                \/ asked[ip].time = 0
                \/ now > asked[ip].time + ARP_MIN_INTERVAL
                \/ ~ asked[ip].kept
                \/ arp_table.size = arp_table.max_size]_vars
  <2> SUFFICES ASSUME HInv, HNext, NEW q \in Peers,
                      NEW f \in out', Requests(f, q)
               PROVE  \/ asked[q].time = 0
                      \/ now > asked[q].time + ARP_MIN_INTERVAL
                      \/ ~ asked[q].kept
                      \/ arp_table.size = arp_table.max_size
    OBVIOUS
  <2>1. ASSUME NEW buf \in Bufs, NEW ip \in Peers, HArpOut(buf, ip)
        PROVE  \/ asked[q].time = 0
               \/ now > asked[q].time + ARP_MIN_INTERVAL
               \/ ~ asked[q].kept
               \/ arp_table.size = arp_table.max_size
    <3>1. ArpOutRequest(buf, ip, txbuf)
      <4>1. f.type # "ip"
        BY DEF Requests
      <4>2. ~ (ArpOutDirect(buf, ip, txbuf) \/ ArpOutBusy(buf, ip, txbuf))
        BY <2>1, <4>1, SendingKeepsHistory
      <4> QED BY <2>1, <4>2 DEF HArpOut, ArpOut
    <3>2. ip = q
      BY <3>1 DEF ArpOutRequest, arp_req, ArpFrame, Requests
    <3>3. Matches(arp_buf, q, now) = {} /\ Matches(arp_table, q, now) = {}
      BY <3>1, <3>2, RequestEnqueues DEF HInv
    <3>4. /\ asked[q].time \in Nat /\ now \in Nat /\ ARP_MIN_INTERVAL \in Nat
      BY ClockIsNat, ArpAssumption DEF HInv, HistoryOK, IPs
    <3> QED BY <3>3, <3>4 DEF HInv, Pending
  <2>2. ASSUME NEW pkt \in ArpPackets, NEW mac \in Macs, HArpIn(pkt, mac)
        PROVE  FALSE
    BY <2>2, FrameOfPacket
       DEF HArpIn, ArpIn, ArpInFlush, ArpInAnswer, ArpInLearn, arp_resp,
           ArpFrame, IpFrame, Requests
  <2>3. ~ HIdle
    BY DEF HIdle, ArpInMalformed, Tick
  <2> QED BY <2>1, <2>2, <2>3 DEF HNext
<1> QED BY <1>1, HInvariant, PTL DEF HSpec, RequestSpacing
=============================================================================
