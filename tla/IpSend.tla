------------------------------- MODULE IpSend -------------------------------
(***************************************************************************)
(* Sending an IP datagram, net-lab-2022-master/src/ip.c, on top of Arp:    *)
(* ip_out cuts what udp_out or icmp built in txbuf into fragments and      *)
(* hands each one to arp_out, which may itself build a packet in txbuf.    *)
(*                                                                         *)
(* The loop of ip_out is one step per fragment, so that the clock can move *)
(* between two of them; nothing else runs until ip_out returns.  Module    *)
(* Stack has the callers.                                                  *)
(***************************************************************************)
EXTENDS Arp, Sequences

CONSTANTS Datagrams,   \* names of the datagrams to send
          Lengths,     \* Datagrams -> length of their data
          MaxStall     \* bound on the clock ticks within one ip_out

ASSUME IpSendAssumption ==
  /\ Lengths \in [Datagrams -> 0 .. 2^16 - 1]
  /\ ARP \notin Datagrams
  /\ MaxStall \in Nat

\* config.h:40: a buffer takes any udp_send and all headers in front of it.
ASSUME RoomAssumption == 2^16 - 1 + UdpHdr + IpHdr + EtherHdr <= Half

VARIABLES ip_id,    \* the static counter of ip_out
          job,      \* the ip_out in progress; Idle between two calls
          unsent,   \* datagrams not passed to ip_out yet
          given,    \* what the window showed when ip_out was called
          cut,      \* the fragments of the last ip_out, as passed to arp_out
          arped     \* whether an ARP request went out since it was called

ipVars == <<ip_id, job, unsent, given, cut, arped>>

Idle == [ip |-> Nothing, cur |-> 0, stall |-> 0]

IInit == /\ Init
         /\ ip_id = 0
         /\ job = Idle
         /\ unsent = Datagrams
         /\ given = Shown(ZeroBuf(Nothing))
         /\ cut = <<>>
         /\ arped = FALSE

\* ip_fragment_out: the header fields that matter, around what the fragment
\* shows before its IP header is prepended.
Fragment(buf, id, offset, mf) ==
  [id |-> id, offset |-> offset, mf |-> mf, bytes |-> Shown(buf)]

\* A fragment with the offset in bytes rather than in units of 8.
ip_fragment_out_bytes_bug(buf, ip, id, offset, mf, tx, before) ==
  /\ ArpOut(buf_add_header(buf, IpHdr), ip, tx)
  /\ cut' = Append(before, Fragment(buf, id, offset * OffsetUnit, mf))

\* before: the fragments this ip_out already passed down.
ip_fragment_out(buf, ip, id, offset, mf, tx, before) ==
  /\ ArpOut(buf_add_header(buf, IpHdr), ip, tx)
  /\ cut' = Append(before, Fragment(buf, id, offset, mf))

ArpRequested == \E f \in out' : f.type = "arp" /\ f.body.op = "request"

NextId == (ip_id + 1) % 2^16

\* ip_out(tx, ip), tx being txbuf as its caller has built it.  What fits one
\* packet is sent as it is, without the loop.
IpOutWhole(tx, ip) ==
  /\ tx.len <= MaxPayload
  /\ ip_fragment_out(tx, ip, ip_id, 0, FALSE, tx, <<>>)
  /\ ip_id' = NextId
  /\ arped' = ArpRequested
  /\ UNCHANGED job

IpOutStart(tx, ip) ==
  /\ tx.len > MaxPayload
  /\ txbuf' = tx
  /\ job' = [ip |-> ip, cur |-> 0, stall |-> 0]
  /\ cut' = <<>>
  /\ arped' = FALSE
  /\ out' = {}
  /\ UNCHANGED <<arp_table, arp_buf, now, ip_id>>

ip_out(tx, ip) == /\ job = Idle
                  /\ given' = Shown(tx)
                  /\ IpOutWhole(tx, ip) \/ IpOutStart(tx, ip)

\* udp_send copies len bytes of src into txbuf; udp_out prepends its header and
\* has the checksum computed in place.
udp_out(tx, ip) == ip_out(udp_checksum(buf_add_header(tx, UdpHdr)), ip)

udp_send(src, first, len, ip) ==
  udp_out(Fill(buf_init(txbuf, len), src, first), ip)

SendDatagram(d, ip) == /\ d \in unsent
                       /\ udp_send(d, 0, Lengths[d], ip)
                       /\ unsent' = unsent \ {d}

\* memcpy of len bytes of the window into the local fragment.
CopyOut(b, len) ==
  Fill(buf_init(ZeroBuf(Nothing), len), b.src, b.data - b.org)

\* One round of the loop.  The loop tests and reads buf, which is &txbuf.
IpOutFragment ==
  /\ job # Idle /\ txbuf.len > MaxPayload
  /\ ip_fragment_out(CopyOut(txbuf, MaxPayload), job.ip, ip_id,
                     job.cur \div OffsetUnit, TRUE,
                     buf_remove_header(txbuf, MaxPayload), cut)
  /\ job' = [job EXCEPT !.cur = (@ + MaxPayload) % 2^16]
  /\ arped' = (arped \/ ArpRequested)
  /\ UNCHANGED <<ip_id, unsent, given>>

IpOutLast ==
  /\ job # Idle /\ txbuf.len \in 1 .. MaxPayload
  /\ ip_fragment_out(CopyOut(txbuf, txbuf.len), job.ip, ip_id,
                     job.cur \div OffsetUnit, FALSE,
                     buf_remove_header(txbuf, txbuf.len), cut)
  /\ ip_id' = NextId
  /\ job' = Idle
  /\ arped' = (arped \/ ArpRequested)
  /\ UNCHANGED <<unsent, given>>

ITick == /\ job = Idle \/ job.stall < MaxStall
         /\ Tick
         /\ job' = IF job = Idle THEN job ELSE [job EXCEPT !.stall = @ + 1]
         /\ UNCHANGED <<ip_id, unsent, given, cut, arped>>

-----------------------------------------------------------------------------
\* The fragments of a finished ip_out are the payload it was given, cut into
\* consecutive pieces: every offset, in units of 8 bytes, says where the piece
\* belongs, only the last one clears MF, and all carry the same identification.
Ends(k) == cut[k].bytes.first + cut[k].bytes.len

Tiles ==
  /\ cut[1].bytes.first = given.first
  /\ Ends(Len(cut)) = given.first + given.len
  /\ \A k \in 1 .. Len(cut) :
       /\ cut[k].bytes.src = given.src
       /\ cut[k].offset * OffsetUnit = cut[k].bytes.first - given.first
       /\ cut[k].mf = (k < Len(cut))
       /\ cut[k].id = cut[1].id
       /\ cut[k].bytes.len \in 1 .. MaxPayload
       /\ k < Len(cut) => cut[k + 1].bytes.first = Ends(k)

Finished == job = Idle /\ cut # <<>>

\* As long as no ARP request had to be built, the fragments are what ip_out was
\* given: the buffer that it reads is still the same one (ip.c:108-139).
TilesUnlessAsked == Finished /\ ~ arped => Tiles

\* net.c:31 says that one buf is enough for a single thread: then everything
\* should be cut into its own bytes.
TilesDatagram == Finished => Tiles

IpFrames == {f \in out : f.type = "ip"}

\* No frame carries the bytes of an ARP packet as an IP payload: the garbage that
\* follows a clobbered txbuf is dropped by arp_out, which finds the first
\* fragment still waiting, as long as ip_out takes at most ARP_MIN_INTERVAL.
NoForeignBytesOnWire == \A f \in IpFrames : f.body.src # ARP

\* Every frame that carries a datagram's bytes carries one whole piece of it,
\* with room for all headers in front and padding only up to the Ethernet
\* minimum, whether it was sent at once or copied by buf_copy and sent later.
FramesArePieces ==
  \A f \in {g \in IpFrames : g.body.src \in Datagrams} :
    LET at == f.body.first + EtherHdr + IpHdr + UdpHdr   \* in the IP payload
        rest == Lengths[f.body.src] + UdpHdr - at
        piece == IpHdr + (IF rest > MaxPayload THEN MaxPayload ELSE rest)
    IN  /\ at >= 0 /\ rest > 0 /\ at % MaxPayload = 0
        /\ f.body.len = EtherHdr
             + (IF piece < MinPayload THEN MinPayload ELSE piece)
=============================================================================
