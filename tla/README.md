# A TLA+ model of net-lab-2022

The repository holds a small user-space TCP/IP stack
(`net-lab-2022-master/`: Ethernet, ARP, IP, ICMP, UDP over a pcap driver) and,
unrelated to it, two mail clients (`maillab/`: SMTP, POP3, base64). This
directory models both. TLC checks the state machines on small instances; TLAPS
proves what matters most about them, from the container at the bottom up to the
whole stack answering its peers, for every instance.

## 1. The system

The stack is one thread. `main` calls `net_init`, opens a UDP port and then
calls `net_poll` for ever. One poll takes at most one frame from the driver and
carries it as far up, and its answer as far down again, as it will go. Nothing
is ever concurrent with a handler except the clock: every look into a map calls
`time(NULL)`, so an entry can expire between two lines of one function. What is
shared, and makes the system hard to reason about, is memory: one global
`rxbuf`, one global `txbuf`, four maps.

| component | state | operations | interacts with |
|---|---|---|---|
| map (`map.c`) | slots (key, value, stamp), `size`, `max_size`, `timeout` | `map_init`, `map_get`, `map_set`, `map_delete`, `map_foreach`, `map_size` | the clock; used by net, arp (twice), udp |
| buf (`buf.c`) | window `data`, `len` of a fixed array | `buf_init`, add/remove header, add/remove padding, `buf_copy` | every layer moves the window of the buffer it is handed |
| arp (`arp.c`) | `arp_table`, `arp_buf` (one waiting packet per destination) | `arp_init`, `arp_req`, `arp_resp`, `arp_in`, `arp_out` | builds its packets in `txbuf`; calls ethernet; called by ip |
| ip sending (`ip.c`) | static `ip_id`; locals of the fragment loop | `ip_out`, `ip_fragment_out` | is handed `&txbuf`, calls arp once per fragment |
| ip, icmp, udp receiving | `rxbuf`, `udp_table`, `net_table` | `ip_in`, `icmp_in`, `udp_in`, `udp_open`, `udp_close`, `net_in` | narrow `rxbuf`, answer through `ip_out`, call the application |
| icmp, udp answering | none of their own | `icmp_resp`, `icmp_unreachable`, `udp_out`, `udp_send` | build in `txbuf` what `rxbuf` shows, call ip |
| ethernet, driver | the pcap handle | `ethernet_in/out/poll`, `driver_recv/send`, `driver_open`, `driver_find` | copies frames to and from the buffers; chooses a network card once |
| utils | none | `checksum16`, `ip_prefix_match`, `*tos` | pure functions |
| main | none | the echo handler | calls `udp_send` from inside `udp_in` |
| maillab | sockets, `base64_encodestate` | SMTP and POP3 dialogues, base64 | TCP streams |
| testing, Npcap | | fakes of driver and arp; vendored headers | |

What makes each part correct, and what is hard about it:

* **map.** A key has at most one valid entry; `size`, which nothing recomputes,
  stays between 0 and `max_size` and promises a free slot. Expiry is lazy, so a
  slot can be stamped and dead at once, and `size` does not notice expiry.
* **arp.** A packet waiting for an address is neither lost before its time nor
  sent twice; frames go only to an address that recently claimed the
  destination; requests are spaced. Two maps expire independently, `map_set` can
  fail and nobody looks, and the table learns the address of the Ethernet header
  while the waiting packet leaves for the one inside the ARP packet.
* **ip sending.** The fragments are the datagram. The loop goes on reading a
  buffer that a call inside the loop may rebuild.
* **receiving.** Each layer sees its own payload although `udp_checksum` writes
  a pseudo header over the IP header and must put bytes and window back; errors
  quote the IP header; a datagram is delivered exactly if its port is open. The
  window of `rxbuf` is never reset.
* **the whole stack.** Every frame is answered at most once and with its own
  bytes. An answer is built in `txbuf` while `rxbuf` is still being looked at,
  may have to wait for an address, and on the way down meets code that rebuilds
  `txbuf` itself.
* **two hosts.** Packets keep getting through although frames are lost and
  reordered, waiting packets expire after a second, and a host with a packet
  waiting for the asker does not answer the request.
* **start-up.** The card chosen is the one whose subnet our address is in and
  that shares the longest prefix with it.
* **utils.** `checksum16` folds the carry in while it sums and stores its result
  without converting the byte order.
* **maillab.** One `recv` is taken for one reply, and no reply is looked at; the
  base64 encoder is a coroutine suspended in the middle of a group whenever a
  block ends there; `encode_str` writes into a buffer of twice the input.

`PROJECT.json` lists the hazards, each at its line with the properties aimed at
it.

## 2. The modules

```
TimedMap   PacketBuf            operators (map.c, buf.c)
   |   \       |
   |    \   Headers             header sizes, udp_checksum's use of the buffer
   |     \   /   \
MapStore  Arp     RxPath        state machines
   |     / | \       |
   |    | Lan IpSend |          two hosts; ip_out on top of Arp
   | ArpHistory  \   |          Arp with its history
   |              Stack         all layers and main
Dictionary       Responder      what MapStore and Stack implement
MCArp, MCRxPath, MCStack, MCLan instances for TLC

Startup                         driver_find and driver_open
Checksum, Base64                algorithms, one step per loop round or block
MCPure                          the three of them on all small inputs
Maillab                         the SMTP and POP3 clients and their server

TimedMap_proofs  PacketBuf_proofs              lemmas on maps and on windows
MapStore_proofs  Arp_proofs  RxPath_proofs     theorems: of each state machine,
Stack_proofs                                   of all of them together,
Pure_proofs  Maillab_proofs                    and of the others
```

The proofs follow the modules: what one operation of map.c or buf.c does is proved
once, in TimedMap_proofs and PacketBuf_proofs, and cited above. Stack_proofs also
uses RxPath_proofs whole, as an instance (`RP`); the lemmas `Same...` carry what it
says of a poll over to the instance of RxPath that Stack itself declares.

**TimedMap** gives map.c as operators on a record with the fields of `map_t`.
Keys and values are opaque (`memcmp` and `memcpy` become equality and
assignment). A slot whose stamp is 0 is free. Times are arguments: `map_set`
takes two, because the code reads the clock for the lookup and again for the
free-slot scan and the stamp, and an entry found valid by the first reading is
refreshed even if it has expired by the second. All readings made by one lookup
are taken to be equal. Names ending in `_bug` are slips a maintainer could make;
they exist so that every property can be seen to fail, and nothing uses them.

**MapStore** drives one map with every operation; the clock advances between and
inside calls (`Spec`), or jumps at will (`SpecAnyClock`: `time(NULL)` is the
wall clock, and may be set back). **Dictionary** is what callers can rely on: a
dictionary whose entries vanish, and a budget of insertions that only a
`map_delete` of a live key gives back. MapStore implements it under the mapping
"live entries, `size`, `timeout`".

**PacketBuf** gives buf.c as operators on the window. The bytes are abstracted
to their origin: which packet was last copied into the array and where its byte
0 lies. That is enough to say which bytes of which packet a frame shows, how
much padding follows and how much header precedes them. Failing operations
leave the buffer alone; no caller in src/ looks at their results.

**Arp** has one action per path through `arp_out` and `arp_in`; each performs all
the calls of its path, including the rebuilding of `txbuf` and the in-place
framing that `ethernet_out` does to the waiting packet. `out` is what reached the
driver in the last step. The only time a handler lets pass that matters is the
transmission in the flush, after which `map_delete` looks the entry up again.
`ethernet_out` also grows the window of the caller's buffer; for the buffers of
`arp_out`'s callers this is invisible, as each of them starts with `buf_init`
before it uses the buffer again. **ArpHistory** adds what the requirements talk
about and the code does not store: where each packet was going, how often it was
transmitted, when it was queued, who was last asked for and heard.

**Headers** names the sizes of the packed structs and gives `udp_checksum` as
what it does to the window, for received and for outgoing datagrams alike. What it
does to the bytes is a set of places in the array: those it saves, writes over and
puts back (`Saved`, `Overwritten`, `PutBack`), and from these the places that hold
another byte in the end (`Spoilt`). `HeaderComesBack` in RxPath says that there are
none when a handler or a quote reads them.

**IpSend** puts `ip_out` on top of Arp, and `udp_out` and `udp_send` on top of
`ip_out`. Its argument is `txbuf` as the caller has built it; `given` remembers
what it showed. The fragment loop takes one step per fragment, so that the clock
can move inside it. The buffer the loop reads is `txbuf`, as in the code.

**RxPath** has one action per outcome of a poll: unhandled, dropped by IP,
protocol unreachable, ICMP, dropped by UDP, port unreachable, delivered. A frame
is its length and the fields the layers test; checksums are booleans of the
frame. What is sent back is recorded as the arguments of `ip_out`. The protocol
table is filled once by `net_init`, before any frame, and never changes: here it is
the set of its keys, `NetTable`.
ARP frames end here; `PollIdle` is a poll that finds nothing.

**Stack** runs RxPath on `rxbuf` and IpSend on `txbuf` in the same step: what a
poll receives decides what `icmp_resp`, `icmp_unreachable` or main's echo handler
builds and hands to `ip_out`, and an ARP frame goes to `arp_in`. A large answer or
datagram leaves in later steps, one per fragment, and nothing is received before
the last, as in the single thread. The application may also send datagrams of its
own between two polls. Each frame of the instance arrives once, in any order.

**Responder** is what a peer can rely on: a frame is answered at once, later or
never, at most once, with exactly the bytes due, and at most one answer waits for
any peer. `Due` in Stack defines those bytes from the frame alone, without
buffers. Stack implements it with "waiting" read off `arp_buf` (the frame each
live entry would leave in) and "sent" off the driver.

**Lan** is two instances of Arp and an Ethernet that loses, duplicates, delays and
reorders. Both hosts announce themselves before either listens. Only ages matter
to arp.c, so the clock stands still and a second makes every stamp one older;
stamp 1 stands for every age at which an entry is dead (timeout and interval are
below `now - 1`). Stamp 0, a free slot, stays. What a host does in a second
without traffic changes nothing, so a second passes only after a has sent.

**Startup** is the way from `net_init` to the main loop: `driver_find` on a list of
cards, then the four pcap calls of `driver_open`, each of which may fail. An
address is a sequence of `WIDTH` bits, a mask likewise.

**Checksum** is `checksum16` with one action per kind of loop round; its input is
a sequence of bytes, its words are little-endian as on the machines the stack is
built for. **Base64** is `encode_file` and the block coder: an action is one
`fread` and `base64_encode_block`, which resumes in the step where the block
before ended. The 64 characters are named by their values. The decoder, which no
program of the repository calls, reads the result back in blocks of another
size. A reference definition stands beside the code's: the character at any
place of the text, as a digit to the base of 64 of a group of three bytes, a `=` or
a line end, computed from the whole file.
`encode_str` is one block and the end, whose length is compared with its buffer; a
string longer than `MAX_STRING` (3000 in `base64_utils.c:31`) is refused and nothing
is encoded (`EncodeStrTooLong`).

**Maillab** runs either client. A command is one message to the server, however
many `send` calls it takes; a reply is one or more pieces, and `print_msg` takes
any number of those that are there, which is all that TCP promises. The server
is external: an SMTP server that accepts MAIL, RCPT, DATA and a message in this
order, or refuses, or hangs up; a POP3 server that answers anything. A message
sent to a server that did not accept DATA is so many unknown commands, and the
user's name is two lines to a server that takes a lone line feed for an end of
line (`encode_str` leaves one, `send.c:131` adds another). `close` with unread
data resets the connection, so that what the server has not read may be lost. A
file that cannot be opened ends the client when the server is already waiting for
the message.

## 3. The runs

| run | specification | shows |
|---|---|---|
| `map_dictionary` | MapStore, monotone clock | unique keys, `size` covers the stamped slots and is exact without timeout, a free slot below `max_size`, Dictionary implemented, a spent map of dead entries frozen |
| `arp` | ArpHistory | at most one transmission, no silent loss, fresh addresses only, spaced requests |
| `arp_min_interval` | ArpHistory | **violation**: with `arp_buf` full every packet triggers a request |
| `stack` | Stack | Responder implemented: answers at most once, with the bytes due; fragments tile the datagram if no request was sent meanwhile; no foreign bytes on the wire; frames are whole pieces |
| `lan` | Lan, fair | packets keep getting through a medium that loses, duplicates and reorders |
| `ip_send_tiles` | Stack | **violation**: the ARP request destroys the datagram being cut |
| `rx_path` | RxPath | payload exact, IP header quoted, no byte left overwritten by `udp_checksum`, delivery exactly to open ports |
| `rx_overrun` | RxPath, one frame, real array size | **violation**: the window drifts to the end of the array |
| `encode_str_room` | MCPure | **violation**: the buffer of `encode_str` is too small for an empty string |
| `mail_replies` | Maillab | **violation**: replies in pieces, and the connection is closed with responses unread |
| `pure` | MCPure | base64 output and decoding right for every block boundary, `encode_str` within its buffer exactly but for the lengths 0, 1, 2, 4; checksum right in both byte orders; the right card found |
| `maillab` | Maillab, fair | both clients end; in step, and the mail accepted, unless a reply is cut or a command refused |

### Bounds, and why they are enough

* *Maps*: two slots, three keys (one more than fits), timeouts 0, 1, 2 and a
  clock up to 4: an entry can expire, its slot be reused by another key, and the
  other key expire in turn. The two slots are requested of the 15 that fit, as
  one branch of `map_init` has it; `arp_init`, in the runs of Arp, takes the
  other. The theorems cover all sizes.
* *arp*: two peers, two slots in the table and two in the queue, two packets, one
  of them short enough to be padded: one is sent or waits while the other is
  sent, waits too, or finds its place taken; a slot of the queue is reused after
  its packet expired. Timeout and interval are 1 and the clock stops at 3: a
  claim, a queue entry or both can expire, a new one can follow, and a table full
  of dead entries refuses an answer. `arp_min_interval` and `stack` have a queue
  of one slot, so that it is full. Senders are the peers (the filter of
  `driver_open` drops frames from our own MAC address); targets are our address
  and another one. The symmetry set permutes peers and MAC addresses, which no
  property names.
* *stack*: the application's datagrams are 2960 and 2961 bytes with their UDP
  header: an exact multiple of 1480 and one byte more. The six frames are a
  datagram to main's port, one to a closed port, an echo request of exactly 1500
  bytes, and three ARP packets, from two peers; they share a queue of one slot,
  so answers and datagrams compete for it, find it full, wait, expire and are
  flushed. `MaxStall` lets the clock move once within an `ip_out`: that is the
  interval for which the waiting first fragment shields the wire from the
  garbage that follows (`NoForeignBytesOnWire` is a statement about an `ip_out`
  that takes at most `ARP_MIN_INTERVAL`). With a stall of 2, a queue of two slots
  and a clock up to 4, TLC finds foreign bytes on the wire; with one slot it does
  not, as the expired fragment then keeps the queue full. The ping has IP options,
  the datagram to the closed port has none: with options the quote of port
  unreachable is known to be misplaced (hazards, `udp.c:80`), so the bytes due
  could not be sent. That and the like is what `Orderly` asks of the frames; the
  instance states it as an assumption, so that TLC evaluates it. `FirstData` and
  `LastData` do not bind here.
* *lan*: one kind of packet each way, a table of two slots and a queue of one.
  With one peer each, a table of two slots can hold the same peer's dead and live
  entry and use up its budget; that case is the property's second disjunct and
  really occurs (without it TLC finds a counterexample). b's packets are not
  followed once sent: they only make b one who waits for a's address.
* *rx_path*: one frame per way through the layers, including odd and even
  lengths, IP options, an overlong header length and the two "protocol number as
  ethertype" frames; two slots for three ports, so that opens fail. `FirstData`
  and `LastData` bound the receive window, which drifts up with delivered
  datagrams and down with errors; 100 bytes let it move several frames either
  way. `rx_overrun` removes that bound for a single frame.
* *pure*: files of up to five bytes out of three values, whose bits differ in every
  group of two, four and six, and of up to ten bytes out of two, with lines of twelve
  characters, so that a line end falls inside and at the end of a text; blocks of
  four bytes, which
  like the 4096 of the code leave a remainder of one, and decoder blocks of
  five. Packets of up to six bytes: three words, with and without a carry, and an
  odd byte after none, one or two of them. Addresses of three bits, one or two cards with one IPv4
  address each or none, or one with an address of another family before or after
  it: every relation between prefix, mask and our address, and every tie.
  `MAX_STRING` is 9 for the code's 3000, so that the files of ten bytes are refused
  and all others accepted. `encode_str_room` needs strings of up to four bytes only.
* *maillab*: replies of one or two pieces, messages of two lines: enough for a
  client to be any number of replies behind, as each recv may return one piece.
  `mail_replies` has the same bounds.
* The buffer is that of the build: 131325 bytes (`BUF_MAX_LEN`).

Deadlock is checked except in `pure`, `encode_str_room`, `maillab` and
`mail_replies`, whose programs end; that the
clients end rather than wait for ever is the property `Finishes`.

### Fairness

`Maillab` assumes weak fairness of the client, a program that runs until it ends,
and of the server's reading of what was sent to it (TCP delivers, and a server
answers); hanging up is never assumed.

`Lan` assumes that a has traffic: weak fairness of `SendFromA` and of time, so
that in every second a's IP layer hands at least one packet down. That is a
premise of the property (packets keep arriving *while a keeps sending*), not a
claim about the code. The main loop of each host polls for ever (`main.c:27`),
so a frame that reaches the card is handled; the medium is fair in the weakest
sense that makes delivery possible at all: strong fairness per kind of frame
and direction, so that frames of a kind sent again and again are not all lost.
Nothing is assumed about how soon a reply comes: the packet it was meant for may
have expired.

### Findings

A run shows each of these, as a counterexample to what a comment or a header says:

1. `arp_out` ignores that `map_set` failed (`arp.c:178`, run `arp_min_interval`):
   with `arp_buf` full, it sends a request per packet, closer than
   `ARP_MIN_INTERVAL`.
2. `ip_out` cuts `txbuf` while `arp_req` rebuilds it (`ip.c:123`, `ip_send_tiles`):
   the first large datagram to an unresolved peer is lost but for its first
   fragment, and its last fragment holds ARP bytes.
3. `driver_recv` copies to a window nobody moves back (`driver.c:165`,
   `rx_overrun`): after about 1600 delivered datagrams it writes behind the array.
   The tests' driver calls `buf_init` first, so no test sees it.
4. The buffer of `encode_str` is twice the string (`base64_utils.c:23`,
   `encode_str_room`), which is too small for 0, 1, 2 and 4 bytes, and `send.c:75,82`
   has it encode an empty one. For 3, 5 and 7 bytes it is filled to the last byte;
   that no other length is too large is proved (`Base64StringFits`).
5. `print_msg` takes one `recv` for one reply (`send.c:22`, `mail_replies`): after
   replies in pieces the mail client is behind for good and closes without having
   read, or printed, the last responses; the server may lose what it has not read
   by then.

Others are part of the models, and the properties are stated for what they leave:

6. Expired entries keep their share of `size` for ever (`map.c:104`): an ARP table
   that has seen `max_size` peers never learns another one, even when all entries
   are dead. `FullOfExpiredIsForever` says so, and `SpentMapIsFrozen` proves it for
   every map.
7. Stamps are compared with the wall clock (`map.c:64`): when it is set back, expired
   entries live again, a key can have two, and `map_delete` removes one. `UniqueKeys`
   is about a clock that is never set back.
8. Ethertypes and IP protocols share `net_table` (`net.c:72`): a frame of type 17 is
   handed to UDP with a MAC address as its source.
9. `ip_in` never compares `hdr_len` with `total_len16` (`ip.c:52`): for a header
   longer than the packet `buf_remove_header` fails unnoticed, and UDP takes the IP
   header for its own. `FitsItsHeader` leaves such frames out.
10. `udp_in` steps back 20 bytes for the quote of port unreachable (`udp.c:80`) where
    `ip_in` removed a header of `hdr_len * 4`: with IP options the quote starts
    inside the header. `QuotesIpHeader` is about headers without options.
11. `driver_find` keeps the match of a card's last IPv4 address only
    (`driver.c:61`): a card whose first address has ours in its subnet may not be
    found. `LongestPrefix` is about cards with one.

## 4. The proofs

All theorems are about every value of the constants that the modules' named
assumptions allow: any peers, packets, frames, datagrams and their lengths, any
capacities and timeouts, any bound on the clock. TLC evaluates the assumptions on
the instances it runs.

| module | theorem | statement |
|---|---|---|
| MapStore_proofs | `TypeCorrect` | `SpecAnyClock => []TypeOK` |
| | `SizeCovers` | `SpecAnyClock => []SizeCoversOccupied` |
| | `RoomExists` | `SpecAnyClock => []RoomBehindSizeCheck` |
| | `SizeIsExactWithoutTimeout` | `Spec => []SizeIsLiveCount` |
| | `UniqueKeysInvariant` | `Spec => []UniqueKeys` |
| | `SpentMapIsFrozen` | `Spec => FullOfExpiredIsForever` |
| | `ImplementsDictionary` | `Spec => DictionarySpec` |
| Arp_proofs | `TypeCorrect` | `Spec => []TypeOK` |
| | `SentAtMostOnce` | `HSpec => []AtMostOnce` |
| | `QueueKeepsPackets` | `HSpec => []NoSilentLoss` |
| | `MacsAreFresh` | `HSpec => FreshMac` |
| | `RequestsAreSpaced` | `HSpec => RequestSpacing` |
| RxPath_proofs | `TypeCorrect` | `Spec => []TypeOK` |
| | `DeliveryFollowsOpenPorts` | `Spec => []DeliveredIffOpen` |
| | `PayloadsAreExact` | `Spec => []PayloadExact` |
| | `ErrorsQuoteIpHeader` | `Spec => []QuotesIpHeader` |
| | `ChecksumLeavesNoTrace` | `Spec => HeaderComesBack` |
| Stack_proofs | `DatagramsAreTiled` | `SSpec => []TilesUnlessAsked` |
| | `FramesAreWhole` | `SSpec => []FramesArePieces` |
| | `ArpBytesStayHome` | `SSpec => []NoForeignBytesOnWire`, if `MaxStall <= ARP_MIN_INTERVAL` |
| | `FramesAreAnsweredOnce` | `SSpec => AnswersSpec`, if `Orderly` |
| Pure_proofs | `ChecksumIsRight` | `SumSpec => []IsOnesComplement` |
| | `ByteOrderDoesNotMatter` | `SumSpec => []ByteOrderIrrelevant` |
| | `BestCardIsChosen` | `BSpec => []LongestPrefix` |
| | `Base64EncodesFile` | `CodeSpec => []EncodesFile` |
| | `Base64RoundTrip` | `CodeSpec => []RoundTrip` |
| | `Base64StringFits` | `CodeSpec => []StringFits`, if `CHARS_PER_LINE >= 12` |
| Maillab_proofs | `StaysInStep` | `Spec => []InStep` |
| | `MailIsAccepted` | `Spec => []Accepted` |

### What they assume

* Of sizes and times: that they are numbers, and that capacities, timeouts and
  bounds are positive. Of names: that the stack's own addresses are no peer's, that
  the value of a zeroed field is no address, that ARP packets, datagrams and
  frames are different things.
* `ARP_MIN_INTERVAL <= ARP_TIMEOUT_SEC` (config.h:35 has 1 and 300): `RequestSpacing`
  needs that a peer just asked is not forgotten and asked again sooner.
* `RoomAssumption`: half the array holds the largest `udp_send` and all headers in
  front of it, 65577 of 65662 bytes; config.h:40 computes the array for that. No
  header of an outgoing packet then runs out of room, so no failure of `buf.c`
  that the code ignores can occur there.
* The first three theorems of MapStore_proofs are about a clock that jumps at will.
  All others are about one that is never set back.
* `MaxStall <= ARP_MIN_INTERVAL` for `ArpBytesStayHome`: an `ip_out` slower than
  that sends ARP bytes as an IP payload (see the bounds above).
* `Orderly` for `FramesAreAnsweredOnce`: the window of `rxbuf` is away from the end of
  the array (finding 3), no frame has a protocol number for an ethertype
  (finding 8), no accepted packet has a header longer than itself, and none that
  finds no port has IP options (hazards, `ip.c:52` and `udp.c:80`). TLC finds a
  counterexample without either of the last two.
* `CHARS_PER_LINE` a positive multiple of four (cencode.c:10 has 72), as the code
  counts groups of four and not characters; for `Base64StringFits` at least 12. With
  lines of 8 the buffer is one byte too small for strings of 7 too, so the theorem
  needs this.
* Files of bytes, blocks and pieces of at least one byte, and any number for
  `MAX_STRING`.
* Each buffer of `Bufs` is handed to `arp_out` at most once (`HArpOut`): that is how
  the four theorems about `HSpec` can tell packets apart. The history adds no steps
  (`HSpec => Spec`, a lemma of Arp_proofs), but `Spec` has the behaviours without that
  premise too.

### The invariants, and why they are needed

*Maps.* `TypeOK` is not inductive: `map_delete` decrements `size`, and only the fact
that a found entry was counted keeps it from going below 0. The invariant is
`CounterInv`: types, `Cardinality(Occupied) <= size`, with equality when the map has
no timeout. It does not mention the clock, so it holds whatever the clock does;
each of `map_set`'s three outcomes and `map_delete` adds, removes or keeps one
occupied slot, which `FiniteSetTheorems` turns into arithmetic. A free slot for
`RoomExists` follows by counting. Unique keys are inductive only together with the
counter (an insertion relies on `map_get` having found no valid entry at the
earlier of two times) and only under a monotone clock: validity then only
shrinks, so the slots valid after the call were valid at the lookup or are the one
just written. *Dictionary* follows step by step: with unique keys the live entries
are a function, and every outcome of `map_set` is an insertion, a refresh or a
refusal of the dictionary, preceded by the expiry of whatever time has taken.

*Arp.* `ArpInv` adds to the types that both maps have their counters and unique keys
and that a live slot of `arp_buf` holds an unframed copy of a packet: the framed
ones that `ethernet_out` leaves behind are in freed slots only. For the history
`HInv` adds four relations: a live packet waits under its destination and has not
been sent (`Waiting`); a packet on its way that is not live was refused or is older
than the interval (`Kept`); every live table entry was claimed by its peer when its
stamp says (`Claimed`); and a peer that was asked within the interval, for a packet
that found a place in the queue, still has it waiting there or has its answer in
the table, unless the table is full (`Pending`). A table that has spent its budget
stays full, so for it `RequestSpacing` promises nothing any more.

*Receiving.* `RxWindow` bounds the length of the window, by 1520 bytes and not by the
1514 of a frame: udp.c:80 prepends an IP header even to 1500 bytes from which ip.c
removed none, because they came straight from ethernet.c or because
`buf_remove_header` refused. Of the window's place it says only that it ends inside
the array, or no further on than the frame copied last. `OpenPorts` says that a
port is open exactly if the table has a live entry for it. The proof then follows the window through the
layers of one poll: each operation of `udp_checksum` is undone by another, and where
no IP header fits in front of the window its moves fail in pairs, so that the bytes
put back are those saved everywhere (`ChecksumPutsBytesBack`).

*Sending.* `Cutting` describes the loop of `ip_out` half way: k full pieces, each at
its offset, and a window that shows the rest. Offsets stay below 2^16 because a
payload is at most 65543 bytes, so the 16-bit counter cannot wrap. `WireInv` says
what everything that may become a frame shows: packets in the queue are whole
pieces (`Waiting`), and so is the next one of the loop (`Remains`). What makes
`NoForeignBytesOnWire` true is `Clobbered`: if an ARP packet is in `txbuf` while a
loop is under way, then a request for its destination was made at most `stall`
ticks ago, so the first fragment still waits, or the queue is full; either way
`arp_out` has nowhere to put the next one, and no address to send it to.

*Answers.* `AnsInv` is two facts: only main's port is open, and a loop under way never
cuts an answer, as an answer fits one packet. Each frame's `Due` is compared with what
the window showed when `ip_out` was called, by the lemmas on the payload and on the
quote from RxPath_proofs; then a poll is a `Receive` of Responder, an ARP packet a
`Receive` or a `Release`, and all else is `Other`: `HandingAnswers` and
`HearingAnswers` say what `arp_out` and `arp_in` do to the answers that wait.

*Checksum.* The sum of the code and the sum of the words agree as one's complement
sums only, so `SumInv` compares them after folding, at any word. The sum of n words
is a recursive function on Nat; that folding all carries at the end gives the same
as folding each one is proved for every n by the least counterexample, since the
provers cannot instantiate the library's induction theorem.

*Base64.* `EncodedTo(f, n, c, out)` says what the encoder is after n bytes of f,
however they came: it is in step A, B or C by n mod 3, keeps the bits of the last
byte that have not been written, has counted the groups of its line, and `out` is
the text up to the last complete character (`TextIs`). `DecodedTo` says the same of
the decoder, after so many characters of the alphabet. `EncodeStep` and `ReadStep`
show that one byte, or one character of the text, keeps them; that the loop over a
block does is an induction over its rounds (`EncodesBlock`, `DecodesBlock`) on the
run that `EncodeRun` and `DecodeRun` extract from the definition of `FoldLeft`.
`CodeInv` ties both to the variables: what is unread is what is left of the file
after n bytes, and `es` and `encoded` are those of n, for some n; likewise for the
way back. Without the n the cut is unknown and nothing is inductive. The end of the
file then is n = Len(file), from which `base64_encode_blockend` completes the
reference text from each of the three steps.

*Start-up.* The places two addresses share up to their first difference are an
initial segment (`SharedPrefix`), so `ip_prefix_match`, their number, is the last
of them; with a netmask whose ones come first our address is in the subnet
exactly if that number reaches the number of ones. So `Match` is the prefix shared
with a card in whose subnet we are (`CardMatch`), and `driver_find` its maximum.

*Mail.* As long as no reply is cut and nothing refused, `Position` says how many
commands and replies are under way at each place of the client's program, and
`Mailed` that the mail is in the mailbox exactly when the server has processed
the message. There is no invariant without these two premises: the client
does not look at replies.

### What the proofs showed

Some formulas that TLC had found true on its instances are false in general, and
were corrected: the bound of the receive window is 1520 bytes; `QuotesIpHeader`
needs a total length that covers the header; and `PayloadExact` needs room behind the
window, as `udp_checksum` takes off a payload byte where the array has no room for
its padding byte. And `NoForeignBytesOnWire`, which the run `stack` checks with a stall
of 1, turned out to depend on the stall.

### What is only model-checked

* Liveness, which the provers do not handle: `Finishes` of Maillab, `GetsThrough` of
  Lan.
* The five violations are counterexamples and need no proof.

## 5. What is not modelled

* Two thirds of the repository's lines (`Npcap/Include`) are vendored headers of
  the packet capture library, which declare and do nothing; the test harness
  replaces driver and ARP by files of expected frames. Of the remaining lines,
  the greater part that has no definition here is comments, declarations and
  output.
* `*tos` and the print functions (wording); `driver_close`, which nothing calls,
  and `LoadNpcapDlls`, which is compiled on Windows only.
* Header fields that no layer tests (identification is kept, time to live is not),
  byte order, and the values of checksums but in Checksum. So not the wrapped
  UDP length, the source port handed to the handler unconverted, or a checksum
  that comes out as 0 (hazards without a property).
* Reassembly does not exist in the code: a fragment is treated as a datagram,
  which depends on its bytes alone.
* Cards with several IPv4 addresses and other netmasks are modelled (`Match`), but
  `LongestPrefix` is stated for cards with one and for netmasks whose ones come first:
  the code keeps the match of the last address (finding 11), and compares the prefix
  with the netmask's leading ones only, so that with other masks a card is taken whose
  subnet we are not in.
* An ICMP error quotes 28 bytes of a packet that may be shorter (`icmp.c:60`): what
  lies behind it in `rxbuf` is not told apart.
* A second that passes within `arp_out` between the stamp of the queued packet
  (`arp.c:178`) and the request (`arp.c:179`). Requests therefore count from when
  their packets were queued; on the wire two of them can be closer than
  `RequestSpacing` says by the time between those two lines.
* That a waiting packet goes to the MAC inside the ARP packet while the table learns
  the one of the Ethernet header (`arp.c:140`) is modelled, but the source does not
  say which is right: `FreshMac` accepts both.
* What a server makes of a dialogue that the client leaves (`send.c:161`), and of the
  lines of a message it did not ask for.
* Of maillab: the text of commands and headers, the attachment's file name, the
  command line.

## 6. Plan

The models are complete as far as the above, and every safety invariant and every
action property that a passing run checks is proved. What is left for the prover is
what it cannot do, liveness; worth modelling next would be reassembly, if the stack
ever gets it, and the data of checksums in the fields of real headers.
