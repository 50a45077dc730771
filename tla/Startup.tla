------------------------------ MODULE Startup -------------------------------
(***************************************************************************)
(* How the stack comes up: net_init opens the driver, which looks for the  *)
(* network card whose subnet our address is in (driver_find), opens it and *)
(* sets a filter; any failure ends main.  Then the layers are initialised  *)
(* and main enters its loop, where module Stack begins.                    *)
(***************************************************************************)
EXTENDS Integers, Sequences, FiniteSetsExt

CONSTANTS WIDTH,      \* bits of an IP address: 32
          net_if_ip,
          Adapters    \* lists of cards that pcap_findalldevs may find

Address == [1 .. WIDTH -> {0, 1}]
None == 0

\* A card is the list of its addresses, of which some are IPv4.
ASSUME StartupAssumption ==
  /\ WIDTH \in Nat \ {0}
  /\ net_if_ip \in Address
  /\ Adapters \subseteq
       Seq(Seq([inet : BOOLEAN, addr : Address, netmask : Address]))

VARIABLES alldevs,
          card,     \* index of the card in use, or None
          mask,     \* what the filter is compiled with, or None
          boot,     \* the call that comes next, or "loop", or "exit"
          failed    \* the call that failed, or "none"

bootVars == <<alldevs, card, mask, boot, failed>>

\* The number of leading bits that two addresses share.
ip_prefix_match(ipa, ipb) ==
  Cardinality({k \in 1 .. WIDTH : \A j \in 1 .. k : ipa[j] = ipb[j]})

\* The places of a card's IPv4 addresses in its list, and the last of them.
Inet(devs, i) == {k \in DOMAIN devs[i] : devs[i][k].inet}

LastInet(devs, i) == devs[i][Max(Inet(devs, i))]

\* A match that does not look at the card's netmask.
Match_unmasked_bug(devs, i) ==
  IF Inet(devs, i) = {} THEN 0
  ELSE ip_prefix_match(net_if_ip, LastInet(devs, i).addr)

\* match[i] is overwritten by each address of the card: the last one counts.
Match(devs, i) ==
  IF Inet(devs, i) = {} THEN 0
  ELSE LET x == LastInet(devs, i)
           match == ip_prefix_match(net_if_ip, x.addr)
       IN  IF match < ip_prefix_match([k \in 1 .. WIDTH |-> 1], x.netmask)
           THEN 0 ELSE match

\* The first card with the best match, unless there is none or it is our own
\* address.
MaxMatch(devs) == Max({0} \cup {Match(devs, i) : i \in DOMAIN devs})

driver_find(devs) ==
  IF MaxMatch(devs) \in {0, WIDTH} THEN None
  ELSE Min({i \in DOMAIN devs : Match(devs, i) = MaxMatch(devs)})

-----------------------------------------------------------------------------
BInit == /\ alldevs \in Adapters
         /\ card = None
         /\ mask = None
         /\ boot = "driver_find"
         /\ failed = "none"

DriverFind ==
  /\ boot = "driver_find" /\ driver_find(alldevs) # None
  /\ card' = driver_find(alldevs)
  /\ mask' = LastInet(alldevs, card').netmask
  /\ boot' = "pcap_open_live"
  /\ UNCHANGED <<alldevs, failed>>

\* pcap_findalldevs may fail, and then the search itself.
DriverFindFails ==
  /\ boot = "driver_find"
  /\ boot' = "exit"
  /\ \/ failed' = "pcap_findalldevs"
     \/ driver_find(alldevs) = None /\ failed' = "driver_find"
  /\ UNCHANGED <<alldevs, card, mask>>

Then == [pcap_open_live |-> "pcap_setnonblock",
         pcap_setnonblock |-> "pcap_compile",
         pcap_compile |-> "pcap_setfilter",
         pcap_setfilter |-> "loop"]

\* The other calls of driver_open; after the last, net_init cannot fail.
DriverOpen == /\ boot \in DOMAIN Then
              /\ \/ boot' = Then[boot] /\ failed' = failed
                 \/ boot' = "exit" /\ failed' = boot
              /\ UNCHANGED <<alldevs, card, mask>>

BNext == DriverFind \/ DriverFindFails \/ DriverOpen

BSpec == BInit /\ [][BNext]_bootVars

-----------------------------------------------------------------------------
\* driver.c:35: the card chosen is the one with the longest matching prefix, our
\* address lies in its subnet, and nobody has it; and if there is such a card
\* the search succeeds.  Shown for cards with one IPv4 address each, since of
\* several the code sees only the last, and for netmasks whose ones come first,
\* since the code looks at no others.
Addresses(i) == {alldevs[i][k] : k \in Inet(alldevs, i)}

Ordinary ==
  \A i \in DOMAIN alldevs :
    /\ \A k, l \in Inet(alldevs, i) : k = l
    /\ \A x \in Addresses(i) : \A k, l \in 1 .. WIDTH :
         k < l => x.netmask[l] <= x.netmask[k]

InSubnet(x) ==
  \A k \in 1 .. WIDTH : x.netmask[k] = 1 => x.addr[k] = net_if_ip[k]

Own(i) == \E x \in Addresses(i) : x.addr = net_if_ip

Shared(i) ==
  Max({0} \cup {k \in 1 .. WIDTH :
        \E x \in Addresses(i) :
          InSubnet(x) /\ SubSeq(x.addr, 1, k) = SubSeq(net_if_ip, 1, k)})

LongestPrefix ==
  Ordinary =>
    /\ card # None => /\ \A i \in DOMAIN alldevs : Shared(i) <= Shared(card)
                      /\ \A i \in DOMAIN alldevs : ~ Own(i)
                      /\ \E x \in Addresses(card) :
                           InSubnet(x) /\ mask = x.netmask
    /\ failed = "driver_find" => \/ \A i \in DOMAIN alldevs : Shared(i) = 0
                                 \/ \E i \in DOMAIN alldevs : Own(i)
=============================================================================
