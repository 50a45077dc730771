-------------------------- MODULE PacketBuf_proofs --------------------------
(***************************************************************************)
(* What the operations on packet buffers do to a window, for buffers and   *)
(* packets of any size, and what becomes of a window on the detour of      *)
(* udp_checksum.                                                           *)
(***************************************************************************)
EXTENDS Headers, TLAPS

-----------------------------------------------------------------------------
\* A window somewhere, on bytes of some packet of S.
Windows(S) == [data : Nat, len : Nat, org : Int, src : S]

\* Its end: behind the bytes last received, or still inside the array.
EndsBy(b, e) == b.data + b.len <= e \/ b.data + b.len < BUF_MAX_LEN

\* A buffer just made ends at half the array, or is what it was.
LEMMA MakeWindow ==
  ASSUME NEW S, NEW b \in Windows(S), NEW n \in Nat,
         NEW r, r = buf_init(b, n)
  PROVE  /\ r \in Windows(S) /\ r.org = b.org /\ r.src = b.src
         /\ n >= Half => r = b
         /\ n < Half => r.data = Half - n /\ r.len = n
<1>0. Half \in Nat
  BY BufMaxLenAssumption DEF Half
<1>1. CASE n >= Half
  BY <1>0, <1>1 DEF buf_init
<1>2. CASE n < Half
  <2>1. r = [b EXCEPT !.len = n, !.data = Half - n]
    BY <1>0, <1>2 DEF buf_init
  <2>2. Half - n \in Nat
    BY <1>0, <1>2
  <2>3. r = [data |-> Half - n, len |-> n, org |-> b.org, src |-> b.src]
    BY <2>1 DEF Windows
  <2> QED BY <1>0, <1>2, <2>2, <2>3 DEF Windows
<1> QED BY <1>0, <1>1, <1>2

\* Bytes copied in, from byte first of src.
LEMMA FillWindow ==
  ASSUME NEW S, NEW b \in Windows(S), NEW src \in S, NEW first \in Int,
         NEW r, r = Fill(b, src, first)
  PROVE  /\ r \in Windows(S) /\ r.data = b.data /\ r.len = b.len
         /\ r.src = src /\ r.org = b.data - first
<1> DEFINE o == b.data - first
<1>1. o \in Int
  BY DEF Windows
<1>2. r = [b EXCEPT !.src = src, !.org = o]
  BY DEF Fill
<1> HIDE DEF o
<1>3. r = [data |-> b.data, len |-> b.len, org |-> o, src |-> src]
  BY <1>1, <1>2 DEF Windows
<1> QED BY <1>1, <1>3 DEF Windows, o

\* What the operations do to a window, and when they fail.
LEMMA AddHeader ==
  ASSUME NEW S, NEW b \in Windows(S), NEW n \in Nat,
         NEW r, r = buf_add_header(b, n)
  PROVE  /\ r \in Windows(S) /\ r.org = b.org /\ r.src = b.src
         /\ b.data < n => r.data = b.data /\ r.len = b.len
         /\ b.data >= n => r.data = b.data - n /\ r.len = b.len + n
<1>0. b.data \in Nat /\ b.len \in Nat
  BY DEF Windows
<1>1. CASE b.data < n
  BY <1>0, <1>1 DEF buf_add_header
<1>2. CASE b.data >= n
  <2>1. r = [b EXCEPT !.len = b.len + n, !.data = b.data - n]
    BY <1>0, <1>2 DEF buf_add_header
  <2>2. b.len + n \in Nat /\ b.data - n \in Nat
    BY <1>0, <1>2
  <2>3. r = [data |-> b.data - n, len |-> b.len + n, org |-> b.org,
             src |-> b.src]
    BY <2>1 DEF Windows
  <2> QED BY <1>2, <2>2, <2>3 DEF Windows
<1> QED BY <1>0, <1>1, <1>2

LEMMA RemoveHeader ==
  ASSUME NEW S, NEW b \in Windows(S), NEW n \in Nat,
         NEW r, r = buf_remove_header(b, n)
  PROVE  /\ r \in Windows(S) /\ r.org = b.org /\ r.src = b.src
         /\ b.len < n => r.data = b.data /\ r.len = b.len
         /\ b.len >= n => r.data = b.data + n /\ r.len = b.len - n
<1>0. b.data \in Nat /\ b.len \in Nat
  BY DEF Windows
<1>1. CASE b.len < n
  BY <1>0, <1>1 DEF buf_remove_header
<1>2. CASE b.len >= n
  <2>1. r = [b EXCEPT !.len = b.len - n, !.data = b.data + n]
    BY <1>0, <1>2 DEF buf_remove_header
  <2>2. b.len - n \in Nat /\ b.data + n \in Nat
    BY <1>0, <1>2
  <2>3. r = [data |-> b.data + n, len |-> b.len - n, org |-> b.org,
             src |-> b.src]
    BY <2>1 DEF Windows
  <2> QED BY <1>2, <2>2, <2>3 DEF Windows
<1> QED BY <1>0, <1>1, <1>2

LEMMA AddPadding ==
  ASSUME NEW S, NEW b \in Windows(S), NEW n \in Nat,
         NEW r, r = buf_add_padding(b, n)
  PROVE  /\ r \in Windows(S) /\ r.org = b.org /\ r.src = b.src
         /\ r.data = b.data
         /\ b.data + b.len + n >= BUF_MAX_LEN => r.len = b.len
         /\ b.data + b.len + n < BUF_MAX_LEN => r.len = b.len + n
BY BufMaxLenAssumption DEF buf_add_padding, Windows

LEMMA RemovePadding ==
  ASSUME NEW S, NEW b \in Windows(S), NEW n \in Nat,
         NEW r, r = buf_remove_padding(b, n)
  PROVE  /\ r \in Windows(S) /\ r.org = b.org /\ r.src = b.src
         /\ r.data = b.data
         /\ b.len < n => r.len = b.len
         /\ b.len >= n => r.len = b.len - n
BY DEF buf_remove_padding, Windows

\* Every operation moves a window over the bytes that are there, or fails.
LEMMA OperationsKeepWindows ==
  ASSUME NEW S, NEW b \in Windows(S), NEW e \in Nat, EndsBy(b, e),
         NEW n \in Nat
  PROVE  /\ buf_add_header(b, n) \in Windows(S)
         /\ EndsBy(buf_add_header(b, n), e)
         /\ buf_remove_header(b, n) \in Windows(S)
         /\ EndsBy(buf_remove_header(b, n), e)
         /\ buf_add_padding(b, n) \in Windows(S)
         /\ EndsBy(buf_add_padding(b, n), e)
         /\ buf_remove_padding(b, n) \in Windows(S)
         /\ EndsBy(buf_remove_padding(b, n), e)
<1>0. BUF_MAX_LEN \in Nat /\ b.data \in Nat /\ b.len \in Nat
  BY BufMaxLenAssumption DEF Windows
<1>1. /\ buf_add_header(b, n) \in Windows(S)
      /\ EndsBy(buf_add_header(b, n), e)
  <2> DEFINE r == buf_add_header(b, n)
  <2>1. /\ r \in Windows(S)
        /\ b.data < n => r.data = b.data /\ r.len = b.len
        /\ b.data >= n => r.data = b.data - n /\ r.len = b.len + n
    BY AddHeader
  <2> HIDE DEF r
  <2>2. EndsBy(r, e)
    BY <1>0, <2>1 DEF EndsBy
  <2> QED BY <2>1, <2>2 DEF r
<1>2. /\ buf_remove_header(b, n) \in Windows(S)
      /\ EndsBy(buf_remove_header(b, n), e)
  <2> DEFINE r == buf_remove_header(b, n)
  <2>1. /\ r \in Windows(S)
        /\ b.len < n => r.data = b.data /\ r.len = b.len
        /\ b.len >= n => r.data = b.data + n /\ r.len = b.len - n
    BY RemoveHeader
  <2> HIDE DEF r
  <2>2. EndsBy(r, e)
    BY <1>0, <2>1 DEF EndsBy
  <2> QED BY <2>1, <2>2 DEF r
<1>3. /\ buf_add_padding(b, n) \in Windows(S)
      /\ EndsBy(buf_add_padding(b, n), e)
  <2> DEFINE r == buf_add_padding(b, n)
  <2>1. /\ r \in Windows(S)
        /\ r.data = b.data
        /\ b.data + b.len + n >= BUF_MAX_LEN => r.len = b.len
        /\ b.data + b.len + n < BUF_MAX_LEN => r.len = b.len + n
    BY AddPadding
  <2> HIDE DEF r
  <2>2. EndsBy(r, e)
    BY <1>0, <2>1 DEF EndsBy
  <2> QED BY <2>1, <2>2 DEF r
<1>4. /\ buf_remove_padding(b, n) \in Windows(S)
      /\ EndsBy(buf_remove_padding(b, n), e)
  <2> DEFINE r == buf_remove_padding(b, n)
  <2>1. /\ r \in Windows(S)
        /\ r.data = b.data
        /\ b.len < n => r.len = b.len
        /\ b.len >= n => r.len = b.len - n
    BY RemovePadding
  <2> HIDE DEF r
  <2>2. EndsBy(r, e)
    BY <1>0, <2>1 DEF EndsBy
  <2> QED BY <2>1, <2>2 DEF r
<1> QED BY <1>1, <1>2, <1>3, <1>4

LEMMA ChecksumKeepsWindows ==
  ASSUME NEW S, NEW b \in Windows(S), NEW e \in Nat, EndsBy(b, e)
  PROVE  udp_checksum(b) \in Windows(S) /\ EndsBy(udp_checksum(b), e)
<1>0. IpHdr \in Nat /\ IpHdr - PseudoHdr \in Nat /\ UdpHdr \in Nat /\ 1 \in Nat
  BY DEF IpHdr, PseudoHdr, UdpHdr
<1>1. Pseudo(b) \in Windows(S) /\ EndsBy(Pseudo(b), e)
  BY <1>0, OperationsKeepWindows DEF Pseudo
<1>2. Even(b) \in Windows(S) /\ EndsBy(Even(b), e)
  BY <1>0, <1>1, OperationsKeepWindows DEF Even
<1>3. Restored(b) \in Windows(S) /\ EndsBy(Restored(b), e)
  BY <1>0, <1>2, OperationsKeepWindows DEF Restored
<1> QED BY <1>0, <1>3, OperationsKeepWindows DEF udp_checksum

\* The window at the pseudo header, padded, and moved back.
LEMMA PseudoWindow ==
  ASSUME NEW S, NEW b \in Windows(S), b.data >= IpHdr \/ b.len >= UdpHdr
  PROVE  /\ Pseudo(b) \in Windows(S)
         /\ Pseudo(b).org = b.org /\ Pseudo(b).src = b.src
         /\ b.data >= 20 => /\ Pseudo(b).len = b.len + 12
                            /\ Pseudo(b).data = b.data - 12
         /\ b.data < 20 => /\ Pseudo(b).len = b.len - 8
                           /\ Pseudo(b).data = b.data + 8
<1> DEFINE c == buf_add_header(b, 20)
           d == buf_remove_header(c, 8)
<1>1. /\ c \in Windows(S) /\ c.org = b.org /\ c.src = b.src
      /\ b.data < 20 => c.data = b.data /\ c.len = b.len
      /\ b.data >= 20 => c.data = b.data - 20 /\ c.len = b.len + 20
  BY AddHeader
<1> HIDE DEF c
<1>2. /\ d \in Windows(S) /\ d.org = c.org /\ d.src = c.src
      /\ c.len < 8 => d.data = c.data /\ d.len = c.len
      /\ c.len >= 8 => d.data = c.data + 8 /\ d.len = c.len - 8
  BY <1>1, RemoveHeader
<1>3. d = Pseudo(b)
  BY DEF d, c, Pseudo, IpHdr, PseudoHdr
<1> HIDE DEF d
<1>4. b.data \in Nat /\ b.len \in Nat /\ (b.data >= 20 \/ b.len >= 8)
  BY DEF Windows, IpHdr, UdpHdr
<1>5. b.data >= 20 => d.len = b.len + 12 /\ d.data = b.data - 12
  BY <1>1, <1>2, <1>4
<1>6. b.data < 20 => d.len = b.len - 8 /\ d.data = b.data + 8
  BY <1>1, <1>2, <1>4
<1> QED BY <1>1, <1>2, <1>3, <1>5, <1>6

LEMMA EvenWindow ==
  ASSUME NEW S, NEW b \in Windows(S), Pseudo(b) \in Windows(S)
  PROVE  /\ Even(b) \in Windows(S) /\ Even(b).data = Pseudo(b).data
         /\ Even(b).org = Pseudo(b).org /\ Even(b).src = Pseudo(b).src
         /\ Even(b).len \in {Pseudo(b).len, Pseudo(b).len + 1}
         /\ ~ Odd(b) => Even(b).len = Pseudo(b).len
         /\ Odd(b) /\ Pseudo(b).data + Pseudo(b).len + 1 < BUF_MAX_LEN
              => Even(b).len = Pseudo(b).len + 1
<1>1. BUF_MAX_LEN \in Nat /\ Pseudo(b).data \in Nat /\ Pseudo(b).len \in Nat
  BY BufMaxLenAssumption DEF Windows
<1>2. CASE Odd(b)
  <2> DEFINE p == Pseudo(b)
             r == buf_add_padding(p, 1)
  <2>1. p \in Windows(S) /\ p = Pseudo(b)
    OBVIOUS
  <2> HIDE DEF p
  <2>2. /\ r \in Windows(S) /\ r.org = p.org /\ r.src = p.src
        /\ r.data = p.data
        /\ p.data + p.len + 1 >= BUF_MAX_LEN => r.len = p.len
        /\ p.data + p.len + 1 < BUF_MAX_LEN => r.len = p.len + 1
    BY <2>1, AddPadding
  <2>3. Even(b) = r
    BY <1>2, <2>1 DEF Even
  <2> HIDE DEF r
  <2> QED BY <1>1, <1>2, <2>1, <2>2, <2>3
<1>3. CASE ~ Odd(b)
  BY <1>3 DEF Even
<1> QED BY <1>2, <1>3

LEMMA RestoredWindow ==
  ASSUME NEW S, NEW b \in Windows(S), Even(b) \in Windows(S),
         Even(b).data >= 8
  PROVE  /\ Restored(b) \in Windows(S)
         /\ Restored(b).org = Even(b).org /\ Restored(b).src = Even(b).src
         /\ Even(b).len >= 12 => /\ Restored(b).len = Even(b).len - 12
                                 /\ Restored(b).data = Even(b).data + 12
         /\ Even(b).len < 12 => /\ Restored(b).len = Even(b).len + 8
                                /\ Restored(b).data = Even(b).data - 8
<1> DEFINE a == Even(b)
           c == buf_add_header(a, 8)
           d == buf_remove_header(c, 20)
<1>0. d = Restored(b) /\ a = Even(b)
  BY DEF Restored, UdpHdr, IpHdr
<1> HIDE DEF a
<1>1. /\ c \in Windows(S) /\ c.org = a.org /\ c.src = a.src
      /\ c.data = a.data - 8 /\ c.len = a.len + 8
  BY <1>0, AddHeader DEF Windows
<1> HIDE DEF c
<1>2. /\ d \in Windows(S) /\ d.org = c.org /\ d.src = c.src
      /\ c.len < 20 => d.data = c.data /\ d.len = c.len
      /\ c.len >= 20 => d.data = c.data + 20 /\ d.len = c.len - 20
  BY <1>1, RemoveHeader
<1> HIDE DEF d
<1>3. a.data \in Nat /\ a.len \in Nat
  BY <1>0 DEF Windows
<1>4. a.len >= 12 => d.len = a.len - 12 /\ d.data = a.data + 12
  BY <1>1, <1>2, <1>3
<1>5. a.len < 12 => d.len = a.len + 8 /\ d.data = a.data - 8
  BY <1>1, <1>2, <1>3
<1> QED BY <1>0, <1>1, <1>2, <1>4, <1>5

LEMMA ChecksumOfRestored ==
  ASSUME NEW S, NEW b \in Windows(S), Restored(b) \in Windows(S)
  PROVE  /\ udp_checksum(b) \in Windows(S)
         /\ udp_checksum(b).data = Restored(b).data
         /\ udp_checksum(b).org = Restored(b).org
         /\ udp_checksum(b).src = Restored(b).src
         /\ ~ Odd(b) \/ Restored(b).len = 0
              => udp_checksum(b).len = Restored(b).len
         /\ Odd(b) /\ Restored(b).len # 0
              => udp_checksum(b).len = Restored(b).len - 1
<1>1. Restored(b).len \in Nat
  BY DEF Windows
<1>2. CASE Odd(b)
  BY <1>1, <1>2, RemovePadding DEF udp_checksum
<1>3. CASE ~ Odd(b)
  BY <1>3 DEF udp_checksum
<1> QED BY <1>2, <1>3

\* udp_checksum never leaves the window longer than it found it.
LEMMA ChecksumNeverLengthens ==
  ASSUME NEW S, NEW b \in Windows(S), b.len >= UdpHdr
  PROVE  udp_checksum(b).len <= b.len
<1>0. b.data \in Nat /\ b.len \in Nat /\ b.len >= 8
  BY DEF Windows, UdpHdr
<1>1. /\ Pseudo(b) \in Windows(S)
      /\ b.data >= 20 => /\ Pseudo(b).len = b.len + 12
                         /\ Pseudo(b).data = b.data - 12
      /\ b.data < 20 => /\ Pseudo(b).len = b.len - 8
                        /\ Pseudo(b).data = b.data + 8
  BY PseudoWindow
<1>2. /\ Even(b) \in Windows(S) /\ Even(b).data >= 8
      /\ Even(b).len \in {Pseudo(b).len, Pseudo(b).len + 1}
      /\ ~ Odd(b) => Even(b).len = Pseudo(b).len
  <2>1. Pseudo(b).data >= 8
    BY <1>0, <1>1
  <2> QED BY <1>1, <2>1, EvenWindow
<1>3. /\ Restored(b) \in Windows(S)
      /\ Even(b).len >= 12 => Restored(b).len = Even(b).len - 12
      /\ Even(b).len < 12 => Restored(b).len = Even(b).len + 8
  BY <1>2, RestoredWindow
<1>4. /\ ~ Odd(b) \/ Restored(b).len = 0
           => udp_checksum(b).len = Restored(b).len
      /\ Odd(b) /\ Restored(b).len # 0
           => udp_checksum(b).len = Restored(b).len - 1
  BY <1>3, ChecksumOfRestored
<1>5. Pseudo(b).len \in Nat /\ Even(b).len \in Nat /\ Restored(b).len \in Nat
  BY <1>1, <1>2, <1>3 DEF Windows
<1>6. CASE b.data >= 20
  BY <1>0, <1>1, <1>2, <1>3, <1>4, <1>5, <1>6
<1>7. CASE b.data < 20
  BY <1>0, <1>1, <1>2, <1>3, <1>4, <1>5, <1>7
<1> QED BY <1>0, <1>6, <1>7

\* Behind an IP header, udp_checksum puts the window back where it was; it has
\* its length again unless there was no room for the pad byte.
LEMMA ChecksumRestores ==
  ASSUME NEW S, NEW b \in Windows(S), b.data >= IpHdr
  PROVE  /\ udp_checksum(b).data = b.data
         /\ udp_checksum(b).org = b.org /\ udp_checksum(b).src = b.src
         /\ b.data + b.len + 1 < BUF_MAX_LEN => udp_checksum(b).len = b.len
<1>0. b.data \in Nat /\ b.len \in Nat /\ b.data >= 20 /\ BUF_MAX_LEN \in Nat
  BY BufMaxLenAssumption DEF Windows, IpHdr
<1>1. /\ Pseudo(b) \in Windows(S)
      /\ Pseudo(b).len = b.len + 12 /\ Pseudo(b).data = b.data - 12
      /\ Pseudo(b).org = b.org /\ Pseudo(b).src = b.src
  BY <1>0, PseudoWindow
<1>2. Pseudo(b).data >= 8 /\ Pseudo(b).len >= 12
  BY <1>0, <1>1
<1>3. /\ Even(b) \in Windows(S)
      /\ Even(b).data = Pseudo(b).data
      /\ Even(b).org = b.org /\ Even(b).src = b.src
      /\ Even(b).len \in {Pseudo(b).len, Pseudo(b).len + 1}
      /\ ~ Odd(b) => Even(b).len = Pseudo(b).len
      /\ Odd(b) /\ Pseudo(b).data + Pseudo(b).len + 1 < BUF_MAX_LEN
           => Even(b).len = Pseudo(b).len + 1
  BY <1>1, EvenWindow
<1>4. Even(b).len >= 12 /\ Even(b).data >= 8
  BY <1>0, <1>1, <1>2, <1>3
<1>5. /\ Restored(b) \in Windows(S)
      /\ Restored(b).org = b.org /\ Restored(b).src = b.src
      /\ Restored(b).len = Even(b).len - 12
      /\ Restored(b).data = Even(b).data + 12
  BY <1>3, <1>4, RestoredWindow
<1>6. /\ udp_checksum(b).data = Restored(b).data
      /\ udp_checksum(b).org = b.org /\ udp_checksum(b).src = b.src
      /\ ~ Odd(b) \/ Restored(b).len = 0
           => udp_checksum(b).len = Restored(b).len
      /\ Odd(b) /\ Restored(b).len # 0
           => udp_checksum(b).len = Restored(b).len - 1
  BY <1>5, ChecksumOfRestored
<1>7. udp_checksum(b).data = b.data
  BY <1>0, <1>1, <1>3, <1>5, <1>6
<1>8. b.data + b.len + 1 < BUF_MAX_LEN => udp_checksum(b).len = b.len
  BY <1>0, <1>1, <1>3, <1>5, <1>6
<1> QED BY <1>6, <1>7, <1>8

\* udp_checksum puts back exactly the bytes it has saved, and has written over no
\* others; also where no IP header fits in front of the window, as every failing
\* move of the window then fails alike.
LEMMA ChecksumPutsBytesBack ==
  ASSUME NEW S, NEW b \in Windows(S), b.len >= UdpHdr
  PROVE  Spoilt(b) = {}
<1> DEFINE a == buf_add_header(b, IpHdr)
           p == Pseudo(b)
           c == buf_add_header(Even(b), UdpHdr)
<1>0. b.data \in Nat /\ b.len \in Nat /\ b.len >= 8
  BY DEF Windows, UdpHdr
<1>1. /\ a \in Windows(S)
      /\ b.data < 20 => a.data = b.data
      /\ b.data >= 20 => a.data = b.data - 20
  <2>1. IpHdr = 20 /\ IpHdr \in Nat
    BY DEF IpHdr
  <2> QED BY <2>1, AddHeader
<1>2. /\ p \in Windows(S)
      /\ b.data >= 20 => p.data = b.data - 12
      /\ b.data < 20 => p.data = b.data + 8
  BY PseudoWindow
<1>3. Even(b) \in Windows(S) /\ Even(b).data = p.data
  BY <1>2, EvenWindow
<1>4. a.data \in Nat /\ p.data = a.data + 8
  BY <1>0, <1>1, <1>2
<1>5. c.data = a.data
  <2>1. Even(b).data \in Nat /\ Even(b).data >= 8
    BY <1>3, <1>4
  <2>2. UdpHdr = 8 /\ UdpHdr \in Nat
    BY DEF UdpHdr
  <2> DEFINE e == Even(b)
             n == UdpHdr
  <2>3. e \in Windows(S) /\ e.data = Even(b).data /\ c = buf_add_header(e, n)
        /\ n \in Nat /\ n = 8 /\ e.data >= n
    BY <1>3, <2>1, <2>2
  <2> HIDE DEF e, c, n
  <2>4. c.data = e.data - n
    BY <2>3, AddHeader
  <2> QED BY <1>3, <1>4, <2>1, <2>3, <2>4
<1> HIDE DEF a, p, c
<1>6. PutBack(b) = Saved(b)
  BY <1>5 DEF PutBack, Saved, Bytes, a, c
<1>7. Overwritten(b) \subseteq Saved(b)
  <2>1. Overwritten(b) = p.data .. p.data + 11
    BY <1>4, <1>2 DEF Overwritten, Bytes, PseudoHdr, Windows, p
  <2>2. Saved(b) = a.data .. a.data + 19
    BY <1>4 DEF Saved, Bytes, IpHdr, a
  <2> QED BY <1>4, <2>1, <2>2
<1> QED BY <1>6, <1>7 DEF Spoilt
=============================================================================
