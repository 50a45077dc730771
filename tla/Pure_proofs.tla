---------------------------- MODULE Pure_proofs -----------------------------
(***************************************************************************)
(* Proofs about checksum16, for packets of any length, about the choice of *)
(* the network card, for any list of cards, and about the base64 coder,    *)
(* for files, blocks and lines of any length.                              *)
(***************************************************************************)
EXTENDS Checksum, Base64, Startup, FiniteSetTheorems, SequenceTheorems,
        WellFoundedInduction, TLAPS

-----------------------------------------------------------------------------
\* Every set of naturals has a least element, and what holds of 0 and passes
\* from each number to the next holds of all.
LEMMA LeastElement ==
  ASSUME NEW S, S \subseteq Nat, S # {}
  PROVE  \E m \in S : \A k \in S : m <= k
<1> DEFINE less == OpToRel(<, Nat)
<1>1. \A x, y \in Nat : <<y, x>> \in less <=> y < x
  BY DEF OpToRel
<1>2. PICK m \in S : \A y \in S : ~ (<<y, m>> \in less)
  BY WFMin, NatLessThanWellFounded, Zenon
<1>3. \A y \in S : ~ (y < m)
  BY <1>1, <1>2
<1> QED BY <1>3

LEMMA Induction ==
  ASSUME NEW S, 0 \in S, \A n \in Nat : n \in S => n + 1 \in S
  PROVE  \A n \in Nat : n \in S
<1> DEFINE T == {n \in Nat : n \notin S}
<1> SUFFICES ASSUME T # {} PROVE FALSE
  OBVIOUS
<1>1. PICK m \in T : \A k \in T : m <= k
  BY LeastElement
<1>2. m \in Nat /\ m - 1 \in Nat /\ m - 1 \notin T
  BY <1>1
<1>3. m - 1 \in S
  BY <1>2
<1>4. m \in S
  BY <1>2, <1>3
<1> QED BY <1>1, <1>4

\* The sums of the first words exist, and each adds one word.
LEMMA SumsStep ==
  ASSUME NEW w \in Seq(Nat)
  PROVE  /\ Sums(w)[0] = 0
         /\ \A n \in 1 .. Len(w) : Sums(w)[n] = Sums(w)[n - 1] + w[n]
<1> DEFINE L == Len(w)
           Eq(f, k) == f = [n \in 0 .. k |->
                              IF n = 0 THEN 0 ELSE f[n - 1] + w[n]]
           S == {k \in Nat : k <= L => \E f : Eq(f, k)}
<1>0. L \in Nat
  OBVIOUS
<1> HIDE DEF L
<1>1. 0 \in S
  <2> DEFINE f == [n \in 0 .. 0 |-> 0]
  <2>1. f = [n \in 0 .. 0 |-> IF n = 0 THEN 0 ELSE f[n - 1] + w[n]]
    OBVIOUS
  <2> HIDE DEF f
  <2> QED BY <2>1
<1>2. ASSUME NEW k \in Nat, k \in S PROVE k + 1 \in S
  <2>0. ASSUME k + 1 <= L PROVE \E g : Eq(g, k + 1)
    <3>1. PICK f : Eq(f, k)
      BY <1>0, <1>2, <2>0
    <3> DEFINE g == [n \in 0 .. k + 1 |-> IF n = k + 1 THEN f[k] + w[k + 1]
                                                      ELSE f[n]]
    <3>2. ASSUME NEW n \in 0 .. k + 1
          PROVE  g[n] = IF n = 0 THEN 0 ELSE g[n - 1] + w[n]
      <4>1. CASE n = k + 1
        BY <4>1
      <4>2. CASE n # k + 1 /\ n # 0
        <5>1. n \in 0 .. k /\ n - 1 \in 0 .. k
          BY <4>2
        <5>2. f[n] = f[n - 1] + w[n]
          BY <3>1, <4>2, <5>1
        <5>3. g[n] = f[n] /\ g[n - 1] = f[n - 1]
          BY <4>2, <5>1
        <5> QED BY <4>2, <5>2, <5>3
      <4>3. CASE n = 0
        BY <3>1, <4>3
      <4> QED BY <4>1, <4>2, <4>3
    <3>3. Eq(g, k + 1)
      BY <3>2
    <3> HIDE DEF g
    <3> QED BY <3>3
  <2> HIDE DEF Eq
  <2> QED BY <2>0
<1>3. L \in S
  <2> HIDE DEF S
  <2> QED BY <1>0, <1>1, <1>2, Induction
<1>4. \E f : Eq(f, L)
  BY <1>0, <1>3
<1>5. Eq(Sums(w), L)
  BY <1>4 DEF Sums, L
<1> QED BY <1>0, <1>5, SMTT(40) DEF L

LEMMA SumsInNat ==
  ASSUME NEW w \in Seq(Nat)
  PROVE  \A n \in 0 .. Len(w) : Sums(w)[n] \in Nat
<1> DEFINE S == {n \in Nat : n <= Len(w) => Sums(w)[n] \in Nat}
<1>1. 0 \in S
  BY SumsStep
<1>2. ASSUME NEW n \in Nat, n \in S PROVE n + 1 \in S
  <2>1. ASSUME n + 1 <= Len(w) PROVE Sums(w)[n + 1] \in Nat
    <3>1. n + 1 \in 1 .. Len(w) /\ w[n + 1] \in Nat /\ Sums(w)[n] \in Nat
      BY <1>2, <2>1
    <3>2. Sums(w)[n + 1] = Sums(w)[n] + w[n + 1]
      BY <3>1, SumsStep
    <3> QED BY <3>1, <3>2
  <2> QED BY <2>1
<1>3. \A n \in Nat : n \in S
  <2> HIDE DEF S
  <2> QED BY <1>1, <1>2, Induction
<1> QED BY <1>3

-----------------------------------------------------------------------------
\* Arithmetic of the one's complement residue: it survives an addition on both
\* sides and a carry folded back in, and a number of 16 bits is its own.
LEMMA ResidueAdd ==
  ASSUME NEW s \in Nat, NEW t \in Nat, NEW x \in Nat,
         OnesComplement(s) = OnesComplement(t)
  PROVE  OnesComplement(s + x) = OnesComplement(t + x)
BY DEF OnesComplement

LEMMA ResidueFold ==
  ASSUME NEW s \in Nat, s >= 2^16
  PROVE  /\ (s \div 2^16) + (s % 2^16) \in Nat
         /\ OnesComplement((s \div 2^16) + (s % 2^16)) = OnesComplement(s)
BY DEF OnesComplement

LEMMA ResidueSmall ==
  ASSUME NEW s \in Nat, s < 2^16
  PROVE  OnesComplement(s) = s
BY DEF OnesComplement

LEMMA ResidueRange ==
  ASSUME NEW t \in Nat
  PROVE  /\ OnesComplement(t) \in Nat /\ OnesComplement(t) < 2^16
         /\ t # 0 => OnesComplement(t) > 0
BY DEF OnesComplement

LEMMA ResidueIs ==
  ASSUME NEW n \in Nat, NEW q \in Int, NEW v \in Nat,
         v >= 1, v <= 65535, n = v + 65535 * q, n # 0
  PROVE  OnesComplement(n) = v
<1>1. n - 1 = (v - 1) + 65535 * q /\ v - 1 >= 0 /\ v - 1 < 65535
  OBVIOUS
<1>2. (n - 1) % 65535 = v - 1
  BY <1>1
<1> QED BY <1>2 DEF OnesComplement

\* Swapping the bytes of a complement: 256 and 2^16 - 1 make it the complement
\* of 256 times the sum.
LEMMA ResidueSwap ==
  ASSUME NEW t \in Nat, NEW u \in Nat, NEW e \in Nat,
         256 * t = u + 65535 * e, t = 0 <=> u = 0
  PROVE  SwapBytes(65535 - OnesComplement(t)) = 65535 - OnesComplement(u)
<1>1. CASE t = 0
  BY <1>1 DEF OnesComplement, SwapBytes
<1>2. CASE t # 0
  <2>1. PICK q \in Nat, r \in Nat : t = 65535 * q + r /\ r >= 1 /\ r <= 65535
    <3>1. /\ t = 65535 * ((t - 1) \div 65535) + (((t - 1) % 65535) + 1)
          /\ (t - 1) \div 65535 \in Nat /\ (t - 1) % 65535 \in Nat
          /\ (t - 1) % 65535 < 65535
      BY <1>2
    <3> QED BY <3>1
  <2>2. OnesComplement(t) = r
    BY <1>2, <2>1 DEF OnesComplement
  <2> DEFINE lo == (65535 - r) % 256
             hi == (65535 - r) \div 256
  <2>3. /\ lo \in Nat /\ hi \in Nat /\ lo < 256 /\ hi < 256
        /\ 65535 - r = 256 * hi + lo
    BY <2>1
  <2>4. SwapBytes(65535 - r) = 256 * lo + hi
    BY <2>3 DEF SwapBytes
  <2> HIDE DEF lo, hi
  <2> DEFINE v == 65535 - (256 * lo + hi)
  <2>5. v \in Nat /\ v >= 1 /\ v <= 65535
    BY <2>1, <2>3
  <2>6. u = v + 65535 * (256 * q + 256 - hi - 1 - e)
    BY <1>2, <2>1, <2>3
  <2>7. SwapBytes(65535 - OnesComplement(t)) = 65535 - v
    BY <2>2, <2>3, <2>4
  <2>8. 256 * q + 256 - hi - 1 - e \in Int
    BY <2>3
  <2> HIDE DEF v
  <2>9. OnesComplement(u) = v
    BY <1>2, <2>5, <2>6, <2>8, ResidueIs, SMTT(40)
  <2> QED BY <2>7, <2>9
<1> QED BY <1>1, <1>2

-----------------------------------------------------------------------------
\* The words of a packet, in the order of the host.
HostWords(p) == Words(p, Word)

LEMMA BytesAreNaturals ==
  ASSUME NEW p \in Seq(Bytes)
  PROVE  \A i \in 1 .. Len(p) : p[i] \in Nat
<1>1. \A i \in 1 .. Len(p) : p[i] \in Bytes
  OBVIOUS
<1>2. Bytes \subseteq Nat
  BY DEF Bytes
<1> QED BY <1>1, <1>2

\* Dropping two bytes.
LEMMA TailTail ==
  ASSUME NEW p \in Seq(Bytes), Len(p) > 1
  PROVE  /\ Tail(Tail(p)) \in Seq(Bytes)
         /\ Len(Tail(Tail(p))) = Len(p) - 2
         /\ \A i \in 1 .. Len(p) - 2 : Tail(Tail(p))[i] = p[i + 2]
<1> DEFINE t == Tail(p)
<1>1. /\ t \in Seq(Bytes) /\ Len(t) = Len(p) - 1
      /\ \A i \in 1 .. Len(t) : t[i] = p[i + 1]
  OBVIOUS
<1>2. Len(p) \in Nat
  OBVIOUS
<1> HIDE DEF t
<1>a. t # <<>>
  BY <1>1, <1>2
<1>3. /\ Tail(t) \in Seq(Bytes) /\ Len(Tail(t)) = Len(t) - 1
      /\ \A i \in 1 .. Len(Tail(t)) : Tail(t)[i] = t[i + 1]
  BY <1>1, <1>a
<1>4. \A i \in 1 .. Len(p) - 2 : Tail(t)[i] = p[i + 2]
  <2> SUFFICES ASSUME NEW i \in 1 .. Len(p) - 2 PROVE Tail(t)[i] = p[i + 2]
    OBVIOUS
  <2>1. i \in 1 .. Len(Tail(t)) /\ i + 1 \in 1 .. Len(t) /\ i + 1 + 1 = i + 2
    BY <1>1, <1>2, <1>3
  <2> QED BY <1>1, <1>3, <2>1
<1>5. Len(Tail(t)) = Len(p) - 2
  BY <1>1, <1>2, <1>3
<1> QED BY <1>3, <1>4, <1>5 DEF t

LEMMA ByteIsNatural ==
  ASSUME NEW p \in Seq(Bytes), NEW i \in Int
  PROVE  Byte(p, i) \in Nat
BY BytesAreNaturals DEF Byte

LEMMA WordsShape ==
  ASSUME NEW p \in Seq(Bytes)
  PROVE  /\ HostWords(p) \in Seq(Nat)
         /\ Len(HostWords(p)) = (Len(p) + 1) \div 2
         /\ \A n \in 1 .. (Len(p) + 1) \div 2 :
              HostWords(p)[n] = Byte(p, 2 * n - 1) + 256 * Byte(p, 2 * n)
<1>1. \A i \in Int : Byte(p, i) \in Nat
  BY ByteIsNatural
<1>2. (Len(p) + 1) \div 2 \in Nat
  OBVIOUS
<1>3. ASSUME NEW n \in 1 .. (Len(p) + 1) \div 2
      PROVE  Word(Byte(p, 2 * n - 1), Byte(p, 2 * n)) \in Nat
  <2>1. 2 * n - 1 \in Int /\ 2 * n \in Int
    BY <1>2
  <2>2. Byte(p, 2 * n - 1) \in Nat /\ Byte(p, 2 * n) \in Nat
    BY <1>1, <2>1
  <2> QED BY <2>2 DEF Word
<1> QED BY <1>2, <1>3 DEF HostWords, Words, Word

\* What the loops keep, between the part of the packet already summed and the
\* part that data and len still show: the residue of the sum.
SumInv ==
  /\ packet \in Seq(Bytes) /\ rest \in Seq(Bytes) /\ sum \in Nat
  /\ stage \in {"words", "byte", "done"}
  /\ stage = "words" =>
       \E c \in Nat :
         /\ 2 * c + Len(rest) = Len(packet)
         /\ \A i \in 1 .. Len(rest) : rest[i] = packet[2 * c + i]
         /\ OnesComplement(sum) = OnesComplement(Sums(HostWords(packet))[c])
  /\ stage = "byte" =>
       OnesComplement(sum) = OnesComplement(Total(packet, Word))
  /\ stage = "done" =>
       sum = 2^16 - 1 - OnesComplement(Total(packet, Word))

LEMMA SumInvInit == SumInit => SumInv
<1> SUFFICES ASSUME SumInit PROVE SumInv
  OBVIOUS
<1>1. packet \in Seq(Bytes) /\ rest = packet /\ sum = 0 /\ stage = "words"
  BY ChecksumAssumption DEF SumInit
<1>2. Sums(HostWords(packet))[0] = 0
  BY <1>1, WordsShape, SumsStep
<1>3. \E c \in Nat :
        /\ 2 * c + Len(rest) = Len(packet)
        /\ \A i \in 1 .. Len(rest) : rest[i] = packet[2 * c + i]
        /\ OnesComplement(sum) = OnesComplement(Sums(HostWords(packet))[c])
  BY <1>1, <1>2
<1> QED BY <1>1, <1>3 DEF SumInv

LEMMA SumInvNext == SumInv /\ [SumNext]_sumVars => SumInv'
<1> SUFFICES ASSUME SumInv, [SumNext]_sumVars PROVE SumInv'
  OBVIOUS
<1> DEFINE w == HostWords(packet)
<1>0. /\ w \in Seq(Nat) /\ Len(w) = (Len(packet) + 1) \div 2
      /\ \A n \in 1 .. Len(w) :
           w[n] = Byte(packet, 2 * n - 1) + 256 * Byte(packet, 2 * n)
  BY WordsShape DEF SumInv
<1>a. \A n \in 0 .. Len(w) : Sums(w)[n] \in Nat
  BY <1>0, SumsInNat
<1>b. \A n \in 1 .. Len(w) : Sums(w)[n] = Sums(w)[n - 1] + w[n]
  BY <1>0, SumsStep
<1>c. Total(packet, Word) = Sums(w)[Len(w)]
  BY DEF Total, HostWords
<1>1. CASE AddWord
  <2>1. PICK c \in Nat :
          /\ 2 * c + Len(rest) = Len(packet)
          /\ \A i \in 1 .. Len(rest) : rest[i] = packet[2 * c + i]
          /\ OnesComplement(sum) = OnesComplement(Sums(w)[c])
    BY <1>1 DEF SumInv, AddWord
  <2>2. /\ Len(rest) > 1 /\ rest \in Seq(Bytes)
        /\ rest' = Tail(Tail(rest)) /\ packet' = packet /\ stage' = stage
        /\ stage = "words" /\ packet \in Seq(Bytes) /\ sum \in Nat
        /\ sum' = sum + (rest[1] + 256 * rest[2])
    BY <1>1 DEF AddWord, SumInv, Word
  <2>3. /\ rest' \in Seq(Bytes) /\ Len(rest') = Len(rest) - 2
        /\ \A i \in 1 .. Len(rest') : rest'[i] = rest[i + 2]
    BY <2>2, TailTail
  <2>4. c + 1 \in 1 .. Len(w) /\ c \in 0 .. Len(w)
    BY <1>0, <2>1, <2>2, SMTT(40)
  <2>5. /\ Byte(packet, 2 * (c + 1) - 1) = rest[1]
        /\ Byte(packet, 2 * (c + 1)) = rest[2]
    BY <2>1, <2>2, SMTT(40) DEF Byte
  <2> DEFINE x == rest[1] + 256 * rest[2]
  <2>6. x \in Nat
    <3>1. rest[1] \in Nat /\ rest[2] \in Nat
      BY <2>2, BytesAreNaturals
    <3> QED BY <3>1
  <2>7. Sums(w)[c + 1] = Sums(w)[c] + x
    BY <1>0, <1>b, <2>4, <2>5
  <2>8. sum' = sum + x
    BY <2>2
  <2> HIDE DEF x
  <2>9. OnesComplement(sum') = OnesComplement(Sums(w)[c + 1])
    <3>1. Sums(w)[c] \in Nat
      BY <1>a, <2>4
    <3> DEFINE t == Sums(w)[c]
    <3>2. OnesComplement(sum) = OnesComplement(t) /\ t \in Nat /\ sum \in Nat
      BY <2>1, <2>2, <3>1
    <3>3. sum' = sum + x /\ Sums(w)[c + 1] = t + x
      BY <2>7, <2>8
    <3> HIDE DEF w, t
    <3>4. OnesComplement(sum + x) = OnesComplement(t + x)
      BY <2>6, <3>2, ResidueAdd
    <3> QED BY <3>3, <3>4
  <2>10. 2 * (c + 1) + Len(rest') = Len(packet')
    <3>1. Len(rest) \in Nat /\ Len(packet') = Len(packet)
      BY <2>2
    <3>2. 2 * c + Len(rest) = Len(packet) /\ Len(rest') = Len(rest) - 2
      BY <2>1, <2>3
    <3> QED BY <3>1, <3>2
  <2>11. ASSUME NEW i \in 1 .. Len(rest')
         PROVE  rest'[i] = packet'[2 * (c + 1) + i]
    <3>1. i + 2 \in 1 .. Len(rest) /\ 2 * c + (i + 2) = 2 * (c + 1) + i
      BY <2>2, <2>3
    <3> QED BY <2>1, <2>2, <2>3, <3>1
  <2>12. sum' \in Nat
    BY <2>2, <2>6, <2>8
  <2>13. \E d \in Nat :
          /\ 2 * d + Len(rest') = Len(packet')
          /\ \A i \in 1 .. Len(rest') : rest'[i] = packet'[2 * d + i]
          /\ OnesComplement(sum') = OnesComplement(Sums(HostWords(packet'))[d])
    <3>1. HostWords(packet') = w
      BY <2>2
    <3>2. c + 1 \in Nat
      OBVIOUS
    <3> HIDE DEF w
    <3> QED BY <2>9, <2>10, <2>11, <3>1, <3>2
  <2> QED BY <2>2, <2>3, <2>12, <2>13 DEF SumInv
<1>2. CASE Carry
  <2>1. /\ sum \in Nat /\ sum >= 2^16 /\ UNCHANGED <<packet, rest, stage>>
        /\ sum' = (sum \div 2^16) + (sum % 2^16) /\ stage # "done"
    BY <1>2 DEF Carry, SumInv
  <2>2. sum' \in Nat /\ OnesComplement(sum') = OnesComplement(sum)
    BY <2>1, ResidueFold
  <2> QED BY <2>1, <2>2 DEF SumInv
<1>3. CASE AddByte
  <2>1. PICK c \in Nat :
          /\ 2 * c + Len(rest) = Len(packet)
          /\ \A i \in 1 .. Len(rest) : rest[i] = packet[2 * c + i]
          /\ OnesComplement(sum) = OnesComplement(Sums(w)[c])
    BY <1>3 DEF SumInv, AddByte
  <2>2. /\ Len(rest) < 2 /\ rest \in Seq(Bytes)
        /\ rest' = <<>> /\ packet' = packet /\ stage' = "byte"
        /\ packet \in Seq(Bytes) /\ sum \in Nat
        /\ sum' = IF Len(rest) = 1 THEN sum + rest[1] ELSE sum
    BY <1>3 DEF AddByte, SumInv
  <2>3. /\ sum' \in Nat
        /\ OnesComplement(sum') = OnesComplement(Sums(w)[Len(w)])
    <3>1. CASE Len(rest) = 1
      <4>1. /\ Byte(packet, 2 * (c + 1) - 1) = rest[1]
            /\ Byte(packet, 2 * (c + 1)) = 0
        BY <2>1, <2>2, <3>1 DEF Byte
      <4>2. Len(w) = c + 1 /\ c + 1 \in 1 .. Len(w) /\ c \in 0 .. Len(w)
        BY <1>0, <2>1, <3>1, SMTT(40)
      <4>3. rest[1] \in Nat /\ sum' = sum + rest[1]
        BY <2>2, <3>1, BytesAreNaturals
      <4>4. Sums(w)[c + 1] = Sums(w)[c] + rest[1]
        BY <1>0, <1>b, <4>1, <4>2, <4>3
      <4>5. Sums(w)[c] \in Nat /\ sum' \in Nat
        BY <1>a, <2>2, <4>2, <4>3
      <4>6. OnesComplement(sum') = OnesComplement(Sums(w)[c + 1])
        <5> DEFINE t == Sums(w)[c]
                   x == rest[1]
        <5>1. /\ t \in Nat /\ sum \in Nat /\ x \in Nat
              /\ OnesComplement(sum) = OnesComplement(t)
              /\ sum' = sum + x /\ Sums(w)[c + 1] = t + x
          BY <2>1, <2>2, <4>3, <4>4, <4>5
        <5> HIDE DEF t, x, w
        <5>2. OnesComplement(sum + x) = OnesComplement(t + x)
          BY <5>1, ResidueAdd
        <5> QED BY <5>1, <5>2
      <4> QED BY <4>2, <4>5, <4>6
    <3>2. CASE Len(rest) = 0
      <4>1. Len(w) = c
        BY <1>0, <2>1, <3>2
      <4> QED BY <2>1, <2>2, <3>2, <4>1
    <3>3. Len(rest) \in Nat /\ Len(rest) < 2
      BY <2>2
    <3>4. Len(rest) = 0 \/ Len(rest) = 1
      <4> DEFINE l == Len(rest)
      <4>1. l \in Nat /\ l < 2
        BY <3>3
      <4> HIDE DEF l
      <4>2. l = 0 \/ l = 1
        BY <4>1
      <4> QED BY <4>2 DEF l
    <3> QED BY <3>1, <3>2, <3>4
  <2>4. OnesComplement(sum') = OnesComplement(Total(packet', Word))
    BY <1>c, <2>2, <2>3
  <2>5. rest' \in Seq(Bytes)
    BY <2>2
  <2> QED BY <2>2, <2>3, <2>4, <2>5 DEF SumInv
<1>4. CASE Complement
  <2>1. /\ sum \in Nat /\ sum < 2^16 /\ UNCHANGED <<packet, rest>>
        /\ sum' = 2^16 - 1 - sum /\ stage' = "done"
        /\ OnesComplement(sum) = OnesComplement(Total(packet, Word))
    BY <1>4 DEF Complement, SumInv
  <2>2. sum' \in Nat /\ OnesComplement(sum) = sum
    BY <2>1, ResidueSmall
  <2> QED BY <2>1, <2>2 DEF SumInv
<1>5. CASE UNCHANGED sumVars
  BY <1>5 DEF SumInv, sumVars
<1> QED BY <1>1, <1>2, <1>3, <1>4, <1>5 DEF SumNext

LEMMA SumInvariant == SumSpec => []SumInv
BY SumInvInit, SumInvNext, PTL DEF SumSpec

\* For packets of any length, the loops of checksum16, which fold each carry in
\* as it comes, compute the complement of the one's complement sum
\* (utils.c:75-97).
THEOREM ChecksumIsRight == SumSpec => []IsOnesComplement
<1>1. SumInv => IsOnesComplement
  BY DEF SumInv, IsOnesComplement
<1> QED BY <1>1, SumInvariant, PTL

-----------------------------------------------------------------------------
\* The words in network order.  Word by word, 256 times one order is the other
\* and a multiple of 2^16 - 1, so it is for the sums.
NetworkWords(p) == Words(p, NetworkWord)

LEMMA NetworkWordsShape ==
  ASSUME NEW p \in Seq(Bytes)
  PROVE  /\ NetworkWords(p) \in Seq(Nat)
         /\ Len(NetworkWords(p)) = (Len(p) + 1) \div 2
         /\ \A n \in 1 .. (Len(p) + 1) \div 2 :
              NetworkWords(p)[n] = Byte(p, 2 * n) + 256 * Byte(p, 2 * n - 1)
<1>1. \A i \in Int : Byte(p, i) \in Nat
  BY ByteIsNatural
<1>2. (Len(p) + 1) \div 2 \in Nat
  OBVIOUS
<1>3. ASSUME NEW n \in 1 .. (Len(p) + 1) \div 2
      PROVE  NetworkWord(Byte(p, 2 * n - 1), Byte(p, 2 * n)) \in Nat
  <2>1. 2 * n - 1 \in Int /\ 2 * n \in Int
    BY <1>2
  <2>2. Byte(p, 2 * n - 1) \in Nat /\ Byte(p, 2 * n) \in Nat
    BY <1>1, <2>1
  <2> QED BY <2>2 DEF NetworkWord, Word
<1> QED BY <1>2, <1>3 DEF NetworkWords, Words, NetworkWord, Word

\* The two sums, word by word.
LEMMA SumsSwap ==
  ASSUME NEW p \in Seq(Bytes), NEW k \in Nat, k = (Len(p) + 1) \div 2
  PROVE  \A n \in 0 .. k :
           /\ \E e \in Nat : 256 * Sums(HostWords(p))[n]
                               = Sums(NetworkWords(p))[n] + 65535 * e
           /\ Sums(HostWords(p))[n] = 0 <=> Sums(NetworkWords(p))[n] = 0
<1> DEFINE h == Sums(HostWords(p))
           g == Sums(NetworkWords(p))
           S == {n \in Nat : n <= k =>
                   /\ \E e \in Nat : 256 * h[n] = g[n] + 65535 * e
                   /\ h[n] = 0 <=> g[n] = 0}
<1>1. /\ HostWords(p) \in Seq(Nat) /\ Len(HostWords(p)) = k
      /\ NetworkWords(p) \in Seq(Nat) /\ Len(NetworkWords(p)) = k
  BY WordsShape, NetworkWordsShape
<1>2. /\ \A n \in 1 .. k : h[n] = h[n - 1] + HostWords(p)[n]
      /\ \A n \in 1 .. k : g[n] = g[n - 1] + NetworkWords(p)[n]
      /\ h[0] = 0 /\ g[0] = 0
  BY <1>1, SumsStep
<1>3. \A n \in 0 .. k : h[n] \in Nat /\ g[n] \in Nat
  BY <1>1, SumsInNat
<1>4. \A n \in 1 .. k :
        /\ HostWords(p)[n] = Byte(p, 2 * n - 1) + 256 * Byte(p, 2 * n)
        /\ NetworkWords(p)[n] = Byte(p, 2 * n) + 256 * Byte(p, 2 * n - 1)
  BY WordsShape, NetworkWordsShape
<1> HIDE DEF h, g
<1>5. 0 \in S
  <2>1. 256 * h[0] = g[0] + 65535 * 0
    BY <1>2
  <2> QED BY <1>2, <2>1
<1>6. ASSUME NEW n \in Nat, n \in S PROVE n + 1 \in S
  <2>1. ASSUME n + 1 <= k
        PROVE  /\ \E e \in Nat : 256 * h[n + 1] = g[n + 1] + 65535 * e
               /\ h[n + 1] = 0 <=> g[n + 1] = 0
    <3> DEFINE a == Byte(p, 2 * (n + 1) - 1)
               b == Byte(p, 2 * (n + 1))
               s == h[n]
               t == g[n]
    <3>1. a \in Nat /\ b \in Nat
      BY ByteIsNatural, SMTT(40)
    <3>2. PICK e \in Nat : 256 * s = t + 65535 * e
      BY <1>6, <2>1
    <3>3. (s = 0 <=> t = 0) /\ s \in Nat /\ t \in Nat
      BY <1>3, <1>6, <2>1
    <3>4. n + 1 \in 1 .. k /\ (n + 1) - 1 = n
      BY <2>1
    <3>5. h[n + 1] = s + (a + 256 * b) /\ g[n + 1] = t + (b + 256 * a)
      BY <1>2, <1>4, <3>4
    <3> HIDE DEF a, b, s, t
    <3>6. 256 * (s + (a + 256 * b)) = t + (b + 256 * a) + 65535 * (e + b)
      BY <3>1, <3>2, <3>3
    <3>7. (s + (a + 256 * b) = 0) <=> (t + (b + 256 * a) = 0)
      BY <3>1, <3>3
    <3>8. e + b \in Nat
      BY <3>1
    <3> QED BY <3>5, <3>6, <3>7, <3>8
  <2> QED BY <2>1
<1>7. \A n \in Nat : n \in S
  <2> HIDE DEF S
  <2> QED BY <1>5, <1>6, Induction
<1> QED BY <1>7 DEF h, g

\* Summing in host order and storing without conversion is right for packets of
\* any length: with its bytes swapped the result is the checksum of the words in
\* network order (utils.c:75-97, ip.c:28).
THEOREM ByteOrderDoesNotMatter == SumSpec => []ByteOrderIrrelevant
<1>1. ASSUME SumInv, stage = "done"
      PROVE  SwapBytes(sum)
               = 2^16 - 1 - OnesComplement(Total(packet, NetworkWord))
  <2> DEFINE k == (Len(packet) + 1) \div 2
             t == Total(packet, Word)
             u == Total(packet, NetworkWord)
  <2>1. packet \in Seq(Bytes) /\ sum = 65535 - OnesComplement(t)
    BY <1>1 DEF SumInv
  <2>2. k \in Nat /\ k \in 0 .. k
    BY <2>1
  <2>3. /\ HostWords(packet) \in Seq(Nat) /\ Len(HostWords(packet)) = k
        /\ NetworkWords(packet) \in Seq(Nat) /\ Len(NetworkWords(packet)) = k
    BY <2>1, WordsShape, NetworkWordsShape
  <2>4. t = Sums(HostWords(packet))[k] /\ u = Sums(NetworkWords(packet))[k]
    BY <2>3 DEF Total, HostWords, NetworkWords
  <2> HIDE DEF t, u
  <2>5. t \in Nat /\ u \in Nat
    BY <2>2, <2>3, <2>4, SumsInNat
  <2>6. (\E e \in Nat : 256 * t = u + 65535 * e) /\ (t = 0 <=> u = 0)
    BY <2>1, <2>2, <2>4, SumsSwap
  <2>7. SwapBytes(65535 - OnesComplement(t)) = 65535 - OnesComplement(u)
    BY <2>5, <2>6, ResidueSwap
  <2>8. 2^16 - 1 = 65535
    OBVIOUS
  <2> QED BY <2>1, <2>7, <2>8 DEF u
<1>2. SumInv => ByteOrderIrrelevant
  BY <1>1 DEF ByteOrderIrrelevant
<1> QED BY <1>2, SumInvariant, PTL
-----------------------------------------------------------------------------
\* Greatest and least elements of sets of numbers up to some w.
LEMMA Greatest ==
  ASSUME NEW w \in Nat, NEW S \in SUBSET (0 .. w), S # {}
  PROVE  Max(S) \in S /\ \A k \in S : k <= Max(S)
<1> DEFINE T == {w - k : k \in S}
<1>1. PICK t \in T : \A u \in T : t <= u
  <2>1. \A k \in S : w - k \in Nat
    OBVIOUS
  <2>2. T \subseteq Nat /\ T # {}
    BY <2>1
  <2> HIDE DEF T
  <2> QED BY <2>2, LeastElement
<1>2. PICK n \in S : t = w - n
  OBVIOUS
<1>3. \A k \in S : n >= k
  BY <1>1, <1>2
<1>4. \E x \in S : \A y \in S : x >= y
  BY <1>3
<1>5. PICK m \in S : m = Max(S) /\ \A y \in S : m >= y
  BY <1>4, Zenon DEF Max
<1>6. \A y \in S : y <= m
  BY <1>5
<1> QED BY <1>5, <1>6, Zenon

LEMMA GreatestIs ==
  ASSUME NEW w \in Nat, NEW S \in SUBSET (0 .. w),
         NEW n \in S, \A k \in S : k <= n
  PROVE  Max(S) = n
<1>1. PICK m \in S : m = Max(S) /\ \A k \in S : k <= m
  BY Greatest, Zenon
<1>2. m = n
  BY <1>1
<1> QED BY <1>1, <1>2, Zenon

LEMMA Least ==
  ASSUME NEW S \in SUBSET Nat, S # {}
  PROVE  Min(S) \in S
<1>1. PICK n \in S : \A k \in S : n <= k
  BY LeastElement
<1> QED BY <1>1, Zenon DEF Min

\* What ip_prefix_match counts are the first places, up to the first difference.
LEMMA SharedPrefix ==
  ASSUME NEW a, NEW b, NEW n, n = ip_prefix_match(a, b)
  PROVE  /\ n \in 0 .. WIDTH
         /\ \A k \in 1 .. WIDTH : k <= n <=> \A j \in 1 .. k : a[j] = b[j]
<1> DEFINE P == {k \in 1 .. WIDTH : \A j \in 1 .. k : a[j] = b[j]}
           D == {WIDTH + 1} \cup {k \in 1 .. WIDTH : a[k] # b[k]}
<1>0. WIDTH \in Nat
  BY StartupAssumption
<1>1. PICK d \in D : \A k \in D : d <= k
  <2>1. D \subseteq Nat /\ D # {}
    BY <1>0
  <2> HIDE DEF D
  <2> QED BY <2>1, LeastElement
<1>2. d \in 1 .. WIDTH + 1 /\ (d = WIDTH + 1 \/ a[d] # b[d])
  BY <1>0, <1>1
<1>3. P = 1 .. d - 1
  <2>1. ASSUME NEW k \in P PROVE k \in 1 .. d - 1
    BY <1>0, <1>2
  <2>2. ASSUME NEW k \in 1 .. d - 1 PROVE k \in P
    BY <1>0, <1>1, <1>2
  <2> QED BY <2>1, <2>2
<1>4. n = d - 1
  <2>1. Cardinality(1 .. d - 1) = d - 1
    BY <1>0, <1>2, FS_Interval
  <2> HIDE DEF P
  <2>2. n = Cardinality(P)
    BY Zenon DEF P, ip_prefix_match
  <2> QED BY <1>3, <2>1, <2>2
<1>5. \A k \in 1 .. WIDTH : k \in P <=> k <= n
  <2> HIDE DEF P, D
  <2> QED BY <1>0, <1>2, <1>3, <1>4
<1>6. n \in 0 .. WIDTH
  BY <1>0, <1>2, <1>4
<1> QED BY <1>5, <1>6

\* A card with one address shares with ours what Match computes, if we are in
\* its subnet, and otherwise Match is 0.
LEMMA CardMatch ==
  ASSUME alldevs \in Adapters, Ordinary, NEW i \in DOMAIN alldevs
  PROVE  /\ Match(alldevs, i) \in 0 .. WIDTH
         /\ Shared(i) = Match(alldevs, i)
         /\ Own(i) <=> Match(alldevs, i) = WIDTH
         /\ Match(alldevs, i) # 0 =>
              LET x == LastInet(alldevs, i)
              IN  x \in Addresses(i) /\ InSubnet(x)
<1>0. /\ WIDTH \in Nat /\ WIDTH # 0
      /\ net_if_ip \in [1 .. WIDTH -> {0, 1}]
      /\ DOMAIN alldevs[i] \subseteq Nat
      /\ \A k \in DOMAIN alldevs[i] :
           alldevs[i][k].addr \in Address /\ alldevs[i][k].netmask \in Address
  <2> DEFINE E == [inet : BOOLEAN, addr : Address, netmask : Address]
  <2>1. WIDTH \in Nat /\ WIDTH # 0 /\ net_if_ip \in [1 .. WIDTH -> {0, 1}]
    BY StartupAssumption DEF Address
  <2>2. alldevs \in Seq(Seq(E))
    BY StartupAssumption
  <2>3. \A e \in E : e.addr \in Address /\ e.netmask \in Address
    OBVIOUS
  <2> HIDE DEF E
  <2>4. alldevs[i] \in Seq(E)
    BY <2>2
  <2>5. DOMAIN alldevs[i] \subseteq Nat /\ \A k \in DOMAIN alldevs[i] : alldevs[i][k] \in E
    BY <2>4
  <2> QED BY <2>1, <2>3, <2>5
<1>1. CASE Inet(alldevs, i) = {}
  <2>1. Addresses(i) = {}
    BY <1>1 DEF Addresses
  <2>2. Match(alldevs, i) = 0
    BY <1>1, Zenon DEF Match
  <2>3. ~ Own(i)
    BY <2>1 DEF Own
  <2>4. Shared(i) = 0
    <3> DEFINE S == {0} \cup {k \in 1 .. WIDTH : \E x \in Addresses(i) :
                 InSubnet(x) /\ SubSeq(x.addr, 1, k) = SubSeq(net_if_ip, 1, k)}
    <3>1. S = {0}
      BY <2>1
    <3>2. Shared(i) = Max(S)
      BY Zenon DEF Shared
    <3> HIDE DEF S
    <3>3. S \in SUBSET (0 .. WIDTH) /\ 0 \in S /\ \A k \in S : k <= 0
      BY <1>0, <3>1
    <3>4. Max(S) = 0
      BY <1>0, <3>3, GreatestIs
    <3> QED BY <3>2, <3>4
  <2> QED BY <1>0, <2>2, <2>3, <2>4
<1>2. CASE Inet(alldevs, i) # {}
  <2>1. PICK k \in DOMAIN alldevs[i] : Inet(alldevs, i) = {k}
    <3>1. PICK k : k \in Inet(alldevs, i)
      BY <1>2
    <3>2. k \in DOMAIN alldevs[i]
      BY <3>1 DEF Inet
    <3>3. \A l \in Inet(alldevs, i) : l = k
      BY <3>1 DEF Ordinary
    <3> QED BY <3>1, <3>2, <3>3
  <2> DEFINE x == alldevs[i][k]
             ones == [j \in 1 .. WIDTH |-> 1]
             n == ip_prefix_match(net_if_ip, x.addr)
             m == ip_prefix_match(ones, x.netmask)
  <2>2. /\ x.addr \in [1 .. WIDTH -> {0, 1}]
        /\ x.netmask \in [1 .. WIDTH -> {0, 1}]
    BY <1>0 DEF Address
  <2>3. Addresses(i) = {x}
    BY <2>1 DEF Addresses
  <2>4. LastInet(alldevs, i) = x
    <3>1. k \in Nat
      BY <1>0
    <3>2. Max({k}) = k
      <4>1. {k} \in SUBSET (0 .. k) /\ k \in {k} /\ \A l \in {k} : l <= k
        BY <3>1
      <4> HIDE DEF x
      <4> QED BY <3>1, <4>1, GreatestIs
    <3>3. LastInet(alldevs, i) = alldevs[i][Max({k})]
      BY <2>1, Zenon DEF LastInet
    <3> QED BY <3>2, <3>3, Zenon
  <2>5. Match(alldevs, i) = IF n < m THEN 0 ELSE n
    BY <1>2, <2>4, Zenon DEF Match
  <2>6. n \in 0 .. WIDTH /\ \A j \in 1 .. WIDTH :
                  j <= n <=> \A l \in 1 .. j : net_if_ip[l] = x.addr[l]
    <3> HIDE DEF x
    <3> QED BY SharedPrefix
  <2>7. m \in 0 .. WIDTH /\ \A j \in 1 .. WIDTH :
                  j <= m <=> \A l \in 1 .. j : x.netmask[l] = 1
    <3> HIDE DEF x
    <3>1. m \in 0 .. WIDTH /\ \A j \in 1 .. WIDTH :
                  j <= m <=> \A l \in 1 .. j : ones[l] = x.netmask[l]
      <4> HIDE DEF ones
      <4> QED BY SharedPrefix
    <3>2. ASSUME NEW j \in 1 .. WIDTH
          PROVE  (\A l \in 1 .. j : ones[l] = x.netmask[l])
                   <=> \A l \in 1 .. j : x.netmask[l] = 1
      BY <1>0
    <3> HIDE DEF m, ones
    <3> QED BY <3>1, <3>2
  <2>8. \A j, l \in 1 .. WIDTH : j < l => x.netmask[l] <= x.netmask[j]
    BY <2>3 DEF Ordinary
  <2> HIDE DEF x, n, m
  <2>9. InSubnet(x) <=> n >= m
    <3>1. ASSUME InSubnet(x) PROVE n >= m
      <4>1. CASE m = 0
        BY <2>6, <4>1
      <4>2. CASE m # 0
        <5>1. m \in 1 .. WIDTH /\ \A l \in 1 .. m : x.netmask[l] = 1
          BY <1>0, <2>7, <4>2
        <5>2. \A l \in 1 .. m : x.addr[l] = net_if_ip[l]
          BY <1>0, <3>1, <5>1 DEF InSubnet
        <5>3. m <= n
          BY <2>6, <5>1, <5>2
        <5> QED BY <2>6, <2>7, <5>3
      <4> QED BY <4>1, <4>2
    <3>2. ASSUME n >= m, NEW j \in 1 .. WIDTH, x.netmask[j] = 1
          PROVE  x.addr[j] = net_if_ip[j]
      <4>1. \A l \in 1 .. j : x.netmask[l] = 1
        <5>1. \A l \in 1 .. j : l \in 1 .. WIDTH /\ x.netmask[l] \in {0, 1}
          BY <1>0, <2>2
        <5>2. \A l \in 1 .. j : l # j => x.netmask[j] <= x.netmask[l]
          BY <1>0, <2>8, <5>1
        <5> QED BY <3>2, <5>1, <5>2
      <4>2. j <= n
        BY <2>6, <2>7, <3>2, <4>1
      <4> QED BY <2>6, <4>2
    <3> QED BY <3>1, <3>2 DEF InSubnet
  <2>10. Shared(i) = Match(alldevs, i)
    <3> DEFINE S == {0} \cup {j \in 1 .. WIDTH : \E y \in Addresses(i) :
                 InSubnet(y) /\ SubSeq(y.addr, 1, j) = SubSeq(net_if_ip, 1, j)}
    <3>1. Shared(i) = Max(S)
      BY Zenon DEF Shared
    <3>2. ASSUME NEW j \in 1 .. WIDTH
          PROVE  SubSeq(x.addr, 1, j) = SubSeq(net_if_ip, 1, j) <=> j <= n
      <4>1. /\ SubSeq(x.addr, 1, j) = [l \in 1 .. j |-> x.addr[l]]
            /\ SubSeq(net_if_ip, 1, j) = [l \in 1 .. j |-> net_if_ip[l]]
        BY <1>0, <2>2
      <4>2. [l \in 1 .. j |-> x.addr[l]] = [l \in 1 .. j |-> net_if_ip[l]]
              <=> \A l \in 1 .. j : net_if_ip[l] = x.addr[l]
        OBVIOUS
      <4> QED BY <2>6, <4>1, <4>2
    <3>3. \A j : j \in S <=> j = 0 \/ (j \in 1 .. WIDTH /\ InSubnet(x) /\ j <= n)
      <4> DEFINE P(y, j) ==
             InSubnet(y) /\ SubSeq(y.addr, 1, j) = SubSeq(net_if_ip, 1, j)
      <4>1. \A j : (\E y \in Addresses(i) : P(y, j)) <=> P(x, j)
        <5> HIDE DEF P
        <5> QED BY <2>3
      <4>2. \A j : j \in S <=> j = 0 \/ (j \in 1 .. WIDTH /\ P(x, j))
        <5> HIDE DEF P
        <5>1. S = {0} \cup {j \in 1 .. WIDTH : \E y \in Addresses(i) : P(y, j)}
          BY Zenon DEF P
        <5> HIDE DEF S
        <5> QED BY <4>1, <5>1, Zenon
      <4> HIDE DEF S
      <4>3. \A j \in 1 .. WIDTH : P(x, j) <=> InSubnet(x) /\ j <= n
        BY <3>2
      <4> HIDE DEF P
      <4> QED BY <4>2, <4>3, Zenon
    <3> HIDE DEF S, ones
    <3>4. S \in SUBSET (0 .. WIDTH)
      BY <1>0, <3>3
    <3>5. Match(alldevs, i) \in S /\ \A j \in S : j <= Match(alldevs, i)
      <4>1. Match(alldevs, i) = 0 \/ Match(alldevs, i) = n
        BY <2>5
      <4>2. CASE n < m
        <5>1. ~ (n >= m)
          BY <2>6, <2>7, <4>2
        <5>2. Match(alldevs, i) = 0
          BY <2>5, <4>2
        <5>3. S = {0}
          <6>1. ~ InSubnet(x)
            BY <2>9, <5>1
          <6> QED BY <3>3, <6>1, Zenon
        <5> QED BY <5>2, <5>3
      <4>3. CASE ~ (n < m)
        <5>1. n >= m
          BY <2>6, <2>7, <4>3
        <5>2. Match(alldevs, i) = n /\ n \in 0 .. WIDTH
          BY <2>5, <2>6, <4>3
        <5>3. \A j \in S : j <= n
          BY <1>0, <3>3, <5>2
        <5>4. n \in S
          BY <1>0, <2>9, <3>3, <5>1, <5>2
        <5> QED BY <5>2, <5>3, <5>4
      <4> QED BY <4>2, <4>3
    <3>6. Max(S) = Match(alldevs, i)
      BY <1>0, <3>4, <3>5, GreatestIs
    <3> QED BY <3>1, <3>6, Zenon
  <2>11. Own(i) <=> Match(alldevs, i) = WIDTH
    <3>1. Own(i) <=> x.addr = net_if_ip
      BY <2>3 DEF Own
    <3>2. x.addr = net_if_ip <=> \A l \in 1 .. WIDTH : net_if_ip[l] = x.addr[l]
      BY <1>0, <2>2
    <3>3. n = WIDTH <=> \A l \in 1 .. WIDTH : net_if_ip[l] = x.addr[l]
      <4>1. WIDTH \in 1 .. WIDTH
        BY <1>0
      <4>2. WIDTH <= n <=> \A l \in 1 .. WIDTH : net_if_ip[l] = x.addr[l]
        BY <2>6, <4>1
      <4>3. WIDTH <= n <=> n = WIDTH
        BY <1>0, <2>6
      <4> QED BY <4>2, <4>3
    <3>4. Match(alldevs, i) = WIDTH <=> n = WIDTH
      <4> HIDE DEF ones
      <4> QED BY <1>0, <2>5, <2>6, <2>7
    <3> QED BY <3>1, <3>2, <3>3, <3>4
  <2>12. Match(alldevs, i) \in 0 .. WIDTH
    BY <1>0, <2>5, <2>6
  <2>13. Match(alldevs, i) # 0 => InSubnet(x)
    BY <2>5, <2>6, <2>7, <2>9
  <2> QED BY <2>3, <2>4, <2>10, <2>11, <2>12, <2>13
<1> QED BY <1>1, <1>2

\* The search finds a card that matches best, or fails for one of two reasons.
LEMMA Search ==
  ASSUME alldevs \in Adapters, Ordinary
  PROVE  LET c == driver_find(alldevs)
         IN  /\ c # None =>
                  /\ c \in DOMAIN alldevs
                  /\ Match(alldevs, c) # 0
                  /\ \A i \in DOMAIN alldevs :
                       /\ Match(alldevs, i) <= Match(alldevs, c)
                       /\ Match(alldevs, i) # WIDTH
             /\ c = None => \/ \A i \in DOMAIN alldevs : Match(alldevs, i) = 0
                            \/ \E i \in DOMAIN alldevs : Match(alldevs, i) = WIDTH
<1> DEFINE S == {0} \cup {Match(alldevs, i) : i \in DOMAIN alldevs}
           B == {i \in DOMAIN alldevs : Match(alldevs, i) = MaxMatch(alldevs)}
<1>0. WIDTH \in Nat /\ DOMAIN alldevs \subseteq Nat \ {0}
  BY StartupAssumption
<1>1. \A i \in DOMAIN alldevs : Match(alldevs, i) \in 0 .. WIDTH
  BY CardMatch
<1>2. PICK b : /\ b = MaxMatch(alldevs) /\ b \in S /\ \A k \in S : k <= b
  <2>1. S \in SUBSET (0 .. WIDTH) /\ S # {}
    BY <1>0, <1>1
  <2>2. MaxMatch(alldevs) = Max(S)
    BY Zenon DEF MaxMatch
  <2> HIDE DEF S
  <2>3. Max(S) \in S /\ \A k \in S : k <= Max(S)
    BY <1>0, <2>1, Greatest
  <2> QED BY <2>2, <2>3, Zenon
<1>3. /\ b \in 0 .. WIDTH
      /\ \A i \in DOMAIN alldevs : Match(alldevs, i) <= b
  BY <1>0, <1>1, <1>2
<1>4. CASE b \in {0, WIDTH}
  <2>1. driver_find(alldevs) = None
    BY <1>2, <1>4, Zenon DEF driver_find
  <2>2. CASE b = 0
    BY <1>1, <1>3, <2>1, <2>2
  <2>3. CASE b # 0
    <3>1. \E i \in DOMAIN alldevs : Match(alldevs, i) = WIDTH
      BY <1>2, <1>4, <2>3
    <3> QED BY <2>1, <3>1
  <2> QED BY <2>2, <2>3
<1>5. CASE b \notin {0, WIDTH}
  <2>1. PICK c : c = driver_find(alldevs) /\ c \in B
    <3>1. B # {} /\ B \in SUBSET Nat
      BY <1>0, <1>2, <1>5
    <3>2. driver_find(alldevs) = Min(B)
      BY <1>2, <1>5, Zenon DEF driver_find
    <3> HIDE DEF B
    <3>3. Min(B) \in B
      BY <3>1, Least
    <3> QED BY <3>2, <3>3, Zenon
  <2>2. c \in DOMAIN alldevs /\ Match(alldevs, c) = b
    BY <1>2, <2>1
  <2>3. \A i \in DOMAIN alldevs : Match(alldevs, i) # WIDTH
    BY <1>0, <1>3, <1>5
  <2>4. c # None
    BY <1>0, <2>2 DEF None
  <2>5. Match(alldevs, c) # 0
    BY <1>5, <2>2
  <2> HIDE DEF B
  <2> QED BY <1>3, <2>1, <2>2, <2>3, <2>4, <2>5
<1> QED BY <1>4, <1>5

\* What is known of the card and of the failure is what the search said.
SearchInv ==
  /\ alldevs \in Adapters
  /\ card # None => /\ card = driver_find(alldevs)
                    /\ mask = LastInet(alldevs, card).netmask
  /\ failed = "driver_find" => driver_find(alldevs) = None

LEMMA SearchInvImpliesLongestPrefix == SearchInv => LongestPrefix
<1> SUFFICES ASSUME SearchInv, Ordinary
             PROVE  /\ card # None =>
                         /\ \A i \in DOMAIN alldevs : Shared(i) <= Shared(card)
                         /\ \A i \in DOMAIN alldevs : ~ Own(i)
                         /\ \E x \in Addresses(card) :
                              InSubnet(x) /\ mask = x.netmask
                    /\ failed = "driver_find" =>
                         \/ \A i \in DOMAIN alldevs : Shared(i) = 0
                         \/ \E i \in DOMAIN alldevs : Own(i)
  BY DEF LongestPrefix
<1>0. alldevs \in Adapters
  BY DEF SearchInv
<1>1. CASE card # None
  <2>1. card = driver_find(alldevs) /\ mask = LastInet(alldevs, card).netmask
    BY <1>1 DEF SearchInv
  <2>2. /\ card \in DOMAIN alldevs
        /\ Match(alldevs, card) # 0
        /\ \A i \in DOMAIN alldevs :
             /\ Match(alldevs, i) <= Match(alldevs, card)
             /\ Match(alldevs, i) # WIDTH
    BY <1>0, <1>1, <2>1, Search
  <2>3. \A i \in DOMAIN alldevs : Shared(i) <= Shared(card)
    BY <1>0, <2>2, CardMatch
  <2>4. \A i \in DOMAIN alldevs : ~ Own(i)
    BY <1>0, <2>2, CardMatch
  <2>5. LastInet(alldevs, card) \in Addresses(card)
          /\ InSubnet(LastInet(alldevs, card))
    BY <1>0, <2>2, CardMatch
  <2>6. failed # "driver_find"
    BY <1>1, <2>1 DEF SearchInv
  <2> QED BY <2>1, <2>3, <2>4, <2>5, <2>6
<1>2. CASE card = None /\ failed = "driver_find"
  <2>1. driver_find(alldevs) = None
    BY <1>2 DEF SearchInv
  <2>2. \/ \A i \in DOMAIN alldevs : Match(alldevs, i) = 0
        \/ \E i \in DOMAIN alldevs : Match(alldevs, i) = WIDTH
    BY <1>0, <2>1, Search
  <2>3. \A i \in DOMAIN alldevs : /\ Shared(i) = Match(alldevs, i)
                                  /\ Own(i) <=> Match(alldevs, i) = WIDTH
    BY <1>0, CardMatch
  <2> QED BY <1>2, <2>2, <2>3
<1> QED BY <1>1, <1>2

LEMMA SearchInvHolds == BSpec => []SearchInv
<1>1. BInit => SearchInv
  BY DEF BInit, SearchInv
<1>2. SearchInv /\ [BNext]_bootVars => SearchInv'
  <2> SUFFICES ASSUME SearchInv, [BNext]_bootVars PROVE SearchInv'
    OBVIOUS
  <2>1. CASE DriverFind
    <3>1. /\ card' = driver_find(alldevs)
          /\ alldevs' = alldevs /\ failed' = failed
          /\ driver_find(alldevs) # None
      BY <2>1, Zenon DEF DriverFind
    <3>2. mask' = LastInet(alldevs, card').netmask
      BY <2>1, Zenon DEF DriverFind
    <3>3. alldevs \in Adapters /\ failed # "driver_find"
      BY <3>1, Zenon DEF SearchInv
    <3>4. driver_find(alldevs') = driver_find(alldevs)
            /\ LastInet(alldevs', card') = LastInet(alldevs, card')
      BY <3>1, Zenon
    <3> QED BY <3>1, <3>2, <3>3, <3>4 DEF SearchInv
  <2>2. CASE DriverFindFails
    <3>1. /\ card' = card /\ mask' = mask /\ alldevs' = alldevs
          /\ failed' = "driver_find" => driver_find(alldevs) = None
      BY <2>2 DEF DriverFindFails
    <3> QED BY <3>1 DEF SearchInv
  <2>3. CASE DriverOpen
    <3>1. /\ card' = card /\ mask' = mask /\ alldevs' = alldevs
          /\ failed' = "driver_find" => failed = "driver_find"
      BY <2>3 DEF DriverOpen, Then
    <3> QED BY <3>1 DEF SearchInv
  <2>4. CASE UNCHANGED bootVars
    BY <2>4 DEF bootVars, SearchInv
  <2> QED BY <2>1, <2>2, <2>3, <2>4 DEF BNext
<1> QED BY <1>1, <1>2, PTL DEF BSpec

-----------------------------------------------------------------------------
\* driver.c:35: whatever cards there are, the one in use is the one with the
\* longest matching prefix, has us in its subnet and none has our address; and a
\* search that finds nothing had nothing to find.
THEOREM BestCardIsChosen == BSpec => []LongestPrefix
BY SearchInvHolds, SearchInvImpliesLongestPrefix, PTL

-----------------------------------------------------------------------------
\* The base64 coder.  Its loops are FoldLeft, which is defined by recursion on sets
\* of places.  That recursion has a solution, which for the first n places is the
\* state after n rounds.  An operator cannot be a parameter of a lemma, so these are
\* about both coders at once.
Round(way, c, x) == IF way = "encode" THEN EncodeByte(c, x) ELSE DecodeChar(c, x)

Value(way, c, s, f, t) == IF t = {} THEN c
                          ELSE Round(way, f[t \ {Max(t)}], s[Max(t)])

Solves(way, c, s, f, k) ==
  f = [t \in SUBSET (1 .. k) |-> Value(way, c, s, f, t)]

\* The recursion has a solution: one for k + 1 places extends one for k.
LEMMA RoundsExist ==
  ASSUME NEW way, NEW c, NEW s, NEW m \in Nat
  PROVE  \E f : Solves(way, c, s, f, m)
<1> DEFINE S == {k \in Nat : \E f : Solves(way, c, s, f, k)}
<1>1. 0 \in S
  <2> DEFINE f == [t \in SUBSET (1 .. 0) |-> c]
  <2>1. \A t \in SUBSET (1 .. 0) : t = {}
    OBVIOUS
  <2>2. f = [t \in SUBSET (1 .. 0) |-> Value(way, c, s, f, t)]
    BY <2>1, Zenon DEF Value
  <2> HIDE DEF f
  <2> QED BY <2>2, Zenon DEF Solves
<1>2. ASSUME NEW k \in Nat, k \in S PROVE k + 1 \in S
  <2>1. PICK f : Solves(way, c, s, f, k)
    BY <1>2
  <2> DEFINE g == [t \in SUBSET (1 .. k + 1) |->
                     IF k + 1 \in t THEN Round(way, f[t \ {k + 1}], s[k + 1])
                     ELSE f[t]]
  <2>2. ASSUME NEW t \in SUBSET (1 .. k + 1) PROVE g[t] = Value(way, c, s, g, t)
    <3>0. t \in SUBSET (0 .. k + 1)
      OBVIOUS
    <3>1. CASE k + 1 \in t
      <4>1. Max(t) = k + 1
        <5>1. k + 1 \in Nat /\ \A l \in t : l <= k + 1
          OBVIOUS
        <5> QED BY <3>0, <3>1, <5>1, GreatestIs
      <4>2. t \ {k + 1} \in SUBSET (1 .. k) /\ k + 1 \notin t \ {k + 1}
        OBVIOUS
      <4>3. t \ {k + 1} \in SUBSET (1 .. k + 1)
        OBVIOUS
      <4>4. g[t \ {k + 1}] = f[t \ {k + 1}]
        BY <4>2, <4>3, Zenon
      <4>5. g[t] = Round(way, f[t \ {k + 1}], s[k + 1])
        BY <3>1, Zenon
      <4>6. t # {}
        BY <3>1
      <4> HIDE DEF g
      <4>7. Value(way, c, s, g, t) = Round(way, g[t \ {k + 1}], s[k + 1])
        BY <4>1, <4>6, Zenon DEF Value
      <4> QED BY <4>4, <4>5, <4>7, Zenon
    <3>2. CASE k + 1 \notin t
      <4>1. t \in SUBSET (1 .. k)
        BY <3>2
      <4>2. f[t] = Value(way, c, s, f, t)
        BY <2>1, <4>1, Zenon DEF Solves
      <4>3. g[t] = f[t]
        BY <3>2, Zenon
      <4>4. CASE t = {}
        BY <4>2, <4>3, <4>4, Zenon DEF Value
      <4>5. CASE t # {}
        <5>1. t \ {Max(t)} \in SUBSET (1 .. k + 1) /\ k + 1 \notin t \ {Max(t)}
          BY <3>2
        <5>2. g[t \ {Max(t)}] = f[t \ {Max(t)}]
          BY <5>1, Zenon
        <5> HIDE DEF g
        <5> QED BY <4>2, <4>3, <4>5, <5>2, Zenon DEF Value
      <4> QED BY <4>4, <4>5
    <3> QED BY <3>1, <3>2
  <2>3. Solves(way, c, s, g, k + 1)
    <3> DEFINE h == [t \in SUBSET (1 .. k + 1) |-> Value(way, c, s, g, t)]
    <3>1. \A t \in SUBSET (1 .. k + 1) : g[t] = h[t]
      BY <2>2, Zenon
    <3>2. g = h
      BY <3>1
    <3> QED BY <3>2, Zenon DEF Solves
  <2> HIDE DEF g
  <2> QED BY <2>3
<1>3. m \in S
  <2> HIDE DEF S
  <2> QED BY <1>1, <1>2, Induction
<1> QED BY <1>3

RunOf(way, c, s, m, last) ==
  \E run : /\ run[0] = c
           /\ \A n \in 1 .. m : run[n] = Round(way, run[n - 1], s[n])
           /\ run[m] = last

\* A solution is a run of the loop, round by round.
LEMMA RoundsRun ==
  ASSUME NEW way, NEW c, NEW s, NEW m \in Nat, NEW f, Solves(way, c, s, f, m)
  PROVE  RunOf(way, c, s, m, f[1 .. m])
<1> DEFINE run == [n \in 0 .. m |-> f[1 .. n]]
<1>5. run[0] = c
  <2>1. 1 .. 0 = {} /\ 1 .. 0 \in SUBSET (1 .. m) /\ run[0] = f[1 .. 0]
    OBVIOUS
  <2> HIDE DEF run
  <2>2. f[1 .. 0] = Value(way, c, s, f, 1 .. 0)
    <3> QED BY <2>1, Zenon DEF Solves
  <2> QED BY <2>1, <2>2, Zenon DEF Value
<1>6. ASSUME NEW n \in 1 .. m PROVE run[n] = Round(way, run[n - 1], s[n])
  <2>1. Max(1 .. n) = n
    <3>1. 1 .. n \in SUBSET (0 .. n) /\ n \in 1 .. n /\ \A k \in 1 .. n : k <= n
      OBVIOUS
    <3>2. n \in Nat
      OBVIOUS
    <3> QED BY <3>1, <3>2, GreatestIs
  <2>2. /\ 1 .. n \in SUBSET (1 .. m)
        /\ (1 .. n) \ {n} = 1 .. n - 1
        /\ 1 .. n # {}
        /\ n \in 0 .. m /\ n - 1 \in 0 .. m
    OBVIOUS
  <2>3. f[1 .. n] = Value(way, c, s, f, 1 .. n)
    <3> QED BY <2>2, Zenon DEF Solves
  <2>4. f[1 .. n] = Round(way, f[1 .. n - 1], s[n])
    BY <2>1, <2>2, <2>3, Zenon DEF Value
  <2>5. run[n] = f[1 .. n] /\ run[n - 1] = f[1 .. n - 1]
    BY <2>2, Zenon
  <2> QED BY <2>4, <2>5, Zenon
<1>7. run[m] = f[1 .. m]
  OBVIOUS
<1> HIDE DEF run
<1> QED BY <1>5, <1>6, <1>7, Zenon DEF RunOf

\* The while loop of base64_encode_block, as the fold over the block.
LEMMA EncodeRun ==
  ASSUME NEW c, NEW s, NEW m \in Nat, DOMAIN s = 1 .. m
  PROVE  \E run : /\ run[0] = c
                  /\ \A n \in 1 .. m : run[n] = EncodeByte(run[n - 1], s[n])
                  /\ run[m] = FoldLeft(EncodeByte, c, s)
<1> DEFINE V(f, t) == IF t = {} THEN c ELSE EncodeByte(f[t \ {Max(t)}], s[Max(t)])
           So(f) == f = [t \in SUBSET (1 .. m) |-> V(f, t)]
           w == "encode"
<1>1. \A x, y : Round(w, x, y) = EncodeByte(x, y)
  BY Zenon DEF Round
<1>2. \A f, t : V(f, t) = Value(w, c, s, f, t)
  BY <1>1, Zenon DEF Value
<1>3. FoldLeft(EncodeByte, c, s) = (CHOOSE f : So(f))[1 .. m]
  <2>1. FoldLeft(EncodeByte, c, s) =
          (CHOOSE f : f = [t \in SUBSET (DOMAIN s) |-> V(f, t)])[DOMAIN s]
    BY Zenon DEF FoldLeft, MapThenFoldSet
  <2> QED BY <2>1, Zenon
<1> HIDE DEF V, w
<1>4. \A f : So(f) <=> Solves(w, c, s, f, m)
  BY <1>2, Zenon DEF Solves
<1> HIDE DEF So
<1>5. PICK f : f = (CHOOSE g : So(g)) /\ Solves(w, c, s, f, m)
  BY <1>4, RoundsExist, Zenon
<1>6. FoldLeft(EncodeByte, c, s) = f[1 .. m]
  BY <1>3, <1>5, Zenon
<1>7. PICK run : /\ run[0] = c
                 /\ \A n \in 1 .. m : run[n] = Round(w, run[n - 1], s[n])
                 /\ run[m] = f[1 .. m]
  <2>1. RunOf(w, c, s, m, f[1 .. m])
    BY <1>5, RoundsRun, Zenon
  <2> QED BY <2>1, Zenon DEF RunOf
<1> QED BY <1>1, <1>6, <1>7, Zenon

\* That of base64_decode_block.
LEMMA DecodeRun ==
  ASSUME NEW c, NEW s, NEW m \in Nat, DOMAIN s = 1 .. m
  PROVE  \E run : /\ run[0] = c
                  /\ \A n \in 1 .. m : run[n] = DecodeChar(run[n - 1], s[n])
                  /\ run[m] = FoldLeft(DecodeChar, c, s)
<1> DEFINE V(f, t) == IF t = {} THEN c ELSE DecodeChar(f[t \ {Max(t)}], s[Max(t)])
           So(f) == f = [t \in SUBSET (1 .. m) |-> V(f, t)]
           w == "decode"
<1>1. \A x, y : Round(w, x, y) = DecodeChar(x, y)
  BY Zenon DEF Round
<1>2. \A f, t : V(f, t) = Value(w, c, s, f, t)
  BY <1>1, Zenon DEF Value
<1>3. FoldLeft(DecodeChar, c, s) = (CHOOSE f : So(f))[1 .. m]
  <2>1. FoldLeft(DecodeChar, c, s) =
          (CHOOSE f : f = [t \in SUBSET (DOMAIN s) |-> V(f, t)])[DOMAIN s]
    BY Zenon DEF FoldLeft, MapThenFoldSet
  <2> QED BY <2>1, Zenon
<1> HIDE DEF V, w
<1>4. \A f : So(f) <=> Solves(w, c, s, f, m)
  BY <1>2, Zenon DEF Solves
<1> HIDE DEF So
<1>5. PICK f : f = (CHOOSE g : So(g)) /\ Solves(w, c, s, f, m)
  BY <1>4, RoundsExist, Zenon
<1>6. FoldLeft(DecodeChar, c, s) = f[1 .. m]
  BY <1>3, <1>5, Zenon
<1>7. PICK run : /\ run[0] = c
                 /\ \A n \in 1 .. m : run[n] = Round(w, run[n - 1], s[n])
                 /\ run[m] = f[1 .. m]
  <2>1. RunOf(w, c, s, m, f[1 .. m])
    BY <1>5, RoundsRun, Zenon
  <2> QED BY <2>1, Zenon DEF RunOf
<1> QED BY <1>1, <1>6, <1>7, Zenon

-----------------------------------------------------------------------------
\* Counting through lines of w: at the last place of one the next begins.
LEMMA DivStep ==
  ASSUME NEW w \in Nat \ {0}, NEW p \in Nat
  PROVE  /\ p \div w \in Nat /\ p % w \in 0 .. w - 1
         /\ p % w = w - 1 => /\ (p + 1) % w = 0
                             /\ (p + 1) \div w = p \div w + 1
         /\ p % w # w - 1 => /\ (p + 1) % w = (p % w) + 1
                             /\ (p + 1) \div w = p \div w
OBVIOUS

-----------------------------------------------------------------------------
\* Powers of 64, and the four digits to the base of 64 of three bytes.
Weight(j) == 64^(3 - j)

LEMMA Weights ==
  Weight(0) = 262144 /\ Weight(1) = 4096 /\ Weight(2) = 64 /\ Weight(3) = 1
<1>1. 64^3 = 262144 /\ 64^2 = 4096 /\ 64^1 = 64 /\ 64^0 = 1
  OBVIOUS
<1>2. 3 - 0 = 3 /\ 3 - 1 = 2 /\ 3 - 2 = 1 /\ 3 - 3 = 0
  OBVIOUS
<1>3. Weight(0) = 64^3 /\ Weight(1) = 64^2 /\ Weight(2) = 64^1 /\ Weight(3) = 64^0
  BY <1>2, Zenon DEF Weight
<1> QED BY <1>1, <1>3

Bits24(b1, b2, b3) == 65536 * b1 + 256 * b2 + b3

DigitsOf(b1, b2, b3) ==
  /\ (Bits24(b1, b2, b3) \div Weight(0)) % 64 = b1 \div 4
  /\ (Bits24(b1, b2, b3) \div Weight(1)) % 64 = (b1 % 4) * 16 + (b2 \div 16)
  /\ (Bits24(b1, b2, b3) \div Weight(2)) % 64 = (b2 % 16) * 4 + (b3 \div 64)
  /\ (Bits24(b1, b2, b3) \div Weight(3)) % 64 = b3 % 64

LEMMA Digits ==
  ASSUME NEW b1 \in Bytes, NEW b2 \in Bytes, NEW b3 \in Bytes
  PROVE  DigitsOf(b1, b2, b3)
<1> DEFINE a == b1 \div 4  b == b1 % 4
           c == b2 \div 16 d == b2 % 16
           e == b3 \div 64 h == b3 % 64
           n == Bits24(b1, b2, b3)
<1>1. /\ b1 = 4 * a + b /\ a \in 0 .. 63 /\ b \in 0 .. 3
      /\ b2 = 16 * c + d /\ c \in 0 .. 15 /\ d \in 0 .. 15
      /\ b3 = 64 * e + h /\ e \in 0 .. 3 /\ h \in 0 .. 63
  <2>1. b1 \in 0 .. 255 /\ b2 \in 0 .. 255 /\ b3 \in 0 .. 255
    BY DEF Bytes
  <2> QED BY <2>1
<1> HIDE DEF a, b, c, d, e, h
<1> DEFINE v == b * 16 + c
           w == d * 4 + e
<1>2. v \in 0 .. 63 /\ w \in 0 .. 63
  BY <1>1
<1>3. n = 262144 * a + 4096 * v + 64 * w + h
  BY <1>1 DEF Bits24
<1> HIDE DEF n, v, w
<1>4. /\ n \div 262144 = a
      /\ n \div 4096 = 64 * a + v
      /\ n \div 64 = 64 * (64 * a + v) + w
      /\ n \div 1 = 64 * (64 * (64 * a + v) + w) + h
  <2>1. n \div 262144 = a
    BY <1>1, <1>2, <1>3
  <2>2. n \div 4096 = 64 * a + v
    BY <1>1, <1>2, <1>3
  <2>3. n \div 64 = 64 * (64 * a + v) + w
    BY <1>1, <1>2, <1>3
  <2>4. n \div 1 = 64 * (64 * (64 * a + v) + w) + h
    BY <1>1, <1>2, <1>3
  <2> QED BY <2>1, <2>2, <2>3, <2>4
<1>5. /\ (n \div 262144) % 64 = a
      /\ (n \div 4096) % 64 = v
      /\ (n \div 64) % 64 = w
      /\ (n \div 1) % 64 = h
  BY <1>1, <1>2, <1>4
<1>6. /\ (n \div Weight(0)) % 64 = a
      /\ (n \div Weight(1)) % 64 = v
      /\ (n \div Weight(2)) % 64 = w
      /\ (n \div Weight(3)) % 64 = h
  BY <1>5, Weights
<1> QED BY <1>6, Zenon DEF DigitsOf, a, b, c, d, e, h, n, v, w

\* The four characters of a group by the bytes they are made of.
LEMMA Sextets ==
  ASSUME NEW f \in Seq(0 .. 255), NEW g \in Nat
  PROVE  LET L == Len(f)
             x == Octet(f, 3 * g + 1)
             y == Octet(f, 3 * g + 2)
             z == Octet(f, 3 * g + 3)
         IN  /\ x \in 0 .. 255 /\ y \in 0 .. 255 /\ z \in 0 .. 255
             /\ Sextet(f, 4 * g) =
                  IF L >= 3 * g + 1 THEN x \div 4 ELSE PAD
             /\ Sextet(f, 4 * g + 1) =
                  IF L >= 3 * g + 1 THEN (x % 4) * 16 + (y \div 16) ELSE PAD
             /\ Sextet(f, 4 * g + 2) =
                  IF L >= 3 * g + 2 THEN (y % 16) * 4 + (z \div 64) ELSE PAD
             /\ Sextet(f, 4 * g + 3) =
                  IF L >= 3 * g + 3 THEN z % 64 ELSE PAD
<1> DEFINE L == Len(f)
           x == Octet(f, 3 * g + 1)
           y == Octet(f, 3 * g + 2)
           z == Octet(f, 3 * g + 3)
           n == Bits24(x, y, z)
<1>0. L \in Nat
  OBVIOUS
<1>1. x \in 0 .. 255 /\ y \in 0 .. 255 /\ z \in 0 .. 255
  <2>1. ASSUME NEW i \in Nat \ {0} PROVE Octet(f, i) \in 0 .. 255
    <3>1. CASE i <= L
      <4>1. i \in 1 .. Len(f)
        BY <1>0, <3>1
      <4>2. f[i] \in 0 .. 255
        BY <4>1, ElementOfSeq, Zenon
      <4>3. Octet(f, i) = f[i]
        BY <3>1, Zenon DEF Octet
      <4> QED BY <4>2, <4>3
    <3>2. CASE ~(i <= L)
      <4>1. Octet(f, i) = 0 /\ 0 \in 0 .. 255
        BY <3>2 DEF Octet
      <4> QED BY <4>1, Zenon
    <3> QED BY <3>1, <3>2
  <2>2. 3 * g + 1 \in Nat \ {0} /\ 3 * g + 2 \in Nat \ {0} /\ 3 * g + 3 \in Nat \ {0}
    OBVIOUS
  <2> QED BY <2>1, <2>2, Zenon
<1>2. Group(f, g) = n
  BY DEF Group, Bits24
<1> HIDE DEF n, L, x, y, z
<1>3. ASSUME NEW j \in 0 .. 3
      PROVE  Sextet(f, 4 * g + j) =
               IF L >= 3 * g + (IF j = 0 THEN 1 ELSE j)
               THEN (n \div Weight(j)) % 64 ELSE PAD
  <2>1. Sextet(f, 4 * g + j) =
          IF 6 * (4 * g + j) >= 8 * L THEN PAD
          ELSE (Group(f, (4 * g + j) \div 4) \div 64^(3 - ((4 * g + j) % 4))) % 64
    BY Zenon DEF Sextet, L
  <2>2. (4 * g + j) \div 4 = g /\ (4 * g + j) % 4 = j
    OBVIOUS
  <2>3. Sextet(f, 4 * g + j) = IF 6 * (4 * g + j) >= 8 * L THEN PAD
                                ELSE (n \div Weight(j)) % 64
    BY <1>2, <2>1, <2>2, Zenon DEF Weight
  <2>4. 6 * (4 * g + j) >= 8 * L <=> ~(L >= 3 * g + (IF j = 0 THEN 1 ELSE j))
    BY <1>0
  <2> QED BY <2>3, <2>4, Zenon
<1>5. /\ (n \div Weight(0)) % 64 = x \div 4
      /\ (n \div Weight(1)) % 64 = (x % 4) * 16 + (y \div 16)
      /\ (n \div Weight(2)) % 64 = (y % 16) * 4 + (z \div 64)
      /\ (n \div Weight(3)) % 64 = z % 64
  <2>1. x \in Bytes /\ y \in Bytes /\ z \in Bytes
    BY <1>1 DEF Bytes
  <2>2. DigitsOf(x, y, z)
    BY <2>1, Digits, Zenon
  <2> QED BY <2>2, Zenon DEF DigitsOf, n
<1>6. Sextet(f, 4 * g + 0) = IF L >= 3 * g + 1 THEN x \div 4 ELSE PAD
  <2>1. 0 \in 0 .. 3
    OBVIOUS
  <2> QED BY <1>3, <1>5, <2>1, Zenon
<1>7. Sextet(f, 4 * g + 1) =
        IF L >= 3 * g + 1 THEN (x % 4) * 16 + (y \div 16) ELSE PAD
  <2>1. 1 \in 0 .. 3 /\ 1 # 0
    OBVIOUS
  <2> QED BY <1>3, <1>5, <2>1, Zenon
<1>8. Sextet(f, 4 * g + 2) =
        IF L >= 3 * g + 2 THEN (y % 16) * 4 + (z \div 64) ELSE PAD
  <2>1. 2 \in 0 .. 3 /\ 2 # 0
    OBVIOUS
  <2> QED BY <1>3, <1>5, <2>1, Zenon
<1>9. Sextet(f, 4 * g + 3) = IF L >= 3 * g + 3 THEN z % 64 ELSE PAD
  <2>1. 3 \in 0 .. 3 /\ 3 # 0
    OBVIOUS
  <2> QED BY <1>3, <1>5, <2>1, Zenon
<1>10. 4 * g + 0 = 4 * g
  OBVIOUS
<1> QED BY <1>1, <1>6, <1>7, <1>8, <1>9, <1>10 DEF L, x, y, z

-----------------------------------------------------------------------------
\* The text so far: in its line l and after col characters of it.
Char(f, i) ==
  IF i % (CHARS_PER_LINE + 1) = 0 THEN NEWLINE
  ELSE Sextet(f, i - 1 - LineEnds(i - 1))

TextIs(f, out, l, col) ==
  /\ out \in Seq(0 .. 65)
  /\ LineEnds(Len(out)) = l
  /\ Len(out) % (CHARS_PER_LINE + 1) = col
  /\ \A i \in 1 .. Len(out) : out[i] = Char(f, i)

\* One character more, while the line is not full.
LEMMA PutCharacter ==
  ASSUME NEW f, NEW out, NEW l, NEW col, TextIs(f, out, l, col),
         col # CHARS_PER_LINE,
         NEW c \in 0 .. 65, c = Sextet(f, Len(out) - l)
  PROVE  TextIs(f, Append(out, c), l, col + 1)
<1> DEFINE W == CHARS_PER_LINE + 1
           p == Len(out)
<1>0. W \in Nat \ {0} /\ p \in Nat /\ CHARS_PER_LINE = W - 1
  BY CodeAssumption DEF TextIs
<1>1. Append(out, c) \in Seq(0 .. 65) /\ Len(Append(out, c)) = p + 1
  BY DEF TextIs
<1>2. p \div W = l /\ p % W = col
  BY DEF TextIs, LineEnds
<1> HIDE DEF W
<1>3. (p + 1) % W = col + 1 /\ (p + 1) \div W = l /\ col + 1 # 0
  <2> HIDE DEF p
  <2>1. p % W \in 0 .. W - 1 /\ p % W # W - 1
    BY <1>0, <1>2, DivStep
  <2>2. (p + 1) % W = (p % W) + 1 /\ (p + 1) \div W = p \div W
    BY <1>0, <2>1, DivStep, Zenon
  <2> QED BY <1>0, <1>2, <2>1, <2>2
<1>4. ASSUME NEW i \in 1 .. p + 1 PROVE Append(out, c)[i] = Char(f, i)
  <2>1. CASE i = p + 1
    <3>1. Append(out, c)[i] = c
      BY <2>1 DEF TextIs
    <3>2. i - 1 = p
      BY <1>0, <2>1
    <3>3. Char(f, i) = Sextet(f, p - l)
      BY <1>2, <1>3, <2>1, <3>2, Zenon DEF Char, LineEnds, W
    <3> QED BY <3>1, <3>3
  <2>2. CASE i # p + 1
    <3>1. i \in 1 .. p
      BY <1>0, <2>2
    <3>2. Append(out, c)[i] = out[i]
      BY <3>1 DEF TextIs
    <3> QED BY <3>1, <3>2 DEF TextIs
  <2> QED BY <2>1, <2>2
<1> QED BY <1>1, <1>3, <1>4, Zenon DEF TextIs, LineEnds, W

\* A line end, where the line is full.
LEMMA PutLineEnd ==
  ASSUME NEW f, NEW out, NEW l, NEW col, TextIs(f, out, l, col),
         col = CHARS_PER_LINE
  PROVE  TextIs(f, Append(out, NEWLINE), l + 1, 0)
<1> DEFINE W == CHARS_PER_LINE + 1
           p == Len(out)
<1>0. W \in Nat \ {0} /\ p \in Nat /\ CHARS_PER_LINE = W - 1
  BY CodeAssumption DEF TextIs
<1>1. /\ Append(out, NEWLINE) \in Seq(0 .. 65)
      /\ Len(Append(out, NEWLINE)) = p + 1
  BY DEF TextIs, NEWLINE
<1>2. p \div W = l /\ p % W = col
  BY DEF TextIs, LineEnds
<1> HIDE DEF W
<1>3. (p + 1) % W = 0 /\ (p + 1) \div W = l + 1
  <2> HIDE DEF p
  <2>1. p % W = W - 1
    BY <1>0, <1>2
  <2>2. (p + 1) % W = 0 /\ (p + 1) \div W = p \div W + 1
    BY <1>0, <2>1, DivStep, Zenon
  <2> QED BY <1>2, <2>2
<1>4. ASSUME NEW i \in 1 .. p + 1 PROVE Append(out, NEWLINE)[i] = Char(f, i)
  <2>1. CASE i = p + 1
    <3>1. Append(out, NEWLINE)[i] = NEWLINE
      BY <2>1 DEF TextIs
    <3>2. Char(f, i) = NEWLINE
      BY <1>3, <2>1, Zenon DEF Char, W
    <3> QED BY <3>1, <3>2
  <2>2. CASE i # p + 1
    <3>1. i \in 1 .. p
      BY <1>0, <2>2
    <3>2. Append(out, NEWLINE)[i] = out[i]
      BY <3>1 DEF TextIs
    <3> QED BY <3>1, <3>2 DEF TextIs
  <2> QED BY <2>1, <2>2
<1> QED BY <1>1, <1>3, <1>4, Zenon DEF TextIs, LineEnds, W

-----------------------------------------------------------------------------
\* The encoder after n bytes of f: where the coroutine is, the bits it keeps, its
\* place in the line, and the text, which lacks the characters begun.
Coder == [step : {"A", "B", "C"}, result : Nat, stepcount : Nat, code : Seq(0 .. 65)]

Quartets == CHARS_PER_LINE \div 4

EncodedTo(f, n, c, out) ==
  LET g == n \div 3 IN
  /\ c.step = IF n % 3 = 0 THEN "A" ELSE IF n % 3 = 1 THEN "B" ELSE "C"
  /\ n % 3 = 1 => c.result = (f[n] % 4) * 16
  /\ n % 3 = 2 => c.result = (f[n] % 16) * 4
  /\ c.stepcount = g % Quartets
  /\ Len(out) = 4 * g + (n % 3) + (g \div Quartets)
  /\ TextIs(f, out, g \div Quartets, 4 * (g % Quartets) + (n % 3))

\* A line is so many groups of four characters.
LEMMA QuartetsType ==
  /\ Quartets \in Nat \ {0}
  /\ CHARS_PER_LINE = 4 * Quartets
  /\ CHARS_PER_LINE \in Nat
BY CodeAssumption DEF Quartets

\* Characters put behind a text at once, and one by one.
LEMMA ConcatOne ==
  ASSUME NEW b \in Seq(0 .. 65), NEW x \in 0 .. 65
  PROVE  b \o <<x>> = Append(b, x) /\ Append(b, x) \in Seq(0 .. 65)
OBVIOUS

LEMMA ConcatTwo ==
  ASSUME NEW b \in Seq(0 .. 65), NEW x \in 0 .. 65, NEW y \in 0 .. 65
  PROVE  b \o <<x, y>> = Append(Append(b, x), y)
OBVIOUS

LEMMA ConcatThree ==
  ASSUME NEW b \in Seq(0 .. 65), NEW x \in 0 .. 65, NEW y \in 0 .. 65,
         NEW z \in 0 .. 65
  PROVE  b \o Append(<<x, y>>, z) = Append(Append(Append(b, x), y), z)
<1>1. b \o <<x, y>> = Append(Append(b, x), y)
  OBVIOUS
<1> DEFINE s == <<x, y>>
<1>2. s \in Seq(0 .. 65)
  OBVIOUS
<1> HIDE DEF s
<1>3. b \o Append(s, z) = Append(b \o s, z)
  BY <1>2
<1> QED BY <1>1, <1>3, Zenon DEF s

\* What Emit changes.
LEMMA Emitted ==
  ASSUME NEW e \in Coder, NEW co \in Seq(0 .. 65)
  PROVE  /\ Emit(e, co) \in Coder
         /\ Emit(e, co).step = e.step
         /\ Emit(e, co).result = e.result
         /\ Emit(e, co).stepcount = e.stepcount
         /\ Emit(e, co).code = e.code \o co
<1>1. e.code \o co \in Seq(0 .. 65)
  BY DEF Coder
<1>2. Emit(e, co) \in Coder
  BY <1>1 DEF Coder, Emit
<1>3. /\ Emit(e, co).step = e.step
      /\ Emit(e, co).result = e.result
      /\ Emit(e, co).stepcount = e.stepcount
      /\ Emit(e, co).code = e.code \o co
  BY DEF Coder, Emit
<1> QED BY <1>2, <1>3

\* What a byte adds, and what it leaves to be added.
LEMMA RoundA ==
  ASSUME NEW c \in Coder, NEW b \in 0 .. 255, c.step = "A"
  PROVE  LET d == EncodeByte(c, b)
         IN  /\ d \in Coder
             /\ d.step = "B" /\ d.result = (b % 4) * 16
             /\ d.stepcount = c.stepcount
             /\ d.code = Append(c.code, b \div 4)
<1> DEFINE v == b \div 4
           re == (b % 4) * 16
           st == "B"
           e == [c EXCEPT !.step = st, !.result = re]
<1>1. EncodeByte(c, b) = StepA(c, b)
  BY DEF EncodeByte
<1>2. base64_encode_value(v) = v /\ v \in 0 .. 65
  BY DEF base64_encode_value
<1>3. EncodeByte(c, b) = Emit(e, <<v>>)
  BY <1>1, <1>2, Zenon DEF StepA
<1>4. /\ e \in Coder
      /\ e.step = st /\ e.result = re /\ e.stepcount = c.stepcount
      /\ e.code = c.code
  <2>1. st \in {"A", "B", "C"} /\ re \in Nat
    OBVIOUS
  <2> HIDE DEF st, re
  <2> QED BY <2>1 DEF Coder
<1> HIDE DEF e, v
<1>5. <<v>> \in Seq(0 .. 65)
  BY <1>2
<1>6. c.code \o <<v>> = Append(c.code, v)
  <2>1. c.code \in Seq(0 .. 65)
    BY DEF Coder
  <2> QED BY <1>2, <2>1, ConcatOne
<1>7. /\ Emit(e, <<v>>) \in Coder
      /\ Emit(e, <<v>>).step = st
      /\ Emit(e, <<v>>).result = re
      /\ Emit(e, <<v>>).stepcount = c.stepcount
      /\ Emit(e, <<v>>).code = Append(c.code, v)
  BY <1>4, <1>5, <1>6, Emitted, ZenonT(60)
<1> QED BY <1>3, <1>7, Zenon DEF v, re, st

LEMMA RoundB ==
  ASSUME NEW c \in Coder, NEW b \in 0 .. 255, c.step = "B", c.result <= 48
  PROVE  LET d == EncodeByte(c, b)
         IN  /\ d \in Coder
             /\ d.step = "C" /\ d.result = (b % 16) * 4
             /\ d.stepcount = c.stepcount
             /\ d.code = Append(c.code, c.result + (b \div 16))
<1> DEFINE v == c.result + (b \div 16)
           re == (b % 16) * 4
           st == "C"
           e == [c EXCEPT !.step = st, !.result = re]
<1>1. EncodeByte(c, b) = StepB(c, b)
  BY DEF EncodeByte
<1>2. base64_encode_value(v) = v /\ v \in 0 .. 65
  <2>1. c.result \in Nat
    BY DEF Coder
  <2> QED BY <2>1 DEF base64_encode_value
<1>3. EncodeByte(c, b) = Emit(e, <<v>>)
  BY <1>1, <1>2, Zenon DEF StepB
<1>4. /\ e \in Coder
      /\ e.step = st /\ e.result = re /\ e.stepcount = c.stepcount
      /\ e.code = c.code
  <2>1. st \in {"A", "B", "C"} /\ re \in Nat
    OBVIOUS
  <2> HIDE DEF st, re
  <2> QED BY <2>1 DEF Coder
<1> HIDE DEF e, v
<1>5. <<v>> \in Seq(0 .. 65)
  BY <1>2
<1>6. c.code \o <<v>> = Append(c.code, v)
  <2>1. c.code \in Seq(0 .. 65)
    BY DEF Coder
  <2> QED BY <1>2, <2>1, ConcatOne
<1>7. /\ Emit(e, <<v>>) \in Coder
      /\ Emit(e, <<v>>).step = st
      /\ Emit(e, <<v>>).result = re
      /\ Emit(e, <<v>>).stepcount = c.stepcount
      /\ Emit(e, <<v>>).code = Append(c.code, v)
  BY <1>4, <1>5, <1>6, Emitted, ZenonT(60)
<1> QED BY <1>3, <1>7, Zenon DEF v, re, st

LEMMA RoundC ==
  ASSUME NEW c \in Coder, NEW b \in 0 .. 255, c.step = "C", c.result <= 60
  PROVE  LET d == EncodeByte(c, b)
             full == c.stepcount + 1 = Quartets
             code == Append(Append(c.code, c.result + (b \div 64)), b % 64)
         IN  /\ d \in Coder
             /\ d.step = "A"
             /\ d.stepcount = IF full THEN 0 ELSE c.stepcount + 1
             /\ d.code = IF full THEN Append(code, NEWLINE) ELSE code
<1> DEFINE v == c.result + (b \div 64)
           w == b % 64
           full == c.stepcount + 1 = Quartets
           sc == IF full THEN 0 ELSE c.stepcount + 1
           co == <<v, w>>
           new == IF full THEN Append(co, NEWLINE) ELSE co
           e == [c EXCEPT !.step = "A", !.result = w, !.stepcount = sc]
<1>1. EncodeByte(c, b) = StepC(c, b)
  BY DEF EncodeByte
<1>2. /\ base64_encode_value(v) = v /\ base64_encode_value(w) = w
      /\ v \in 0 .. 65 /\ w \in 0 .. 65 /\ NEWLINE \in 0 .. 65
  <2>1. c.result \in Nat
    BY DEF Coder
  <2> QED BY <2>1 DEF base64_encode_value, NEWLINE
<1>3. EncodeByte(c, b) = Emit(e, new)
  BY <1>1, <1>2, Zenon DEF StepC, Quartets
<1>4. sc \in Nat /\ w \in Nat
  BY DEF Coder
<1> HIDE DEF sc
<1>5. /\ e \in Coder
      /\ e.step = "A" /\ e.stepcount = sc /\ e.code = c.code
  BY <1>4 DEF Coder
<1> HIDE DEF e, v, w
<1>6. co \in Seq(0 .. 65) /\ Append(co, NEWLINE) \in Seq(0 .. 65)
  BY <1>2
<1>7. c.code \in Seq(0 .. 65)
  BY DEF Coder
<1>8. /\ c.code \o co = Append(Append(c.code, v), w)
      /\ c.code \o Append(co, NEWLINE)
           = Append(Append(Append(c.code, v), w), NEWLINE)
  BY <1>2, <1>7, ConcatTwo, ConcatThree, ZenonT(60)
<1> HIDE DEF co, full
<1>9. new \in Seq(0 .. 65)
  BY <1>6
<1>10. c.code \o new = IF full THEN Append(Append(Append(c.code, v), w), NEWLINE)
                       ELSE Append(Append(c.code, v), w)
  BY <1>8
<1> HIDE DEF new
<1>11. /\ Emit(e, new) \in Coder
       /\ Emit(e, new).step = "A"
       /\ Emit(e, new).stepcount = sc
       /\ Emit(e, new).code = c.code \o new
  BY <1>5, <1>9, Emitted, ZenonT(60)
<1> QED BY <1>3, <1>10, <1>11, Zenon DEF v, w, sc, full

-----------------------------------------------------------------------------
\* Counting bytes through the groups of three.
LEMMA Places ==
  ASSUME NEW n \in Nat
  PROVE  LET g == n \div 3
             j == n % 3
         IN  /\ g \in Nat /\ j \in 0 .. 2 /\ n = 3 * g + j
             /\ j # 2 => (n + 1) \div 3 = g /\ (n + 1) % 3 = j + 1
             /\ j = 2 => (n + 1) \div 3 = g + 1 /\ (n + 1) % 3 = 0
OBVIOUS

LEMMA Longer ==
  ASSUME NEW s \in Seq(0 .. 65), NEW x
  PROVE  Len(Append(s, x)) = Len(s) + 1
OBVIOUS

LEMMA Element ==
  ASSUME NEW s \in Seq(0 .. 255), NEW i \in 1 .. Len(s)
  PROVE  s[i] \in 0 .. 255
BY ElementOfSeq, Zenon

\* The next byte keeps the encoder where it ought to be, whatever its step was.
LEMMA EncodeStep ==
  ASSUME NEW f \in Seq(0 .. 255), NEW n \in Nat, n < Len(f),
         NEW c \in Coder, NEW pre \in Seq(0 .. 65),
         EncodedTo(f, n, c, pre \o c.code),
         NEW d, d = EncodeByte(c, f[n + 1])
  PROVE  d \in Coder /\ EncodedTo(f, n + 1, d, pre \o d.code)
<1> DEFINE g == n \div 3
           j == n % 3
           l == g \div Quartets
           q == g % Quartets
           out == pre \o c.code
           b == f[n + 1]
<1>1. b \in 0 .. 255 /\ c.code \in Seq(0 .. 65) /\ Len(f) \in Nat
  <2>1. Len(f) \in Nat /\ n + 1 \in 1 .. Len(f)
    OBVIOUS
  <2>2. b \in 0 .. 255
    <3> QED BY <2>1, Element, Zenon
  <2> QED BY <2>1, <2>2 DEF Coder
<1>2. /\ g \in Nat /\ j \in 0 .. 2 /\ n = 3 * g + j
      /\ j # 2 => (n + 1) \div 3 = g /\ (n + 1) % 3 = j + 1
      /\ j = 2 => (n + 1) \div 3 = g + 1 /\ (n + 1) % 3 = 0
  BY Places
<1>3. /\ l \in Nat /\ q \in 0 .. Quartets - 1
      /\ q = Quartets - 1 => /\ (g + 1) % Quartets = 0
                             /\ (g + 1) \div Quartets = l + 1
      /\ q # Quartets - 1 => /\ (g + 1) % Quartets = q + 1
                             /\ (g + 1) \div Quartets = l
  <2>1. g \in Nat
    BY <1>2
  <2> HIDE DEF g
  <2> QED BY <2>1, QuartetsType, DivStep
<1>4. /\ c.step = IF j = 0 THEN "A" ELSE IF j = 1 THEN "B" ELSE "C"
      /\ j = 1 => c.result = (f[n] % 4) * 16
      /\ j = 2 => c.result = (f[n] % 16) * 4
      /\ c.stepcount = q
      /\ Len(out) = 4 * g + j + l
      /\ TextIs(f, out, l, 4 * q + j)
  BY Zenon DEF EncodedTo
<1> DEFINE L == Len(f)
           x == Octet(f, 3 * g + 1)
           y == Octet(f, 3 * g + 2)
           z == Octet(f, 3 * g + 3)
<1>5. /\ x \in 0 .. 255 /\ y \in 0 .. 255 /\ z \in 0 .. 255
      /\ L >= 3 * g + 1 => Sextet(f, 4 * g) = x \div 4
      /\ L >= 3 * g + 1 => Sextet(f, 4 * g + 1) = (x % 4) * 16 + (y \div 16)
      /\ L >= 3 * g + 2 => Sextet(f, 4 * g + 2) = (y % 16) * 4 + (z \div 64)
      /\ L >= 3 * g + 3 => Sextet(f, 4 * g + 3) = z % 64
  <2>1. g \in Nat
    BY <1>2
  <2> HIDE DEF g
  <2> QED BY <2>1, Sextets
<1> HIDE DEF l, q, j, g
<1>6. /\ j = 0 => L >= 3 * g + 1 /\ b = x
      /\ j = 1 => L >= 3 * g + 2 /\ f[n] = x /\ b = y
      /\ j = 2 => L >= 3 * g + 3 /\ f[n] = y /\ b = z
  <2>1. \A i \in Nat : i <= L => Octet(f, i) = f[i]
    BY DEF Octet
  <2>2. n + 1 <= L /\ n <= L
    BY <1>1
  <2>3. CASE j = 0
    <3>1. n + 1 = 3 * g + 1
      BY <1>2, <2>3
    <3> QED BY <1>1, <2>1, <2>2, <2>3, <3>1
  <2>4. CASE j = 1
    <3>1. n = 3 * g + 1 /\ n + 1 = 3 * g + 2
      BY <1>2, <2>4
    <3> QED BY <1>1, <2>1, <2>2, <2>4, <3>1
  <2>5. CASE j = 2
    <3>1. n = 3 * g + 2 /\ n + 1 = 3 * g + 3
      BY <1>2, <2>5
    <3> QED BY <1>1, <2>1, <2>2, <2>5, <3>1
  <2> QED BY <1>2, <2>3, <2>4, <2>5
<1>71. d = EncodeByte(c, b)
  OBVIOUS
<1>72. l = g \div Quartets /\ q = g % Quartets
  BY DEF l, q
<1>73. 1 # 0 /\ 2 # 0 /\ 0 # 1 /\ 0 # 2 /\ 1 # 2 /\ 2 # 1
  OBVIOUS
<1> HIDE DEF x, y, z, L, b
<1>7. ASSUME NEW ch PROVE pre \o Append(c.code, ch) = Append(out, ch)
  BY <1>1, SMTT(40)
<1>70. out \in Seq(0 .. 65)
  BY <1>1
<1>8. CHARS_PER_LINE = 4 * Quartets /\ Quartets \in Nat \ {0}
  BY QuartetsType
<1>9. CASE j = 0
  <2>1. /\ d \in Coder
        /\ d.step = "B" /\ d.result = (b % 4) * 16
        /\ d.stepcount = q
        /\ d.code = Append(c.code, b \div 4)
    <3> DEFINE e == EncodeByte(c, b)
    <3>1. c.step = "A"
      BY <1>4, <1>9
    <3>2. /\ e \in Coder
          /\ e.step = "B" /\ e.result = (b % 4) * 16
          /\ e.stepcount = c.stepcount
          /\ e.code = Append(c.code, b \div 4)
      BY <1>1, <3>1, RoundA
    <3> QED BY <1>4, <1>71, <3>2, Zenon
  <2>2. b \div 4 = Sextet(f, Len(out) - l) /\ b \div 4 \in 0 .. 65
    <3>1. b = x /\ L >= 3 * g + 1
      BY <1>6, <1>9
    <3>2. Len(out) - l = 4 * g
      BY <1>2, <1>3, <1>4, <1>9
    <3>3. b \div 4 = Sextet(f, 4 * g)
      BY <1>5, <3>1, Zenon
    <3>4. b \div 4 \in 0 .. 65
      BY <1>1
    <3> QED BY <3>2, <3>3, <3>4, Zenon
  <2>3. 4 * q + j # CHARS_PER_LINE
    BY <1>3, <1>8, <1>9
  <2>4. TextIs(f, Append(out, b \div 4), l, 4 * q + j + 1)
    BY <1>4, <2>2, <2>3, PutCharacter, Zenon
  <2>5. Len(Append(out, b \div 4)) = 4 * g + 1 + l /\ 4 * q + j + 1 = 4 * q + 1
    <3>1. Len(Append(out, b \div 4)) = Len(out) + 1
      BY <1>70, Longer
    <3> QED BY <1>2, <1>3, <1>4, <1>9, <3>1
  <2>6. (n + 1) \div 3 = g /\ (n + 1) % 3 = 1
    BY <1>2, <1>9
  <2>7. pre \o d.code = Append(out, b \div 4)
    BY <1>7, <2>1, Zenon
  <2>8. TextIs(f, pre \o d.code, l, 4 * q + 1) /\ Len(pre \o d.code) = 4 * g + 1 + l
    BY <2>4, <2>5, <2>7, Zenon
  <2> HIDE DEF out
  <2>9. d.result = (f[n + 1] % 4) * 16
    BY <2>1, Zenon DEF b
  <2> QED BY <1>72, <1>73, <2>1, <2>6, <2>8, <2>9, Zenon DEF EncodedTo
<1>10. CASE j = 1
  <2>0. f[n] = x /\ b = y
    BY <1>6, <1>10
  <2>1. c.result = (x % 4) * 16 /\ c.result <= 48
    BY <1>4, <1>5, <1>10, <2>0
  <2>2. /\ d \in Coder
        /\ d.step = "C" /\ d.result = (b % 16) * 4
        /\ d.stepcount = q
        /\ d.code = Append(c.code, c.result + (b \div 16))
    <3>1. c.step = "B"
      BY <1>4, <1>10, SMTT(40)
    <3> DEFINE e == EncodeByte(c, b)
    <3>2. /\ e \in Coder
          /\ e.step = "C" /\ e.result = (b % 16) * 4
          /\ e.stepcount = c.stepcount
          /\ e.code = Append(c.code, c.result + (b \div 16))
      BY <1>1, <2>1, <3>1, RoundB
    <3> QED BY <1>4, <1>71, <3>2, Zenon
  <2> DEFINE v == c.result + (b \div 16)
  <2>3. v = Sextet(f, Len(out) - l) /\ v \in 0 .. 65
    <3>1. L >= 3 * g + 1
      BY <1>1, <1>2, <1>6, <1>10 DEF L
    <3>2. Len(out) - l = 4 * g + 1
      BY <1>2, <1>3, <1>4, <1>10
    <3>3. v = (x % 4) * 16 + (y \div 16)
      BY <2>0, <2>1, Zenon
    <3>4. v = Sextet(f, 4 * g + 1)
      BY <1>5, <3>1, <3>3, Zenon
    <3>5. v \in 0 .. 65
      <4> HIDE DEF v
      <4> QED BY <1>5, <3>3
    <3> QED BY <3>2, <3>4, <3>5, Zenon
  <2> HIDE DEF v
  <2>4. 4 * q + j # CHARS_PER_LINE
    BY <1>3, <1>8, <1>10
  <2>5. TextIs(f, Append(out, v), l, 4 * q + j + 1)
    BY <1>4, <2>3, <2>4, PutCharacter, Zenon
  <2>6. Len(Append(out, v)) = 4 * g + 2 + l /\ 4 * q + j + 1 = 4 * q + 2
    <3>1. Len(Append(out, v)) = Len(out) + 1
      BY <1>70, Longer
    <3> QED BY <1>2, <1>3, <1>4, <1>10, <3>1
  <2>7. (n + 1) \div 3 = g /\ (n + 1) % 3 = 2
    BY <1>2, <1>10
  <2>8. pre \o d.code = Append(out, v)
    BY <1>7, <2>2, Zenon DEF v
  <2>9. TextIs(f, pre \o d.code, l, 4 * q + 2) /\ Len(pre \o d.code) = 4 * g + 2 + l
    BY <2>5, <2>6, <2>8, Zenon
  <2> HIDE DEF out
  <2>10. d.result = (f[n + 1] % 16) * 4
    BY <2>2, Zenon DEF b
  <2> QED BY <1>72, <1>73, <2>2, <2>7, <2>9, <2>10, Zenon DEF EncodedTo
<1>11. CASE j = 2
  <2>0. f[n] = y /\ b = z
    BY <1>6, <1>11
  <2>1. c.result = (y % 16) * 4 /\ c.result <= 60
    BY <1>4, <1>5, <1>11, <2>0
  <2> DEFINE v == c.result + (b \div 64)
             w == b % 64
             full == c.stepcount + 1 = Quartets
             a == Append(Append(c.code, v), w)
             o == Append(Append(out, v), w)
  <2>2. /\ d \in Coder
        /\ d.step = "A"
        /\ d.stepcount = IF full THEN 0 ELSE c.stepcount + 1
        /\ d.code = IF full THEN Append(a, NEWLINE) ELSE a
    <3>1. c.step = "C"
      BY <1>4, <1>11, SMTT(40)
    <3> DEFINE e == EncodeByte(c, b)
    <3>2. /\ e \in Coder
          /\ e.step = "A"
          /\ e.stepcount = IF full THEN 0 ELSE c.stepcount + 1
          /\ e.code = IF full THEN Append(a, NEWLINE) ELSE a
      BY <1>1, <2>1, <3>1, RoundC
    <3> QED BY <1>71, <3>2, ZenonT(60)
  <2>3. v = Sextet(f, Len(out) - l) /\ v \in 0 .. 65
    <3>1. L >= 3 * g + 2
      BY <1>1, <1>2, <1>6, <1>11 DEF L
    <3>2. Len(out) - l = 4 * g + 2
      BY <1>2, <1>3, <1>4, <1>11
    <3>3. v = (y % 16) * 4 + (z \div 64)
      BY <2>0, <2>1, Zenon
    <3>4. v = Sextet(f, 4 * g + 2)
      BY <1>5, <3>1, <3>3, Zenon
    <3>5. v \in 0 .. 65
      <4> HIDE DEF v
      <4> QED BY <1>5, <3>3
    <3> QED BY <3>2, <3>4, <3>5, Zenon
  <2> HIDE DEF v
  <2>4. Len(Append(out, v)) = 4 * g + 3 + l /\ Append(out, v) \in Seq(0 .. 65)
    <3>1. Len(Append(out, v)) = Len(out) + 1 /\ Append(out, v) \in Seq(0 .. 65)
      BY <1>70, <2>3, Longer
    <3> QED BY <1>2, <1>3, <1>4, <1>11, <3>1
  <2>5. w = Sextet(f, Len(Append(out, v)) - l) /\ w \in 0 .. 65
    <3>1. L >= 3 * g + 3
      BY <1>6, <1>11
    <3>2. Len(Append(out, v)) - l = 4 * g + 3
      BY <1>2, <1>3, <2>4
    <3> QED BY <1>1, <1>5, <2>0, <3>1, <3>2
  <2> HIDE DEF w
  <2>6. 4 * q + j # CHARS_PER_LINE /\ 4 * q + j + 1 # CHARS_PER_LINE
    BY <1>3, <1>8, <1>11
  <2>7. TextIs(f, Append(out, v), l, 4 * q + j + 1)
    BY <1>4, <2>3, <2>6, PutCharacter, Zenon
  <2>8. TextIs(f, o, l, 4 * q + j + 1 + 1)
    BY <2>7, <2>5, <2>6, PutCharacter, Zenon
  <2>9. 4 * q + j + 1 + 1 = 4 * q + 4 /\ Len(o) = 4 * g + 4 + l
    <3>1. Len(o) = Len(Append(out, v)) + 1
      BY <2>4, Longer
    <3> QED BY <1>2, <1>3, <1>11, <2>4, <3>1
  <2>10. (n + 1) \div 3 = g + 1 /\ (n + 1) % 3 = 0
    BY <1>2, <1>11
  <2>11. pre \o a = o /\ pre \o Append(a, NEWLINE) = Append(o, NEWLINE)
    <3>1. Append(c.code, v) \in Seq(0 .. 65)
      BY <1>1, <2>3
    <3>2. pre \o a = Append(pre \o Append(c.code, v), w)
      BY <2>5, <3>1, SMTT(40)
    <3>3. a \in Seq(0 .. 65)
      BY <3>1, <2>5
    <3> HIDE DEF a
    <3>4. pre \o Append(a, NEWLINE) = Append(pre \o a, NEWLINE)
      BY <3>3
    <3> QED BY <1>7, <3>2, <3>4, Zenon DEF o
  <2>12. o \in Seq(0 .. 65)
    BY <2>8 DEF TextIs
  <2> HIDE DEF a, o, out
  <2>13. CASE full
    <3>1. q = Quartets - 1
      BY <1>3, <1>4, <1>8, <2>13
    <3>2. 4 * q + 4 = CHARS_PER_LINE
      BY <1>3, <1>8, <3>1
    <3>3. TextIs(f, Append(o, NEWLINE), l + 1, 0)
      BY <2>8, <2>9, <3>2, PutLineEnd, Zenon
    <3>4. Len(Append(o, NEWLINE)) = 4 * (g + 1) + (l + 1)
      <4>1. Len(Append(o, NEWLINE)) = Len(o) + 1
        BY <2>12, Longer
      <4> QED BY <1>2, <1>3, <2>9, <4>1
    <3>5. pre \o d.code = Append(o, NEWLINE) /\ d.stepcount = 0
      BY <2>2, <2>11, <2>13, Zenon
    <3>6. /\ (g + 1) % Quartets = 0
          /\ (g + 1) \div Quartets = l + 1
      BY <1>3, <3>1
    <3>7. 4 * (g + 1) + 0 + (l + 1) = 4 * (g + 1) + (l + 1) /\ 4 * 0 + 0 = 0
      BY <1>2, <1>3
    <3> QED BY <1>73, <2>2, <2>10, <3>3, <3>4, <3>5, <3>6, <3>7, Zenon DEF EncodedTo
  <2>14. CASE ~ full
    <3>1. q # Quartets - 1
      BY <1>3, <1>4, <1>8, <2>14
    <3>2. /\ (g + 1) % Quartets = q + 1
          /\ (g + 1) \div Quartets = l
      BY <1>3, <3>1
    <3>3. pre \o d.code = o /\ d.stepcount = q + 1
      BY <1>4, <2>2, <2>11, <2>14, Zenon
    <3>4. 4 * g + 4 + l = 4 * (g + 1) + 0 + l /\ 4 * (q + 1) + 0 = 4 * q + 4
      BY <1>2, <1>3
    <3>5. TextIs(f, o, l, 4 * q + 4) /\ Len(o) = 4 * g + 4 + l
      BY <2>8, <2>9, Zenon
    <3> QED BY <1>73, <2>2, <2>8, <2>9, <2>10, <3>2, <3>3, <3>4, <3>5, Zenon DEF EncodedTo
  <2> QED BY <2>13, <2>14
<1> QED BY <1>2, <1>9, <1>10, <1>11

-----------------------------------------------------------------------------
EncoderState == [step : {"A", "B", "C"}, result : Nat, stepcount : Nat]

\* Where the encoder is shows in what base64_encodestate keeps between calls.
LEMMA ToldByState ==
  ASSUME NEW f, NEW n, NEW c, NEW d, NEW out, EncodedTo(f, n, c, out),
         d.step = c.step, d.result = c.result, d.stepcount = c.stepcount
  PROVE  EncodedTo(f, n, d, out)
BY Zenon DEF EncodedTo

\* A call of base64_encode_block takes the encoder a block further.
LEMMA EncodesBlock ==
  ASSUME NEW f \in Seq(0 .. 255), NEW n \in Nat, NEW block \in Seq(0 .. 255),
         n + Len(block) <= Len(f),
         \A i \in 1 .. Len(block) : block[i] = f[n + i],
         NEW s \in EncoderState, NEW pre \in Seq(0 .. 65),
         EncodedTo(f, n, s, pre)
  PROVE  LET r == base64_encode_block(block, s)
         IN  /\ r.code \in Seq(0 .. 65) /\ r.state \in EncoderState
             /\ EncodedTo(f, n + Len(block), r.state, pre \o r.code)
<1> DEFINE m == Len(block)
           c == [step |-> s.step, result |-> s.result,
                 stepcount |-> s.stepcount, code |-> <<>>]
           e == FoldLeft(EncodeByte, c, block)
           r == base64_encode_block(block, s)
<1>1. m \in Nat /\ DOMAIN block = 1 .. m /\ Len(f) \in Nat
  OBVIOUS
<1>2. c \in Coder /\ EncodedTo(f, n, c, pre \o c.code)
  <2>1. c \in Coder
    BY DEF Coder, EncoderState
  <2>2. c.step = s.step /\ c.result = s.result /\ c.stepcount = s.stepcount
          /\ c.code = <<>>
    OBVIOUS
  <2>3. pre \o <<>> = pre
    OBVIOUS
  <2> HIDE DEF c
  <2>4. EncodedTo(f, n, c, pre)
    BY <2>2, ToldByState, Zenon
  <2> QED BY <2>1, <2>2, <2>3, <2>4, Zenon
<1> HIDE DEF m, c
<1>3. PICK run : /\ run[0] = c
                 /\ \A i \in 1 .. m : run[i] = EncodeByte(run[i - 1], block[i])
                 /\ run[m] = e
  BY <1>1, EncodeRun
<1> DEFINE S == {k \in Nat : k <= m =>
                   /\ run[k] \in Coder
                   /\ EncodedTo(f, n + k, run[k], pre \o run[k].code)}
<1>4. 0 \in S
  <2>1. n + 0 = n
    OBVIOUS
  <2> QED BY <1>2, <1>3, <2>1
<1>5. ASSUME NEW k \in Nat, k \in S PROVE k + 1 \in S
  <2> SUFFICES ASSUME k + 1 <= m
               PROVE  /\ run[k + 1] \in Coder
                      /\ EncodedTo(f, n + (k + 1), run[k + 1],
                                   pre \o run[k + 1].code)
    OBVIOUS
  <2>1. run[k] \in Coder /\ EncodedTo(f, n + k, run[k], pre \o run[k].code)
    BY <1>1, <1>5
  <2>2. run[k + 1] = EncodeByte(run[k], f[n + k + 1])
    <3>1. k + 1 \in 1 .. m /\ (k + 1) - 1 = k /\ n + (k + 1) = n + k + 1
      BY <1>1
    <3>2. block[k + 1] = f[n + (k + 1)]
      BY <3>1 DEF m
    <3> QED BY <1>3, <3>1, <3>2
  <2>3. n + k \in Nat /\ n + k < Len(f) /\ n + (k + 1) = n + k + 1
    BY <1>1 DEF m
  <2> HIDE DEF S
  <2>4. /\ run[k + 1] \in Coder
        /\ EncodedTo(f, n + k + 1, run[k + 1], pre \o run[k + 1].code)
    BY <2>1, <2>2, <2>3, EncodeStep, Zenon
  <2> QED BY <2>3, <2>4, Zenon
<1>6. m \in S
  <2> HIDE DEF S
  <2> QED BY <1>1, <1>4, <1>5, Induction
<1>7. e \in Coder /\ EncodedTo(f, n + m, e, pre \o e.code)
  BY <1>1, <1>3, <1>6
<1>8. r = [code |-> e.code, state |-> State(e)]
  BY Zenon DEF base64_encode_block, c
<1> HIDE DEF e, r
<1>9. r.code = e.code /\ r.state = State(e)
  BY <1>8
<1>10. e.code \in Seq(0 .. 65) /\ State(e) \in EncoderState
  BY <1>7 DEF Coder, EncoderState, State
<1>11. /\ State(e).step = e.step /\ State(e).result = e.result
       /\ State(e).stepcount = e.stepcount
  BY DEF State
<1>12. EncodedTo(f, n + m, State(e), pre \o e.code)
  BY <1>7, <1>11, ToldByState, Zenon
<1> QED BY <1>9, <1>10, <1>12, Zenon DEF r, m

-----------------------------------------------------------------------------
\* The last line end, behind all characters of the text.
LEMMA LastLineEnd ==
  ASSUME NEW f \in Seq(0 .. 255), NEW out, NEW l, NEW col,
         TextIs(f, out, l, col), Len(out) + 1 = TextLen(f)
  PROVE  /\ Append(out, NEWLINE) = Reference(f)
         /\ Append(out, NEWLINE) \in Seq(0 .. 65)
         /\ Len(Append(out, NEWLINE)) = TextLen(f)
         /\ LineEnds(TextLen(f) - 1) = l
<1> DEFINE s == Append(out, NEWLINE)
           T == TextLen(f)
<1>1. out \in Seq(0 .. 65) /\ NEWLINE \in 0 .. 65 /\ Len(out) \in Nat
  BY DEF TextIs, NEWLINE
<1>2. /\ s \in Seq(0 .. 65) /\ Len(s) = Len(out) + 1
      /\ \A i \in 1 .. Len(out) : s[i] = out[i]
      /\ s[Len(out) + 1] = NEWLINE
  BY <1>1, AppendProperties
<1> HIDE DEF s, T
<1>3. T = Len(out) + 1
  BY DEF T
<1>4. ASSUME NEW p \in 1 .. T
      PROVE  s[p] = IF p = T \/ p % (CHARS_PER_LINE + 1) = 0 THEN NEWLINE
                    ELSE Sextet(f, p - 1 - LineEnds(p - 1))
  <2>1. CASE p = T
    BY <1>2, <1>3, <2>1
  <2>2. CASE p # T
    <3>1. p \in 1 .. Len(out)
      BY <1>1, <1>3, <2>2
    <3>2. s[p] = Char(f, p)
      BY <1>2, <3>1, Zenon DEF TextIs
    <3> QED BY <2>2, <3>2, Zenon DEF Char
  <2> QED BY <2>1, <2>2
<1>5. s = Reference(f)
  <2>1. s = [p \in 1 .. T |-> s[p]]
    <3>1. s \in [1 .. T -> 0 .. 65]
      BY <1>2, <1>3, LenProperties, Zenon
    <3> QED BY <3>1
  <2>2. Reference(f) = [p \in 1 .. T |->
                          IF p = T \/ p % (CHARS_PER_LINE + 1) = 0 THEN NEWLINE
                          ELSE Sextet(f, p - 1 - LineEnds(p - 1))]
    BY Zenon DEF Reference, T
  <2> QED BY <1>4, <2>1, <2>2, Zenon
<1>6. T - 1 = Len(out)
  BY <1>1, <1>3
<1>7. LineEnds(T - 1) = l
  BY <1>6, Zenon DEF TextIs
<1> QED BY <1>2, <1>3, <1>5, <1>7, Zenon DEF s, T

\* base64_encode_blockend completes the text, from each of the three steps.
LEMMA EncodesEnd ==
  ASSUME NEW f \in Seq(0 .. 255), NEW s \in EncoderState,
         NEW pre \in Seq(0 .. 65), EncodedTo(f, Len(f), s, pre)
  PROVE  LET out == pre \o base64_encode_blockend(s)
         IN  /\ out = Reference(f) /\ out \in Seq(0 .. 65)
             /\ Len(out) = TextLen(f)
             /\ LineEnds(TextLen(f) - 1) = (Len(f) \div 3) \div Quartets
<1> DEFINE n == Len(f)
           g == n \div 3
           j == n % 3
           l == g \div Quartets
           q == g % Quartets
           T == TextLen(f)
           x == Octet(f, 3 * g + 1)
           y == Octet(f, 3 * g + 2)
           z == Octet(f, 3 * g + 3)
           code == CASE s.step = "A" -> <<>>
                     [] s.step = "B" -> <<base64_encode_value(s.result), PAD, PAD>>
                     [] s.step = "C" -> <<base64_encode_value(s.result), PAD>>
           o == pre \o code
<1>1. n \in Nat
  OBVIOUS
<1> HIDE DEF n
<1>2. g \in Nat /\ j \in 0 .. 2 /\ n = 3 * g + j
  BY <1>1, Places
<1>3. T = 4 * ((n + 2) \div 3) + l + 1
  BY Zenon DEF TextLen, n, Quartets
<1>4. (n + 2) \div 3 = IF j = 0 THEN g ELSE g + 1
  BY <1>1
<1>5. l \in Nat /\ q \in 0 .. Quartets - 1
  <2>1. g \in Nat
    BY <1>2
  <2> HIDE DEF g
  <2> QED BY <2>1, QuartetsType, DivStep
<1>6. /\ s.step = IF j = 0 THEN "A" ELSE IF j = 1 THEN "B" ELSE "C"
      /\ j = 1 => s.result = (f[n] % 4) * 16
      /\ j = 2 => s.result = (f[n] % 16) * 4
      /\ Len(pre) = 4 * g + j + l
      /\ TextIs(f, pre, l, 4 * q + j)
  BY Zenon DEF EncodedTo, n
<1>7. /\ x \in 0 .. 255 /\ y \in 0 .. 255 /\ z \in 0 .. 255
      /\ n >= 3 * g + 1 => Sextet(f, 4 * g + 1) = (x % 4) * 16 + (y \div 16)
      /\ Sextet(f, 4 * g + 2) =
           IF n >= 3 * g + 2 THEN (y % 16) * 4 + (z \div 64) ELSE PAD
      /\ n < 3 * g + 3 => Sextet(f, 4 * g + 3) = PAD
  <2>1. g \in Nat
    BY <1>2
  <2> HIDE DEF g
  <2>2. /\ x \in 0 .. 255 /\ y \in 0 .. 255 /\ z \in 0 .. 255
        /\ Sextet(f, 4 * g + 1) =
             IF n >= 3 * g + 1 THEN (x % 4) * 16 + (y \div 16) ELSE PAD
        /\ Sextet(f, 4 * g + 2) =
             IF n >= 3 * g + 2 THEN (y % 16) * 4 + (z \div 64) ELSE PAD
        /\ Sextet(f, 4 * g + 3) =
             IF n >= 3 * g + 3 THEN z % 64 ELSE PAD
    BY <2>1, Sextets DEF n
  <2> QED BY <1>1, <2>1, <2>2
<1>8. CHARS_PER_LINE = 4 * Quartets /\ Quartets \in Nat \ {0}
  BY QuartetsType
<1>9. PAD \in 0 .. 65 /\ NEWLINE \in 0 .. 65
  BY DEF PAD, NEWLINE
<1>10. \A i \in Nat : Octet(f, i) = IF i <= n THEN f[i] ELSE 0
  BY Zenon DEF Octet, n
<1>11. /\ j = 1 => y = 0 /\ x = f[n]
       /\ j = 2 => z = 0 /\ y = f[n]
  BY <1>2, <1>10, SMTT(40)
<1> HIDE DEF l, q, j, g, x, y, z, T
<1>12. \E k : TextIs(f, o, l, k) /\ Len(o) + 1 = T /\ code \in Seq(0 .. 65)
  <2>1. CASE j = 0
    <3>1. code = <<>>
      BY <1>6, <2>1
    <3>2. o = pre
      <4>1. pre \o <<>> = pre
        OBVIOUS
      <4> QED BY <3>1, <4>1, Zenon
    <3>3. code \in Seq(0 .. 65)
      <4>1. <<>> \in Seq(0 .. 65)
        OBVIOUS
      <4> QED BY <3>1, <4>1, Zenon
    <3> HIDE DEF code, o
    <3>4. Len(o) + 1 = T
      BY <1>2, <1>3, <1>4, <1>5, <1>6, <2>1, <3>2
    <3> QED BY <1>6, <3>2, <3>3, <3>4, Zenon
  <2>2. CASE j = 1
    <3> DEFINE v == s.result
               a == Append(pre, v)
               b == Append(a, PAD)
    <3>1. v = (x % 4) * 16
      BY <1>6, <1>11, <2>2
    <3>2. v = Sextet(f, 4 * g + 1) /\ v \in 0 .. 65 /\ v <= 63
      <4>1. n >= 3 * g + 1 /\ y \div 16 = 0
        BY <1>2, <1>11, <2>2
      <4> QED BY <1>7, <3>1, <4>1
    <3>3. code = <<v, PAD, PAD>>
      <4>1. base64_encode_value(v) = v
        <5> HIDE DEF v
        <5> QED BY <3>2 DEF base64_encode_value
      <4>2. s.step = "B"
        BY <1>6, <2>2
      <4> QED BY <4>1, <4>2
    <3> HIDE DEF code, v
    <3>4. Sextet(f, 4 * g + 2) = PAD /\ Sextet(f, 4 * g + 3) = PAD
      BY <1>2, <1>7, <2>2
    <3>5. Len(pre) - l = 4 * g + 1 /\ 4 * q + j # CHARS_PER_LINE
      BY <1>2, <1>5, <1>6, <1>8, <2>2
    <3>6. TextIs(f, a, l, 4 * q + j + 1)
      BY <1>6, <3>2, <3>5, PutCharacter, Zenon
    <3>7. Len(a) = Len(pre) + 1 /\ a \in Seq(0 .. 65)
      BY <3>2, AppendProperties
    <3>8. Len(a) - l = 4 * g + 2 /\ 4 * q + j + 1 # CHARS_PER_LINE
      BY <1>2, <1>5, <1>6, <1>8, <2>2, <3>7
    <3>9. TextIs(f, b, l, 4 * q + j + 1 + 1)
      BY <1>9, <3>4, <3>6, <3>8, PutCharacter, Zenon
    <3>10. Len(b) = Len(a) + 1 /\ b \in Seq(0 .. 65)
      BY <1>9, <3>7, AppendProperties
    <3>11. Len(b) - l = 4 * g + 3 /\ 4 * q + j + 1 + 1 # CHARS_PER_LINE
      BY <1>2, <1>5, <1>6, <1>8, <2>2, <3>7, <3>10
    <3>12. TextIs(f, Append(b, PAD), l, 4 * q + j + 1 + 1 + 1)
      BY <1>9, <3>4, <3>9, <3>11, PutCharacter, Zenon
    <3>13. Len(Append(b, PAD)) + 1 = T
      <4>1. Len(Append(b, PAD)) = Len(b) + 1
        BY <3>10, Longer
      <4> QED BY <1>2, <1>3, <1>4, <1>5, <1>6, <2>2, <3>7, <3>10, <4>1
    <3>14. o = Append(b, PAD) /\ code \in Seq(0 .. 65)
      BY <1>9, <3>2, <3>3
    <3> QED BY <3>12, <3>13, <3>14, Zenon
  <2>3. CASE j = 2
    <3> DEFINE v == s.result
               a == Append(pre, v)
    <3>1. v = (y % 16) * 4
      BY <1>6, <1>11, <2>3
    <3>2. v = Sextet(f, 4 * g + 2) /\ v \in 0 .. 65 /\ v <= 63
      <4>1. n >= 3 * g + 2 /\ z \div 64 = 0
        BY <1>2, <1>11, <2>3
      <4> QED BY <1>7, <3>1, <4>1
    <3>3. code = <<v, PAD>>
      <4>1. base64_encode_value(v) = v
        <5> HIDE DEF v
        <5> QED BY <3>2 DEF base64_encode_value
      <4>2. s.step = "C"
        BY <1>6, <2>3
      <4> QED BY <4>1, <4>2
    <3> HIDE DEF code, v
    <3>4. Sextet(f, 4 * g + 3) = PAD
      BY <1>2, <1>7, <2>3
    <3>5. Len(pre) - l = 4 * g + 2 /\ 4 * q + j # CHARS_PER_LINE
      BY <1>2, <1>5, <1>6, <1>8, <2>3
    <3>6. TextIs(f, a, l, 4 * q + j + 1)
      BY <1>6, <3>2, <3>5, PutCharacter, Zenon
    <3>7. Len(a) = Len(pre) + 1 /\ a \in Seq(0 .. 65)
      BY <3>2, AppendProperties
    <3>8. Len(a) - l = 4 * g + 3 /\ 4 * q + j + 1 # CHARS_PER_LINE
      BY <1>2, <1>5, <1>6, <1>8, <2>3, <3>7
    <3>9. TextIs(f, Append(a, PAD), l, 4 * q + j + 1 + 1)
      BY <1>9, <3>4, <3>6, <3>8, PutCharacter, Zenon
    <3>10. Len(Append(a, PAD)) + 1 = T
      <4>1. Len(Append(a, PAD)) = Len(a) + 1
        BY <3>7, Longer
      <4> QED BY <1>2, <1>3, <1>4, <1>5, <1>6, <2>3, <3>7, <4>1
    <3>11. o = Append(a, PAD) /\ code \in Seq(0 .. 65)
      BY <1>9, <3>2, <3>3
    <3> QED BY <3>9, <3>10, <3>11, Zenon
  <2>4. j = 0 \/ j = 1 \/ j = 2
    BY <1>2
  <2> QED BY <2>1, <2>2, <2>3, <2>4, Zenon
<1> HIDE DEF code
<1>13. pre \o (code \o <<NEWLINE>>) = Append(o, NEWLINE)
  <2>1. code \o <<NEWLINE>> = Append(code, NEWLINE)
    BY <1>9, <1>12, ConcatOne
  <2>2. pre \o Append(code, NEWLINE) = Append(o, NEWLINE)
    BY <1>9, <1>12
  <2> QED BY <2>1, <2>2, Zenon
<1>14. base64_encode_blockend(s) = code \o <<NEWLINE>>
  BY Zenon DEF base64_encode_blockend, code
<1> HIDE DEF o
<1>15. /\ Append(o, NEWLINE) = Reference(f)
       /\ Append(o, NEWLINE) \in Seq(0 .. 65)
       /\ Len(Append(o, NEWLINE)) = TextLen(f)
       /\ LineEnds(TextLen(f) - 1) = l
  BY <1>12, LastLineEnd, Zenon DEF T
<1> QED BY <1>13, <1>14, <1>15, ZenonT(60) DEF l, g, n

-----------------------------------------------------------------------------
\* The decoder after v characters of the alphabet: where it is, the bits it keeps,
\* and the bytes of f it has written.
Decoder == [step : {"a", "b", "c", "d"}, plainchar : Nat, plain : Seq(0 .. 255)]

PlainIs(f, out, k) ==
  /\ out \in Seq(0 .. 255)
  /\ Len(out) = k
  /\ \A i \in 1 .. k : out[i] = Octet(f, i)

DecodedTo(f, v, d, out) ==
  LET u == v \div 4
      w == v % 4
  IN
  /\ d.step = IF w = 0 THEN "a" ELSE IF w = 1 THEN "b" ELSE IF w = 2 THEN "c" ELSE "d"
  /\ w = 1 => d.plainchar = (Octet(f, 3 * u + 1) \div 4) * 4
  /\ w = 2 => d.plainchar = (Octet(f, 3 * u + 2) \div 16) * 16
  /\ w = 3 => d.plainchar = (Octet(f, 3 * u + 3) \div 64) * 64
  /\ PlainIs(f, out, 3 * u + (IF w = 0 THEN 0 ELSE w - 1))

\* One byte of the file more.
LEMMA PutByte ==
  ASSUME NEW f, NEW out, NEW k \in Nat, PlainIs(f, out, k),
         NEW x \in 0 .. 255, x = Octet(f, k + 1)
  PROVE  PlainIs(f, Append(out, x), k + 1)
<1>1. /\ Append(out, x) \in Seq(0 .. 255)
      /\ Len(Append(out, x)) = k + 1
      /\ \A i \in 1 .. k : Append(out, x)[i] = out[i]
      /\ Append(out, x)[k + 1] = x
  BY AppendProperties DEF PlainIs
<1>2. ASSUME NEW i \in 1 .. k + 1 PROVE Append(out, x)[i] = Octet(f, i)
  <2>1. CASE i = k + 1
    BY <1>1, <2>1
  <2>2. CASE i # k + 1
    <3>1. i \in 1 .. k
      BY <2>2
    <3> QED BY <1>1, <3>1 DEF PlainIs
  <2> QED BY <2>1, <2>2
<1> QED BY <1>1, <1>2, Zenon DEF PlainIs

\* Counting characters through the groups of four.
LEMMA Quarters ==
  ASSUME NEW v \in Nat
  PROVE  LET u == v \div 4
             w == v % 4
         IN  /\ u \in Nat /\ w \in 0 .. 3 /\ v = 4 * u + w
             /\ w # 3 => (v + 1) \div 4 = u /\ (v + 1) % 4 = w + 1
             /\ w = 3 => (v + 1) \div 4 = u + 1 /\ (v + 1) % 4 = 0
OBVIOUS

\* What the decoder keeps of a character.
LEMMA KeptB ==
  ASSUME NEW x \in 0 .. 255, NEW y \in 0 .. 255
  PROVE  /\ (x % 4) * 16 + (y \div 16) \in 0 .. 63
         /\ (((x % 4) * 16 + (y \div 16)) % 16) * 16 = (y \div 16) * 16
         /\ (x \div 4) * 4 + ((x % 4) * 16 + (y \div 16)) \div 16 = x
<1>1. (x % 4) * 16 + (y \div 16) \in 0 .. 63
  OBVIOUS
<1>2. (((x % 4) * 16 + (y \div 16)) % 16) * 16 = (y \div 16) * 16
  OBVIOUS
<1>3. (x \div 4) * 4 + ((x % 4) * 16 + (y \div 16)) \div 16 = x
  OBVIOUS
<1> QED BY <1>1, <1>2, <1>3

LEMMA KeptC ==
  ASSUME NEW y \in 0 .. 255, NEW z \in 0 .. 255
  PROVE  /\ (y % 16) * 4 + (z \div 64) \in 0 .. 63
         /\ (((y % 16) * 4 + (z \div 64)) % 4) * 64 = (z \div 64) * 64
         /\ (y \div 16) * 16 + ((y % 16) * 4 + (z \div 64)) \div 4 = y
<1>1. (y % 16) * 4 + (z \div 64) \in 0 .. 63
  OBVIOUS
<1>2. (((y % 16) * 4 + (z \div 64)) % 4) * 64 = (z \div 64) * 64
  OBVIOUS
<1>3. (y \div 16) * 16 + ((y % 16) * 4 + (z \div 64)) \div 4 = y
  OBVIOUS
<1> QED BY <1>1, <1>2, <1>3

\* What a character adds, and what it leaves to be added.
LEMMA ReadA ==
  ASSUME NEW d \in Decoder, NEW c \in 0 .. 63, d.step = "a"
  PROVE  LET e == DecodeChar(d, c)
         IN  /\ e \in Decoder
             /\ e.step = "b" /\ e.plainchar = c * 4 /\ e.plain = d.plain
<1>1. DecodeChar(d, c) = [d EXCEPT !.step = "b", !.plainchar = c * 4]
  BY DEF DecodeChar
<1> DEFINE p == c * 4
           st == "b"
<1>2. p \in Nat /\ st \in {"a", "b", "c", "d"}
  OBVIOUS
<1> HIDE DEF p, st
<1> QED BY <1>1, <1>2 DEF Decoder, st, p

Reading(d, st, p, x) ==
  [d EXCEPT !.step = st, !.plainchar = p, !.plain = Append(@, x)]

LEMMA ReadB ==
  ASSUME NEW d \in Decoder, NEW c \in 0 .. 63, d.step = "b",
         d.plainchar + c \div 16 <= 255
  PROVE  LET e == DecodeChar(d, c)
         IN  /\ e \in Decoder
             /\ e.step = "c" /\ e.plainchar = (c % 16) * 16
             /\ e.plain = Append(d.plain, d.plainchar + c \div 16)
<1> DEFINE x == d.plainchar + c \div 16
           p == (c % 16) * 16
           st == "c"
           e == Reading(d, st, p, x)
<1>1. DecodeChar(d, c) = Reading(d, st, p, x)
  BY DEF DecodeChar, Reading
<1>2. x \in 0 .. 255 /\ p \in Nat /\ st \in {"a", "b", "c", "d"}
  <2>1. d.plainchar \in Nat
    BY DEF Decoder
  <2>2. x \in 0 .. 255
    BY <2>1
  <2>3. p \in Nat
    OBVIOUS
  <2> QED BY <2>2, <2>3
<1> HIDE DEF x, p, st
<1>3. Append(d.plain, x) \in Seq(0 .. 255)
  BY <1>2 DEF Decoder
<1>4. /\ e \in Decoder
      /\ e.step = st /\ e.plainchar = p /\ e.plain = Append(d.plain, x)
  BY <1>2, <1>3 DEF Decoder, Reading
<1> QED BY <1>1, <1>4, Zenon DEF x, p, st

LEMMA ReadC ==
  ASSUME NEW d \in Decoder, NEW c \in 0 .. 63, d.step = "c",
         d.plainchar + c \div 4 <= 255
  PROVE  LET e == DecodeChar(d, c)
         IN  /\ e \in Decoder
             /\ e.step = "d" /\ e.plainchar = (c % 4) * 64
             /\ e.plain = Append(d.plain, d.plainchar + c \div 4)
<1> DEFINE x == d.plainchar + c \div 4
           p == (c % 4) * 64
           st == "d"
           e == Reading(d, st, p, x)
<1>1. DecodeChar(d, c) = Reading(d, st, p, x)
  BY DEF DecodeChar, Reading
<1>2. x \in 0 .. 255 /\ p \in Nat /\ st \in {"a", "b", "c", "d"}
  <2>1. d.plainchar \in Nat
    BY DEF Decoder
  <2>2. x \in 0 .. 255
    BY <2>1
  <2>3. p \in Nat
    OBVIOUS
  <2> QED BY <2>2, <2>3
<1> HIDE DEF x, p, st
<1>3. Append(d.plain, x) \in Seq(0 .. 255)
  BY <1>2 DEF Decoder
<1>4. /\ e \in Decoder
      /\ e.step = st /\ e.plainchar = p /\ e.plain = Append(d.plain, x)
  BY <1>2, <1>3 DEF Decoder, Reading
<1> QED BY <1>1, <1>4, Zenon DEF x, p, st

LEMMA ReadD ==
  ASSUME NEW d \in Decoder, NEW c \in 0 .. 63, d.step = "d",
         d.plainchar + c <= 255
  PROVE  LET e == DecodeChar(d, c)
         IN  /\ e \in Decoder
             /\ e.step = "a" /\ e.plainchar = 0
             /\ e.plain = Append(d.plain, d.plainchar + c)
<1> DEFINE x == d.plainchar + c
           p == 0
           st == "a"
           e == Reading(d, st, p, x)
<1>1. DecodeChar(d, c) = Reading(d, st, p, x)
  BY DEF DecodeChar, Reading
<1>2. x \in 0 .. 255 /\ p \in Nat /\ st \in {"a", "b", "c", "d"}
  <2>1. d.plainchar \in Nat
    BY DEF Decoder
  <2>2. x \in 0 .. 255
    <3> DEFINE k == d.plainchar
    <3>1. k \in Nat /\ x = k + c /\ k + c <= 255
      BY <2>1
    <3> HIDE DEF k, x
    <3> QED BY <3>1
  <2>3. p \in Nat
    OBVIOUS
  <2> QED BY <2>2, <2>3
<1> HIDE DEF x, p, st
<1>3. Append(d.plain, x) \in Seq(0 .. 255)
  BY <1>2 DEF Decoder
<1>4. /\ e \in Decoder
      /\ e.step = st /\ e.plainchar = p /\ e.plain = Append(d.plain, x)
  BY <1>2, <1>3 DEF Decoder, Reading
<1> QED BY <1>1, <1>4, Zenon DEF x, p, st

\* The next character of the alphabet keeps the decoder where it ought to be.
LEMMA DecodeStep ==
  ASSUME NEW f \in Seq(0 .. 255), NEW v \in Nat, 6 * v < 8 * Len(f),
         NEW d \in Decoder, NEW pre \in Seq(0 .. 255),
         DecodedTo(f, v, d, pre \o d.plain),
         NEW e, e = DecodeChar(d, Sextet(f, v))
  PROVE  e \in Decoder /\ DecodedTo(f, v + 1, e, pre \o e.plain)
<1> DEFINE u == v \div 4
           w == v % 4
           L == Len(f)
           x == Octet(f, 3 * u + 1)
           y == Octet(f, 3 * u + 2)
           z == Octet(f, 3 * u + 3)
           out == pre \o d.plain
           ch == Sextet(f, v)
<1>1. /\ u \in Nat /\ w \in 0 .. 3 /\ v = 4 * u + w
      /\ w # 3 => (v + 1) \div 4 = u /\ (v + 1) % 4 = w + 1
      /\ w = 3 => (v + 1) \div 4 = u + 1 /\ (v + 1) % 4 = 0
  BY Quarters
<1>2. L \in Nat /\ 6 * v < 8 * L
  OBVIOUS
<1>3. /\ d.step = IF w = 0 THEN "a" ELSE IF w = 1 THEN "b"
                  ELSE IF w = 2 THEN "c" ELSE "d"
      /\ w = 1 => d.plainchar = (x \div 4) * 4
      /\ w = 2 => d.plainchar = (y \div 16) * 16
      /\ w = 3 => d.plainchar = (z \div 64) * 64
      /\ PlainIs(f, out, 3 * u + (IF w = 0 THEN 0 ELSE w - 1))
  BY Zenon DEF DecodedTo
<1>4. d.plain \in Seq(0 .. 255)
  BY DEF Decoder
<1>5. \A b \in 0 .. 255 : pre \o Append(d.plain, b) = Append(out, b)
  BY <1>4, SMTT(40)
<1> HIDE DEF u, w, L, out
<1>6. /\ x \in 0 .. 255 /\ y \in 0 .. 255 /\ z \in 0 .. 255
      /\ Sextet(f, 4 * u) = IF L >= 3 * u + 1 THEN x \div 4 ELSE PAD
      /\ Sextet(f, 4 * u + 1) =
           IF L >= 3 * u + 1 THEN (x % 4) * 16 + (y \div 16) ELSE PAD
      /\ Sextet(f, 4 * u + 2) =
           IF L >= 3 * u + 2 THEN (y % 16) * 4 + (z \div 64) ELSE PAD
      /\ Sextet(f, 4 * u + 3) = IF L >= 3 * u + 3 THEN z % 64 ELSE PAD
  BY <1>1, Sextets DEF L
<1> DEFINE c == (x % 4) * 16 + (y \div 16)
           k == (y % 16) * 4 + (z \div 64)
<1> HIDE DEF x, y, z
<1>7. /\ x \div 4 \in 0 .. 63 /\ c \in 0 .. 63 /\ k \in 0 .. 63
      /\ z % 64 \in 0 .. 63
      /\ (c % 16) * 16 = (y \div 16) * 16
      /\ (x \div 4) * 4 + c \div 16 = x
      /\ (k % 4) * 64 = (z \div 64) * 64
      /\ (y \div 16) * 16 + k \div 4 = y
      /\ (z \div 64) * 64 + (z % 64) = z
  <2>0. x \in 0 .. 255 /\ y \in 0 .. 255 /\ z \in 0 .. 255
    BY <1>6
  <2>1. x \div 4 \in 0 .. 63 /\ z % 64 \in 0 .. 63
    BY <2>0, SMTT(40)
  <2>2. /\ c \in 0 .. 63
        /\ (c % 16) * 16 = (y \div 16) * 16
        /\ (x \div 4) * 4 + c \div 16 = x
    BY <2>0, KeptB, ZenonT(60)
  <2>3. /\ k \in 0 .. 63
        /\ (k % 4) * 64 = (z \div 64) * 64
        /\ (y \div 16) * 16 + k \div 4 = y
    BY <2>0, KeptC, ZenonT(60)
  <2>4. (z \div 64) * 64 + (z % 64) = z
    BY <2>0
  <2> HIDE DEF c, k
  <2> QED BY <2>1, <2>2, <2>3, <2>4, Zenon
<1>8. (y \div 16) * 16 \in Nat /\ (z \div 64) * 64 \in Nat
  <2>1. \A b \in 0 .. 255 : (b \div 16) * 16 \in Nat /\ (b \div 64) * 64 \in Nat
    OBVIOUS
  <2> QED BY <1>6, <2>1
<1>9. /\ w = 0 => ch = x \div 4
      /\ w = 1 => ch = c
      /\ w = 2 => ch = k
      /\ w = 3 => ch = z % 64
  <2> HIDE DEF c, k
  <2>1. /\ w = 0 => v = 4 * u /\ L >= 3 * u + 1
        /\ w = 1 => v = 4 * u + 1 /\ L >= 3 * u + 1
        /\ w = 2 => v = 4 * u + 2 /\ L >= 3 * u + 2
        /\ w = 3 => v = 4 * u + 3 /\ L >= 3 * u + 3
    BY <1>1, <1>2
  <2> QED BY <1>6, <2>1, Zenon DEF c, k
<1>10. 1 # 0 /\ 2 # 0 /\ 3 # 0 /\ 0 # 1 /\ 0 # 2 /\ 0 # 3 /\ 1 # 2 /\ 1 # 3
         /\ 2 # 1 /\ 2 # 3 /\ 3 # 1 /\ 3 # 2
  OBVIOUS
<1> HIDE DEF c, k, ch
<1>11. e = DecodeChar(d, ch)
  BY DEF ch
<1>12. CASE w = 0
  <2>1. e \in Decoder /\ e.step = "b" /\ e.plainchar = ch * 4 /\ e.plain = d.plain
    <3>1. d.step = "a" /\ ch \in 0 .. 63
      BY <1>3, <1>7, <1>9, <1>12
    <3> QED BY <1>11, <3>1, ReadA, ZenonT(60)
  <2>2. (v + 1) \div 4 = u /\ (v + 1) % 4 = 1
    BY <1>1, <1>12
  <2>3. 3 * u + 0 = 3 * u + (1 - 1)
    BY <1>1
  <2>4. PlainIs(f, pre \o e.plain, 3 * u + (1 - 1))
    BY <1>3, <1>12, <2>1, <2>3, Zenon DEF out
  <2>5. e.plainchar = (x \div 4) * 4
    BY <1>9, <1>12, <2>1, Zenon
  <2> QED BY <1>10, <2>1, <2>2, <2>4, <2>5, Zenon DEF DecodedTo, x
<1>13. CASE w = 1
  <2> DEFINE p == (y \div 16) * 16
  <2>1. e \in Decoder /\ e.step = "c" /\ e.plainchar = p
          /\ e.plain = Append(d.plain, x)
    <3>1. d.step = "b" /\ ch \in 0 .. 63 /\ p \in Nat
      BY <1>3, <1>7, <1>8, <1>9, <1>13
    <3>2. x = d.plainchar + ch \div 16 /\ p = (ch % 16) * 16
      BY <1>3, <1>7, <1>9, <1>13, Zenon
    <3> HIDE DEF p
    <3>3. d.plainchar + ch \div 16 <= 255
      <4>1. x <= 255
        BY <1>6
      <4> QED BY <3>2, <4>1, Zenon
    <3>4. /\ DecodeChar(d, ch) \in Decoder
          /\ DecodeChar(d, ch).step = "c"
          /\ DecodeChar(d, ch).plainchar = (ch % 16) * 16
          /\ DecodeChar(d, ch).plain = Append(d.plain, d.plainchar + ch \div 16)
      BY <1>1, <3>1, <3>3, ReadB, Zenon
    <3> QED BY <1>11, <3>2, <3>4, Zenon
  <2>2. (v + 1) \div 4 = u /\ (v + 1) % 4 = 2
    BY <1>1, <1>13
  <2>3. 3 * u + (1 - 1) \in Nat /\ 3 * u + (1 - 1) + 1 = 3 * u + (2 - 1)
          /\ 3 * u + (1 - 1) + 1 = 3 * u + 1
    BY <1>1
  <2>4. PlainIs(f, out, 3 * u + (1 - 1))
    BY <1>3, <1>10, <1>13, Zenon
  <2>5. x = Octet(f, 3 * u + (1 - 1) + 1)
    BY <2>3, Zenon DEF x
  <2>6. PlainIs(f, Append(out, x), 3 * u + (1 - 1) + 1)
    BY <1>6, <2>3, <2>4, <2>5, PutByte, ZenonT(60)
  <2>7. PlainIs(f, pre \o e.plain, 3 * u + (2 - 1))
    BY <1>5, <1>6, <2>1, <2>3, <2>6, Zenon
  <2> QED BY <1>10, <2>1, <2>2, <2>7, Zenon DEF DecodedTo, y
<1>14. CASE w = 2
  <2> DEFINE p == (z \div 64) * 64
  <2>1. e \in Decoder /\ e.step = "d" /\ e.plainchar = p
          /\ e.plain = Append(d.plain, y)
    <3>1. d.step = "c" /\ ch \in 0 .. 63 /\ p \in Nat
      BY <1>3, <1>7, <1>8, <1>9, <1>14
    <3>2. y = d.plainchar + ch \div 4 /\ p = (ch % 4) * 64
      BY <1>3, <1>7, <1>9, <1>14, Zenon
    <3> HIDE DEF p
    <3>3. d.plainchar + ch \div 4 <= 255
      <4>1. y <= 255
        BY <1>6
      <4> QED BY <3>2, <4>1, Zenon
    <3>4. /\ DecodeChar(d, ch) \in Decoder
          /\ DecodeChar(d, ch).step = "d"
          /\ DecodeChar(d, ch).plainchar = (ch % 4) * 64
          /\ DecodeChar(d, ch).plain = Append(d.plain, d.plainchar + ch \div 4)
      BY <1>1, <3>1, <3>3, ReadC, Zenon
    <3> QED BY <1>11, <3>2, <3>4, Zenon
  <2>2. (v + 1) \div 4 = u /\ (v + 1) % 4 = 3
    BY <1>1, <1>14
  <2>3. 3 * u + (2 - 1) \in Nat /\ 3 * u + (2 - 1) + 1 = 3 * u + (3 - 1)
          /\ 3 * u + (2 - 1) + 1 = 3 * u + 2
    BY <1>1
  <2>4. PlainIs(f, out, 3 * u + (2 - 1))
    BY <1>3, <1>10, <1>14, Zenon
  <2>5. y = Octet(f, 3 * u + (2 - 1) + 1)
    BY <2>3, Zenon DEF y
  <2>6. PlainIs(f, Append(out, y), 3 * u + (2 - 1) + 1)
    BY <1>6, <2>3, <2>4, <2>5, PutByte, Zenon
  <2>7. PlainIs(f, pre \o e.plain, 3 * u + (3 - 1))
    BY <1>5, <1>6, <2>1, <2>3, <2>6, Zenon
  <2> QED BY <1>10, <2>1, <2>2, <2>7, Zenon DEF DecodedTo, z
<1>15. CASE w = 3
  <2>1. e \in Decoder /\ e.step = "a" /\ e.plain = Append(d.plain, z)
    <3>1. d.step = "d" /\ ch \in 0 .. 63
      BY <1>3, <1>7, <1>9, <1>15
    <3>2. z = d.plainchar + ch /\ z \in 0 .. 255
      <4>1. d.plainchar = (z \div 64) * 64 /\ ch = z % 64
        BY <1>3, <1>9, <1>15, Zenon
      <4>2. d.plainchar + ch = (z \div 64) * 64 + (z % 64)
        <5> DEFINE a == d.plainchar
                   b == (z \div 64) * 64
                   m == z % 64
        <5>1. a = b /\ ch = m
          BY <4>1
        <5> HIDE DEF a, b, m
        <5>2. a + ch = b + m
          BY <5>1
        <5> QED BY <5>2 DEF a, b, m
      <4> QED BY <1>6, <1>7, <4>2, Zenon
    <3>3. d.plainchar + ch <= 255
      <4>1. z <= 255
        BY <1>6
      <4> QED BY <3>2, <4>1, Zenon
    <3>4. /\ DecodeChar(d, ch) \in Decoder
          /\ DecodeChar(d, ch).step = "a"
          /\ DecodeChar(d, ch).plain = Append(d.plain, d.plainchar + ch)
      BY <3>1, <3>3, ReadD, Zenon
    <3> QED BY <1>11, <3>2, <3>4, Zenon
  <2>2. (v + 1) \div 4 = u + 1 /\ (v + 1) % 4 = 0
    BY <1>1, <1>15
  <2>3. 3 * u + (3 - 1) \in Nat /\ 3 * u + (3 - 1) + 1 = 3 * (u + 1) + 0
          /\ 3 * u + (3 - 1) + 1 = 3 * u + 3
    BY <1>1
  <2>4. PlainIs(f, out, 3 * u + (3 - 1))
    BY <1>3, <1>10, <1>15, Zenon
  <2>5. z = Octet(f, 3 * u + (3 - 1) + 1)
    BY <2>3, Zenon DEF z
  <2>6. PlainIs(f, Append(out, z), 3 * u + (3 - 1) + 1)
    BY <1>6, <2>3, <2>4, <2>5, PutByte, Zenon
  <2>7. PlainIs(f, pre \o e.plain, 3 * (u + 1) + 0)
    BY <1>5, <1>6, <2>1, <2>3, <2>6, Zenon
  <2> QED BY <1>10, <2>1, <2>2, <2>7, Zenon DEF DecodedTo
<1>16. w = 0 \/ w = 1 \/ w = 2 \/ w = 3
  BY <1>1
<1> QED BY <1>12, <1>13, <1>14, <1>15, <1>16, Zenon

-----------------------------------------------------------------------------
\* How many of the first m characters of the text are of the alphabet.
Alphabet(f) == (4 * Len(f) + 2) \div 3

Seen(f, m) == IF m - LineEnds(m) <= Alphabet(f) THEN m - LineEnds(m) ELSE Alphabet(f)

EndsFit(f) == LineEnds(TextLen(f) - 1) = (Len(f) \div 3) \div Quartets

\* A quotient is no more than what is divided.
LEMMA DivLeq ==
  ASSUME NEW w \in Nat \ {0}, NEW p \in Nat
  PROVE  p \div w \in Nat /\ p \div w <= p
<1> DEFINE S == {n \in Nat : n \div w \in Nat /\ n \div w <= n}
<1>1. 0 \in S
  OBVIOUS
<1>2. ASSUME NEW n \in Nat, n \in S PROVE n + 1 \in S
  <2>1. n \div w \in Nat /\ n \div w <= n
    BY <1>2
  <2>2. (n + 1) \div w = n \div w \/ (n + 1) \div w = n \div w + 1
    BY DivStep
  <2> QED BY <2>1, <2>2
<1>3. p \in S
  <2> HIDE DEF S
  <2> QED BY <1>1, <1>2, Induction
<1> QED BY <1>3

\* PAD and NEWLINE leave the decoder alone.
LEMMA Skipped ==
  ASSUME NEW d, NEW c, c = PAD \/ c = NEWLINE
  PROVE  DecodeChar(d, c) = d
BY DEF DecodeChar, PAD, NEWLINE

\* So does the next character of the text, of the alphabet or not.
LEMMA ReadStep ==
  ASSUME NEW f \in Seq(0 .. 255), EndsFit(f),
         NEW m \in Nat, m < TextLen(f),
         NEW d \in Decoder, NEW pre \in Seq(0 .. 255),
         DecodedTo(f, Seen(f, m), d, pre \o d.plain),
         NEW e, e = DecodeChar(d, Reference(f)[m + 1])
  PROVE  e \in Decoder /\ DecodedTo(f, Seen(f, m + 1), e, pre \o e.plain)
<1> DEFINE W == CHARS_PER_LINE + 1
           T == TextLen(f)
           L == Len(f)
           l == LineEnds(m)
           A == Alphabet(f)
           k == m - l
           q == (L \div 3) \div Quartets
<1>1. W \in Nat \ {0} /\ L \in Nat
  BY CodeAssumption
<1>2. q \in Nat /\ A \in Nat
  <2>1. L \div 3 \in Nat
    BY <1>1
  <2> HIDE DEF L
  <2>2. q \in Nat
    BY <2>1, QuartetsType, DivLeq
  <2> QED BY <1>1, <2>2 DEF Alphabet, L
<1>3. T = 4 * ((L + 2) \div 3) + q + 1 /\ LineEnds(T - 1) = q
  BY Zenon DEF TextLen, EndsFit, Quartets
<1>4. Reference(f)[m + 1] =
        IF m + 1 = T \/ (m + 1) % W = 0 THEN NEWLINE ELSE Sextet(f, k)
  <2>1. m + 1 \in 1 .. T /\ (m + 1) - 1 = m
    BY <1>1, <1>2, <1>3
  <2>2. Reference(f)[m + 1] =
          IF m + 1 = T \/ (m + 1) % W = 0 THEN NEWLINE
          ELSE Sextet(f, (m + 1) - 1 - LineEnds((m + 1) - 1))
    BY <2>1, Zenon DEF Reference
  <2>3. (m + 1) - 1 - LineEnds((m + 1) - 1) = k
    BY <2>1, Zenon
  <2> QED BY <2>2, <2>3, Zenon
<1> HIDE DEF W
<1>5. /\ l \in Nat /\ k \in Nat
      /\ (m + 1) % W = 0 => LineEnds(m + 1) = l + 1
      /\ (m + 1) % W # 0 => LineEnds(m + 1) = l
  <2>1. l = m \div W /\ LineEnds(m + 1) = (m + 1) \div W
    BY Zenon DEF LineEnds, W
  <2>2. m \div W \in Nat /\ m \div W <= m
    BY <1>1, DivLeq
  <2>3. /\ m % W \in 0 .. W - 1
        /\ m % W = W - 1 => /\ (m + 1) % W = 0
                            /\ (m + 1) \div W = m \div W + 1
        /\ m % W # W - 1 => /\ (m + 1) % W = (m % W) + 1
                            /\ (m + 1) \div W = m \div W
    BY <1>1, DivStep
  <2> QED BY <2>1, <2>2, <2>3
<1>6. A <= 4 * ((L + 2) \div 3) /\ (6 * k >= 8 * L <=> k >= A)
  BY <1>1, <1>5 DEF Alphabet
<1>7. /\ Seen(f, m) = IF k <= A THEN k ELSE A
      /\ Seen(f, m + 1) = IF (m + 1) - LineEnds(m + 1) <= A
                          THEN (m + 1) - LineEnds(m + 1) ELSE A
  <2>1. Seen(f, m) = IF k <= A THEN k ELSE A
    BY Zenon DEF Seen
  <2>2. Seen(f, m + 1) = IF (m + 1) - LineEnds(m + 1) <= A
                         THEN (m + 1) - LineEnds(m + 1) ELSE A
    BY Zenon DEF Seen
  <2> QED BY <2>1, <2>2, Zenon
<1> HIDE DEF T, L, l, A, q
<1>8. CASE (m + 1) % W = 0
  <2>1. Seen(f, m + 1) = Seen(f, m)
    <3>1. (m + 1) - LineEnds(m + 1) = k
      BY <1>5, <1>8
    <3> HIDE DEF k
    <3> QED BY <1>7, <3>1
  <2>2. e = d
    BY <1>4, <1>8, Skipped, Zenon
  <2> QED BY <2>1, <2>2, Zenon
<1>9. CASE (m + 1) % W # 0 /\ m + 1 = T
  <2>1. Seen(f, m + 1) = Seen(f, m)
    <3>1. T - 1 = m
      BY <1>9
    <3>2. l = q
      BY <1>3, <3>1, Zenon DEF l
    <3>3. k >= A
      BY <1>1, <1>2, <1>3, <1>6, <1>9, <3>2
    <3>4. (m + 1) - LineEnds(m + 1) = k + 1
      BY <1>5, <1>9
    <3> QED BY <1>2, <1>5, <1>7, <3>3, <3>4
  <2>2. e = d
    BY <1>4, <1>9, Skipped, Zenon
  <2> QED BY <2>1, <2>2, Zenon
<1>10. CASE (m + 1) % W # 0 /\ m + 1 # T
  <2>1. (m + 1) - LineEnds(m + 1) = k + 1
    BY <1>5, <1>10
  <2>2. e = DecodeChar(d, Sextet(f, k))
    BY <1>4, <1>10, Zenon
  <2>3. CASE 6 * k >= 8 * L
    <3>1. Seen(f, m + 1) = Seen(f, m)
      <4>1. k >= A /\ k \in Nat
        BY <1>5, <1>6, <2>3
      <4> HIDE DEF k
      <4> QED BY <1>2, <1>7, <2>1, <4>1
    <3>2. e = d
      BY <2>2, <2>3, Skipped, Zenon DEF Sextet, L
    <3> QED BY <3>1, <3>2, Zenon
  <2>4. CASE ~ 6 * k >= 8 * L
    <3>1. 6 * k < 8 * Len(f) /\ k < A
      BY <1>1, <1>2, <1>5, <1>6, <2>4 DEF L
    <3>2. Seen(f, m) = k /\ Seen(f, m + 1) = k + 1
      BY <1>2, <1>5, <1>7, <2>1, <3>1
    <3>3. DecodedTo(f, k, d, pre \o d.plain)
      BY <3>2, Zenon
    <3>4. k \in Nat
      BY <1>5
    <3> HIDE DEF k
    <3>5. e \in Decoder /\ DecodedTo(f, k + 1, e, pre \o e.plain)
      BY <2>2, <3>1, <3>3, <3>4, DecodeStep, Zenon
    <3> QED BY <3>2, <3>5, Zenon
  <2> QED BY <2>3, <2>4
<1> QED BY <1>8, <1>9, <1>10

-----------------------------------------------------------------------------
DecoderState == [step : {"a", "b", "c", "d"}, plainchar : Nat]

\* Where the decoder is shows in what base64_decodestate keeps between calls.
LEMMA ToldByDecoder ==
  ASSUME NEW f, NEW v, NEW c, NEW d, NEW out, DecodedTo(f, v, c, out),
         d.step = c.step, d.plainchar = c.plainchar
  PROVE  DecodedTo(f, v, d, out)
BY Zenon DEF DecodedTo

\* A call of base64_decode_block takes the decoder a block further.
LEMMA DecodesBlock ==
  ASSUME NEW f \in Seq(0 .. 255), EndsFit(f), TextLen(f) \in Nat,
         NEW n \in Nat, NEW block \in Seq(0 .. 255),
         n + Len(block) <= TextLen(f),
         \A i \in 1 .. Len(block) : block[i] = Reference(f)[n + i],
         NEW s \in DecoderState, NEW pre \in Seq(0 .. 255),
         DecodedTo(f, Seen(f, n), s, pre)
  PROVE  LET r == base64_decode_block(block, s)
         IN  /\ r.plain \in Seq(0 .. 255) /\ r.state \in DecoderState
             /\ DecodedTo(f, Seen(f, n + Len(block)), r.state, pre \o r.plain)
<1> DEFINE m == Len(block)
           c == [step |-> s.step, plainchar |-> s.plainchar, plain |-> <<>>]
           e == FoldLeft(DecodeChar, c, block)
           r == base64_decode_block(block, s)
           st == [step |-> e.step, plainchar |-> e.plainchar]
<1>1. m \in Nat /\ DOMAIN block = 1 .. m
  OBVIOUS
<1>2. c \in Decoder /\ DecodedTo(f, Seen(f, n), c, pre \o c.plain)
  <2>1. c \in Decoder
    BY DEF Decoder, DecoderState
  <2>2. c.step = s.step /\ c.plainchar = s.plainchar /\ c.plain = <<>>
    OBVIOUS
  <2>3. pre \o <<>> = pre
    OBVIOUS
  <2> HIDE DEF c
  <2>4. DecodedTo(f, Seen(f, n), c, pre)
    BY <2>2, ToldByDecoder, Zenon
  <2> QED BY <2>1, <2>2, <2>3, <2>4, Zenon
<1> HIDE DEF m, c
<1>3. PICK run : /\ run[0] = c
                 /\ \A i \in 1 .. m : run[i] = DecodeChar(run[i - 1], block[i])
                 /\ run[m] = e
  BY <1>1, DecodeRun
<1> DEFINE S == {k \in Nat : k <= m =>
                   /\ run[k] \in Decoder
                   /\ DecodedTo(f, Seen(f, n + k), run[k], pre \o run[k].plain)}
<1>4. 0 \in S
  <2>1. n + 0 = n
    OBVIOUS
  <2> QED BY <1>2, <1>3, <2>1
<1>5. ASSUME NEW k \in Nat, k \in S PROVE k + 1 \in S
  <2> SUFFICES ASSUME k + 1 <= m
               PROVE  /\ run[k + 1] \in Decoder
                      /\ DecodedTo(f, Seen(f, n + (k + 1)), run[k + 1],
                                   pre \o run[k + 1].plain)
    OBVIOUS
  <2>1. run[k] \in Decoder /\ DecodedTo(f, Seen(f, n + k), run[k], pre \o run[k].plain)
    BY <1>1, <1>5
  <2>2. run[k + 1] = DecodeChar(run[k], Reference(f)[n + k + 1])
    <3>1. k + 1 \in 1 .. m /\ (k + 1) - 1 = k /\ n + (k + 1) = n + k + 1
      BY <1>1
    <3>2. block[k + 1] = Reference(f)[n + (k + 1)]
      BY <3>1 DEF m
    <3> QED BY <1>3, <3>1, <3>2
  <2>3. n + k \in Nat /\ n + k < TextLen(f) /\ n + (k + 1) = n + k + 1
    BY <1>1 DEF m
  <2> HIDE DEF S
  <2>4. /\ run[k + 1] \in Decoder
        /\ DecodedTo(f, Seen(f, n + k + 1), run[k + 1], pre \o run[k + 1].plain)
    BY <2>1, <2>2, <2>3, ReadStep, ZenonT(60)
  <2> QED BY <2>3, <2>4, Zenon
<1>6. m \in S
  <2> HIDE DEF S
  <2> QED BY <1>1, <1>4, <1>5, Induction
<1>7. e \in Decoder /\ DecodedTo(f, Seen(f, n + m), e, pre \o e.plain)
  BY <1>1, <1>3, <1>6
<1>8. r = [plain |-> e.plain, state |-> st]
  BY Zenon DEF base64_decode_block, c
<1> HIDE DEF e, r
<1>9. /\ r.plain = e.plain /\ r.state = st
      /\ st.step = e.step /\ st.plainchar = e.plainchar
  BY <1>8
<1>10. e.plain \in Seq(0 .. 255) /\ st \in DecoderState
  BY <1>7 DEF Decoder, DecoderState
<1> HIDE DEF st
<1>11. DecodedTo(f, Seen(f, n + m), st, pre \o e.plain)
  BY <1>7, <1>9, ToldByDecoder, Zenon
<1> QED BY <1>9, <1>10, <1>11, Zenon DEF r, m

\* All of the text read is all of the file.
LEMMA AllDecoded ==
  ASSUME NEW f \in Seq(0 .. 255), EndsFit(f), NEW s, NEW out,
         DecodedTo(f, Seen(f, TextLen(f)), s, out)
  PROVE  out = f
<1> DEFINE W == CHARS_PER_LINE + 1
           T == TextLen(f)
           L == Len(f)
           A == Alphabet(f)
           q == (L \div 3) \div Quartets
           m == T - 1
<1>1. W \in Nat \ {0} /\ L \in Nat
  BY CodeAssumption
<1>2. q \in Nat /\ A \in Nat
  <2>1. L \div 3 \in Nat
    BY <1>1
  <2> HIDE DEF L
  <2>2. q \in Nat
    BY <2>1, QuartetsType, DivLeq
  <2> QED BY <1>1, <2>2 DEF Alphabet, L
<1>3. T = 4 * ((L + 2) \div 3) + q + 1 /\ LineEnds(m) = q
  BY Zenon DEF TextLen, EndsFit, Quartets
<1>4. m \in Nat /\ T = m + 1 /\ m - q = 4 * ((L + 2) \div 3)
  BY <1>1, <1>2, <1>3
<1> HIDE DEF m, W, T
<1>5. LineEnds(T) = q \/ LineEnds(T) = q + 1
  <2>1. q = m \div W /\ LineEnds(T) = (m + 1) \div W
    BY <1>3, <1>4, Zenon DEF LineEnds, W
  <2>2. (m + 1) \div W = m \div W \/ (m + 1) \div W = m \div W + 1
    BY <1>1, <1>4, DivStep
  <2> QED BY <2>1, <2>2, Zenon
<1>6. A <= 4 * ((L + 2) \div 3)
  BY <1>1 DEF Alphabet
<1>7. Seen(f, T) = A
  <2>1. Seen(f, T) = IF T - LineEnds(T) <= A THEN T - LineEnds(T) ELSE A
    BY Zenon DEF Seen
  <2> HIDE DEF A, L, q
  <2>2. T - LineEnds(T) >= A /\ T - LineEnds(T) \in Int
    BY <1>2, <1>4, <1>5, <1>6
  <2> QED BY <1>2, <2>1, <2>2
<1>8. 3 * (A \div 4) + (IF A % 4 = 0 THEN 0 ELSE (A % 4) - 1) = L
  <2> DEFINE g == L \div 3
  <2>1. g \in Nat /\ (L = 3 * g \/ L = 3 * g + 1 \/ L = 3 * g + 2)
    BY <1>1
  <2>2. A = (4 * L + 2) \div 3
    BY Zenon DEF Alphabet
  <2> HIDE DEF g, L, A
  <2>3. CASE L = 3 * g
    <3>1. A = 4 * g
      BY <2>1, <2>2, <2>3
    <3> QED BY <2>1, <2>3, <3>1
  <2>4. CASE L = 3 * g + 1
    <3>1. A = 4 * g + 2
      BY <2>1, <2>2, <2>4
    <3> QED BY <2>1, <2>4, <3>1
  <2>5. CASE L = 3 * g + 2
    <3>1. A = 4 * g + 3
      BY <2>1, <2>2, <2>5
    <3> QED BY <2>1, <2>5, <3>1
  <2> QED BY <2>1, <2>3, <2>4, <2>5
<1>9. PlainIs(f, out, L)
  BY <1>7, <1>8, Zenon DEF DecodedTo, T
<1>10. \A i \in 1 .. L : out[i] = f[i]
  BY <1>1, <1>9 DEF PlainIs, Octet
<1> QED BY <1>9, <1>10, SeqEqual DEF PlainIs

-----------------------------------------------------------------------------
\* A piece of a sequence of bytes.
LEMMA Piece ==
  ASSUME NEW r \in Seq(Bytes), NEW m \in Nat, NEW n \in Nat,
         m <= n, n <= Len(r)
  PROVE  /\ SubSeq(r, m + 1, n) \in Seq(Bytes)
         /\ Len(SubSeq(r, m + 1, n)) = n - m
         /\ \A i \in 1 .. n - m : SubSeq(r, m + 1, n)[i] = r[m + i]
<1> DEFINE p == SubSeq(r, m + 1, n)
<1>1. \A i \in (m + 1) .. n : r[i] \in Bytes
  <2>1. \A i \in 1 .. Len(r) : r[i] \in Bytes
    BY ElementOfSeq
  <2> QED BY <2>1, LenProperties
<1>2. m + 1 \in Int /\ n \in Int
  OBVIOUS
<1>3. /\ p \in Seq(Bytes)
      /\ Len(p) = IF m + 1 <= n THEN n - (m + 1) + 1 ELSE 0
      /\ \A i \in 1 .. n - (m + 1) + 1 : p[i] = r[(m + 1) + i - 1]
  BY <1>1, <1>2, SubSeqProperties
<1> HIDE DEF p
<1>4. Len(p) = n - m
  BY <1>3
<1>5. ASSUME NEW i \in 1 .. n - m PROVE p[i] = r[m + i]
  <2>1. i \in 1 .. n - (m + 1) + 1 /\ (m + 1) + i - 1 = m + i
    OBVIOUS
  <2> QED BY <1>3, <2>1
<1> QED BY <1>3, <1>4, <1>5, Zenon DEF p

\* A block of a sequence, and what is left.
LEMMA BlockOf ==
  ASSUME NEW r \in Seq(Bytes), NEW size \in Nat \ {0}
  PROVE  LET k == Len(Block(r, size))
         IN  /\ Block(r, size) \in Seq(Bytes) /\ k \in Nat /\ k <= Len(r)
             /\ \A i \in 1 .. k : Block(r, size)[i] = r[i]
             /\ After(r, size) \in Seq(Bytes)
             /\ Len(After(r, size)) = Len(r) - k
             /\ \A i \in 1 .. Len(r) - k : After(r, size)[i] = r[k + i]
<1> DEFINE R == Len(r)
           h == IF R < size THEN R ELSE size
           b == SubSeq(r, 0 + 1, h)
           a == SubSeq(r, h + 1, R)
<1>1. R \in Nat
  BY LenProperties
<1>2. h \in Nat /\ h <= R
  <2> HIDE DEF R
  <2> QED BY <1>1
<1> HIDE DEF h
<1>3. /\ b \in Seq(Bytes) /\ Len(b) = h - 0
      /\ \A i \in 1 .. h - 0 : b[i] = r[0 + i]
  <2>1. 0 \in Nat /\ 0 <= h
    BY <1>2
  <2> QED BY <1>2, <2>1, Piece, Zenon
<1>4. /\ a \in Seq(Bytes) /\ Len(a) = R - h
      /\ \A i \in 1 .. R - h : a[i] = r[h + i]
  <2>1. R <= Len(r)
    BY <1>1
  <2> QED BY <1>1, <1>2, <2>1, Piece, Zenon
<1> HIDE DEF a, b
<1>5. Len(b) = h /\ \A i \in 1 .. h : b[i] = r[i]
  <2>1. h - 0 = h /\ \A i \in 1 .. h : 0 + i = i
    BY <1>2
  <2> QED BY <1>3, <2>1
<1>6. b = Block(r, size)
  <2>1. 0 + 1 = 1
    OBVIOUS
  <2> QED BY <2>1, Zenon DEF Block, b, h, R
<1>7. a = After(r, size)
  BY <1>5, <1>6, Zenon DEF After, a, R
<1> QED BY <1>2, <1>3, <1>4, <1>5, <1>6, <1>7, Zenon DEF R

\* The same of what is left of s after n places.
Left(s, n) == SubSeq(s, n + 1, Len(s))

LEMMA Cut ==
  ASSUME NEW s \in Seq(Bytes), NEW n \in 0 .. Len(s), NEW size \in Nat \ {0}
  PROVE  /\ Block(Left(s, n), size) \in Seq(Bytes)
         /\ n + Len(Block(Left(s, n), size)) \in 0 .. Len(s)
         /\ \A i \in 1 .. Len(Block(Left(s, n), size)) :
              Block(Left(s, n), size)[i] = s[n + i]
         /\ After(Left(s, n), size) = Left(s, n + Len(Block(Left(s, n), size)))
<1> DEFINE left == Left(s, n)
           L == Len(s)
           b == Block(left, size)
           k == Len(b)
           a == After(left, size)
           t == Left(s, n + k)
<1>1. L \in Nat /\ n \in Nat /\ n <= L /\ L <= L
  BY LenProperties
<1>2. /\ left \in Seq(Bytes) /\ Len(left) = L - n
      /\ \A i \in 1 .. L - n : left[i] = s[n + i]
  <2>1. /\ SubSeq(s, n + 1, L) \in Seq(Bytes)
        /\ Len(SubSeq(s, n + 1, L)) = L - n
        /\ \A i \in 1 .. L - n : SubSeq(s, n + 1, L)[i] = s[n + i]
    BY <1>1, Piece, Zenon
  <2> QED BY <2>1, Zenon DEF Left
<1> HIDE DEF L, left
<1>3. /\ b \in Seq(Bytes) /\ k \in Nat /\ k <= Len(left)
      /\ \A i \in 1 .. k : b[i] = left[i]
      /\ a \in Seq(Bytes)
      /\ Len(a) = Len(left) - k
      /\ \A i \in 1 .. Len(left) - k : a[i] = left[k + i]
  BY <1>2, BlockOf, Zenon
<1> HIDE DEF a, b, k
<1>4. n + k \in Nat /\ n + k <= L
  BY <1>1, <1>2, <1>3
<1>5. /\ t \in Seq(Bytes) /\ Len(t) = L - (n + k)
      /\ \A i \in 1 .. L - (n + k) : t[i] = s[(n + k) + i]
  <2>1. L <= Len(s)
    BY <1>1 DEF L
  <2>2. t = SubSeq(s, (n + k) + 1, L)
    BY Zenon DEF Left, L
  <2> HIDE DEF t
  <2>3. /\ SubSeq(s, (n + k) + 1, L) \in Seq(Bytes)
        /\ Len(SubSeq(s, (n + k) + 1, L)) = L - (n + k)
        /\ \A i \in 1 .. L - (n + k) :
             SubSeq(s, (n + k) + 1, L)[i] = s[(n + k) + i]
    BY <1>1, <1>4, <2>1, Piece, Zenon
  <2> QED BY <2>2, <2>3, Zenon
<1> HIDE DEF t
<1>6. a = t
  <2>1. Len(a) = Len(t) /\ Len(a) = L - (n + k)
    BY <1>1, <1>2, <1>3, <1>5
  <2>2. ASSUME NEW i \in 1 .. Len(a) PROVE a[i] = t[i]
    <3>1. /\ i \in 1 .. Len(left) - k /\ i \in 1 .. L - (n + k)
          /\ k + i \in 1 .. L - n /\ (n + k) + i = n + (k + i)
      BY <1>1, <1>2, <1>3, <1>4, <2>1
    <3>2. a[i] = left[k + i] /\ t[i] = s[n + (k + i)]
      BY <1>3, <1>5, <3>1
    <3> QED BY <1>2, <3>1, <3>2
  <2> QED BY <1>3, <1>5, <2>1, <2>2, SeqEqual
<1>7. ASSUME NEW i \in 1 .. k PROVE b[i] = s[n + i]
  <2>1. i \in 1 .. L - n
    BY <1>1, <1>2, <1>3
  <2> QED BY <1>2, <1>3, <2>1
<1>8. n + k \in 0 .. L
  BY <1>4
<1> QED BY <1>3, <1>6, <1>7, <1>8, Zenon DEF L, b, k, a, t, left

\* The loops end at the end.
LEMMA NothingLeft ==
  ASSUME NEW s \in Seq(Bytes), NEW n \in 0 .. Len(s),
         Left(s, n) = <<>>
  PROVE  n = Len(s)
<1>1. Len(s) \in Nat /\ n \in Nat /\ n <= Len(s) /\ Len(s) <= Len(s)
  BY LenProperties
<1>2. Len(SubSeq(s, n + 1, Len(s))) = Len(s) - n
  BY <1>1, Piece
<1>3. Len(SubSeq(s, n + 1, Len(s))) = 0
  <2>1. Len(<<>>) = 0
    OBVIOUS
  <2> QED BY <2>1, Zenon DEF Left
<1> QED BY <1>1, <1>2, <1>3

\* The initial states are those before the first byte and the first character.
LEMMA NothingYet ==
  ASSUME NEW f \in Seq(0 .. 255)
  PROVE  /\ EncodedTo(f, 0, base64_init_encodestate, <<>>)
         /\ DecodedTo(f, Seen(f, 0), base64_init_decodestate, <<>>)
         /\ base64_init_encodestate \in EncoderState
         /\ base64_init_decodestate \in DecoderState
<1>1. \A w \in Nat \ {0} : 0 \div w = 0 /\ 0 % w = 0
  OBVIOUS
<1>2. 0 \div Quartets = 0 /\ 0 % Quartets = 0
  BY <1>1, QuartetsType
<1>3. 0 \div (CHARS_PER_LINE + 1) = 0 /\ 0 % (CHARS_PER_LINE + 1) = 0
  <2>1. CHARS_PER_LINE + 1 \in Nat \ {0}
    BY CodeAssumption
  <2> QED BY <1>1, <2>1
<1>4. Len(<<>>) = 0 /\ <<>> \in Seq(0 .. 65) /\ <<>> \in Seq(0 .. 255)
  OBVIOUS
<1>5. TextIs(f, <<>>, 0, 0)
  <2>1. \A i \in 1 .. 0 : <<>>[i] = Char(f, i)
    OBVIOUS
  <2> QED BY <1>3, <1>4, <2>1, Zenon DEF TextIs, LineEnds
<1>6. 0 \div 3 = 0 /\ 0 % 3 = 0 /\ 0 \div 4 = 0 /\ 0 % 4 = 0
        /\ 4 * 0 + 0 + 0 = 0 /\ 4 * 0 + 0 = 0 /\ 3 * 0 + 0 = 0
        /\ 0 # 1 /\ 0 # 2 /\ 0 # 3
  OBVIOUS
<1>7. /\ base64_init_encodestate.step = "A"
      /\ base64_init_encodestate.stepcount = 0
      /\ base64_init_decodestate.step = "a"
  BY DEF base64_init_encodestate, base64_init_decodestate
<1>8. EncodedTo(f, 0, base64_init_encodestate, <<>>)
  BY <1>2, <1>4, <1>5, <1>6, <1>7, Zenon DEF EncodedTo
<1>9. Seen(f, 0) = 0
  <2>1. LineEnds(0) = 0
    BY <1>3, Zenon DEF LineEnds
  <2>2. Alphabet(f) >= 0 /\ 0 - 0 = 0 /\ Alphabet(f) \in Nat
    BY DEF Alphabet
  <2> QED BY <2>1, <2>2 DEF Seen
<1>10. PlainIs(f, <<>>, 0)
  <2>1. \A i \in 1 .. 0 : <<>>[i] = Octet(f, i)
    OBVIOUS
  <2> QED BY <1>4, <2>1, Zenon DEF PlainIs
<1>11. DecodedTo(f, 0, base64_init_decodestate, <<>>)
  BY <1>6, <1>7, <1>10, Zenon DEF DecodedTo
<1> QED BY <1>8, <1>9, <1>11
        DEF EncoderState, DecoderState, base64_init_encodestate,
            base64_init_decodestate

-----------------------------------------------------------------------------
\* How far the encoder is in the file, and the decoder in the text.
Encoding ==
  /\ es \in EncoderState /\ encoded \in Seq(0 .. 65)
  /\ \E n \in 0 .. Len(file) : /\ unread = Left(file, n)
                               /\ EncodedTo(file, n, es, encoded)

Encoded ==
  /\ encoded = Reference(file) /\ encoded \in Seq(0 .. 65)
  /\ Len(encoded) = TextLen(file)
  /\ EndsFit(file)

Decoding ==
  /\ ds \in DecoderState /\ decoded \in Seq(0 .. 255)
  /\ \E m \in 0 .. Len(encoded) :
       /\ undecoded = Left(encoded, m)
       /\ DecodedTo(file, Seen(file, m), ds, decoded)

CodeInv ==
  /\ file \in Files
  /\ coding \in {"encode", "string", "decode", "done", "ended", "refused"}
  /\ coding = "encode" => Encoding
  /\ coding = "string" => es = base64_init_encodestate
  /\ coding \in {"encode", "string"} =>
       ds = base64_init_decodestate /\ decoded = <<>>
  /\ coding \in {"decode", "done", "ended"} => Encoded
  /\ coding \in {"decode", "done"} => Decoding
  /\ coding = "done" => undecoded = <<>>

\* Both alphabets are bytes.
LEMMA TextBytes == ASSUME NEW s \in Seq(0 .. 65) PROVE s \in Seq(Bytes)
BY DEF Bytes

LEMMA FileBytes == ASSUME NEW f \in Files PROVE f \in Seq(0 .. 255)
BY CodeAssumption

\* The invariant holds at first, and each of the five actions keeps it.
LEMMA CodeInvInit == CodeInit => CodeInv
<1> SUFFICES ASSUME CodeInit PROVE CodeInv
  OBVIOUS
<1>1. file \in Files /\ file \in Seq(0 .. 255)
  BY FileBytes DEF CodeInit
<1>2. /\ unread = file /\ es = base64_init_encodestate /\ encoded = <<>>
      /\ coding \in {"encode", "string"}
      /\ ds = base64_init_decodestate /\ decoded = <<>>
  BY DEF CodeInit
<1>3. Encoding
  <2>1. Left(file, 0) = file
    <3>1. SubSeq(file, 1, Len(file)) = file /\ 0 + 1 = 1
      BY <1>1, SubSeqFull
    <3> QED BY <3>1, Zenon DEF Left
  <2>2. EncodedTo(file, 0, es, encoded) /\ es \in EncoderState
    BY <1>1, <1>2, NothingYet, Zenon
  <2>3. encoded \in Seq(0 .. 65) /\ 0 \in 0 .. Len(file) /\ 0 + 1 = 1
    BY <1>1, <1>2
  <2> QED BY <1>2, <2>1, <2>2, <2>3, Zenon DEF Encoding
<1> QED BY <1>1, <1>2, <1>3 DEF CodeInv

LEMMA EncodeBlockKeeps == CodeInv /\ EncodeBlock => CodeInv'
<1> SUFFICES ASSUME CodeInv, EncodeBlock PROVE CodeInv'
  OBVIOUS
<1> DEFINE b == Block(unread, SIZE)
           r == base64_encode_block(b, es)
<1>1. /\ coding = "encode" /\ file' = file /\ coding' = coding
      /\ ds' = ds /\ decoded' = decoded
      /\ encoded' = encoded \o r.code /\ es' = r.state
      /\ unread' = After(unread, SIZE)
  BY DEF EncodeBlock
<1>2. file \in Seq(0 .. 255) /\ SIZE \in Nat \ {0}
  BY FileBytes, CodeAssumption DEF CodeInv
<1>3. Encoding
  BY <1>1 DEF CodeInv
<1>4. PICK n \in 0 .. Len(file) : /\ unread = Left(file, n)
                                  /\ EncodedTo(file, n, es, encoded)
  BY <1>3 DEF Encoding
<1>5. /\ b \in Seq(0 .. 255)
      /\ n + Len(b) \in 0 .. Len(file)
      /\ \A i \in 1 .. Len(b) : b[i] = file[n + i]
      /\ After(unread, SIZE) = Left(file, n + Len(b))
  <2> DEFINE w == Left(file, n)
  <2>1. n \in 0 .. Len(file) /\ unread = w
    BY <1>4
  <2>2. file \in Seq(Bytes) /\ SIZE \in Nat \ {0}
    BY <1>2, Zenon DEF Bytes
  <2>3. /\ Block(w, SIZE) \in Seq(Bytes)
        /\ n + Len(Block(w, SIZE)) \in 0 .. Len(file)
        /\ \A i \in 1 .. Len(Block(w, SIZE)) : Block(w, SIZE)[i] = file[n + i]
        /\ After(w, SIZE) = Left(file, n + Len(Block(w, SIZE)))
    BY <2>1, <2>2, Cut, Zenon
  <2> HIDE DEF w
  <2> QED BY <2>1, <2>3, Zenon DEF Bytes
<1> HIDE DEF b
<1>6. /\ r.code \in Seq(0 .. 65) /\ r.state \in EncoderState
      /\ EncodedTo(file, n + Len(b), r.state, encoded \o r.code)
  <2>1. n \in Nat /\ n + Len(b) <= Len(file)
    BY <1>2, <1>5
  <2>2. es \in EncoderState /\ encoded \in Seq(0 .. 65)
    BY <1>3 DEF Encoding
  <2> QED BY <1>2, <1>4, <1>5, <2>1, <2>2, EncodesBlock, Zenon
<1> HIDE DEF r
<1>7. encoded' \in Seq(0 .. 65)
  BY <1>1, <1>3, <1>6 DEF Encoding
<1>8. Encoding'
  BY <1>1, <1>5, <1>6, <1>7, Zenon DEF Encoding
<1> QED BY <1>1, <1>8 DEF CodeInv

LEMMA EncodeEndKeeps == CodeInv /\ EncodeEnd => CodeInv'
<1> SUFFICES ASSUME CodeInv, EncodeEnd PROVE CodeInv'
  OBVIOUS
<1> DEFINE out == encoded \o base64_encode_blockend(es)
<1>1. /\ coding = "encode" /\ unread = <<>> /\ file' = file /\ coding' = "decode"
      /\ ds' = ds /\ decoded' = decoded
      /\ encoded' = out /\ undecoded' = out
  BY DEF EncodeEnd
<1>2. file \in Files /\ file \in Seq(0 .. 255)
  BY FileBytes DEF CodeInv
<1>3. Encoding /\ ds = base64_init_decodestate /\ decoded = <<>>
  BY <1>1 DEF CodeInv
<1>4. PICK n \in 0 .. Len(file) : /\ unread = Left(file, n)
                                  /\ EncodedTo(file, n, es, encoded)
  BY <1>3 DEF Encoding
<1>5. n = Len(file)
  <2>1. file \in Seq(Bytes)
    BY <1>2, Zenon DEF Bytes
  <2> QED BY <1>1, <1>4, <2>1, NothingLeft, Zenon
<1>6. /\ out = Reference(file) /\ out \in Seq(0 .. 65)
      /\ Len(out) = TextLen(file) /\ EndsFit(file)
  <2>1. es \in EncoderState /\ encoded \in Seq(0 .. 65)
    BY <1>3 DEF Encoding
  <2>2. EncodedTo(file, Len(file), es, encoded)
    BY <1>4, <1>5, Zenon
  <2> QED BY <1>2, <2>1, <2>2, EncodesEnd, Zenon DEF EndsFit
<1> HIDE DEF out
<1>7. Encoded'
  BY <1>1, <1>6, Zenon DEF Encoded, EndsFit
<1>8. Decoding'
  <2>1. Left(out, 0) = out
    <3>1. SubSeq(out, 1, Len(out)) = out /\ 0 + 1 = 1
      BY <1>6, SubSeqFull
    <3> QED BY <3>1, Zenon DEF Left
  <2>2. DecodedTo(file, Seen(file, 0), ds, decoded) /\ ds \in DecoderState
    BY <1>2, <1>3, NothingYet, Zenon
  <2>3. decoded \in Seq(0 .. 255) /\ 0 \in 0 .. Len(out) /\ 0 + 1 = 1
    BY <1>3, <1>6
  <2> QED BY <1>1, <2>1, <2>2, <2>3, Zenon DEF Decoding
<1> QED BY <1>1, <1>2, <1>7, <1>8 DEF CodeInv

LEMMA EncodeStrKeeps == CodeInv /\ EncodeStr => CodeInv'
<1> SUFFICES ASSUME CodeInv, EncodeStr PROVE CodeInv'
  OBVIOUS
<1> DEFINE r == base64_encode_block(file, es)
           out == r.code \o base64_encode_blockend(r.state)
<1>1. /\ coding = "string" /\ file' = file /\ coding' = "ended" /\ encoded' = out
  BY DEF EncodeStr
<1>2. file \in Files /\ file \in Seq(0 .. 255)
  BY FileBytes DEF CodeInv
<1>3. es = base64_init_encodestate
  BY <1>1 DEF CodeInv
<1>4. /\ EncodedTo(file, 0, es, <<>>) /\ es \in EncoderState
  BY <1>2, <1>3, NothingYet, Zenon
<1>5. /\ r.code \in Seq(0 .. 65) /\ r.state \in EncoderState
      /\ EncodedTo(file, 0 + Len(file), r.state, <<>> \o r.code)
  <2>1. 0 \in Nat /\ 0 + Len(file) <= Len(file) /\ <<>> \in Seq(0 .. 65)
    BY <1>2
  <2>2. \A i \in 1 .. Len(file) : file[i] = file[0 + i]
    BY <1>2
  <2> QED BY <1>2, <1>4, <2>1, <2>2, EncodesBlock, Zenon
<1> HIDE DEF r
<1>6. 0 + Len(file) = Len(file) /\ <<>> \o r.code = r.code
  BY <1>2, <1>5
<1>7. EncodedTo(file, Len(file), r.state, r.code)
  BY <1>5, <1>6, Zenon
<1>8. /\ out = Reference(file) /\ out \in Seq(0 .. 65)
      /\ Len(out) = TextLen(file) /\ EndsFit(file)
  BY <1>2, <1>5, <1>7, EncodesEnd, Zenon DEF EndsFit
<1> HIDE DEF out
<1>9. Encoded'
  BY <1>1, <1>8, Zenon DEF Encoded, EndsFit
<1> QED BY <1>1, <1>2, <1>9 DEF CodeInv

LEMMA EncodeStrTooLongKeeps == CodeInv /\ EncodeStrTooLong => CodeInv'
<1> SUFFICES ASSUME CodeInv, EncodeStrTooLong PROVE CodeInv'
  OBVIOUS
<1>1. file' = file /\ coding' = "refused"
  BY DEF EncodeStrTooLong
<1>2. file \in Files
  BY DEF CodeInv
<1> QED BY <1>1, <1>2 DEF CodeInv

LEMMA DecodeBlockKeeps == CodeInv /\ DecodeBlock => CodeInv'
<1> SUFFICES ASSUME CodeInv, DecodeBlock PROVE CodeInv'
  OBVIOUS
<1> DEFINE b == Block(undecoded, DecodeSize)
           r == base64_decode_block(b, ds)
<1>1. /\ coding = "decode" /\ file' = file /\ encoded' = encoded
      /\ decoded' = decoded \o r.plain /\ ds' = r.state
      /\ undecoded' = After(undecoded, DecodeSize)
      /\ coding' = IF undecoded' = <<>> THEN "done" ELSE coding
  BY DEF DecodeBlock
<1>2. file \in Files /\ file \in Seq(0 .. 255) /\ DecodeSize \in Nat \ {0}
  BY FileBytes, CodeAssumption DEF CodeInv
<1>3. Encoded /\ Decoding
  BY <1>1 DEF CodeInv
<1>4. PICK n \in 0 .. Len(encoded) :
        /\ undecoded = Left(encoded, n)
        /\ DecodedTo(file, Seen(file, n), ds, decoded)
  BY <1>3 DEF Decoding
<1>5. /\ encoded \in Seq(0 .. 65) /\ encoded = Reference(file)
      /\ Len(encoded) = TextLen(file) /\ EndsFit(file)
      /\ TextLen(file) \in Nat
  BY <1>3 DEF Encoded
<1>6. /\ b \in Seq(0 .. 255)
      /\ n + Len(b) \in 0 .. Len(encoded)
      /\ \A i \in 1 .. Len(b) : b[i] = encoded[n + i]
      /\ After(undecoded, DecodeSize)
           = Left(encoded, n + Len(b))
  <2> DEFINE w == Left(encoded, n)
  <2>1. n \in 0 .. Len(encoded) /\ undecoded = w
    BY <1>4
  <2>2. encoded \in Seq(Bytes) /\ DecodeSize \in Nat \ {0}
    BY <1>2, <1>5, TextBytes, Zenon
  <2>3. /\ Block(w, DecodeSize) \in Seq(Bytes)
        /\ n + Len(Block(w, DecodeSize)) \in 0 .. Len(encoded)
        /\ \A i \in 1 .. Len(Block(w, DecodeSize)) : Block(w, DecodeSize)[i] = encoded[n + i]
        /\ After(w, DecodeSize) = Left(encoded, n + Len(Block(w, DecodeSize)))
    BY <2>1, <2>2, Cut, Zenon
  <2> HIDE DEF w
  <2> QED BY <2>1, <2>3, Zenon DEF Bytes
<1> HIDE DEF b
<1>7. /\ r.plain \in Seq(0 .. 255) /\ r.state \in DecoderState
      /\ DecodedTo(file, Seen(file, n + Len(b)), r.state, decoded \o r.plain)
  <2>1. n \in Nat /\ n + Len(b) <= TextLen(file)
    BY <1>5, <1>6
  <2>2. ds \in DecoderState /\ decoded \in Seq(0 .. 255)
    BY <1>3 DEF Decoding
  <2>3. \A i \in 1 .. Len(b) : b[i] = Reference(file)[n + i]
    BY <1>5, <1>6, Zenon
  <2> QED BY <1>2, <1>4, <1>5, <1>6, <2>1, <2>2, <2>3, DecodesBlock, ZenonT(60)
<1> HIDE DEF r
<1>8. decoded' \in Seq(0 .. 255)
  BY <1>1, <1>3, <1>7 DEF Decoding
<1>9. Decoding'
  BY <1>1, <1>6, <1>7, <1>8, Zenon DEF Decoding
<1>10. Encoded'
  BY <1>1, <1>3, Zenon DEF Encoded, EndsFit
<1>11. coding' = "done" => undecoded' = <<>>
  BY <1>1
<1>12. coding' \in {"decode", "done"}
  BY <1>1
<1> QED BY <1>1, <1>2, <1>9, <1>10, <1>11, <1>12 DEF CodeInv

LEMMA CodeInvStep == CodeInv /\ [CodeNext]_codeVars => CodeInv'
<1> SUFFICES ASSUME CodeInv, [CodeNext]_codeVars PROVE CodeInv'
  OBVIOUS
<1>1. CASE EncodeBlock
  BY <1>1, EncodeBlockKeeps
<1>2. CASE EncodeEnd
  BY <1>2, EncodeEndKeeps
<1>3. CASE DecodeBlock
  BY <1>3, DecodeBlockKeeps
<1>4. CASE EncodeStr
  BY <1>4, EncodeStrKeeps
<1>5. CASE EncodeStrTooLong
  BY <1>5, EncodeStrTooLongKeeps
<1>6. CASE UNCHANGED codeVars
  BY <1>6, Zenon DEF codeVars, CodeInv, Encoding, Encoded, EndsFit, Decoding
<1> QED BY <1>1, <1>2, <1>3, <1>4, <1>5, <1>6 DEF CodeNext

LEMMA CodeInvAlways == CodeSpec => []CodeInv
BY CodeInvInit, CodeInvStep, PTL DEF CodeSpec

\* encode_file and encode_str: however fread cuts the file, what is written is the
\* base64 text of it, with a line end after every CHARS_PER_LINE characters.
THEOREM Base64EncodesFile == CodeSpec => []EncodesFile
<1>1. CodeInv => EncodesFile
  BY Zenon DEF CodeInv, Encoded, EncodesFile
<1> QED BY <1>1, CodeInvAlways, PTL

\* cdecode.c undoes cencode.c: the decoder, called for pieces of the text cut
\* anywhere, even within a group, gives the file back.
THEOREM Base64RoundTrip == CodeSpec => []RoundTrip
<1>1. CodeInv => RoundTrip
  <2> SUFFICES ASSUME CodeInv, coding = "done" PROVE decoded = file
    BY DEF RoundTrip
  <2>1. Encoded /\ Decoding /\ undecoded = <<>> /\ file \in Seq(0 .. 255)
    BY FileBytes DEF CodeInv
  <2>2. PICK m \in 0 .. Len(encoded) :
          /\ undecoded = Left(encoded, m)
          /\ DecodedTo(file, Seen(file, m), ds, decoded)
    BY <2>1 DEF Decoding
  <2>3. encoded \in Seq(0 .. 65) /\ Len(encoded) = TextLen(file) /\ EndsFit(file)
    BY <2>1 DEF Encoded
  <2>4. m = Len(encoded)
    <3>1. encoded \in Seq(Bytes) /\ Left(encoded, m) = <<>>
      BY <2>1, <2>2, <2>3, TextBytes, Zenon
    <3> QED BY <3>1, NothingLeft
  <2>5. DecodedTo(file, Seen(file, TextLen(file)), ds, decoded)
    BY <2>2, <2>3, <2>4, Zenon
  <2> QED BY <2>1, <2>3, <2>5, AllDecoded, Zenon
<1> QED BY <1>1, CodeInvAlways, PTL

\* If a line has three groups or more, line ends are at most a third of the groups.
LEMMA ThreeGroups ==
  ASSUME NEW w \in Nat, w >= 3, NEW p \in Nat
  PROVE  p \div w \in Nat /\ 3 * (p \div w) <= p
<1> DEFINE S == {n \in Nat : /\ n \div w \in Nat /\ n % w \in Nat
                             /\ 3 * (n \div w) + (n % w) <= n}
<1>1. 0 \in S
  OBVIOUS
<1>2. ASSUME NEW n \in Nat, n \in S PROVE n + 1 \in S
  <2>1. n \div w \in Nat /\ n % w \in Nat /\ 3 * (n \div w) + (n % w) <= n
    BY <1>2
  <2>2. /\ n % w = w - 1 => /\ (n + 1) % w = 0
                            /\ (n + 1) \div w = n \div w + 1
        /\ n % w # w - 1 => /\ (n + 1) % w = (n % w) + 1
                            /\ (n + 1) \div w = n \div w
    <3>1. w \in Nat \ {0}
      OBVIOUS
    <3> QED BY <3>1, DivStep
  <2> QED BY <2>1, <2>2
<1>3. p \in S
  <2> HIDE DEF S
  <2> QED BY <1>1, <1>2, Induction
<1> QED BY <1>3

\* base64_utils.c:22: the buffer of encode_str, twice as long as the string, is long
\* enough for a string it accepts (:31-36), whatever the limit, unless that has 0,
\* 1, 2 or 4 bytes, and for those it is not, if lines are of twelve characters or
\* more; those of cencode.c are of 72.
THEOREM Base64StringFits ==
  ASSUME CHARS_PER_LINE >= 12
  PROVE  CodeSpec => []StringFits
<1>1. CodeInv => StringFits
  <2> SUFFICES ASSUME CodeInv, coding = "ended"
               PROVE  Len(encoded) + 1 <= 2 * Len(file)
                        <=> Len(file) \notin {0, 1, 2, 4}
    BY DEF StringFits
  <2> DEFINE L == Len(file)
             g == L \div 3
             q == g \div Quartets
  <2>1. L \in Nat
    BY FileBytes DEF CodeInv
  <2>2. Len(encoded) = 4 * ((L + 2) \div 3) + q + 1
    BY Zenon DEF CodeInv, Encoded, TextLen, Quartets
  <2>3. g \in Nat /\ (L = 3 * g \/ L = 3 * g + 1 \/ L = 3 * g + 2)
    BY <2>1
  <2>4. q \in Nat /\ 3 * q <= g
    <3>1. Quartets \in Nat /\ Quartets >= 3
      BY QuartetsType
    <3> HIDE DEF g
    <3> QED BY <2>3, <3>1, ThreeGroups
  <2>5. L = Len(file)
    OBVIOUS
  <2> HIDE DEF q, g, L
  <2>6. ASSUME L \in {0, 1, 2, 4}
        PROVE  Len(encoded) + 1 > 2 * L
    <3>1. g <= 1
      BY <2>3, <2>6
    <3>2. q = 0
      BY <2>3, <2>4, <3>1
    <3>3. 4 * ((L + 2) \div 3) + 2 > 2 * L
      BY <2>6
    <3> QED BY <2>1, <2>2, <3>2, <3>3
  <2>7. ASSUME L \notin {0, 1, 2, 4}
        PROVE  Len(encoded) + 1 <= 2 * L
    <3>1. 4 * ((L + 2) \div 3) + q + 2 <= 2 * L
      BY <2>1, <2>3, <2>4, <2>7
    <3> QED BY <2>1, <2>2, <2>4, <3>1
  <2>8. Len(encoded) + 1 \in Nat /\ 2 * L \in Nat
    BY <2>1, <2>2, <2>4
  <2> QED BY <2>1, <2>5, <2>6, <2>7, <2>8
<1> QED BY <1>1, CodeInvAlways, PTL
=============================================================================
