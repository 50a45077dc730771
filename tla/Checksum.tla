------------------------------ MODULE Checksum ------------------------------
(***************************************************************************)
(* The Internet checksum of net-lab-2022-master/src/utils.c, one step per  *)
(* round of its loops.  The words are read in the order of the host, which *)
(* is taken to be little-endian.                                           *)
(***************************************************************************)
EXTENDS Integers, Sequences

CONSTANT Packets   \* the bytes to be summed

Bytes == 0 .. 255

ASSUME ChecksumAssumption == Packets \subseteq Seq(Bytes)

VARIABLES packet,   \* the whole input
          rest,     \* what data and len still show of it
          sum,
          stage     \* "words", "byte" or "done"

sumVars == <<packet, rest, sum, stage>>

Word(low, high) == low + 256 * high

SumInit == /\ packet \in Packets
           /\ rest = packet
           /\ sum = 0
           /\ stage = "words"

AddWord ==
  /\ stage = "words" /\ sum < 2^16 /\ Len(rest) > 1
  /\ sum' = sum + Word(rest[1], rest[2])
  /\ rest' = Tail(Tail(rest))
  /\ UNCHANGED <<packet, stage>>

\* A carry that is dropped.
Carry_dropped_bug ==
  /\ stage # "done" /\ sum >= 2^16
  /\ sum' = sum % 2^16
  /\ UNCHANGED <<packet, rest, stage>>

\* The carry is added back in.
Carry ==
  /\ stage # "done" /\ sum >= 2^16
  /\ sum' = (sum \div 2^16) + (sum % 2^16)
  /\ UNCHANGED <<packet, rest, stage>>

\* A tail that takes the odd byte for the high half of a word.
AddByte_high_bug ==
  /\ stage = "words" /\ sum < 2^16 /\ Len(rest) < 2
  /\ sum' = IF Len(rest) = 1 THEN sum + Word(0, rest[1]) ELSE sum
  /\ rest' = <<>>
  /\ stage' = "byte"
  /\ UNCHANGED packet

AddByte ==
  /\ stage = "words" /\ sum < 2^16 /\ Len(rest) < 2
  /\ sum' = IF Len(rest) = 1 THEN sum + rest[1] ELSE sum
  /\ rest' = <<>>
  /\ stage' = "byte"
  /\ UNCHANGED packet

Complement ==
  /\ stage = "byte" /\ sum < 2^16
  /\ sum' = 2^16 - 1 - sum
  /\ stage' = "done"
  /\ UNCHANGED <<packet, rest>>

SumNext == AddWord \/ Carry \/ AddByte \/ Complement

SumSpec == SumInit /\ [][SumNext]_sumVars

-----------------------------------------------------------------------------
\* One's complement addition of the words of p, padded with a zero byte: the
\* residue modulo 2^16 - 1 that is 0 only if every word is.
Byte(p, i) == IF i \in 1 .. Len(p) THEN p[i] ELSE 0

NetworkWord(first, second) == Word(second, first)

Words(p, weigh(_, _)) ==
  [n \in 1 .. (Len(p) + 1) \div 2 |-> weigh(Byte(p, 2 * n - 1), Byte(p, 2 * n))]

Sums(w) ==
  LET upto[n \in 0 .. Len(w)] == IF n = 0 THEN 0 ELSE upto[n - 1] + w[n]
  IN  upto

Total(p, weigh(_, _)) ==
  LET w == Words(p, weigh) IN Sums(w)[Len(w)]

OnesComplement(n) == IF n = 0 THEN 0 ELSE ((n - 1) % (2^16 - 1)) + 1

SwapBytes(w) == ((w % 256) * 256) + (w \div 256)

\* The loops, which fold the carry in as they go, compute the complement of the
\* one's complement sum.
IsOnesComplement ==
  stage = "done" => sum = 2^16 - 1 - OnesComplement(Total(packet, Word))

\* Summing in host order and storing without conversion is right: the result is
\* the byte-swapped checksum of the words in network order (ip.c:28 says that a
\* conversion is possible but not necessary).
ByteOrderIrrelevant ==
  stage = "done" =>
    SwapBytes(sum) = 2^16 - 1 - OnesComplement(Total(packet, NetworkWord))
=============================================================================
