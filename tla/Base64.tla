------------------------------- MODULE Base64 -------------------------------
(***************************************************************************)
(* The base64 coder of maillab: encode_file (base64_utils.c) feeds a file  *)
(* in blocks to base64_encode_block (cencode.c), a coroutine that may be   *)
(* suspended after any byte of a group of three.  cdecode.c, its inverse,  *)
(* is used here to read the result back in blocks of another size.         *)
(*                                                                         *)
(* The 64 characters of the alphabet are named by their values.            *)
(***************************************************************************)
EXTENDS Integers, Sequences, SequencesExt

CONSTANTS Files,            \* contents to encode
          SIZE,             \* bytes per fread
          CHARS_PER_LINE,
          MAX_STRING,       \* bytes encode_str accepts: 3000
          DecodeSize        \* characters per call of base64_decode_block

ASSUME CodeAssumption ==
  /\ Files \subseteq Seq(0 .. 255)
  /\ SIZE \in Nat \ {0} /\ DecodeSize \in Nat \ {0}
  /\ CHARS_PER_LINE \in Nat \ {0} /\ CHARS_PER_LINE % 4 = 0
  /\ MAX_STRING \in Nat

PAD == 64       \* '=', which decodes to a negative value
NEWLINE == 65   \* '\n', likewise

VARIABLES file,      \* what is being encoded
          unread,    \* the rest of it, not read by fread yet
          es,        \* base64_encodestate
          encoded,   \* the output file
          coding,    \* encode_file: "encode", "decode", "done"
                     \* encode_str: "string", "ended" or "refused"
          undecoded, ds,   \* likewise for the way back
          decoded

codeVars == <<file, unread, es, encoded, coding, undecoded, ds, decoded>>

base64_init_encodestate == [step |-> "A", result |-> 0, stepcount |-> 0]
base64_init_decodestate == [step |-> "a", plainchar |-> 0]

base64_encode_value(value) == IF value > 63 THEN PAD ELSE value

\* One byte of input: where the coroutine continues, and what it has written.
Emit(c, code) == [c EXCEPT !.code = @ \o code]

StepA(c, byte) ==
  Emit([c EXCEPT !.step = "B", !.result = (byte % 4) * 16],
       <<base64_encode_value(byte \div 4)>>)

StepB(c, byte) ==
  Emit([c EXCEPT !.step = "C", !.result = (byte % 16) * 4],
       <<base64_encode_value(c.result + byte \div 16)>>)

\* The third byte completes a group of four characters, and perhaps a line.
StepC(c, byte) ==
  LET full == c.stepcount + 1 = CHARS_PER_LINE \div 4
      code == <<base64_encode_value(c.result + byte \div 64),
                base64_encode_value(byte % 64)>>
  IN  Emit([c EXCEPT !.step = "A", !.result = byte % 64,
                     !.stepcount = IF full THEN 0 ELSE @ + 1],
           IF full THEN Append(code, NEWLINE) ELSE code)

EncodeByte(c, byte) == CASE c.step = "A" -> StepA(c, byte)
                         [] c.step = "B" -> StepB(c, byte)
                         [] c.step = "C" -> StepC(c, byte)

State(c) == [step |-> c.step, result |-> c.result, stepcount |-> c.stepcount]

\* A block encoder that starts every block in step A.
base64_encode_block_restart_bug(plaintext, s) ==
  LET c == FoldLeft(EncodeByte,
                    [step |-> "A", result |-> 0, stepcount |-> s.stepcount,
                     code |-> <<>>], plaintext)
  IN  [code |-> c.code, state |-> State(c)]

base64_encode_block(plaintext, s) ==
  LET c == FoldLeft(EncodeByte,
                    [step |-> s.step, result |-> s.result,
                     stepcount |-> s.stepcount, code |-> <<>>], plaintext)
  IN  [code |-> c.code, state |-> State(c)]

\* An end of line of two characters, as the protocols want it.
base64_encode_blockend_crlf_bug(s) ==
  (CASE s.step = "A" -> <<>>
     [] s.step = "B" -> <<base64_encode_value(s.result), PAD, PAD>>
     [] s.step = "C" -> <<base64_encode_value(s.result), PAD>>)
  \o <<NEWLINE, NEWLINE>>

base64_encode_blockend(s) ==
  (CASE s.step = "A" -> <<>>
     [] s.step = "B" -> <<base64_encode_value(s.result), PAD, PAD>>
     [] s.step = "C" -> <<base64_encode_value(s.result), PAD>>)
  \o <<NEWLINE>>

\* One character of code; those that are not of the alphabet are skipped.
DecodeChar(d, c) ==
  IF c > 63 THEN d
  ELSE CASE d.step = "a" -> [d EXCEPT !.step = "b", !.plainchar = c * 4]
         [] d.step = "b" -> [d EXCEPT !.step = "c", !.plainchar = (c % 16) * 16,
                               !.plain = Append(@, d.plainchar + c \div 16)]
         [] d.step = "c" -> [d EXCEPT !.step = "d", !.plainchar = (c % 4) * 64,
                               !.plain = Append(@, d.plainchar + c \div 4)]
         [] d.step = "d" -> [d EXCEPT !.step = "a", !.plainchar = 0,
                               !.plain = Append(@, d.plainchar + c)]

\* A block decoder that forgets the bits left over from the block before.
base64_decode_block_fresh_bug(code, s) ==
  LET d == FoldLeft(DecodeChar,
                    [step |-> s.step, plainchar |-> 0, plain |-> <<>>], code)
  IN  [plain |-> d.plain, state |-> [step |-> d.step, plainchar |-> d.plainchar]]

base64_decode_block(code, s) ==
  LET d == FoldLeft(DecodeChar,
                    [step |-> s.step, plainchar |-> s.plainchar,
                     plain |-> <<>>], code)
  IN  [plain |-> d.plain, state |-> [step |-> d.step, plainchar |-> d.plainchar]]

-----------------------------------------------------------------------------
CodeInit ==
  /\ file \in Files
  /\ unread = file
  /\ es = base64_init_encodestate
  /\ encoded = <<>>
  /\ coding \in {"encode", "string"}
  /\ undecoded = <<>>
  /\ ds = base64_init_decodestate
  /\ decoded = <<>>

Block(s, n) == SubSeq(s, 1, IF Len(s) < n THEN Len(s) ELSE n)
After(s, n) == SubSeq(s, Len(Block(s, n)) + 1, Len(s))

\* One round of the loop of encode_file.
EncodeBlock ==
  /\ coding = "encode" /\ unread # <<>>
  /\ LET r == base64_encode_block(Block(unread, SIZE), es)
     IN  /\ encoded' = encoded \o r.code
         /\ es' = r.state
  /\ unread' = After(unread, SIZE)
  /\ UNCHANGED <<file, coding, undecoded, ds, decoded>>

\* fread returns 0; what was written is read back by its user.
EncodeEnd ==
  /\ coding = "encode" /\ unread = <<>>
  /\ encoded' = encoded \o base64_encode_blockend(es)
  /\ coding' = "decode"
  /\ undecoded' = encoded'
  /\ UNCHANGED <<file, unread, es, ds, decoded>>

\* encode_str returns NULL for a longer string, and nothing is encoded.
EncodeStrTooLong ==
  /\ coding = "string" /\ Len(file) > MAX_STRING
  /\ coding' = "refused"
  /\ UNCHANGED <<file, unread, es, encoded, undecoded, ds, decoded>>

\* encode_str: one block and the end, into a buffer of twice the input's length.
EncodeStr ==
  /\ coding = "string" /\ Len(file) <= MAX_STRING
  /\ LET r == base64_encode_block(file, es)
     IN  /\ encoded' = r.code \o base64_encode_blockend(r.state)
         /\ es' = r.state
  /\ coding' = "ended"
  /\ unread' = <<>>
  /\ UNCHANGED <<file, undecoded, ds, decoded>>

DecodeBlock ==
  /\ coding = "decode" /\ undecoded # <<>>
  /\ LET r == base64_decode_block(Block(undecoded, DecodeSize), ds)
     IN  /\ decoded' = decoded \o r.plain
         /\ ds' = r.state
  /\ undecoded' = After(undecoded, DecodeSize)
  /\ coding' = IF undecoded' = <<>> THEN "done" ELSE coding
  /\ UNCHANGED <<file, unread, es, encoded>>

CodeNext == \/ EncodeBlock
            \/ EncodeEnd
            \/ DecodeBlock
            \/ EncodeStr
            \/ EncodeStrTooLong

CodeSpec == CodeInit /\ [][CodeNext]_codeVars

-----------------------------------------------------------------------------
\* Base64 by its definition: three bytes are a number of 24 bits, missing ones 0,
\* its four digits to the base of 64 are characters; those without a bit of the
\* file are '='.
Octet(f, i) == IF i <= Len(f) THEN f[i] ELSE 0

Group(f, g) ==
  65536 * Octet(f, 3 * g + 1) + 256 * Octet(f, 3 * g + 2) + Octet(f, 3 * g + 3)

Sextet(f, k) ==
  IF 6 * k >= 8 * Len(f) THEN PAD
  ELSE (Group(f, k \div 4) \div 64^(3 - (k % 4))) % 64

\* Every line that is full of complete groups ends, and the last one does: line
\* ends take one place in CHARS_PER_LINE + 1.
LineEnds(p) == p \div (CHARS_PER_LINE + 1)

TextLen(f) ==
  4 * ((Len(f) + 2) \div 3) + (Len(f) \div 3) \div (CHARS_PER_LINE \div 4) + 1

Reference(f) ==
  [p \in 1 .. TextLen(f) |->
     IF p = TextLen(f) \/ p % (CHARS_PER_LINE + 1) = 0 THEN NEWLINE
     ELSE Sextet(f, p - 1 - LineEnds(p - 1))]

\* However fread cuts the file, the output is the file's base64 text: the bits
\* and the column carried from one block to the next are right (cencode.c).
EncodesFile ==
  coding \in {"decode", "done", "ended"} => encoded = Reference(file)

\* base64_utils.c:22 calls the buffer of encode_str large enough for the text and
\* the byte that ends it.
OutputLargeEnough == coding = "ended" => Len(encoded) + 1 <= 2 * Len(file)

\* Of the strings that encode_str accepts it is too small for those of 0, 1, 2 and
\* 4 bytes, and large enough for all others: for 3, 5 and 7 to the byte, line ends
\* included (base64_utils.c:23, 42-51).
StringFits ==
  coding = "ended" =>
    (Len(encoded) + 1 <= 2 * Len(file) <=> Len(file) \notin {0, 1, 2, 4})

\* cdecode.c, suspended at any other place, gives the file back.
RoundTrip == coding = "done" => decoded = file
=============================================================================
