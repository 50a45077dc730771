----------------------------- MODULE PacketBuf ------------------------------
(***************************************************************************)
(* The packet buffer of net-lab-2022-master/src/buf.c: a window of len     *)
(* bytes starting at offset data of a fixed array of BUF_MAX_LEN bytes.    *)
(* Layers grow and shrink the window; the bytes outside it stay where they *)
(* are.                                                                    *)
(*                                                                         *)
(* The bytes themselves are abstracted to where they come from: src names  *)
(* the packet last copied into the array and org is the offset of that     *)
(* packet's byte 0, so that the window holds src from byte data - org on   *)
(* (headers are the negative bytes, padding follows the last one).  Every  *)
(* operation that fails returns -1 and leaves the buffer alone; no caller  *)
(* in src/ looks at the result.                                            *)
(***************************************************************************)
EXTENDS Integers

CONSTANT BUF_MAX_LEN

ASSUME BufMaxLenAssumption == BUF_MAX_LEN \in Nat /\ BUF_MAX_LEN > 1

\* Where buf_init ends its window, leaving the rest for padding.
Half == BUF_MAX_LEN \div 2

\* A buf_t with static storage: all zero.
ZeroBuf(nothing) == [data |-> 0, len |-> 0, org |-> 0, src |-> nothing]

buf_init(b, len) ==
  IF len >= Half THEN b ELSE [b EXCEPT !.len = len, !.data = Half - len]

buf_add_header(b, len) ==
  IF b.data - len < 0 THEN b
  ELSE [b EXCEPT !.len = @ + len, !.data = @ - len]

buf_remove_header(b, len) ==
  IF b.len < len THEN b
  ELSE [b EXCEPT !.len = @ - len, !.data = @ + len]

buf_add_padding(b, len) ==
  IF b.data + b.len + len >= BUF_MAX_LEN THEN b
  ELSE [b EXCEPT !.len = @ + len]

buf_remove_padding(b, len) ==
  IF b.len < len THEN b ELSE [b EXCEPT !.len = @ - len]

\* memcpy(b->data, bytes of src from first on, b->len)
Fill(b, src, first) == [b EXCEPT !.src = src, !.org = b.data - first]

\* A copy that moves the window's bytes to the front of the array.
buf_copy_front_bug(dst, s) ==
  [buf_init(dst, s.len) EXCEPT !.src = s.src, !.org = s.org - s.data]

\* The constructor arp_buf copies packets with: the window is recomputed from
\* the length, the array is copied byte for byte.
buf_copy(dst, s) ==
  [buf_init(dst, s.len) EXCEPT !.src = s.src, !.org = s.org]

\* What the window shows: len bytes of src, starting with byte first.
Shown(b) == [src |-> b.src, first |-> b.data - b.org, len |-> b.len]

EndsAtHalf(b) == b.data + b.len = Half
InArray(b) == 0 <= b.data /\ b.data + b.len <= BUF_MAX_LEN
=============================================================================
