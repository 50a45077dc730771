------------------------------ MODULE TimedMap ------------------------------
(***************************************************************************)
(* The generic key/value container of net-lab-2022-master/src/map.c, as    *)
(* operators on a record.  It backs the ARP table, the ARP hold queue, the *)
(* UDP port table and the protocol table.                                  *)
(*                                                                         *)
(* A slot is a key, a value and the time() at which it was last written;   *)
(* a stamp of 0 is an empty slot.  Nothing ever sweeps the slots: an entry *)
(* that is past its timeout is merely skipped by the readers.              *)
(*                                                                         *)
(* Times are passed in: the code calls time(NULL) inside each operation.   *)
(* The names ending in _bug are slips a maintainer could make; nothing in  *)
(* the specification uses them.                                            *)
(***************************************************************************)
EXTENDS Integers, FiniteSets

NULL == -1     \* position returned for "no such entry"

Positions(m) == 0 .. m.max_size - 1

\* The lowest position of a non-empty set: the loops run upwards and stop at
\* the first match.
First(S) == CHOOSE i \in S : \A j \in S : i <= j

\* fits is MAP_MAX_LEN / (key_len + value_len + sizeof(time_t)); blank is the
\* all-zero slot that memset leaves behind.
map_init(fits, requested, timeout, blank) ==
  LET capacity == IF requested = 0 \/ requested > fits THEN fits ELSE requested
  IN  [size |-> 0, max_size |-> capacity, timeout |-> timeout,
       entry |-> [i \in 0 .. capacity - 1 |-> blank]]

map_entry_valid(m, i, t) ==
  /\ m.entry[i].time # 0
  /\ m.timeout = 0 \/ m.entry[i].time + m.timeout >= t

Valid(m, t) == {i \in Positions(m) : map_entry_valid(m, i, t)}
Invalid(m, t) == Positions(m) \ Valid(m, t)
Occupied(m) == {i \in Positions(m) : m.entry[i].time # 0}

Matches(m, key, t) == {i \in Valid(m, t) : m.entry[i].key = key}

map_get(m, key, t) ==
  IF Matches(m, key, t) = {} THEN NULL ELSE First(Matches(m, key, t))

Write(m, i, key, value, t) ==
  [m EXCEPT !.entry[i] = [key |-> key, value |-> value, time |-> t]]

\* A set that never looks for the key first.
map_set_blind_bug(m, key, value, t, s) ==
  IF m.size = m.max_size \/ Invalid(m, s) = {} THEN m
  ELSE [Write(m, First(Invalid(m, s)), key, value, s) EXCEPT !.size = @ + 1]

\* A set that forgets size++.
map_set_uncounted_bug(m, key, value, t, s) ==
  LET old == map_get(m, key, t) IN
  IF old # NULL THEN Write(m, old, key, value, s)
  ELSE IF m.size = m.max_size \/ Invalid(m, s) = {} THEN m
  ELSE Write(m, First(Invalid(m, s)), key, value, s)

\* A set whose refresh keeps the old stamp.
map_set_unstamped_bug(m, key, value, t, s) ==
  LET old == map_get(m, key, t) IN
  IF old # NULL THEN Write(m, old, key, value, m.entry[old].time)
  ELSE IF m.size = m.max_size \/ Invalid(m, s) = {} THEN m
  ELSE [Write(m, First(Invalid(m, s)), key, value, s) EXCEPT !.size = @ + 1]

\* A set that counts a refresh as an insertion.
map_set_recount_bug(m, key, value, t, s) ==
  LET old == map_get(m, key, t) IN
  IF m.size = m.max_size THEN m
  ELSE IF old # NULL
       THEN [Write(m, old, key, value, s) EXCEPT !.size = @ + 1]
  ELSE IF Invalid(m, s) = {} THEN m
  ELSE [Write(m, First(Invalid(m, s)), key, value, s) EXCEPT !.size = @ + 1]

\* A set whose capacity test is off by one.
map_set_overfull_bug(m, key, value, t, s) ==
  LET old == map_get(m, key, t) IN
  IF old # NULL THEN Write(m, old, key, value, s)
  ELSE IF m.size > m.max_size \/ Invalid(m, s) = {} THEN m
  ELSE [Write(m, First(Invalid(m, s)), key, value, s) EXCEPT !.size = @ + 1]

\* The lookup reads the clock (t) before the scan and the stamp do (s): an
\* entry found valid at t is refreshed even if it expires before s.
map_set(m, key, value, t, s) ==
  LET old == map_get(m, key, t) IN
  IF old # NULL THEN Write(m, old, key, value, s)
  ELSE IF m.size = m.max_size \/ Invalid(m, s) = {} THEN m
  ELSE [Write(m, First(Invalid(m, s)), key, value, s) EXCEPT !.size = @ + 1]

map_set_return(m, key, t, s) ==
  IF \/ map_get(m, key, t) # NULL
     \/ m.size # m.max_size /\ Invalid(m, s) # {}
  THEN 0 ELSE -1

\* A delete that gives the budget back whether or not the key was found.
map_delete_unchecked_bug(m, key, t) ==
  LET old == map_get(m, key, t) IN
  IF old = NULL THEN [m EXCEPT !.size = @ - 1]
  ELSE [m EXCEPT !.entry[old].time = 0, !.size = @ - 1]

\* A delete that leaves the stamp in place.
map_delete_stamped_bug(m, key, t) ==
  IF map_get(m, key, t) = NULL THEN m ELSE [m EXCEPT !.size = @ - 1]

map_delete(m, key, t) ==
  LET old == map_get(m, key, t) IN
  IF old = NULL THEN m
  ELSE [m EXCEPT !.entry[old].time = 0, !.size = @ - 1]

\* The entries the handler is called on.
map_foreach(m, t) == {m.entry[i] : i \in Valid(m, t)}

map_size(m) == m.size
=============================================================================
