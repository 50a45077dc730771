------------------------------ MODULE MapStore ------------------------------
(***************************************************************************)
(* One map of map.c driven by its callers, with the clock moving between   *)
(* and inside the calls.                                                   *)
(***************************************************************************)
EXTENDS TimedMap

CONSTANTS Keys, Values,
          Fits,        \* slots MAP_MAX_LEN has room for
          Requested,   \* the max_size passed to map_init
          Timeouts,    \* the timeouts passed to map_init, one per instance
          ZeroKey, ZeroValue,   \* what memset leaves in an unused slot
          MaxTime      \* bound on the clock

ASSUME FitsAssumption == Fits \in Nat \ {0}
ASSUME RequestedAssumption == Requested \in Nat
ASSUME TimeoutsAssumption == Timeouts \subseteq Nat
ASSUME MaxTimeAssumption == MaxTime \in Nat \ {0}

VARIABLES map,   \* the map_t
          now,   \* what time(NULL) returns
          ret    \* the last call and what it gave back

vars == <<map, now, ret>>

Times == 1 .. MaxTime
Blank == [key |-> ZeroKey, value |-> ZeroValue, time |-> 0]
Entry == [key : Keys \cup {ZeroKey}, value : Values \cup {ZeroValue},
          time : 0 .. MaxTime]
Capacity == IF Requested = 0 \/ Requested > Fits THEN Fits ELSE Requested
Maps == [size : 0 .. Capacity, max_size : {Capacity}, timeout : Timeouts,
         entry : [0 .. Capacity - 1 -> Entry]]
Call(op, out) == [op |-> op, out |-> out]

Init == /\ \E timeout \in Timeouts :
             map = map_init(Fits, Requested, timeout, Blank)
        /\ now = 1
        /\ ret = Call("none", {})

Get(key) ==
  LET i == map_get(map, key, now) IN
  /\ ret' = Call("get", IF i = NULL THEN {} ELSE {map.entry[i].value})
  /\ UNCHANGED <<map, now>>

\* time(NULL) is read for the lookup and again for the stamp.
SetAt(key, value, s) ==
  /\ map' = map_set(map, key, value, now, s)
  /\ ret' = Call("set", {map_set_return(map, key, now, s)})
  /\ now' = s

Set(key, value) == \E s \in now .. MaxTime : SetAt(key, value, s)

Delete(key) ==
  /\ map' = map_delete(map, key, now)
  /\ ret' = Call("delete", {})
  /\ UNCHANGED now

Foreach == /\ ret' = Call("foreach", map_foreach(map, now))
           /\ UNCHANGED <<map, now>>

Size == /\ ret' = Call("size", {map_size(map)})
        /\ UNCHANGED <<map, now>>

Tick == /\ now < MaxTime
        /\ now' = now + 1
        /\ ret' = Call("none", {})
        /\ UNCHANGED map

\* The wall clock is adjusted, possibly backwards.
SetClock == /\ now' \in Times
            /\ ret' = Call("none", {})
            /\ UNCHANGED map

Next == \/ \E key \in Keys : Get(key) \/ Delete(key)
        \/ \E key \in Keys, value \in Values : Set(key, value)
        \/ Foreach
        \/ Size
        \/ Tick

Spec == Init /\ [][Next]_vars

\* The same calls under a clock that may jump: time(NULL) is not monotone.
NextAnyClock ==
  \/ \E key \in Keys : Get(key) \/ Delete(key)
  \/ \E key \in Keys, value \in Values, s \in Times : SetAt(key, value, s)
  \/ Foreach
  \/ Size
  \/ SetClock

SpecAnyClock == Init /\ [][NextAnyClock]_vars

-----------------------------------------------------------------------------
\* The map and the clock keep their types; in particular size, a size_t, is
\* never decremented below 0 by map_delete nor driven past max_size.
TypeOK ==
  /\ now \in Times
  /\ map \in Maps

\* No key has two valid entries, so map_get's first match is the only one and
\* a delete cannot uncover an older value.  map_set's refresh in place, the
\* lazy expiry and the reuse of expired slots all have to cooperate for this.
UniqueKeys ==
  \A i, j \in Valid(map, now) : map.entry[i].key = map.entry[j].key => i = j

\* Every stamped slot was counted: size is at least the number of slots whose
\* stamp is not 0.  This is what keeps map_delete's size-- from wrapping.
SizeCoversOccupied == Cardinality(Occupied(map)) <= map.size

\* When map_set gets past "size == max_size" the scan finds a slot, so its
\* final "return -1" (map.c:119) is never reached, whatever the clock does.
RoomBehindSizeCheck == map.size # map.max_size => Invalid(map, now) # {}

\* In a map that never times out, map_size really is the number of entries.
SizeIsLiveCount ==
  map.timeout = 0 => map.size = Cardinality(Valid(map, now))

\* Once size has reached max_size and every entry has expired, no call changes
\* the map again: expiry never gives the budget back (map.c:104 and map.c:134).
FullOfExpiredIsForever ==
  [][map.size = map.max_size /\ Valid(map, now) = {} => map' = map]_vars

-----------------------------------------------------------------------------
\* What the callers can rely on: the abstract dictionary.
LiveEntries ==
  [key \in {map.entry[i].key : i \in Valid(map, now)} |->
     LET e == map.entry[map_get(map, key, now)]
     IN  [value |-> e.value, time |-> e.time]]

Dict == INSTANCE Dictionary WITH dict <- LiveEntries, spent <- map.size,
                                 timeout <- map.timeout
DictionarySpec == Dict!Spec
=============================================================================
