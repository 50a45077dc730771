-------------------------- MODULE MapStore_proofs --------------------------
(***************************************************************************)
(* Proofs about map.c for every set of keys and values, every capacity,    *)
(* every timeout and every bound on the clock.                             *)
(***************************************************************************)
EXTENDS MapStore, TimedMap_proofs

SlotKeys == Keys \cup {ZeroKey}
SlotValues == Values \cup {ZeroValue}

\* The maps of MapStore, as the lemmas of TimedMap_proofs have them.
LEMMA Shape ==
  /\ Bounds(Capacity, Timeouts, MaxTime)
  /\ Maps = TimedMaps(Capacity, Timeouts, SlotKeys, SlotValues, MaxTime)
<1>1. Capacity \in Nat \ {0}
  BY FitsAssumption, RequestedAssumption DEF Capacity
<1>2. Bounds(Capacity, Timeouts, MaxTime)
  BY <1>1, TimeoutsAssumption, MaxTimeAssumption DEF Bounds
<1>3. Maps = TimedMaps(Capacity, Timeouts, SlotKeys, SlotValues, MaxTime)
  BY DEF Maps, Entry, TimedMaps, Slots, SlotKeys, SlotValues
<1> QED BY <1>2, <1>3

-----------------------------------------------------------------------------
\* The invariant that needs no assumption about the clock.
CounterInv == TypeOK /\ CounterOK(map)

LEMMA CounterInvInit ==
  Init => CounterInv /\ \A t : Valid(map, t) = {}
<1> SUFFICES ASSUME Init PROVE CounterInv /\ \A t : Valid(map, t) = {}
  OBVIOUS
<1>1. PICK timeout \in Timeouts :
        map = map_init(Fits, Requested, timeout,
                       [key |-> ZeroKey, value |-> ZeroValue, time |-> 0])
  BY DEF Init, Blank
<1>2. now \in Times
  BY MaxTimeAssumption DEF Init, Times
<1>3. CounterOK(map) /\ \A t : Valid(map, t) = {}
  BY <1>1, FitsAssumption, RequestedAssumption, CounterInitially
<1>4. ZeroKey \in SlotKeys /\ ZeroValue \in SlotValues
  BY DEF SlotKeys, SlotValues
<1>5. map \in TimedMaps(Capacity, Timeouts, SlotKeys, SlotValues, MaxTime)
  <2>1. Capacity = IF Requested = 0 \/ Requested > Fits THEN Fits
                   ELSE Requested
    BY DEF Capacity
  <2> QED BY <1>1, <1>4, <2>1, Shape, FitsAssumption, RequestedAssumption,
             InitialShape
<1> QED BY <1>2, <1>3, <1>5, Shape DEF CounterInv, TypeOK

LEMMA CounterInvNextAnyClock ==
  CounterInv /\ [NextAnyClock]_vars => CounterInv'
<1> SUFFICES ASSUME CounterInv, [NextAnyClock]_vars PROVE CounterInv'
  OBVIOUS
<1>0. /\ map \in TimedMaps(Capacity, Timeouts, SlotKeys, SlotValues, MaxTime)
      /\ CounterOK(map) /\ now \in Times /\ now \in Nat
  <2>1. now \in Times /\ now \in Nat
    BY MaxTimeAssumption DEF CounterInv, TypeOK, Times
  <2> QED BY <2>1, Shape DEF CounterInv, TypeOK
<1>1. CASE UNCHANGED <<map, now>>
  BY <1>1 DEF CounterInv, TypeOK
<1>2. ASSUME NEW key \in Keys, Delete(key) PROVE CounterInv'
  <2>1. map' \in Maps /\ CounterOK(map')
    BY <1>0, <1>2, Shape, CounterAfterDelete DEF Delete
  <2> QED BY <1>0, <1>2, <2>1 DEF CounterInv, TypeOK, Delete
<1>3. ASSUME NEW key \in Keys, NEW value \in Values, NEW s \in Times,
             SetAt(key, value, s)
      PROVE  CounterInv'
  <2>1. key \in SlotKeys /\ value \in SlotValues /\ s \in 1 .. MaxTime
    BY DEF SlotKeys, SlotValues, Times
  <2>2. map' \in Maps /\ CounterOK(map')
    BY <1>0, <1>3, <2>1, Shape, CounterAfterSet DEF SetAt
  <2> QED BY <1>3, <2>2 DEF CounterInv, TypeOK, SetAt
<1>4. CASE SetClock
  BY <1>4 DEF CounterInv, TypeOK, SetClock
<1> QED BY <1>1, <1>2, <1>3, <1>4
        DEF NextAnyClock, vars, Get, Foreach, Size

\* A step under the monotone clock is a step under the clock that may jump.
LEMMA MonotoneIsAnyClock ==
  TypeOK /\ [Next]_vars => [NextAnyClock]_vars
<1> SUFFICES ASSUME TypeOK, Next PROVE NextAnyClock
  BY DEF vars
<1>1. now \in Times
  BY DEF TypeOK
<1>2. ASSUME NEW key \in Keys, NEW value \in Values, Set(key, value)
      PROVE  NextAnyClock
  <2>1. PICK s \in now .. MaxTime : SetAt(key, value, s)
    BY <1>2 DEF Set
  <2>2. s \in Times
    BY <1>1, MaxTimeAssumption DEF Times
  <2> QED BY <2>1, <2>2 DEF NextAnyClock
<1>3. CASE Tick
  <2>1. now' \in Times
    BY <1>1, <1>3, MaxTimeAssumption DEF Tick, Times
  <2> QED BY <1>3, <2>1 DEF Tick, SetClock, NextAnyClock
<1> QED BY <1>2, <1>3 DEF Next, NextAnyClock

LEMMA CounterInvNext == CounterInv /\ [Next]_vars => CounterInv'
BY CounterInvNextAnyClock, MonotoneIsAnyClock DEF CounterInv

THEOREM CounterInvariant == Spec => []CounterInv
BY CounterInvInit, CounterInvNext, PTL DEF Spec

THEOREM CounterInvariantAnyClock == SpecAnyClock => []CounterInv
BY CounterInvInit, CounterInvNextAnyClock, PTL DEF SpecAnyClock

\* The map keeps its shape: size stays between 0 and max_size, so the size_t
\* never wraps, even when the wall clock jumps.
THEOREM TypeCorrect == SpecAnyClock => []TypeOK
<1>1. CounterInv => TypeOK
  BY DEF CounterInv
<1> QED BY <1>1, CounterInvariantAnyClock, PTL

\* size never falls below the number of stamped slots, whatever the clock does.
THEOREM SizeCovers == SpecAnyClock => []SizeCoversOccupied
<1>1. CounterInv => SizeCoversOccupied
  BY DEF CounterInv, CounterOK, SizeCoversOccupied
<1> QED BY <1>1, CounterInvariantAnyClock, PTL

\* map.c:119 is unreachable: while size is below max_size some slot is free.
THEOREM RoomExists == SpecAnyClock => []RoomBehindSizeCheck
<1>1. CounterInv => RoomBehindSizeCheck
  <2> SUFFICES ASSUME CounterInv, map.size # map.max_size,
                      Invalid(map, now) = {}
               PROVE  FALSE
    BY DEF RoomBehindSizeCheck
  <2>1. /\ map \in TimedMaps(Capacity, Timeouts, SlotKeys, SlotValues, MaxTime)
        /\ CounterOK(map)
    BY Shape DEF CounterInv, TypeOK
  <2> QED BY <2>1, Shape, RoomBelowMaxSize
<1> QED BY <1>1, CounterInvariantAnyClock, PTL

\* In a map without a timeout map_size is exact.
THEOREM SizeIsExactWithoutTimeout == Spec => []SizeIsLiveCount
<1>1. CounterInv => SizeIsLiveCount
  <2> SUFFICES ASSUME CounterInv, map.timeout = 0
               PROVE  map.size = Cardinality(Valid(map, now))
    BY DEF SizeIsLiveCount
  <2>1. Valid(map, now) = Occupied(map)
    BY DEF Valid, map_entry_valid, Occupied
  <2> QED BY <2>1 DEF CounterInv, CounterOK
<1> QED BY <1>1, CounterInvariant, PTL

-----------------------------------------------------------------------------
\* The invariant under the monotone clock.  The counter part supplies the
\* types; UniqueKeys itself is then inductive.
IInv == CounterInv /\ UniqueKeys

\* What the invariant gives to a step, in the terms of TimedMap_proofs.
LEMMA IInvGives ==
  ASSUME IInv
  PROVE  /\ map \in TimedMaps(Capacity, Timeouts, SlotKeys, SlotValues,
                              MaxTime)
         /\ CounterOK(map) /\ UniqueAt(map, now)
         /\ now \in 1 .. MaxTime /\ now \in Nat
<1>1. now \in 1 .. MaxTime /\ now \in Nat
  BY MaxTimeAssumption DEF IInv, CounterInv, TypeOK, Times
<1> QED BY <1>1, Shape DEF IInv, CounterInv, TypeOK, UniqueKeys, UniqueAt

LEMMA IInvInit == Init => IInv
BY CounterInvInit DEF IInv, UniqueKeys

LEMMA IInvNext == IInv /\ [Next]_vars => IInv'
<1> SUFFICES ASSUME IInv, [Next]_vars PROVE UniqueKeys'
  BY CounterInvNext DEF IInv
<1>0. /\ map \in TimedMaps(Capacity, Timeouts, SlotKeys, SlotValues, MaxTime)
      /\ CounterOK(map) /\ UniqueAt(map, now)
      /\ now \in 1 .. MaxTime /\ now \in Nat /\ MaxTime \in Nat
      /\ Bounds(Capacity, Timeouts, MaxTime)
  BY IInvGives, MaxTimeAssumption, Shape
<1>1. CASE UNCHANGED <<map, now>>
  BY <1>0, <1>1 DEF UniqueAt, UniqueKeys
<1>2. ASSUME NEW key \in Keys, Delete(key) PROVE UniqueKeys'
  <2>1. UniqueAt(map', now')
    BY <1>0, <1>2, UniqueAfterDelete DEF Delete
  <2> QED BY <2>1 DEF UniqueAt, UniqueKeys
<1>3. ASSUME NEW key \in Keys, NEW value \in Values, Set(key, value)
      PROVE  UniqueKeys'
  <2>1. PICK s \in now .. MaxTime : SetAt(key, value, s)
    BY <1>3 DEF Set
  <2>2. /\ s \in 1 .. MaxTime /\ now <= s
        /\ key \in SlotKeys /\ value \in SlotValues
    BY <1>0 DEF SlotKeys, SlotValues
  <2>3. UniqueAt(map', now')
    BY <1>0, <2>1, <2>2, UniqueAfterSet DEF SetAt
  <2> QED BY <2>3 DEF UniqueAt, UniqueKeys
<1>4. CASE Tick
  <2>1. now' \in Nat /\ now <= now' /\ map' = map
    BY <1>0, <1>4 DEF Tick
  <2>2. UniqueAt(map', now')
    BY <1>0, <2>1, UniqueLater
  <2> QED BY <2>2 DEF UniqueAt, UniqueKeys
<1> QED BY <1>1, <1>2, <1>3, <1>4 DEF Next, vars, Get, Foreach, Size

LEMMA IInvariant == Spec => []IInv
BY IInvInit, IInvNext, PTL DEF Spec

\* No key ever has two valid entries.
THEOREM UniqueKeysInvariant == Spec => []UniqueKeys
<1>1. IInv => UniqueKeys
  BY DEF IInv
<1> QED BY <1>1, IInvariant, PTL

-----------------------------------------------------------------------------
\* A map whose budget is spent on expired entries refuses every insertion and
\* ignores every delete for ever (map.c:104, map.c:131): no call changes it.
THEOREM SpentMapIsFrozen == Spec => FullOfExpiredIsForever
<1>1. CounterInv /\ [Next]_vars =>
        [map.size = map.max_size /\ Valid(map, now) = {} => map' = map]_vars
  <2> SUFFICES ASSUME CounterInv, Next,
                      map.size = map.max_size, Valid(map, now) = {}
               PROVE  map' = map
    OBVIOUS
  <2>1. ASSUME NEW key PROVE map_get(map, key, now) = NULL
    BY DEF map_get, Matches
  <2>2. ASSUME NEW key \in Keys, Delete(key) PROVE map' = map
    BY <2>1, <2>2 DEF Delete, map_delete
  <2>3. ASSUME NEW key \in Keys, NEW value \in Values, Set(key, value)
        PROVE  map' = map
    BY <2>1, <2>3 DEF Set, SetAt, map_set
  <2> QED BY <2>2, <2>3 DEF Next, Get, Foreach, Size, Tick
<1> QED BY <1>1, CounterInvariant, PTL DEF Spec, FullOfExpiredIsForever

-----------------------------------------------------------------------------
\* The refinement: LiveEntries at any map and time, and what is known of it when
\* keys are unique.
Live(m, t) ==
  [key \in {m.entry[i].key : i \in Valid(m, t)} |->
     LET e == m.entry[map_get(m, key, t)]
     IN  [value |-> e.value, time |-> e.time]]

Bound(e) == [value |-> e.value, time |-> e.time]

\* A dictionary d that has the keys of the valid entries of m, each bound to its
\* entry's value and stamp, is the one that m stands for.
Mirrors(d, m, t) ==
  /\ d = [key \in DOMAIN d |-> d[key]]
  /\ DOMAIN d = {m.entry[i].key : i \in Valid(m, t)}
  /\ \A i \in Valid(m, t) : d[m.entry[i].key] = Bound(m.entry[i])

LEMMA LiveMirrors ==
  ASSUME NEW m \in Maps, NEW t \in Nat, UniqueAt(m, t)
  PROVE  Mirrors(Live(m, t), m, t)
<1>1. ASSUME NEW i \in Valid(m, t)
      PROVE  map_get(m, m.entry[i].key, t) = i
  BY Shape, GetFindsTheMatch
<1> QED BY <1>1 DEF Live, Mirrors, Bound

LEMMA MirrorIsUnique ==
  ASSUME NEW m, NEW t, NEW d1, NEW d2, Mirrors(d1, m, t), Mirrors(d2, m, t)
  PROVE  d1 = d2
<1>1. ASSUME NEW key \in DOMAIN d1 PROVE d1[key] = d2[key]
  BY DEF Mirrors
<1>2. DOMAIN d1 = DOMAIN d2
  BY DEF Mirrors
<1> QED BY <1>1, <1>2 DEF Mirrors

LEMMA DomainOfMirror ==
  ASSUME NEW m \in Maps, NEW t, NEW d, Mirrors(d, m, t), NEW key
  PROVE  key \in DOMAIN d <=> Matches(m, key, t) # {}
BY DEF Mirrors, Matches

\* Time passes: what has expired is gone.
LEMMA FreshMirrors ==
  ASSUME NEW d, Mirrors(d, map, now), map \in Maps, now \in Nat,
         NEW s \in Nat, now <= s
  PROVE  Mirrors(Dict!Fresh(d, s), map, s)
<1> DEFINE f == Dict!Fresh(d, s)
<1>1. /\ f = [key \in DOMAIN f |-> f[key]]
      /\ DOMAIN f = {k \in DOMAIN d : \/ map.timeout = 0
                                      \/ d[k].time + map.timeout >= s}
      /\ \A k \in DOMAIN f : f[k] = d[k]
  BY DEF Dict!Fresh
<1> HIDE DEF f
<1>2. Valid(map, s) \subseteq Valid(map, now)
  BY Shape, ExpiryIsMonotone
<1>3. \A i \in Valid(map, now) :
        i \in Valid(map, s) <=> \/ map.timeout = 0
                                \/ d[map.entry[i].key].time + map.timeout >= s
  <2>1. ASSUME NEW i \in Valid(map, now)
        PROVE  d[map.entry[i].key].time = map.entry[i].time
    <3>1. d[map.entry[i].key] = Bound(map.entry[i])
      BY DEF Mirrors
    <3> QED BY <3>1 DEF Bound
  <2> QED BY <2>1 DEF Valid, map_entry_valid
<1>4. DOMAIN f = {map.entry[i].key : i \in Valid(map, s)}
  <2>1. ASSUME NEW k \in DOMAIN f
        PROVE  \E i \in Valid(map, s) : k = map.entry[i].key
    <3>1. PICK i \in Valid(map, now) : k = map.entry[i].key
      BY <1>1 DEF Mirrors
    <3> QED BY <1>1, <1>3, <3>1
  <2>2. ASSUME NEW i \in Valid(map, s) PROVE map.entry[i].key \in DOMAIN f
    <3>1. map.entry[i].key \in DOMAIN d
      BY <1>2 DEF Mirrors
    <3> QED BY <1>1, <1>2, <1>3, <3>1
  <2> QED BY <2>1, <2>2
<1>5. \A i \in Valid(map, s) : f[map.entry[i].key] = Bound(map.entry[i])
  BY <1>1, <1>2, <1>4 DEF Mirrors
<1> QED BY <1>1, <1>4, <1>5 DEF Mirrors, f

\* A value is stored: the key is bound, and no other entry had it.
LEMMA BindMirrors ==
  ASSUME NEW m \in Maps, NEW m1, NEW i, NEW key, NEW value, NEW s,
         NEW d, Mirrors(d, m, s),
         Stores(m, m1, i, key, value, s),
         Valid(m1, s) = Valid(m, s) \cup {i},
         \A j \in Valid(m, s) : m.entry[j].key = key => j = i,
         i \in Valid(m, s) => m.entry[i].key = key
  PROVE  Mirrors(Dict!Bind(d, key, [value |-> value, time |-> s]), m1, s)
<1> DEFINE e == [value |-> value, time |-> s]
           b == Dict!Bind(d, key, e)
<1>1. /\ b = [k \in DOMAIN b |-> b[k]]
      /\ DOMAIN b = DOMAIN d \cup {key}
      /\ b[key] = e
      /\ \A k \in DOMAIN d : k # key => b[k] = d[k]
  BY DEF Dict!Bind
<1>2. m1.entry[i].key = key /\ Bound(m1.entry[i]) = e
  BY DEF Stores, Bound
<1> HIDE DEF b, e
<1>3. \A j \in Valid(m1, s) :
        j # i => j \in Valid(m, s) /\ m1.entry[j] = m.entry[j]
  BY DEF Stores, Valid
<1>4. DOMAIN b = {m1.entry[j].key : j \in Valid(m1, s)}
  <2>1. ASSUME NEW j \in Valid(m, s)
        PROVE  \E k \in Valid(m1, s) : m.entry[j].key = m1.entry[k].key
    BY <1>2, <1>3
  <2> QED BY <1>1, <1>2, <1>3, <2>1 DEF Mirrors
<1>5. ASSUME NEW j \in Valid(m1, s)
      PROVE  b[m1.entry[j].key] = Bound(m1.entry[j])
  BY <1>1, <1>2, <1>3 DEF Mirrors
<1> QED BY <1>1, <1>4, <1>5 DEF Mirrors, b, e

LEMMA UnbindMirrors ==
  ASSUME NEW m \in Maps, NEW m1, NEW i \in Valid(m, now), NEW key,
         m.entry[i].key = key, UniqueAt(m, now),
         NEW d, Mirrors(d, m, now),
         Clears(m, m1, i), Valid(m1, now) = Valid(m, now) \ {i}
  PROVE  Mirrors([k \in DOMAIN d \ {key} |-> d[k]], m1, now)
<1> DEFINE b == [k \in DOMAIN d \ {key} |-> d[k]]
<1>1. /\ b = [k \in DOMAIN b |-> b[k]]
      /\ DOMAIN b = DOMAIN d \ {key}
      /\ \A k \in DOMAIN d : k # key => b[k] = d[k]
  OBVIOUS
<1> HIDE DEF b
<1>2. \A j \in Valid(m1, now) :
        /\ j \in Valid(m, now) /\ m1.entry[j] = m.entry[j]
        /\ m.entry[j].key # key
  BY DEF Clears, Valid, UniqueAt
<1>3. DOMAIN b = {m1.entry[j].key : j \in Valid(m1, now)}
  <2>1. ASSUME NEW k \in DOMAIN b
        PROVE  \E j \in Valid(m1, now) : k = m1.entry[j].key
    <3>1. PICK j \in Valid(m, now) : k = m.entry[j].key
      BY <1>1 DEF Mirrors
    <3>2. j \in Valid(m1, now)
      BY <1>1, <3>1
    <3> QED BY <1>2, <3>1, <3>2
  <2>2. ASSUME NEW j \in Valid(m1, now) PROVE m1.entry[j].key \in DOMAIN b
    BY <1>1, <1>2 DEF Mirrors
  <2> QED BY <2>1, <2>2
<1>4. ASSUME NEW j \in Valid(m1, now)
      PROVE  b[m1.entry[j].key] = Bound(m1.entry[j])
  BY <1>1, <1>2 DEF Mirrors
<1> QED BY <1>1, <1>3, <1>4 DEF Mirrors, b

-----------------------------------------------------------------------------
\* Every operation, as the callers see it.
LEMMA NowMirrored ==
  ASSUME IInv
  PROVE  Mirrors(LiveEntries, map, now)
<1>1. LiveEntries = Live(map, now)
  BY DEF LiveEntries, Live
<1>2. map \in Maps /\ now \in Nat /\ UniqueAt(map, now)
  BY IInvGives, Shape
<1> QED BY <1>1, <1>2, LiveMirrors

LEMMA MirroredLater ==
  ASSUME IInv'
  PROVE  Mirrors(LiveEntries', map', now')
<1>1. LiveEntries' = Live(map', now')
  BY DEF LiveEntries, Live
<1>2. map' \in Maps /\ now' \in Nat /\ UniqueAt(map', now')
  <2>1. now' \in Nat /\ map' \in Maps
    BY MaxTimeAssumption DEF IInv, CounterInv, TypeOK, Times
  <2> QED BY <2>1 DEF IInv, UniqueKeys, UniqueAt
<1> QED BY <1>1, <1>2, LiveMirrors

LEMMA GetRefines ==
  ASSUME IInv, NEW key \in Keys, Get(key) PROVE Dict!Get(key)
<1>1. Mirrors(LiveEntries, map, now)
  BY NowMirrored
<1>2. map \in Maps /\ map \in TimedMaps(Capacity, Timeouts, SlotKeys, SlotValues,
                                         MaxTime)
  BY IInvGives, Shape
<1> DEFINE i == map_get(map, key, now)
<1>3. \/ i = NULL /\ key \notin DOMAIN LiveEntries
      \/ /\ i # NULL /\ key \in DOMAIN LiveEntries
         /\ LiveEntries[key].value = map.entry[i].value
  <2>1. CASE i = NULL
    BY <1>1, <1>2, <2>1, Shape, GetFindsAMatch, DomainOfMirror
  <2>2. CASE i # NULL
    <3>1. i \in Matches(map, key, now)
      BY <1>2, <2>2, Shape, GetFindsAMatch
    <3>2. i \in Valid(map, now) /\ map.entry[i].key = key
      BY <3>1 DEF Matches
    <3>3. key \in DOMAIN LiveEntries
      BY <1>1, <1>2, <3>1, DomainOfMirror
    <3> HIDE DEF i
    <3>4. LiveEntries[key] = Bound(map.entry[i])
      BY <1>1, <3>2 DEF Mirrors
    <3> QED BY <2>2, <3>3, <3>4 DEF Bound
  <2> QED BY <2>1, <2>2
<1>4. LiveEntries' = LiveEntries
  BY DEF Get, LiveEntries
<1> QED BY <1>3, <1>4 DEF Get, Dict!Get, Dict!Call, Call

LEMMA SetRefines ==
  ASSUME IInv, IInv', NEW key \in Keys, NEW value \in Values, Set(key, value)
  PROVE  Dict!SetStored(key, value) \/ Dict!SetRefused(key)
<1>0. /\ map \in Maps /\ CounterOK(map) /\ UniqueAt(map, now)
      /\ now \in 1 .. MaxTime /\ now \in Nat /\ MaxTime \in Nat
      /\ Bounds(Capacity, Timeouts, MaxTime)
      /\ Maps = TimedMaps(Capacity, Timeouts, SlotKeys, SlotValues, MaxTime)
      /\ Mirrors(LiveEntries, map, now) /\ Mirrors(LiveEntries', map', now')
  BY IInvGives, NowMirrored, MirroredLater, MaxTimeAssumption, Shape
<1>1. PICK s \in now .. MaxTime : SetAt(key, value, s)
  BY DEF Set
<1>2. /\ s \in 1 .. MaxTime /\ s \in Nat /\ now <= s
      /\ key \in SlotKeys /\ value \in SlotValues
  BY <1>0 DEF SlotKeys, SlotValues
<1>3. /\ map' = map_set(map, key, value, now, s) /\ now' = s
      /\ ret' = Call("set", {map_set_return(map, key, now, s)})
  BY <1>1 DEF SetAt
<1> DEFINE left == Dict!Fresh(LiveEntries, s)
<1>4. Mirrors(left, map, s)
  BY <1>0, <1>2, FreshMirrors
<1>5. key \in DOMAIN LiveEntries <=> Matches(map, key, now) # {}
  BY <1>0, DomainOfMirror
<1>6. Valid(map, s) \subseteq Valid(map, now)
  BY <1>0, <1>2, ExpiryIsMonotone
<1>7. map.size \in 0 .. Capacity /\ map.max_size = Capacity
  BY <1>0, PositionsOfAMap
<1> HIDE DEF left
<1>8. CASE /\ map' = map
           /\ Matches(map, key, now) = {}
           /\ map.size = map.max_size \/ Invalid(map, s) = {}
           /\ map_set_return(map, key, now, s) = -1
  <2>1. map.size = Capacity
    BY <1>0, <1>7, <1>8, RoomBelowMaxSize
  <2>2. LiveEntries' = left
    BY <1>0, <1>3, <1>4, <1>8, MirrorIsUnique
  <2> QED BY <1>1, <1>3, <1>5, <1>8, <2>1, <2>2
          DEF left, Dict!SetRefused, Dict!Call, Call
<1>9. ASSUME NEW i \in Positions(map),
             map_set_return(map, key, now, s) = 0,
             Stores(map, map', i, key, value, s),
             Valid(map', s) = Valid(map, s) \cup {i},
             \/ Refreshes(map, map', i, key, value, now, s)
             \/ Inserts(map, map', i, key, value, now, s)
      PROVE  Dict!SetStored(key, value)
  <2>1. \A j \in Valid(map, s) : map.entry[j].key = key => j = i
    BY <1>0, <1>6, <1>9 DEF Refreshes, Inserts, Matches, UniqueAt
  <2>2. i \in Valid(map, s) => map.entry[i].key = key
    BY <1>9 DEF Refreshes, Inserts, Matches, Invalid
  <2> DEFINE bound == Dict!Bind(left, key, [value |-> value, time |-> s])
  <2>3. Mirrors(bound, map', s)
    <3> HIDE DEF bound
    <3>1. bound = Dict!Bind(left, key, [value |-> value, time |-> s])
      BY DEF bound
    <3> QED BY <1>0, <1>4, <1>9, <2>1, <2>2, <3>1, BindMirrors
  <2>4. LiveEntries' = bound
    BY <1>0, <1>3, <2>3, MirrorIsUnique
  <2>5. map'.timeout = map.timeout
    BY <1>9 DEF Stores
  <2>6. /\ key \in DOMAIN LiveEntries \/ map.size < Capacity
        /\ map'.size = IF key \in DOMAIN LiveEntries THEN map.size
                       ELSE map.size + 1
    <3>1. Capacity \in Nat
      BY <1>0 DEF Bounds
    <3> QED BY <1>5, <1>7, <1>9, <3>1 DEF Refreshes, Inserts
  <2> QED BY <1>1, <1>3, <1>9, <2>4, <2>5, <2>6
          DEF left, Dict!SetStored, Dict!Call, Call
<1> QED BY <1>0, <1>2, <1>3, <1>8, <1>9, SetEffect

LEMMA DeleteRefines ==
  ASSUME IInv, IInv', NEW key \in Keys, Delete(key) PROVE Dict!Delete(key)
<1>0. /\ map \in Maps /\ CounterOK(map) /\ UniqueAt(map, now) /\ now \in Nat
      /\ Bounds(Capacity, Timeouts, MaxTime)
      /\ Maps = TimedMaps(Capacity, Timeouts, SlotKeys, SlotValues, MaxTime)
      /\ Mirrors(LiveEntries, map, now) /\ Mirrors(LiveEntries', map', now)
      /\ map' = map_delete(map, key, now) /\ now' = now
      /\ ret' = Call("delete", {})
  BY IInvGives, NowMirrored, MirroredLater, Shape DEF Delete
<1> DEFINE left == [k \in DOMAIN LiveEntries \ {key} |-> LiveEntries[k]]
<1>1. key \in DOMAIN LiveEntries <=> Matches(map, key, now) # {}
  BY <1>0, DomainOfMirror
<1>2. CASE map' = map /\ Matches(map, key, now) = {}
  <2>1. LiveEntries' = LiveEntries
    BY <1>0, <1>2, MirrorIsUnique
  <2>2. DOMAIN LiveEntries \ {key} = DOMAIN LiveEntries
    BY <1>1, <1>2
  <2>3. left = LiveEntries
    BY <1>0, <2>2 DEF Mirrors
  <2> QED BY <1>0, <1>1, <1>2, <2>1, <2>3 DEF Dict!Delete, Dict!Call, Call
<1>3. ASSUME NEW i \in Matches(map, key, now),
             Clears(map, map', i), Valid(map', now) = Valid(map, now) \ {i}
      PROVE  Dict!Delete(key)
  <2>1. i \in Valid(map, now) /\ map.entry[i].key = key
    BY DEF Matches
  <2>2. Mirrors(left, map', now)
    BY <1>0, <1>3, <2>1, UnbindMirrors
  <2>3. LiveEntries' = left
    BY <1>0, <2>2, MirrorIsUnique
  <2> QED BY <1>0, <1>1, <1>3, <2>3 DEF Clears, Dict!Delete, Dict!Call, Call
<1> QED BY <1>0, <1>2, <1>3, DeleteEffect

LEMMA ForeachRefines ==
  ASSUME IInv, Foreach PROVE Dict!Foreach
<1>1. Mirrors(LiveEntries, map, now)
  BY NowMirrored
<1>2. \A i \in Valid(map, now) : map.entry[i] \in Slots(SlotKeys, SlotValues, MaxTime)
  <2>1. map \in TimedMaps(Capacity, Timeouts, SlotKeys, SlotValues, MaxTime)
    BY IInvGives
  <2> QED BY <2>1, Shape, PositionsOfAMap DEF Valid
<1>3. \A i \in Valid(map, now) :
        map.entry[i] = [key |-> map.entry[i].key,
                        value |-> LiveEntries[map.entry[i].key].value,
                        time |-> LiveEntries[map.entry[i].key].time]
  <2> SUFFICES ASSUME NEW i \in Valid(map, now)
               PROVE  map.entry[i] = [key |-> map.entry[i].key,
                        value |-> LiveEntries[map.entry[i].key].value,
                        time |-> LiveEntries[map.entry[i].key].time]
    OBVIOUS
  <2>1. LiveEntries[map.entry[i].key] = Bound(map.entry[i])
    BY <1>1 DEF Mirrors
  <2> QED BY <1>2, <2>1 DEF Bound, Slots
<1>4. map_foreach(map, now) = {[key |-> k, value |-> LiveEntries[k].value,
                                time |-> LiveEntries[k].time] :
                                 k \in DOMAIN LiveEntries}
  <2>1. DOMAIN LiveEntries = {map.entry[i].key : i \in Valid(map, now)}
    BY <1>1 DEF Mirrors
  <2> DEFINE Visit(k) == [key |-> k, value |-> LiveEntries[k].value,
                          time |-> LiveEntries[k].time]
  <2>2. \A i \in Valid(map, now) : map.entry[i] = Visit(map.entry[i].key)
    BY <1>3
  <2> HIDE DEF Visit
  <2>3. map_foreach(map, now) = {Visit(k) : k \in DOMAIN LiveEntries}
    BY <2>1, <2>2 DEF map_foreach
  <2> QED BY <2>3 DEF Visit
<1>5. LiveEntries' = LiveEntries
  BY DEF Foreach, LiveEntries
<1> QED BY <1>4, <1>5 DEF Foreach, Dict!Foreach, Dict!Call, Call

LEMMA TickRefines ==
  ASSUME IInv, IInv', Tick PROVE Dict!Tick
<1>1. Mirrors(LiveEntries, map, now) /\ Mirrors(LiveEntries', map', now')
  BY NowMirrored, MirroredLater
<1>2. map \in Maps /\ now \in Nat /\ now' = now + 1 /\ map' = map
  BY IInvGives, Shape DEF Tick
<1>3. Mirrors(Dict!Fresh(LiveEntries, now'), map', now')
  BY <1>1, <1>2, FreshMirrors
<1>4. LiveEntries' = Dict!Fresh(LiveEntries, now')
  BY <1>1, <1>3, MirrorIsUnique
<1> QED BY <1>2, <1>4 DEF Tick, Dict!Tick, Dict!Call, Call

\* map.c implements the dictionary its callers rely on: whatever the capacity,
\* slots that are reused, entries that are stale and scans are not seen outside.
THEOREM ImplementsDictionary == Spec => DictionarySpec
<1>1. Init => Dict!Init
  <2> SUFFICES ASSUME Init PROVE Dict!Init
    OBVIOUS
  <2>1. IInv /\ Valid(map, now) = {}
    BY IInvInit, CounterInvInit
  <2>2. LiveEntries = [key \in {} |-> 0]
    BY <2>1 DEF LiveEntries
  <2>3. map.size = 0 /\ map.timeout \in Timeouts
    BY DEF Init, map_init
  <2> QED BY <2>2, <2>3 DEF Init, Dict!Init, Dict!Call, Call
<1>2. IInv /\ IInv' /\ [Next]_vars => [Dict!Next]_Dict!vars
  <2> SUFFICES ASSUME IInv, IInv', [Next]_vars PROVE [Dict!Next]_Dict!vars
    OBVIOUS
  <2>1. CASE UNCHANGED vars
    BY <2>1 DEF vars, Dict!vars, LiveEntries
  <2>2. ASSUME NEW key \in Keys, Get(key) \/ Delete(key) PROVE Dict!Next
    BY <2>2, GetRefines, DeleteRefines DEF Dict!Next
  <2>3. ASSUME NEW key \in Keys, NEW value \in Values, Set(key, value)
        PROVE  Dict!Next
    BY <2>3, SetRefines DEF Dict!Next
  <2>4. CASE Foreach
    BY <2>4, ForeachRefines DEF Dict!Next
  <2>5. CASE Size
    <3>1. LiveEntries' = LiveEntries
      BY <2>5 DEF Size, LiveEntries
    <3> QED BY <2>5, <3>1 DEF Size, map_size, Dict!Next, Dict!Size, Dict!Call, Call
  <2>6. CASE Tick
    BY <2>6, TickRefines DEF Dict!Next
  <2> QED BY <2>1, <2>2, <2>3, <2>4, <2>5, <2>6 DEF Next
<1> QED BY <1>1, <1>2, IInvariant, PTL DEF Spec, DictionarySpec, Dict!Spec
=============================================================================
