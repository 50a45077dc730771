-------------------------- MODULE TimedMap_proofs ---------------------------
(***************************************************************************)
(* What the operations of map.c do to any map: lemmas for the proofs about *)
(* its users.                                                              *)
(***************************************************************************)
EXTENDS TimedMap, FiniteSetTheorems, WellFoundedInduction, TLAPS

\* The maps of c slots, with a timeout in tos, keys in K, values in V and stamps
\* up to last.
Bounds(c, tos, last) ==
  c \in Nat \ {0} /\ tos \subseteq Nat /\ last \in Nat \ {0}

Slots(K, V, last) == [key : K, value : V, time : 0 .. last]

TimedMaps(c, tos, K, V, last) ==
  [size : 0 .. c, max_size : {c}, timeout : tos,
   entry : [0 .. c - 1 -> Slots(K, V, last)]]

\* What the counter has to do with the slots.  The equality for maps without a
\* timeout is not inductive by itself: without the bound a delete there could
\* not be told from one in a map whose counter has drifted.
CounterOK(m) ==
  /\ Cardinality(Occupied(m)) <= m.size
  /\ m.timeout = 0 => Cardinality(Occupied(m)) = m.size

\* No two valid entries have the same key.
UniqueAt(m, t) ==
  \A i, j \in Valid(m, t) : m.entry[i].key = m.entry[j].key => i = j

-----------------------------------------------------------------------------
\* The scan loops stop at a position that satisfies their condition, and at
\* the first one.  A least element exists because the initial segments of S
\* are finite, and strict inclusion is well-founded on finite sets.
LEMMA FirstIsLeast ==
  ASSUME NEW S \in SUBSET Nat, S # {}
  PROVE  First(S) \in S /\ \A j \in S : First(S) <= j
<1> DEFINE UpTo(i) == {j \in S : j <= i}
           Segments == {UpTo(i) : i \in S}
           Less == StrictSubsetOrdering(S)
<1>1. IsWellFoundedOn(Less, FiniteSubsetsOf(S))
  BY FS_StrictSubsetOrderingWellFounded
<1>2. ASSUME NEW i \in S PROVE UpTo(i) \in FiniteSubsetsOf(S)
  <2>1. i \in Nat
    OBVIOUS
  <2>2. IsFiniteSet(0 .. i)
    BY <2>1, FS_Interval
  <2>3. UpTo(i) \in SUBSET (0 .. i)
    <3>1. \A k \in S : k \in Nat
      OBVIOUS
    <3>2. ASSUME NEW k \in UpTo(i) PROVE k \in 0 .. i
      BY <2>1, <3>1
    <3> QED BY <3>2
  <2>4. IsFiniteSet(UpTo(i))
    BY <2>2, <2>3, FS_Subset
  <2> QED BY <2>4 DEF FiniteSubsetsOf
<1>3. Segments \subseteq FiniteSubsetsOf(S) /\ Segments # {}
  BY <1>2
<1>4. PICK D \in Segments : \A E \in Segments : ~ (<<E, D>> \in Less)
  <2> HIDE DEF Segments, Less
  <2> QED BY <1>1, <1>3, WFMin
<1>5. PICK i \in S : D = UpTo(i)
  BY <1>4
<1>6. ASSUME NEW j \in S PROVE i <= j
  <2>1. i \in Nat /\ j \in Nat
    OBVIOUS
  <2>2. SUFFICES ASSUME j < i PROVE FALSE
    BY <2>1
  <2>3. \A k \in S : k \in Nat /\ (k <= j => k <= i)
    BY <2>1, <2>2
  <2>4. UpTo(j) \subseteq UpTo(i)
    BY <2>3
  <2>5. i \in UpTo(i) /\ i \notin UpTo(j)
    BY <2>1, <2>2
  <2>6. <<UpTo(j), UpTo(i)>> \in Less
    BY <2>4, <2>5 DEF StrictSubsetOrdering
  <2>7. UpTo(j) \in Segments
    OBVIOUS
  <2> QED BY <1>4, <1>5, <2>6, <2>7
<1> QED BY <1>6 DEF First

\* The positions of a map and what its slots hold.
LEMMA PositionsOfAMap ==
  ASSUME NEW c, NEW tos, NEW last, Bounds(c, tos, last), NEW K, NEW V,
         NEW m \in TimedMaps(c, tos, K, V, last)
  PROVE  /\ Positions(m) = 0 .. c - 1
         /\ IsFiniteSet(Positions(m)) /\ Cardinality(Positions(m)) = c
         /\ Positions(m) \subseteq Nat
         /\ m.timeout \in Nat /\ m.max_size = c /\ m.size \in 0 .. c
         /\ \A i \in Positions(m) : /\ m.entry[i] \in Slots(K, V, last)
                                    /\ m.entry[i].key \in K
                                    /\ m.entry[i].value \in V
                                    /\ m.entry[i].time \in Nat
<1>0. c \in Nat \ {0}
  BY DEF Bounds
<1>1. Positions(m) = 0 .. c - 1 /\ m.max_size = c /\ m.timeout \in Nat
  BY DEF Positions, TimedMaps, Bounds
<1>2. IsFiniteSet(0 .. c - 1) /\ Cardinality(0 .. c - 1) = c
  BY <1>0, FS_Interval
<1>3. \A i \in 0 .. c - 1 : m.entry[i] \in Slots(K, V, last)
  BY DEF TimedMaps
<1>4. m.size \in 0 .. c
  BY DEF TimedMaps
<1>5. \A e \in Slots(K, V, last) : e.key \in K /\ e.value \in V /\ e.time \in Nat
  BY DEF Slots
<1> QED BY <1>1, <1>2, <1>3, <1>4, <1>5

LEMMA OccupiedIsFinite ==
  ASSUME NEW c, NEW tos, NEW last, Bounds(c, tos, last), NEW K, NEW V,
         NEW m \in TimedMaps(c, tos, K, V, last)
  PROVE  /\ IsFiniteSet(Occupied(m))
         /\ Cardinality(Occupied(m)) \in Nat
         /\ Cardinality(Occupied(m)) <= c
<1>1. Occupied(m) \in SUBSET Positions(m)
  BY DEF Occupied
<1>2. /\ IsFiniteSet(Positions(m)) /\ Cardinality(Positions(m)) = c
  BY PositionsOfAMap
<1>3. /\ IsFiniteSet(Occupied(m))
      /\ Cardinality(Occupied(m)) <= Cardinality(Positions(m))
  BY <1>1, <1>2, FS_Subset
<1> QED BY <1>2, <1>3, FS_CardinalityType

\* map_get: NULL exactly when nothing matches, else a matching position.
LEMMA GetFindsAMatch ==
  ASSUME NEW c, NEW tos, NEW last, Bounds(c, tos, last), NEW K, NEW V,
         NEW m \in TimedMaps(c, tos, K, V, last),
         NEW key, NEW t
  PROVE  \/ map_get(m, key, t) = NULL /\ Matches(m, key, t) = {}
         \/ /\ map_get(m, key, t) # NULL
            /\ map_get(m, key, t) \in Matches(m, key, t)
<1>0. Positions(m) \subseteq Nat
  BY PositionsOfAMap
<1>1. Matches(m, key, t) \in SUBSET Nat
  BY <1>0 DEF Matches, Valid
<1>2. CASE Matches(m, key, t) = {}
  BY <1>2 DEF map_get
<1>3. CASE Matches(m, key, t) # {}
  <2>1. First(Matches(m, key, t)) \in Matches(m, key, t)
    BY <1>1, <1>3, FirstIsLeast
  <2> QED BY <1>1, <1>3, <2>1 DEF map_get, NULL
<1> QED BY <1>2, <1>3

\* Where keys are unique, it is the only one.
LEMMA GetFindsTheMatch ==
  ASSUME NEW c, NEW tos, NEW last, Bounds(c, tos, last), NEW K, NEW V,
         NEW m \in TimedMaps(c, tos, K, V, last),
         NEW key, NEW t, UniqueAt(m, t),
         NEW i \in Valid(m, t), m.entry[i].key = key
  PROVE  map_get(m, key, t) = i /\ i # NULL /\ Matches(m, key, t) = {i}
<1>1. i \in Matches(m, key, t)
  BY DEF Matches
<1>2. \A j \in Matches(m, key, t) : j = i
  BY DEF Matches, UniqueAt
<1> QED BY <1>1, <1>2, GetFindsAMatch

\* A slot that expired stays expired as long as the clock does not go back.
LEMMA ExpiryIsMonotone ==
  ASSUME NEW c, NEW tos, NEW last, Bounds(c, tos, last), NEW K, NEW V,
         NEW m \in TimedMaps(c, tos, K, V, last),
         NEW t \in Nat, NEW s \in Nat, t <= s
  PROVE  Valid(m, s) \subseteq Valid(m, t)
<1> SUFFICES ASSUME NEW i \in Positions(m), map_entry_valid(m, i, s)
             PROVE  map_entry_valid(m, i, t)
  BY DEF Valid
<1>1. m.entry[i].time \in Nat /\ m.timeout \in Nat
  BY PositionsOfAMap
<1> QED BY <1>1 DEF map_entry_valid

LEMMA UniqueLater ==
  ASSUME NEW c, NEW tos, NEW last, Bounds(c, tos, last), NEW K, NEW V,
         NEW m \in TimedMaps(c, tos, K, V, last),
         NEW t \in Nat, NEW s \in Nat, t <= s, UniqueAt(m, t)
  PROVE  UniqueAt(m, s)
BY ExpiryIsMonotone DEF UniqueAt

-----------------------------------------------------------------------------
\* m1 is m with slot i written, but for the counter.
Stores(m, m1, i, key, value, s) ==
  /\ i \in Positions(m)
  /\ m1.max_size = m.max_size /\ m1.timeout = m.timeout
  /\ m1.entry[i] = [key |-> key, value |-> value, time |-> s]
  /\ \A j \in Positions(m) \ {i} : m1.entry[j] = m.entry[j]

\* A map with slot i written: the slot is occupied and valid, and the others are
\* what they were.
LEMMA WriteOccupies ==
  ASSUME NEW c, NEW tos, NEW last, Bounds(c, tos, last), NEW K, NEW V,
         NEW m \in TimedMaps(c, tos, K, V, last),
         NEW i \in Positions(m), NEW key \in K, NEW value \in V,
         NEW s \in 1 .. last, NEW n \in 0 .. c,
         NEW m1, m1 = [Write(m, i, key, value, s) EXCEPT !.size = n]
  PROVE  /\ m1 \in TimedMaps(c, tos, K, V, last)
         /\ m1.size = n
         /\ Stores(m, m1, i, key, value, s)
         /\ Occupied(m1) = Occupied(m) \cup {i}
         /\ Valid(m1, s) = Valid(m, s) \cup {i}
<1>0. c \in Nat \ {0} /\ last \in Nat \ {0}
  BY DEF Bounds
<1>1. i \in 0 .. c - 1 /\ s \in 0 .. last /\ s # 0 /\ Positions(m) = 0 .. c - 1
  BY <1>0, PositionsOfAMap
<1>2. [key |-> key, value |-> value, time |-> s] \in Slots(K, V, last)
  BY <1>1 DEF Slots
<1>3. /\ m1.entry = [m.entry EXCEPT ![i] =
                       [key |-> key, value |-> value, time |-> s]]
      /\ m1.max_size = m.max_size /\ m1.timeout = m.timeout /\ m1.size = n
  BY DEF Write, TimedMaps
<1>4. m1 \in TimedMaps(c, tos, K, V, last)
  BY <1>1, <1>2 DEF Write, TimedMaps
<1>5. /\ m1.entry[i] = [key |-> key, value |-> value, time |-> s]
      /\ \A j \in Positions(m) \ {i} : m1.entry[j] = m.entry[j]
  BY <1>1, <1>3 DEF TimedMaps
<1>6. Positions(m1) = Positions(m) /\ m.timeout \in Nat /\ s \in Nat
  BY <1>0, <1>1, <1>3, PositionsOfAMap DEF Positions
<1>7. m1.entry[i].time = s
  BY <1>5
<1>8. Occupied(m1) = Occupied(m) \cup {i}
  BY <1>1, <1>5, <1>6, <1>7 DEF Occupied
<1>9. map_entry_valid(m1, i, s)
  BY <1>1, <1>3, <1>6, <1>7 DEF map_entry_valid
<1>10. \A j \in Positions(m) \ {i} :
         map_entry_valid(m1, j, s) <=> map_entry_valid(m, j, s)
  BY <1>3, <1>5 DEF map_entry_valid
<1>11. Valid(m1, s) = Valid(m, s) \cup {i}
  BY <1>6, <1>9, <1>10 DEF Valid
<1> QED BY <1>3, <1>4, <1>5, <1>8, <1>11 DEF Stores

\* What map_set does, in three cases: it stores in the slot where the key was
\* found, or in a free one, which it counts, or not at all.
Refreshes(m, m1, i, key, value, t, s) ==
  /\ i \in Matches(m, key, t)
  /\ m1.size = m.size

Inserts(m, m1, i, key, value, t, s) ==
  /\ Matches(m, key, t) = {}
  /\ m.size # m.max_size
  /\ i \in Invalid(m, s)
  /\ m1.size = m.size + 1

LEMMA SetEffect ==
  ASSUME NEW c, NEW tos, NEW last, Bounds(c, tos, last), NEW K, NEW V,
         NEW m \in TimedMaps(c, tos, K, V, last),
         NEW key \in K, NEW value \in V, NEW t, NEW s \in 1 .. last,
         NEW m1, m1 = map_set(m, key, value, t, s)
  PROVE  \/ /\ m1 = m
            /\ Matches(m, key, t) = {}
            /\ m.size = m.max_size \/ Invalid(m, s) = {}
            /\ map_set_return(m, key, t, s) = -1
         \/ /\ m1 \in TimedMaps(c, tos, K, V, last)
            /\ map_set_return(m, key, t, s) = 0
            /\ \E i \in Positions(m) :
                 /\ Stores(m, m1, i, key, value, s)
                 /\ Occupied(m1) = Occupied(m) \cup {i}
                 /\ Valid(m1, s) = Valid(m, s) \cup {i}
                 /\ \/ Refreshes(m, m1, i, key, value, t, s)
                    \/ Inserts(m, m1, i, key, value, t, s)
<1> DEFINE old == map_get(m, key, t)
<1>0. /\ Positions(m) \subseteq Nat /\ m.size \in 0 .. c /\ m.max_size = c
      /\ c \in Nat
  <2>1. c \in Nat
    BY DEF Bounds
  <2> QED BY <2>1, PositionsOfAMap
<1>1. CASE old # NULL
  <2>1. old \in Matches(m, key, t) /\ old \in Positions(m)
    BY <1>1, GetFindsAMatch DEF Matches, Valid
  <2>2. m1 = Write(m, old, key, value, s) /\ map_set_return(m, key, t, s) = 0
    BY <1>1 DEF map_set, map_set_return
  <2>3. m1 = [Write(m, old, key, value, s) EXCEPT !.size = m.size]
    <3> HIDE DEF old
    <3> QED BY <2>2 DEF Write, TimedMaps
  <2> HIDE DEF old
  <2>4. /\ m1 \in TimedMaps(c, tos, K, V, last) /\ m1.size = m.size
        /\ Stores(m, m1, old, key, value, s)
        /\ Occupied(m1) = Occupied(m) \cup {old}
        /\ Valid(m1, s) = Valid(m, s) \cup {old}
    BY <1>0, <2>1, <2>3, WriteOccupies
  <2> QED BY <2>1, <2>2, <2>4 DEF Refreshes
<1>2. CASE old = NULL /\ (m.size = m.max_size \/ Invalid(m, s) = {})
  <2>1. Matches(m, key, t) = {}
    BY <1>2, GetFindsAMatch
  <2> QED BY <1>2, <2>1 DEF map_set, map_set_return
<1>3. CASE old = NULL /\ ~ (m.size = m.max_size \/ Invalid(m, s) = {})
  <2> DEFINE i == First(Invalid(m, s))
  <2>1. Matches(m, key, t) = {}
    BY <1>3, GetFindsAMatch
  <2>2. Invalid(m, s) \in SUBSET Nat
    BY <1>0 DEF Invalid
  <2>3. i \in Invalid(m, s) /\ i \in Positions(m)
    BY <1>3, <2>2, FirstIsLeast DEF Invalid
  <2>4. /\ m1 = [Write(m, i, key, value, s) EXCEPT !.size = @ + 1]
        /\ map_set_return(m, key, t, s) = 0
    BY <1>3 DEF map_set, map_set_return
  <2>5. m1 = [Write(m, i, key, value, s) EXCEPT !.size = m.size + 1]
    <3> HIDE DEF i
    <3> QED BY <2>4 DEF Write, TimedMaps
  <2>6. m.size + 1 \in 0 .. c
    BY <1>0, <1>3
  <2> HIDE DEF i
  <2>7. /\ m1 \in TimedMaps(c, tos, K, V, last) /\ m1.size = m.size + 1
        /\ Stores(m, m1, i, key, value, s)
        /\ Occupied(m1) = Occupied(m) \cup {i}
        /\ Valid(m1, s) = Valid(m, s) \cup {i}
    BY <2>3, <2>5, <2>6, WriteOccupies
  <2> QED BY <1>3, <2>1, <2>3, <2>4, <2>7 DEF Inserts
<1> QED BY <1>1, <1>2, <1>3

\* What map_delete does, keys being unique: the one valid entry of the key goes,
\* or nothing happens.
Clears(m, m1, i) ==
  /\ i \in Positions(m)
  /\ m1.max_size = m.max_size /\ m1.timeout = m.timeout
  /\ m1.size = m.size - 1
  /\ m1.entry[i].time = 0
  /\ \A j \in Positions(m) \ {i} : m1.entry[j] = m.entry[j]

LEMMA DeleteEffect ==
  ASSUME NEW c, NEW tos, NEW last, Bounds(c, tos, last), NEW K, NEW V,
         NEW m \in TimedMaps(c, tos, K, V, last), CounterOK(m),
         NEW key, NEW t \in Nat,
         NEW m1, m1 = map_delete(m, key, t)
  PROVE  \/ m1 = m /\ Matches(m, key, t) = {}
         \/ /\ m1 \in TimedMaps(c, tos, K, V, last)
            /\ m.size > 0
            /\ \E i \in Matches(m, key, t) :
                 /\ i = map_get(m, key, t)
                 /\ Clears(m, m1, i)
                 /\ Occupied(m1) = Occupied(m) \ {i}
                 /\ Valid(m1, t) = Valid(m, t) \ {i}
<1> DEFINE i == map_get(m, key, t)
<1>1. CASE i = NULL
  BY <1>1, GetFindsAMatch DEF map_delete
<1>2. CASE i # NULL
  <2>1. i \in Matches(m, key, t)
    BY <1>2, GetFindsAMatch
  <2>2. i \in Positions(m) /\ i \in Occupied(m)
    BY <2>1 DEF Matches, Valid, map_entry_valid, Occupied
  <2>3. m1 = [m EXCEPT !.entry[i].time = 0, !.size = @ - 1]
    BY <1>2 DEF map_delete
  <2> HIDE DEF i
  <2>4. /\ i \in 0 .. c - 1 /\ Positions(m) = 0 .. c - 1
        /\ m.entry[i] \in Slots(K, V, last) /\ m.size \in 0 .. c
    <3>1. Positions(m) = 0 .. c - 1 /\ m.size \in 0 .. c
      BY PositionsOfAMap
    <3>2. \A j \in Positions(m) : m.entry[j] \in Slots(K, V, last)
      BY PositionsOfAMap
    <3> QED BY <2>2, <3>1, <3>2
  <2>5. c \in Nat \ {0} /\ last \in Nat \ {0}
    BY DEF Bounds
  <2>6. m.size > 0
    <3>1. IsFiniteSet(Occupied(m)) /\ Cardinality(Occupied(m)) \in Nat
      BY OccupiedIsFinite
    <3>2. Cardinality(Occupied(m)) # 0
      BY <2>2, <3>1, FS_EmptySet
    <3> QED BY <2>4, <3>1, <3>2 DEF CounterOK
  <2>7. /\ m1.entry = [m.entry EXCEPT ![i] = [m.entry[i] EXCEPT !.time = 0]]
        /\ m1.size = m.size - 1
        /\ m1.max_size = m.max_size /\ m1.timeout = m.timeout
    BY <2>3, <2>4 DEF TimedMaps
  <2>8. [m.entry[i] EXCEPT !.time = 0] \in Slots(K, V, last)
    BY <2>4, <2>5 DEF Slots
  <2>9. m1 \in TimedMaps(c, tos, K, V, last)
    <3>1. m.size - 1 \in 0 .. c
      BY <2>4, <2>5, <2>6
    <3>2. m1.entry \in [0 .. c - 1 -> Slots(K, V, last)]
      BY <2>4, <2>7, <2>8 DEF TimedMaps
    <3>3. m1 = [m EXCEPT !.entry = m1.entry, !.size = m.size - 1]
      BY <2>3, <2>7 DEF TimedMaps
    <3> HIDE <2>3, <2>7
    <3> QED BY <3>1, <3>2, <3>3 DEF TimedMaps
  <2>10. \A j \in Positions(m) \ {i} : m1.entry[j] = m.entry[j]
    BY <2>4, <2>7 DEF TimedMaps
  <2>11. m1.entry[i].time = 0
    <3>1. m1.entry[i] = [m.entry[i] EXCEPT !.time = 0]
      BY <2>4, <2>7 DEF TimedMaps
    <3> QED BY <2>4, <3>1 DEF Slots
  <2>12. Positions(m1) = Positions(m)
    BY <2>7 DEF Positions
  <2>13. Occupied(m1) = Occupied(m) \ {i}
    BY <2>10, <2>11, <2>12 DEF Occupied
  <2>14. \A j \in Positions(m) \ {i} :
           map_entry_valid(m1, j, t) <=> map_entry_valid(m, j, t)
    BY <2>7, <2>10 DEF map_entry_valid
  <2>15. Valid(m1, t) = Valid(m, t) \ {i}
    BY <2>11, <2>12, <2>14 DEF Valid, map_entry_valid
  <2> QED BY <2>1, <2>2, <2>6, <2>7, <2>9, <2>10, <2>11, <2>13, <2>15
          DEF Clears, i
<1> QED BY <1>1, <1>2

-----------------------------------------------------------------------------
\* The counter through the operations.
LEMMA CounterInitially ==
  ASSUME NEW fits \in Nat \ {0}, NEW requested \in Nat, NEW timeout,
         NEW blank, blank.time = 0,
         NEW m, m = map_init(fits, requested, timeout, blank)
  PROVE  /\ m.max_size = IF requested = 0 \/ requested > fits THEN fits
                         ELSE requested
         /\ m.size = 0 /\ m.timeout = timeout
         /\ Occupied(m) = {} /\ \A t : Valid(m, t) = {}
         /\ CounterOK(m)
<1> DEFINE c == IF requested = 0 \/ requested > fits THEN fits ELSE requested
<1>1. /\ m.size = 0 /\ m.max_size = c /\ m.timeout = timeout
      /\ m.entry = [i \in 0 .. c - 1 |-> blank]
  BY DEF map_init
<1>2. Positions(m) = 0 .. c - 1
  BY <1>1 DEF Positions
<1> HIDE DEF c
<1>3. \A i \in Positions(m) : m.entry[i].time = 0
  BY <1>1, <1>2
<1>4. Occupied(m) = {} /\ \A t : Valid(m, t) = {}
  BY <1>3 DEF Occupied, Valid, map_entry_valid
<1> QED BY <1>1, <1>4, FS_EmptySet DEF CounterOK, c

LEMMA InitialShape ==
  ASSUME NEW fits \in Nat \ {0}, NEW requested \in Nat,
         NEW c, c = IF requested = 0 \/ requested > fits THEN fits ELSE requested,
         NEW tos, NEW timeout \in tos, NEW last, Bounds(c, tos, last),
         NEW K, NEW V, NEW key \in K, NEW value \in V
  PROVE  map_init(fits, requested, timeout,
                  [key |-> key, value |-> value, time |-> 0])
           \in TimedMaps(c, tos, K, V, last)
<1>1. [key |-> key, value |-> value, time |-> 0] \in Slots(K, V, last)
  BY DEF Slots, Bounds
<1> QED BY <1>1 DEF map_init, TimedMaps, Bounds

LEMMA CounterAfterSet ==
  ASSUME NEW c, NEW tos, NEW last, Bounds(c, tos, last), NEW K, NEW V,
         NEW m \in TimedMaps(c, tos, K, V, last), CounterOK(m),
         NEW key \in K, NEW value \in V, NEW t, NEW s \in 1 .. last
  PROVE  /\ map_set(m, key, value, t, s) \in TimedMaps(c, tos, K, V, last)
         /\ CounterOK(map_set(m, key, value, t, s))
<1> DEFINE m1 == map_set(m, key, value, t, s)
<1>0. m1 = map_set(m, key, value, t, s)
  OBVIOUS
<1> HIDE DEF m1
<1>1. IsFiniteSet(Occupied(m)) /\ Cardinality(Occupied(m)) \in Nat
  BY OccupiedIsFinite
<1>2. m.size \in Nat
  <2>1. m.size \in 0 .. c
    BY PositionsOfAMap
  <2> QED BY <2>1
<1>3. CASE m1 = m
  BY <1>0, <1>3
<1>4. ASSUME m1 \in TimedMaps(c, tos, K, V, last),
             NEW i \in Positions(m), Stores(m, m1, i, key, value, s),
             Occupied(m1) = Occupied(m) \cup {i},
             Refreshes(m, m1, i, key, value, t, s)
      PROVE  CounterOK(m1)
  <2>1. Occupied(m1) = Occupied(m)
    BY <1>4 DEF Refreshes, Matches, Valid, map_entry_valid, Occupied
  <2> QED BY <1>4, <2>1 DEF CounterOK, Refreshes, Stores
<1>5. ASSUME m1 \in TimedMaps(c, tos, K, V, last),
             NEW i \in Positions(m), Stores(m, m1, i, key, value, s),
             Occupied(m1) = Occupied(m) \cup {i},
             Inserts(m, m1, i, key, value, t, s)
      PROVE  CounterOK(m1)
  <2>1. Cardinality(Occupied(m1)) = IF i \in Occupied(m)
                                    THEN Cardinality(Occupied(m))
                                    ELSE Cardinality(Occupied(m)) + 1
    BY <1>1, <1>5, FS_AddElement
  <2>2. m.timeout = 0 => i \notin Occupied(m)
    BY <1>5 DEF Inserts, Invalid, Valid, map_entry_valid, Occupied
  <2> QED BY <1>1, <1>2, <1>5, <2>1, <2>2 DEF CounterOK, Inserts, Stores
<1>6. m1 \in TimedMaps(c, tos, K, V, last) /\ CounterOK(m1)
  BY <1>0, <1>3, <1>4, <1>5, SetEffect
<1> QED BY <1>0, <1>6

LEMMA CounterAfterDelete ==
  ASSUME NEW c, NEW tos, NEW last, Bounds(c, tos, last), NEW K, NEW V,
         NEW m \in TimedMaps(c, tos, K, V, last), CounterOK(m),
         NEW key, NEW t \in Nat
  PROVE  /\ map_delete(m, key, t) \in TimedMaps(c, tos, K, V, last)
         /\ CounterOK(map_delete(m, key, t))
<1> DEFINE m1 == map_delete(m, key, t)
<1>0. m1 = map_delete(m, key, t)
  OBVIOUS
<1> HIDE DEF m1
<1>1. IsFiniteSet(Occupied(m)) /\ Cardinality(Occupied(m)) \in Nat
  BY OccupiedIsFinite
<1>2. m.size \in Nat
  <2>1. m.size \in 0 .. c
    BY PositionsOfAMap
  <2> QED BY <2>1
<1>3. ASSUME NEW i \in Matches(m, key, t), Clears(m, m1, i),
             Occupied(m1) = Occupied(m) \ {i}
      PROVE  CounterOK(m1)
  <2>1. i \in Occupied(m)
    BY DEF Matches, Valid, map_entry_valid, Occupied
  <2>2. Cardinality(Occupied(m1)) = Cardinality(Occupied(m)) - 1
    BY <1>1, <1>3, <2>1, FS_RemoveElement
  <2> QED BY <1>1, <1>2, <1>3, <2>2 DEF CounterOK, Clears
<1> QED BY <1>0, <1>3, DeleteEffect

\* As long as the counter is below max_size, some slot is free: a search for
\* one succeeds.
LEMMA RoomBelowMaxSize ==
  ASSUME NEW c, NEW tos, NEW last, Bounds(c, tos, last), NEW K, NEW V,
         NEW m \in TimedMaps(c, tos, K, V, last), CounterOK(m), NEW t,
         m.size # m.max_size
  PROVE  Invalid(m, t) # {}
<1> SUFFICES ASSUME Invalid(m, t) = {} PROVE FALSE
  OBVIOUS
<1>1. /\ m.size \in 0 .. c /\ m.max_size = c
      /\ Cardinality(Positions(m)) = c
  BY PositionsOfAMap
<1>2. Occupied(m) = Positions(m)
  BY DEF Invalid, Valid, map_entry_valid, Occupied
<1>3. c \in Nat
  BY DEF Bounds
<1> QED BY <1>1, <1>2, <1>3 DEF CounterOK

-----------------------------------------------------------------------------
\* Unique keys through the operations, under a clock that does not go back.
LEMMA UniqueAfterSet ==
  ASSUME NEW c, NEW tos, NEW last, Bounds(c, tos, last), NEW K, NEW V,
         NEW m \in TimedMaps(c, tos, K, V, last),
         NEW key \in K, NEW value \in V,
         NEW t \in Nat, NEW s \in 1 .. last, t <= s, UniqueAt(m, t)
  PROVE  UniqueAt(map_set(m, key, value, t, s), s)
<1> SUFFICES ASSUME NEW m1, m1 = map_set(m, key, value, t, s)
             PROVE  UniqueAt(m1, s)
  OBVIOUS
<1>1. s \in Nat
  BY DEF Bounds
<1>2. Valid(m, s) \subseteq Valid(m, t) /\ UniqueAt(m, s)
  BY <1>1, ExpiryIsMonotone, UniqueLater
<1>3. CASE m1 = m
  BY <1>2, <1>3
<1>4. ASSUME NEW i \in Positions(m), Stores(m, m1, i, key, value, s),
             Valid(m1, s) = Valid(m, s) \cup {i},
             \/ Refreshes(m, m1, i, key, value, t, s)
             \/ Inserts(m, m1, i, key, value, t, s)
      PROVE  UniqueAt(m1, s)
  <2>1. \A j \in Valid(m, s) : m.entry[j].key = key => j = i
    BY <1>2, <1>4 DEF Refreshes, Inserts, Matches, UniqueAt
  <2>2. m1.entry[i].key = key
    BY <1>4 DEF Stores
  <2>3. \A j \in Valid(m1, s) :
          j # i => j \in Valid(m, s) /\ m1.entry[j] = m.entry[j]
    BY <1>4 DEF Stores, Valid
  <2> QED BY <1>2, <2>1, <2>2, <2>3 DEF UniqueAt
<1> QED BY <1>3, <1>4, SetEffect

LEMMA UniqueAfterDelete ==
  ASSUME NEW c, NEW tos, NEW last, Bounds(c, tos, last), NEW K, NEW V,
         NEW m \in TimedMaps(c, tos, K, V, last), CounterOK(m),
         NEW key, NEW t \in Nat, UniqueAt(m, t)
  PROVE  UniqueAt(map_delete(m, key, t), t)
<1> SUFFICES ASSUME NEW m1, m1 = map_delete(m, key, t)
             PROVE  UniqueAt(m1, t)
  OBVIOUS
<1>1. CASE m1 = m
  BY <1>1
<1>2. ASSUME NEW i, Clears(m, m1, i), Valid(m1, t) = Valid(m, t) \ {i}
      PROVE  UniqueAt(m1, t)
  <2>1. \A j \in Valid(m1, t) : j \in Valid(m, t) /\ m1.entry[j] = m.entry[j]
    BY <1>2 DEF Clears, Valid
  <2> QED BY <2>1 DEF UniqueAt
<1> QED BY <1>1, <1>2, DeleteEffect

\* A map w with the keys and stamps of m, in which a key found at t is deleted at
\* s: by then its slot is no longer live, deleted or expired.
LEMMA DeleteLater ==
  ASSUME NEW c, NEW tos, NEW last, Bounds(c, tos, last), NEW K, NEW V,
         NEW m \in TimedMaps(c, tos, K, V, last),
         NEW w \in TimedMaps(c, tos, K, V, last), CounterOK(w),
         Positions(w) = Positions(m), \A u : Valid(w, u) = Valid(m, u),
         \A j \in Positions(m) : w.entry[j].key = m.entry[j].key,
         NEW key, NEW t \in Nat, NEW s \in Nat, t <= s, UniqueAt(m, t),
         NEW i \in Matches(m, key, t),
         NEW m1, m1 = map_delete(w, key, s)
  PROVE  /\ Valid(m1, s) = Valid(m, s) \ {i}
         /\ \A j \in Positions(m) \ {i} : m1.entry[j] = w.entry[j]
<1>1. i \in Valid(m, t) /\ i \in Positions(m) /\ m.entry[i].key = key
  BY DEF Matches, Valid
<1>2. Valid(m, s) \subseteq Valid(m, t)
  BY ExpiryIsMonotone
<1>3. \/ m1 = w /\ Matches(w, key, s) = {}
      \/ \E j \in Matches(w, key, s) : /\ Clears(w, m1, j)
                                       /\ Valid(m1, s) = Valid(w, s) \ {j}
  BY DeleteEffect
<1>4. ASSUME m1 = w, Matches(w, key, s) = {}
      PROVE  Valid(m1, s) = Valid(m, s) \ {i}
  BY <1>1, <1>4 DEF Matches
<1>5. ASSUME NEW j \in Matches(w, key, s), Clears(w, m1, j),
              Valid(m1, s) = Valid(w, s) \ {j}
      PROVE  /\ Valid(m1, s) = Valid(m, s) \ {i}
             /\ \A k \in Positions(m) \ {i} : m1.entry[k] = w.entry[k]
  <2>1. j \in Valid(m, t) /\ j \in Positions(m) /\ m.entry[j].key = key
    BY <1>2, <1>5 DEF Matches, Valid
  <2>2. j = i
    BY <1>1, <2>1 DEF UniqueAt
  <2> QED BY <1>5, <2>2 DEF Clears
<1> QED BY <1>3, <1>4, <1>5

Rewrite(m, i, v) == [m EXCEPT !.entry[i].value = v]

\* An entry found at t is rewritten in place and its key deleted at s.
LEMMA TakeOut ==
  ASSUME NEW c, NEW tos, NEW last, Bounds(c, tos, last), NEW K, NEW V,
         NEW m \in TimedMaps(c, tos, K, V, last), CounterOK(m),
         NEW key, NEW t \in Nat, NEW s \in Nat, t <= s, UniqueAt(m, t),
         NEW i \in Matches(m, key, t), NEW v \in V,
         NEW m1, m1 = map_delete(Rewrite(m, i, v), key, s)
  PROVE  /\ m1 \in TimedMaps(c, tos, K, V, last)
         /\ CounterOK(m1) /\ UniqueAt(m1, s)
         /\ Valid(m1, s) = Valid(m, s) \ {i}
         /\ \A j \in Positions(m) \ {i} : m1.entry[j] = m.entry[j]
<1> DEFINE w == Rewrite(m, i, v)
<1>1. i \in Positions(m)
  BY DEF Matches, Valid
<1>2. /\ w \in TimedMaps(c, tos, K, V, last) /\ w.size = m.size
      /\ w.timeout = m.timeout /\ w.max_size = m.max_size
      /\ \A j \in Positions(m) : /\ w.entry[j].key = m.entry[j].key
                                 /\ w.entry[j].time = m.entry[j].time
      /\ \A j \in Positions(m) \ {i} : w.entry[j] = m.entry[j]
  BY <1>1 DEF Rewrite, TimedMaps, Slots, Positions
<1>3. m1 = map_delete(w, key, s)
  OBVIOUS
<1> HIDE DEF w
<1>4. /\ Positions(w) = Positions(m)
      /\ \A u : Valid(w, u) = Valid(m, u)
      /\ Occupied(w) = Occupied(m)
  BY <1>2 DEF Positions, Valid, map_entry_valid, Occupied
<1>5. CounterOK(w)
  BY <1>2, <1>4 DEF CounterOK
<1>6. UniqueAt(w, s)
  <2>1. Valid(m, s) \subseteq Valid(m, t)
    BY ExpiryIsMonotone
  <2> QED BY <1>2, <1>4, <2>1 DEF UniqueAt, Valid
<1>7. /\ m1 \in TimedMaps(c, tos, K, V, last) /\ CounterOK(m1)
      /\ UniqueAt(m1, s)
  BY <1>2, <1>3, <1>5, <1>6, CounterAfterDelete, UniqueAfterDelete
<1>8. /\ Valid(m1, s) = Valid(m, s) \ {i}
      /\ \A j \in Positions(m) \ {i} : m1.entry[j] = w.entry[j]
  <2>1. \A j \in Positions(m) : w.entry[j].key = m.entry[j].key
    BY <1>2
  <2> QED BY <1>2, <1>3, <1>4, <1>5, <2>1, DeleteLater
<1> QED BY <1>2, <1>7, <1>8
=============================================================================
