----------------------------- MODULE Dictionary -----------------------------
(***************************************************************************)
(* What map.c promises its callers: a dictionary whose entries vanish      *)
(* timeout seconds after they were last set, and a budget of insertions    *)
(* that only an explicit delete of a live key gives back.  Slots, scans    *)
(* and stale entries are not visible here.                                 *)
(***************************************************************************)
EXTENDS Integers

CONSTANTS Keys, Values, Capacity, Timeouts, MaxTime

VARIABLES dict,      \* the live keys, each with its value and stamp
          spent,     \* insertions not given back by a delete
          timeout,   \* fixed when the dictionary is made
          now, ret

vars == <<dict, spent, timeout, now, ret>>

Call(op, out) == [op |-> op, out |-> out]

\* What is left of dictionary d at time t.
Fresh(d, t) ==
  [key \in {k \in DOMAIN d : timeout = 0 \/ d[k].time + timeout >= t} |-> d[key]]

Bind(d, key, e) ==
  [k \in DOMAIN d \cup {key} |-> IF k = key THEN e ELSE d[k]]

Init == /\ dict = [key \in {} |-> 0]
        /\ spent = 0
        /\ timeout \in Timeouts
        /\ now = 1
        /\ ret = Call("none", {})

Get(key) ==
  /\ ret' = Call("get", IF key \in DOMAIN dict THEN {dict[key].value} ELSE {})
  /\ UNCHANGED <<dict, spent, timeout, now>>

SetStored(key, value) ==
  /\ key \in DOMAIN dict \/ spent < Capacity
  /\ now' \in now .. MaxTime
  /\ dict' = Bind(Fresh(dict, now'), key, [value |-> value, time |-> now'])
  /\ spent' = IF key \in DOMAIN dict THEN spent ELSE spent + 1
  /\ ret' = Call("set", {0})
  /\ UNCHANGED timeout

SetRefused(key) ==
  /\ key \notin DOMAIN dict /\ spent = Capacity
  /\ now' \in now .. MaxTime
  /\ dict' = Fresh(dict, now')
  /\ ret' = Call("set", {-1})
  /\ UNCHANGED <<spent, timeout>>

Delete(key) ==
  /\ dict' = [k \in DOMAIN dict \ {key} |-> dict[k]]
  /\ spent' = IF key \in DOMAIN dict THEN spent - 1 ELSE spent
  /\ ret' = Call("delete", {})
  /\ UNCHANGED <<timeout, now>>

\* Every live key is visited, with its value and stamp.
Foreach ==
  /\ ret' = Call("foreach", {[key |-> k, value |-> dict[k].value,
                              time |-> dict[k].time] : k \in DOMAIN dict})
  /\ UNCHANGED <<dict, spent, timeout, now>>

Size == /\ ret' = Call("size", {spent})
        /\ UNCHANGED <<dict, spent, timeout, now>>

Tick == /\ now < MaxTime
        /\ now' = now + 1
        /\ dict' = Fresh(dict, now')
        /\ ret' = Call("none", {})
        /\ UNCHANGED <<spent, timeout>>

Next == \/ \E key \in Keys : Get(key) \/ SetRefused(key) \/ Delete(key)
        \/ \E key \in Keys, value \in Values : SetStored(key, value)
        \/ Foreach
        \/ Size
        \/ Tick

Spec == Init /\ [][Next]_vars
=============================================================================
