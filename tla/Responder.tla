----------------------------- MODULE Responder ------------------------------
(***************************************************************************)
(* What a peer can rely on when it sends frames to the stack: a frame is   *)
(* answered at once, later, or never; at most once; with exactly the bytes *)
(* due; and one answer at a time waits for a peer's address.               *)
(***************************************************************************)
CONSTANTS Frames,
          Due(_)      \* the answers a frame may get: none, or one

VARIABLES inbox,      \* frames that have not arrived yet
          waiting,    \* answers held back
          sent        \* answers transmitted by the last step

vars == <<inbox, waiting, sent>>

Init == inbox = Frames /\ waiting = {} /\ sent = {}

\* Answers held back for another peer may be given up at any time.
Keeps(answers) ==
  /\ waiting' \subseteq answers
  /\ \A a, b \in waiting' : a.to = b.to => a = b

\* At once, or later, but not both.
Receive(f) ==
  /\ f \in inbox
  /\ inbox' = inbox \ {f}
  /\ \/ sent' = {a.bytes : a \in Due(f)} /\ Keeps(waiting)
     \/ sent' = {} /\ Keeps(waiting \cup Due(f))

\* An ARP packet lets a waiting answer go.
Release(f, a) ==
  /\ f \in inbox
  /\ inbox' = inbox \ {f}
  /\ sent' = {a.bytes}
  /\ Keeps(waiting \ {a})

Other == sent' = {} /\ Keeps(waiting) /\ UNCHANGED inbox

Next == \/ \E f \in inbox : Receive(f) \/ \E a \in waiting : Release(f, a)
        \/ Other

Spec == Init /\ [][Next]_vars
=============================================================================
