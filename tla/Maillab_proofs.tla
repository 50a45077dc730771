--------------------------- MODULE Maillab_proofs ---------------------------
(***************************************************************************)
(* Proofs about the mail clients, for replies of any number of pieces and  *)
(* messages of any number of lines.                                        *)
(***************************************************************************)
EXTENDS Maillab, FiniteSetTheorems, TLAPS

\* The two programs, as far as the proofs look at them: both end with QUIT, and
\* the message is the eighth command of send_mail.
LEMMA Scripts ==
  ASSUME NEW s \in {SmtpScript, PopScript}
  PROVE  /\ Len(s) \in Nat /\ Len(s) >= 1
         /\ \A i \in 1 .. Len(s) : s[i] = "QUIT" <=> i = Len(s)
         /\ s = SmtpScript =>
              Len(s) = 9 /\ \A i \in 1 .. 9 : s[i] = "message" <=> i = 8
<1>1. CASE s = SmtpScript
  BY <1>1 DEF SmtpScript
<1>2. CASE s = PopScript
  <2>1. SmtpScript # PopScript
    <3>1. Len(SmtpScript) = 9 /\ Len(PopScript) = 6
      BY DEF SmtpScript, PopScript
    <3> QED BY <3>1
  <2> QED BY <1>2, <2>1 DEF PopScript
<1> QED BY <1>1, <1>2

\* A reply is not empty, its last piece and no other ends it, and it is complete
\* exactly once.
LEMMA PiecesOfAReply ==
  ASSUME NEW k \in Nat \ {0}
  PROVE  /\ Len(Pieces(k)) = k /\ Pieces(k) # <<>>
         /\ \A n \in 1 .. k : Pieces(k)[n].last <=> n = k
         /\ <<>> \o Pieces(k) = Pieces(k)
         /\ SubSeq(Pieces(k), k + 1, k) = <<>>
         /\ Cardinality({i \in 1 .. k : Pieces(k)[i].last}) = 1
<1>1. Pieces(k) \in Seq([last : BOOLEAN]) /\ Len(Pieces(k)) = k
  BY DEF Pieces
<1>2. \A n \in 1 .. k : Pieces(k)[n].last <=> n = k
  BY DEF Pieces
<1>3. {i \in 1 .. k : Pieces(k)[i].last} = {k}
  BY <1>2
<1>4. Cardinality({k}) = 1
  BY FS_Singleton
<1>5. <<>> \o Pieces(k) = Pieces(k) /\ SubSeq(Pieces(k), k + 1, k) = <<>>
  BY <1>1
<1> QED BY <1>1, <1>2, <1>3, <1>4, <1>5

-----------------------------------------------------------------------------
\* Where the dialogue is while nothing was refused and no reply was cut: what
\* the client waits for is the command it sent last, or the whole reply to it,
\* and nothing else is under way.
Asking ==
  /\ read = next - 1
  /\ \/ next > 1 /\ open /\ commands = <<script[next - 1]>> /\ replies = <<>>
     \/ commands = <<>> /\ \E k \in 1 .. MaxPieces : replies = Pieces(k)

Talking == {"connect", "recv", "send", "close", "closed"}

Position ==
  /\ next \in 1 .. Len(script) + 1
  /\ pc = "connect" => next = 1 /\ read = 0 /\ open
                         /\ commands = <<>> /\ replies = <<>>
  /\ pc = "recv" => Asking
  /\ pc \in {"send", "close"} => read = next /\ replies = <<>> /\ commands = <<>>
  /\ pc \in {"recv", "send"} /\ next <= Len(script) => open
  /\ pc = "send" => next <= Len(script)
  /\ pc = "closed" => commands = <<>>
  /\ pc \in {"close", "closed"} => next = Len(script) + 1

\* The server has a mail once it has read the message, the eighth command.
Processed == next - 1 - Len(commands)

Mailed == pc \in Talking /\ script = SmtpScript
            => mailbox = IF Processed >= 8 THEN 1 ELSE 0

IInv == /\ script \in {SmtpScript, PopScript}
        /\ ~ split /\ ~ refused => Position /\ Mailed

LEMMA IInvInit == Init => IInv
<1> SUFFICES ASSUME Init PROVE IInv
  OBVIOUS
<1>1. Len(script) \in Nat /\ Len(script) >= 1
  BY Scripts DEF Init
<1>2. Position
  BY <1>1 DEF Init, Position
<1>3. Mailed
  BY DEF Init, Mailed, Processed
<1> QED BY <1>2, <1>3 DEF Init, IInv

LEMMA IInvNext == IInv /\ [Next]_vars => IInv'
<1> SUFFICES ASSUME IInv, [Next]_vars, ~ split', ~ refused'
             PROVE  script' = script /\ (Position /\ Mailed)'
  <2>1. [Next]_vars => script' = script
    BY DEF Next, ClientStep, ServerStep, ConnectFails, Connect, print_msg,
           print_msg_end, Send, ContentFails, Close, Disconnect, ServerAccepts,
           ServerRefuses, ServerQuits, ServerHangsUp, client, vars
  <2> QED BY <2>1 DEF IInv
<1>0. /\ script \in {SmtpScript, PopScript}
      /\ Len(script) \in Nat /\ Len(script) >= 1
      /\ \A i \in 1 .. Len(script) : script[i] = "QUIT" <=> i = Len(script)
      /\ script = SmtpScript =>
           Len(script) = 9 /\ \A i \in 1 .. 9 : script[i] = "message" <=> i = 8
  BY Scripts DEF IInv
<1>a. MaxPieces \in Nat
  BY MaillabAssumption
<1>b. \A k \in 1 .. MaxPieces : k \in Nat \ {0}
  BY <1>a
<1>c. \A k \in 1 .. MaxPieces : Pieces(k) # <<>> /\ Len(Pieces(k)) = k
  BY <1>b, PiecesOfAReply
<1>1. CASE UNCHANGED vars
  BY <1>1 DEF vars, IInv, Position, Asking, Mailed, Processed
<1>2. CASE ConnectFails
  BY <1>0, <1>2 DEF ConnectFails, IInv, Position, Mailed, Talking
<1>3. CASE Connect
  <2>1. Position /\ Mailed
    BY <1>3 DEF IInv, Connect
  <2>2. PICK k \in 1 .. MaxPieces : replies' = <<>> \o Pieces(k)
    BY <1>3 DEF Connect, Replies
  <2>3. replies' = Pieces(k)
    BY <1>a, <2>2, PiecesOfAReply
  <2>4. Position'
    BY <1>0, <1>3, <2>1, <2>3 DEF Connect, Position, Asking
  <2> QED BY <1>3, <2>1, <2>4 DEF Connect, Mailed, Processed, Talking
<1>4. CASE print_msg
  <2>1. Position /\ Mailed /\ Asking
    BY <1>4 DEF IInv, print_msg, Position
  <2>2. PICK n \in 1 .. Len(replies) :
          /\ replies' = SubSeq(replies, n + 1, Len(replies))
          /\ read' = read + Cardinality({i \in 1 .. n : replies[i].last})
          /\ replies[n].last
    BY <1>4 DEF print_msg
  <2>3. PICK k \in 1 .. MaxPieces : replies = Pieces(k)
    <3>1. replies # <<>>
      BY <2>2
    <3> QED BY <2>1, <3>1 DEF Asking
  <2>4. n = k
    <3>1. k \in Nat \ {0} /\ n \in 1 .. k
      BY <1>b, <1>c, <2>3
    <3> QED BY <2>2, <2>3, <3>1, PiecesOfAReply
  <2>5. replies' = <<>> /\ read' = read + 1
    BY <1>a, <2>2, <2>3, <2>4, PiecesOfAReply
  <2>6. read = next - 1 /\ commands = <<>>
    BY <2>1, <2>2 DEF Asking
  <2>7. Position'
    BY <1>0, <1>4, <2>1, <2>5, <2>6 DEF print_msg, AfterReply, Position
  <2> QED BY <1>4, <2>1, <2>7 DEF print_msg, AfterReply, Mailed, Processed, Talking
<1>5. CASE print_msg_end
  <2>1. Position /\ Mailed /\ Asking
    BY <1>5 DEF IInv, print_msg_end, Position
  <2>2. FALSE
    BY <1>c, <1>5, <2>1 DEF print_msg_end, Asking
  <2> QED BY <2>2
<1>6. CASE Send
  <2>1. Position /\ Mailed
    BY <1>6 DEF IInv, Send
  <2>2. /\ open /\ next \in 1 .. Len(script) /\ read = next
        /\ replies = <<>> /\ commands = <<>>
    BY <1>6, <2>1 DEF Send, Position
  <2>3. commands' = <<script[next]>> /\ next' = next + 1 /\ pc' = "recv"
    BY <1>6, <2>2 DEF Send
  <2>4. next' - 1 = next /\ Len(commands') = 1
    BY <2>2, <2>3
  <2>5. Position'
    BY <1>0, <1>6, <2>2, <2>3, <2>4 DEF Send, Position, Asking
  <2> QED BY <1>6, <2>1, <2>2, <2>3, <2>4, <2>5
          DEF Send, Mailed, Processed, Talking
<1>7. CASE ContentFails
  BY <1>0, <1>7 DEF ContentFails, Disconnect, IInv, Position, Mailed, Talking
<1>8. CASE Close
  <2>1. Position /\ Mailed
    BY <1>8 DEF IInv, Close, Disconnect
  <2>2. commands' = commands
    BY <1>8, <2>1 DEF Close, Disconnect, Position
  <2> QED BY <1>0, <1>8, <2>1, <2>2
          DEF Close, Disconnect, Position, Mailed, Processed, Talking
\* The server reads a command: it is the one the client is waiting for.
<1>9. ASSUME open, commands # <<>>, commands' = Tail(commands), Position,
             UNCHANGED <<pc, next, read>>,
             pc \in Talking
      PROVE  /\ pc = "recv" /\ next > 1 /\ Command = script[next - 1]
             /\ read = next - 1 /\ replies = <<>>
             /\ Len(commands) = 1 /\ commands' = <<>>
  <2>1. pc = "recv" /\ Asking
    BY <1>9 DEF Position, Talking
  <2> QED BY <1>9, <2>1 DEF Asking, Command
<1>10. CASE ServerAccepts
  <2>1. Position /\ Mailed
    BY <1>10 DEF IInv, ServerAccepts
  <2>2. CASE pc \notin Talking
    BY <1>10, <2>1, <2>2 DEF ServerAccepts, client, Position, Mailed, Talking
  <2>3. CASE pc \in Talking
    <3>1. /\ pc = "recv" /\ next > 1 /\ Command = script[next - 1]
          /\ read = next - 1 /\ replies = <<>>
          /\ Len(commands) = 1 /\ commands' = <<>>
      BY <1>9, <1>10, <2>1, <2>3 DEF ServerAccepts, client
    <3>2. PICK k \in 1 .. MaxPieces : replies' = <<>> \o Pieces(k)
      BY <1>10, <3>1 DEF ServerAccepts, Answer, Replies
    <3>3. replies' = Pieces(k)
      BY <1>a, <3>2, PiecesOfAReply
    <3>4. Position'
      BY <1>10, <2>1, <3>1, <3>3 DEF ServerAccepts, client, Position, Asking
    <3>5. next \in Nat /\ next - 1 \in 1 .. Len(script)
      BY <1>0, <2>1, <3>1 DEF Position
    <3>6. script = SmtpScript => (Command = "message" <=> next - 1 = 8)
      BY <1>0, <3>1, <3>5
    <3>7. ASSUME script = SmtpScript
          PROVE  mailbox' = IF next - 1 >= 8 THEN 1 ELSE 0
      <4>1. mailbox = IF next - 2 >= 8 THEN 1 ELSE 0
        <5>1. Processed = next - 2
          BY <3>1, <3>5 DEF Processed
        <5> QED BY <2>1, <2>3, <3>7, <5>1 DEF Mailed
      <4>2. mailbox' = IF next - 1 = 8 THEN mailbox + 1 ELSE mailbox
        BY <1>10, <3>6, <3>7 DEF ServerAccepts
      <4>3. next - 1 \in 1 .. 9
        BY <1>0, <3>5, <3>7
      <4> QED BY <4>1, <4>2, <4>3
    <3>8. Mailed'
      <4>1. /\ script' = script /\ next' = next /\ Len(commands') = 0
        BY <1>10, <3>1 DEF ServerAccepts, client
      <4> QED BY <3>5, <3>7, <4>1 DEF Mailed, Processed
    <3> QED BY <1>10, <3>4, <3>8 DEF ServerAccepts, client
  <2> QED BY <2>2, <2>3
<1>11. CASE ServerQuits
  <2>1. Position /\ Mailed
    BY <1>11 DEF IInv, ServerQuits
  <2>2. CASE pc \notin Talking
    BY <1>11, <2>1, <2>2 DEF ServerQuits, client, Position, Mailed, Talking
  <2>3. CASE pc \in Talking
    <3>1. /\ pc = "recv" /\ next > 1 /\ Command = script[next - 1]
          /\ read = next - 1 /\ replies = <<>>
          /\ Len(commands) = 1 /\ commands' = <<>>
      BY <1>9, <1>11, <2>1, <2>3 DEF ServerQuits, client
    <3>2. PICK k \in 1 .. MaxPieces : replies' = <<>> \o Pieces(k)
      BY <1>11, <3>1 DEF ServerQuits, Answer, Replies
    <3>3. replies' = Pieces(k)
      BY <1>a, <3>2, PiecesOfAReply
    <3>4. next - 1 \in 1 .. Len(script)
      BY <1>0, <2>1, <3>1 DEF Position
    <3>5. next - 1 = Len(script)
      BY <1>0, <1>11, <3>1, <3>4 DEF ServerQuits
    <3>6. Position'
      BY <1>0, <1>11, <2>1, <3>1, <3>3, <3>5
         DEF ServerQuits, client, Position, Asking
    <3>7. Mailed'
      BY <1>0, <1>11, <2>1, <3>1, <3>5
         DEF ServerQuits, client, Mailed, Processed, Talking
    <3> QED BY <1>11, <3>6, <3>7 DEF ServerQuits, client
  <2> QED BY <2>2, <2>3
<1>12. CASE ServerRefuses
  BY <1>12 DEF ServerRefuses
<1>13. CASE ServerHangsUp
  <2>1. Position /\ Mailed /\ pc \in {"closed", "exit"}
    BY <1>13 DEF IInv, ServerHangsUp
  <2> QED BY <1>13, <2>1
          DEF ServerHangsUp, client, Position, Mailed, Processed, Talking
<1> QED BY <1>1, <1>2, <1>3, <1>4, <1>5, <1>6, <1>7, <1>8, <1>10, <1>11, <1>12,
           <1>13 DEF Next, ClientStep, ServerStep

LEMMA IInvariant == Spec => []IInv
BY IInvInit, IInvNext, PTL DEF Spec

\* One command at a time is under way, so that one recv cannot take two replies
\* for one (send.c:22), as long as no reply is cut and nothing is refused.
THEOREM StaysInStep == Spec => []InStep
<1>1. IInv => InStep
  BY DEF IInv, Position, InStep
<1> QED BY <1>1, IInvariant, PTL

\* When send_mail returns, a mail that nobody refused is in the mailbox.
THEOREM MailIsAccepted == Spec => []Accepted
<1>1. IInv => Accepted
  <2> SUFFICES ASSUME IInv, pc = "closed", script = SmtpScript, ~ refused, ~ split
               PROVE  mailbox = 1
    BY DEF Accepted
  <2>1. Position /\ Mailed /\ Len(script) = 9
    BY Scripts DEF IInv
  <2> QED BY <2>1 DEF Position, Mailed, Processed, Talking
<1> QED BY <1>1, IInvariant, PTL
=============================================================================
