------------------------------ MODULE Maillab -------------------------------
(***************************************************************************)
(* The two mail clients of maillab, send.c (SMTP) and recv.c (POP3).  Both *)
(* send fixed commands in a fixed order and take whatever one recv returns *)
(* for the reply to the last of them, without looking at it.               *)
(*                                                                         *)
(* The server and TCP are external: a reply is one or more pieces, recv    *)
(* returns any number of those that have arrived, and a server may refuse  *)
(* a command or hang up.                                                   *)
(***************************************************************************)
EXTENDS Integers, Sequences, FiniteSets

CONSTANTS MaxPieces,   \* bound on the pieces of one reply
          Lines        \* lines of a message: commands, to a server that
                       \* expects one

ASSUME MaillabAssumption == MaxPieces \in Nat \ {0} /\ Lines \in Nat \ {0}

VARIABLES script,     \* which client runs
          pc,         \* the client: "connect", "recv", "send", "closed", "exit"
          next,       \* index of the next command to send
          commands,   \* sent and not yet read by the server
          replies,    \* pieces sent by the server and not yet read
          server,     \* what the SMTP server is waiting for
          open,       \* whether the server still has the connection open
          mailbox,    \* mails the server accepted
          refused,    \* whether it refused anything or hung up early
          read,       \* replies read to their end
          split       \* whether some recv ended within a reply

client == <<script, pc, next>>
vars == <<script, pc, next, commands, replies, server, open, mailbox, refused,
          read, split>>

\* send_mail: the greeting is read before the first command, and one print_msg
\* follows each command.  user and pass answer the AUTH dialogue; message is
\* the header, the MIME parts and the final period.
SmtpScript == <<"EHLO", "AUTH", "user", "pass", "MAIL", "RCPT", "DATA",
                "message", "QUIT">>

\* recv_mail likewise.
PopScript == <<"USER", "PASS", "STAT", "LIST", "RETR", "QUIT">>

Pieces(k) == [i \in 1 .. k |-> [last |-> i = k]]

\* The server sends a reply, in any number of pieces.
Replies(before) == \E k \in 1 .. MaxPieces : replies' = before \o Pieces(k)

Init == /\ script \in {SmtpScript, PopScript}
        /\ pc = "connect" /\ next = 1
        /\ commands = <<>> /\ replies = <<>>
        /\ server = "command"
        /\ open = TRUE
        /\ mailbox = 0 /\ refused = FALSE
        /\ read = 0 /\ split = FALSE

-----------------------------------------------------------------------------
\* The name is unknown, there is no socket or no connection: exit(EXIT_FAILURE).
ConnectFails ==
  /\ pc = "connect"
  /\ pc' = "exit"
  /\ open' = FALSE
  /\ UNCHANGED <<script, next, commands, replies, server, mailbox, refused,
                 read, split>>

\* The server greets a new connection.
Connect ==
  /\ pc = "connect"
  /\ pc' = "recv"
  /\ Replies(<<>>)
  /\ UNCHANGED <<script, next, commands, server, open, mailbox, refused,
                 read, split>>

AfterReply ==
  pc' = IF next > Len(script) THEN "close" ELSE "send"

\* print_msg: recv returns n of the pieces there are.
print_msg ==
  /\ pc = "recv"
  /\ \E n \in 1 .. Len(replies) :
       /\ replies' = SubSeq(replies, n + 1, Len(replies))
       /\ read' = read + Cardinality({i \in 1 .. n : replies[i].last})
       /\ split' = (split \/ ~ replies[n].last)
  /\ AfterReply
  /\ UNCHANGED <<script, next, commands, server, open, mailbox, refused>>

\* recv returns 0: the client goes on as if it had read a reply.  It returns -1
\* when data sent after the server hung up was answered by a reset.
print_msg_end ==
  /\ pc = "recv" /\ replies = <<>> /\ ~ open
  /\ \/ AfterReply
     \/ pc' = "exit"
  /\ UNCHANGED <<script, next, commands, replies, server, open, mailbox,
                 refused, read, split>>

\* A send that does not wait for the reply.
Send_pipelined_bug ==
  /\ pc = "send"
  /\ commands' = IF open THEN Append(commands, script[next]) ELSE commands
  /\ next' = next + 1
  /\ pc' = IF next < Len(script) THEN "send" ELSE "recv"
  /\ UNCHANGED <<script, replies, server, open, mailbox, refused, read, split>>

\* A send whose last line end is missing: the server goes on waiting for it.
Send_unterminated_bug ==
  /\ pc = "send"
  /\ commands' = IF open /\ next < Len(script)
                 THEN Append(commands, script[next]) ELSE commands
  /\ next' = next + 1
  /\ pc' = "recv"
  /\ UNCHANGED <<script, replies, server, open, mailbox, refused, read, split>>

\* Sending to a server that has hung up ends in a signal at the latest when its
\* reset has arrived.
Send ==
  /\ pc = "send"
  /\ commands' = IF open THEN Append(commands, script[next]) ELSE commands
  /\ next' = next + 1
  /\ \/ pc' = "recv"
     \/ ~ open /\ pc' = "exit"
  /\ UNCHANGED <<script, replies, server, open, mailbox, refused, read, split>>

\* close, or exit, with unread data resets the connection: what the server has
\* not read by then may be lost.
Disconnect ==
  /\ replies' = <<>>
  /\ \/ commands' = commands
     \/ replies # <<>> /\ commands' = <<>>
  /\ UNCHANGED <<script, next, server, open, mailbox, refused, read, split>>

\* get_file_content is called when the server waits for the message already; it
\* exits if the body or the attachment cannot be opened.
ContentFails ==
  /\ pc = "send" /\ script[next] = "message"
  /\ pc' = "exit"
  /\ Disconnect

Close ==
  /\ pc = "close"
  /\ pc' = "closed"
  /\ Disconnect

-----------------------------------------------------------------------------
\* The command an SMTP server accepts in each of its states, and the next one.
Follows == [command |-> "MAIL", mail |-> "RCPT", rcpt |-> "DATA",
            data |-> "message"]
Then == [MAIL |-> "mail", RCPT |-> "rcpt", DATA |-> "data",
         message |-> "command"]

Command == Head(commands)

Answer(more) ==
  IF pc \in {"closed", "exit"} THEN replies' = replies ELSE Replies(more)

\* A reply to each of several lines.
AnswerEach ==
  replies' = IF pc \in {"closed", "exit"} THEN replies
             ELSE replies \o [i \in 1 .. Lines |-> [last |-> TRUE]]

ServerAccepts ==
  /\ open /\ commands # <<>> /\ Command # "QUIT"
  /\ commands' = Tail(commands)
  /\ IF Command \in DOMAIN Then
     THEN Command = Follows[server] /\ server' = Then[Command]
     ELSE server # "data" /\ server' = server
  /\ mailbox' = IF Command = "message" THEN mailbox + 1 ELSE mailbox
  /\ Answer(replies)
  /\ UNCHANGED <<client, open, refused, read, split>>

\* To a server that expects commands, a message is as many of them as it has
\* lines.  encode_str ends the user's name with a line feed, and send_mail adds
\* another line end: some servers find a second, empty line.
SeveralLines == \/ Command = "message" /\ server # "data"
                \/ Command = "user"

\* Refused, or not understood, as a whole or line by line.
ServerRefuses ==
  /\ open /\ commands # <<>> /\ Command # "QUIT"
  /\ commands' = Tail(commands)
  /\ refused' = TRUE
  /\ \/ SeveralLines /\ AnswerEach
     \/ (Command = "message" => server = "data") /\ Answer(replies)
  /\ server' = IF server = "data" THEN "command" ELSE server
  /\ UNCHANGED <<client, open, mailbox, read, split>>

ServerQuits ==
  /\ open /\ commands # <<>> /\ Command = "QUIT"
  /\ commands' = Tail(commands)
  /\ open' = FALSE
  /\ Answer(replies)
  /\ UNCHANGED <<client, server, mailbox, refused, read, split>>

\* The server hangs up of its own accord, or notices that the client is gone.
\* If it leaves commands unread, replies under way may be lost as well.
ServerHangsUp ==
  /\ open /\ pc # "connect"
  /\ open' = FALSE
  /\ commands' = <<>>
  /\ refused' = (refused \/ pc \notin {"closed", "exit"})
  /\ \/ replies' = replies
     \/ commands # <<>> /\ replies' = <<>>
  /\ UNCHANGED <<client, server, mailbox, read, split>>

ClientStep == ConnectFails \/ Connect \/ print_msg \/ print_msg_end
              \/ Send \/ ContentFails \/ Close
ServerStep == ServerAccepts \/ ServerRefuses \/ ServerQuits

Next == ClientStep \/ ServerStep \/ ServerHangsUp

\* Both programs run, and the server reads what has been sent to it.
Spec == Init /\ [][Next]_vars /\ WF_vars(ClientStep) /\ WF_vars(ServerStep)

-----------------------------------------------------------------------------
\* However TCP cuts the replies, and whatever the server refuses, the client
\* never waits for a reply that no command is left to cause: every print_msg
\* returns and the program ends.
Finishes == <>(pc \in {"closed", "exit"})

\* As long as no recv ended within a reply and nothing was refused, the client
\* sends a command only when it has read all replies to the ones before: never
\* more than one is under way, so that recv cannot join two.
InStep ==
  pc \in {"send", "close"} /\ ~ split /\ ~ refused
    => read = next /\ replies = <<>> /\ commands = <<>>

\* A mail that no one refused is in the mailbox when send_mail returns, unless
\* a reply came in pieces: then close may overtake the server.
Accepted ==
  pc = "closed" /\ script = SmtpScript /\ ~ refused /\ ~ split => mailbox = 1

\* send.c:245 and its like before the other commands: send_mail sends a command
\* and prints the server's response.  When it has closed the connection it
\* should have printed the greeting and the response to every command.
ResponsesPrinted ==
  pc = "closed" /\ script = SmtpScript /\ ~ refused => read = Len(script) + 1
=============================================================================
