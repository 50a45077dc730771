------------------------------- MODULE MCPure -------------------------------
(* Checksum, Base64 and Startup side by side: a behaviour computes one of    *)
(* them on one input from beginning to end.                                  *)
EXTENDS Checksum, Base64, Startup

CONSTANTS MaxFile, MaxPacket

\* Short files of bytes whose bits differ in every group of two, four and six,
\* and files long enough for a line end.
Strings(S, n) == UNION {[1 .. k -> S] : k \in 0 .. n}
MCFiles == Strings({0, 178, 255}, MaxFile \div 2) \cup Strings({77, 178}, MaxFile)
\* Words that sum to nothing, to a carry, to all ones.
MCPackets == Strings({0, 1, 254, 255}, MaxPacket)

\* Lists of up to two cards with up to one address each, and one card that has
\* an address of another family before or after it.
MCAddresses == [inet : {TRUE}, addr : Address,
                netmask : {x \in Address : \A i, j \in 1 .. WIDTH :
                                             i < j => x[j] <= x[i]}]
MCIp == [i \in 1 .. WIDTH |-> i % 2]
Other(x) == [x EXCEPT !.inet = FALSE]
Cards == {<<>>} \cup {<<x>> : x \in MCAddresses}
Several == {<<x, Other(x)>> : x \in MCAddresses}
             \cup {<<Other(x), x>> : x \in MCAddresses}
MCAdapters == {<<>>} \cup {<<c>> : c \in Cards \cup Several}
                     \cup {<<c, d>> : c, d \in Cards}

VARIABLE task   \* which of them computes; the others have no input

Init == /\ task \in {"base64", "checksum", "startup"}
        /\ task # "base64" => file = <<>> /\ coding = "encode"
        /\ task # "checksum" => packet = <<>>
        /\ task # "startup" => alldevs = <<>>
        /\ SumInit /\ CodeInit /\ BInit

Next == /\ UNCHANGED task
        /\ \/ task = "base64" /\ CodeNext /\ UNCHANGED <<sumVars, bootVars>>
           \/ task = "checksum" /\ SumNext /\ UNCHANGED <<codeVars, bootVars>>
           \/ task = "startup" /\ BNext /\ UNCHANGED <<sumVars, codeVars>>

Spec == Init /\ [][Next]_<<sumVars, codeVars, bootVars, task>>
=============================================================================
