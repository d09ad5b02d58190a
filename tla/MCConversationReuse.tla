------------------------ MODULE MCConversationReuse ------------------------
(* Instances of ConversationReuse for TLC.                                 *)
EXTENDS ConversationReuse, TLC

CONSTANTS r1, r2, r3, ip1, ip2, t1, t2, u1

OneRequest == {r1}
TwoRequests == {r1, r2}
ThreeRequests == {r1, r2, r3}
ThreeSymmetry == Permutations(ThreeRequests)
TwoIPs == {ip1, ip2}
TwoTurns == {t1, t2}
OneUser == {u1}
AllAdmin == {"delete", "sweep", "forget", "whitelist"}

In(p, m, u, h, s) == [ip |-> p, msgs |-> m, user |-> u, header |-> h, stream |-> s]
Plain(p, m) == In(p, m, Null, Null, FALSE)

(* An opening turn, the chat continued, and the chat continued after its   *)
(* opening turn was edited.                                                *)
Openings == {Plain(p, <<t1>>) : p \in TwoIPs}
Follows == {Plain(p, <<t1, t2>>) : p \in TwoIPs}
Streams == {In(ip1, <<t1, t2>>, Null, Null, TRUE)}
ByUserField == {In(p, <<t1, t2>>, u1, Null, FALSE) : p \in TwoIPs}
ByHeader == {In(ip2, m, Null, 1, FALSE) : m \in {<<t1, t2>>, <<t2, t1>>}}
ByLabel == {In(ip1, <<t1>>, Null, Label, FALSE)}

AllInputs ==
    Openings \cup Follows \cup Streams \cup ByUserField \cup ByHeader \cup ByLabel
StreamInputs == {Plain(ip1, <<t1>>)} \cup Streams
NewInputs == {Plain(ip1, <<t1>>), In(ip1, <<t1>>, u1, Null, TRUE)}
=============================================================================
