-------------------------- MODULE MCAccountRouting --------------------------
(* Instances of AccountRouting for TLC.                                    *)
EXTENDS AccountRouting, TLC

CONSTANTS a1, a2, r1, r2

TwoInOrder == <<a1, a2>>
TwoRequests == {r1, r2}
BothFaulty == {a1, a2}
FirstFaulty == {a1}
AllErrors == Outcomes \ {"ok"}
RefreshFails == {"closed", "other"}

In(p, c, v, t) == [path |-> p, chosen |-> c, conv |-> v, tools |-> t]
Free(p) == In(p, NoAccount, NoAccount, "none")
Bound(p) == In(p, a1, a1, "none")

(* Unpinned and pinned requests that share the rotation.                   *)
SharedInputs ==
    {Free("answer"), Free("recover"), Free("plain"), Bound("answer"), Bound("recover")}

(* And some of every other kind, by themselves.                            *)
MixedInputs ==
    SharedInputs \cup {Free("once")}
    \cup {In("once", NoAccount, a2, "none"), In("recover", a2, a2, "none")}
    \cup {In("answer", a1, a2, "none")}
    \cup {In("answer", a1, a1, "router"), In("recover", NoAccount, NoAccount, "native")}

(* Two requests are under way together if they are of those.               *)
Together ==
    \A r, s \in Requests :
        r # s /\ req[r].stage # "idle" /\ req[s].stage # "idle"
            => {req[r].input, req[s].input} \subseteq SharedInputs
MCSpec == Init /\ [][Next /\ Together']_vars /\ Fairness
=============================================================================
