----------------------------- MODULE CloudSweep -----------------------------
(***************************************************************************)
(* POST /api/m365/cleanup: handleM365Cleanup (internal/web/                *)
(* conversations.go) and M365CloudClient.CleanupOldConversations           *)
(* (m365cloud.go), which list the conversations of the cloud, a screen at  *)
(* a time, and delete, round after round, those older than max_age and all *)
(* but keep_n of the others.                                               *)
(*                                                                         *)
(* Conversations are numbered in the order of their creation; the listing  *)
(* shows the newest of them first.  Chats open conversations while sweeps  *)
(* run, and several sweeps may run at once.                                *)
(***************************************************************************)
EXTENDS Naturals, FiniteSets, FiniteSetsExt

CONSTANTS
    Sweeps,     \* calls of the handler
    Count,      \* bound: conversations ever opened
    Page,       \* conversations one listing shows
    KeepN,      \* keep_n; the handler replaces what is not positive
    Rounds      \* the rounds of the loop, 100 in the code

VARIABLES
    cloud,      \* the conversations in the cloud
    opened,     \* how many have been opened
    old,        \* how many of them, the first, are older than max_age
    sweep       \* the calls

vars == <<cloud, opened, old, sweep>>

Ids == 1..Count
Ends == {"clean", "unclean", "exhausted", "error"}
(* rest: what is left of the list; any: anyDeleted; missed: a deletion of  *)
(* this round failed.                                                      *)
Sweep ==
    [stage : {"idle", "list", "walk"} \cup Ends, round : 0..Rounds, rest : SUBSET Ids,
     kept : Nat, any : BOOLEAN, missed : BOOLEAN]

Old == 1..old
Listed == {c \in cloud : Cardinality({d \in cloud : d > c}) < Page}

-----------------------------------------------------------------------------
Start(s) ==
    /\ sweep[s].stage = "idle"
    /\ sweep' = [sweep EXCEPT ![s].stage = "list"]
    /\ UNCHANGED <<cloud, opened, old>>

MoreRounds(w) == w.round < Rounds

Walking(w) ==
    [w EXCEPT !.stage = "walk", !.rest = Listed, !.round = @ + 1,
              !.any = FALSE, !.missed = FALSE]

Relist(s) ==
    /\ sweep[s].stage = "list" /\ MoreRounds(sweep[s])
    /\ sweep' = [sweep EXCEPT ![s] = IF Listed = {} THEN [sweep[s] EXCEPT !.stage = "clean"]
                                     ELSE Walking(sweep[s])]
    /\ UNCHANGED <<cloud, opened, old>>

ListFails(s) ==
    /\ sweep[s].stage = "list" /\ MoreRounds(sweep[s])
    /\ sweep' = [sweep EXCEPT ![s].stage = "error"]
    /\ UNCHANGED <<cloud, opened, old>>

RunOut(s) ==
    /\ sweep[s].stage = "list" /\ ~MoreRounds(sweep[s])
    /\ sweep' = [sweep EXCEPT ![s].stage = "exhausted"]
    /\ UNCHANGED <<cloud, opened, old>>

(* The conversation a walk has come to, and whether it is to go.  kept     *)
(* counts over all rounds.                                                 *)
At(s, c) == sweep[s].stage = "walk" /\ sweep[s].rest # {} /\ c = Max(sweep[s].rest)
(* Variant: the boundary of the age is missed by one.                      *)
ToGoLate(w, c) == c \in 1..old - 1 \/ w.kept >= KeepN
ToGo(w, c) == c \in Old \/ w.kept >= KeepN

Keep(s, c) ==
    /\ At(s, c) /\ ~ToGo(sweep[s], c)
    /\ sweep' = [sweep EXCEPT ![s].rest = @ \ {c}, ![s].kept = @ + 1]
    /\ UNCHANGED <<cloud, opened, old>>

(* doAPI looks at the status of the answer only: what was deleted may be   *)
(* listed again.                                                           *)
Delete(s, c) ==
    /\ At(s, c) /\ ToGo(sweep[s], c)
    /\ cloud' \in {cloud, cloud \ {c}}
    /\ sweep' = [sweep EXCEPT ![s].rest = @ \ {c}, ![s].any = TRUE]
    /\ UNCHANGED <<opened, old>>

DeleteFails(s, c) ==
    /\ At(s, c) /\ ToGo(sweep[s], c)
    /\ sweep' = [sweep EXCEPT ![s].rest = @ \ {c}, ![s].missed = TRUE]
    /\ UNCHANGED <<cloud, opened, old>>

(* Another round as long as the last one deleted something.                *)
NextRound(s) ==
    /\ sweep[s].stage = "walk" /\ sweep[s].rest = {}
    /\ sweep' = [sweep EXCEPT ![s].stage =
         IF sweep[s].any THEN "list"
         ELSE IF sweep[s].missed THEN "unclean" ELSE "clean"]
    /\ UNCHANGED <<cloud, opened, old>>

-----------------------------------------------------------------------------
(* A chat opens a conversation.                                            *)
Open ==
    /\ opened < Count
    /\ opened' = opened + 1
    /\ cloud' = cloud \cup {opened'}
    /\ UNCHANGED <<old, sweep>>

Init ==
    /\ opened \in 0..Count
    /\ old \in 0..opened
    /\ cloud = 1..opened
    /\ sweep = [s \in Sweeps |->
                 [stage |-> "idle", round |-> 0, rest |-> {}, kept |-> 0,
                  any |-> FALSE, missed |-> FALSE]]

Step(s) ==
    \/ Start(s) \/ Relist(s) \/ ListFails(s) \/ RunOut(s) \/ NextRound(s)
    \/ \E c \in Ids : Keep(s, c) \/ Delete(s, c) \/ DeleteFails(s, c)
Next == Open \/ \E s \in Sweeps : Step(s)

Spec == Init /\ [][Next]_vars

-----------------------------------------------------------------------------
(* Every variable keeps its type.                                          *)
TypeOK ==
    /\ cloud \subseteq Ids
    /\ opened \in 0..Count
    /\ old \in 0..Count
    /\ sweep \in [Sweeps -> Sweep]

(* A sweep that stops because a round deleted nothing, and missed nothing, *)
(* leaves nothing old behind, provided that one screen shows everything    *)
(* (CleanupOldConversations, the break at the end of a round).             *)
CleanMeansClean ==
    Page >= Count => \A s \in Sweeps : sweep[s].stage = "clean" => Old \cap cloud = {}
=============================================================================
