------------------------- MODULE ConversationReuse -------------------------
(***************************************************************************)
(* Which cloud conversation a chat request continues, and when a cloud     *)
(* conversation is deleted: sessionResolver (internal/web/                 *)
(* session_resolver.go), userSessionStore (sessions.go), the conversation  *)
(* manager (conversation_manager.go), the background cleaner               *)
(* (auto_cleanup.go), the admin handlers of conversations.go, and the      *)
(* parts of openaiChat, streamChatWithRecovery and bindConversation that   *)
(* use them.                                                               *)
(*                                                                         *)
(* A turn is a user message with the reply to it; the messages of a        *)
(* request are turns, of which the last still lacks its reply.  A session  *)
(* id and the conversation id minted with it name each other, so one       *)
(* number stands for both.  Requests that give a conversation_id or a      *)
(* session_key of their own are left out.  Time is counted in ticks of the *)
(* idle windows; everything that happens between two ticks is simultaneous *)
(* for the windows.                                                        *)
(***************************************************************************)
EXTENDS Integers, Sequences, FiniteSets

CONSTANTS
    Requests,       \* HTTP requests
    Inputs,         \* [ip, msgs, user, header, stream] one can come with
    IPs,            \* values of clientIPFingerprint
    Turns,          \* user messages, each with the reply to it
    Users,          \* values of the "user" field
    Label,          \* an X-M365-Session-Id of the client's own making
    Null,           \* no user, header or conversation
    MaxConvs,       \* bound: conversations ever opened
    MaxTime,        \* bound: ticks
    MaxTries,       \* bound: conversations one streaming request tries
    TTL,            \* sessionResolver.ttl
    ContextTTL,     \* sessionResolver.contextTTL
    UserTTL,        \* userSessionStore.ttl
    ManagedAge,     \* idle time after which the manager forgets
    MaxAge,         \* the cleaner's maxAge
    KeepN,          \* the cleaner's keepN
    Page,           \* conversations one listing of the cloud shows
    MaxSessions,    \* sessionResolver.maxSessions
    Admin,          \* the admin handlers that are called
    AutoCleanup     \* M365_AUTO_CLEANUP is not off

Convs == 1..MaxConvs
Input ==
    [ip : IPs, msgs : Seq(Turns) \ {<<>>}, user : Users \cup {Null},
     header : Convs \cup {Label, Null}, stream : BOOLEAN]

ASSUME InputsAssumption == Inputs # {} /\ Inputs \subseteq Input
ASSUME NullAssumption == Null \notin Convs \cup Users \cup IPs /\ Label \notin Convs
ASSUME BoundsAssumption == MaxConvs \in Nat /\ MaxTime \in Nat /\ MaxTries \in Nat
ASSUME WindowsAssumption ==
    {TTL, ContextTTL, UserTTL, ManagedAge, MaxAge, KeepN, Page, MaxSessions} \subseteq Nat
ASSUME AdminAssumption ==
    Admin \subseteq {"delete", "sweep", "forget", "whitelist"} /\ AutoCleanup \in BOOLEAN

VARIABLES
    now,        \* the clock
    cloud,      \* the conversations in the cloud
    bindings,   \* sessionResolver.sessions
    users,      \* userSessionStore.data
    managed,    \* conversationManager.data: ids and LastUsedAt
    whitelist,  \* conversationManager.whitelist
    req,        \* the requests
    cleaner,    \* the loop of StartAutoCleanup
    dropping    \* conversations an admin deleted and has yet to drop

vars == <<now, cloud, bindings, users, managed, whitelist, req, cleaner, dropping>>

(* said: the turns the conversation holds; ips: who has written to it;     *)
(* shared: a client of another IP was let in by session id or user field;  *)
(* intact: it has never been deleted nor been sent less than a history.    *)
Conversation ==
    [state : {"unborn", "live", "deleted"}, born : Nat, said : SUBSET Turns,
     ips : SUBSET IPs, shared : BOOLEAN, intact : BOOLEAN]
Binding == [on : BOOLEAN, ip : IPs \cup {Null}, hist : Seq(Turns), at : Nat]
Unbound == [on |-> FALSE, ip |-> Null, hist |-> <<>>, at |-> 0]
UserSession == [conv : Convs \cup {Null}, at : Nat]
NoSession == [conv |-> Null, at |-> 0]
Stages == {"idle", "resolved", "sent", "put", "bound", "recorded", "done", "failed"}
Routes == {"new", "user", "explicit", "prefix", "similar"}
(* start: HistoryLen, in turns, where the prompt begins; aligned: the      *)
(* history skipped is the beginning of the request's own messages.         *)
Outcome == [conv : Convs \cup {Null}, from : Routes, start : Nat, aligned : BOOLEAN]
Request ==
    [stage : Stages, in : Inputs, conv : Convs \cup {Null}, from : Routes,
     start : Nat, aligned : BOOLEAN, tries : Nat]
Cleaner ==
    [stage : {"idle", "list", "delete"}, start : Nat, active : SUBSET Convs,
     todo : SUBSET Convs, cur : Convs \cup {Null}, any : BOOLEAN]

Live == {c \in Convs : cloud[c].state = "live"}
Fresh == {c \in Convs : /\ cloud[c].state = "unborn"
                        /\ \A d \in 1..c - 1 : cloud[d].state # "unborn"}
Bound == {c \in Convs : bindings[c].on}

-----------------------------------------------------------------------------
(* Looking a conversation up *)

(* evictLocked: expired bindings go, then the least recently used ones.    *)
Current == {c \in Bound : now - bindings[c].at <= TTL}
Survivors ==
    {K \in SUBSET Current :
        /\ Cardinality(K) = IF Cardinality(Current) > MaxSessions
                            THEN MaxSessions ELSE Cardinality(Current)
        /\ \A k \in K, d \in Current \ K : bindings[d].at <= bindings[k].at}
Evicted == {[c \in Convs |-> IF c \in K THEN bindings[c] ELSE Unbound] : K \in Survivors}

(* Variant: only the lengths are compared.                                 *)
ContinuesByLength(hist, msgs) == Len(hist) \in 1..Len(msgs) - 1
(* contextPrefixLen: hist is how msgs begins.                              *)
Continues(hist, msgs) ==
    /\ Len(hist) \in 1..Len(msgs) - 1
    /\ \A i \in 1..Len(hist) : hist[i] = msgs[i]

(* Variant: the IP fingerprint is not compared.                            *)
MatchableAnyIP(b, ip) == b.on /\ now - b.at <= ContextTTL
(* A binding that content may match: in the context window, of this IP.    *)
Matchable(b, ip) == b.on /\ b.ip = ip /\ now - b.at <= ContextTTL

(* matchContextLocked: the longest prefix, the most recent of the longest. *)
Prefixes(b, i) == {c \in Convs : Matchable(b[c], i.ip) /\ Continues(b[c].hist, i.msgs)}
Best(b, i) ==
    {c \in Prefixes(b, i) : \A d \in Prefixes(b, i) :
        \/ Len(b[d].hist) < Len(b[c].hist)
        \/ Len(b[d].hist) = Len(b[c].hist) /\ b[d].at <= b[c].at}

Hit(c, from, start, aligned) ==
    [conv |-> c, from |-> from, start |-> start, aligned |-> aligned]

(* What Resolve can answer: a session named by the header, else the best   *)
(* prefix, else a similar one or none.  How similar two texts are is a     *)
(* choice.  openaiChat sends everything unless 0 < HistoryLen < all.       *)
Explicit(b, i) == i.header \in Convs /\ b[i.header].on
Increment(hist, msgs) == IF Len(hist) < Len(msgs) THEN Len(hist) ELSE 0
Resolve(b, i) ==
    CASE Explicit(b, i) ->
            LET h == b[i.header].hist
            IN  {Hit(i.header, "explicit", Increment(h, i.msgs),
                     Increment(h, i.msgs) = 0 \/ Continues(h, i.msgs))}
      [] ~Explicit(b, i) /\ Prefixes(b, i) # {} ->
            {Hit(c, "prefix", Len(b[c].hist), TRUE) : c \in Best(b, i)}
      [] OTHER ->
            {Hit(Null, "new", 0, TRUE)}
            \cup {Hit(c, "similar", 0, TRUE) : c \in {d \in Convs : Matchable(b[d], i.ip)}}

(* A hit refreshes LastUsedAt.                                             *)
Touched(b, c) == IF c = Null THEN b ELSE [b EXCEPT ![c].at = now]

(* userSessionStore.evictLocked                                            *)
LiveUsers == [u \in Users |-> IF now - users[u].at > UserTTL THEN NoSession ELSE users[u]]

Resolved(i, o) ==
    [stage |-> "resolved", in |-> i, conv |-> o.conv, from |-> o.from,
     start |-> o.start, aligned |-> o.aligned, tries |-> 1]

(* openaiChat: the user's own session, sent in full, goes before Resolve.  *)
ByUser(r, i) ==
    /\ req[r].stage = "idle"
    /\ i.user # Null /\ LiveUsers[i.user].conv # Null
    /\ users' = [LiveUsers EXCEPT ![i.user].at = now]
    /\ req' = [req EXCEPT ![r] = Resolved(i, Hit(LiveUsers[i.user].conv, "user", 0, TRUE))]
    /\ UNCHANGED <<now, cloud, bindings, managed, whitelist, cleaner, dropping>>

ByContent(r, i) ==
    /\ req[r].stage = "idle"
    /\ i.user # Null => LiveUsers[i.user].conv = Null
    /\ users' = IF i.user = Null THEN users ELSE LiveUsers
    /\ \E b \in Evicted : \E o \in Resolve(b, i) :
        /\ bindings' = Touched(b, o.conv)
        /\ req' = [req EXCEPT ![r] = Resolved(i, o)]
    /\ UNCHANGED <<now, cloud, managed, whitelist, cleaner, dropping>>

-----------------------------------------------------------------------------
(* Sending the prompt *)

Prompt(q) == {q.in.msgs[j] : j \in q.start + 1..Len(q.in.msgs)}

(* The client mints conversation ids itself (chathub.Client), so an id     *)
(* whose conversation was deleted opens an empty one.                      *)
Received(k, q) ==
    [state |-> "live",
     born |-> IF k.state = "live" THEN k.born ELSE now,
     said |-> Prompt(q) \cup IF k.state = "live" THEN k.said ELSE {},
     ips |-> k.ips \cup {q.in.ip},
     shared |-> k.shared \/ (q.from \in {"user", "explicit"} /\ ~ k.ips \subseteq {q.in.ip}),
     intact |-> IF k.state = "unborn" THEN q.start = 0 ELSE k.intact /\ q.aligned]

Send(r) ==
    /\ req[r].stage = "resolved"
    /\ \E c \in IF req[r].conv = Null THEN Fresh ELSE {req[r].conv} :
        /\ cloud' = [cloud EXCEPT ![c] = Received(@, req[r])]
        /\ req' = [req EXCEPT ![r].stage = "sent", ![r].conv = c]
    /\ UNCHANGED <<now, bindings, users, managed, whitelist, cleaner, dropping>>

(* streamChatWithRecovery: an interrupted stream starts again in a fresh   *)
(* conversation, with the prompt the first attempt had.                    *)
Recover(r) ==
    /\ req[r].stage = "sent" /\ req[r].in.stream /\ req[r].tries < MaxTries
    /\ \E c \in Fresh :
        /\ cloud' = [cloud EXCEPT ![c] = Received(@, req[r])]
        /\ req' = [req EXCEPT ![r].conv = c, ![r].from = "new",
                              ![r].tries = @ + 1]
    /\ UNCHANGED <<now, bindings, users, managed, whitelist, cleaner, dropping>>

(* A request that has ended keeps what it was and where it went.           *)
Ended(q, stage) == [q EXCEPT !.stage = stage, !.from = "new", !.start = 0,
                             !.aligned = TRUE, !.tries = 0]

Fail(r) ==
    /\ req[r].stage \in {"resolved", "sent"}
    /\ req' = [req EXCEPT ![r] = Ended(@, "failed")]
    /\ UNCHANGED <<now, cloud, bindings, users, managed, whitelist, cleaner, dropping>>

-----------------------------------------------------------------------------
(* After the answer: three stores, one after the other *)

PutUser(r) ==
    /\ req[r].stage = "sent"
    /\ users' = IF req[r].in.user = Null THEN users
                ELSE [users EXCEPT ![req[r].in.user] = [conv |-> req[r].conv, at |-> now]]
    /\ req' = [req EXCEPT ![r].stage = "put"]
    /\ UNCHANGED <<now, cloud, bindings, managed, whitelist, cleaner, dropping>>

Bind(r) ==
    /\ req[r].stage = "put"
    /\ \E b \in Evicted :
        bindings' = [b EXCEPT ![req[r].conv] =
            [on |-> TRUE, ip |-> req[r].in.ip, hist |-> req[r].in.msgs, at |-> now]]
    /\ req' = [req EXCEPT ![r].stage = "bound"]
    /\ UNCHANGED <<now, cloud, users, managed, whitelist, cleaner, dropping>>

(* conversationManager.Record, then Cleanup in the default mode.  Cleanup  *)
(* forgets; it deletes nothing in the cloud.                               *)
Record(r) ==
    /\ req[r].stage = "bound"
    /\ LET m == [managed EXCEPT ![req[r].conv] = [on |-> TRUE, at |-> now]]
           forgotten == {c \in Convs \ whitelist : now - m[c].at > ManagedAge}
       IN  managed' = [c \in Convs |-> IF c \in forgotten
                                       THEN [on |-> FALSE, at |-> 0] ELSE m[c]]
    /\ req' = [req EXCEPT ![r] = IF req[r].in.stream THEN Ended(@, "done")
                                 ELSE [req[r] EXCEPT !.stage = "recorded"]]
    /\ UNCHANGED <<now, cloud, bindings, users, whitelist, cleaner, dropping>>

(* A non-streaming reply carries the session id of a second Resolve, which *)
(* refreshes whatever it hits.                                             *)
Reply(r) ==
    /\ req[r].stage = "recorded"
    /\ \E b \in Evicted : \E o \in Resolve(b, req[r].in) : bindings' = Touched(b, o.conv)
    /\ req' = [req EXCEPT ![r] = Ended(@, "done")]
    /\ UNCHANGED <<now, cloud, users, managed, whitelist, cleaner, dropping>>

-----------------------------------------------------------------------------
(* The cleaner *)

(* activeConversationSet(maxAge)                                           *)
Recent(at) == now - at < MaxAge
Active ==
    {c \in Bound : Recent(bindings[c].at)}
    \cup {users[u].conv : u \in {v \in Users : users[v].conv # Null /\ Recent(users[v].at)}}
    \cup whitelist
    \cup {c \in Convs : managed[c].on /\ Recent(managed[c].at)}

Asleep == [stage |-> "idle", start |-> 0, active |-> {}, todo |-> {},
           cur |-> Null, any |-> FALSE]

Deleted(c) == [cloud EXCEPT ![c].state = "deleted", ![c].intact = FALSE]
DropBinding(c) == bindings' = [bindings EXCEPT ![c] = Unbound]
Drop(c) ==
    /\ managed' = [managed EXCEPT ![c] = [on |-> FALSE, at |-> 0]]
    /\ DropBinding(c)

(* The clock is read, and the protected conversations are collected, once  *)
(* for all rounds.                                                         *)
CleanerWake ==
    /\ AutoCleanup /\ cleaner.stage = "idle"
    /\ cleaner' = [cleaner EXCEPT !.stage = "list", !.start = now, !.active = Active]
    /\ UNCHANGED <<now, cloud, bindings, users, managed, whitelist, req, dropping>>

(* A listing shows a screen of conversations, the newest ones first.       *)
Listed == {c \in Live : Cardinality({d \in Live : d > c}) < Page}
Unprotected == Listed \ cleaner.active
(* Variant: conversations get one more tick.                               *)
StaleLater == {c \in Unprotected : cleaner.start - cloud[c].born > MaxAge + 1}
Stale == {c \in Unprotected : cleaner.start - cloud[c].born > MaxAge}
(* rest, sorted oldest first, from position keepN on.                      *)
Excesses ==
    LET rest == Unprotected \ Stale
    IN  {E \in SUBSET rest :
            /\ Cardinality(rest \ E) = IF Cardinality(rest) > KeepN
                                       THEN KeepN ELSE Cardinality(rest)
            /\ \A k \in rest \ E, e \in E : cloud[k].born <= cloud[e].born}

CleanerList ==
    /\ cleaner.stage = "list"
    /\ \E E \in Excesses :
        cleaner' = [cleaner EXCEPT !.stage = "delete", !.todo = Stale \cup E, !.any = FALSE]
    /\ UNCHANGED <<now, cloud, bindings, users, managed, whitelist, req, dropping>>

CleanerListFails ==
    /\ cleaner.stage = "list"
    /\ cleaner' = Asleep
    /\ UNCHANGED <<now, cloud, bindings, users, managed, whitelist, req, dropping>>

CleanerDelete(c) ==
    /\ cleaner.stage = "delete" /\ cleaner.cur = Null /\ c \in cleaner.todo
    /\ cloud' = Deleted(c)
    /\ cleaner' = [cleaner EXCEPT !.todo = @ \ {c}, !.cur = c, !.any = TRUE]
    /\ UNCHANGED <<now, bindings, users, managed, whitelist, req, dropping>>

CleanerDeleteFails(c) ==
    /\ cleaner.stage = "delete" /\ cleaner.cur = Null /\ c \in cleaner.todo
    /\ cleaner' = [cleaner EXCEPT !.todo = @ \ {c}]
    /\ UNCHANGED <<now, cloud, bindings, users, managed, whitelist, req, dropping>>

CleanerDrop ==
    /\ cleaner.cur # Null
    /\ Drop(cleaner.cur)
    /\ cleaner' = [cleaner EXCEPT !.cur = Null]
    /\ UNCHANGED <<now, cloud, users, whitelist, req, dropping>>

(* Another round as long as the last one deleted something.                *)
CleanerRound ==
    /\ cleaner.stage = "delete" /\ cleaner.cur = Null /\ cleaner.todo = {}
    /\ cleaner' = IF cleaner.any THEN [cleaner EXCEPT !.stage = "list"] ELSE Asleep
    /\ UNCHANGED <<now, cloud, bindings, users, managed, whitelist, req, dropping>>

-----------------------------------------------------------------------------
(* The admin handlers *)

(* handleM365Delete: the cloud first, then dropConversation.               *)
AdminDelete(c) ==
    /\ "delete" \in Admin /\ c \in Live
    /\ cloud' = Deleted(c)
    /\ dropping' = dropping \cup {c}
    /\ UNCHANGED <<now, bindings, users, managed, whitelist, req, cleaner>>

AdminDrop(c) ==
    /\ c \in dropping
    /\ Drop(c)
    /\ dropping' = dropping \ {c}
    /\ UNCHANGED <<now, cloud, users, whitelist, req, cleaner>>

(* handleM365Cleanup, in full in CloudSweep: of what the loop meets it can *)
(* delete anything that is old and, if it meets a second conversation,     *)
(* anything else.  It drops nothing of the gateway's own.                  *)
AdminSweep(c) ==
    /\ "sweep" \in Admin /\ c \in Live
    /\ now > cloud[c].born \/ \E d \in Convs \ {c} : cloud[d].state # "unborn"
    /\ cloud' = Deleted(c)
    /\ UNCHANGED <<now, bindings, users, managed, whitelist, req, cleaner, dropping>>

(* DELETE /v1/sessions/<id>                                                *)
AdminForget(c) ==
    /\ "forget" \in Admin /\ c \in Bound
    /\ DropBinding(c)
    /\ UNCHANGED <<now, cloud, users, managed, whitelist, req, cleaner, dropping>>

AdminWhitelist(c) ==
    /\ "whitelist" \in Admin /\ cloud[c].state # "unborn"
    /\ whitelist' = IF c \in whitelist THEN whitelist \ {c} ELSE whitelist \cup {c}
    /\ UNCHANGED <<now, cloud, bindings, users, managed, req, cleaner, dropping>>

Tick ==
    /\ now < MaxTime
    /\ now' = now + 1
    /\ UNCHANGED <<cloud, bindings, users, managed, whitelist, req, cleaner, dropping>>

-----------------------------------------------------------------------------
Init ==
    /\ now = 0
    /\ cloud = [c \in Convs |-> [state |-> "unborn", born |-> 0, said |-> {},
                                 ips |-> {}, shared |-> FALSE, intact |-> FALSE]]
    /\ bindings = [c \in Convs |-> Unbound]
    /\ users = [u \in Users |-> NoSession]
    /\ managed = [c \in Convs |-> [on |-> FALSE, at |-> 0]]
    /\ whitelist = {}
    /\ req = [r \in Requests |->
                [stage |-> "idle", in |-> CHOOSE i \in Inputs : TRUE, conv |-> Null,
                 from |-> "new", start |-> 0, aligned |-> TRUE, tries |-> 0]]
    /\ cleaner = Asleep
    /\ dropping = {}

RequestStep(r) ==
    \/ \E i \in Inputs : ByUser(r, i) \/ ByContent(r, i)
    \/ Send(r) \/ Recover(r) \/ Fail(r)
    \/ PutUser(r) \/ Bind(r) \/ Record(r) \/ Reply(r)
CleanerStep ==
    \/ CleanerWake \/ CleanerList \/ CleanerListFails \/ CleanerDrop \/ CleanerRound
    \/ \E c \in Convs : CleanerDelete(c) \/ CleanerDeleteFails(c)
AdminStep ==
    \E c \in Convs : \/ AdminDelete(c) \/ AdminDrop(c) \/ AdminSweep(c)
                     \/ AdminForget(c) \/ AdminWhitelist(c)

Next == (\E r \in Requests : RequestStep(r)) \/ CleanerStep \/ AdminStep \/ Tick

Spec == Init /\ [][Next]_vars

(* The loop keeps running, and calls to the cloud that are tried again and *)
(* again succeed at last.                                                  *)
CleanerFairness ==
    /\ WF_vars(CleanerWake) /\ WF_vars(CleanerDrop) /\ WF_vars(CleanerRound)
    /\ SF_vars(CleanerList)
    /\ \A c \in Convs : SF_vars(CleanerDelete(c))
FairSpec == Spec /\ CleanerFairness

-----------------------------------------------------------------------------
(* Every variable keeps its type.                                          *)
TypeOK ==
    /\ now \in Nat
    /\ cloud \in [Convs -> Conversation]
    /\ bindings \in [Convs -> Binding]
    /\ users \in [Users -> UserSession]
    /\ managed \in [Convs -> [on : BOOLEAN, at : Nat]]
    /\ whitelist \subseteq Convs
    /\ req \in [Requests -> Request]
    /\ cleaner \in Cleaner
    /\ dropping \subseteq Convs

(* A request that is given a conversation because of what it says          *)
(* (matchContextLocked and the similarity search, same IP fingerprint      *)
(* only) never lands among the words of a client of another IP, unless     *)
(* that client's session id or user field had let a stranger in before.    *)
NoCrossTalk ==
    \A r \in Requests :
        LET q == req[r] IN
        q.stage # "idle" /\ q.from \in {"prefix", "similar"} =>
            cloud[q.conv].shared \/ cloud[q.conv].ips \subseteq {q.in.ip}

(* HistoryLen: when a request has been sent, its conversation holds every  *)
(* turn of it, those skipped included, as long as the conversation itself  *)
(* is intact, that is, was never deleted, never taken over by the recovery *)
(* of a stream, and never addressed by a session id with another history.  *)
IntactHoldsHistory ==
    \A r \in Requests :
        LET q == req[r] IN
        q.stage \in {"sent", "put", "bound", "recorded"} /\ cloud[q.conv].intact =>
            \A j \in 1..Len(q.in.msgs) : q.in.msgs[j] \in cloud[q.conv].said

(* A conversation that is older than maxAge and that nothing protects is   *)
(* reclaimed by the cleaner, or comes into use again: provided that one    *)
(* screen of the listing shows everything.                                 *)
Idle(c) == c \in Live /\ now - cloud[c].born > MaxAge /\ c \notin Active
IdleReclaimed == Page >= MaxConvs => \A c \in Convs : Idle(c) ~> ~Idle(c)

-----------------------------------------------------------------------------
(* A statement of the README that the code does not keep.                  *)

(* HistoryLen is the number of messages the conversation already holds, so *)
(* that a request sent to a live conversation always has its history there *)
(* (README.md:370, session_resolver.go ResolveResult).                     *)
HistoryLenIsTrue ==
    \A r \in Requests :
        LET q == req[r] IN
        q.stage \in {"sent", "put", "bound", "recorded"} /\ q.conv \in Live =>
            \A j \in 1..Len(q.in.msgs) : q.in.msgs[j] \in cloud[q.conv].said
=============================================================================
