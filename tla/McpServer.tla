------------------------------ MODULE McpServer ------------------------------
(***************************************************************************)
(* The MCP endpoints: the session registry with the SSE transport and its  *)
(* message endpoint (internal/mcp/server.go), the streamable HTTP          *)
(* transport, which shares the registry (http.go), and the queue through   *)
(* which a tool call waits for a worker (queue.go).                        *)
(*                                                                         *)
(* streamSessionStore, which only remembers when an id was last used, is   *)
(* left out.  Sessions are numbered in the order of their registration     *)
(* (the code takes the clock's nanoseconds).  A request's tool call and    *)
(* its answer carry the request's name.                                    *)
(***************************************************************************)
EXTENDS Naturals, Sequences, SequencesExt, FiniteSets

CONSTANTS
    Requests,   \* POSTs that are made
    MayAsk,     \* the methods each may ask for
    Workers,    \* who dequeues tool calls
    MaxSessions,\* bound: sessions ever registered
    Cap         \* capacity of a session's msgCh, 64 in the code

NoCall == "none"

ASSUME McpAssumption ==
    /\ MaxSessions \in Nat \ {0} /\ Cap \in Nat
    /\ MayAsk \in [Requests -> SUBSET {"list", "notify", "call"}]
    /\ NoCall \notin Requests

VARIABLES
    registered, \* sessions registered so far
    open,       \* sessions in the registry
    closes,     \* how often each session's done has been closed
    tooled,     \* sessions with a provider (SetSessionTools)
    sse,        \* sessions whose HandleSSE is running
    box,        \* msgCh of each session
    got,        \* answers each SSE client has received
    req,        \* the requests
    queue,      \* ToolCallQueue.pending
    worker,     \* the call each worker executes
    slot        \* ResultCh and ErrCh of each call

sessionVars == <<registered, open, closes, tooled, sse>>
callVars == <<queue, worker, slot>>
vars == <<sessionVars, callVars, box, got, req>>

Ids == 1..MaxSessions
Methods == {"list", "notify", "call"}
Stages == {"idle", "rpc", "wait", "respond", "done"}
Replies == {"none", "notFound", "accepted", "dropped", "body"}
Results == {"none", "tools", "error", "forwarded", "result"}

Set(r, new) == req' = [req EXCEPT ![r] = new]

Init ==
    /\ registered = 0 /\ open = {} /\ closes = [i \in Ids |-> 0] /\ tooled = {}
    /\ sse = {}
    /\ box = [i \in Ids |-> <<>>] /\ got = [i \in Ids |-> {}]
    /\ req \in [Requests -> [stage : {"idle"}, sess : {0}, via : {"message"}, method : Methods,
                             result : {"none"}, reply : {"none"}]]
    /\ \A r \in Requests : req[r].method \in MayAsk[r]
    /\ queue = <<>> /\ worker = [w \in Workers |-> NoCall] /\ slot = [r \in Requests |-> "empty"]

-----------------------------------------------------------------------------
(* RegisterSession.                                                        *)
Register ==
    /\ registered < MaxSessions
    /\ registered' = registered + 1 /\ open' = open \cup {registered + 1}

(* UnregisterSession: look-up, close and delete under the registry's lock. *)
Unregister(i) ==
    /\ closes' = IF i \in open THEN [closes EXCEPT ![i] = @ + 1] ELSE closes
    /\ open' = open \ {i}

OpenSSE ==
    /\ Register
    /\ sse' = sse \cup {registered + 1}
    /\ UNCHANGED <<closes, tooled, box, got, req, callVars>>

(* HandleSSE's select: a message, the client's leaving, or done; the       *)
(* deferred UnregisterSession runs in any case.                            *)
SendEvent(i) ==
    /\ i \in sse /\ box[i] # <<>>
    /\ box' = [box EXCEPT ![i] = Tail(@)]
    /\ got' = [got EXCEPT ![i] = @ \cup {Head(box[i])}]
    /\ UNCHANGED <<sessionVars, req, callVars>>

SSELeaves(i) ==
    /\ i \in sse
    /\ sse' = sse \ {i}
    /\ Unregister(i)
    /\ UNCHANGED <<registered, tooled, box, got, req, callVars>>

SSEDone(i) == closes[i] > 0 /\ SSELeaves(i)

(* SetSessionTools.                                                        *)
SetTools(i) ==
    /\ i \in open \ tooled
    /\ tooled' = tooled \cup {i}
    /\ UNCHANGED <<registered, open, closes, sse, box, got, req, callVars>>

-----------------------------------------------------------------------------
(* HandleMessage: the session is looked up once.                           *)
Message(r, i) ==
    /\ req[r].stage = "idle"
    /\ Set(r, IF i \in open THEN [req[r] EXCEPT !.stage = "rpc", !.sess = i]
              ELSE [req[r] EXCEPT !.stage = "done", !.reply = "notFound"])
    /\ UNCHANGED <<sessionVars, callVars, box, got>>

(* HandleStreamable: ensure takes any session of the registry, and makes a *)
(* new one for an id it does not find.                                     *)
Streamable(r, i) ==
    /\ req[r].stage = "idle"
    /\ LET s == IF i \in open THEN i ELSE registered + 1 IN
       /\ IF i \in open THEN UNCHANGED <<registered, open>> ELSE Register
       /\ Set(r, [req[r] EXCEPT !.stage = "rpc", !.sess = s, !.via = "stream"])
    /\ UNCHANGED <<closes, tooled, sse, callVars, box, got>>

(* DELETE unregisters any session.                                         *)
Drop(i) ==
    /\ i \in open
    /\ Unregister(i)
    /\ UNCHANGED <<registered, tooled, sse, callVars, box, got, req>>

-----------------------------------------------------------------------------
(* handleRPC.                                                              *)
Rpc(r) ==
    /\ req[r].stage = "rpc"
    /\ LET calls == req[r].method = "call" /\ req[r].sess \in tooled IN
       /\ Set(r, CASE req[r].method = "list" -> [req[r] EXCEPT !.stage = "respond", !.result = "tools"]
                   [] req[r].method = "notify" -> [req[r] EXCEPT !.stage = "done", !.reply = "accepted"]
                   [] calls -> [req[r] EXCEPT !.stage = "wait"]
                   [] OTHER -> [req[r] EXCEPT !.stage = "respond", !.result = "error"])
       /\ queue' = IF calls THEN Append(queue, r) ELSE queue
    /\ UNCHANGED <<sessionVars, worker, slot, box, got>>

(* CallTool's select: the worker's result or error, the timer of 30 s, the *)
(* request's context.  The call stays where it is.                         *)
Answered(r) ==
    /\ req[r].stage = "wait" /\ slot[r] # "empty"
    /\ slot' = [slot EXCEPT ![r] = "empty"]
    /\ Set(r, [req[r] EXCEPT !.stage = "respond", !.result = slot[r]])
    /\ UNCHANGED <<sessionVars, queue, worker, box, got>>

Unanswered(r) ==
    /\ req[r].stage = "wait"
    /\ \E how \in {"forwarded", "error"} :
          Set(r, [req[r] EXCEPT !.stage = "respond", !.result = how])
    /\ UNCHANGED <<sessionVars, callVars, box, got>>

(* Variant: the call is not taken off the queue.                           *)
DequeuePeek(w) ==
    /\ worker[w] = NoCall /\ queue # <<>>
    /\ worker' = [worker EXCEPT ![w] = Head(queue)]
    /\ UNCHANGED <<sessionVars, queue, slot, box, got, req>>
Dequeue(w) ==
    /\ worker[w] = NoCall /\ queue # <<>>
    /\ worker' = [worker EXCEPT ![w] = Head(queue)] /\ queue' = Tail(queue)
    /\ UNCHANGED <<sessionVars, slot, box, got, req>>

(* Resolve never blocks.                                                   *)
Resolve(w) ==
    /\ worker[w] # NoCall
    /\ slot' \in {[slot EXCEPT ![worker[w]] = how] : how \in {"result", "error"}}
    /\ worker' = [worker EXCEPT ![w] = NoCall]
    /\ UNCHANGED <<sessionVars, queue, box, got, req>>

(* Variant: a full channel blocks the handler.                             *)
RespondBlocking(r) ==
    /\ req[r].stage = "respond"
    /\ LET i == req[r].sess
           posted == req[r].via = "message" IN
       /\ posted => Len(box[i]) < Cap
       /\ box' = IF posted THEN [box EXCEPT ![i] = Append(@, r)] ELSE box
       /\ Set(r, [req[r] EXCEPT !.stage = "done", !.reply = IF posted THEN "accepted" ELSE "body"])
    /\ UNCHANGED <<sessionVars, callVars, got>>
(* Variant: the session is looked up again, as the newest.                 *)
RespondNewest(r) ==
    /\ req[r].stage = "respond"
    /\ LET fits == req[r].via = "message" /\ Len(box[registered]) < Cap IN
       /\ box' = IF fits THEN [box EXCEPT ![registered] = Append(@, r)] ELSE box
       /\ Set(r, [req[r] EXCEPT !.stage = "done",
                     !.reply = IF req[r].via = "stream" THEN "body"
                               ELSE IF fits THEN "accepted" ELSE "dropped"])
    /\ UNCHANGED <<sessionVars, callVars, got>>
(* The streamable transport answers in the body; the message endpoint puts *)
(* the answer into the session's channel if there is room and says         *)
(* accepted either way ("dropped" tells the two apart).                    *)
Respond(r) ==
    /\ req[r].stage = "respond"
    /\ LET i == req[r].sess
           fits == req[r].via = "message" /\ Len(box[i]) < Cap IN
       /\ box' = IF fits THEN [box EXCEPT ![i] = Append(@, r)] ELSE box
       /\ Set(r, [req[r] EXCEPT !.stage = "done",
                     !.reply = IF req[r].via = "stream" THEN "body"
                               ELSE IF fits THEN "accepted" ELSE "dropped"])
    /\ UNCHANGED <<sessionVars, callVars, got>>

-----------------------------------------------------------------------------
Next ==
    \/ OpenSSE
    \/ \E i \in Ids : SendEvent(i) \/ SSELeaves(i) \/ SSEDone(i) \/ SetTools(i) \/ Drop(i)
    \/ \E r \in Requests :
          \/ \E i \in Ids : Message(r, i) \/ Streamable(r, i)
          \/ Rpc(r) \/ Answered(r) \/ Unanswered(r) \/ Respond(r)
    \/ \E w \in Workers : Dequeue(w) \/ Resolve(w)

Spec == Init /\ [][Next]_vars

(* Handlers run, an SSE handler reads its channel, and the timer fires; no *)
(* worker need ever come, no client need leave.                            *)
McpFairness ==
    /\ \A r \in Requests :
          WF_vars(Rpc(r)) /\ WF_vars(Answered(r) \/ Unanswered(r)) /\ WF_vars(Respond(r))
    /\ \A i \in Ids : WF_vars(SendEvent(i)) /\ WF_vars(SSEDone(i))

-----------------------------------------------------------------------------
TypeOK ==
    /\ registered \in 0..MaxSessions /\ open \subseteq 1..registered
    /\ closes \in [Ids -> Nat] /\ tooled \subseteq Ids
    /\ sse \subseteq Ids
    /\ (\A i \in Ids : box[i] \in Seq(Requests) /\ Len(box[i]) <= Cap)
    /\ got \in [Ids -> SUBSET Requests]
    /\ req \in [Requests -> [stage : Stages, sess : 0..MaxSessions, via : {"message", "stream"},
                             method : Methods, result : Results, reply : Replies]]
    /\ queue \in Seq(Requests) /\ worker \in [Workers -> Requests \cup {NoCall}]
    /\ slot \in [Requests -> {"empty", "result", "error"}]

(* A tool call is in one place: queued once, or with one worker, or        *)
(* resolved.                                                               *)
CallInOnePlace ==
    \A r \in Requests :
        Cardinality({k \in DOMAIN queue : queue[k] = r}) + Cardinality({w \in Workers : worker[w] = r})
          + (IF slot[r] = "empty" THEN 0 ELSE 1) <= 1

(* No answer is lost while its session lives, unless the channel was full; *)
(* and none reaches another session's client.                              *)
AnswerKept ==
    \A r \in Requests :
        /\ req[r].reply = "accepted" /\ req[r].method # "notify" /\ req[r].sess \in sse =>
              r \in ToSet(box[req[r].sess]) \cup got[req[r].sess]
        /\ \A i \in Ids : r \in got[i] => i = req[r].sess /\ req[r].via = "message"

(* Every request is answered, also when no worker takes its call and       *)
(* nobody reads the session's channel.                                     *)
RequestEnds == \A r \in Requests : req[r].stage = "rpc" ~> req[r].stage = "done"
==============================================================================
