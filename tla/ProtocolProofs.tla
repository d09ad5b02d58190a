---------------------------- MODULE ProtocolProofs ----------------------------
(***************************************************************************)
(* The protocols clients speak, for every instance.  The MCP endpoints: a  *)
(* tool call is in one place, and an answer reaches its own session or     *)
(* stays in its channel.  The kept responses: a recent one can be followed *)
(* up.  The tool turns: a change is given out alone, and what it has       *)
(* overtaken may be asked again.                                           *)
(***************************************************************************)
EXTENDS McpServer, Responses, ToolTurns, FiniteSetTheorems, SequenceTheorems,
        WellFoundedInduction, TLAPS

-----------------------------------------------------------------------------
(* A sequence and its elements.                                            *)
LEMMA ToSetAppend ==
    ASSUME NEW S, NEW s \in Seq(S), NEW e \in S
    PROVE  ToSet(Append(s, e)) = ToSet(s) \cup {e}
<1>1. /\ Append(s, e) \in Seq(S) /\ Len(Append(s, e)) = Len(s) + 1 /\ Len(s) \in Nat
      /\ \A k \in 1..Len(s) : Append(s, e)[k] = s[k]
      /\ Append(s, e)[Len(s) + 1] = e
  OBVIOUS
<1>2. 1..Len(s) + 1 = 1..Len(s) \cup {Len(s) + 1}
  BY <1>1
<1>3. DOMAIN s = 1..Len(s) /\ DOMAIN Append(s, e) = 1..Len(s) + 1
  BY <1>1
<1> HIDE DEF ToSet
<1>4. ToSet(Append(s, e)) = {Append(s, e)[k] : k \in 1..Len(s) + 1}
  BY <1>3 DEF ToSet
<1>5. ToSet(s) = {s[k] : k \in 1..Len(s)}
  BY <1>3 DEF ToSet
<1> QED
  BY <1>1, <1>2, <1>4, <1>5

LEMMA ToSetTail ==
    ASSUME NEW S, NEW s \in Seq(S), s # <<>>
    PROVE  ToSet(s) = {Head(s)} \cup ToSet(Tail(s))
<1>1. /\ Len(s) \in Nat \ {0} /\ Len(Tail(s)) = Len(s) - 1 /\ Head(s) = s[1]
      /\ \A k \in 1..Len(s) - 1 : Tail(s)[k] = s[k + 1]
  OBVIOUS
<1>2. DOMAIN s = 1..Len(s) /\ DOMAIN Tail(s) = 1..Len(s) - 1
  BY <1>1
<1>3. ToSet(s) = {s[k] : k \in 1..Len(s)} /\ ToSet(Tail(s)) = {Tail(s)[k] : k \in 1..Len(s) - 1}
  BY <1>2 DEF ToSet
<1>4. \A k \in 2..Len(s) : k - 1 \in 1..Len(s) - 1 /\ s[k] = Tail(s)[k - 1]
  BY <1>1
<1>5. \A k \in 1..Len(s) : k = 1 \/ k \in 2..Len(s)
  BY <1>1
<1>6. \A k \in 1..Len(s) - 1 : k + 1 \in 1..Len(s)
  BY <1>1
<1> HIDE DEF ToSet
<1>7. ASSUME NEW x \in ToSet(s)
      PROVE  x \in {Head(s)} \cup ToSet(Tail(s))
  <2>1. PICK k \in 1..Len(s) : x = s[k]
    BY <1>3, <1>7
  <2> QED
    BY <2>1, <1>1, <1>3, <1>4, <1>5
<1>8. Head(s) \in ToSet(s)
  <2>1. 1 \in 1..Len(s)
    BY <1>1
  <2> QED
    BY <2>1, <1>1, <1>3
<1>9. ASSUME NEW x \in ToSet(Tail(s))
      PROVE  x \in ToSet(s)
  <2>1. PICK k \in 1..Len(s) - 1 : x = Tail(s)[k]
    BY <1>3, <1>9
  <2> QED
    BY <2>1, <1>1, <1>3, <1>6
<1> QED
  BY <1>7, <1>8, <1>9

-----------------------------------------------------------------------------
(* The MCP endpoints.                                                      *)
Queued(r) == \E k \in DOMAIN queue : queue[k] = r
Executed(r) == \E w \in Workers : worker[w] = r

(* Nothing is queued twice or executed by two workers, nothing that is     *)
(* queued is executed, and what is resolved is neither.  A call enters the *)
(* queue once: before its handleRPC it is nowhere.                         *)
OnePlace ==
    /\ \A k, l \in DOMAIN queue : queue[k] = queue[l] => k = l
    /\ \A v, w \in Workers : worker[v] = worker[w] /\ worker[v] # NoCall => v = w
    /\ \A r \in Requests :
          /\ Queued(r) => ~Executed(r)
          /\ slot[r] # "empty" => ~Queued(r) /\ ~Executed(r)
          /\ req[r].stage \in {"idle", "rpc"} => slot[r] = "empty" /\ ~Queued(r) /\ ~Executed(r)

(* A request has its session from the look-up on; its answer is in the     *)
(* channel of that session, or with its client, and nowhere else.          *)
AnswersAtHome ==
    \A r \in Requests :
        /\ req[r].stage \in {"rpc", "wait", "respond"} => req[r].sess \in Ids /\ req[r].reply = "none"
        /\ req[r].stage = "idle" => req[r].reply = "none" /\ req[r].via = "message"
        /\ \A i \in Ids :
              r \in ToSet(box[i]) \cup got[i] =>
                  req[r].stage = "done" /\ req[r].sess = i /\ req[r].via = "message"
        /\ req[r].reply = "accepted" /\ req[r].method # "notify" =>
              req[r].sess \in Ids /\ r \in ToSet(box[req[r].sess]) \cup got[req[r].sess]

McpInv ==
    /\ TypeOK /\ box \in [Ids -> Seq(Requests)]
    /\ OnePlace /\ AnswersAtHome

LEMMA McpInit == Init => McpInv
<1> SUFFICES ASSUME Init
             PROVE  McpInv
  OBVIOUS
<1>1. ToSet(<<>>) = {}
  BY DEF ToSet
<1>2. TypeOK /\ box \in [Ids -> Seq(Requests)]
  BY McpAssumption DEF Init, TypeOK, Ids, Methods, Stages, Results, Replies
<1>3. OnePlace
  BY McpAssumption DEF Init, OnePlace, Queued, Executed
<1>4. AnswersAtHome
  BY <1>1 DEF Init, AnswersAtHome
<1> QED
  BY <1>2, <1>3, <1>4 DEF McpInv

(* A step that leaves the calls' places alone, and takes no request back   *)
(* to before its handleRPC.                                                *)
LEMMA PlacesStay ==
    ASSUME OnePlace, UNCHANGED callVars,
           \A r \in Requests : req'[r].stage \in {"idle", "rpc"} => req[r].stage \in {"idle", "rpc"}
    PROVE  OnePlace'
BY DEF OnePlace, Queued, Executed, callVars

(* What the steps of a request do to it.                                   *)
RequestType ==
    [stage : Stages, sess : 0..MaxSessions, via : {"message", "stream"},
     method : Methods, result : Results, reply : Replies]

Becomes(r, stage) ==
    /\ req' \in [Requests -> RequestType] /\ req'[r].stage = stage
    /\ req'[r].method = req[r].method
    /\ \A q \in Requests : q # r => req'[q] = req[q]

LEMMA Changed ==
    ASSUME req \in [Requests -> RequestType], NEW r \in Requests,
           NEW new \in RequestType, Set(r, new)
    PROVE  req' \in [Requests -> RequestType] /\ req'[r] = new /\ \A q \in Requests : q # r => req'[q] = req[q]
BY DEF Set

LEMMA Typed ==
    ASSUME McpInv
    PROVE  /\ req \in [Requests -> RequestType] /\ registered \in 0..MaxSessions
           /\ open \subseteq 1..registered /\ closes \in [Ids -> Nat]
           /\ tooled \subseteq Ids /\ sse \subseteq Ids
           /\ box \in [Ids -> Seq(Requests)] /\ (\A i \in Ids : Len(box[i]) <= Cap)
           /\ got \in [Ids -> SUBSET Requests]
           /\ queue \in Seq(Requests) /\ worker \in [Workers -> Requests \cup {NoCall}]
           /\ slot \in [Requests -> {"empty", "result", "error"}]
           /\ OnePlace /\ AnswersAtHome
BY DEF McpInv, TypeOK, RequestType

LEMMA MessageEffect ==
    ASSUME McpInv, NEW r \in Requests, NEW i \in Ids, Message(r, i)
    PROVE  /\ req[r].stage = "idle"
           /\ \/ /\ Becomes(r, "rpc") /\ req'[r].sess = i
                 /\ req'[r].reply = req[r].reply /\ req'[r].via = req[r].via
              \/ Becomes(r, "done") /\ req'[r].reply = "notFound"
<1>1. req[r] \in RequestType
  BY Typed
<1>2. CASE i \in open
  <2> DEFINE new == [req[r] EXCEPT !.stage = "rpc", !.sess = i]
  <2>1. new \in RequestType /\ new.stage = "rpc" /\ new.sess = i /\ new.reply = req[r].reply
        /\ new.via = req[r].via /\ new.method = req[r].method
    <3>1. i \in 0..MaxSessions
      BY McpAssumption DEF Ids
    <3> QED
      BY <1>1, <3>1 DEF RequestType, Stages
  <2>2. Set(r, new) /\ req[r].stage = "idle"
    BY <1>2 DEF Message
  <2> HIDE DEF new
  <2> QED
    BY <2>1, <2>2, Changed, Typed DEF Becomes
<1>3. CASE i \notin open
  <2> DEFINE new == [req[r] EXCEPT !.stage = "done", !.reply = "notFound"]
  <2>1. new \in RequestType /\ new.stage = "done" /\ new.reply = "notFound" /\ new.method = req[r].method
    BY <1>1 DEF RequestType, Stages, Replies
  <2>2. Set(r, new) /\ req[r].stage = "idle"
    BY <1>3 DEF Message
  <2> HIDE DEF new
  <2> QED
    BY <2>1, <2>2, Changed, Typed DEF Becomes
<1> QED
  BY <1>2, <1>3

LEMMA StreamableEffect ==
    ASSUME McpInv, NEW r \in Requests, NEW i \in Ids, Streamable(r, i)
    PROVE  /\ req[r].stage = "idle" /\ Becomes(r, "rpc") /\ req'[r].sess \in Ids
           /\ req'[r].reply = req[r].reply /\ req'[r].via = "stream"
<1> DEFINE s == IF i \in open THEN i ELSE registered + 1
           new == [req[r] EXCEPT !.stage = "rpc", !.sess = s, !.via = "stream"]
<1>1. req[r] \in RequestType
  BY Typed
<1>2. s \in Ids
  BY Typed, McpAssumption DEF Streamable, Register, Ids
<1>3. Set(r, new) /\ req[r].stage = "idle"
  BY DEF Streamable
<1> HIDE DEF s
<1>4. new \in RequestType /\ new.stage = "rpc" /\ new.sess = s /\ new.reply = req[r].reply
      /\ new.via = "stream" /\ new.method = req[r].method
  <2>1. s \in 0..MaxSessions
    BY <1>2, McpAssumption DEF Ids
  <2> QED
    BY <1>1, <2>1 DEF RequestType, Stages
<1> HIDE DEF new
<1> QED
  BY <1>2, <1>3, <1>4, Changed, Typed DEF Becomes

(* A step after the look-up: the session stays, and how it was asked.      *)
Continues(r, stage) ==
    Becomes(r, stage) /\ req'[r].sess = req[r].sess /\ req'[r].via = req[r].via

LEMMA Continuing ==
    ASSUME McpInv, NEW r \in Requests, NEW stage \in Stages, NEW result \in Results,
           NEW answer \in Replies,
           \/ Set(r, [req[r] EXCEPT !.stage = stage]) /\ answer = req[r].reply
           \/ Set(r, [req[r] EXCEPT !.stage = stage, !.result = result]) /\ answer = req[r].reply
           \/ Set(r, [req[r] EXCEPT !.stage = stage, !.reply = answer])
    PROVE  Continues(r, stage) /\ req'[r].reply = answer
<1>1. req[r] \in RequestType /\ req \in [Requests -> RequestType]
  BY Typed
<1>2. ASSUME NEW new, Set(r, new), answer = req[r].reply, new = [req[r] EXCEPT !.stage = stage]
      PROVE  Continues(r, stage) /\ req'[r].reply = answer
  <2>1. new \in RequestType /\ new.stage = stage /\ new.reply = req[r].reply
        /\ new.sess = req[r].sess /\ new.via = req[r].via /\ new.method = req[r].method
    BY <1>1, <1>2 DEF RequestType
  <2> QED
    BY <1>1, <1>2, <2>1, Changed DEF Becomes, Continues
<1>3. ASSUME NEW new, Set(r, new), answer = req[r].reply,
             new = [req[r] EXCEPT !.stage = stage, !.result = result]
      PROVE  Continues(r, stage) /\ req'[r].reply = answer
  <2>1. new \in RequestType /\ new.stage = stage /\ new.reply = req[r].reply
        /\ new.sess = req[r].sess /\ new.via = req[r].via /\ new.method = req[r].method
    BY <1>1, <1>3 DEF RequestType
  <2> QED
    BY <1>1, <1>3, <2>1, Changed DEF Becomes, Continues
<1>4. ASSUME NEW new, Set(r, new), new = [req[r] EXCEPT !.stage = stage, !.reply = answer]
      PROVE  Continues(r, stage) /\ req'[r].reply = answer
  <2>1. new \in RequestType /\ new.stage = stage /\ new.reply = answer
        /\ new.sess = req[r].sess /\ new.via = req[r].via /\ new.method = req[r].method
    BY <1>1, <1>4 DEF RequestType
  <2> QED
    BY <1>1, <1>4, <2>1, Changed DEF Becomes, Continues
<1> QED
  BY <1>2, <1>3, <1>4

LEMMA RpcEffect ==
    ASSUME McpInv, NEW r \in Requests, Rpc(r)
    PROVE  /\ req[r].stage = "rpc"
           /\ \/ Continues(r, "respond") /\ req'[r].reply = "none" /\ queue' = queue
              \/ Continues(r, "done") /\ req'[r].reply = "accepted"
                 /\ req[r].method = "notify" /\ queue' = queue
              \/ Continues(r, "wait") /\ req'[r].reply = "none" /\ queue' = Append(queue, r)
<1>1. req[r].stage = "rpc" /\ req[r].reply = "none"
  BY Typed DEF Rpc, AnswersAtHome
<1>2. {"respond", "done", "wait"} \subseteq Stages /\ {"tools", "error"} \subseteq Results
      /\ {"none", "accepted"} \subseteq Replies
  BY DEF Stages, Results, Replies
<1>3. CASE req[r].method = "list"
  <2>1. Set(r, [req[r] EXCEPT !.stage = "respond", !.result = "tools"]) /\ queue' = queue
    BY <1>3 DEF Rpc
  <2> QED
    BY <1>1, <1>2, <2>1, Continuing
<1>4. CASE req[r].method = "notify"
  <2>1. Set(r, [req[r] EXCEPT !.stage = "done", !.reply = "accepted"]) /\ queue' = queue
    BY <1>4 DEF Rpc
  <2> QED
    BY <1>1, <1>2, <1>4, <2>1, Continuing DEF Results
<1>5. CASE req[r].method = "call" /\ req[r].sess \in tooled
  <2>1. Set(r, [req[r] EXCEPT !.stage = "wait"]) /\ queue' = Append(queue, r)
    BY <1>5 DEF Rpc
  <2> QED
    BY <1>1, <1>2, <2>1, Continuing DEF Results
<1>6. CASE req[r].method = "call" /\ req[r].sess \notin tooled
  <2>1. Set(r, [req[r] EXCEPT !.stage = "respond", !.result = "error"]) /\ queue' = queue
    BY <1>6 DEF Rpc
  <2> QED
    BY <1>1, <1>2, <2>1, Continuing
<1> QED
  BY <1>3, <1>4, <1>5, <1>6, Typed DEF RequestType, Methods

LEMMA WaitEffect ==
    ASSUME McpInv, NEW r \in Requests, Answered(r) \/ Unanswered(r)
    PROVE  req[r].stage = "wait" /\ Continues(r, "respond") /\ req'[r].reply = "none"
<1>1. /\ req[r].stage = "wait"
      /\ \E how \in Results : Set(r, [req[r] EXCEPT !.stage = "respond", !.result = how])
  BY Typed DEF Answered, Unanswered, Results
<1>2. req[r].reply = "none"
  BY <1>1, Typed DEF AnswersAtHome
<1> QED
  BY <1>1, <1>2, Continuing DEF Stages, Replies

(* Respond.                                                                *)
LEMMA RespondEffect ==
    ASSUME McpInv, NEW r \in Requests, Respond(r)
    PROVE  /\ req[r].stage = "respond" /\ Continues(r, "done") /\ req[r].sess \in Ids
           /\ req'[r].reply = "accepted" => req[r].via = "message"
           /\ req'[r].reply = "accepted" =>
                 /\ Len(box[req[r].sess]) < Cap
                 /\ box' = [box EXCEPT ![req[r].sess] = Append(@, r)]
           /\ req'[r].reply # "accepted" => box' = box
<1> DEFINE i == req[r].sess
           fits == req[r].via = "message" /\ Len(box[i]) < Cap
           answer == IF req[r].via = "stream" THEN "body"
                     ELSE IF fits THEN "accepted" ELSE "dropped"
<1>1. /\ req[r].stage = "respond"
      /\ box' = IF fits THEN [box EXCEPT ![i] = Append(@, r)] ELSE box
      /\ Set(r, [req[r] EXCEPT !.stage = "done", !.reply = answer])
  BY DEF Respond
<1>2. answer \in Replies /\ (answer = "accepted" => fits) /\ (answer # "accepted" => ~fits)
  BY Typed DEF Replies, RequestType
<1> HIDE DEF answer
<1>3. Continues(r, "done") /\ req'[r].reply = answer
  BY <1>1, <1>2, Continuing DEF Stages, Results
<1>4. i \in Ids
  BY <1>1, Typed DEF AnswersAtHome
<1> QED
  BY <1>1, <1>2, <1>3, <1>4

LEMMA TypeKept ==
    ASSUME McpInv, Next
    PROVE  TypeOK' /\ box' \in [Ids -> Seq(Requests)]
<1> DEFINE SessionTypes == /\ registered \in 0..MaxSessions /\ open \subseteq 1..registered
                           /\ closes \in [Ids -> Nat] /\ tooled \subseteq Ids /\ sse \subseteq Ids
           BoxTypes == /\ box \in [Ids -> Seq(Requests)] /\ (\A i \in Ids : Len(box[i]) <= Cap)
                       /\ got \in [Ids -> SUBSET Requests]
           CallTypes == /\ queue \in Seq(Requests) /\ worker \in [Workers -> Requests \cup {NoCall}]
                        /\ slot \in [Requests -> {"empty", "result", "error"}]
           AllTypes == /\ SessionTypes /\ BoxTypes /\ CallTypes
                       /\ req \in [Requests -> RequestType]
<1>1. SessionTypes /\ BoxTypes /\ CallTypes /\ req \in [Requests -> RequestType]
  BY Typed
<1>2. SUFFICES AllTypes'
  BY DEF TypeOK, RequestType
<1>3. CASE OpenSSE
  <2>1. SessionTypes'
    BY <1>1, <1>3, McpAssumption DEF OpenSSE, Register, Ids
  <2> QED
    BY <1>1, <1>3, <2>1 DEF OpenSSE, callVars
<1>4. ASSUME NEW i \in Ids, SendEvent(i)
      PROVE  AllTypes'
  <2>1. box[i] \in Seq(Requests) /\ box[i] # <<>> /\ Len(box[i]) <= Cap
    BY <1>1, <1>4 DEF SendEvent
  <2>2. Head(box[i]) \in Requests /\ Tail(box[i]) \in Seq(Requests) /\ Len(Tail(box[i])) <= Cap
    BY <2>1, McpAssumption
  <2>3. BoxTypes'
    BY <1>1, <1>4, <2>2 DEF SendEvent
  <2> QED
    BY <1>1, <1>4, <2>3 DEF SendEvent, sessionVars, callVars
<1>5. ASSUME NEW i \in Ids, SSELeaves(i) \/ SSEDone(i) \/ SetTools(i) \/ Drop(i)
      PROVE  AllTypes'
  <2>1. CASE Unregister(i) /\ UNCHANGED <<registered, tooled>> /\ sse' \subseteq sse
    <3>1. closes[i] \in Nat /\ closes[i] + 1 \in Nat
      BY <1>1
    <3>2. closes' \in [Ids -> Nat] /\ open' \subseteq open
      BY <1>1, <2>1, <3>1 DEF Unregister
    <3> QED
      BY <1>1, <1>5, <2>1, <3>2 DEF SSELeaves, SSEDone, SetTools, Drop, callVars
  <2>2. CASE SetTools(i)
    <3>1. SessionTypes'
      BY <1>1, <1>5, <2>2 DEF SetTools
    <3> QED
      BY <1>1, <2>2, <3>1 DEF SetTools, callVars
  <2> QED
    BY <1>5, <2>1, <2>2 DEF SSELeaves, SSEDone, Drop
<1>6. ASSUME NEW r \in Requests, NEW i \in Ids, Message(r, i) \/ Streamable(r, i)
      PROVE  AllTypes'
  <2>1. req' \in [Requests -> RequestType]
    BY <1>6, MessageEffect, StreamableEffect DEF Becomes
  <2>2. SessionTypes'
    BY <1>1, <1>6, McpAssumption DEF Message, Streamable, Register, sessionVars
  <2> QED
    BY <1>1, <1>6, <2>1, <2>2 DEF Message, Streamable, callVars
<1>7. ASSUME NEW r \in Requests, Rpc(r)
      PROVE  AllTypes'
  <2>1. req' \in [Requests -> RequestType] /\ queue' \in {queue, Append(queue, r)}
    BY <1>7, RpcEffect DEF Becomes, Continues
  <2> QED
    BY <1>1, <1>7, <2>1 DEF Rpc, sessionVars
<1>8. ASSUME NEW r \in Requests, Answered(r) \/ Unanswered(r)
      PROVE  AllTypes'
  <2>1. req' \in [Requests -> RequestType]
    BY <1>8, WaitEffect DEF Becomes, Continues
  <2> QED
    BY <1>1, <1>8, <2>1 DEF Answered, Unanswered, sessionVars, callVars
<1>9. ASSUME NEW r \in Requests, Respond(r)
      PROVE  AllTypes'
  <2>1. req' \in [Requests -> RequestType]
    BY <1>9, RespondEffect DEF Becomes, Continues
  <2>2. CASE box' = box
    BY <1>1, <1>9, <2>1, <2>2 DEF Respond, sessionVars, callVars
  <2>3. CASE box' # box
    <3> DEFINE i == req[r].sess
    <3>1. i \in Ids /\ Len(box[i]) < Cap /\ box' = [box EXCEPT ![i] = Append(@, r)]
      BY <1>9, <2>3, RespondEffect
    <3>2. Append(box[i], r) \in Seq(Requests) /\ Len(Append(box[i], r)) = Len(box[i]) + 1
          /\ Len(box[i]) \in Nat
      BY <1>1, <3>1
    <3> HIDE DEF i
    <3>3. BoxTypes'
      BY <1>1, <1>9, <3>1, <3>2, McpAssumption DEF Respond
    <3> QED
      BY <1>1, <1>9, <2>1, <3>3 DEF Respond, sessionVars, callVars
  <2> QED
    BY <2>2, <2>3
<1>10. ASSUME NEW w \in Workers, Dequeue(w) \/ Resolve(w)
       PROVE  AllTypes'
  <2>1. queue # <<>> => Head(queue) \in Requests /\ Tail(queue) \in Seq(Requests)
    BY <1>1
  <2>2. CallTypes'
    BY <1>1, <1>10, <2>1 DEF Dequeue, Resolve
  <2> QED
    BY <1>1, <1>10, <2>2 DEF Dequeue, Resolve, sessionVars
<1> QED
  BY <1>3, <1>4, <1>5, <1>6, <1>7, <1>8, <1>9, <1>10 DEF Next

(* A tool call enters the queue once, leaves it with the worker that takes *)
(* it and leaves the worker when it is resolved.                           *)
LEMMA PlacesKept == McpInv /\ Next => OnePlace'
<1> SUFFICES ASSUME McpInv, Next
             PROVE  OnePlace'
  OBVIOUS
<1> USE McpAssumption
<1>0. OnePlace /\ TypeOK
  BY DEF McpInv
<1>1. CASE OpenSSE \/ \E i \in Ids : SendEvent(i) \/ SSELeaves(i) \/ SSEDone(i) \/ SetTools(i) \/ Drop(i)
  BY <1>0, <1>1, PlacesStay DEF OpenSSE, SendEvent, SSELeaves, SSEDone, SetTools, Drop, callVars
<1>2. ASSUME NEW r \in Requests, NEW i \in Ids, Message(r, i) \/ Streamable(r, i)
      PROVE  OnePlace'
  <2>1. UNCHANGED callVars /\ req[r].stage = "idle"
    BY <1>2 DEF Message, Streamable
  <2>2. \A q \in Requests : q # r => req'[q] = req[q]
    BY <1>2, MessageEffect, StreamableEffect DEF Becomes
  <2> QED
    BY <1>0, <2>1, <2>2, PlacesStay
<1>3. ASSUME NEW r \in Requests, Rpc(r)
      PROVE  OnePlace'
  <2>1. /\ req[r].stage = "rpc" /\ req'[r].stage \in {"respond", "done", "wait"}
        /\ \A q \in Requests : q # r => req'[q] = req[q]
        /\ queue' \in {queue, Append(queue, r)} /\ UNCHANGED <<worker, slot>>
    BY <1>3, RpcEffect DEF Rpc, Becomes, Continues
  <2>2. CASE queue' = queue
    BY <1>0, <2>1, <2>2, PlacesStay DEF callVars
  <2>3. CASE queue' = Append(queue, r)
    <3>1. /\ Len(queue) \in Nat /\ DOMAIN queue = 1..Len(queue)
          /\ DOMAIN queue' = 1..Len(queue) + 1
          /\ queue'[Len(queue) + 1] = r
          /\ \A k \in 1..Len(queue) : queue'[k] = queue[k]
      BY <2>3, <1>0 DEF TypeOK
    <3>2. slot[r] = "empty" /\ ~Queued(r) /\ ~Executed(r)
      BY <1>0, <2>1 DEF OnePlace
    <3>3. \A q : Queued(q)' <=> Queued(q) \/ q = r
      BY <3>1 DEF Queued
    <3>4. \A q : Executed(q)' <=> Executed(q)
      BY <2>1 DEF Executed
    <3>5. ASSUME NEW k \in DOMAIN queue', NEW l \in DOMAIN queue', queue'[k] = queue'[l]
          PROVE  k = l
      BY <3>1, <3>2, <3>5, <1>0 DEF OnePlace, Queued
    <3>6. \A v, w \in Workers : worker'[v] = worker'[w] /\ worker'[v] # NoCall => v = w
      BY <2>1, <1>0 DEF OnePlace
    <3>7. ASSUME NEW q \in Requests
          PROVE  /\ Queued(q)' => ~Executed(q)'
                 /\ slot'[q] # "empty" => ~Queued(q)' /\ ~Executed(q)'
                 /\ req'[q].stage \in {"idle", "rpc"} => slot'[q] = "empty" /\ ~Queued(q)' /\ ~Executed(q)'
      BY <2>1, <3>2, <3>3, <3>4, <1>0 DEF OnePlace
    <3> QED
      BY <3>5, <3>6, <3>7 DEF OnePlace
  <2> QED
    BY <2>1, <2>2, <2>3
<1>4. ASSUME NEW r \in Requests, Answered(r)
      PROVE  OnePlace'
  <2>1. \A q \in Requests : req'[q].stage \in {"idle", "rpc"} => req[q].stage \in {"idle", "rpc"}
    <3>1. Becomes(r, "respond")
      BY <1>4, WaitEffect DEF Continues
    <3> QED
      BY <3>1 DEF Becomes
  <2>2. UNCHANGED <<queue, worker>> /\ \A q \in Requests : slot'[q] \in {"empty", slot[q]}
    <3>1. slot' = [slot EXCEPT ![r] = "empty"] /\ UNCHANGED <<queue, worker>>
      BY <1>4 DEF Answered
    <3>2. DOMAIN slot = Requests
      BY <1>0 DEF TypeOK
    <3> QED
      BY <3>1, <3>2
  <2>3. \A q : (Queued(q)' <=> Queued(q)) /\ (Executed(q)' <=> Executed(q))
    BY <2>2 DEF Queued, Executed
  <2> QED
    BY <1>0, <2>1, <2>2, <2>3 DEF OnePlace
<1>5. ASSUME NEW r \in Requests, Unanswered(r) \/ Respond(r)
      PROVE  OnePlace'
  <2>1. UNCHANGED callVars
    BY <1>5 DEF Unanswered, Respond, callVars
  <2>2. \A q \in Requests : req'[q].stage \in {"idle", "rpc"} => req[q].stage \in {"idle", "rpc"}
    BY <1>5, WaitEffect, RespondEffect DEF Becomes, Continues
  <2> QED
    BY <1>0, <2>1, <2>2, PlacesStay
<1>6. ASSUME NEW w \in Workers, Dequeue(w)
      PROVE  OnePlace'
  <2>0. PICK h : h = Head(queue)
    OBVIOUS
  <2>1. /\ queue # <<>> /\ queue' = Tail(queue) /\ worker[w] = NoCall
        /\ worker' = [worker EXCEPT ![w] = h] /\ UNCHANGED <<req, slot>>
    BY <1>6, <2>0 DEF Dequeue
  <2>2. /\ Len(queue) \in Nat \ {0} /\ DOMAIN queue = 1..Len(queue)
        /\ DOMAIN queue' = 1..Len(queue) - 1 /\ h = queue[1] /\ h \in Requests
        /\ \A k \in 1..Len(queue) - 1 : queue'[k] = queue[k + 1] /\ k + 1 \in 1..Len(queue)
    BY <2>0, <2>1, <1>0 DEF TypeOK
  <2>3. 1 \in DOMAIN queue
    BY <2>2
  <2>4. worker' \in [Workers -> Requests \cup {NoCall}] /\ worker'[w] = h
        /\ \A v \in Workers : v # w => worker'[v] = worker[v]
    BY <2>1, <2>2, <1>0 DEF TypeOK
  <2>5. Queued(h) /\ ~Executed(h) /\ slot[h] = "empty" /\ req[h].stage \notin {"idle", "rpc"}
    BY <1>0, <2>2, <2>3 DEF OnePlace, Queued
  <2>6. ~Queued(h)'
    <3> SUFFICES ASSUME NEW k \in 1..Len(queue) - 1, queue'[k] = h
                 PROVE  FALSE
      BY <2>2 DEF Queued
    <3>1. queue[k + 1] = queue[1] /\ k + 1 \in DOMAIN queue
      BY <2>2
    <3>2. k + 1 = 1
      BY <3>1, <2>3, <1>0 DEF OnePlace
    <3> QED
      BY <3>2
  <2>7. \A q \in Requests : Queued(q)' => Queued(q)
    BY <2>2 DEF Queued
  <2>8. \A q \in Requests : Executed(q)' => Executed(q) \/ q = h
    BY <2>4 DEF Executed
  <2>9. ASSUME NEW k \in DOMAIN queue', NEW l \in DOMAIN queue', queue'[k] = queue'[l]
        PROVE  k = l
    <3>1. k \in 1..Len(queue) - 1 /\ l \in 1..Len(queue) - 1
      BY <2>2
    <3>2. k + 1 \in DOMAIN queue /\ l + 1 \in DOMAIN queue /\ queue[k + 1] = queue[l + 1]
      BY <2>2, <2>9, <3>1
    <3>3. k + 1 = l + 1
      BY <3>2, <1>0 DEF OnePlace
    <3> QED
      BY <3>1, <3>3
  <2>10. ASSUME NEW u \in Workers, NEW v \in Workers, worker'[u] = worker'[v], worker'[u] # NoCall
         PROVE  u = v
    BY <2>4, <2>5, <2>10, <1>0 DEF OnePlace, Executed
  <2>11. ASSUME NEW q \in Requests
         PROVE  /\ Queued(q)' => ~Executed(q)'
                /\ slot'[q] # "empty" => ~Queued(q)' /\ ~Executed(q)'
                /\ req'[q].stage \in {"idle", "rpc"} => slot'[q] = "empty" /\ ~Queued(q)' /\ ~Executed(q)'
    BY <2>1, <2>5, <2>6, <2>7, <2>8, <1>0 DEF OnePlace
  <2> QED
    BY <2>9, <2>10, <2>11 DEF OnePlace
<1>7. ASSUME NEW w \in Workers, Resolve(w)
      PROVE  OnePlace'
  <2>0. PICK r : r = worker[w]
    OBVIOUS
  <2>1. /\ r # NoCall /\ worker' = [worker EXCEPT ![w] = NoCall] /\ UNCHANGED <<queue, req>>
        /\ slot' \in {[slot EXCEPT ![r] = how] : how \in {"result", "error"}}
    BY <1>7, <2>0 DEF Resolve
  <2>2. r \in Requests
    BY <2>0, <2>1, <1>0 DEF TypeOK
  <2>3. worker'[w] = NoCall /\ \A v \in Workers : v # w => worker'[v] = worker[v]
    BY <2>1, <1>0 DEF TypeOK
  <2>4. \A q \in Requests : q # r => slot'[q] = slot[q]
    BY <2>1, <1>0 DEF TypeOK
  <2>5. Executed(r) /\ ~Queued(r) /\ req[r].stage \notin {"idle", "rpc"}
    BY <2>0, <2>2, <1>0 DEF OnePlace, Executed
  <2>6. ~Executed(r)' /\ \A q \in Requests : Executed(q)' => Executed(q)
    BY <2>0, <2>1, <2>2, <2>3, <1>0 DEF OnePlace, Executed
  <2>7. \A q : Queued(q)' <=> Queued(q)
    BY <2>1 DEF Queued
  <2>8. \A u, v \in Workers : worker'[u] = worker'[v] /\ worker'[u] # NoCall => u = v
    BY <2>3, <1>0 DEF OnePlace
  <2>9. ASSUME NEW q \in Requests
        PROVE  /\ Queued(q)' => ~Executed(q)'
               /\ slot'[q] # "empty" => ~Queued(q)' /\ ~Executed(q)'
               /\ req'[q].stage \in {"idle", "rpc"} => slot'[q] = "empty" /\ ~Queued(q)' /\ ~Executed(q)'
    BY <2>1, <2>4, <2>5, <2>6, <2>7, <1>0 DEF OnePlace
  <2>10. \A k, l \in DOMAIN queue' : queue'[k] = queue'[l] => k = l
    BY <2>1, <1>0 DEF OnePlace
  <2> QED
    BY <2>8, <2>9, <2>10 DEF OnePlace
<1> QED
  BY <1>1, <1>2, <1>3, <1>4, <1>5, <1>6, <1>7 DEF Next

(* Elsewhere the channels and what the clients have are left alone.        *)
LEMMA AnswersStay ==
    ASSUME McpInv, UNCHANGED <<box, got>>, NEW r \in Requests, NEW stage \in Stages,
           req[r].stage # "done", Becomes(r, stage),
           stage \in {"rpc", "wait", "respond"} => req'[r].sess \in Ids /\ req'[r].reply = "none",
           stage = "done" /\ req'[r].reply = "accepted" => req[r].method = "notify",
           stage # "idle"
    PROVE  AnswersAtHome'
<1>1. AnswersAtHome
  BY Typed
<1>2. \A i \in Ids : r \notin ToSet(box[i]) \cup got[i]
  BY <1>1 DEF AnswersAtHome
<1>3. /\ req'[r].stage = stage /\ req'[r].method = req[r].method
      /\ \A q \in Requests : q # r => req'[q] = req[q]
  BY DEF Becomes
<1>4. ASSUME NEW q \in Requests, q # r
      PROVE  /\ req'[q].stage \in {"rpc", "wait", "respond"} =>
                    req'[q].sess \in Ids /\ req'[q].reply = "none"
             /\ req'[q].stage = "idle" => req'[q].reply = "none" /\ req'[q].via = "message"
             /\ \A i \in Ids :
                   q \in ToSet(box'[i]) \cup got'[i] =>
                       req'[q].stage = "done" /\ req'[q].sess = i /\ req'[q].via = "message"
             /\ req'[q].reply = "accepted" /\ req'[q].method # "notify" =>
                   req'[q].sess \in Ids /\ q \in ToSet(box'[req'[q].sess]) \cup got'[req'[q].sess]
  BY <1>1, <1>3, <1>4 DEF AnswersAtHome
<1>5. /\ req'[r].stage \in {"rpc", "wait", "respond"} => req'[r].sess \in Ids /\ req'[r].reply = "none"
      /\ req'[r].stage # "idle"
      /\ \A i \in Ids : r \notin ToSet(box'[i]) \cup got'[i]
      /\ ~(req'[r].reply = "accepted" /\ req'[r].method # "notify")
  BY <1>2, <1>3 DEF Stages
<1> QED
  BY <1>4, <1>5 DEF AnswersAtHome

LEMMA AnswersKept ==
    ASSUME McpInv, Next
    PROVE  AnswersAtHome'
<1>1. AnswersAtHome /\ box \in [Ids -> Seq(Requests)] /\ got \in [Ids -> SUBSET Requests]
  BY Typed
<1>2. CASE UNCHANGED <<req, box, got>>
  BY <1>1, <1>2 DEF AnswersAtHome
<1>3. ASSUME NEW i \in Ids, SendEvent(i)
      PROVE  AnswersAtHome'
  <2>1. /\ box[i] # <<>> /\ box' = [box EXCEPT ![i] = Tail(@)] /\ UNCHANGED req
        /\ got' = [got EXCEPT ![i] = @ \cup {Head(box[i])}]
    BY <1>3 DEF SendEvent
  <2>2. ToSet(box[i]) = {Head(box[i])} \cup ToSet(Tail(box[i]))
    BY <1>1, <2>1, ToSetTail
  <2>3. \A j \in Ids : ToSet(box'[j]) \cup got'[j] = ToSet(box[j]) \cup got[j]
    <3> SUFFICES ASSUME NEW j \in Ids
                 PROVE  ToSet(box'[j]) \cup got'[j] = ToSet(box[j]) \cup got[j]
      OBVIOUS
    <3>1. CASE j = i
      <4>1. box'[i] = Tail(box[i]) /\ got'[i] = got[i] \cup {Head(box[i])}
        BY <1>1, <2>1
      <4> QED
        BY <2>2, <3>1, <4>1
    <3>2. CASE j # i
      BY <1>1, <2>1, <3>2
    <3> QED
      BY <3>1, <3>2
  <2> QED
    BY <1>1, <2>1, <2>3 DEF AnswersAtHome
<1>4. ASSUME NEW r \in Requests, NEW i \in Ids, Message(r, i)
      PROVE  AnswersAtHome'
  <2>1. req[r].stage = "idle" /\ req[r].reply = "none" /\ UNCHANGED <<box, got>>
    BY <1>1, <1>4 DEF Message, AnswersAtHome
  <2> QED
    BY <1>4, <2>1, MessageEffect, AnswersStay DEF Stages
<1>5. ASSUME NEW r \in Requests, NEW i \in Ids, Streamable(r, i)
      PROVE  AnswersAtHome'
  <2>1. req[r].stage = "idle" /\ req[r].reply = "none" /\ UNCHANGED <<box, got>>
    BY <1>1, <1>5 DEF Streamable, AnswersAtHome
  <2> QED
    BY <1>5, <2>1, StreamableEffect, AnswersStay DEF Stages
<1>6. ASSUME NEW r \in Requests, Rpc(r)
      PROVE  AnswersAtHome'
  <2>1. req[r].stage = "rpc" /\ req[r].sess \in Ids /\ UNCHANGED <<box, got>>
    BY <1>1, <1>6 DEF Rpc, AnswersAtHome
  <2> QED
    BY <1>6, <2>1, RpcEffect, AnswersStay DEF Stages, Continues
<1>7. ASSUME NEW r \in Requests, Answered(r) \/ Unanswered(r)
      PROVE  AnswersAtHome'
  <2>1. req[r].stage = "wait" /\ req[r].sess \in Ids /\ UNCHANGED <<box, got>>
    BY <1>1, <1>7 DEF Answered, Unanswered, AnswersAtHome
  <2> QED
    BY <1>7, <2>1, WaitEffect, AnswersStay DEF Stages, Continues
<1>8. ASSUME NEW r \in Requests, Respond(r)
      PROVE  AnswersAtHome'
  <2>1. /\ req[r].stage = "respond" /\ Continues(r, "done") /\ req[r].sess \in Ids
        /\ UNCHANGED got
    BY <1>8, RespondEffect DEF Respond
  <2>2. CASE req'[r].reply # "accepted"
    <3>1. UNCHANGED <<box, got>>
      BY <1>8, <2>1, <2>2, RespondEffect
    <3> QED
      BY <2>1, <2>2, <3>1, AnswersStay DEF Stages, Continues
  <2>3. CASE req'[r].reply = "accepted"
    <3>0. PICK i \in Ids : i = req[r].sess
      BY <2>1
    <3>1. box' = [box EXCEPT ![i] = Append(@, r)] /\ req[r].via = "message"
      BY <1>8, <2>3, <3>0, RespondEffect
    <3>2. ToSet(box'[i]) = ToSet(box[i]) \cup {r} /\ \A j \in Ids : j # i => box'[j] = box[j]
      BY <1>1, <3>1, ToSetAppend
    <3>3. /\ req'[r].stage = "done" /\ req'[r].sess = i /\ req'[r].via = "message"
          /\ \A q \in Requests : q # r => req'[q] = req[q]
      BY <2>1, <3>0, <3>1 DEF Becomes, Continues
    <3>4. \A j \in Ids : r \notin ToSet(box[j]) \cup got[j]
      BY <1>1, <2>1 DEF AnswersAtHome
    <3>5. ASSUME NEW q \in Requests, q # r
          PROVE  \A j \in Ids : q \in ToSet(box'[j]) \cup got'[j] <=> q \in ToSet(box[j]) \cup got[j]
      BY <2>1, <3>2, <3>5
    <3>6. /\ req'[r].stage = "done" /\ req'[r].sess = i /\ i \in Ids
          /\ \A j \in Ids : r \in ToSet(box'[j]) \cup got'[j] <=> j = i
      BY <2>1, <3>2, <3>3, <3>4
    <3> QED
      BY <1>1, <3>3, <3>5, <3>6 DEF AnswersAtHome
  <2> QED
    BY <2>2, <2>3
<1> QED
  BY <1>2, <1>3, <1>4, <1>5, <1>6, <1>7, <1>8
     DEF Next, OpenSSE, SSELeaves, SSEDone, SetTools, Drop, Dequeue, Resolve

LEMMA McpNext == McpInv /\ [Next]_vars => McpInv'
<1>1. CASE McpInv /\ Next
  BY <1>1, TypeKept, PlacesKept, AnswersKept DEF McpInv
<1>2. CASE McpInv /\ UNCHANGED vars
  BY <1>2 DEF McpInv, TypeOK, OnePlace, Queued, Executed, AnswersAtHome,
     vars, sessionVars, callVars
<1> QED
  BY <1>1, <1>2

LEMMA McpInvariant == Spec => []McpInv
BY McpInit, McpNext, PTL DEF Spec

(* The places of a call are counted with sets of at most one element.      *)
LEMMA PlacesCounted == McpInv => CallInOnePlace
<1> SUFFICES ASSUME McpInv, NEW r \in Requests
             PROVE  Cardinality({k \in DOMAIN queue : queue[k] = r})
                      + Cardinality({w \in Workers : worker[w] = r})
                      + (IF slot[r] = "empty" THEN 0 ELSE 1) <= 1
  BY DEF CallInOnePlace
<1> DEFINE Places == {k \in DOMAIN queue : queue[k] = r}
           Holders == {w \in Workers : worker[w] = r}
<1>1. OnePlace /\ r # NoCall
  BY Typed, McpAssumption
<1>2. Places = {} \/ \E k : Places = {k}
  BY <1>1 DEF OnePlace
<1>3. Holders = {} \/ \E w : Holders = {w}
  BY <1>1 DEF OnePlace
<1>4. /\ Places # {} => Queued(r)
      /\ Holders # {} => Executed(r)
  BY DEF Queued, Executed
<1>5. Places = {} \/ Holders = {}
  BY <1>1, <1>4 DEF OnePlace
<1>6. slot[r] # "empty" => Places = {} /\ Holders = {}
  BY <1>1, <1>4 DEF OnePlace
<1>7. Cardinality({}) = 0 /\ \A x : Cardinality({x}) = 1
  BY FS_EmptySet, FS_Singleton
<1> HIDE DEF Places, Holders
<1>8. /\ Cardinality(Places) \in {0, 1} /\ Cardinality(Holders) \in {0, 1}
      /\ Places = {} => Cardinality(Places) = 0
      /\ Holders = {} => Cardinality(Holders) = 0
  BY <1>2, <1>3, <1>7
<1>9. Cardinality(Places) + Cardinality(Holders) + (IF slot[r] = "empty" THEN 0 ELSE 1) <= 1
  BY <1>5, <1>6, <1>8
<1> QED
  BY <1>9 DEF Places, Holders

(* Whatever times out, and however workers come and go, a tool call is     *)
(* queued once, or with one worker, or resolved (ToolCallQueue).           *)
THEOREM CallsInOnePlace == Spec => []CallInOnePlace
BY McpInvariant, PlacesCounted, PTL

(* An answer that was accepted is in its session's channel or with its     *)
(* client, and no client gets an answer of another session.                *)
THEOREM AnswersAreKept == Spec => []AnswerKept
<1>1. McpInv => AnswerKept
  BY Typed DEF AnswersAtHome, AnswerKept
<1> QED
  BY <1>1, McpInvariant, PTL

-----------------------------------------------------------------------------
(* The kept responses.                                                     *)
Later(id) == {n \in id + 1..Len(told) : told[n].tenant = told[id].tenant}

(* What is kept is kept for the tenant it was told to, as it was told; a   *)
(* request that follows a response up has the messages of that response.   *)
AsTold ==
    /\ DOMAIN kept = Tenants /\ DOMAIN caller = Callers
    /\ aged \in Nat /\ told \in Seq([tenant : Tenants, messages : Seq(Nat)])
    /\ \A t \in Tenants : \A id \in DOMAIN kept[t] :
          id \in 1..Len(told) /\ told[id].tenant = t /\ kept[t][id] = told[id].messages
    /\ \A c \in Callers : caller[c].at = "chat" =>
          /\ caller[c].tenant \in Tenants
          /\ \/ caller[c].previous = 0 /\ caller[c].messages = <<>>
             \/ /\ caller[c].previous \in 1..Len(told)
                /\ caller[c].messages = told[caller[c].previous].messages

(* What has gone was too old, or MaxStored later ones have been kept.      *)
OnlyOldGo ==
    \A id \in 1..Len(told) :
        \/ id \in DOMAIN kept[told[id].tenant]
        \/ id <= aged
        \/ Cardinality(Later(id)) >= MaxStored

KeptInv == AsTold /\ OnlyOldGo

LEMMA KeptInit == ResponsesInit => KeptInv
<1> SUFFICES ASSUME ResponsesInit
             PROVE  KeptInv
  OBVIOUS
<1>1. Unaskable.at = "idle"
  BY DEF Unaskable
<1>2. \A t \in Tenants : DOMAIN kept[t] = {}
  BY DEF ResponsesInit
<1>3. told = <<>> /\ aged = 0 /\ DOMAIN kept = Tenants /\ DOMAIN caller = Callers
      /\ \A c \in Callers : caller[c].at = "idle"
  BY <1>1 DEF ResponsesInit
<1> QED
  BY <1>2, <1>3 DEF KeptInv, AsTold, OnlyOldGo

LEMMA Entry ==
    ASSUME AsTold, NEW id \in 1..Len(told)
    PROVE  told[id].tenant \in Tenants /\ told[id].messages \in Seq(Nat)
<1> DEFINE Told == [tenant : Tenants, messages : Seq(Nat)]
<1>1. told \in Seq(Told)
  BY DEF AsTold
<1>2. \A x \in Told : x.tenant \in Tenants /\ x.messages \in Seq(Nat)
  OBVIOUS
<1> HIDE DEF Told
<1>3. told[id] \in Told
  BY <1>1
<1> QED
  BY <1>2, <1>3

(* A request that does not follow up, or follows a response that was told. *)
Follows(ask, answers) ==
    /\ ask.tenant \in Tenants
    /\ \/ ask.previous = 0 /\ ask.messages = <<>>
       \/ /\ ask.previous \in 1..Len(answers)
          /\ ask.messages = answers[ask.previous].messages

(* A step of callers alone.                                                *)
LEMMA CallersStep ==
    ASSUME KeptInv, UNCHANGED <<kept, told>>, aged' \in Nat, aged <= aged',
           DOMAIN caller' = Callers,
           \A c \in Callers : caller'[c].at = "chat" => Follows(caller'[c], told)
    PROVE  KeptInv'
<1>1. AsTold'
  BY DEF KeptInv, AsTold, Follows
<1>2. aged \in Nat /\ \A id \in 1..Len(told) : id <= aged => id <= aged'
  BY DEF KeptInv, AsTold
<1> QED
  BY <1>1, <1>2 DEF KeptInv, OnlyOldGo, Later

LEMMA CallersFollow ==
    ASSUME KeptInv, NEW c \in Callers, caller[c].at = "chat"
    PROVE  Follows(caller[c], told)
BY DEF KeptInv, AsTold, Follows

(* The later responses are finitely many.                                  *)
LEMMA LaterFinite ==
    ASSUME AsTold, NEW id \in Nat, NEW S \in SUBSET Later(id)
    PROVE  /\ IsFiniteSet(Later(id)) /\ Cardinality(Later(id)) \in Nat
           /\ IsFiniteSet(S) /\ Cardinality(S) \in Nat /\ Cardinality(S) <= Cardinality(Later(id))
<1>1. Len(told) \in Nat /\ id + 1 \in Int
  BY DEF AsTold
<1>2. IsFiniteSet(id + 1..Len(told))
  BY <1>1, FS_Interval
<1>3. Later(id) \in SUBSET (id + 1..Len(told))
  BY DEF Later
<1>4. IsFiniteSet(Later(id))
  BY <1>2, <1>3, FS_Subset
<1> QED
  BY <1>4, FS_Subset, FS_CardinalityType

LEMMA AskKept ==
    ASSUME KeptInv, NEW c \in Callers, NEW r \in Requesters, Ask(c, r)
    PROVE  KeptInv'
<1> DEFINE t == ExtractAPIKey(r)
<1>0. t \in Tenants
  BY DEF Tenants
<1>1. PICK previous \in {0} \cup DOMAIN kept[t] :
          caller' = [caller EXCEPT ![c] =
              [at |-> "chat", tenant |-> t, previous |-> previous,
               messages |-> IF previous = 0 THEN <<>> ELSE kept[t][previous]]]
  BY DEF Ask
<1> HIDE DEF t
<1>2. UNCHANGED <<kept, told, aged>>
  BY DEF Ask
<1>3. \/ previous = 0
      \/ previous # 0 /\ previous \in 1..Len(told) /\ kept[t][previous] = told[previous].messages
  BY <1>0, <1>1 DEF KeptInv, AsTold
<1>4. DOMAIN caller' = Callers /\ \A d \in Callers : d # c => caller'[d] = caller[d]
  BY <1>1 DEF KeptInv, AsTold
<1>5. /\ caller'[c].tenant = t /\ caller'[c].previous = previous
      /\ caller'[c].messages = IF previous = 0 THEN <<>> ELSE kept[t][previous]
  BY <1>1 DEF KeptInv, AsTold
<1>6. Follows(caller'[c], told)
  BY <1>0, <1>3, <1>5 DEF Follows
<1>7. aged \in Nat
  BY DEF KeptInv, AsTold
<1> QED
  BY <1>2, <1>4, <1>6, <1>7, CallersFollow, CallersStep

LEMMA UnansweredKept ==
    ASSUME KeptInv, NEW c \in Callers, ChatUnanswered(c)
    PROVE  KeptInv'
<1>1. UNCHANGED <<kept, told, aged>> /\ caller' = [caller EXCEPT ![c] = Unaskable]
  BY DEF ChatUnanswered
<1>2. caller'[c].at = "idle" /\ DOMAIN caller' = Callers
      /\ \A d \in Callers : d # c => caller'[d] = caller[d]
  BY <1>1 DEF KeptInv, AsTold, Unaskable
<1>3. aged \in Nat
  BY DEF KeptInv, AsTold
<1> QED
  BY <1>1, <1>2, <1>3, CallersFollow, CallersStep

LEMMA HourKept ==
    ASSUME KeptInv, Hour
    PROVE  KeptInv'
<1>1. UNCHANGED <<kept, caller, told>> /\ aged' \in Nat /\ aged <= aged'
  BY DEF Hour, KeptInv, AsTold
<1>2. DOMAIN caller = Callers
  BY DEF KeptInv, AsTold
<1> QED
  BY <1>1, <1>2, CallersFollow, CallersStep

(* Room takes what is too old; and the oldest, if the rest fills the       *)
(* tenant's share.                                                         *)
LEMMA RoomMade ==
    ASSUME NEW bucket, DOMAIN bucket \subseteq Nat, aged \in Nat
    PROVE  LET fresh == {id \in DOMAIN bucket : id > aged}
           IN /\ DOMAIN Room(bucket) \subseteq DOMAIN bucket
              /\ \A id \in DOMAIN Room(bucket) : Room(bucket)[id] = bucket[id]
              /\ \A id \in DOMAIN bucket \ DOMAIN Room(bucket) :
                    \/ id <= aged
                    \/ /\ id \in fresh /\ Cardinality(fresh) >= MaxStored
                       /\ \A other \in fresh : id <= other
BY DEF Room, Bucket, Oldest

(* Keep, for the tenant t of the caller: the response is told and kept.    *)
LEMMA KeepEffect ==
    ASSUME KeptInv, NEW c \in Callers, Keep(c)
    PROVE  \E t \in Tenants, story \in Seq(Nat) :
              /\ told' = Append(told, [tenant |-> t, messages |-> story])
              /\ DOMAIN kept' = Tenants /\ \A s \in Tenants : s # t => kept'[s] = kept[s]
              /\ DOMAIN kept'[t] = DOMAIN Room(kept[t]) \cup {Len(told) + 1}
              /\ kept'[t][Len(told) + 1] = story
              /\ \A id \in DOMAIN Room(kept[t]) : id # Len(told) + 1 => kept'[t][id] = Room(kept[t])[id]
              /\ caller' = [caller EXCEPT ![c] = Unaskable] /\ UNCHANGED aged
<1> DEFINE id == Len(told) + 1
           t == caller[c].tenant
           before == IF caller[c].previous = 0 THEN <<>> ELSE told[caller[c].previous].messages
           story == Append(caller[c].messages, id)
<1>1. AsTold /\ Len(told) \in Nat /\ id \in Nat
  BY DEF KeptInv, AsTold
<1>2. /\ caller[c].at = "chat"
      /\ kept' = [kept EXCEPT ![t] = [i \in DOMAIN Room(kept[t]) \cup {id} |->
                       IF i = id THEN story ELSE Room(kept[t])[i]]]
      /\ told' = Append(told, [tenant |-> t, messages |-> Append(before, id)])
      /\ caller' = [caller EXCEPT ![c] = Unaskable] /\ UNCHANGED aged
  BY DEF Keep
<1>3. t \in Tenants /\ before = caller[c].messages
  BY <1>1, <1>2 DEF AsTold
<1>4. before \in Seq(Nat)
  <2>1. CASE caller[c].previous = 0
    BY <2>1
  <2>2. CASE caller[c].previous # 0
    <3>1. caller[c].previous \in 1..Len(told)
      BY <1>1, <1>2, <2>2 DEF AsTold
    <3> QED
      BY <1>1, <2>2, <3>1, Entry
  <2> QED
    BY <2>1, <2>2
<1>5. story \in Seq(Nat) /\ story = Append(before, id)
  <2> HIDE DEF id, before
  <2> QED
    BY <1>1, <1>3, <1>4
<1>6. DOMAIN kept = Tenants
  BY <1>1 DEF AsTold
<1> HIDE DEF id, t, before, story
<1>7. /\ DOMAIN kept' = Tenants /\ \A s \in Tenants : s # t => kept'[s] = kept[s]
      /\ kept'[t] = [i \in DOMAIN Room(kept[t]) \cup {id} |->
                       IF i = id THEN story ELSE Room(kept[t])[i]]
  BY <1>2, <1>3, <1>6
<1>8. /\ DOMAIN kept'[t] = DOMAIN Room(kept[t]) \cup {id}
      /\ kept'[t][id] = story
      /\ \A i \in DOMAIN Room(kept[t]) : i # id => kept'[t][i] = Room(kept[t])[i]
  BY <1>7
<1>9. told' = Append(told, [tenant |-> t, messages |-> story])
  BY <1>2, <1>5
<1>10. \A i \in DOMAIN Room(kept[t]) : i # Len(told) + 1 => kept'[t][i] = Room(kept[t])[i]
  BY <1>8 DEF id
<1>11. /\ DOMAIN kept'[t] = DOMAIN Room(kept[t]) \cup {Len(told) + 1}
       /\ kept'[t][Len(told) + 1] = story
  BY <1>8 DEF id
<1> QED
  BY <1>2, <1>3, <1>5, <1>7, <1>9, <1>10, <1>11

LEMMA KeepKept ==
    ASSUME KeptInv, NEW c \in Callers, Keep(c)
    PROVE  KeptInv'
<1>1. PICK t \in Tenants, story \in Seq(Nat) :
         /\ told' = Append(told, [tenant |-> t, messages |-> story])
         /\ DOMAIN kept' = Tenants /\ \A s \in Tenants : s # t => kept'[s] = kept[s]
         /\ DOMAIN kept'[t] = DOMAIN Room(kept[t]) \cup {Len(told) + 1}
         /\ kept'[t][Len(told) + 1] = story
         /\ \A id \in DOMAIN Room(kept[t]) : id # Len(told) + 1 => kept'[t][id] = Room(kept[t])[id]
         /\ caller' = [caller EXCEPT ![c] = Unaskable] /\ UNCHANGED aged
  BY KeepEffect
<1> DEFINE new == Len(told) + 1
           fresh == {id \in DOMAIN kept[t] : id > aged}
<1>2. /\ AsTold /\ Len(told) \in Nat /\ aged \in Nat /\ new \in Nat
      /\ told \in Seq([tenant : Tenants, messages : Seq(Nat)])
      /\ DOMAIN kept[t] \subseteq 1..Len(told)
  BY DEF KeptInv, AsTold
<1>3. /\ told' \in Seq([tenant : Tenants, messages : Seq(Nat)])
      /\ Len(told') = new /\ \A id \in 1..Len(told) : told'[id] = told[id]
      /\ told'[new] = [tenant |-> t, messages |-> story]
  BY <1>1, <1>2
<1>4. /\ DOMAIN Room(kept[t]) \subseteq DOMAIN kept[t]
      /\ \A id \in DOMAIN Room(kept[t]) : Room(kept[t])[id] = kept[t][id]
      /\ \A id \in DOMAIN kept[t] \ DOMAIN Room(kept[t]) :
            \/ id <= aged
            \/ /\ id \in fresh /\ Cardinality(fresh) >= MaxStored
               /\ \A other \in fresh : id <= other
  <2>1. DOMAIN kept[t] \subseteq Nat
    BY <1>2
  <2> QED
    BY <1>2, <2>1, RoomMade
<1>5. caller'[c].at = "idle" /\ DOMAIN caller' = Callers
      /\ \A d \in Callers : d # c => caller'[d] = caller[d]
  BY <1>1, <1>2 DEF AsTold, Unaskable
<1> HIDE DEF fresh
<1>6. AsTold'
  <2>1. ASSUME NEW s \in Tenants, NEW id \in DOMAIN kept'[s]
        PROVE  id \in 1..new /\ told'[id].tenant = s /\ kept'[s][id] = told'[id].messages
    <3>1. CASE s # t
      <4>1. id \in DOMAIN kept[s] /\ kept'[s][id] = kept[s][id]
        BY <1>1, <2>1, <3>1
      <4>2. id \in 1..Len(told) /\ told[id].tenant = s /\ kept[s][id] = told[id].messages
        BY <1>2, <4>1 DEF AsTold
      <4> QED
        BY <1>2, <1>3, <4>1, <4>2
    <3>2. CASE s = t /\ id = new
      BY <1>1, <1>2, <1>3, <3>2
    <3>3. CASE s = t /\ id # new
      <4>1. id \in DOMAIN kept[t] /\ kept'[t][id] = kept[t][id]
        BY <1>1, <1>4, <2>1, <3>3
      <4>2. id \in 1..Len(told) /\ told[id].tenant = t /\ kept[t][id] = told[id].messages
        BY <1>2, <4>1 DEF AsTold
      <4> QED
        BY <1>2, <1>3, <3>3, <4>1, <4>2
    <3> QED
      BY <3>1, <3>2, <3>3
  <2>2. ASSUME NEW d \in Callers, caller'[d].at = "chat"
        PROVE  /\ caller'[d].tenant \in Tenants
               /\ \/ caller'[d].previous = 0 /\ caller'[d].messages = <<>>
                  \/ /\ caller'[d].previous \in 1..new
                     /\ caller'[d].messages = told'[caller'[d].previous].messages
    <3>1. caller'[d] = caller[d]
      BY <1>5, <2>2
    <3>2. \A id \in 1..Len(told) : id \in 1..new
      BY <1>2
    <3>3. Follows(caller[d], told)
      BY <2>2, <3>1, CallersFollow
    <3> QED
      BY <1>3, <3>1, <3>2, <3>3 DEF Follows
  <2> QED
    BY <1>1, <1>2, <1>3, <1>5, <2>1, <2>2 DEF AsTold
<1>7. ASSUME NEW id \in 1..Len(told)
      PROVE  /\ Later(id) \subseteq Later(id)'
             /\ told[id].tenant = t => new \in Later(id)'
             /\ IsFiniteSet(Later(id)')
             /\ \A S \in SUBSET Later(id)' : Cardinality(S) <= Cardinality(Later(id)')
             /\ Cardinality(Later(id)') \in Nat
  <2>1. Later(id)' = {n \in id + 1..new : told'[n].tenant = told'[id].tenant}
    BY <1>3 DEF Later
  <2>2. id \in Nat /\ id + 1 <= new /\ new \in id + 1..new
    BY <1>2
  <2>3. Later(id) \subseteq Later(id)'
    <3> SUFFICES ASSUME NEW n \in Later(id)
                 PROVE  n \in Later(id)'
      OBVIOUS
    <3>1. n \in id + 1..Len(told) /\ told[n].tenant = told[id].tenant
      BY DEF Later
    <3>2. n \in 1..Len(told) /\ n \in id + 1..new
      BY <1>2, <2>2, <3>1
    <3> QED
      BY <1>3, <2>1, <3>1, <3>2
  <2>4. told[id].tenant = t => new \in Later(id)'
    BY <1>3, <2>1, <2>2
  <2>5. IsFiniteSet(id + 1..new) /\ Later(id)' \in SUBSET (id + 1..new)
    <3>1. id + 1 \in Int /\ new \in Int
      BY <1>2, <2>2
    <3> QED
      BY <2>1, <3>1, FS_Interval
  <2>6. IsFiniteSet(Later(id)')
    BY <2>5, FS_Subset
  <2> QED
    BY <2>3, <2>4, <2>6, FS_Subset, FS_CardinalityType
<1>8. ASSUME NEW id \in 1..Len(told)
      PROVE  \/ id \in DOMAIN kept'[told[id].tenant]
             \/ id <= aged
             \/ Cardinality(Later(id)') >= MaxStored
  <2>0. Cardinality(Later(id)') \in Nat /\ MaxStored \in Nat
    BY <1>7, ResponsesAssumption
  <2>1. CASE Cardinality(Later(id)) >= MaxStored
    <3>1. Cardinality(Later(id)) <= Cardinality(Later(id)')
      BY <1>7
    <3>2. Cardinality(Later(id)) \in Nat
      BY <1>2, LaterFinite
    <3> QED
      BY <2>0, <2>1, <3>1, <3>2
  <2>2. CASE id <= aged
    BY <2>2
  <2>3. CASE id \in DOMAIN kept[told[id].tenant] /\ told[id].tenant # t
    <3>1. told[id].tenant \in Tenants
      BY <1>2, Entry
    <3> QED
      BY <1>1, <2>3, <3>1
  <2>4. CASE id \in DOMAIN kept[t] /\ told[id].tenant = t /\ id \notin DOMAIN Room(kept[t]) /\ id > aged
    <3>1. id \in fresh /\ Cardinality(fresh) >= MaxStored /\ \A other \in fresh : id <= other
      BY <1>2, <1>4, <2>4
    <3>2. fresh \subseteq 1..Len(told) /\ \A n \in fresh : told[n].tenant = t
      BY <1>2 DEF fresh, AsTold
    <3>3. IsFiniteSet(fresh) /\ Cardinality(fresh) \in Nat
      <4>1. IsFiniteSet(1..Len(told)) /\ fresh \in SUBSET (1..Len(told))
        BY <1>2, <3>2, FS_Interval
      <4> QED
        BY <4>1, FS_Subset, FS_CardinalityType
    <3> DEFINE others == (fresh \ {id}) \cup {new}
    <3>4. new \notin fresh
      BY <1>2, <3>2
    <3>5. IsFiniteSet(fresh \ {id}) /\ Cardinality(fresh \ {id}) = Cardinality(fresh) - 1
      BY <3>1, <3>3, FS_RemoveElement
    <3>6. Cardinality(others) = Cardinality(fresh)
      <4>1. Cardinality(others) = Cardinality(fresh \ {id}) + 1
        BY <3>4, <3>5, FS_AddElement
      <4> HIDE DEF others
      <4> QED
        BY <3>3, <3>5, <4>1
    <3>7. \A n \in fresh \ {id} : n \in Later(id)
      BY <1>2, <2>4, <3>1, <3>2 DEF Later
    <3>8. others \in SUBSET Later(id)'
      BY <1>7, <2>4, <3>7
    <3>9. Cardinality(others) <= Cardinality(Later(id)')
      BY <1>7, <3>8
    <3> HIDE DEF others
    <3> QED
      BY <2>0, <3>1, <3>3, <3>6, <3>9
  <2>5. CASE id \in DOMAIN kept[t] /\ told[id].tenant = t /\ id \in DOMAIN Room(kept[t])
    BY <1>1, <2>5
  <2>6. id <= aged \/ id > aged
    BY <1>2
  <2> QED
    BY <2>1, <2>2, <2>3, <2>4, <2>5, <2>6 DEF KeptInv, OnlyOldGo
<1>9. OnlyOldGo'
  <2>1. new \in DOMAIN kept'[told'[new].tenant]
    BY <1>1, <1>3
  <2>2. \A id \in 1..new : id = new \/ id \in 1..Len(told)
    BY <1>2
  <2> SUFFICES ASSUME NEW id \in 1..new
               PROVE  \/ id \in DOMAIN kept'[told'[id].tenant]
                      \/ id <= aged'
                      \/ Cardinality(Later(id)') >= MaxStored
    BY <1>3 DEF OnlyOldGo
  <2> QED
    BY <1>1, <1>3, <1>8, <2>1, <2>2
<1> QED
  BY <1>6, <1>9 DEF KeptInv

LEMMA KeptNextInv == KeptInv /\ [ResponsesNext]_responsesVars => KeptInv'
<1> SUFFICES ASSUME KeptInv, [ResponsesNext]_responsesVars
             PROVE  KeptInv'
  OBVIOUS
<1>1. CASE UNCHANGED keptVars
  BY <1>1 DEF keptVars, KeptInv, AsTold, OnlyOldGo, Later
<1>2. CASE KeptNext
  BY <1>2, AskKept, UnansweredKept, KeepKept, HourKept DEF KeptNext
<1> QED
  BY <1>1, <1>2 DEF ResponsesNext, responsesVars

(* A response younger than an hour and among the MaxStored latest of its   *)
(* tenant, which may have many keys, can be followed up, with the          *)
(* conversation it ended (responses, protocol_handlers.go:319-339).        *)
THEOREM RecentCanBeFollowed == ResponsesSpec => []NewestFollowable
<1>1. KeptInv => NewestFollowable
  <2> SUFFICES ASSUME KeptInv, NEW id \in 1..Len(told), id > aged,
                      Cardinality({n \in id + 1..Len(told) : told[n].tenant = told[id].tenant}) < MaxStored
               PROVE  id \in DOMAIN kept[told[id].tenant]
                      /\ kept[told[id].tenant][id] = told[id].messages
    BY DEF NewestFollowable
  <2>1. Cardinality(Later(id)) < MaxStored /\ MaxStored \in Nat /\ aged \in Nat /\ id \in Nat
    BY ResponsesAssumption DEF Later, KeptInv, AsTold
  <2>2. Cardinality(Later(id)) \in Nat
    BY <2>1, LaterFinite DEF KeptInv
  <2>3. id \in DOMAIN kept[told[id].tenant]
    BY <2>1, <2>2 DEF KeptInv, OnlyOldGo
  <2>4. told[id].tenant \in Tenants
    BY Entry DEF KeptInv
  <2> QED
    BY <2>3, <2>4 DEF KeptInv, AsTold
<1> QED
  BY <1>1, KeptInit, KeptNextInv, PTL DEF ResponsesSpec

-----------------------------------------------------------------------------
LEMMA Least ==
    ASSUME NEW S \in SUBSET Nat, S # {}
    PROVE  \E x \in S : \A y \in S : x <= y
<1>1. IsWellFoundedOn(OpToRel(<, Nat), Nat)
  BY NatLessThanWellFounded, Zenon
<1>2. PICK x \in S : \A y \in S : ~ (<<y, x>> \in OpToRel(<, Nat))
  BY <1>1, WFMin, Zenon
<1>3. ASSUME NEW y \in S
      PROVE  x <= y
  <2>1. ~(y < x)
    BY <1>2 DEF OpToRel
  <2> QED
    BY <2>1
<1> QED
  BY <1>3

(* Among keeps the elements of s that are in S.                            *)
Passing(s, S, f) ==
    [n \in 0..Len(s) |->
        IF n = 0 THEN <<>> ELSE IF s[n] \in S THEN Append(f[n - 1], s[n]) ELSE f[n - 1]]
LEMMA AmongIsDefined ==
    ASSUME NEW T, NEW s \in Seq(T), NEW S
    PROVE  \E f : f = Passing(s, S, f)
<1> DEFINE step(m, g) == IF m = 0 THEN <<>>
                         ELSE IF s[m] \in S THEN Append(g[m - 1], s[m]) ELSE g[m - 1]
           Till(m) == \E g : g = [i \in 0..m |-> step(i, g)]
           bad == {m \in Nat : ~Till(m)}
<1>1. Till(0)
  <2> DEFINE g == [i \in 0..0 |-> <<>>]
  <2>1. g = [i \in 0..0 |-> step(i, g)]
    OBVIOUS
  <2> QED
    BY <2>1
<1>2. ASSUME NEW m \in Nat \ {0}, Till(m - 1)
      PROVE  Till(m)
  <2>1. PICK g : g = [i \in 0..(m - 1) |-> step(i, g)]
    BY <1>2
  <2> DEFINE h == [i \in 0..m |-> IF i = m THEN step(m, g) ELSE g[i]]
  <2>2. ASSUME NEW i \in 0..m
        PROVE  h[i] = step(i, h)
    <3>1. CASE i = 0
      BY <2>1, <3>1
    <3>2. CASE i # 0
      <4>1. i - 1 \in 0..(m - 1) /\ i - 1 \in 0..m /\ i - 1 # m
        BY <3>2
      <4>2. h[i - 1] = g[i - 1]
        BY <4>1
      <4>3. i # m => i \in 0..(m - 1)
        OBVIOUS
      <4>4. h[i] = step(i, g)
        BY <2>1, <4>3
      <4> QED
        BY <3>2, <4>2, <4>4
    <3> QED
      BY <3>1, <3>2
  <2>3. h = [i \in 0..m |-> step(i, h)]
    BY <2>2
  <2> QED
    BY <2>3
<1> HIDE DEF Till
<1>3. bad = {}
  <2> SUFFICES ASSUME bad # {}
               PROVE  FALSE
    OBVIOUS
  <2>1. PICK m \in bad : \A k \in bad : m <= k
    <3>1. bad \in SUBSET Nat
      OBVIOUS
    <3> QED
      BY <3>1, Least
  <2>2. m # 0 /\ m \in Nat
    BY <1>1
  <2>3. m - 1 \in Nat /\ ~(m <= m - 1)
    BY <2>2
  <2>4. Till(m - 1)
    BY <2>1, <2>3
  <2> QED
    BY <1>2, <2>2, <2>4
<1>4. Till(Len(s))
  BY <1>3
<1> QED
  BY <1>4 DEF Till, Passing

(* p holds what is in S of the first n elements of s.                      *)
Passed(T, s, S, p, n) ==
    /\ p \in Seq(T)
    /\ \A x : x \in ToSet(p) <=> x \in S /\ \E i \in 1..n : s[i] = x
LEMMA PassingOne ==
    ASSUME NEW T, NEW s \in Seq(T), NEW S, NEW n \in 1..Len(s), NEW p, Passed(T, s, S, p, n - 1)
    PROVE  Passed(T, s, S, IF s[n] \in S THEN Append(p, s[n]) ELSE p, n)
<1>1. p \in Seq(T) /\ s[n] \in T
  BY DEF Passed
<1>2. \A i \in 1..n : i = n \/ i \in 1..n - 1
  OBVIOUS
<1>3. \A i \in 1..n - 1 : i \in 1..n
  OBVIOUS
<1>4. ToSet(Append(p, s[n])) = ToSet(p) \cup {s[n]}
  BY <1>1, ToSetAppend
<1>5. n \in 1..n
  OBVIOUS
<1>6. \A x : x \in ToSet(p) <=> x \in S /\ \E i \in 1..n - 1 : s[i] = x
  BY DEF Passed
<1> HIDE DEF ToSet
<1>7. CASE s[n] \in S
  <2>1. Append(p, s[n]) \in Seq(T)
    BY <1>1
  <2>2. \A x : x \in ToSet(Append(p, s[n])) <=> x \in S /\ \E i \in 1..n : s[i] = x
    BY <1>2, <1>3, <1>4, <1>5, <1>6, <1>7
  <2> QED
    BY <1>7, <2>1, <2>2 DEF Passed
<1>8. CASE s[n] \notin S
  BY <1>1, <1>2, <1>3, <1>6, <1>8 DEF Passed
<1> QED
  BY <1>7, <1>8

LEMMA AmongFacts ==
    ASSUME NEW T, NEW s \in Seq(T), NEW S
    PROVE  Among(s, S) \in Seq(T) /\ ToSet(Among(s, S)) = ToSet(s) \cap S
<1> DEFINE f == CHOOSE f : f = Passing(s, S, f)
           bad == {m \in Nat : m \in 0..Len(s) /\ ~Passed(T, s, S, f[m], m)}
<1>1. Among(s, S) = f[Len(s)]
  BY DEF Among, Passing
<1>2. f = Passing(s, S, f)
  BY AmongIsDefined
<1> HIDE DEF f
<1>3. /\ f[0] = <<>> /\ Len(s) \in Nat
      /\ \A m \in 1..Len(s) : f[m] = IF s[m] \in S THEN Append(f[m - 1], s[m]) ELSE f[m - 1]
  <2>1. Len(s) \in Nat /\ 0 \in 0..Len(s) /\ \A m \in 1..Len(s) : m \in 0..Len(s) /\ m # 0
    OBVIOUS
  <2> QED
    BY <1>2, <2>1 DEF Passing
<1>4. Passed(T, s, S, f[0], 0)
  <2>1. <<>> \in Seq(T) /\ 1..0 = {} /\ ToSet(<<>>) = {}
    BY DEF ToSet
  <2> QED
    BY <1>3, <2>1 DEF Passed
<1>5. bad = {}
  <2> SUFFICES ASSUME bad # {}
               PROVE  FALSE
    OBVIOUS
  <2>1. PICK m \in bad : \A k \in bad : m <= k
    <3>1. bad \in SUBSET Nat
      OBVIOUS
    <3> QED
      BY <3>1, Least
  <2>2. m # 0 /\ m \in Nat /\ m \in 0..Len(s)
    BY <1>4
  <2>3. m - 1 \in Nat /\ ~(m <= m - 1) /\ m \in 1..Len(s) /\ m - 1 \in 0..Len(s)
    BY <1>3, <2>2
  <2>4. Passed(T, s, S, f[m - 1], m - 1)
    BY <2>1, <2>3
  <2>5. Passed(T, s, S, f[m], m)
    <3>1. f[m] = IF s[m] \in S THEN Append(f[m - 1], s[m]) ELSE f[m - 1]
      BY <1>3, <2>3
    <3>2. Passed(T, s, S, IF s[m] \in S THEN Append(f[m - 1], s[m]) ELSE f[m - 1], m)
      BY <2>3, <2>4, PassingOne
    <3> QED
      BY <3>1, <3>2
  <2> QED
    BY <2>5
<1>6. Passed(T, s, S, Among(s, S), Len(s))
  <2>1. Len(s) \in 0..Len(s)
    BY <1>3
  <2> QED
    BY <1>1, <1>3, <1>5, <2>1
<1>7. \A x : x \in ToSet(s) <=> \E i \in 1..Len(s) : s[i] = x
  BY DEF ToSet
<1> HIDE DEF ToSet
<1> QED
  BY <1>6, <1>7 DEF Passed

(* FlattenSeq.                                                             *)
Flattening(q, f) == [i \in 1..Len(q) |-> IF i = 1 THEN q[i] ELSE f[i - 1] \o q[i]]
LEMMA FlattenIsDefined ==
    ASSUME NEW T, NEW q \in Seq(Seq(T))
    PROVE  \E f : f = Flattening(q, f)
<1> DEFINE step(m, g) == IF m = 1 THEN q[m] ELSE g[m - 1] \o q[m]
           Till(m) == \E g : g = [i \in 1..m |-> step(i, g)]
           bad == {m \in Nat : ~Till(m)}
<1>1. Till(0)
  <2> DEFINE g == [i \in 1..0 |-> <<>>]
  <2>1. g = [i \in 1..0 |-> step(i, g)]
    OBVIOUS
  <2> QED
    BY <2>1
<1>2. ASSUME NEW m \in Nat \ {0}, Till(m - 1)
      PROVE  Till(m)
  <2>1. PICK g : g = [i \in 1..(m - 1) |-> step(i, g)]
    BY <1>2
  <2> DEFINE h == [i \in 1..m |-> IF i = m THEN step(m, g) ELSE g[i]]
  <2>2. ASSUME NEW i \in 1..m
        PROVE  h[i] = step(i, h)
    <3>1. i # m => i \in 1..(m - 1)
      OBVIOUS
    <3>2. h[i] = step(i, g)
      BY <2>1, <3>1
    <3>3. CASE i = 1
      BY <3>2, <3>3
    <3>4. CASE i # 1
      <4>1. i - 1 \in 1..(m - 1) /\ i - 1 \in 1..m /\ i - 1 # m
        BY <3>4
      <4>2. h[i - 1] = g[i - 1]
        BY <4>1
      <4> QED
        BY <3>2, <3>4, <4>2
    <3> QED
      BY <3>3, <3>4
  <2>3. h = [i \in 1..m |-> step(i, h)]
    BY <2>2
  <2> QED
    BY <2>3
<1> HIDE DEF Till
<1>3. bad = {}
  <2> SUFFICES ASSUME bad # {}
               PROVE  FALSE
    OBVIOUS
  <2>1. PICK m \in bad : \A k \in bad : m <= k
    <3>1. bad \in SUBSET Nat
      OBVIOUS
    <3> QED
      BY <3>1, Least
  <2>2. m # 0 /\ m \in Nat
    BY <1>1
  <2>3. m - 1 \in Nat /\ ~(m <= m - 1)
    BY <2>2
  <2>4. Till(m - 1)
    BY <2>1, <2>3
  <2> QED
    BY <1>2, <2>2, <2>4
<1>4. Till(Len(q))
  BY <1>3
<1> QED
  BY <1>4 DEF Till, Flattening

(* p holds what the first n sequences of q hold.                           *)
Joined(T, q, p, n) ==
    /\ p \in Seq(T)
    /\ \A x : x \in ToSet(p) <=> \E i \in 1..n : x \in ToSet(q[i])
LEMMA ToSetConcat ==
    ASSUME NEW T, NEW s \in Seq(T), NEW t \in Seq(T)
    PROVE  s \o t \in Seq(T) /\ ToSet(s \o t) = ToSet(s) \cup ToSet(t)
<1>1. /\ s \o t \in Seq(T) /\ Len(s) \in Nat /\ Len(t) \in Nat /\ Len(s \o t) = Len(s) + Len(t)
      /\ \A i \in 1..Len(s) + Len(t) : (s \o t)[i] = IF i <= Len(s) THEN s[i] ELSE t[i - Len(s)]
  OBVIOUS
<1>2. /\ \A i \in 1..Len(s) : i \in 1..Len(s) + Len(t) /\ i <= Len(s)
      /\ \A i \in 1..Len(t) : /\ i + Len(s) \in 1..Len(s) + Len(t) /\ ~(i + Len(s) <= Len(s))
                              /\ (i + Len(s)) - Len(s) = i
      /\ \A i \in 1..Len(s) + Len(t) : i \in 1..Len(s) \/ (~(i <= Len(s)) /\ i - Len(s) \in 1..Len(t))
  BY <1>1
<1> DEFINE c == s \o t
<1>3. /\ ToSet(c) = {c[i] : i \in 1..Len(s) + Len(t)}
      /\ ToSet(s) = {s[i] : i \in 1..Len(s)} /\ ToSet(t) = {t[i] : i \in 1..Len(t)}
  <2>1. DOMAIN c = 1..Len(s) + Len(t) /\ DOMAIN s = 1..Len(s) /\ DOMAIN t = 1..Len(t)
    BY <1>1
  <2> QED
    BY <2>1 DEF ToSet
<1>4. \A i \in 1..Len(s) : c[i] = s[i]
  BY <1>1, <1>2
<1>5. \A i \in 1..Len(t) : c[i + Len(s)] = t[i]
  BY <1>1, <1>2
<1>6. \A i \in 1..Len(s) + Len(t) : c[i] = IF i <= Len(s) THEN s[i] ELSE t[i - Len(s)]
  BY <1>1
<1> HIDE DEF c, ToSet
<1>7. ASSUME NEW x \in ToSet(c)
      PROVE  x \in ToSet(s) \cup ToSet(t)
  <2>1. PICK i \in 1..Len(s) + Len(t) : x = c[i]
    BY <1>3, <1>7
  <2> QED
    BY <1>2, <1>3, <1>6, <2>1
<1>8. \A x \in ToSet(s) : x \in ToSet(c)
  BY <1>2, <1>3, <1>4
<1>9. \A x \in ToSet(t) : x \in ToSet(c)
  BY <1>2, <1>3, <1>5
<1>10. ToSet(c) = ToSet(s) \cup ToSet(t)
  BY <1>7, <1>8, <1>9
<1> QED
  BY <1>1, <1>10 DEF c

LEMMA JoiningOne ==
    ASSUME NEW T, NEW q \in Seq(Seq(T)), NEW n \in 2..Len(q), NEW p, Joined(T, q, p, n - 1)
    PROVE  Joined(T, q, p \o q[n], n)
<1>1. p \in Seq(T) /\ q[n] \in Seq(T)
  BY DEF Joined
<1>2. PICK r \in Seq(T) : r = q[n]
  BY <1>1
<1>3. p \o r \in Seq(T) /\ ToSet(p \o r) = ToSet(p) \cup ToSet(r)
  BY <1>1, ToSetConcat
<1>4. (\A i \in 1..n : i = n \/ i \in 1..n - 1) /\ n \in 1..n /\ \A i \in 1..n - 1 : i \in 1..n
  OBVIOUS
<1>5. \A x : x \in ToSet(p) <=> \E i \in 1..n - 1 : x \in ToSet(q[i])
  BY DEF Joined
<1> HIDE DEF ToSet
<1>6. \A x : x \in ToSet(p \o r) <=> \E i \in 1..n : x \in ToSet(q[i])
  BY <1>2, <1>3, <1>4, <1>5
<1> QED
  BY <1>2, <1>3, <1>6 DEF Joined

LEMMA FlattenFacts ==
    ASSUME NEW T, NEW q \in Seq(Seq(T))
    PROVE  Joined(T, q, FlattenSeq(q), Len(q))
<1>1. CASE Len(q) = 0
  <2>1. FlattenSeq(q) = q
    BY <1>1 DEF FlattenSeq
  <2>2. q \in Seq(T) /\ ToSet(q) = {} /\ 1..0 = {}
    BY <1>1 DEF ToSet
  <2> QED
    BY <1>1, <2>1, <2>2 DEF Joined
<1>2. CASE Len(q) # 0
  <2> DEFINE f == CHOOSE f : f = Flattening(q, f)
             bad == {m \in Nat : m \in 1..Len(q) /\ ~Joined(T, q, f[m], m)}
  <2>1. FlattenSeq(q) = f[Len(q)]
    BY <1>2 DEF FlattenSeq, Flattening
  <2>2. f = Flattening(q, f)
    BY FlattenIsDefined
  <2> HIDE DEF f
  <2>3. \A m \in 1..Len(q) : f[m] = IF m = 1 THEN q[m] ELSE f[m - 1] \o q[m]
    BY <2>2 DEF Flattening
  <2>4. Len(q) \in Nat /\ 1 \in 1..Len(q) /\ Len(q) \in 1..Len(q)
    BY <1>2
  <2>5. Joined(T, q, f[1], 1)
    <3>1. f[1] = q[1] /\ q[1] \in Seq(T) /\ 1..1 = {1}
      BY <2>3, <2>4
    <3> QED
      BY <3>1 DEF Joined
  <2>6. bad = {}
    <3> SUFFICES ASSUME bad # {}
                 PROVE  FALSE
      OBVIOUS
    <3>1. PICK m \in bad : \A k \in bad : m <= k
      <4>1. bad \in SUBSET Nat
        OBVIOUS
      <4> QED
        BY <4>1, Least
    <3>2. m # 1 /\ m \in Nat /\ m \in 1..Len(q)
      BY <2>5
    <3>3. m - 1 \in Nat /\ ~(m <= m - 1) /\ m \in 2..Len(q) /\ m - 1 \in 1..Len(q)
      BY <2>4, <3>2
    <3>4. Joined(T, q, f[m - 1], m - 1)
      BY <3>1, <3>3
    <3>5. f[m] = f[m - 1] \o q[m]
      BY <2>3, <3>2
    <3>6. Joined(T, q, f[m - 1] \o q[m], m)
      BY <3>3, <3>4, JoiningOne
    <3> QED
      BY <3>5, <3>6
  <2> QED
    BY <2>1, <2>4, <2>6
<1> QED
  BY <1>1, <1>2

(* The calls made in ms.                                                   *)
LEMMA MadeFacts ==
    ASSUME NEW ms \in Seq(ChatMessage)
    PROVE  /\ Made(ms) \in Seq(Call)
           /\ \A x : x \in ToSet(Made(ms)) <=>
                        \E b \in 1..Len(ms) : \E k \in 1..Len(ms[b].calls) : x = ms[b].calls[k]
<1> DEFINE q == [i \in DOMAIN ms |-> ms[i].calls]
<1>1. \A b \in 1..Len(ms) : ms[b].calls \in Seq(Call)
  <2>1. \A b \in 1..Len(ms) : ms[b] \in ChatMessage
    OBVIOUS
  <2> QED
    BY <2>1 DEF ChatMessage
<1>2. q \in Seq(Seq(Call)) /\ Len(q) = Len(ms) /\ \A b \in 1..Len(ms) : q[b] = ms[b].calls
  BY <1>1
<1>3. Made(ms) = FlattenSeq(q)
  BY DEF Made
<1> HIDE DEF q
<1>4. Joined(Call, q, Made(ms), Len(ms))
  BY <1>2, <1>3, FlattenFacts
<1>5. \A b \in 1..Len(ms) : \A x : x \in ToSet(q[b]) <=> \E k \in 1..Len(ms[b].calls) : x = ms[b].calls[k]
  BY <1>1, <1>2 DEF ToSet
<1> HIDE DEF ToSet
<1>6. \A x : x \in ToSet(Made(ms)) <=> \E b \in 1..Len(ms) : x \in ToSet(q[b])
  BY <1>4 DEF Joined
<1>7. Made(ms) \in Seq(Call)
  BY <1>4 DEF Joined
<1>8. ASSUME NEW x
      PROVE  x \in ToSet(Made(ms)) <=>
                \E b \in 1..Len(ms) : \E k \in 1..Len(ms[b].calls) : x = ms[b].calls[k]
  <2>1. \A b \in 1..Len(ms) : x \in ToSet(q[b]) <=> \E k \in 1..Len(ms[b].calls) : x = ms[b].calls[k]
    BY <1>5
  <2> QED
    BY <1>6, <2>1
<1> QED
  BY <1>7, <1>8

(* validateToolConversation: the states of Protocol.                       *)
Following(ms, f) ==
    [i \in 0..Len(ms) |->
        IF i = 0 THEN [ok |-> TRUE, pending |-> {}, completed |-> {}] ELSE After(f[i - 1], ms[i])]
LEMMA ProtocolIsDefined ==
    ASSUME NEW ms \in Seq(ChatMessage)
    PROVE  \E f : f = Following(ms, f)
<1> DEFINE step(m, g) == IF m = 0 THEN [ok |-> TRUE, pending |-> {}, completed |-> {}]
                         ELSE After(g[m - 1], ms[m])
           Till(m) == \E g : g = [i \in 0..m |-> step(i, g)]
           bad == {m \in Nat : ~Till(m)}
<1>1. Till(0)
  <2> DEFINE g == [i \in 0..0 |-> [ok |-> TRUE, pending |-> {}, completed |-> {}]]
  <2>1. g = [i \in 0..0 |-> step(i, g)]
    OBVIOUS
  <2> QED
    BY <2>1
<1>2. ASSUME NEW m \in Nat \ {0}, Till(m - 1)
      PROVE  Till(m)
  <2>1. PICK g : g = [i \in 0..(m - 1) |-> step(i, g)]
    BY <1>2
  <2> DEFINE h == [i \in 0..m |-> IF i = m THEN step(m, g) ELSE g[i]]
  <2>2. ASSUME NEW i \in 0..m
        PROVE  h[i] = step(i, h)
    <3>1. CASE i = 0
      BY <2>1, <3>1
    <3>2. CASE i # 0
      <4>1. i - 1 \in 0..(m - 1) /\ i - 1 \in 0..m /\ i - 1 # m
        BY <3>2
      <4>2. h[i - 1] = g[i - 1]
        BY <4>1
      <4>3. i # m => i \in 0..(m - 1)
        OBVIOUS
      <4>4. h[i] = step(i, g)
        BY <2>1, <4>3
      <4> QED
        BY <3>2, <4>2, <4>4
    <3> QED
      BY <3>1, <3>2
  <2>3. h = [i \in 0..m |-> step(i, h)]
    BY <2>2
  <2> QED
    BY <2>3
<1> HIDE DEF Till
<1>3. bad = {}
  <2> SUFFICES ASSUME bad # {}
               PROVE  FALSE
    OBVIOUS
  <2>1. PICK m \in bad : \A k \in bad : m <= k
    <3>1. bad \in SUBSET Nat
      OBVIOUS
    <3> QED
      BY <3>1, Least
  <2>2. m # 0 /\ m \in Nat
    BY <1>1
  <2>3. m - 1 \in Nat /\ ~(m <= m - 1)
    BY <2>2
  <2>4. Till(m - 1)
    BY <2>1, <2>3
  <2> QED
    BY <1>2, <2>2, <2>4
<1>4. Till(Len(ms))
  BY <1>3
<1> QED
  BY <1>4 DEF Till, Following

(* A conversation the client keeps: the calls of a message are the         *)
(* assistant's and have ids of their own, and their results follow, in     *)
(* order, unless the message is the last one and the results are still to  *)
(* come.                                                                   *)
Closed(ms, waits, b) == ~(waits /\ b = Len(ms))
Shaped(ms, waits) ==
    /\ \A b \in 1..Len(ms) : ms[b].calls # <<>> => ms[b].role = "assistant"
    /\ \A b \in 1..Len(ms) : \A i, k \in 1..Len(ms[b].calls) :
          ms[b].calls[i].id = ms[b].calls[k].id => i = k
    /\ \A b \in 1..Len(ms) : \A k \in 1..Len(ms[b].calls) :
          Closed(ms, waits, b) =>
             /\ b + k <= Len(ms) /\ ms[b + k].role = "tool"
             /\ ms[b + k].id = ms[b].calls[k].id
    /\ \A b \in 1..Len(ms) :
          ms[b].role = "tool" =>
             /\ ms[b].result # "empty"
             /\ \E c \in 1..Len(ms) : c < b /\ b - c \in 1..Len(ms[c].calls)

LEMMA AfterFacts ==
    ASSUME NEW s, NEW m
    PROVE  /\ m.role = "assistant" => After(s, m).pending = {c.id : c \in ToSet(m.calls)}
           /\ m.role = "tool" => After(s, m).pending = s.pending \ {m.id}
<1> DEFINE ids == {c.id : c \in ToSet(m.calls)}
<1>1. After(s, m) = IF m.role = "assistant"
                    THEN [ok |-> /\ s.ok /\ s.pending = {} /\ ids \cap s.completed = {}
                                 /\ Cardinality(ids) = Len(m.calls),
                          pending |-> ids, completed |-> s.completed]
                    ELSE IF m.role = "tool"
                    THEN [ok |-> s.ok /\ m.id \in s.pending,
                          pending |-> s.pending \ {m.id}, completed |-> s.completed \cup {m.id}]
                    ELSE s
  BY Zenon DEF After
<1> HIDE DEF ids
<1>2. m.role = "assistant" => After(s, m).pending = ids
  <2> HAVE m.role = "assistant"
  <2>1. PICK ok : ok = (/\ s.ok /\ s.pending = {} /\ ids \cap s.completed = {}
                        /\ Cardinality(ids) = Len(m.calls))
    OBVIOUS
  <2>2. After(s, m) = [ok |-> ok, pending |-> ids, completed |-> s.completed]
    BY <1>1, <2>1, Zenon
  <2> QED
    BY <2>2
<1>3. m.role = "tool" => After(s, m).pending = s.pending \ {m.id}
  <2> HAVE m.role = "tool"
  <2>1. PICK ok : ok = (s.ok /\ m.id \in s.pending)
    OBVIOUS
  <2>2. After(s, m) = [ok |-> ok, pending |-> s.pending \ {m.id}, completed |-> s.completed \cup {m.id}]
    <3>1. ~("tool" = "assistant")
      OBVIOUS
    <3> QED
      BY <1>1, <2>1, <3>1, Zenon
  <2> QED
    BY <2>2
<1> QED
  BY <1>2, <1>3 DEF ids

LEMMA PieceFacts ==
    ASSUME NEW T, NEW s \in Seq(T), NEW m \in 1..Len(s) + 1, NEW n \in m - 1..Len(s)
    PROVE  /\ SubSeq(s, m, n) \in Seq(T) /\ Len(SubSeq(s, m, n)) = (n + 1) - m
           /\ \A i \in 1..(n + 1) - m : SubSeq(s, m, n)[i] = s[(m + i) - 1]
<1>1. m \in Int /\ n \in Int /\ \A i \in m..n : s[i] \in T
  OBVIOUS
<1>2. /\ SubSeq(s, m, n) \in Seq(T) /\ Len(SubSeq(s, m, n)) = IF m <= n THEN n - m + 1 ELSE 0
      /\ \A i \in 1..n - m + 1 : SubSeq(s, m, n)[i] = s[m + i - 1]
  BY <1>1, SubSeqProperties
<1>3. (n + 1) - m = n - m + 1 /\ (n + 1) - m = IF m <= n THEN n - m + 1 ELSE 0
  BY <1>1
<1>4. \A i \in 1..(n + 1) - m : i \in 1..n - m + 1 /\ (m + i) - 1 = m + i - 1
  BY <1>1
<1> QED
  BY <1>2, <1>3, <1>4

LEMMA FrontFacts ==
    ASSUME NEW T, NEW s \in Seq(T), s # <<>>
    PROVE  /\ Front(s) \in Seq(T) /\ Len(Front(s)) = Len(s) - 1
           /\ \A i \in 1..Len(s) - 1 : Front(s)[i] = s[i]
<1>1. Len(s) \in Nat /\ Len(s) # 0 /\ 1 \in 1..Len(s) + 1 /\ Len(s) - 1 \in 1 - 1..Len(s)
  OBVIOUS
<1> DEFINE n == Len(s) - 1
<1>2. n + 1 - 1 = n /\ n \in Int /\ \A i \in 1..n : (1 + i) - 1 = i
  BY <1>1
<1>3. n \in 1 - 1..Len(s) /\ Front(s) = SubSeq(s, 1, n)
  BY <1>1 DEF Front
<1> HIDE DEF n
<1>4. /\ SubSeq(s, 1, n) \in Seq(T) /\ Len(SubSeq(s, 1, n)) = (n + 1) - 1
      /\ \A i \in 1..(n + 1) - 1 : SubSeq(s, 1, n)[i] = s[(1 + i) - 1]
  BY <1>1, <1>3, PieceFacts
<1>5. Front(s) \in Seq(T) /\ Len(Front(s)) = n /\ \A i \in 1..n : Front(s)[i] = s[i]
  BY <1>2, <1>3, <1>4
<1> QED
  BY <1>5 DEF n

LEMMA FrontIsOpen ==
    ASSUME NEW ms \in Seq(ChatMessage), Shaped(ms, FALSE), ms # <<>>, Last(ms).role = "tool"
    PROVE  ~ValidConversation(Front(ms))
<1> DEFINE ws == Front(ms)
           n == Len(ms)
           f == CHOOSE f : f = Following(ws, f)
<1>1. n \in Nat /\ n # 0 /\ n \in 1..Len(ms)
  OBVIOUS
<1>2. ws \in Seq(ChatMessage) /\ Len(ws) = n - 1 /\ \A j \in 1..n - 1 : ws[j] = ms[j]
  BY <1>1, FrontFacts
<1> HIDE DEF ws
<1>3. f = Following(ws, f)
  BY <1>2, ProtocolIsDefined
<1>4. Protocol(ws) = f[n - 1]
  BY <1>2 DEF Protocol, Following
<1> HIDE DEF f
<1>5. \A j \in 1..n - 1 : f[j] = After(f[j - 1], ms[j])
  <2>1. \A j \in 1..n - 1 : j \in 0..n - 1 /\ j # 0
    BY <1>1
  <2> QED
    BY <1>2, <1>3, <2>1 DEF Following
<1>6. PICK c \in 1..n : c < n /\ n - c \in 1..Len(ms[c].calls)
  <2>1. ms[n].role = "tool"
    BY DEF Last
  <2> QED
    BY <1>1, <2>1 DEF Shaped
<1> DEFINE l == Len(ms[c].calls)
           x == ms[c].calls[l].id
           bad == {j \in Nat : j \in c..n - 1 /\ x \notin f[j].pending}
<1>7. l \in Nat /\ l \in 1..l /\ ms[c].calls \in Seq(Call) /\ ms[c].calls # <<>>
  <2>1. ms[c] \in ChatMessage
    OBVIOUS
  <2>2. ms[c].calls \in Seq(Call)
    BY <2>1 DEF ChatMessage
  <2> QED
    BY <1>6, <2>2
<1>8. \A k \in 1..l : c + k <= n /\ ms[c + k].role = "tool" /\ ms[c + k].id = ms[c].calls[k].id
  BY <1>6 DEF Shaped, Closed
<1>9. n = c + l
  <2>1. c + l <= n
    BY <1>7, <1>8
  <2> QED
    BY <1>1, <1>6, <1>7, <2>1
<1>10. x \in f[c].pending
  <2>1. ms[c].role = "assistant"
    BY <1>6, <1>7 DEF Shaped
  <2>2. f[c].pending = {d.id : d \in ToSet(ms[c].calls)}
    BY <1>5, <1>6, <2>1, AfterFacts
  <2>3. ms[c].calls[l] \in ToSet(ms[c].calls)
    BY <1>7 DEF ToSet
  <2> QED
    BY <2>2, <2>3
<1>11. \A k \in 1..l : ms[c].calls[k].id = x => k = l
  BY <1>6, <1>7 DEF Shaped
<1> HIDE DEF x
<1>12. ASSUME NEW j \in c + 1..n - 1, x \in f[j - 1].pending
       PROVE  x \in f[j].pending
  <2>1. j - c \in 1..l /\ j - c # l /\ c + (j - c) = j /\ j \in 1..n - 1
    BY <1>1, <1>7, <1>9
  <2>2. ms[j].role = "tool" /\ ms[j].id = ms[c].calls[j - c].id
    BY <1>8, <2>1
  <2>3. f[j].pending = f[j - 1].pending \ {ms[j].id}
    BY <1>5, <2>1, <2>2, AfterFacts
  <2> QED
    BY <1>11, <1>12, <2>1, <2>2, <2>3
<1>13. bad = {}
  <2> SUFFICES ASSUME bad # {}
               PROVE  FALSE
    OBVIOUS
  <2>1. PICK m \in bad : \A k \in bad : m <= k
    <3>1. bad \in SUBSET Nat
      OBVIOUS
    <3> QED
      BY <3>1, Least
  <2>2. m # c /\ m \in Nat /\ m \in c..n - 1 /\ x \notin f[m].pending
    BY <1>10
  <2>3. m - 1 \in Nat /\ ~(m <= m - 1) /\ m \in c + 1..n - 1 /\ m - 1 \in c..n - 1
    BY <1>1, <2>2
  <2>4. x \in f[m - 1].pending
    BY <2>1, <2>3
  <2> QED
    BY <1>12, <2>2, <2>3, <2>4
<1>14. x \in f[n - 1].pending
  <2>1. n - 1 \in c..n - 1 /\ n - 1 \in Nat
    BY <1>1, <1>6
  <2> QED
    BY <1>13, <2>1
<1> QED
  BY <1>4, <1>14 DEF ValidConversation, ws

(* What the gateway looks at is the end of what the client has posted.     *)
Suffix(ws, ms) ==
    \E d \in 0..Len(ms) :
       /\ ws \in Seq(ChatMessage) /\ Len(ws) = Len(ms) - d
       /\ \A i \in 1..Len(ws) : ws[i] = ms[i + d]

LEMMA TrimmedFacts ==
    ASSUME NEW ms \in Seq(ChatMessage), NEW n, Trimmed(ms, n) # <<>>
    PROVE  Suffix(Trimmed(ms, n), ms)
<1> DEFINE fits == {i \in TurnStarts(ms) : Len(ms) - i + 1 <= n}
<1>1. fits # {} /\ Trimmed(ms, n) = SubSeq(ms, Min(fits), Len(ms))
  BY DEF Trimmed
<1>2. fits \in SUBSET Nat /\ fits \subseteq 1..Len(ms)
  BY DEF TurnStarts
<1> HIDE DEF fits
<1>3. PICK m \in 1..Len(ms) : m = Min(fits)
  <2>1. \E x \in fits : \A y \in fits : x <= y
    BY <1>1, <1>2, Least
  <2>2. Min(fits) \in fits
    BY <2>1 DEF Min
  <2> QED
    BY <1>2, <2>2
<1>4. m - 1 \in 0..Len(ms) /\ Len(ms) \in m - 1..Len(ms) /\ m \in 1..Len(ms) + 1 /\ Len(ms) \in Nat
  OBVIOUS
<1>5. /\ SubSeq(ms, m, Len(ms)) \in Seq(ChatMessage) /\ Len(SubSeq(ms, m, Len(ms))) = (Len(ms) + 1) - m
      /\ \A i \in 1..(Len(ms) + 1) - m : SubSeq(ms, m, Len(ms))[i] = ms[(m + i) - 1]
  BY <1>4, PieceFacts
<1>6. PICK ws \in Seq(ChatMessage) : ws = SubSeq(ms, m, Len(ms))
  BY <1>5
<1>7. Len(ws) = Len(ms) - (m - 1) /\ \A i \in 1..Len(ws) : ws[i] = ms[i + (m - 1)]
  <2>1. (Len(ms) + 1) - m = Len(ms) - (m - 1)
    BY <1>4
  <2>2. \A i \in 1..Len(ms) - (m - 1) : (m + i) - 1 = i + (m - 1)
    BY <1>4
  <2> QED
    BY <1>5, <1>6, <2>1, <2>2
<1> QED
  BY <1>1, <1>3, <1>4, <1>6, <1>7 DEF Suffix

(* buildAgentLedger: what is completed was called, and what has a result   *)
(* is completed.                                                           *)
LEMMA LedgerFacts ==
    ASSUME NEW ms \in Seq(ChatMessage)
    PROVE  /\ \A e \in Ledger(ms).completed :
                 \E b \in 1..Len(ms) : \E k \in 1..Len(ms[b].calls) : e = ms[b].calls[k]
           /\ \A b \in 1..Len(ms) : \A k \in 1..Len(ms[b].calls) : \A j \in 1..Len(ms) :
                 /\ ms[j].role = "tool" /\ ms[j].id = ms[b].calls[k].id
                 /\ \A i \in 1..Len(ms) : ms[i].role = "tool" => ms[i].result # "empty"
                 => ms[b].calls[k] \in Ledger(ms).completed
<1> DEFINE calls == ToSet(Made(ms))
           Found(id, i) == ms[i].role = "tool" /\ ms[i].id = id
           Result(id) == IF \E i \in DOMAIN ms : Found(id, i)
                         THEN ms[CHOOSE i \in DOMAIN ms : Found(id, i)].result ELSE "empty"
           completed == {c \in calls : Result(c.id) # "empty"}
<1>1. Ledger(ms).completed = completed
  BY DEF Ledger
<1>2. \A x : x \in calls <=> \E b \in 1..Len(ms) : \E k \in 1..Len(ms[b].calls) : x = ms[b].calls[k]
  BY MadeFacts
<1> HIDE DEF calls
<1>3. ASSUME NEW b \in 1..Len(ms), NEW k \in 1..Len(ms[b].calls), NEW j \in 1..Len(ms),
             Found(ms[b].calls[k].id, j),
             \A i \in 1..Len(ms) : ms[i].role = "tool" => ms[i].result # "empty"
      PROVE  ms[b].calls[k] \in completed
  <2> DEFINE c == ms[b].calls[k]
             first == CHOOSE i \in DOMAIN ms : Found(c.id, i)
  <2>1. DOMAIN ms = 1..Len(ms)
    OBVIOUS
  <2>2. \E i \in DOMAIN ms : Found(c.id, i)
    BY <1>3, <2>1
  <2>3. first \in DOMAIN ms /\ Found(c.id, first)
    BY <2>2
  <2>4. Result(c.id) = ms[first].result
    BY <2>2
  <2>5. Result(c.id) # "empty"
    BY <1>3, <2>1, <2>3, <2>4
  <2>6. c \in calls
    BY <1>2
  <2> QED
    BY <2>5, <2>6
<1>4. \A e \in completed : e \in calls
  OBVIOUS
<1> HIDE DEF completed, Result
<1>5. \A e \in Ledger(ms).completed :
         \E b \in 1..Len(ms) : \E k \in 1..Len(ms[b].calls) : e = ms[b].calls[k]
  BY <1>1, <1>2, <1>4
<1> QED
  BY <1>1, <1>3, <1>5

(* w is a batch of answered calls with a change, and what looks like o was *)
(* not answered after it.                                                  *)
Overtakes(ms, waits, o, w) ==
    /\ Closed(ms, waits, w)
    /\ \E k \in 1..Len(ms[w].calls) : ms[w].calls[k].name \in Changing
    /\ \A b \in 1..Len(ms) : \A k \in 1..Len(ms[b].calls) :
          Closed(ms, waits, b) /\ Plain(ms[b].calls[k]) = o => b <= w

(* An observation a change has overtaken is not dropped.                   *)
LEMMA VerdictIsFresh ==
    ASSUME \A n \in Changing : ~Observational(n),
           NEW ms \in Seq(ChatMessage), Shaped(ms, FALSE), NEW ws, Suffix(ws, ms),
           NEW c \in Candidate, HasCompleted(Ledger(ws), c),
           NEW w \in 1..Len(ms), Overtakes(ms, FALSE, Plain(c), w)
    PROVE  HasAnyMutation(Ledger(ws))
<1>1. PICK d \in 0..Len(ms) : /\ ws \in Seq(ChatMessage) /\ Len(ws) = Len(ms) - d
                              /\ \A i \in 1..Len(ws) : ws[i] = ms[i + d]
  BY DEF Suffix
<1>2. /\ Len(ms) \in Nat /\ d \in Nat /\ \A i \in 1..Len(ws) : i + d \in 1..Len(ms)
      /\ \A i \in 1..Len(ms) : d < i => i - d \in 1..Len(ws) /\ (i - d) + d = i
  BY <1>1
<1>3. PICK e \in Ledger(ws).completed : Same(e, c)
  BY DEF HasCompleted
<1>4. PICK b \in 1..Len(ws) : \E k \in 1..Len(ws[b].calls) : e = ws[b].calls[k]
  BY <1>1, LedgerFacts
<1>5. PICK k \in 1..Len(ws[b].calls) : e = ws[b].calls[k]
  BY <1>4
<1>6. b + d \in 1..Len(ms) /\ ws[b] = ms[b + d] /\ k \in 1..Len(ms[b + d].calls)
  BY <1>1, <1>2, <1>4, <1>5
<1>7. Plain(ms[b + d].calls[k]) = Plain(c)
  BY <1>3, <1>5, <1>6 DEF Same, Plain
<1>8. Closed(ms, FALSE, b + d) /\ Closed(ms, FALSE, w)
  BY DEF Closed
<1>9. b + d <= w
  BY <1>6, <1>7, <1>8 DEF Overtakes
<1>10. w - d \in 1..Len(ws) /\ ws[w - d] = ms[w]
  <2>1. w \in 1..Len(ms) /\ d < w
    BY <1>2, <1>4, <1>9
  <2>2. w - d \in 1..Len(ws) /\ (w - d) + d = w
    BY <1>2, <2>1
  <2> QED
    BY <1>1, <2>2
<1>11. PICK l \in 1..Len(ms[w].calls) : ms[w].calls[l].name \in Changing
  BY DEF Overtakes
<1>12. w + l \in 1..Len(ms) /\ ms[w + l].role = "tool" /\ ms[w + l].id = ms[w].calls[l].id
  <2>1. w + l <= Len(ms) /\ ms[w + l].role = "tool" /\ ms[w + l].id = ms[w].calls[l].id
    BY <1>8, <1>11 DEF Shaped
  <2>2. Len(ms[w].calls) \in Nat
    <3>1. ms[w] \in ChatMessage
      OBVIOUS
    <3> QED
      BY <3>1 DEF ChatMessage
  <2> QED
    BY <1>2, <1>11, <2>1, <2>2
<1>13. (w + l) - d \in 1..Len(ws) /\ ws[(w + l) - d] = ms[w + l]
  <2>1. d < w + l
    BY <1>2, <1>4, <1>9, <1>11
  <2>2. (w + l) - d \in 1..Len(ws) /\ ((w + l) - d) + d = w + l
    BY <1>2, <1>12, <2>1
  <2> QED
    BY <1>1, <2>2
<1>14. ASSUME NEW i \in 1..Len(ws), ws[i].role = "tool"
       PROVE  ws[i].result # "empty"
  <2>1. i + d \in 1..Len(ms) /\ ws[i] = ms[i + d]
    BY <1>1, <1>2
  <2>2. \A j \in 1..Len(ms) : ms[j].role = "tool" => ms[j].result # "empty"
    BY DEF Shaped
  <2> QED
    BY <1>14, <2>1, <2>2
<1>15. ws[w - d].calls[l] \in Ledger(ws).completed
  BY <1>1, <1>10, <1>11, <1>12, <1>13, <1>14, LedgerFacts
<1>16. ~Observational(ws[w - d].calls[l].name)
  BY <1>10, <1>11
<1> QED
  BY <1>15, <1>16 DEF HasAnyMutation

(* A message of the client or of the gateway is added.                     *)
Adds(ms, m, waits) ==
    /\ m \in ChatMessage /\ m.role # "tool"
    /\ m.calls # <<>> => m.role = "assistant" /\ waits
    /\ \A i, k \in 1..Len(m.calls) : m.calls[i].id = m.calls[k].id => i = k
LEMMA AddedFacts ==
    ASSUME NEW ms \in Seq(ChatMessage), Shaped(ms, FALSE), NEW m, NEW waits \in BOOLEAN,
           Adds(ms, m, waits)
    PROVE  /\ Append(ms, m) \in Seq(ChatMessage) /\ Append(ms, m) # <<>> /\ Shaped(Append(ms, m), waits)
           /\ \A o : \A w \in 1..Len(ms) :
                 Overtakes(ms, FALSE, o, w) => /\ w \in 1..Len(Append(ms, m))
                                               /\ Overtakes(Append(ms, m), waits, o, w)
<1>1. m \in ChatMessage /\ m.calls \in Seq(Call)
  <2>1. m \in ChatMessage
    BY DEF Adds
  <2> QED
    BY <2>1 DEF ChatMessage
<1>2. PICK ns \in Seq(ChatMessage) : ns = Append(ms, m)
  <2>1. Append(ms, m) \in Seq(ChatMessage)
    BY <1>1
  <2> QED
    BY <2>1
<1> DEFINE n == Len(ms)
<1>3. /\ ns # <<>> /\ n \in Nat /\ Len(ns) = n + 1 /\ ns[n + 1] = m /\ \A b \in 1..n : ns[b] = ms[b]
      /\ \A b \in 1..n + 1 : b = n + 1 \/ b \in 1..n
      /\ \A b \in 1..n : b \in 1..n + 1 /\ b # n + 1
  BY <1>1, <1>2
<1>4. /\ m.role # "tool" /\ (m.calls # <<>> => m.role = "assistant" /\ waits)
      /\ \A i, k \in 1..Len(m.calls) : m.calls[i].id = m.calls[k].id => i = k
  BY DEF Adds
<1>5. ~waits => m.calls = <<>> /\ 1..Len(m.calls) = {}
  BY <1>4
<1> HIDE DEF n
<1>6. \A b \in 1..n : Closed(ms, FALSE, b) /\ Closed(ns, waits, b)
  BY <1>3 DEF Closed
<1>7. \A b \in 1..n : \A k \in 1..Len(ms[b].calls) :
         b + k <= n /\ ms[b + k].role = "tool" /\ ms[b + k].id = ms[b].calls[k].id
  BY DEF Shaped, Closed, n
<1>8. \A b \in 1..n : \A k \in 1..Len(ms[b].calls) : b + k \in 1..n
  <2>1. \A b \in 1..n : Len(ms[b].calls) \in Nat
    <3>1. \A b \in 1..n : ms[b] \in ChatMessage
      BY DEF n
    <3> QED
      BY <3>1 DEF ChatMessage
  <2> SUFFICES ASSUME NEW b \in 1..n, NEW k \in 1..Len(ms[b].calls)
               PROVE  b + k \in 1..n
    OBVIOUS
  <2>2. b + k <= n /\ k \in Nat /\ k >= 1 /\ b \in Nat /\ b >= 1
    BY <1>3, <1>7, <2>1
  <2> QED
    BY <1>3, <2>2
<1>9. Shaped(ns, waits)
  <2>1. \A b \in 1..n + 1 : ns[b].calls # <<>> => ns[b].role = "assistant"
    <3>1. \A b \in 1..n : ms[b].calls # <<>> => ms[b].role = "assistant"
      BY DEF Shaped, n
    <3> QED
      BY <1>3, <1>4, <3>1
  <2>2. ASSUME NEW b \in 1..n + 1
        PROVE  \A i, k \in 1..Len(ns[b].calls) : ns[b].calls[i].id = ns[b].calls[k].id => i = k
    <3>1. CASE b = n + 1
      BY <1>3, <1>4, <3>1
    <3>2. CASE b \in 1..n
      BY <1>3, <3>2 DEF Shaped, n
    <3> QED
      BY <1>3, <3>1, <3>2
  <2>3. ASSUME NEW b \in 1..n + 1, NEW k \in 1..Len(ns[b].calls), Closed(ns, waits, b)
        PROVE  b + k <= n + 1 /\ ns[b + k].role = "tool" /\ ns[b + k].id = ns[b].calls[k].id
    <3>1. b # n + 1
      BY <1>3, <1>5, <2>3 DEF Closed
    <3>2. b \in 1..n /\ ns[b] = ms[b]
      BY <1>3, <3>1
    <3>3. b + k \in 1..n /\ ns[b + k] = ms[b + k]
      BY <1>3, <1>8, <3>2
    <3> QED
      BY <1>3, <1>7, <3>2, <3>3
  <2>4. ASSUME NEW b \in 1..n + 1, ns[b].role = "tool"
        PROVE  ns[b].result # "empty" /\ \E c \in 1..n + 1 : c < b /\ b - c \in 1..Len(ns[c].calls)
    <3>1. b \in 1..n /\ ns[b] = ms[b]
      BY <1>3, <1>4, <2>4
    <3>2. ms[b].result # "empty" /\ \E c \in 1..n : c < b /\ b - c \in 1..Len(ms[c].calls)
      BY <2>4, <3>1 DEF Shaped, n
    <3> QED
      BY <1>3, <3>1, <3>2
  <2> QED
    BY <1>3, <2>1, <2>2, <2>3, <2>4 DEF Shaped
<1>10. ASSUME NEW o, NEW w \in 1..n, Overtakes(ms, FALSE, o, w)
       PROVE  w \in 1..Len(ns) /\ Overtakes(ns, waits, o, w)
  <2>1. \E k \in 1..Len(ns[w].calls) : ns[w].calls[k].name \in Changing
    BY <1>3, <1>10 DEF Overtakes
  <2>2. ASSUME NEW b \in 1..n + 1, NEW k \in 1..Len(ns[b].calls), Closed(ns, waits, b),
               Plain(ns[b].calls[k]) = o
        PROVE  b <= w
    <3>1. b # n + 1
      BY <1>3, <1>5, <2>2 DEF Closed
    <3>2. b \in 1..n /\ ns[b] = ms[b] /\ Closed(ms, FALSE, b)
      BY <1>3, <1>6, <3>1
    <3> QED
      BY <1>10, <2>2, <3>2 DEF Overtakes, n
  <2> QED
    BY <1>3, <1>6, <2>1, <2>2 DEF Overtakes
<1> QED
  BY <1>2, <1>3, <1>9, <1>10 DEF n

(* The results of the last message's calls are added.                      *)
Brings(ms, rs) ==
    /\ rs \in Seq(ChatMessage) /\ Len(rs) = Len(Last(ms).calls)
    /\ \A i \in 1..Len(rs) : /\ rs[i].role = "tool" /\ rs[i].calls = <<>> /\ rs[i].result # "empty"
                             /\ rs[i].id = Last(ms).calls[i].id
LEMMA ResultFacts ==
    ASSUME NEW ms \in Seq(ChatMessage), ms # <<>>, Shaped(ms, TRUE), NEW rs, Brings(ms, rs)
    PROVE  /\ ms \o rs \in Seq(ChatMessage) /\ Shaped(ms \o rs, FALSE)
           /\ \A w \in 1..Len(ms) : w \in 1..Len(ms \o rs)
           /\ \A o : (\E k \in 1..Len(Last(ms).calls) : Last(ms).calls[k].name \in Changing)
                        => Overtakes(ms \o rs, FALSE, o, Len(ms))
           /\ \A o : \A w \in 1..Len(ms) :
                 /\ Overtakes(ms, TRUE, o, w)
                 /\ \A k \in 1..Len(Last(ms).calls) : Plain(Last(ms).calls[k]) # o
                 => Overtakes(ms \o rs, FALSE, o, w)
<1> DEFINE n == Len(ms)
           l == Len(rs)
<1>1. PICK ns \in Seq(ChatMessage) : ns = ms \o rs
  <2>1. rs \in Seq(ChatMessage)
    BY DEF Brings
  <2>2. ms \o rs \in Seq(ChatMessage)
    BY <2>1
  <2> QED
    BY <2>2
<1>2. /\ n \in Nat /\ n >= 1 /\ l \in Nat /\ Len(ns) = n + l
      /\ \A b \in 1..n : ns[b] = ms[b]
      /\ \A i \in 1..l : ns[n + i] = rs[i]
  <2>1. rs \in Seq(ChatMessage)
    BY DEF Brings
  <2>2. /\ Len(ns) = Len(ms) + Len(rs) /\ Len(ms) \in Nat /\ Len(ms) >= 1 /\ Len(rs) \in Nat
        /\ \A b \in 1..Len(ms) : ns[b] = ms[b]
    BY <1>1, <2>1
  <2>3. \A i \in 1..Len(rs) : ns[Len(ms) + i] = rs[i]
    BY <1>1, <2>1
  <2> QED
    BY <2>2, <2>3
<1>3. /\ l = Len(ms[n].calls)
      /\ \A i \in 1..l : /\ rs[i].role = "tool" /\ rs[i].calls = <<>> /\ rs[i].result # "empty"
                         /\ rs[i].id = ms[n].calls[i].id
  BY DEF Brings, Last
<1>4. Last(ms) = ms[n]
  BY DEF Last
<1> HIDE DEF n, l
<1>5. /\ n \in 1..n
      /\ \A b \in 1..n : b \in 1..n + l
      /\ \A b \in 1..n + l : b \in 1..n \/ (b - n \in 1..l /\ n + (b - n) = b)
      /\ \A b \in 1..n : b <= n /\ (b = n \/ b # n)
  BY <1>2
<1>6. \A b \in 1..n + l : b \notin 1..n => /\ ns[b] = rs[b - n] /\ b - n \in 1..l
                                           /\ ns[b].calls = <<>> /\ 1..Len(ns[b].calls) = {}
  <2> SUFFICES ASSUME NEW b \in 1..n + l, b \notin 1..n
               PROVE  /\ ns[b] = rs[b - n] /\ b - n \in 1..l
                      /\ ns[b].calls = <<>> /\ 1..Len(ns[b].calls) = {}
    OBVIOUS
  <2>1. b - n \in 1..l /\ n + (b - n) = b
    BY <1>5
  <2>2. ns[b] = rs[b - n] /\ rs[b - n].calls = <<>>
    BY <1>2, <1>3, <2>1
  <2> QED
    BY <2>1, <2>2
<1>7. \A b \in 1..n : \A k \in 1..Len(ms[b].calls) : b # n =>
         b + k <= n /\ ms[b + k].role = "tool" /\ ms[b + k].id = ms[b].calls[k].id
  BY DEF Shaped, Closed, n
<1>8. \A b \in 1..n : \A k \in 1..Len(ms[b].calls) : b # n => b + k \in 1..n
  <2>1. \A b \in 1..n : Len(ms[b].calls) \in Nat
    <3>1. \A b \in 1..n : ms[b] \in ChatMessage
      BY DEF n
    <3> QED
      BY <3>1 DEF ChatMessage
  <2> SUFFICES ASSUME NEW b \in 1..n, NEW k \in 1..Len(ms[b].calls), b # n
               PROVE  b + k \in 1..n
    OBVIOUS
  <2>2. b + k <= n /\ k \in Nat /\ k >= 1 /\ b \in Nat /\ b >= 1
    BY <1>2, <1>7, <2>1
  <2> QED
    BY <1>2, <2>2
<1>9. Shaped(ns, FALSE)
  <2>1. ASSUME NEW b \in 1..n + l, ns[b].calls # <<>>
        PROVE  ns[b].role = "assistant"
    <3>1. b \in 1..n /\ ns[b] = ms[b]
      BY <1>2, <1>6, <2>1
    <3> QED
      BY <2>1, <3>1 DEF Shaped, n
  <2>2. ASSUME NEW b \in 1..n + l, NEW i \in 1..Len(ns[b].calls), NEW k \in 1..Len(ns[b].calls),
               ns[b].calls[i].id = ns[b].calls[k].id
        PROVE  i = k
    <3>1. b \in 1..n /\ ns[b] = ms[b]
      BY <1>2, <1>6
    <3> QED
      BY <2>2, <3>1 DEF Shaped, n
  <2>3. ASSUME NEW b \in 1..n + l, NEW k \in 1..Len(ns[b].calls)
        PROVE  b + k <= n + l /\ ns[b + k].role = "tool" /\ ns[b + k].id = ns[b].calls[k].id
    <3>1. b \in 1..n /\ ns[b] = ms[b]
      BY <1>2, <1>6
    <3>2. CASE b = n
      <4>1. k \in 1..l /\ ns[n + k] = rs[k]
        BY <1>2, <1>3, <3>1, <3>2
      <4>2. n + k <= n + l
        BY <1>2, <4>1
      <4> QED
        BY <1>3, <3>1, <3>2, <4>1, <4>2
    <3>3. CASE b # n
      <4>1. b + k \in 1..n /\ ns[b + k] = ms[b + k]
        BY <1>2, <1>8, <3>1, <3>3
      <4>2. ms[b + k].role = "tool" /\ ms[b + k].id = ms[b].calls[k].id
        BY <1>7, <3>1, <3>3
      <4>3. b + k <= n + l
        BY <1>2, <4>1
      <4> QED
        BY <3>1, <4>1, <4>2, <4>3
    <3> QED
      BY <3>2, <3>3
  <2>4. ASSUME NEW b \in 1..n + l, ns[b].role = "tool"
        PROVE  ns[b].result # "empty" /\ \E c \in 1..n + l : c < b /\ b - c \in 1..Len(ns[c].calls)
    <3>1. CASE b \in 1..n
      <4>1. ms[b].result # "empty" /\ \E c \in 1..n : c < b /\ b - c \in 1..Len(ms[c].calls)
        BY <1>2, <2>4, <3>1 DEF Shaped, n
      <4> QED
        BY <1>2, <1>5, <3>1, <4>1
    <3>2. CASE b \notin 1..n
      <4>1. ns[b] = rs[b - n] /\ b - n \in 1..l
        BY <1>6, <3>2
      <4>2. ns[b].result # "empty" /\ b - n \in 1..Len(ns[n].calls)
        BY <1>2, <1>3, <1>5, <4>1
      <4>3. n < b /\ n \in 1..n + l
        BY <1>2, <3>2, <4>1
      <4> QED
        BY <4>2, <4>3
    <3> QED
      BY <3>1, <3>2
  <2>5. Len(ns) = n + l
    BY <1>2
  <2>6. /\ \A b \in 1..Len(ns) : ns[b].calls # <<>> => ns[b].role = "assistant"
        /\ \A b \in 1..Len(ns) : \A i, k \in 1..Len(ns[b].calls) :
              ns[b].calls[i].id = ns[b].calls[k].id => i = k
    BY <2>1, <2>2, <2>5
  <2>7. \A b \in 1..Len(ns) : \A k \in 1..Len(ns[b].calls) :
           b + k <= Len(ns) /\ ns[b + k].role = "tool" /\ ns[b + k].id = ns[b].calls[k].id
    BY <2>3, <2>5
  <2>8. \A b \in 1..Len(ns) : ns[b].role = "tool" =>
           /\ ns[b].result # "empty"
           /\ \E c \in 1..Len(ns) : c < b /\ b - c \in 1..Len(ns[c].calls)
    BY <2>4, <2>5
  <2> QED
    BY <2>6, <2>7, <2>8 DEF Shaped
<1>10. ASSUME NEW o, NEW k \in 1..Len(ms[n].calls), ms[n].calls[k].name \in Changing
       PROVE  Overtakes(ns, FALSE, o, n)
  <2>1. ASSUME NEW b \in 1..n + l, NEW j \in 1..Len(ns[b].calls)
        PROVE  b <= n
    BY <1>2, <1>5, <1>6
  <2>2. \E j \in 1..Len(ns[n].calls) : ns[n].calls[j].name \in Changing
    BY <1>2, <1>5, <1>10
  <2> QED
    BY <1>2, <2>1, <2>2 DEF Overtakes, Closed
<1>11. ASSUME NEW o, NEW w \in 1..n, Overtakes(ms, TRUE, o, w),
              \A k \in 1..Len(ms[n].calls) : Plain(ms[n].calls[k]) # o
       PROVE  Overtakes(ns, FALSE, o, w)
  <2>1. \E k \in 1..Len(ns[w].calls) : ns[w].calls[k].name \in Changing
    BY <1>2, <1>11 DEF Overtakes
  <2>2. ASSUME NEW b \in 1..n + l, NEW k \in 1..Len(ns[b].calls), Plain(ns[b].calls[k]) = o
        PROVE  b <= w
    <3>1. b \in 1..n /\ ns[b] = ms[b]
      BY <1>2, <1>6
    <3>2. b # n
      BY <1>11, <2>2, <3>1
    <3>3. Closed(ms, TRUE, b)
      BY <3>2 DEF Closed, n
    <3> QED
      BY <1>11, <2>2, <3>1, <3>3 DEF Overtakes, n
  <2> QED
    BY <1>2, <2>1, <2>2 DEF Overtakes, Closed
<1>12. \A w \in 1..n : w \in 1..Len(ns)
  BY <1>2, <1>5
<1> QED
  BY <1>1, <1>4, <1>9, <1>10, <1>11, <1>12 DEF n

(* What the gateway reads in the model's text are candidates.              *)
LEMMA KeptCandidates ==
    ASSUME NEW calls \in Seq(Candidate), NEW S
    PROVE  Among(calls, S) \in Seq(Candidate)
BY AmongFacts
LEMMA DecisionFacts ==
    ASSUME NEW text \in RouterTexts, NEW choice
    PROVE  Decision(text, choice).calls \in Seq(Candidate)
<1>1. text.directives \in Seq(Candidate) /\ text.envelope \in Seq(Candidate)
  BY TurnsAssumption DEF RouterText
<1>2. PICK ds \in Seq(Candidate) : ds = ValidateCalls(text.directives, choice)
  <2>1. ValidateCalls(text.directives, choice) \in Seq(Candidate)
    BY <1>1, KeptCandidates DEF ValidateCalls
  <2> QED
    BY <2>1
<1>3. PICK es \in Seq(Candidate) : es = ValidateCalls(text.envelope, choice)
  <2>1. ValidateCalls(text.envelope, choice) \in Seq(Candidate)
    BY <1>1, KeptCandidates DEF ValidateCalls
  <2> QED
    BY <2>1
<1>4. CASE ds # <<>>
  <2>1. Last(ds) \in Candidate
    BY <1>4 DEF Last
  <2>2. Decision(text, choice).calls = <<Last(ds)>>
    BY <1>2, <1>4 DEF Decision
  <2> QED
    BY <2>1, <2>2
<1>5. CASE ds = <<>>
  BY <1>2, <1>3, <1>5 DEF Decision
<1> QED
  BY <1>4, <1>5
LEMMA FilterFacts ==
    ASSUME NEW calls \in Seq(Candidate), NEW l
    PROVE  /\ FilterCompleted(calls, l) \in Seq(Candidate)
           /\ \A c \in ToSet(calls) \ ToSet(FilterCompleted(calls, l)) :
                 HasCompleted(l, c) /\ ~(Observational(c.name) /\ HasAnyMutation(l))
<1> DEFINE S == {c \in ToSet(calls) :
                    ~HasCompleted(l, c) \/ (Observational(c.name) /\ HasAnyMutation(l))}
<1>1. FilterCompleted(calls, l) = Among(calls, S)
  BY DEF FilterCompleted
<1>2. \A c \in ToSet(calls) \ S : HasCompleted(l, c) /\ ~(Observational(c.name) /\ HasAnyMutation(l))
  OBVIOUS
<1> HIDE DEF S
<1>3. Among(calls, S) \in Seq(Candidate) /\ ToSet(Among(calls, S)) = ToSet(calls) \cap S
  BY AmongFacts
<1> QED
  BY <1>1, <1>2, <1>3

(* limitToolCalls gives out the first calls.                               *)
LEMMA LimitIsPrefix ==
    ASSUME NEW calls \in Seq(Candidate)
    PROVE  /\ LimitCalls(calls, PerTurn) \in Seq(Candidate)
           /\ \E n \in 0..Len(calls) :
                 /\ Len(LimitCalls(calls, PerTurn)) = n /\ n <= LimitOf(calls, PerTurn)
                 /\ \A i \in 1..n : LimitCalls(calls, PerTurn)[i] = calls[i]
<1> DEFINE limit == LimitOf(calls, PerTurn)
<1>1. limit \in Nat
  BY TurnsAssumption DEF LimitOf
<1> HIDE DEF limit
<1>2. PICK n \in 0..Len(calls) : n = IF Len(calls) < limit THEN Len(calls) ELSE limit
  BY <1>1
<1>3. PICK given \in Seq(Candidate) : given = LimitCalls(calls, PerTurn) /\ Len(given) = n
                                      /\ \A i \in 1..n : given[i] = calls[i]
  <2>1. LimitCalls(calls, PerTurn) = SubSeq(calls, 1, n)
    BY <1>2 DEF LimitCalls, limit
  <2>2. 1 \in 1..Len(calls) + 1 /\ n \in 1 - 1..Len(calls)
    OBVIOUS
  <2>3. /\ SubSeq(calls, 1, n) \in Seq(Candidate) /\ Len(SubSeq(calls, 1, n)) = (n + 1) - 1
        /\ \A i \in 1..(n + 1) - 1 : SubSeq(calls, 1, n)[i] = calls[(1 + i) - 1]
    BY <2>2, PieceFacts
  <2>4. PICK given \in Seq(Candidate) : given = SubSeq(calls, 1, n)
    BY <2>3
  <2>5. (n + 1) - 1 = n /\ \A i \in 1..n : (1 + i) - 1 = i
    OBVIOUS
  <2>6. Len(given) = n
    BY <2>3, <2>4, <2>5
  <2>7. \A i \in 1..n : given[i] = calls[i]
    BY <2>3, <2>4, <2>5
  <2> QED
    BY <2>1, <2>4, <2>6, <2>7
<1>4. n <= limit
  BY <1>1, <1>2
<1> QED
  BY <1>3, <1>4 DEF limit

(* A call that may change something stays alone (adaptiveToolCallLimit).   *)
LEMMA LimitFacts ==
    ASSUME \A n \in Changing : Mutating(n) \/ ~ReadOnly(n),
           NEW calls \in Seq(Candidate)
    PROVE  (\E i \in 1..Len(LimitCalls(calls, PerTurn)) : LimitCalls(calls, PerTurn)[i].name \in Changing)
              => Len(LimitCalls(calls, PerTurn)) = 1
<1>1. PICK given \in Seq(Candidate) : given = LimitCalls(calls, PerTurn)
  BY LimitIsPrefix
<1>2. PICK n \in 0..Len(calls) : /\ Len(given) = n /\ n <= LimitOf(calls, PerTurn)
                                 /\ \A i \in 1..n : given[i] = calls[i]
  BY <1>1, LimitIsPrefix
<1>3. ASSUME NEW i \in 1..n, given[i].name \in Changing
      PROVE  n = 1
  <2>1. i \in 1..Len(calls) /\ calls[i] \in ToSet(calls) /\ given[i] = calls[i]
    BY <1>2 DEF ToSet
  <2>2. LimitOf(calls, PerTurn) = 1
    BY <1>3, <2>1 DEF LimitOf
  <2> QED
    BY <1>2, <2>1, <2>2
<1> QED
  BY <1>1, <1>2, <1>3

(* What a reply of the model leads to: the request goes on, gives out      *)
(* calls, tells a text or ends, and may drop calls of a decision.          *)
Working == request.stage \in GatewayStages \ {"received"}
Goes ==
    \E stage \in GatewayStages \ {"received"} :
        /\ Goto(stage) /\ held' \in ModelAnswer
        /\ UNCHANGED <<messages, window, reply, outdated>>
Gives == \E calls \in Seq(Candidate) : Give(calls)
Tells == \E says : Tell(says)
Ends == \E r : Finish(r)
Notes == \/ UNCHANGED dropped
         \/ \E d : d.calls \in Seq(Candidate) /\ NoteDropped(d)
Proceeds == Working /\ Notes /\ (Goes \/ Gives \/ Tells \/ Ends)

LEMMA WaitingGoes ==
    ASSUME held \in ModelAnswer, NEW stage \in GatewayStages \ {"received"}, Await(stage)
    PROVE  Goes
BY DEF Await, Goes
LEMMA NewFacts ==
    ASSUME NEW d, d.calls \in Seq(Candidate), NEW choice
    PROVE  NewCalls(d) \in Seq(Candidate) /\ ValidateCalls(NewCalls(d), choice) \in Seq(Candidate)
<1>1. PICK calls \in Seq(Candidate) : calls = d.calls
  OBVIOUS
<1>2. PICK new \in Seq(Candidate) : new = NewCalls(d)
  <2>1. FilterCompleted(calls, Evidence) \in Seq(Candidate)
    BY FilterFacts
  <2> QED
    BY <1>1, <2>1 DEF NewCalls
<1>3. ValidateCalls(new, choice) \in Seq(Candidate)
  BY KeptCandidates DEF ValidateCalls
<1> QED
  BY <1>2, <1>3

LEMMA RoutesProceed ==
    ASSUME TurnTypes, NEW text \in RouterTexts, ModelRoutes(text)
    PROVE  Proceeds
<1> DEFINE d == Decision(text, request.choice)
<1>1. held \in ModelAnswer
  BY DEF TurnTypes
<1>2. d.calls \in Seq(Candidate)
  BY DecisionFacts
<1>3. ValidateCalls(NewCalls(d), request.choice) \in Seq(Candidate)
  BY <1>2, NewFacts
<1>4. ASSUME Decided(d)
      PROVE  Goes \/ Gives
  <2>1. \/ Give(ValidateCalls(NewCalls(d), request.choice))
        \/ Await("constrain") \/ Await("answer")
    BY <1>4 DEF Decided
  <2>2. ASSUME Await("constrain") \/ Await("answer")
        PROVE  Goes
    BY <1>1, <2>2, WaitingGoes DEF GatewayStages
  <2> QED
    BY <1>3, <2>1, <2>2 DEF Gives
<1>5. \A r : Fail(r) => Notes /\ Ends
  BY DEF Fail, Notes, Ends
<1>6. NoteDropped(d) => Notes
  BY <1>2 DEF Notes
<1>7. UNCHANGED dropped => Notes
  BY DEF Notes
<1>8. /\ "route" \in GatewayStages \ {"received"} /\ "repair" \in GatewayStages \ {"received"}
      /\ "constrain" \in GatewayStages \ {"received"} /\ "streamRepair" \in GatewayStages \ {"received"}
      /\ "recover" \in GatewayStages \ {"received"} /\ "recoverRepair" \in GatewayStages \ {"received"}
      /\ "answer" \in GatewayStages \ {"received"}
  BY DEF GatewayStages
<1>9. \A says : Tell(says) => Notes /\ Tells
  BY DEF Tell, Notes, Tells
<1>10. Give(d.calls) => Gives
  BY <1>2 DEF Gives
<1>11. Give(ValidateCalls(NewCalls(d), request.choice)) => Gives
  BY <1>3 DEF Gives
<1>12. \A r : Finish(r) => Ends
  BY DEF Ends
<1>13. \A stage \in GatewayStages \ {"received"} : Await(stage) => Goes
  BY <1>1, WaitingGoes
<1>14. \A stage \in GatewayStages \ {"received"} : At(stage) => Working
  BY DEF At, Working
<1> HIDE DEF d
<1>15. ASSUME Route(text)
       PROVE  Proceeds
  <2>1. At("route") /\ (Fail("502") \/ (NoteDropped(d) /\ (Decided(d) \/ Await("repair"))))
    BY <1>15 DEF Route, d
  <2> QED
    BY <1>4, <1>5, <1>6, <1>8, <1>13, <1>14, <2>1 DEF Proceeds
<1>16. ASSUME Repair(text)
       PROVE  Proceeds
  <2>1. /\ At("repair")
        /\ Fail("502") \/ (NoteDropped(d) /\ Decided(d)) \/ (Await("answer") /\ UNCHANGED dropped)
    BY <1>16 DEF Repair, d
  <2> QED
    BY <1>4, <1>5, <1>6, <1>7, <1>8, <1>13, <1>14, <2>1 DEF Proceeds
<1>17. ASSUME Constrain(text)
       PROVE  Proceeds
  <2>1. /\ At("constrain")
        /\ \/ Fail("502")
           \/ /\ NoteDropped(d)
              /\ Finish("502") \/ Give(ValidateCalls(NewCalls(d), request.choice))
    BY <1>17 DEF Constrain, d
  <2> QED
    BY <1>5, <1>6, <1>8, <1>11, <1>12, <1>14, <2>1 DEF Proceeds
<1>18. ASSUME StreamRepair(text)
       PROVE  Proceeds
  <2>1. At("streamRepair") /\ (Fail("invalid") \/ (Give(d.calls) /\ UNCHANGED dropped))
    BY <1>18 DEF StreamRepair, d
  <2> QED
    BY <1>5, <1>7, <1>8, <1>10, <1>14, <2>1 DEF Proceeds
<1>19. ASSUME Recover(text)
       PROVE  Proceeds
  <2>1. /\ At("recover")
        /\ Tell(held.says) \/ ((Await("recoverRepair") \/ Give(d.calls)) /\ UNCHANGED dropped)
    BY <1>19 DEF Recover, d
  <2> QED
    BY <1>7, <1>8, <1>9, <1>10, <1>13, <1>14, <2>1 DEF Proceeds
<1>20. ASSUME RecoverRepair(text)
       PROVE  Proceeds
  <2>1. At("recoverRepair") /\ (Tell(held.says) \/ (Give(d.calls) /\ UNCHANGED dropped))
    BY <1>20 DEF RecoverRepair, d
  <2> QED
    BY <1>7, <1>8, <1>9, <1>10, <1>14, <2>1 DEF Proceeds
<1> QED
  BY <1>15, <1>16, <1>17, <1>18, <1>19, <1>20 DEF ModelRoutes

LEMMA AnswersProceed ==
    ASSUME TurnTypes, NEW a \in Answers, ModelAnswers(a)
    PROVE  Proceeds
<1>1. held \in ModelAnswer /\ a \in ModelAnswer
  BY TurnsAssumption DEF TurnTypes
<1>2. \A r : Fail(r) => Notes /\ Ends
  BY DEF Fail, Notes, Ends
<1>3. UNCHANGED dropped => Notes
  BY DEF Notes
<1>4. \A says : Tell(says) => Notes /\ Tells
  BY DEF Tell, Notes, Tells
<1>5. \A calls \in Seq(Candidate) : Give(calls) => Gives
  BY DEF Gives
<1>6. \A stage \in GatewayStages \ {"received"} : Await(stage) => Goes
  BY <1>1, WaitingGoes
<1>7. \A stage \in GatewayStages \ {"received"} : At(stage) => Working
  BY DEF At, Working
<1>8. /\ "answer" \in GatewayStages \ {"received"} /\ "eject" \in GatewayStages \ {"received"}
      /\ "streamRepair" \in GatewayStages \ {"received"} /\ "recover" \in GatewayStages \ {"received"}
  BY DEF GatewayStages
<1>9. \A stage \in GatewayStages \ {"received"} : \A b \in ModelAnswer :
         Goto(stage) /\ held' = b /\ UNCHANGED <<messages, window, reply, dropped, outdated>> => Goes /\ Notes
  BY DEF Goes, Notes
<1>10. ASSUME NEW b \in ModelAnswer, Detected(b)
       PROVE  Notes /\ (Goes \/ Gives \/ Tells)
  <2> DEFINE fenced == FencedCalls(b.fenced, request.choice)
             native == NativeCalls(b.native)
             given == IF ValidateCalls(fenced, request.choice) # <<>>
                      THEN ValidateCalls(fenced, request.choice)
                      ELSE ValidateCalls(native, request.choice)
  <2>1. b.fenced \in Seq(Candidate) /\ b.native \in Seq(Candidate)
    BY DEF ModelAnswer
  <2>2. fenced \in Seq(Candidate) /\ native \in Seq(Candidate)
    BY <2>1, KeptCandidates DEF FencedCalls, NativeCalls
  <2>3. /\ ValidateCalls(fenced, request.choice) \in Seq(Candidate)
        /\ ValidateCalls(native, request.choice) \in Seq(Candidate)
    <3> HIDE DEF fenced, native
    <3> QED
      BY <2>2, KeptCandidates DEF ValidateCalls
  <2>4. given \in Seq(Candidate)
    BY <2>3
  <2>5. \/ Give(given) /\ UNCHANGED dropped
        \/ /\ Goto("recover") /\ held' = b
           /\ UNCHANGED <<messages, window, reply, dropped, outdated>>
        \/ Tell(b.says)
    BY <1>10 DEF Detected
  <2> HIDE DEF given
  <2> QED
    BY <1>3, <1>4, <1>5, <1>8, <1>9, <2>4, <2>5
<1>11. ASSUME Answer(a)
       PROVE  Proceeds
  <2>1. /\ At("answer")
        /\ \/ Fail("502")
           \/ /\ Goto("eject") /\ held' = a
              /\ UNCHANGED <<messages, window, reply, dropped, outdated>>
           \/ Detected(a)
    BY <1>11 DEF Answer
  <2> QED
    BY <1>1, <1>2, <1>7, <1>8, <1>9, <1>10, <2>1 DEF Proceeds
<1>12. ASSUME Eject(a)
       PROVE  Proceeds
  <2>1. At("eject") /\ (Detected(held) \/ Detected(a))
    BY <1>12 DEF Eject
  <2> QED
    BY <1>1, <1>7, <1>8, <1>10, <2>1 DEF Proceeds
<1>13. ASSUME StreamAnswer(a)
       PROVE  Proceeds
  <2> DEFINE raw == IF a.native # <<>> THEN a.native ELSE FencedCalls(a.fenced, request.choice)
  <2>1. a.fenced \in Seq(Candidate) /\ a.native \in Seq(Candidate)
    BY <1>1 DEF ModelAnswer
  <2>2. raw \in Seq(Candidate)
    BY <2>1, KeptCandidates DEF FencedCalls
  <2>3. /\ At("answer")
        /\ \/ Fail("502")
           \/ Give(ValidateCalls(raw, request.choice)) /\ UNCHANGED dropped
           \/ Await("streamRepair") /\ UNCHANGED dropped
           \/ Tell(a.says)
    BY <1>13 DEF StreamAnswer
  <2> HIDE DEF raw
  <2>4. ValidateCalls(raw, request.choice) \in Seq(Candidate)
    BY <2>2, KeptCandidates DEF ValidateCalls
  <2> QED
    BY <1>2, <1>3, <1>4, <1>5, <1>6, <1>7, <1>8, <2>3, <2>4 DEF Proceeds
<1> QED
  BY <1>11, <1>12, <1>13 DEF ModelAnswers

(* The message of the calls that are given out: they have ids of their     *)
(* own, and a change is alone.                                             *)
LEMMA GivenFacts ==
    ASSUME TurnTypes, NEW calls \in Seq(Candidate), Give(calls)
    PROVE  \E m \in ChatMessage :
              /\ messages' = Append(messages, m) /\ Adds(messages, m, TRUE)
              /\ (\A n \in Changing : Mutating(n) \/ ~ReadOnly(n))
                    => ((\E c \in ToSet(m.calls) : c.name \in Changing) => Len(m.calls) = 1)
<1> DEFINE given == LimitCalls(calls, PerTurn)
           n == Len(Made(messages))
           cs == [i \in DOMAIN given |-> [id |-> n + i, name |-> given[i].name, args |-> given[i].args]]
<1>1. given \in Seq(Candidate)
  BY LimitIsPrefix
<1>2. n \in Nat
  <2>1. messages \in Seq(ChatMessage)
    BY DEF TurnTypes
  <2> QED
    BY <2>1, MadeFacts
<1>3. messages' = Append(messages, Said(cs))
  BY DEF Give
<1>4. (\A x \in Changing : Mutating(x) \/ ~ReadOnly(x)) =>
         ((\E i \in 1..Len(given) : given[i].name \in Changing) => Len(given) = 1)
  BY LimitFacts
<1> HIDE DEF given, n
<1>5. /\ cs \in Seq(Call) /\ Len(cs) = Len(given)
      /\ \A i \in 1..Len(given) : cs[i].id = n + i /\ cs[i].name = given[i].name
  <2>1. \A i \in 1..Len(given) : given[i].name \in Names /\ given[i].args \in Arguments /\ n + i \in Nat
    <3>1. \A i \in 1..Len(given) : given[i] \in Candidate
      BY <1>1
    <3> QED
      BY <1>1, <1>2, <3>1 DEF Candidate
  <2>2. \A i \in 1..Len(given) : [id |-> n + i, name |-> given[i].name, args |-> given[i].args] \in Call
    BY <2>1 DEF Call
  <2> QED
    BY <1>1, <2>2
<1> HIDE DEF cs
<1>6. Said(cs) \in ChatMessage /\ Said(cs).role = "assistant" /\ Said(cs).calls = cs
  BY <1>5 DEF Said, ChatMessage
<1>7. \A i, k \in 1..Len(cs) : cs[i].id = cs[k].id => i = k
  BY <1>2, <1>5
<1>8. Adds(messages, Said(cs), TRUE)
  BY <1>6, <1>7 DEF Adds
<1>9. (\E c \in ToSet(cs) : c.name \in Changing) => \E i \in 1..Len(given) : given[i].name \in Changing
  BY <1>5 DEF ToSet
<1> QED
  BY <1>3, <1>4, <1>5, <1>6, <1>8, <1>9

-----------------------------------------------------------------------------
(* Types, and a conversation whose tools are run is not empty.             *)
LEMMA StageMoves ==
    ASSUME TurnTypes, NEW stage \in TurnStages, Goto(stage)
    PROVE  /\ request'.stage = stage /\ request'.stream = request.stream
           /\ request'.choice = request.choice /\ request'.planning = request.planning
           /\ request' \in [stage : TurnStages, stream : BOOLEAN, choice : ToolChoices \cup {"auto"},
                            planning : Plannings \cup {"router"}]
<1> DEFINE R == [stage : TurnStages, stream : BOOLEAN, choice : ToolChoices \cup {"auto"},
                 planning : Plannings \cup {"router"}]
<1>1. request \in R /\ request' = [request EXCEPT !.stage = stage]
  BY DEF TurnTypes, Goto
<1> QED
  BY <1>1
LEMMA NoAnswerFacts == NoAnswer \in ModelAnswer /\ <<>> \in Seq(ChatMessage)
BY DEF NoAnswer, ModelAnswer

(* What the last message's calls return.                                   *)
LEMMA ReturnedFacts ==
    ASSUME TurnTypes, messages # <<>>, NEW n \in 1..PerTurn, NEW result \in [1..n -> ToolResults],
           RunTools(result)
    PROVE  \E rs \in Seq(ChatMessage) :
              /\ messages' = messages \o rs /\ Len(rs) = Len(Last(messages).calls)
              /\ \A i \in 1..Len(rs) : /\ rs[i].role = "tool" /\ rs[i].calls = <<>>
                                       /\ rs[i].result \in ToolResults
                                       /\ rs[i].id = Last(messages).calls[i].id
<1> DEFINE rs == [i \in DOMAIN Last(messages).calls |-> Returned(Last(messages).calls[i], result[i])]
<1>1. messages' = messages \o rs
  BY DEF RunTools
<1>2. PICK cs \in Seq(Call) : cs = Last(messages).calls
  <2>1. Last(messages) \in ChatMessage
    BY DEF Last, TurnTypes
  <2> QED
    BY <2>1 DEF ChatMessage
<1>3. 1..n = 1..Len(cs)
  BY <1>2 DEF RunTools
<1>4. rs = [i \in 1..Len(cs) |-> Returned(cs[i], result[i])]
  BY <1>2
<1> HIDE DEF rs
<1>5. \A i \in 1..Len(cs) : result[i] \in ToolResults /\ cs[i].id \in Nat
  <2>1. \A i \in 1..Len(cs) : cs[i] \in Call
    OBVIOUS
  <2> QED
    BY <1>3, <2>1 DEF Call
<1>6. \A i \in 1..Len(cs) : Returned(cs[i], result[i]) \in ChatMessage
  BY <1>5 DEF Returned, ChatMessage
<1>7. rs \in Seq(ChatMessage) /\ Len(rs) = Len(cs)
  BY <1>4, <1>6
<1>8. \A i \in 1..Len(cs) : /\ rs[i].role = "tool" /\ rs[i].calls = <<>>
                            /\ rs[i].result = result[i] /\ rs[i].id = cs[i].id
  BY <1>4 DEF Returned
<1>9. /\ messages' = messages \o rs /\ Len(rs) = Len(Last(messages).calls)
      /\ \A i \in 1..Len(rs) : /\ rs[i].role = "tool" /\ rs[i].calls = <<>>
                               /\ rs[i].result \in ToolResults
                               /\ rs[i].id = Last(messages).calls[i].id
  BY <1>1, <1>2, <1>5, <1>7, <1>8
<1> QED
  BY <1>7, <1>9

TurnsKept == TurnTypes /\ (At("tools") => messages # <<>>)
LEMMA ReceiveFacts ==
    ASSUME TurnTypes, Receive
    PROVE  /\ At("received")
           /\ \/ \E r : Fail(r)
              \/ /\ ValidConversation(window) /\ Suffix(window', window)
                 /\ \E stage \in GatewayStages \ {"received"} : Goto(stage)
                 /\ UNCHANGED <<messages, held, reply, dropped, outdated>>
<1>1. window \in Seq(ChatMessage)
  BY DEF TurnTypes
<1>2. PICK rest : rest = Trimmed(window, Budget)
  OBVIOUS
<1>3. \/ Fail("400") \/ Fail("409")
      \/ /\ ValidConversation(window) /\ rest # <<>> /\ window' = rest
         /\ Goto("route") \/ Goto("answer")
         /\ UNCHANGED <<messages, held, reply, dropped, outdated>>
  BY <1>2 DEF Receive
<1>4. rest # <<>> => Suffix(rest, window)
  BY <1>1, <1>2, TrimmedFacts
<1>5. "route" \in GatewayStages \ {"received"} /\ "answer" \in GatewayStages \ {"received"}
  BY DEF GatewayStages
<1>6. At("received")
  BY DEF Receive
<1> QED
  BY <1>3, <1>4, <1>5, <1>6
LEMMA FrontOrAll ==
    ASSUME TurnTypes, NEW stream, NEW choice, NEW planning, Post(stream, choice, planning)
    PROVE  /\ messages' = messages \/ messages' = Append(messages, User)
           /\ \/ window' = messages'
              \/ /\ messages' # <<>> /\ Last(messages').role = "tool" /\ window' = Front(messages')
           /\ messages' \in Seq(ChatMessage) /\ window' \in Seq(ChatMessage)
<1>1. /\ messages' = messages \/ messages' = Append(messages, User)
      /\ \/ window' = messages'
         \/ messages' # <<>> /\ Last(messages').role = "tool" /\ window' = Front(messages')
  BY DEF Post
<1>2. User \in ChatMessage
  BY DEF User, ChatMessage
<1>3. messages \in Seq(ChatMessage)
  BY DEF TurnTypes
<1>4. messages' \in Seq(ChatMessage)
  BY <1>1, <1>2, <1>3
<1>5. messages' # <<>> => Front(messages') \in Seq(ChatMessage)
  BY <1>4, FrontFacts
<1> QED
  BY <1>1, <1>4, <1>5

LEMMA ProceedKeeps ==
    ASSUME TurnsKept, Proceeds
    PROVE  TurnsKept'
<1>1. TurnTypes /\ messages \in Seq(ChatMessage) /\ window \in Seq(ChatMessage) /\ held \in ModelAnswer
  BY DEF TurnsKept, TurnTypes
<1>2. NoAnswer \in ModelAnswer /\ <<>> \in Seq(ChatMessage)
  BY NoAnswerFacts
<1>3. "idle" \in TurnStages /\ "tools" \in TurnStages /\ GatewayStages \subseteq TurnStages
      /\ "tools" \notin GatewayStages /\ "tools" # "idle"
  BY DEF TurnStages, GatewayStages
<1>4. Said(<<>>) \in ChatMessage
  BY DEF Said, ChatMessage
<1>5. CASE Goes
  <2>1. PICK stage \in GatewayStages \ {"received"} :
               Goto(stage) /\ held' \in ModelAnswer /\ messages' = messages /\ window' = window
    BY <1>5 DEF Goes
  <2> QED
    BY <1>1, <1>3, <2>1, StageMoves DEF TurnsKept, TurnTypes, At
<1>6. CASE Gives
  <2>1. PICK calls \in Seq(Candidate) : Give(calls)
    BY <1>6 DEF Gives
  <2>2. PICK m \in ChatMessage : messages' = Append(messages, m)
    BY <1>1, <2>1, GivenFacts
  <2>3. messages' \in Seq(ChatMessage) /\ messages' # <<>>
    BY <1>1, <2>2
  <2>4. window' = <<>> /\ held' = NoAnswer /\ Goto("tools")
    BY <2>1 DEF Give
  <2> QED
    BY <1>1, <1>2, <1>3, <2>3, <2>4, StageMoves DEF TurnsKept, TurnTypes
<1>7. CASE Tells
  <2>1. /\ messages' = Append(messages, Said(<<>>)) /\ window' = <<>> /\ held' = NoAnswer
        /\ Goto("idle")
    BY <1>7 DEF Tells, Tell
  <2>2. messages' \in Seq(ChatMessage)
    BY <1>1, <1>4, <2>1
  <2> QED
    BY <1>1, <1>2, <1>3, <2>1, <2>2, StageMoves DEF TurnsKept, TurnTypes, At
<1>8. CASE Ends
  <2>1. messages' = messages /\ window' = <<>> /\ held' = NoAnswer /\ Goto("idle")
    BY <1>8 DEF Ends, Finish
  <2> QED
    BY <1>1, <1>2, <1>3, <2>1, StageMoves DEF TurnsKept, TurnTypes, At
<1> QED
  BY <1>5, <1>6, <1>7, <1>8 DEF Proceeds

LEMMA TurnsKeptSteps == TurnsKept /\ [TurnsNext]_turnVars => TurnsKept'
<1> SUFFICES ASSUME TurnsKept, [TurnsNext]_turnVars
             PROVE  TurnsKept'
  OBVIOUS
<1>1. TurnTypes /\ messages \in Seq(ChatMessage) /\ window \in Seq(ChatMessage) /\ held \in ModelAnswer
  BY DEF TurnsKept, TurnTypes
<1>2. NoAnswer \in ModelAnswer /\ <<>> \in Seq(ChatMessage)
  BY NoAnswerFacts
<1>3. "idle" \in TurnStages /\ "tools" \in TurnStages /\ GatewayStages \subseteq TurnStages
      /\ "tools" \notin GatewayStages /\ "tools" # "idle" /\ "received" \in GatewayStages
  BY DEF TurnStages, GatewayStages
<1>4. ASSUME Receive
      PROVE  TurnsKept'
  <2>1. CASE \E r : Fail(r)
    <3>1. messages' = messages /\ window' = <<>> /\ held' = NoAnswer /\ Goto("idle")
      BY <2>1 DEF Fail, Finish
    <3> QED
      BY <1>1, <1>2, <1>3, <3>1, StageMoves DEF TurnsKept, TurnTypes, At
  <2>2. CASE /\ Suffix(window', window)
             /\ \E stage \in GatewayStages \ {"received"} : Goto(stage)
             /\ UNCHANGED <<messages, held, reply, dropped, outdated>>
    <3>1. window' \in Seq(ChatMessage)
      BY <2>2 DEF Suffix
    <3>2. PICK stage \in GatewayStages \ {"received"} : Goto(stage)
      BY <2>2
    <3> QED
      BY <1>1, <1>3, <2>2, <3>1, <3>2, StageMoves DEF TurnsKept, TurnTypes, At
  <2> QED
    BY <1>1, <1>4, <2>1, <2>2, ReceiveFacts
<1>5. ASSUME NEW stream \in BOOLEAN, NEW choice \in ToolChoices, NEW planning \in Plannings,
             Post(stream, choice, planning)
      PROVE  TurnsKept'
  <2>1. messages' \in Seq(ChatMessage) /\ window' \in Seq(ChatMessage)
    BY <1>1, <1>5, FrontOrAll
  <2>2. /\ request' = [stage |-> "received", stream |-> stream, choice |-> choice, planning |-> planning]
        /\ held' = held
    BY <1>5 DEF Post
  <2> QED
    BY <1>1, <1>3, <2>1, <2>2 DEF TurnsKept, TurnTypes, At
<1>6. ASSUME NEW n \in 1..PerTurn, NEW result \in [1..n -> ToolResults], RunTools(result)
      PROVE  TurnsKept'
  <2>1. messages # <<>>
    BY <1>6 DEF TurnsKept, RunTools
  <2>2. PICK rs \in Seq(ChatMessage) : messages' = messages \o rs
    BY <1>1, <1>6, <2>1, ReturnedFacts
  <2>3. window' = window /\ held' = held /\ Goto("idle")
    BY <1>6 DEF RunTools
  <2> QED
    BY <1>1, <1>3, <2>2, <2>3, StageMoves DEF TurnsKept, TurnTypes, At
<1>7. ASSUME UNCHANGED turnVars
      PROVE  TurnsKept'
  BY <1>7 DEF TurnsKept, TurnTypes, At, turnVars
<1> QED
  BY <1>1, <1>4, <1>5, <1>6, <1>7, RoutesProceed, AnswersProceed, ProceedKeeps
     DEF TurnsNext, Gateway, Client

LEMMA TurnsKeptStart == TurnsInit => TurnsKept
BY NoAnswerFacts DEF TurnsInit, TurnsKept, TurnTypes, TurnStages, At

(* The messages a client holds and the gateway works on are well-formed,   *)
(* the request is at a stage of openaiChat with options it knows, and what *)
(* it keeps back is an answer of the model, whatever the model writes.     *)
THEOREM TurnTypesHold == TurnsSpec => []TurnTypes
<1>1. TurnsKept => TurnTypes
  BY DEF TurnsKept
<1> QED
  BY <1>1, TurnsKeptStart, TurnsKeptSteps, PTL DEF TurnsSpec

-----------------------------------------------------------------------------
(* A change is given out alone.                                            *)
Serial(m) == (\E c \in ToSet(m.calls) : c.name \in Changing) => Len(m.calls) = 1
LEMMA SilentIsSerial ==
    ASSUME NEW m, m.calls = <<>>
    PROVE  Serial(m)
<1>1. ToSet(<<>>) = {}
  BY DEF ToSet
<1> QED
  BY <1>1 DEF Serial

LEMMA SerialSteps ==
    ASSUME \A n \in Changing : Mutating(n) \/ ~ReadOnly(n)
    PROVE  TurnsKept /\ ChangesAreSerial /\ [TurnsNext]_turnVars => ChangesAreSerial'
<1> SUFFICES ASSUME TurnsKept, ChangesAreSerial, [TurnsNext]_turnVars
             PROVE  ChangesAreSerial'
  OBVIOUS
<1>1. TurnTypes /\ messages \in Seq(ChatMessage)
  BY DEF TurnsKept, TurnTypes
<1>2. \A m \in ToSet(messages) : Serial(m)
  BY DEF ChangesAreSerial, Serial
<1>3. (\A m \in ToSet(messages') : Serial(m)) => ChangesAreSerial'
  BY DEF ChangesAreSerial, Serial
<1>4. messages' = messages => ChangesAreSerial'
  BY <1>2, <1>3
<1>5. ASSUME NEW m \in ChatMessage, Serial(m), messages' = Append(messages, m)
      PROVE  ChangesAreSerial'
  <2>1. ToSet(Append(messages, m)) = ToSet(messages) \cup {m}
    BY <1>1, ToSetAppend
  <2> QED
    BY <1>2, <1>3, <1>5, <2>1
<1>6. ASSUME Receive
      PROVE  ChangesAreSerial'
  <2>1. messages' = messages
    BY <1>6 DEF Receive, Fail, Finish
  <2> QED
    BY <1>4, <2>1
<1>7. ASSUME NEW stream \in BOOLEAN, NEW choice \in ToolChoices, NEW planning \in Plannings,
             Post(stream, choice, planning)
      PROVE  ChangesAreSerial'
  <2>1. messages' = messages \/ messages' = Append(messages, User)
    BY <1>1, <1>7, FrontOrAll
  <2>2. User \in ChatMessage /\ User.calls = <<>>
    BY DEF User, ChatMessage
  <2> QED
    BY <1>4, <1>5, <2>1, <2>2, SilentIsSerial
<1>8. ASSUME NEW n \in 1..PerTurn, NEW result \in [1..n -> ToolResults], RunTools(result)
      PROVE  ChangesAreSerial'
  <2>1. messages # <<>>
    BY <1>8 DEF TurnsKept, RunTools
  <2>2. PICK rs \in Seq(ChatMessage) : /\ messages' = messages \o rs
                                       /\ \A i \in 1..Len(rs) : rs[i].calls = <<>>
    BY <1>1, <1>8, <2>1, ReturnedFacts
  <2>3. \A m \in ToSet(rs) : m.calls = <<>>
    BY <2>2 DEF ToSet
  <2>4. ToSet(messages \o rs) = ToSet(messages) \cup ToSet(rs)
    BY <1>1, ToSetConcat
  <2> QED
    BY <1>2, <1>3, <2>2, <2>3, <2>4, SilentIsSerial
<1>9. ASSUME Proceeds
      PROVE  ChangesAreSerial'
  <2>1. CASE Goes
    BY <1>4, <2>1 DEF Goes
  <2>2. CASE Gives
    <3>1. PICK calls \in Seq(Candidate) : Give(calls)
      BY <2>2 DEF Gives
    <3>2. PICK m \in ChatMessage : messages' = Append(messages, m) /\ Serial(m)
      BY <1>1, <3>1, GivenFacts DEF Serial
    <3> QED
      BY <1>5, <3>2
  <2>3. CASE Tells
    <3>1. messages' = Append(messages, Said(<<>>))
      BY <2>3 DEF Tells, Tell
    <3>2. Said(<<>>) \in ChatMessage /\ Said(<<>>).calls = <<>>
      BY DEF Said, ChatMessage
    <3> QED
      BY <1>5, <3>1, <3>2, SilentIsSerial
  <2>4. CASE Ends
    BY <1>4, <2>4 DEF Ends, Finish
  <2> QED
    BY <1>9, <2>1, <2>2, <2>3, <2>4 DEF Proceeds
<1>10. ASSUME UNCHANGED turnVars
       PROVE  ChangesAreSerial'
  BY <1>4, <1>10 DEF turnVars
<1> QED
  BY <1>1, <1>6, <1>7, <1>8, <1>9, <1>10, RoutesProceed, AnswersProceed
     DEF TurnsNext, Gateway, Client

(* A call that changes the workspace is never given out with another, for  *)
(* every conversation, limit and set of tools of which the changing ones   *)
(* are named so that adaptiveToolCallLimit knows them                      *)
(* (settings.go:253-264).                                                  *)
THEOREM ChangesStaySerial ==
    (\A n \in Changing : Mutating(n) \/ ~ReadOnly(n)) => (TurnsSpec => []ChangesAreSerial)
<1> SUFFICES ASSUME \A n \in Changing : Mutating(n) \/ ~ReadOnly(n)
             PROVE  TurnsSpec => []ChangesAreSerial
  OBVIOUS
<1> DEFINE Inv == TurnsKept /\ ChangesAreSerial
<1>1. TurnsInit => Inv
  <2>1. TurnsInit => ToSet(messages) = {}
    BY DEF TurnsInit, ToSet
  <2> QED
    BY <2>1, TurnsKeptStart DEF ChangesAreSerial
<1>2. Inv /\ [TurnsNext]_turnVars => Inv'
  BY SerialSteps, TurnsKeptSteps
<1>3. Inv => ChangesAreSerial
  OBVIOUS
<1> QED
  BY <1>1, <1>2, <1>3, PTL DEF TurnsSpec

-----------------------------------------------------------------------------
(* The inductive invariant behind NoStaleVerdict. The client's             *)
(* conversation is Shaped; a request works on the end of all of it, since  *)
(* one that has lost its last result does not pass the protocol check;     *)
(* and for every outdated observation some batch has a change and is not   *)
(* followed by the observation.                                            *)
Batched == Shaped(messages, At("tools"))
Windowed ==
    /\ At("received") => \/ window = messages
                         \/ messages # <<>> /\ Last(messages).role = "tool" /\ window = Front(messages)
    /\ Working => Suffix(window, messages)
Overtaken ==
    \A o \in outdated :
        Observational(o.name) /\ \E w \in 1..Len(messages) : Overtakes(messages, At("tools"), o, w)
TurnsInv == TurnsKept /\ Batched /\ Windowed /\ Overtaken /\ NoStaleVerdict

(* When no results are awaited.                                            *)
LEMMA Settled ==
    ASSUME TurnsInv, ~At("tools")
    PROVE  /\ messages \in Seq(ChatMessage) /\ Shaped(messages, FALSE)
           /\ \A o \in outdated :
                 Observational(o.name) /\ \E w \in 1..Len(messages) : Overtakes(messages, FALSE, o, w)
<1>1. At("tools") = FALSE
  BY DEF At
<1> QED
  BY <1>1 DEF TurnsInv, TurnsKept, TurnTypes, Batched, Overtaken
LEMMA Settles ==
    ASSUME ~At("tools")', Shaped(messages, FALSE)',
           (\A o \in outdated :
              Observational(o.name) /\ \E w \in 1..Len(messages) : Overtakes(messages, FALSE, o, w))'
    PROVE  Batched' /\ Overtaken'
<1>1. At("tools")' = FALSE
  BY DEF At
<1> QED
  BY <1>1 DEF Batched, Overtaken

(* Nothing that has been overtaken is dropped.                             *)
LEMMA DroppedIsFresh ==
    ASSUME \A n \in Changing : ~Observational(n),
           TurnsInv, Working, Notes, UNCHANGED outdated
    PROVE  NoStaleVerdict'
<1>1. dropped \cap outdated = {} /\ outdated' = outdated
  BY DEF TurnsInv, NoStaleVerdict
<1>2. CASE UNCHANGED dropped
  BY <1>1, <1>2 DEF NoStaleVerdict
<1>3. ASSUME NEW d, d.calls \in Seq(Candidate), NoteDropped(d)
      PROVE  NoStaleVerdict'
  <2>1. PICK calls \in Seq(Candidate) : calls = d.calls
    BY <1>3
  <2>2. dropped' = dropped \cup
           {Plain(c) : c \in ToSet(calls) \ ToSet(FilterCompleted(calls, Ledger(window)))}
    BY <1>3, <2>1 DEF NoteDropped, NewCalls, Evidence, Ledgered
  <2>3. ASSUME NEW c \in ToSet(calls) \ ToSet(FilterCompleted(calls, Ledger(window))),
               Plain(c) \in outdated
        PROVE  FALSE
    <3>1. c \in Candidate
      BY DEF ToSet
    <3>2. HasCompleted(Ledger(window), c) /\ ~(Observational(c.name) /\ HasAnyMutation(Ledger(window)))
      BY FilterFacts
    <3>3. ~At("tools") /\ Suffix(window, messages)
      BY DEF TurnsInv, Windowed, Working, At, GatewayStages
    <3>4. messages \in Seq(ChatMessage) /\ Shaped(messages, FALSE)
      BY <3>3, Settled
    <3>5. Observational(Plain(c).name)
      BY <2>3, <3>3, Settled
    <3>6. PICK w \in 1..Len(messages) : Overtakes(messages, FALSE, Plain(c), w)
      BY <2>3, <3>3, Settled
    <3>7. Observational(c.name)
      BY <3>5 DEF Plain
    <3>8. HasAnyMutation(Ledger(window))
      BY <3>1, <3>2, <3>3, <3>4, <3>6, VerdictIsFresh
    <3> QED
      BY <3>2, <3>7, <3>8
  <2> QED
    BY <1>1, <2>2, <2>3 DEF NoStaleVerdict
<1> QED
  BY <1>2, <1>3 DEF Notes

LEMMA ProceedHolds ==
    ASSUME \A n \in Changing : ~Observational(n), TurnsInv, Proceeds
    PROVE  TurnsInv'
<1>1. TurnsKept /\ TurnTypes /\ Working /\ ~At("tools") /\ ~At("received")
  BY DEF Proceeds, TurnsInv, TurnsKept, Working, At, GatewayStages
<1>2. TurnsKept'
  BY <1>1, ProceedKeeps
<1>3. outdated' = outdated
  BY DEF Proceeds, Goes, Gives, Tells, Ends, Give, Tell, Finish
<1>4. NoStaleVerdict'
  BY <1>1, <1>3, DroppedIsFresh DEF Proceeds
<1>5. /\ messages \in Seq(ChatMessage) /\ Shaped(messages, FALSE)
      /\ \A o \in outdated :
            Observational(o.name) /\ \E w \in 1..Len(messages) : Overtakes(messages, FALSE, o, w)
  BY <1>1, Settled
<1>6. "idle" \in TurnStages /\ "tools" \in TurnStages /\ GatewayStages \subseteq TurnStages
      /\ "tools" \notin GatewayStages /\ "idle" \notin GatewayStages /\ "tools" # "idle"
      /\ "tools" # "received" /\ "idle" # "received"
  BY DEF TurnStages, GatewayStages
<1>7. ASSUME messages' = messages, ~At("tools")'
      PROVE  Batched' /\ Overtaken'
  BY <1>3, <1>5, <1>7, Settles
<1>8. ASSUME NEW m, NEW waits \in BOOLEAN, Adds(messages, m, waits), messages' = Append(messages, m),
             At("tools")' = waits
      PROVE  Batched' /\ Overtaken'
  <2>1. Shaped(messages', waits)
    BY <1>5, <1>8, AddedFacts
  <2>2. ASSUME NEW o \in outdated
        PROVE  Observational(o.name) /\ \E w \in 1..Len(messages') : Overtakes(messages', waits, o, w)
    <3>1. PICK w \in 1..Len(messages) : Overtakes(messages, FALSE, o, w)
      BY <1>5
    <3>2. w \in 1..Len(Append(messages, m)) /\ Overtakes(Append(messages, m), waits, o, w)
      BY <1>5, <1>8, <3>1, AddedFacts
    <3> QED
      BY <1>5, <1>8, <3>2
  <2> QED
    BY <1>3, <1>8, <2>1, <2>2 DEF Batched, Overtaken
<1>9. ASSUME request'.stage = "idle" \/ request'.stage = "tools"
      PROVE  Windowed'
  BY <1>6, <1>9 DEF Windowed, Working, At
<1>10. CASE Goes
  <2>1. PICK stage \in GatewayStages \ {"received"} :
               Goto(stage) /\ messages' = messages /\ window' = window
    BY <1>10 DEF Goes
  <2>2. request'.stage = stage
    BY <1>1, <1>6, <2>1, StageMoves
  <2>3. ~At("tools")' /\ ~At("received")'
    BY <1>6, <2>2 DEF At
  <2>4. Suffix(window, messages)
    BY <1>1 DEF TurnsInv, Windowed
  <2>5. Windowed'
    BY <2>1, <2>3, <2>4 DEF Windowed
  <2> QED
    BY <1>2, <1>4, <1>7, <2>1, <2>3, <2>5 DEF TurnsInv
<1>11. CASE Gives
  <2>1. PICK calls \in Seq(Candidate) : Give(calls)
    BY <1>11 DEF Gives
  <2>2. PICK m \in ChatMessage : messages' = Append(messages, m) /\ Adds(messages, m, TRUE)
    BY <1>1, <2>1, GivenFacts
  <2>3. request'.stage = "tools"
    BY <1>1, <1>6, <2>1, StageMoves DEF Give
  <2>4. At("tools")' = TRUE
    BY <2>3 DEF At
  <2>5. Batched' /\ Overtaken'
    BY <1>8, <2>2, <2>4
  <2> QED
    BY <1>2, <1>4, <1>9, <2>3, <2>5 DEF TurnsInv
<1>12. CASE Tells
  <2>1. messages' = Append(messages, Said(<<>>)) /\ Goto("idle")
    BY <1>12 DEF Tells, Tell
  <2>2. Adds(messages, Said(<<>>), FALSE)
    BY DEF Adds, Said, ChatMessage
  <2>3. request'.stage = "idle"
    BY <1>1, <1>6, <2>1, StageMoves
  <2>4. At("tools")' = FALSE
    BY <2>3 DEF At
  <2>5. Batched' /\ Overtaken'
    BY <1>8, <2>1, <2>2, <2>4
  <2> QED
    BY <1>2, <1>4, <1>9, <2>3, <2>5 DEF TurnsInv
<1>13. CASE Ends
  <2>1. messages' = messages /\ Goto("idle")
    BY <1>13 DEF Ends, Finish
  <2>2. request'.stage = "idle"
    BY <1>1, <1>6, <2>1, StageMoves
  <2>3. ~At("tools")'
    BY <2>2 DEF At
  <2> QED
    BY <1>2, <1>4, <1>7, <1>9, <2>1, <2>2, <2>3 DEF TurnsInv
<1> QED
  BY <1>10, <1>11, <1>12, <1>13 DEF Proceeds

LEMMA PostHolds ==
    ASSUME TurnsInv, NEW stream \in BOOLEAN, NEW choice \in ToolChoices, NEW planning \in Plannings,
           Post(stream, choice, planning), TurnsKept'
    PROVE  TurnsInv'
<1>1. TurnTypes /\ At("idle") /\ ~At("tools")
  BY DEF TurnsInv, TurnsKept, Post, At
<1>2. request'.stage = "received" /\ dropped' = {} /\ outdated' = outdated
  BY DEF Post
<1>3. At("received")' /\ ~At("tools")' /\ ~Working'
  BY <1>2 DEF At, Working
<1>4. Windowed'
  BY <1>1, <1>3, FrontOrAll DEF Windowed
<1>5. NoStaleVerdict'
  BY <1>2 DEF NoStaleVerdict
<1>6. /\ messages \in Seq(ChatMessage) /\ Shaped(messages, FALSE)
      /\ \A o \in outdated :
            Observational(o.name) /\ \E w \in 1..Len(messages) : Overtakes(messages, FALSE, o, w)
  BY <1>1, Settled
<1>7. CASE messages' = messages
  BY <1>2, <1>3, <1>4, <1>5, <1>6, <1>7, Settles DEF TurnsInv
<1>8. CASE messages' = Append(messages, User)
  <2>1. Adds(messages, User, FALSE)
    BY DEF Adds, User, ChatMessage
  <2>2. Shaped(messages', FALSE)
    BY <1>6, <1>8, <2>1, AddedFacts
  <2>3. ASSUME NEW o \in outdated
        PROVE  Observational(o.name) /\ \E w \in 1..Len(messages') : Overtakes(messages', FALSE, o, w)
    <3>1. PICK w \in 1..Len(messages) : Overtakes(messages, FALSE, o, w)
      BY <1>6
    <3>2. w \in 1..Len(Append(messages, User)) /\ Overtakes(Append(messages, User), FALSE, o, w)
      BY <1>6, <2>1, <3>1, AddedFacts
    <3> QED
      BY <1>6, <1>8, <3>2
  <2> QED
    BY <1>2, <1>3, <1>4, <1>5, <2>2, <2>3, Settles DEF TurnsInv
<1> QED
  BY <1>1, <1>7, <1>8, FrontOrAll

LEMMA ReceiveHolds ==
    ASSUME TurnsInv, Receive, TurnsKept'
    PROVE  TurnsInv'
<1>1. TurnTypes /\ At("received") /\ ~At("tools")
  BY DEF TurnsInv, TurnsKept, Receive, At
<1>2. messages' = messages /\ outdated' = outdated /\ dropped' = dropped
  BY DEF Receive, Fail, Finish
<1>3. NoStaleVerdict'
  BY <1>2 DEF TurnsInv, NoStaleVerdict
<1>4. /\ messages \in Seq(ChatMessage) /\ Shaped(messages, FALSE)
      /\ \A o \in outdated :
            Observational(o.name) /\ \E w \in 1..Len(messages) : Overtakes(messages, FALSE, o, w)
  BY <1>1, Settled
<1>5. ~At("tools")' => Batched' /\ Overtaken'
  BY <1>2, <1>4, Settles
<1>6. CASE \E r : Fail(r)
  <2>1. Goto("idle") /\ "idle" \in TurnStages /\ "idle" \notin GatewayStages
    BY <1>6 DEF Fail, Finish, TurnStages, GatewayStages
  <2>2. request'.stage = "idle"
    BY <1>1, <2>1, StageMoves
  <2>3. ~At("tools")' /\ Windowed'
    BY <2>1, <2>2 DEF Windowed, Working, At
  <2> QED
    BY <1>3, <1>5, <2>3 DEF TurnsInv
<1>7. CASE /\ ValidConversation(window) /\ Suffix(window', window)
           /\ \E stage \in GatewayStages \ {"received"} : Goto(stage)
  <2>1. PICK stage \in GatewayStages \ {"received"} : Goto(stage)
    BY <1>7
  <2>2. request'.stage = stage
    BY <1>1, <2>1, StageMoves DEF TurnStages
  <2>3. ~At("tools")' /\ ~At("received")'
    BY <2>2 DEF At, GatewayStages
  <2>4. window = messages
    <3>1. ~(messages # <<>> /\ Last(messages).role = "tool" /\ window = Front(messages))
      BY <1>4, <1>7, FrontIsOpen
    <3> QED
      BY <1>1, <3>1 DEF TurnsInv, Windowed
  <2>5. Windowed'
    BY <1>2, <1>7, <2>3, <2>4 DEF Windowed
  <2> QED
    BY <1>3, <1>5, <2>3, <2>5 DEF TurnsInv
<1> QED
  BY <1>1, <1>6, <1>7, ReceiveFacts

LEMMA RunHolds ==
    ASSUME "empty" \notin ToolResults, TurnsInv,
           NEW n \in 1..PerTurn, NEW result \in [1..n -> ToolResults], RunTools(result), TurnsKept'
    PROVE  TurnsInv'
<1>1. TurnTypes /\ At("tools") /\ messages # <<>> /\ messages \in Seq(ChatMessage)
  BY DEF TurnsInv, TurnsKept, TurnTypes, RunTools
<1>2. At("tools") = TRUE
  BY <1>1 DEF At
<1>3. /\ Shaped(messages, TRUE)
      /\ \A o \in outdated :
            Observational(o.name) /\ \E w \in 1..Len(messages) : Overtakes(messages, TRUE, o, w)
  BY <1>2 DEF TurnsInv, Batched, Overtaken
<1>4. PICK rs \in Seq(ChatMessage) :
              /\ messages' = messages \o rs /\ Len(rs) = Len(Last(messages).calls)
              /\ \A i \in 1..Len(rs) : /\ rs[i].role = "tool" /\ rs[i].calls = <<>>
                                       /\ rs[i].result \in ToolResults
                                       /\ rs[i].id = Last(messages).calls[i].id
  BY <1>1, ReturnedFacts
<1>5. Brings(messages, rs)
  BY <1>4 DEF Brings
<1>6. request'.stage = "idle"
  <2>1. Goto("idle") /\ "idle" \in TurnStages
    BY DEF RunTools, TurnStages
  <2> QED
    BY <1>1, <2>1, StageMoves
<1>7. ~At("tools")' /\ Windowed'
  BY <1>6 DEF At, Windowed, Working, GatewayStages
<1>8. NoStaleVerdict'
  BY DEF RunTools, NoStaleVerdict
<1>9. Shaped(messages', FALSE)
  BY <1>1, <1>3, <1>4, <1>5, ResultFacts
<1> DEFINE calls == Last(messages).calls
           wrote == \E i \in DOMAIN calls : calls[i].name \in Changing /\ result[i] # "failed"
           seen == {Plain(calls[i]) : i \in {j \in DOMAIN calls : result[j] # "empty"}}
           observations == {Plain(c) : c \in {d \in ToSet(Made(messages)) : Observational(d.name)}}
<1>10. calls \in Seq(Call) /\ DOMAIN calls = 1..Len(calls) /\ DOMAIN calls = 1..n
  <2>1. Last(messages) \in ChatMessage
    BY <1>1 DEF Last
  <2>2. calls \in Seq(Call)
    BY <2>1 DEF ChatMessage
  <2>3. DOMAIN calls = 1..n
    BY DEF RunTools
  <2> QED
    BY <2>2, <2>3
<1>11. outdated' = IF wrote THEN observations ELSE outdated \ seen
  BY DEF RunTools
<1>12. \A i \in 1..Len(calls) : Plain(calls[i]) \in seen
  <2>1. \A i \in 1..n : result[i] # "empty"
    OBVIOUS
  <2> QED
    BY <1>10, <2>1
<1>13. wrote => \E i \in 1..Len(calls) : calls[i].name \in Changing
  BY <1>10
<1>14. \A o \in observations : Observational(o.name)
  BY DEF Plain
<1> HIDE DEF wrote, seen, observations
<1>15. ASSUME NEW o \in outdated'
       PROVE  Observational(o.name) /\ \E w \in 1..Len(messages') : Overtakes(messages', FALSE, o, w)
  <2>1. CASE wrote
    <3>1. Len(messages) \in 1..Len(messages)
      BY <1>1
    <3>2. Overtakes(messages \o rs, FALSE, o, Len(messages)) /\ Len(messages) \in 1..Len(messages \o rs)
      BY <1>1, <1>3, <1>5, <1>13, <2>1, <3>1, ResultFacts
    <3> QED
      BY <1>4, <1>11, <1>14, <1>15, <2>1, <3>2
  <2>2. CASE ~wrote
    <3>1. o \in outdated /\ o \notin seen
      BY <1>11, <1>15, <2>2
    <3>2. PICK w \in 1..Len(messages) : Overtakes(messages, TRUE, o, w)
      BY <1>3, <3>1
    <3>3. \A k \in 1..Len(calls) : Plain(calls[k]) # o
      BY <1>12, <3>1
    <3>4. Overtakes(messages \o rs, FALSE, o, w) /\ w \in 1..Len(messages \o rs)
      BY <1>1, <1>3, <1>5, <3>2, <3>3, ResultFacts
    <3> QED
      BY <1>3, <1>4, <3>1, <3>4
  <2> QED
    BY <2>1, <2>2
<1>16. Batched' /\ Overtaken'
  BY <1>7, <1>9, <1>15, Settles
<1> QED
  BY <1>7, <1>8, <1>16 DEF TurnsInv

LEMMA TurnsStart == TurnsInit => TurnsInv
<1> SUFFICES ASSUME TurnsInit
             PROVE  TurnsInv
  OBVIOUS
<1>1. messages = <<>> /\ dropped = {} /\ outdated = {} /\ request.stage = "idle" /\ 1..Len(messages) = {}
  BY DEF TurnsInit
<1>2. Batched
  BY <1>1 DEF Batched, Shaped
<1>3. Windowed /\ Overtaken /\ NoStaleVerdict
  BY <1>1 DEF Windowed, Working, At, GatewayStages, Overtaken, NoStaleVerdict
<1> QED
  BY <1>2, <1>3, TurnsKeptStart DEF TurnsInv

LEMMA TurnsSteps ==
    ASSUME "empty" \notin ToolResults, \A n \in Changing : ~Observational(n)
    PROVE  TurnsInv /\ [TurnsNext]_turnVars => TurnsInv'
<1> SUFFICES ASSUME TurnsInv, [TurnsNext]_turnVars
             PROVE  TurnsInv'
  OBVIOUS
<1>1. TurnsKept /\ TurnTypes /\ TurnsKept'
  BY TurnsKeptSteps DEF TurnsInv, TurnsKept
<1>2. ASSUME UNCHANGED turnVars
      PROVE  TurnsInv'
  BY <1>1, <1>2 DEF TurnsInv, Batched, Windowed, Working, Overtaken, NoStaleVerdict, At, turnVars
<1>3. ASSUME Proceeds
      PROVE  TurnsInv'
  BY <1>3, ProceedHolds
<1>4. ASSUME Receive
      PROVE  TurnsInv'
  BY <1>1, <1>4, ReceiveHolds
<1>5. ASSUME NEW stream \in BOOLEAN, NEW choice \in ToolChoices, NEW planning \in Plannings,
             Post(stream, choice, planning)
      PROVE  TurnsInv'
  BY <1>1, <1>5, PostHolds
<1>6. ASSUME NEW n \in 1..PerTurn, NEW result \in [1..n -> ToolResults], RunTools(result)
      PROVE  TurnsInv'
  BY <1>1, <1>6, RunHolds
<1> QED
  BY <1>1, <1>2, <1>3, <1>4, <1>5, <1>6, RoutesProceed, AnswersProceed
     DEF TurnsNext, Gateway, Client

(* No observation that a change has overtaken is dropped as already        *)
(* answered, however long the conversation and however it is trimmed,      *)
(* provided tools answer something and no changing tool is named like one  *)
(* that observes (agent_ledger.go:249-282).                                *)
THEOREM VerdictsStayFresh ==
    "empty" \notin ToolResults /\ (\A n \in Changing : ~Observational(n))
       => (TurnsSpec => []NoStaleVerdict)
<1> SUFFICES ASSUME "empty" \notin ToolResults, \A n \in Changing : ~Observational(n)
             PROVE  TurnsSpec => []NoStaleVerdict
  OBVIOUS
<1>1. TurnsInv /\ [TurnsNext]_turnVars => TurnsInv'
  BY TurnsSteps
<1>2. TurnsInv => NoStaleVerdict
  BY DEF TurnsInv
<1> QED
  BY <1>1, <1>2, TurnsStart, PTL DEF TurnsSpec
=============================================================================
