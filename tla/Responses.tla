------------------------------ MODULE Responses ------------------------------
(***************************************************************************)
(* POST /v1/responses (internal/web/protocol_handlers.go).                 *)
(*                                                                         *)
(* A streamed request runs openaiChat in a goroutine of its own, which     *)
(* writes the lines of its answer into a pipe, and turns each line into    *)
(* events of the other protocol.  The pipe has no buffer: a Write returns  *)
(* when the reader has taken all of it, and nobody ever closes the         *)
(* reading end.  The model has one such request; they share nothing.       *)
(*                                                                         *)
(* Any other request runs openaiChat to its end and keeps the conversation *)
(* under the id of the response, for its tenant to follow up.  A tenant is *)
(* what extractAPIKey makes of a request's key, which is not the key: keys *)
(* that begin alike are one tenant, and share what is kept for it.         *)
(* Responses are numbered in the order in which they are kept; a message   *)
(* is the number of the response that answered it.                         *)
(***************************************************************************)
EXTENDS Naturals, Sequences, FiniteSets

CONSTANTS
    MaxLines,       \* bound: lines of an answer
    LineMayBeLong,  \* whether a line can exceed the scanner's 2 MiB
    Callers,        \* requests that are not streamed
    Requesters,     \* [header, key, cut]: where a request has its key, the key, its first 8 bytes
    MaxStored,      \* maxResponsesPerTenant, 256 in the code
    MaxGiven        \* bound: responses ever kept

ASSUME ResponsesAssumption ==
    {MaxLines, MaxGiven} \subseteq Nat /\ MaxStored \in Nat \ {0} /\ LineMayBeLong \in BOOLEAN

VARIABLES
    inner,      \* the goroutine: where it is, lines written, status
    pipe,       \* the line its Write waits with, a sequence of at most one
    outer,      \* the handler: where it is, and what it has gathered
    shown,      \* events the client has got, the deltas once
    gone,       \* the client has left: the request's context is cancelled
    kept,       \* responseMessages: of each tenant, id |-> messages
    caller,     \* what each request is doing
    told,       \* history: [tenant, messages] of every response given
    aged        \* history: responses up to this one are older than an hour
streamVars == <<inner, pipe, outer, shown, gone>>
keptVars == <<kept, caller, told, aged>>
responsesVars == <<streamVars, keptVars>>

(* A key in the header X-API-Key counts whole, a bearer's is cut.          *)
ExtractAPIKey(r) == IF r.header = "X-API-Key" THEN r.key ELSE r.cut
Tenants == {ExtractAPIKey(r) : r \in Requesters}

ContentLines == {"text", "call"}
Unaskable == [at |-> "idle", tenant |-> CHOOSE t \in Tenants : TRUE, previous |-> 0, messages |-> <<>>]

ResponsesInit ==
    /\ inner = [at |-> "none", lines |-> 0, refused |-> FALSE] /\ pipe = <<>>
    /\ outer = [at |-> "idle", line |-> "none", text |-> FALSE, calls |-> FALSE, tooLong |-> FALSE]
    /\ shown = {} /\ gone = FALSE
    /\ kept = [t \in Tenants |-> [id \in {} |-> <<>>]]
    /\ caller = [c \in Callers |-> Unaskable]
    /\ told = <<>> /\ aged = 0

-----------------------------------------------------------------------------
(* streamResponsesAdapter.                                                 *)
Show(events) == shown' = IF gone THEN shown ELSE shown \cup events

StartStream ==
    /\ outer.at = "idle" /\ outer' = [outer EXCEPT !.at = "scan"]
    /\ inner' = [inner EXCEPT !.at = "open"]
    /\ Show({"created"})
    /\ UNCHANGED <<pipe, gone>>

(* openaiChat writes a line and waits for it to be read.  Before a line of *)
(* text it looks whether the client has left (emitText, sseRaw), before a  *)
(* tool call it does not (writeToolResponse).                              *)
Writing(line, next) ==
    /\ pipe = <<>> /\ inner.lines < MaxLines
    /\ pipe' = <<line>>
    /\ inner' = [inner EXCEPT !.at = next, !.lines = @ + 1, !.refused = @ \/ line = "refusal"]
    /\ UNCHANGED <<outer, shown, gone>>

WriteLine ==
    \/ inner.at = "open" /\ Writing("refusal", "end")
    \/ inner.at = "open" /\ ~gone /\ Writing("connected", "talk")
    \/ inner.at = "talk" /\ ~gone /\ Writing("text", "talk")
    \/ inner.at = "talk" /\ ~gone /\ Writing("error", "end")
    \/ inner.at = "talk" /\ ~gone /\ Writing("finish", "end")
    \/ inner.at \in {"talk", "calls"} /\ Writing("call", "calls")
    \/ inner.at = "calls" /\ Writing("finish", "end")
    \/ inner.at \in {"talk", "calls"} /\ LineMayBeLong /\ Writing("long", inner.at)

(* It returns, at the end of its answer or on finding the client gone, or  *)
(* panics; the deferred function closes the writing end.                   *)
InnerReturns ==
    /\ inner.at \notin {"none", "over"} /\ pipe = <<>>
    /\ inner' = [inner EXCEPT !.at = "over"]
    /\ UNCHANGED <<pipe, outer, shown, gone>>

ScanLine ==
    /\ outer.at = "scan" /\ pipe # <<>>
    /\ IF pipe[1] = "long"
       THEN outer' = [outer EXCEPT !.at = "await", !.tooLong = TRUE] /\ UNCHANGED pipe
       ELSE outer' = [outer EXCEPT !.at = "line", !.line = pipe[1]] /\ pipe' = <<>>
    /\ UNCHANGED <<inner, shown, gone>>
ScanEnd ==
    /\ outer.at = "scan" /\ pipe = <<>> /\ inner.at = "over"
    /\ outer' = [outer EXCEPT !.at = "await"]
    /\ UNCHANGED <<inner, pipe, shown, gone>>

(* The body of the loop, for the line and again for the blank one after    *)
(* it, which was read with it: when the client has left the handler        *)
(* returns, with the pipe as it is.                                        *)
Convert ==
    /\ outer.at = "line" /\ ~gone
    /\ outer' = [outer EXCEPT !.at = "blank", !.line = "none",
                              !.text = @ \/ outer.line = "text", !.calls = @ \/ outer.line = "call"]
    /\ Show({outer.line} \cap ContentLines)
    /\ UNCHANGED <<inner, pipe, gone>>
SkipBlank ==
    /\ outer.at = "blank" /\ ~gone
    /\ outer' = [outer EXCEPT !.at = "scan"]
    /\ UNCHANGED <<inner, pipe, shown, gone>>
Abandon ==
    /\ outer.at \in {"line", "blank"} /\ gone
    /\ outer' = [outer EXCEPT !.at = "over", !.line = "none"]
    /\ UNCHANGED <<inner, pipe, shown, gone>>

(* Variant: nothing is said of an answer without content.                  *)
ConcludeBlankly ==
    /\ outer.at = "await" /\ inner.at = "over"
    /\ outer' = [outer EXCEPT !.at = "over"]
    /\ Show(IF outer.tooLong \/ inner.refused THEN {"failed"}
            ELSE IF outer.calls \/ outer.text THEN {"completed"} ELSE {})
    /\ UNCHANGED <<inner, pipe, gone>>
(* <-innerDone, and the event that ends the stream.                        *)
Conclude ==
    /\ outer.at = "await" /\ inner.at = "over"
    /\ outer' = [outer EXCEPT !.at = "over"]
    /\ Show(IF outer.tooLong \/ inner.refused \/ ~(outer.calls \/ outer.text)
            THEN {"failed"} ELSE {"completed"})
    /\ UNCHANGED <<inner, pipe, gone>>

Leave ==
    /\ outer.at \notin {"idle", "over"} /\ ~gone /\ gone' = TRUE
    /\ UNCHANGED <<inner, pipe, outer, shown>>

-----------------------------------------------------------------------------
(* responses, when no stream is asked for: a new conversation, or one that *)
(* follows a response kept for the requester's tenant, however old.        *)
Ask(c, requester) ==
    LET tenant == ExtractAPIKey(requester) IN
    /\ caller[c].at = "idle"
    /\ \E previous \in {0} \cup DOMAIN kept[tenant] :
          caller' = [caller EXCEPT ![c] =
              [at |-> "chat", tenant |-> tenant, previous |-> previous,
               messages |-> IF previous = 0 THEN <<>> ELSE kept[tenant][previous]]]
    /\ UNCHANGED <<kept, told, aged>>

(* The chat fails, or says nothing.                                        *)
ChatUnanswered(c) ==
    /\ caller[c].at = "chat"
    /\ caller' = [caller EXCEPT ![c] = Unaskable]
    /\ UNCHANGED <<kept, told, aged>>

Bucket(of, ids) == [id \in ids |-> of[id]]
Oldest(ids) == {id \in ids : \A other \in ids : id <= other}
(* Variant: the newest makes room.                                         *)
RoomIgnoringAge(bucket) ==
    LET fresh == {id \in DOMAIN bucket : id > aged}
    IN IF Cardinality(fresh) >= MaxStored
       THEN Bucket(bucket, {id \in fresh : \E other \in fresh : id < other})
       ELSE Bucket(bucket, fresh)
(* Room for one more: what is older than an hour goes, and then, if need   *)
(* be, the oldest.                                                         *)
Room(bucket) ==
    LET fresh == {id \in DOMAIN bucket : id > aged}
    IN IF Cardinality(fresh) >= MaxStored THEN Bucket(bucket, fresh \ Oldest(fresh))
       ELSE Bucket(bucket, fresh)

Keep(c) ==
    LET id == Len(told) + 1
        t == caller[c].tenant
        room == Room(kept[t])
        before == IF caller[c].previous = 0 THEN <<>> ELSE told[caller[c].previous].messages
    IN /\ caller[c].at = "chat" /\ id <= MaxGiven
       /\ kept' = [kept EXCEPT ![t] = [i \in DOMAIN room \cup {id} |->
                       IF i = id THEN Append(caller[c].messages, id) ELSE room[i]]]
       /\ told' = Append(told, [tenant |-> t, messages |-> Append(before, id)])
       /\ caller' = [caller EXCEPT ![c] = Unaskable]
       /\ UNCHANGED aged

Hour ==
    /\ \E n \in aged + 1..Len(told) : aged' = n
    /\ UNCHANGED <<kept, caller, told>>

-----------------------------------------------------------------------------
OuterStep == ScanLine \/ ScanEnd \/ Convert \/ SkipBlank \/ Abandon \/ Conclude
StreamNext == StartStream \/ WriteLine \/ InnerReturns \/ OuterStep \/ Leave
KeptNext ==
    \/ \E c \in Callers : (\E r \in Requesters : Ask(c, r)) \/ ChatUnanswered(c) \/ Keep(c)
    \/ Hour

ResponsesNext ==
    \/ StreamNext /\ UNCHANGED keptVars
    \/ KeptNext /\ UNCHANGED streamVars
ResponsesSpec == ResponsesInit /\ [][ResponsesNext]_responsesVars

(* Goroutines are scheduled, and a chat ends within its timeout.           *)
ResponsesFairness == WF_streamVars(InnerReturns) /\ WF_streamVars(OuterStep)

-----------------------------------------------------------------------------
(* A client that stays is never left after response.created without an     *)
(* event that ends the stream, whatever the chat writes, fails with or     *)
(* panics at (protocol_handlers.go:162-164), unless a line of it is longer *)
(* than the scanner takes.                                                 *)
ResponseEnds ==
    "created" \in shown ~> shown \cap {"failed", "completed"} # {} \/ gone \/ outer.tooLong

(* The chat behind a streamed response is over at last, client or not: it  *)
(* is not left blocked on a dead stream (stream.go:106-108).               *)
InnerEnds == inner.at = "open" ~> inner.at = "over"

(* Whatever requests of the tenant or of others end in between, a response *)
(* that is younger than an hour and among the MaxStored latest of its      *)
(* tenant can be followed up, and brings back the conversation it ended,   *)
(* all of it and nothing else.  The latest of a tenant are those of all    *)
(* requesters whose keys extractAPIKey does not tell apart.                *)
NewestFollowable ==
    \A id \in 1..Len(told) :
        LET t == told[id].tenant
            later == {n \in id + 1..Len(told) : told[n].tenant = t}
        IN id > aged /\ Cardinality(later) < MaxStored
               => id \in DOMAIN kept[t] /\ kept[t][id] = told[id].messages
=============================================================================
