---------------------------- MODULE ChatHubCall ----------------------------
(***************************************************************************)
(* One upstream call after the other, each on a WebSocket of its own:      *)
(* Client.chatWithHandlers (internal/chathub/client.go).  A call uploads   *)
(* its images in a goroutine while it dials, waits for the upload, shakes  *)
(* hands, sends its payload and reads frames until the completion frame.   *)
(*                                                                         *)
(* The complete answer is the text 1, 2 .. N; what the upstream writes in  *)
(* a call is the part of it from call.from on, and a frame carries a       *)
(* snapshot of that part or a delta at the cursor (client.go:425).  The    *)
(* image's DocID lives in the attachments all calls of a request share.    *)
(* Pings, throttling and the events kept for the result are left out.      *)
(***************************************************************************)
EXTENDS Naturals, Sequences, SequencesExt

CONSTANTS
    MaxCalls,   \* attempts of retryUpstream (router_retry.go)
    N,          \* length of the answer
    Asks        \* kinds of requests

(* image: it has an image to upload; policy: M365_PUBLIC_IDENTITY_POLICY   *)
(* is set; callable: a call can be made of the answer's tool fence;        *)
(* native: the upstream makes a native tool call.                          *)
ASSUME CallAssumption ==
    /\ MaxCalls \in Nat \ {0} /\ N \in Nat \ {0}
    /\ Asks \subseteq [image : BOOLEAN, policy : BOOLEAN, callable : BOOLEAN,
                      native : BOOLEAN]

VARIABLES
    ask,        \* the request
    n,          \* calls made
    call,       \* the current one; it has said the answer from .. said, emitted cur
    uploads,    \* the upload goroutine of each call
    doc,        \* the call whose upload wrote the DocID, 0 for none
    sent,       \* the same, as the current call's payload carries it
    ctx         \* the request's context: live, late (timeout), left (client)

callVars == <<ask, n, call, uploads, doc, sent, ctx>>

Calls == 1..MaxCalls
Text == 1..N
Running == {"dial", "upload", "handshake", "send", "read"}
(* How a call ends.  retryUpstream tries again after broken and refused.   *)
Failures == {"broken", "refused", "fatal", "gone"}
Retryable == {"broken", "refused"}
Stages == {"none", "ok"} \cup Running \cup Failures
Uploads == {"none", "running", "wrote", "overwrote", "skipped", "failed"}

Span(a, b) == [i \in 1..(IF b < a THEN 0 ELSE b - a + 1) |-> a + i - 1]

NewCall(stage, from) ==
    [stage |-> stage, from |-> from, said |-> from - 1, cur |-> <<>>, final |-> FALSE,
     revised |-> FALSE]

CallInit ==
    /\ ask \in Asks
    /\ n = 0 /\ doc = 0 /\ sent = 0 /\ ctx = "live"
    /\ call = NewCall("none", 1)
    /\ uploads = [k \in Calls |-> "none"]

(* A call that fails leaves nothing but its error.                         *)
Goto(stage) ==
    call' = IF stage \in Failures THEN NewCall(stage, 1) ELSE [call EXCEPT !.stage = stage]
Ends(stage, how) == call.stage = stage /\ Goto(how) /\ UNCHANGED <<ask, n, uploads, doc, sent, ctx>>

-----------------------------------------------------------------------------
(* The next call starts, with the point the upstream will write from.      *)
Dial(from) ==
    /\ n < MaxCalls
    /\ n' = n + 1 /\ sent' = 0
    /\ call' = NewCall("dial", from)
    /\ uploads' = [uploads EXCEPT ![n + 1] = IF ask.image THEN "running" ELSE @]
    /\ UNCHANGED <<ask, doc, ctx>>

Connected == Ends("dial", IF ask.image THEN "upload" ELSE "handshake")

(* 429, 401 and 403 are told apart.  The upload goroutine is not waited    *)
(* for.                                                                    *)
DialFails == Ends("dial", "refused") \/ Ends("dial", "broken")

(* uploadAttachments: what goes wrong on the way is logged and skipped, a  *)
(* bad image or a panic (safeGoDeliver) is the call's error.  k may be an  *)
(* earlier call: its goroutine writes into the same attachments.           *)
UploadWrites(k) ==
    /\ uploads[k] = "running"
    /\ doc' = k
    /\ uploads' = [uploads EXCEPT ![k] = IF k = n THEN "wrote" ELSE "overwrote"]
    /\ UNCHANGED <<ask, n, call, sent, ctx>>

UploadEnds(k) ==
    /\ uploads[k] = "running"
    /\ \/ uploads' = [uploads EXCEPT ![k] = "skipped"]
       \/ k = n /\ uploads' = [uploads EXCEPT ![k] = "failed"]
    /\ UNCHANGED <<ask, n, call, doc, sent, ctx>>

AwaitUpload ==
    /\ call.stage = "upload" /\ uploads[n] # "running"
    /\ Ends("upload", IF uploads[n] = "failed" THEN "fatal" ELSE "handshake")

ShakeHands == Ends("handshake", "send") \/ Ends("handshake", "broken")

(* chatPayload: an attachment with a DocID becomes an annotation.          *)
Send ==
    /\ call.stage = "send"
    /\ Goto("read") /\ sent' = doc
    /\ UNCHANGED <<ask, n, uploads, doc, ctx>>

SendFails == Ends("send", "broken")

-----------------------------------------------------------------------------
(* What the upstream may send: all it has said, or said some time ago, in  *)
(* this call, or only what comes next.                                     *)
Snapshots == {Span(call.from, b) : b \in call.from..N}
Deltas == {Span(call.said + 1, b) : b \in call.said + 1..N}
Frames == Snapshots \cup Deltas

(* emitSnapshot, which both kinds go through: the suffix of what extends   *)
(* the text; a shorter snapshot, a rewritten one and a delta are skipped.  *)
Unseen(cur, snapshot) ==
    IF IsPrefix(cur, snapshot) THEN SubSeq(snapshot, Len(cur) + 1, Len(snapshot)) ELSE <<>>

(* A frame with text is read; how is the call's stage after it (emitting   *)
(* may fail).                                                              *)
Reads(frame, how) ==
    /\ call.stage = "read" /\ ~call.revised
    /\ IF how = "read"
       THEN call' = [call EXCEPT !.cur = @ \o Unseen(@, frame), !.final = FALSE,
                                 !.said = IF Last(frame) > @ THEN Last(frame) ELSE @]
       ELSE Goto(how)
    /\ UNCHANGED <<ask, n, uploads, doc, sent, ctx>>

(* The upstream rewrites what it has said: this and all later snapshots    *)
(* are skipped.                                                            *)
Revise ==
    /\ call.stage = "read" /\ call.cur # <<>> /\ ~call.revised
    /\ call' = [call EXCEPT !.revised = TRUE]
    /\ UNCHANGED <<ask, n, uploads, doc, sent, ctx>>

(* Frame of type 2: the whole message, of use only if no text is streamed. *)
ResultFrame ==
    /\ call.stage = "read" /\ call.cur = <<>> /\ ~call.final
    /\ call' = [call EXCEPT !.final = TRUE]
    /\ UNCHANGED <<ask, n, uploads, doc, sent, ctx>>

(* Frame of type 3.  The upstream has said everything by then, or has      *)
(* rewritten it.                                                           *)
Said == call.revised \/ call.said = N \/ call.final
Completion == Said /\ Ends("read", "ok")
(* What came at the cursor was skipped, and no snapshot has made up for it. *)
Skipped == call.cur # <<>> /\ Last(call.cur) < call.said
CompletionError == Ends("read", "fatal")

(* Variant: a connection that drops ends the answer.                       *)
DroppedIsComplete == Ends("read", IF call.cur = <<>> THEN "broken" ELSE "ok")
(* The connection drops or stays silent for 90 s.                          *)
Dropped == Ends("read", "broken")

(* The 5 minutes of the loop are over: not retried.                        *)
Deadline == Ends("read", "fatal")

(* The context ends; dial, upload, handshake and the read loop give up.    *)
Expire == ctx = "live" /\ ctx' \in {"late", "left"} /\ UNCHANGED <<ask, n, call, uploads, doc, sent>>
Cancelled ==
    /\ ctx # "live" /\ call.stage \in Running
    /\ Goto("gone") /\ UNCHANGED <<ask, n, uploads, doc, sent, ctx>>
=============================================================================
