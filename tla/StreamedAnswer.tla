--------------------------- MODULE StreamedAnswer ---------------------------
(***************************************************************************)
(* A streamed chat completion from the upstream's frames to the client:    *)
(* the stream branch of openaiChat (internal/web/server.go) over           *)
(* streamChatWithRecovery (stream_recovery.go), which repeats a broken     *)
(* call in a new conversation and reconciles the text of the continuation  *)
(* with what was delivered, flushStreamText (stream_text.go), which holds  *)
(* back what may be a declared tool fence, and the identity filter         *)
(* (public_identity.go), which holds back an unfinished sentence.          *)
(*                                                                         *)
(* The part Open .. Shut of the answer, if any, is a fence of a declared   *)
(* tool; the symbols of Stops end a sentence.  Which account a call uses,  *)
(* and the delays between calls, are AccountRouting's.                     *)
(***************************************************************************)
EXTENDS ChatHubCall

CONSTANTS
    MinOverlap,        \* smallest overlap that is trusted, 16 bytes in the code
    MaxOverlap,     \* largest that is looked for, 0x800 bytes
    Lookahead,       \* what flushStreamText holds back, 8 runes
    Open, Shut, \* first and last symbol of the fence; 0 for no fence
    Stops,      \* ends of sentences
    Slips       \* where continuations may start besides 1 and the right place

ASSUME AnswerAssumption ==
    /\ MinOverlap \in Nat \ {0} /\ MaxOverlap \in Nat /\ Lookahead \in Nat
    /\ Open \in 0..N /\ Shut \in Open..N /\ Stops \subseteq Text /\ Slips \subseteq Text

VARIABLES
    text,       \* what the calls have delivered
    rec,        \* the retryTextReconciler of the current call
    pending,    \* held back by flushStreamText
    held,       \* held back by the identity filter
    tools,      \* a native tool call was streamed
    out,        \* the text sent to the client
    end,        \* "none", or how the stream has ended
    overlapped  \* history: a continuation has started inside the delivered text

vars == <<callVars, text, rec, pending, held, tools, out, end, overlapped>>

-----------------------------------------------------------------------------
Reconciler(delivered) == [delivered |-> delivered, buffer |-> <<>>, through |-> FALSE]

Rest(s, k) == SubSeq(s, k + 1, Len(s))
Overlaps(r, c) == {k \in MinOverlap..MaxOverlap : k <= Len(c) /\ IsSuffix(SubSeq(c, 1, k), r.delivered)}
Longest(ks) == CHOOSE k \in ks : \A j \in ks : j <= k

(* Variant: what replays the delivered text is passed on.                  *)
PassedReplay(r, c, final) ==
    IF Overlaps(r, c) # {} THEN Rest(c, Longest(Overlaps(r, c)))
    ELSE IF final \/ Len(c) >= MinOverlap THEN c ELSE <<>>
(* What push lets pass of candidate c: nothing of a replay as long as it   *)
(* is one, the rest after the replay or after the longest overlap, and     *)
(* all of it when there is none and it is long enough to tell.             *)
Passed(r, c, final) ==
    IF r.delivered = <<>> THEN c
    ELSE IF IsPrefix(c, r.delivered) THEN <<>>
    ELSE IF IsPrefix(r.delivered, c) THEN Rest(c, Len(r.delivered))
    ELSE IF Overlaps(r, c) # {} THEN Rest(c, Longest(Overlaps(r, c)))
    ELSE IF final \/ Len(c) >= MinOverlap THEN c ELSE <<>>
(* After that the reconciler lets everything pass.                         *)
Opened(r, c) ==
    /\ c # <<>>
    /\ \/ r.delivered = <<>>
       \/ ~IsPrefix(c, r.delivered) /\ (IsPrefix(r.delivered, c) \/ Len(c) >= MinOverlap)

Push(r, fragment, final) ==
    LET c == r.buffer \o fragment IN
    IF r.through THEN [emit |-> fragment, next |-> r]
    ELSE [emit |-> Passed(r, c, final),
          next |-> IF Opened(r, c) THEN [r EXCEPT !.buffer = <<>>, !.through = TRUE]
                   ELSE [r EXCEPT !.buffer = c]]

(* Only a continuation's text is reconciled.                               *)
Reconciled(fragment, final) ==
    IF n > 1 THEN Push(rec, fragment, final)
    ELSE [emit |-> IF final THEN <<>> ELSE fragment, next |-> rec]

-----------------------------------------------------------------------------
(* One symbol of the text flushStreamText looks through: a complete fence  *)
(* disappears if a call can be made of it and blocks the rest if not.      *)
Scan(s, x) ==
    IF s.block # <<>>
    THEN [s EXCEPT !.block = IF x = Shut /\ ask.callable THEN <<>> ELSE Append(@, x)]
    ELSE IF x = Open THEN [shown |-> s.shown \o s.rest, rest |-> <<>>, block |-> <<x>>]
    ELSE [s EXCEPT !.rest = Append(@, x)]

Scanned(p) ==
    LET after[i \in 0..Len(p)] ==
          IF i = 0 THEN [shown |-> <<>>, rest |-> <<>>, block |-> <<>>]
          ELSE Scan(after[i - 1], p[i])
    IN after[Len(p)]

Flush(p, final) ==
    LET s == Scanned(p)
        cut == IF Len(s.rest) <= Lookahead THEN 0 ELSE Len(s.rest) - Lookahead IN
    IF final THEN [emit |-> s.shown \o s.rest \o s.block, keep |-> <<>>]
    ELSE IF s.block # <<>> THEN [emit |-> s.shown, keep |-> s.block]
    ELSE [emit |-> s.shown \o SubSeq(s.rest, 1, cut), keep |-> Rest(s.rest, cut)]

(* publicIdentityStreamFilter.Push, which nothing flushes at the end.      *)
Filtered(part) ==
    LET p == held \o part
        ends == {i \in DOMAIN p : p[i] \in Stops}
        cut == IF ends = {} THEN 0 ELSE Longest(ends) IN
    IF ask.policy THEN [emit |-> SubSeq(p, 1, cut), keep |-> Rest(p, cut)]
    ELSE [emit |-> part, keep |-> held]

Handle(fragment, final) == Flush(pending \o fragment, final)
(* handleStreamText and emitText: fragment is new text, s what Flush makes *)
(* of it.  Variant: the client is sent snapshots.                          *)
EmitAnew(fragment, s) ==
    /\ text' = text \o fragment /\ pending' = s.keep
    /\ held' = Filtered(s.emit).keep /\ out' = Filtered(s.emit).emit
Emit(fragment, s) ==
    LET f == Filtered(s.emit) IN
    /\ text' = text \o fragment
    /\ pending' = s.keep
    /\ held' = f.keep
    /\ out' = out \o f.emit
(* The client has gone: writing fails.                                     *)
Unheard(s) == ctx = "left" /\ Filtered(s.emit).emit # <<>>

-----------------------------------------------------------------------------
Init ==
    /\ CallInit
    /\ text = <<>> /\ rec = Reconciler(<<>>) /\ pending = <<>> /\ held = <<>>
    /\ tools = FALSE /\ out = <<>> /\ end = "none" /\ overlapped = FALSE

Start ==
    /\ n = 0
    /\ Dial(1)
    /\ UNCHANGED <<text, rec, pending, held, tools, out, end, overlapped>>

(* The call's own steps, which leave the answer alone.                     *)
CallStep ==
    /\ end = "none"
    /\ \/ Connected \/ DialFails \/ AwaitUpload \/ ShakeHands \/ Send \/ SendFails
       \/ Revise \/ ResultFrame \/ Completion \/ CompletionError
       \/ Dropped \/ Deadline \/ Cancelled
    /\ UNCHANGED <<text, rec, pending, held, tools, out, end, overlapped>>

(* What goes on around the handler.                                        *)
Uploading ==
    /\ end = "none"
    /\ \E k \in Calls : UploadWrites(k) \/ UploadEnds(k)
    /\ UNCHANGED <<text, rec, pending, held, tools, out, end, overlapped>>

ContextEnds ==
    /\ end = "none" /\ Expire
    /\ UNCHANGED <<text, rec, pending, held, tools, out, end, overlapped>>

(* A frame with text.                                                      *)
Receive(frame) ==
    LET p == Reconciled(Unseen(call.cur, frame), FALSE)
        s == Handle(p.emit, FALSE)
        heard == p.emit = <<>> \/ ~Unheard(s) IN
    /\ Reads(frame, IF heard THEN "read" ELSE "gone")
    /\ rec' = p.next
    /\ IF p.emit # <<>> /\ heard THEN Emit(p.emit, s)
       ELSE UNCHANGED <<text, pending, held, out>>
    /\ UNCHANGED <<tools, end, overlapped>>

(* A native tool call; those of a continuation are ignored.                *)
ToolEvent ==
    /\ ask.native /\ call.stage = "read" /\ n = 1 /\ ~tools
    /\ tools' = TRUE
    /\ UNCHANGED <<callVars, text, rec, pending, held, out, end, overlapped>>

(* Where the upstream goes on when it is asked to continue after s.        *)
GoesOn(s) == IF s = <<>> THEN {1} ELSE {1, Last(s) + 1} \cup {j \in Slips : j <= Last(s)}

Retry(from) ==
    /\ end = "none" /\ call.stage \in Retryable /\ ctx = "live"
    /\ from \in GoesOn(text)
    /\ Dial(from)
    /\ rec' = Reconciler(text)
    /\ overlapped' = (overlapped \/ (from \notin {1, N + 1} /\ from # Last(text) + 1))
    /\ UNCHANGED <<text, pending, held, tools, out, end>>

(* Variant: the error of the last attempt is not returned.                 *)
GiveUpEarly ==
    /\ end = "none" /\ call.stage \in Failures
    /\ \/ call.stage \notin Retryable \/ ctx # "live"
    /\ end' = "error"
    /\ UNCHANGED <<callVars, text, rec, pending, held, tools, out, overlapped>>
(* retryUpstream returns the error, or there is no other account: an error *)
(* event, whatever has been sent.                                          *)
GiveUp ==
    /\ end = "none" /\ call.stage \in Failures
    /\ end' = "error"
    /\ UNCHANGED <<callVars, text, rec, pending, held, tools, out, overlapped>>

FenceDone(s) == \E i, j \in DOMAIN s : i < j /\ s[i] = Open /\ s[j] = Shut

(* The call has succeeded: the reconciler's rest, the message when no text *)
(* was streamed, and then the tool calls or the held-back text.  Calls     *)
(* that are rejected are repaired first.  (s is bound by \E for TLC.)      *)
Finish ==
    LET p == Reconciled(<<>>, TRUE)
        whole == text \o p.emit
        rest == IF whole = <<>> /\ call.final THEN Span(call.from, N) ELSE p.emit
        called == tools \/ (ask.callable /\ FenceDone(text \o rest)) IN
    /\ end = "none" /\ call.stage = "ok"
    /\ rec' = p.next
    /\ \E s \in {IF called /\ whole = <<>> THEN [emit |-> <<>>, keep |-> rest]
                 ELSE Handle(rest, ~called)} :
          IF Unheard(s) THEN end' = "error" /\ UNCHANGED <<text, pending, held, out>>
          ELSE /\ end' \in (IF called THEN {"tools", "error"} ELSE {"stop"})
               /\ Emit(rest, s)
    /\ UNCHANGED <<callVars, tools, overlapped>>

Done == end # "none" /\ UNCHANGED vars

(* The server's own steps and its timers; the upstream need not say        *)
(* anything, the client need not leave, and no other account need be free. *)
Server == Start \/ GiveUp \/ CallStep \/ Finish \/ Uploading

Next ==
    \/ Server \/ ContextEnds \/ ToolEvent
    \/ \E s \in Frames : Receive(s)
    \/ \E from \in Text \cup {N + 1} : Retry(from)
    \/ Done

Spec == Init /\ [][Next]_vars
FairSpec == Spec /\ WF_vars(Server)

-----------------------------------------------------------------------------
TypeOK ==
    /\ n \in 0..MaxCalls /\ doc \in 0..MaxCalls /\ sent \in 0..MaxCalls
    /\ ctx \in {"live", "late", "left"}
    /\ call \in [stage : Stages, from : 1..N + 1, said : 0..N, cur : Seq(Text),
                 final : BOOLEAN, revised : BOOLEAN]
    /\ uploads \in [Calls -> Uploads]
    /\ ask \in Asks /\ tools \in BOOLEAN
    /\ overlapped \in BOOLEAN
    /\ text \in Seq(Text) /\ pending \in Seq(Text) /\ held \in Seq(Text) /\ out \in Seq(Text)
    /\ rec \in [delivered : Seq(Text), buffer : Seq(Text), through : BOOLEAN]
    /\ end \in {"none", "stop", "tools", "error"}

(* The client gets no part of the answer twice and none out of order, over *)
(* all calls, stale snapshots and rewrites, unless a continuation started  *)
(* inside the delivered text.                                              *)
NothingTwice == ~overlapped => \A i, j \in DOMAIN out : i < j => out[i] < out[j]

(* When the stream ends with "stop" the client has the whole answer,       *)
(* whatever broke on the way.  Exceptions: the upstream rewrote it; the    *)
(* last of it came as deltas at the cursor, which emitSnapshot skips once  *)
(* there is text; the identity filter still holds its last sentence; or a  *)
(* continuation came as a message only, which is not looked at once there  *)
(* is text.                                                                *)
WholeAnswer ==
    end = "stop" =>
        \/ call.revised \/ Skipped
        \/ n > 1 /\ call.final
        \/ ToSet(out) \cup ToSet(held) = Text /\ (ask.policy \/ held = <<>>)

(* The stream ends, though the upstream may only send pings for ever.      *)
StreamEnds == n > 0 ~> end # "none"

(* What the client sees.                                                   *)
Promise == INSTANCE AnswerStream WITH Symbols <- Text, shown <- out, end <- end
ClientSees == Promise!Spec
=============================================================================
