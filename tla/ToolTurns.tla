------------------------------ MODULE ToolTurns ------------------------------
(***************************************************************************)
(* One conversation with tools: a client that runs the tools and keeps the *)
(* messages, and the stateless gateway that turns each request into tool   *)
(* calls or a text (openaiChat of internal/web/server.go, the parts of it  *)
(* that deal with tools).                                                  *)
(*                                                                         *)
(* What the upstream model writes is any member of RouterTexts or Answers. *)
(* Accounts and failover are in AccountRouting, the delivery of a streamed *)
(* text in StreamedAnswer.  The corrections after a tool refusal and after *)
(* a sandbox hallucination are one step here.                              *)
(***************************************************************************)
EXTENDS AgentLedger

CONSTANTS
    Plannings,   \* the values of ToolPlanningMode a request may find
    ToolChoices, \* the values of tool_choice the client sends
    RouterTexts, \* replies to a routing prompt
    Answers,     \* replies to the answer prompt
    Budget,      \* context budget, in messages
    MaxRounds,   \* maxToolRounds
    PerTurn,     \* MaxToolCallsPerTurn
    Changing,    \* the tools that change the workspace when they succeed
    ToolResults, \* what a tool may return
    MaxTurns,    \* bound: user messages of the conversation
    MaxCalls     \* bound: calls after which the client asks no more

RouterText ==
    [directives : Seq(Candidate), enveloped : BOOLEAN, envelope : Seq(Candidate),
     noTool : BOOLEAN, err : BOOLEAN]
ModelAnswer ==
    [err : BOOLEAN, fenced : Seq(Candidate), native : Seq(Candidate), refuses : BOOLEAN,
     says : {"plain", "claim", "hedge"}]
ASSUME TurnsAssumption ==
    /\ RouterTexts \subseteq RouterText /\ Answers \subseteq ModelAnswer
    /\ PerTurn \in Nat /\ Changing \subseteq Names

VARIABLES
    messages,   \* the conversation as the client holds it
    window,     \* the messages of the request in progress
    request,    \* stage and options of the request
    held,       \* the answer kept while another model call is made
    reply,      \* what the last request was answered with, unless tool calls
    dropped,    \* calls filterCompletedCalls dropped in this request
    outdated    \* history: observations whose last result a change has overtaken
turnVars == <<messages, window, request, held, reply, dropped, outdated>>

GatewayStages == {"received", "route", "repair", "constrain", "answer", "streamRepair", "eject",
                  "recover", "recoverRepair"}
TurnStages == GatewayStages \cup {"idle", "tools"}
NoAnswer == [err |-> TRUE, fenced |-> <<>>, native |-> <<>>, refuses |-> FALSE, says |-> "plain"]
Failures == {"none", "400", "409", "502", "invalid"}

User == [role |-> "user", calls |-> <<>>, id |-> 0, result |-> "empty"]
Said(calls) == [role |-> "assistant", calls |-> calls, id |-> 0, result |-> "empty"]
Returned(c, result) == [role |-> "tool", calls |-> <<>>, id |-> c.id, result |-> result]
Turns(ms) == Len(SelectSeq(ms, LAMBDA m : m.role = "user"))
Plain(c) == [name |-> c.name, args |-> c.args]

TurnsInit ==
    /\ messages = <<>> /\ window = <<>> /\ held = NoAnswer /\ reply = "none"
    /\ request = [stage |-> "idle", stream |-> FALSE, choice |-> "auto", planning |-> "router"]
    /\ dropped = {} /\ outdated = {}

At(stage) == request.stage = stage
Goto(stage) == request' = [request EXCEPT !.stage = stage]
Ledgered == Ledger(window)

-----------------------------------------------------------------------------
(* The client.  It posts the conversation with a new question, or as it is *)
(* after tool results or a failure, or having lost the last tool result.   *)
Post(stream, choice, planning) ==
    /\ At("idle") /\ Len(Made(messages)) < MaxCalls
    /\ \/ /\ Turns(messages) < MaxTurns
          /\ messages' = Append(messages, User) /\ window' = messages'
       \/ /\ messages # <<>> /\ Last(messages).role \in {"tool", "user"}
          /\ window' = messages /\ UNCHANGED messages
       \/ /\ messages # <<>> /\ Last(messages).role = "tool"
          /\ window' = Front(messages) /\ UNCHANGED messages
    /\ request' = [stage |-> "received", stream |-> stream, choice |-> choice,
                   planning |-> planning]
    /\ reply' = "none" /\ dropped' = {}
    /\ UNCHANGED <<held, outdated>>

RunTools(result) ==
    LET calls == Last(messages).calls
        wrote == \E i \in DOMAIN calls : calls[i].name \in Changing /\ result[i] # "failed"
        seen == {Plain(calls[i]) : i \in {j \in DOMAIN calls : result[j] # "empty"}}
        observations == {Plain(c) : c \in {d \in ToSet(Made(messages)) : Observational(d.name)}}
    IN /\ At("tools") /\ DOMAIN result = DOMAIN calls
       /\ messages' = messages \o [i \in DOMAIN calls |-> Returned(calls[i], result[i])]
       /\ outdated' = IF wrote THEN observations ELSE outdated \ seen
       /\ dropped' = {} /\ Goto("idle")
       /\ UNCHANGED <<window, held, reply>>

-----------------------------------------------------------------------------
(* The three ways a request ends.                                          *)
Finish(r) == /\ reply' = r /\ window' = <<>> /\ held' = NoAnswer /\ Goto("idle")
             /\ UNCHANGED <<messages, outdated>>
Fail(r) == Finish(r) /\ UNCHANGED dropped
(* The finished text; only an answer that is not streamed is checked       *)
(* against the evidence.                                                   *)
Tell(says) ==
    /\ reply' = IF request.stream \/ EvidenceAllows(says, Ledgered) THEN says ELSE "unconfirmed"
    /\ messages' = Append(messages, Said(<<>>))
    /\ window' = <<>> /\ held' = NoAnswer /\ Goto("idle") /\ UNCHANGED <<outdated, dropped>>
(* writeToolResponse: the calls within the limit, each with a fresh id.    *)
Give(calls) ==
    LET given == LimitCalls(calls, PerTurn)
        n == Len(Made(messages))
    IN /\ messages' = Append(messages, Said([i \in DOMAIN given |->
                          [id |-> n + i, name |-> given[i].name, args |-> given[i].args]]))
       /\ window' = <<>> /\ held' = NoAnswer /\ Goto("tools") /\ UNCHANGED <<reply, outdated>>

Await(stage) == Goto(stage) /\ UNCHANGED <<messages, window, held, reply, outdated>>

(* From the parsed body to the first model call: the protocol check, the   *)
(* trimming, and the limits on the turn that is being worked on.           *)
Receive ==
    /\ At("received")
    /\ LET kept == Trimmed(window, Budget)
       IN IF ~ValidConversation(window) \/ kept = <<>> THEN Fail("400")
          ELSE IF ~CanContinue(Ledger(ActiveMessages(kept)), MaxRounds) THEN Fail("409")
          ELSE /\ window' = kept
               /\ Goto(IF request.planning = "router" /\ request.choice # "none"
                       THEN "route" ELSE "answer")
               /\ UNCHANGED <<messages, held, reply, dropped, outdated>>

-----------------------------------------------------------------------------
(* Which calls of a routing decision are new.                              *)
Evidence == Ledgered
NewCalls(d) == FilterCompleted(d.calls, Evidence)
NoteDropped(d) ==
    dropped' = dropped \cup {Plain(c) : c \in ToSet(d.calls) \ ToSet(NewCalls(d))}

(* A parsed decision, in the router's request.                             *)
Decided(d) ==
    LET calls == ValidateCalls(NewCalls(d), request.choice)
    IN IF calls # <<>> THEN Give(calls)
       ELSE Await(IF request.choice = "required" /\ ~request.stream THEN "constrain" ELSE "answer")

Route(text) ==
    LET d == Decision(text, request.choice)
    IN /\ At("route")
       /\ IF text.err THEN Fail("502")
          ELSE /\ NoteDropped(d)
               /\ IF d.parsed THEN Decided(d) ELSE Await("repair")

(* One repair.  Without a decision a streamed request goes on to the       *)
(* answer, another fails.                                                  *)
Repair(text) ==
    LET d == Decision(text, request.choice)
    IN /\ At("repair")
       /\ IF ~text.err /\ d.parsed THEN NoteDropped(d) /\ Decided(d)
          ELSE IF request.stream THEN Await("answer") /\ UNCHANGED dropped
          ELSE Fail("502")

(* The constrained retry when a call is required.                          *)
Constrain(text) ==
    LET d == Decision(text, request.choice)
        calls == ValidateCalls(NewCalls(d), request.choice)
    IN /\ At("constrain")
       /\ IF text.err THEN Fail("502")
          ELSE /\ NoteDropped(d)
               /\ IF calls # <<>> THEN Give(calls) ELSE Finish("502")

-----------------------------------------------------------------------------
(* The calls found in an answer that is not streamed, then its text.       *)
Detected(a) ==
    LET fenced == FencedCalls(a.fenced, request.choice)
        native == NativeCalls(a.native)
        given == IF ValidateCalls(fenced, request.choice) # <<>>
                 THEN ValidateCalls(fenced, request.choice)
                 ELSE ValidateCalls(native, request.choice)
        rejected == fenced # <<>> \/ native # <<>>
    IN IF given # <<>> THEN Give(given) /\ UNCHANGED dropped
       ELSE IF (request.planning = "native" \/ rejected) /\ request.choice # "none"
            THEN /\ Goto("recover") /\ held' = a
                 /\ UNCHANGED <<messages, window, reply, dropped, outdated>>
            ELSE Tell(a.says)

Answer(a) ==
    /\ At("answer") /\ ~request.stream
    /\ IF a.err THEN Fail("502")
       ELSE IF a.refuses THEN /\ Goto("eject") /\ held' = a
                              /\ UNCHANGED <<messages, window, reply, dropped, outdated>>
       ELSE Detected(a)

(* The retry after an answer that denies the tools; it counts only if it   *)
(* does not deny them again.                                               *)
Eject(a) == At("eject") /\ Detected(IF a.err \/ a.refuses THEN held ELSE a)

(* A streamed answer: the events name tools unchecked; when every call is  *)
(* rejected, one repair.                                                   *)
StreamAnswer(a) ==
    LET raw == IF a.native # <<>> THEN a.native ELSE FencedCalls(a.fenced, request.choice)
        calls == ValidateCalls(raw, request.choice)
    IN /\ At("answer") /\ request.stream
       /\ IF a.err THEN Fail("502")
          ELSE IF calls # <<>> THEN Give(calls) /\ UNCHANGED dropped
          ELSE IF raw # <<>> THEN Await("streamRepair") /\ UNCHANGED dropped
          ELSE Tell(a.says)

StreamRepair(text) ==
    LET d == Decision(text, request.choice)
    IN /\ At("streamRepair")
       /\ IF text.err \/ d.calls = <<>> THEN Fail("invalid") ELSE Give(d.calls) /\ UNCHANGED dropped

(* The recovery of a call from a text that should have been one.           *)
Recover(text) ==
    LET d == Decision(text, request.choice)
    IN /\ At("recover")
       /\ IF text.err THEN Tell(held.says)
          ELSE IF ~d.parsed THEN Await("recoverRepair") /\ UNCHANGED dropped
          ELSE IF d.calls # <<>> THEN Give(d.calls) /\ UNCHANGED dropped
          ELSE Tell(held.says)
RecoverRepair(text) ==
    LET d == Decision(text, request.choice)
    IN /\ At("recoverRepair")
       /\ IF ~text.err /\ d.calls # <<>> THEN Give(d.calls) /\ UNCHANGED dropped
          ELSE Tell(held.says)

-----------------------------------------------------------------------------
ModelRoutes(text) == \/ Route(text) \/ Repair(text) \/ Constrain(text)
                     \/ StreamRepair(text) \/ Recover(text) \/ RecoverRepair(text)
ModelAnswers(a) == Answer(a) \/ Eject(a) \/ StreamAnswer(a)
Gateway ==
    \/ Receive
    \/ \E text \in RouterTexts : ModelRoutes(text)
    \/ \E a \in Answers : ModelAnswers(a)
Client ==
    \/ \E stream \in BOOLEAN, choice \in ToolChoices, planning \in Plannings :
           Post(stream, choice, planning)
    \/ \E n \in 1..PerTurn : \E result \in [1..n -> ToolResults] : RunTools(result)
TurnsNext == Gateway \/ Client

TurnsSpec == TurnsInit /\ [][TurnsNext]_turnVars

-----------------------------------------------------------------------------
Call == [id : Nat, name : Names, args : Arguments]
ChatMessage ==
    [role : {"user", "assistant", "tool"}, calls : Seq(Call), id : Nat,
     result : ToolResults \cup {"empty"}]
TurnTypes ==
    /\ messages \in Seq(ChatMessage) /\ window \in Seq(ChatMessage)
    /\ request \in [stage : TurnStages, stream : BOOLEAN, choice : ToolChoices \cup {"auto"},
                    planning : Plannings \cup {"router"}]
    /\ held \in ModelAnswer

(* No call the gateway drops as already answered observes something that   *)
(* has changed since it was answered: a verification may always be         *)
(* repeated after a write, in this turn or in an earlier one               *)
(* (agent_ledger.go:257-258, filterCompletedCalls).                        *)
NoStaleVerdict == dropped \cap outdated = {}

(* A call that changes the workspace is never given out together with      *)
(* another call, whose result it might affect (settings.go:250-252).       *)
ChangesAreSerial ==
    \A m \in ToSet(messages) :
        (\E c \in ToSet(m.calls) : c.name \in Changing) => Len(m.calls) = 1
=============================================================================
