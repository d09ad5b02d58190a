--------------------------- MODULE AccountRouting ---------------------------
(***************************************************************************)
(* Which account serves a request, and what its failures do to the pool:   *)
(* accountHealth and accountCooldown (internal/web/account_health.go,      *)
(* account_cooldown.go), resolveAccount and nextHealthyAccount, and the    *)
(* failover of the handlers that call them (internal/web/server.go,        *)
(* stream_recovery.go).                                                    *)
(*                                                                         *)
(* A request takes one of four paths: "once" is chatOnce, "answer" the     *)
(* non-streaming openaiChat, "recover" the streaming one                   *)
(* (streamChatWithRecovery), "plain" the handlers that make one call and   *)
(* never touch the pool (chatStream, images, adminModelTest).  A request   *)
(* with tools also asks the upstream to choose and to correct tool calls;  *)
(* what such a call says is a nondeterministic choice.  Cooldowns are the  *)
(* sets of accounts under one; their length is abstracted to the moment at *)
(* which they end.                                                         *)
(***************************************************************************)
EXTENDS Naturals, Sequences, FiniteSets

CONSTANTS
    Order,          \* the account ids, in the order of accounts.json
    Requests,       \* HTTP requests
    Inputs,         \* [path, chosen, conv, tools] a request can come with
    Faulty,         \* accounts whose upstream calls can fail ...
    Errors,         \* ... and the errors they can fail with
    Lapsed,         \* accounts whose token refresh can fail ...
    RefreshErrors,  \* ... and what IsRateLimited and isRetryableUpstream
                    \* make of the error: its text is all they look at
    MaxProbe,       \* maxAccountProbe
    MaxTries,       \* routerRetryAttempts()
    AccountLimit,   \* accountConcurrency.limit
    NoAccount       \* no account given or chosen

Accounts == {Order[i] : i \in 1..Len(Order)}
Rejections == {"throttled", "auth"}
Retryable == Rejections \cup {"closed"}
Outcomes == {"ok", "throttled", "auth", "closed", "empty", "other"}
Input == [path : {"once", "answer", "recover", "plain"},
          chosen : Accounts \cup {NoAccount},
          conv : Accounts \cup {NoAccount},
          tools : {"none", "native", "router"}]

ASSUME AccountsAssumption == Len(Order) \in Nat \ {0} /\ NoAccount \notin Accounts
ASSUME InputsAssumption == Inputs \subseteq Input /\ Inputs # {}
ASSUME ErrorsAssumption == Errors \subseteq Outcomes \ {"ok"}
ASSUME RefreshAssumption == RefreshErrors \subseteq {"throttled", "closed", "other"}
ASSUME LimitsAssumption ==
    MaxProbe \in Nat \ {0} /\ MaxTries \in Nat \ {0} /\ AccountLimit \in Nat \ {0}

VARIABLES
    nextIdx,    \* auth.Store.nextIdx
    cooling,    \* accounts with a running accountHealth.cooldown
    penalised,  \* accounts with a running accountCooldown (by their email)
    accused,    \* history: accounts that have answered 429/503 or 401/403
    req         \* the requests, see Request

vars == <<nextIdx, cooling, penalised, accused, req>>

(* stage: where the request is; cur: acc; alt: the failover account; conv: *)
(* the account that owns the conversation named in the request; purpose:   *)
(* what the call is for; tone: whether the "magic" fallback was used;      *)
(* probes, tries, fixes: loop counters and the number of correcting calls; *)
(* err, err2: outcomes of the calls made with acc and with the failover    *)
(* account; last: outcome of the latest call that is not correcting;       *)
(* astray: a call carried the conversation to an account that does not own *)
(* it.                                                                     *)
Stages ==
    {"idle", "pick", "recheck", "ensure", "send", "upstream", "judge", "repick",
     "reensure", "resend", "upstream2", "judge2", "giveup", "done"}
Purposes == {"route", "repair", "require", "answer", "correct"}
Replies == {"none", "ok", "error", "refused"}
ProbeCount == 0..MaxProbe + 1
TryCount == 1..MaxTries
FixCount == 0..4
Request ==
    [stage : Stages, input : Inputs, cur : Accounts \cup {NoAccount},
     alt : Accounts \cup {NoAccount}, purpose : Purposes,
     tone : {"asked", "magic"}, probes : ProbeCount, tries : TryCount,
     fixes : FixCount, calls : Nat, err : Outcomes, err2 : Outcomes,
     last : Outcomes, reply : Replies, astray : BOOLEAN]

Path(r) == req[r].input.path
Routing(r) == req[r].purpose = "route"
Tools(r) == req[r].input.tools
Unpinned(r) == req[r].input.chosen = NoAccount /\ req[r].input.conv = NoAccount

(* The account is chosen, and the conversation, if there is one, is its.   *)
AtHome(in) == in.chosen # NoAccount /\ in.conv \in {in.chosen, NoAccount}

Inflight(a) ==
    Cardinality({r \in Requests :
                    \/ req[r].stage = "upstream" /\ req[r].cur = a
                    \/ req[r].stage = "upstream2" /\ req[r].alt = a})

(* accountAvailable: healthy, below its limit and not penalised.           *)
Available(a) ==
    a \notin cooling /\ Inflight(a) < AccountLimit /\ a \notin penalised

(* Variant: any error cools the account down.                              *)
MarkFailureAlways(pool, a, e) == IF e # "ok" THEN pool \cup {a} ELSE pool

(* The pool after MarkFailure and after MarkSuccess.                       *)
MarkFailure(pool, a, e) == IF e \in Rejections THEN pool \cup {a} ELSE pool
MarkSuccess(pool, a) == pool \ {a}

Update(r, new) == req' = [req EXCEPT ![r] = new]

(* Correcting calls: for a denied tool, for a sandbox, a router call and   *)
(* its repair; a stream has one.                                           *)
Fixes(r) ==
    IF Tools(r) = "none" THEN 0
    ELSE IF Path(r) = "answer" THEN 4
    ELSE IF Path(r) = "recover" THEN 1 ELSE 0
Correcting(r) ==
    [req[r] EXCEPT !.purpose = "correct", !.stage = "send", !.fixes = @ + 1]

(* The request ends; its local variables are gone.                         *)
Answer(r, what) ==
    [req[r] EXCEPT !.stage = "done", !.reply = what, !.cur = NoAccount,
                   !.purpose = "answer", !.tone = "asked", !.probes = 0,
                   !.tries = 1, !.fixes = 0, !.err = "ok", !.err2 = "ok"]

Init ==
    /\ nextIdx = 0
    /\ cooling = {} /\ penalised = {} /\ accused = {}
    /\ req = [r \in Requests |->
          [stage |-> "idle", input |-> CHOOSE in \in Inputs : TRUE,
           cur |-> NoAccount, alt |-> NoAccount, purpose |-> "answer",
           tone |-> "asked", probes |-> 0, tries |-> 1, fixes |-> 0,
           calls |-> 0, err |-> "ok", err2 |-> "ok", last |-> "ok", reply |-> "none",
           astray |-> FALSE]]

-----------------------------------------------------------------------------
(* A request arrives; a session or binding may have set its account and    *)
(* conversation.                                                           *)
Accept(r) ==
    /\ req[r].stage = "idle"
    /\ \E in \in Inputs :
          Update(r, [req[r] EXCEPT
                        !.input = in, !.cur = in.chosen,
                        !.purpose = IF in.tools = "router" THEN "route" ELSE "answer",
                        !.stage = IF in.chosen = NoAccount THEN "pick" ELSE "ensure"])
    /\ UNCHANGED <<nextIdx, cooling, penalised, accused>>

NextAccount == Order[nextIdx + 1]
Advance == nextIdx' = (nextIdx + 1) % Len(Order)

(* resolveAccount's walk: the first account and up to MaxProbe more.       *)
Pick(r) ==
    LET probes == req[r].probes + 1 IN
    /\ req[r].stage = "pick"
    /\ Advance
    /\ Update(r, [req[r] EXCEPT
                     !.cur = NextAccount, !.probes = probes,
                     !.stage = IF Available(NextAccount) \/ probes > MaxProbe
                               THEN "recheck" ELSE "pick"])
    /\ UNCHANGED <<cooling, penalised, accused>>

(* Its last test, on whichever account the walk ended.                     *)
Recheck(r) ==
    /\ req[r].stage = "recheck"
    /\ Update(r, IF Available(req[r].cur)
                 THEN [req[r] EXCEPT !.stage = "ensure"]
                 ELSE Answer(r, "refused"))
    /\ UNCHANGED <<nextIdx, cooling, penalised, accused>>

(* EnsureValid; its error ends the request.                                *)
Ensure(r) ==
    /\ req[r].stage = "ensure"
    /\ \/ Update(r, [req[r] EXCEPT !.stage = "send"])
       \/ req[r].cur \in Lapsed /\ Update(r, Answer(r, "error"))
    /\ UNCHANGED <<nextIdx, cooling, penalised, accused>>

(* The call is admitted (ChatAdmission).  Only the first call for the      *)
(* answer carries the conversation.                                        *)
Send(r) ==
    LET carries == req[r].purpose = "answer" /\ req[r].tries = 1
                   /\ req[r].input.conv # NoAccount IN
    /\ req[r].stage = "send"
    /\ Inflight(req[r].cur) < AccountLimit
    /\ Update(r, [req[r] EXCEPT
                     !.stage = "upstream", !.calls = @ + 1,
                     !.astray = @ \/ (carries /\ req[r].cur # req[r].input.conv)])
    /\ UNCHANGED <<nextIdx, cooling, penalised, accused>>

(* The upstream's outcomes for an account, and recordUpstreamCooldown.     *)
UpstreamSays(a, e) ==
    /\ e = "ok" \/ (a \in Faulty /\ e \in Errors)
    /\ penalised' = IF e = "ok" THEN penalised \ {a}
                    ELSE IF e = "closed" THEN penalised \cup {a} ELSE penalised
    /\ accused' = IF e \in Rejections THEN accused \cup {a} ELSE accused
    /\ UNCHANGED <<nextIdx, cooling>>

(* A failed "magic" call leaves the empty completion's error in place.     *)
Respond(r) ==
    /\ req[r].stage = "upstream"
    /\ \E e \in Outcomes :
          /\ UpstreamSays(req[r].cur, e)
          /\ Update(r, [req[r] EXCEPT
                !.stage = "judge", !.last = IF req[r].purpose = "correct" THEN @ ELSE e,
                !.err = IF req[r].tone = "magic" /\ e # "ok" THEN "empty" ELSE e])

-----------------------------------------------------------------------------
(* The answer.  An answer that misses the tools the request declared is    *)
(* followed by correcting calls on the same account.                       *)
Succeed(r) ==
    /\ req[r].stage = "judge" /\ req[r].err = "ok" /\ req[r].purpose = "answer"
    /\ cooling' = IF Path(r) = "plain" THEN cooling ELSE MarkSuccess(cooling, req[r].cur)
    /\ \/ Update(r, Answer(r, "ok"))
       \/ Fixes(r) > 0 /\ Update(r, Correcting(r))
    /\ UNCHANGED <<nextIdx, penalised, accused>>

(* A correcting call succeeds or not; neither is charged to the account.   *)
(* Only a stream fails when its correction does.                           *)
Corrected(r) ==
    /\ req[r].stage = "judge" /\ req[r].purpose = "correct"
    /\ \/ req[r].fixes < Fixes(r) /\ Update(r, Correcting(r))
       \/ (Path(r) = "answer" \/ req[r].err = "ok") /\ Update(r, Answer(r, "ok"))
       \/ Path(r) = "recover" /\ Update(r, Answer(r, "error"))
    /\ UNCHANGED <<nextIdx, cooling, penalised, accused>>

(* What the router's text comes to: no tool is needed, or tool calls for   *)
(* the client, or (non-streaming) a required tool is still missing.        *)
Decide(r) ==
    \/ Update(r, [req[r] EXCEPT !.purpose = "answer", !.stage = "send"])
    \/ Update(r, Answer(r, "ok"))
    \/ Path(r) = "answer"
          /\ Update(r, [req[r] EXCEPT !.purpose = "require", !.stage = "send"])

(* The router's text is a decision, or is sent back for repair.            *)
Routed(r) ==
    /\ req[r].stage = "judge" /\ req[r].err = "ok" /\ Routing(r)
    /\ \/ Decide(r)
       \/ Update(r, [req[r] EXCEPT !.purpose = "repair", !.stage = "send"])
    /\ UNCHANGED <<nextIdx, cooling, penalised, accused>>

(* A repair that fails ends a non-streaming request; a stream answers with *)
(* text.                                                                   *)
Repaired(r) ==
    /\ req[r].stage = "judge" /\ req[r].purpose = "repair"
    /\ \/ req[r].err = "ok" /\ Decide(r)
       \/ Update(r, IF Path(r) = "answer" THEN Answer(r, "error")
                    ELSE [req[r] EXCEPT !.purpose = "answer", !.stage = "send"])
    /\ UNCHANGED <<nextIdx, cooling, penalised, accused>>

(* The constrained retry for a required tool.                              *)
Required(r) ==
    /\ req[r].stage = "judge" /\ req[r].purpose = "require"
    /\ \/ req[r].err = "ok" /\ Update(r, Answer(r, "ok"))
       \/ Update(r, Answer(r, "error"))
    /\ UNCHANGED <<nextIdx, cooling, penalised, accused>>

(* IsEmptyCompletion: once more with the tone "magic".                     *)
FallBack(r) ==
    /\ req[r].stage = "judge" /\ req[r].err = "empty"
    /\ Path(r) = "answer" /\ req[r].purpose = "answer" /\ req[r].tone = "asked"
    /\ Update(r, [req[r] EXCEPT !.tone = "magic", !.stage = "send"])
    /\ UNCHANGED <<nextIdx, cooling, penalised, accused>>

(* Variant: an explicit account does not keep a request from failing over. *)
MayFailOverPinned(r) ==
    /\ req[r].err \in Rejections
    /\ \/ Routing(r) /\ Path(r) = "answer"
       \/ req[r].purpose = "answer" /\ Path(r) \in {"once", "answer"}

(* chatOnce and the answer call fail over unless pinned, the non-streaming *)
(* router always.                                                          *)
MayFailOver(r) ==
    /\ req[r].err \in Rejections
    /\ \/ Routing(r) /\ Path(r) = "answer"
       \/ req[r].purpose = "answer" /\ Path(r) \in {"once", "answer"} /\ Unpinned(r)

(* Variant: attempts are not counted.                                      *)
MayRetryForever(r) ==
    Path(r) = "recover" /\ req[r].purpose = "answer" /\ req[r].err \in Retryable

(* retryUpstream: another attempt of the stream.                           *)
MayRetry(r) ==
    /\ Path(r) = "recover" /\ req[r].purpose = "answer"
    /\ req[r].err \in Retryable /\ req[r].tries < MaxTries

FailOver(r) ==
    /\ req[r].stage = "judge" /\ MayFailOver(r)
    /\ cooling' = IF Routing(r) THEN MarkFailure(cooling, req[r].cur, req[r].err)
                                ELSE cooling
    /\ Update(r, [req[r] EXCEPT !.stage = "repick", !.probes = 0])
    /\ UNCHANGED <<nextIdx, penalised, accused>>

Retry(r) ==
    /\ req[r].stage = "judge" /\ MayRetry(r)
    /\ Update(r, [req[r] EXCEPT !.stage = "repick", !.probes = 0,
                                !.tries = IF @ < MaxTries THEN @ + 1 ELSE @])
    /\ UNCHANGED <<nextIdx, cooling, penalised, accused>>

(* Any other error ends the request and is charged to its account, but not *)
(* that of a stream's router.                                              *)
Fail(r) ==
    /\ req[r].stage = "judge" /\ req[r].err # "ok"
    /\ req[r].purpose \in {"route", "answer"}
    /\ ~MayFailOver(r) /\ ~MayRetry(r)
    /\ ~(/\ Path(r) = "answer" /\ req[r].purpose = "answer"
         /\ req[r].err = "empty" /\ req[r].tone = "asked")
    /\ cooling' = IF Path(r) = "plain" \/ (Routing(r) /\ Path(r) = "recover") THEN cooling
                  ELSE MarkFailure(cooling, req[r].cur, req[r].err)
    /\ Update(r, Answer(r, "error"))
    /\ UNCHANGED <<nextIdx, penalised, accused>>

(* Variant: accounts that are passed over are not counted.                 *)
RepickForever(r) ==
    LET usable == NextAccount # req[r].cur /\ Available(NextAccount) IN
    /\ req[r].stage = "repick"
    /\ Advance
    /\ Update(r, [req[r] EXCEPT
                     !.alt = IF usable THEN NextAccount ELSE @,
                     !.stage = IF usable THEN "reensure" ELSE "repick"])
    /\ UNCHANGED <<cooling, penalised, accused>>

(* nextHealthyAccount: MaxProbe accounts, the failed one and the           *)
(* unavailable ones are passed over.                                       *)
Repick(r) ==
    LET probes == req[r].probes + 1
        usable == NextAccount # req[r].cur /\ Available(NextAccount) IN
    /\ req[r].stage = "repick"
    /\ Advance
    /\ Update(r, [req[r] EXCEPT
                     !.probes = probes,
                     !.alt = IF usable THEN NextAccount ELSE @,
                     !.err = IF ~usable /\ probes >= MaxProbe /\ Path(r) = "recover"
                             THEN "other" ELSE @,
                     !.stage = IF usable THEN "reensure"
                               ELSE IF probes >= MaxProbe THEN "giveup"
                               ELSE "repick"])
    /\ UNCHANGED <<cooling, penalised, accused>>

(* EnsureValid of the replacement.  Its error is an outcome of the attempt *)
(* for retryUpstream and drops the replacement on the other paths.         *)
Reensure(r) ==
    /\ req[r].stage = "reensure"
    /\ \/ Update(r, [req[r] EXCEPT !.stage = "resend"])
       \/ /\ req[r].alt \in Lapsed
          /\ \E e \in RefreshErrors :
                Update(r, IF Path(r) # "recover" THEN [req[r] EXCEPT !.stage = "giveup"]
                          ELSE IF e \in Retryable /\ req[r].tries < MaxTries
                          THEN [req[r] EXCEPT !.stage = "repick", !.probes = 0,
                                              !.tries = @ + 1, !.err = e]
                          ELSE [req[r] EXCEPT !.stage = "giveup", !.err = e])
    /\ UNCHANGED <<nextIdx, cooling, penalised, accused>>

(* No replacement.  The router has charged the account already; a stream   *)
(* charges the account of its last call with nextHealthyAccount's error.   *)
GiveUp(r) ==
    /\ req[r].stage = "giveup"
    /\ cooling' = IF Routing(r) THEN cooling
                  ELSE MarkFailure(cooling, req[r].cur, req[r].err)
    /\ Update(r, Answer(r, "error"))
    /\ UNCHANGED <<nextIdx, penalised, accused>>

(* A recovered stream goes on with the replacement as its account.         *)
Resend(r) ==
    /\ req[r].stage = "resend"
    /\ Inflight(req[r].alt) < AccountLimit
    /\ Update(r, IF Path(r) = "recover"
                 THEN [req[r] EXCEPT !.cur = req[r].alt, !.stage = "upstream",
                                     !.calls = @ + 1]
                 ELSE [req[r] EXCEPT !.stage = "upstream2", !.calls = @ + 1])
    /\ UNCHANGED <<nextIdx, cooling, penalised, accused>>

Respond2(r) ==
    /\ req[r].stage = "upstream2"
    /\ \E e \in Outcomes :
          /\ UpstreamSays(req[r].alt, e)
          /\ Update(r, [req[r] EXCEPT !.stage = "judge2", !.last = e, !.err2 = e])

(* The router's failover.                                                  *)
Rerouted(r) ==
    LET alt == req[r].alt  e == req[r].err2 IN
    /\ req[r].stage = "judge2" /\ Routing(r)
    /\ IF e = "ok"
       THEN /\ cooling' = MarkSuccess(cooling, alt)
            /\ Update(r, [req[r] EXCEPT !.cur = alt, !.err = "ok", !.stage = "judge"])
       ELSE /\ cooling' = MarkFailure(cooling, alt, e)
            /\ Update(r, Answer(r, "error"))
    /\ UNCHANGED <<nextIdx, penalised, accused>>

(* The answer's failover: the second error is charged to the first account.*)
Reanswered(r) ==
    LET e == req[r].err2 IN
    /\ req[r].stage = "judge2" /\ ~Routing(r) /\ Path(r) = "answer"
    /\ IF e = "ok"
       THEN /\ cooling' = MarkSuccess(cooling, req[r].alt)
            /\ Update(r, [req[r] EXCEPT !.cur = req[r].alt, !.err = "ok", !.stage = "judge"])
       ELSE /\ cooling' = MarkFailure(cooling, req[r].cur, e)
            /\ Update(r, Answer(r, "error"))
    /\ UNCHANGED <<nextIdx, penalised, accused>>

(* chatOnce's failover: the accounts are marked, and in either case control*)
(* falls out of the failover block into writeUpstreamError.                *)
ReansweredOnce(r) ==
    LET e == req[r].err2 IN
    /\ req[r].stage = "judge2" /\ Path(r) = "once"
    /\ cooling' = IF e = "ok"
                  THEN MarkSuccess(MarkFailure(cooling, req[r].cur, req[r].err), req[r].alt)
                  ELSE MarkFailure(cooling, req[r].cur, e)
    /\ Update(r, Answer(r, "error"))
    /\ UNCHANGED <<nextIdx, penalised, accused>>

(* Time passes for a cooldown.                                             *)
Recover(a) ==
    /\ \/ a \in cooling /\ cooling' = cooling \ {a} /\ UNCHANGED penalised
       \/ a \in penalised /\ penalised' = penalised \ {a} /\ UNCHANGED cooling
    /\ UNCHANGED <<nextIdx, accused, req>>

Progress(r) ==
    \/ Pick(r) \/ Recheck(r) \/ Ensure(r) \/ Send(r) \/ Respond(r)
    \/ Succeed(r) \/ Corrected(r) \/ Routed(r) \/ Repaired(r) \/ Required(r)
    \/ FallBack(r) \/ FailOver(r) \/ Retry(r) \/ Fail(r)
    \/ Repick(r) \/ Reensure(r) \/ GiveUp(r) \/ Resend(r) \/ Respond2(r)
    \/ Rerouted(r) \/ Reanswered(r) \/ ReansweredOnce(r)

Next ==
    \/ \E r \in Requests : Accept(r) \/ Progress(r)
    \/ \E a \in Accounts : Recover(a)

(* Handlers run, and every upstream call ends (its context has a timeout). *)
(* A call waiting for a slot of a busy account gets one in the end:        *)
(* ChatAdmission's EveryCallEnds.                                          *)
Fairness ==
    \A r \in Requests :
        WF_vars(Progress(r)) /\ SF_vars(Send(r)) /\ SF_vars(Resend(r))

Spec == Init /\ [][Next]_vars
FairSpec == Spec /\ Fairness

-----------------------------------------------------------------------------
(* Every variable keeps its type and range.                                *)
TypeOK ==
    /\ nextIdx \in 0..Len(Order) - 1
    /\ cooling \subseteq Accounts
    /\ penalised \subseteq Accounts
    /\ accused \subseteq Accounts
    /\ req \in [Requests -> Request]

Done(r) == req[r].stage = "done"

(* No account is taken out of the rotation for somebody else's failure or  *)
(* for an error that is not its own fault: it has itself answered with a   *)
(* rejection, although several paths charge one account with the outcome   *)
(* of another's call.                                                      *)
NoInnocentCooling == cooling \subseteq accused

(* An explicitly chosen account is respected, and a conversation-bound     *)
(* chat stays on its account, whatever the account answers (unless the     *)
(* tool router or a stream's recovery moves it); and if the chosen account *)
(* owns the conversation, no call carries it to another one, in a          *)
(* recovered stream neither (unless the tool router's failover does).  A   *)
(* request may choose one account and name another's conversation; the     *)
(* code does not compare them, and the chosen account gets it.             *)
PinnedStays ==
    \A r \in Requests :
        /\ Path(r) \in {"once", "answer", "plain"} /\ Tools(r) # "router"
              /\ ~Unpinned(r) => req[r].alt = NoAccount
        /\ AtHome(req[r].input) /\ Tools(r) # "router" => ~req[r].astray

(* A request costs a bounded number of upstream calls on every path, with  *)
(* fallback, failover, router, retries and corrections together.           *)
Budget(r) ==
    Fixes(r) +
    (IF Path(r) = "plain" THEN 1
     ELSE IF Path(r) = "recover" THEN MaxTries + (IF Tools(r) = "router" THEN 2 ELSE 0)
     ELSE IF Tools(r) = "router" THEN 5 ELSE 2)
CallsBounded == \A r \in Requests : req[r].calls <= Budget(r)

(* Every request is answered, whatever fails and however accounts are      *)
(* picked.                                                                 *)
EveryRequestAnswered == \A r \in Requests : req[r].stage # "idle" ~> Done(r)
=============================================================================
