------------------------ MODULE AccountRoutingProofs ------------------------
(***************************************************************************)
(* For every pool, every set of requests and every limit: the type         *)
(* invariant of AccountRouting and, when the text of a token endpoint's    *)
(* error never reads as a rate limit, NoInnocentCooling.                   *)
(*                                                                         *)
(* NoInnocentCooling is not inductive: MarkFailure is called with an error *)
(* a request has carried through several steps, and often not with the     *)
(* account that made it.  Good says what a request carries: the account it *)
(* is about to charge has answered with a rejection if the error it is     *)
(* charged with is one.                                                    *)
(*                                                                         *)
(* PinnedStays and CallsBounded rest on a second invariant of a request by *)
(* itself, Behaved: which stages a request that must not move can be in    *)
(* (Kept), and how much of its budget is spent at each stage (Costed).     *)
(***************************************************************************)
EXTENDS AccountRouting, TLAPS

(* No error of the token endpoint reads as a rate limit.                   *)
CleanRefresh == "throttled" \notin RefreshErrors

Judging ==
    {"judge", "repick", "reensure", "giveup", "resend", "upstream2", "judge2"}
Replacing == {"reensure", "resend", "upstream2", "judge2"}

Counted(q) ==
    /\ q.stage = "idle" => q.probes = 0 /\ q.fixes = 0
    /\ q.stage = "pick" => q.probes <= MaxProbe
    /\ q.stage = "repick" => q.probes < MaxProbe
    /\ q.purpose # "correct" => q.fixes = 0

Placed(q) ==
    /\ q.stage \notin {"idle", "pick", "done"} => q.cur \in Accounts
    /\ q.stage \in Replacing => q.alt \in Accounts

Charging(q, guilty) ==
    /\ CleanRefresh /\ q.stage \in Judging /\ q.err \in Rejections => q.cur \in guilty
    /\ CleanRefresh /\ q.stage = "judge2" /\ q.err2 \in Rejections => q.alt \in guilty
    /\ q.stage \in {"repick", "reensure", "resend", "upstream2", "judge2"}
         /\ q.input.path # "recover" => q.err \in Rejections
    /\ q.stage \in {"upstream2", "judge2"} => q.input.path # "recover"

Good(q, guilty) ==
    q \in Request /\ Counted(q) /\ Placed(q) /\ Charging(q, guilty)

IInv ==
    /\ TypeOK
    /\ CleanRefresh => NoInnocentCooling
    /\ \A r \in Requests : Good(req[r], accused)

(* What a request carries stays true when others are accused as well.      *)
LEMMA GoodGrows ==
    ASSUME NEW q, NEW S, NEW T, S \subseteq T, Good(q, S)
    PROVE  Good(q, T)
BY DEF Good, Charging

(* An action gives one request a new state and may accuse accounts.        *)
LEMMA OneRequestChanges ==
    ASSUME IInv, NEW r \in Requests, NEW new,
           Update(r, new), Good(new, accused'), accused \subseteq accused'
    PROVE  req' \in [Requests -> Request] /\ \A s \in Requests : Good(req'[s], accused')
<1>1. req' = [req EXCEPT ![r] = new] /\ req \in [Requests -> Request]
  BY DEF Update, IInv, TypeOK
<1>2. new \in Request
  BY DEF Good
<1>3. \A s \in Requests : req'[s] = IF s = r THEN new ELSE req[s]
  BY <1>1
<1>4. \A s \in Requests : Good(req'[s], accused')
  BY <1>3, GoodGrows DEF IInv
<1> QED
  BY <1>1, <1>2, <1>4

(* The round-robin stays within the list of accounts.                      *)
LEMMA NextAccountExists ==
    ASSUME TypeOK
    PROVE  NextAccount \in Accounts /\ (Advance => nextIdx' \in 0..Len(Order) - 1)
<1>1. nextIdx + 1 \in 1..Len(Order)
  BY AccountsAssumption DEF TypeOK
<1>2. NextAccount \in Accounts
  BY <1>1 DEF NextAccount, Accounts
<1>3. (nextIdx + 1) % Len(Order) \in 0..Len(Order) - 1
  BY <1>1, AccountsAssumption
<1> QED
  BY <1>2, <1>3 DEF Advance

(* The pool after a step that takes it over, and the step's whole effect.  *)
Frame ==
    /\ accused \subseteq accused' /\ accused' \subseteq Accounts
    /\ cooling' \subseteq Accounts /\ penalised' \subseteq Accounts
    /\ CleanRefresh => cooling' \subseteq accused'
    /\ nextIdx' \in 0..Len(Order) - 1

LEMMA RequestStep ==
    ASSUME IInv, NEW r \in Requests, NEW new,
           Update(r, new), Good(new, accused'), Frame
    PROVE  IInv'
<1>1. req' \in [Requests -> Request] /\ \A s \in Requests : Good(req'[s], accused')
  BY OneRequestChanges DEF Frame
<1>2. TypeOK' /\ (CleanRefresh => NoInnocentCooling')
  BY <1>1 DEF Frame, TypeOK, NoInnocentCooling
<1> QED
  BY <1>1, <1>2 DEF IInv

(* The values the code assigns have the types of the fields.               *)
LEMMA FieldTypes ==
    /\ 0 \in ProbeCount /\ 1 \in TryCount /\ 0 \in FixCount
    /\ {"ok", "empty", "other"} \subseteq Outcomes
    /\ RefreshErrors \subseteq Outcomes
BY LimitsAssumption, RefreshAssumption
DEF ProbeCount, TryCount, FixCount, Outcomes

(* A request that ends carries nothing.                                    *)
LEMMA AnswerIsGood ==
    ASSUME NEW r \in Requests, req[r] \in Request, NEW what \in Replies, NEW S
    PROVE  Good(Answer(r, what), S)
<1>1. "done" \in Stages /\ "answer" \in Purposes
  BY DEF Stages, Purposes
<1>2. Answer(r, what) \in Request
  BY <1>1, FieldTypes DEF Answer, Request
<1>3. /\ Answer(r, what).stage = "done" /\ Answer(r, what).purpose = "answer"
      /\ Answer(r, what).fixes = 0
  BY DEF Answer, Request
<1> QED
  BY <1>2, <1>3 DEF Good, Counted, Placed, Charging, Judging, Replacing

(* The state of a request that goes on.                                    *)
LEMMA Going ==
    ASSUME IInv, NEW r \in Requests
    PROVE  req[r] \in Request /\ Counted(req[r]) /\ Placed(req[r]) /\ Charging(req[r], accused)
BY DEF IInv, Good

(* A step of one request that leaves the pool alone.                       *)
Quiet(r, new) ==
    Update(r, new) /\ Good(new, accused)

LEMMA QuietKeeps ==
    ASSUME IInv, NEW r \in Requests, NEW new, Quiet(r, new),
           UNCHANGED <<nextIdx, cooling, penalised, accused>>
    PROVE  IInv'
<1>1. Frame
  BY DEF Frame, IInv, TypeOK, NoInnocentCooling
<1>2. Good(new, accused')
  BY DEF Quiet
<1> QED
  BY <1>1, <1>2, RequestStep DEF Quiet

LEMMA AcceptKeeps ==
    ASSUME IInv, NEW r \in Requests, Accept(r) PROVE IInv'
<1>1. PICK in \in Inputs :
         Update(r, [req[r] EXCEPT
                      !.input = in, !.cur = in.chosen,
                      !.purpose = IF in.tools = "router" THEN "route" ELSE "answer",
                      !.stage = IF in.chosen = NoAccount THEN "pick" ELSE "ensure"])
  BY DEF Accept
<1> DEFINE new == [req[r] EXCEPT
                      !.input = in, !.cur = in.chosen,
                      !.purpose = IF in.tools = "router" THEN "route" ELSE "answer",
                      !.stage = IF in.chosen = NoAccount THEN "pick" ELSE "ensure"]
<1>2. req[r] \in Request /\ req[r].stage = "idle" /\ Counted(req[r])
  BY Going DEF Accept
<1>3. in.chosen \in Accounts \cup {NoAccount}
  BY InputsAssumption DEF Input
<1>4. new \in Request
  BY <1>2, <1>3 DEF Request, Stages, Purposes
<1>5. Counted(new)
  BY <1>2, LimitsAssumption DEF Counted, Request
<1>6. Placed(new) /\ Charging(new, accused)
  BY <1>2, <1>3 DEF Placed, Charging, Judging, Replacing, Request
<1> QED
  BY <1>1, <1>4, <1>5, <1>6, QuietKeeps DEF Quiet, Good, Accept

(* The first account is tested and its token refreshed.                    *)
LEMMA EnsureKeeps ==
    ASSUME IInv, NEW r \in Requests, Recheck(r) \/ Ensure(r) PROVE IInv'
<1>1. /\ req[r] \in Request /\ req[r].stage \in {"recheck", "ensure"}
      /\ Counted(req[r]) /\ Placed(req[r])
  BY Going DEF Recheck, Ensure
<1>2. ASSUME NEW s \in {"ensure", "send"}, Update(r, [req[r] EXCEPT !.stage = s])
      PROVE  \E new : Quiet(r, new)
  <2>1. [req[r] EXCEPT !.stage = s] \in Request
    BY <1>1 DEF Request, Stages
  <2>2. Good([req[r] EXCEPT !.stage = s], accused)
    BY <1>1, <2>1 DEF Good, Counted, Placed, Charging, Judging, Replacing, Request
  <2> QED
    BY <1>2, <2>2 DEF Quiet
<1>3. ASSUME NEW w \in {"refused", "error"}, Update(r, Answer(r, w))
      PROVE  \E new : Quiet(r, new)
  BY <1>1, <1>3, AnswerIsGood DEF Quiet, Replies
<1>4. \E new : Quiet(r, new)
  BY <1>2, <1>3 DEF Recheck, Ensure
<1> QED
  BY <1>4, QuietKeeps DEF Recheck, Ensure

(* The tool calls around the answer leave the pool alone.                  *)
LEMMA SideCallsKeep ==
    ASSUME IInv, NEW r \in Requests,
           Routed(r) \/ Repaired(r) \/ Required(r) \/ Corrected(r) \/ FallBack(r)
    PROVE  IInv'
<1>1. /\ req[r] \in Request /\ req[r].stage = "judge"
      /\ Counted(req[r]) /\ Placed(req[r])
  BY Going DEF Routed, Repaired, Required, Corrected, FallBack
<1>2. ASSUME NEW w \in {"ok", "error"}, Update(r, Answer(r, w))
      PROVE  \E new : Quiet(r, new)
  BY <1>1, <1>2, AnswerIsGood DEF Quiet, Replies
<1>3. ASSUME NEW p \in {"repair", "require", "answer"}, req[r].purpose # "correct",
             Update(r, [req[r] EXCEPT !.purpose = p, !.stage = "send"])
      PROVE  \E new : Quiet(r, new)
  <2>1. [req[r] EXCEPT !.purpose = p, !.stage = "send"] \in Request
    BY <1>1 DEF Request, Stages, Purposes
  <2>2. Good([req[r] EXCEPT !.purpose = p, !.stage = "send"], accused)
    BY <1>1, <1>3, <2>1 DEF Good, Counted, Placed, Charging, Judging, Replacing, Request
  <2> QED
    BY <1>3, <2>2 DEF Quiet
<1>4. ASSUME Decide(r), req[r].purpose # "correct" PROVE \E new : Quiet(r, new)
  BY <1>2, <1>3, <1>4 DEF Decide
<1>5. ASSUME req[r].fixes < Fixes(r), Update(r, Correcting(r))
      PROVE  \E new : Quiet(r, new)
  <2>1. req[r].fixes + 1 \in FixCount
    BY <1>1, <1>5 DEF Fixes, FixCount, Request
  <2>2. Correcting(r) \in Request
    BY <1>1, <2>1 DEF Correcting, Request, Stages, Purposes
  <2>3. Good(Correcting(r), accused)
    BY <1>1, <2>2 DEF Correcting, Good, Counted, Placed, Charging, Judging, Replacing, Request
  <2> QED
    BY <1>5, <2>3 DEF Quiet
<1>6. ASSUME req[r].purpose = "answer",
             Update(r, [req[r] EXCEPT !.tone = "magic", !.stage = "send"])
      PROVE  \E new : Quiet(r, new)
  <2>1. [req[r] EXCEPT !.tone = "magic", !.stage = "send"] \in Request
    BY <1>1 DEF Request, Stages
  <2>2. Good([req[r] EXCEPT !.tone = "magic", !.stage = "send"], accused)
    BY <1>1, <2>1 DEF Good, Counted, Placed, Charging, Judging, Replacing, Request
  <2> QED
    BY <1>6, <2>2 DEF Quiet
<1>7. CASE Routed(r)
  BY <1>3, <1>4, <1>7, QuietKeeps DEF Routed, Routing
<1>8. CASE Repaired(r)
  BY <1>2, <1>3, <1>4, <1>8, QuietKeeps DEF Repaired
<1>9. CASE Required(r)
  BY <1>2, <1>9, QuietKeeps DEF Required
<1>10. CASE Corrected(r)
  BY <1>2, <1>5, <1>10, QuietKeeps DEF Corrected
<1>11. CASE FallBack(r)
  BY <1>6, <1>11, QuietKeeps DEF FallBack
<1> QED
  BY <1>7, <1>8, <1>9, <1>10, <1>11

(* An upstream call starts.                                                *)
LEMMA SendKeeps ==
    ASSUME IInv, NEW r \in Requests, Send(r) PROVE IInv'
<1> DEFINE carries == req[r].purpose = "answer" /\ req[r].tries = 1
                        /\ req[r].input.conv # NoAccount
           new == [req[r] EXCEPT
                     !.stage = "upstream", !.calls = @ + 1,
                     !.astray = @ \/ (carries /\ req[r].cur # req[r].input.conv)]
<1>1. req[r] \in Request /\ req[r].stage = "send" /\ Counted(req[r]) /\ Placed(req[r])
  BY Going DEF Send
<1>2. req[r].calls + 1 \in Nat
  BY <1>1 DEF Request
<1>3. (req[r].astray \/ (carries /\ req[r].cur # req[r].input.conv)) \in BOOLEAN
  BY <1>1 DEF Request
<1>4. new \in Request
  BY <1>1, <1>2, <1>3 DEF Request, Stages
<1>5. Good(new, accused)
  BY <1>1, <1>4 DEF Good, Counted, Placed, Charging, Judging, Replacing, Request
<1>6. Update(r, new)
  BY DEF Send
<1> QED
  BY <1>5, <1>6, QuietKeeps DEF Quiet, Send

LEMMA ResendKeeps ==
    ASSUME IInv, NEW r \in Requests, Resend(r) PROVE IInv'
<1>1. /\ req[r] \in Request /\ req[r].stage = "resend" /\ Counted(req[r])
      /\ Placed(req[r]) /\ Charging(req[r], accused)
  BY Going DEF Resend
<1>2. req[r].calls + 1 \in Nat /\ req[r].alt \in Accounts
  BY <1>1 DEF Request, Placed, Replacing
<1>3. CASE Path(r) = "recover"
  <2> DEFINE new == [req[r] EXCEPT !.cur = req[r].alt, !.stage = "upstream",
                                   !.calls = @ + 1]
  <2>1. new \in Request
    BY <1>1, <1>2 DEF Request, Stages
  <2>2. Good(new, accused)
    BY <1>1, <1>2, <2>1 DEF Good, Counted, Placed, Charging, Judging, Replacing, Request
  <2>3. Update(r, new)
    BY <1>3 DEF Resend
  <2> QED
    BY <2>2, <2>3, QuietKeeps DEF Quiet, Resend
<1>4. CASE Path(r) # "recover"
  <2> DEFINE new == [req[r] EXCEPT !.stage = "upstream2", !.calls = @ + 1]
  <2>1. new \in Request
    BY <1>1, <1>2 DEF Request, Stages
  <2>2. Good(new, accused)
    BY <1>1, <1>4, <2>1
    DEF Good, Counted, Placed, Charging, Judging, Replacing, Request, Path
  <2>3. Update(r, new)
    BY <1>4 DEF Resend
  <2> QED
    BY <2>2, <2>3, QuietKeeps DEF Quiet, Resend
<1> QED
  BY <1>3, <1>4

(* The pool of a step that marks one account with an error it made.        *)
LEMMA MarkedFrame ==
    ASSUME IInv, NEW a \in Accounts, NEW e,
           CleanRefresh /\ e \in Rejections => a \in accused,
           \/ cooling' = MarkFailure(cooling, a, e)
           \/ cooling' = MarkSuccess(cooling, a)
           \/ cooling' = cooling,
           UNCHANGED <<nextIdx, penalised, accused>>
    PROVE  Frame
BY DEF Frame, IInv, TypeOK, NoInnocentCooling, MarkFailure, MarkSuccess

LEMMA AnsweredKeeps ==
    ASSUME IInv, NEW r \in Requests, NEW w \in {"ok", "error"}, Frame,
           Update(r, Answer(r, w))
    PROVE  IInv'
<1>1. Good(Answer(r, w), accused')
  BY Going, AnswerIsGood DEF Replies
<1> QED
  BY <1>1, RequestStep

LEMMA RetryKeeps ==
    ASSUME IInv, NEW r \in Requests, Retry(r) PROVE IInv'
<1> DEFINE new == [req[r] EXCEPT !.stage = "repick", !.probes = 0,
                                 !.tries = IF @ < MaxTries THEN @ + 1 ELSE @]
<1>1. /\ req[r] \in Request /\ req[r].stage = "judge" /\ Counted(req[r])
      /\ Placed(req[r]) /\ Charging(req[r], accused) /\ Path(r) = "recover"
  BY Going DEF Retry, MayRetry
<1>2. (IF req[r].tries < MaxTries THEN req[r].tries + 1 ELSE req[r].tries) \in TryCount
  BY <1>1, LimitsAssumption DEF Request, TryCount
<1>3. new \in Request
  BY <1>1, <1>2, FieldTypes DEF Request, Stages
<1>4. 0 < MaxProbe
  BY LimitsAssumption
<1>5. Good(new, accused)
  BY <1>1, <1>3, <1>4
  DEF Good, Counted, Placed, Charging, Judging, Replacing, Request, Path
<1>6. Update(r, new)
  BY DEF Retry
<1> QED
  BY <1>5, <1>6, QuietKeeps DEF Quiet, Retry

LEMMA ReensureKeeps ==
    ASSUME IInv, NEW r \in Requests, Reensure(r)
    PROVE  IInv'
<1>1. /\ req[r] \in Request /\ req[r].stage = "reensure" /\ Counted(req[r])
      /\ Placed(req[r]) /\ Charging(req[r], accused)
  BY Going DEF Reensure
<1>2. \A e \in RefreshErrors : e \in Outcomes /\ (CleanRefresh => e \notin Rejections)
  BY FieldTypes, RefreshAssumption DEF Rejections, CleanRefresh
<1>3. ASSUME NEW s \in {"resend", "giveup"}, Update(r, [req[r] EXCEPT !.stage = s])
      PROVE  \E new : Quiet(r, new)
  <2>1. [req[r] EXCEPT !.stage = s] \in Request
    BY <1>1 DEF Request, Stages
  <2>2. Good([req[r] EXCEPT !.stage = s], accused)
    BY <1>1, <2>1 DEF Good, Counted, Placed, Charging, Judging, Replacing, Request
  <2> QED
    BY <1>3, <2>2 DEF Quiet
<1>4. ASSUME NEW e \in RefreshErrors, Path(r) = "recover", req[r].tries < MaxTries,
             Update(r, [req[r] EXCEPT !.stage = "repick", !.probes = 0,
                                      !.tries = @ + 1, !.err = e])
      PROVE  \E new : Quiet(r, new)
  <2> DEFINE new == [req[r] EXCEPT !.stage = "repick", !.probes = 0,
                                   !.tries = @ + 1, !.err = e]
  <2>1. req[r].tries + 1 \in TryCount /\ 0 < MaxProbe
    BY <1>1, <1>4, LimitsAssumption DEF Request, TryCount
  <2>2. new \in Request
    BY <1>1, <1>2, <2>1, FieldTypes DEF Request, Stages
  <2>3. Good(new, accused)
    BY <1>1, <1>2, <1>4, <2>1, <2>2
    DEF Good, Counted, Placed, Charging, Judging, Replacing, Request, Path
  <2> QED
    BY <1>4, <2>3 DEF Quiet
<1>5. ASSUME NEW e \in RefreshErrors,
             Update(r, [req[r] EXCEPT !.stage = "giveup", !.err = e])
      PROVE  \E new : Quiet(r, new)
  <2> DEFINE new == [req[r] EXCEPT !.stage = "giveup", !.err = e]
  <2>1. new \in Request
    BY <1>1, <1>2 DEF Request, Stages
  <2>2. Good(new, accused)
    BY <1>1, <1>2, <2>1 DEF Good, Counted, Placed, Charging, Judging, Replacing, Request
  <2> QED
    BY <1>5, <2>2 DEF Quiet
<1>6. \E new : Quiet(r, new)
  BY <1>3, <1>4, <1>5 DEF Reensure
<1> QED
  BY <1>6, QuietKeeps DEF Reensure

(* The two walks over the accounts.                                        *)
LEMMA PickKeeps ==
    ASSUME IInv, NEW r \in Requests, Pick(r) PROVE IInv'
<1> DEFINE probes == req[r].probes + 1
           new == [req[r] EXCEPT
                     !.cur = NextAccount, !.probes = probes,
                     !.stage = IF Available(NextAccount) \/ probes > MaxProbe
                               THEN "recheck" ELSE "pick"]
<1>1. req[r] \in Request /\ req[r].stage = "pick" /\ Counted(req[r]) /\ Placed(req[r])
  BY Going DEF Pick
<1>2. NextAccount \in Accounts /\ nextIdx' \in 0..Len(Order) - 1
  BY NextAccountExists DEF IInv, Pick
<1>3. probes \in ProbeCount
  BY <1>1, LimitsAssumption DEF Counted, Request, ProbeCount
<1>4. new \in Request
  BY <1>1, <1>2, <1>3 DEF Request, Stages
<1>5. new.stage = "pick" => new.probes <= MaxProbe
  BY <1>1, <1>3, LimitsAssumption DEF Request, ProbeCount
<1>6. Good(new, accused')
  BY <1>1, <1>2, <1>4, <1>5
  DEF Good, Counted, Placed, Charging, Judging, Replacing, Request
<1>7. Frame
  BY <1>2 DEF Frame, IInv, TypeOK, NoInnocentCooling, Pick
<1>8. Update(r, new)
  BY DEF Pick
<1> QED
  BY <1>6, <1>7, <1>8, RequestStep

LEMMA RepickKeeps ==
    ASSUME IInv, NEW r \in Requests, Repick(r) PROVE IInv'
<1> DEFINE probes == req[r].probes + 1
           usable == NextAccount # req[r].cur /\ Available(NextAccount)
           new == [req[r] EXCEPT
                     !.probes = probes,
                     !.alt = IF usable THEN NextAccount ELSE @,
                     !.err = IF ~usable /\ probes >= MaxProbe /\ Path(r) = "recover"
                             THEN "other" ELSE @,
                     !.stage = IF usable THEN "reensure"
                               ELSE IF probes >= MaxProbe THEN "giveup"
                               ELSE "repick"]
<1>1. /\ req[r] \in Request /\ req[r].stage = "repick" /\ Counted(req[r])
      /\ Placed(req[r]) /\ Charging(req[r], accused)
  BY Going DEF Repick
<1>2. NextAccount \in Accounts /\ nextIdx' \in 0..Len(Order) - 1
  BY NextAccountExists DEF IInv, Repick
<1>3. probes \in ProbeCount
  BY <1>1, LimitsAssumption DEF Counted, Request, ProbeCount
<1>4. new \in Request
  <2>1. PICK alt \in Accounts \cup {NoAccount} : alt = IF usable THEN NextAccount ELSE req[r].alt
    BY <1>1, <1>2 DEF Request
  <2>2. PICK err \in Outcomes :
              err = IF ~usable /\ probes >= MaxProbe /\ Path(r) = "recover" THEN "other" ELSE req[r].err
    BY <1>1, FieldTypes DEF Request
  <2>3. PICK stage \in Stages : stage = IF usable THEN "reensure"
                                         ELSE IF probes >= MaxProbe THEN "giveup" ELSE "repick"
    BY DEF Stages
  <2>4. new = [req[r] EXCEPT !.probes = probes, !.alt = alt, !.err = err, !.stage = stage]
    BY <2>1, <2>2, <2>3
  <2> QED
    BY <1>1, <1>3, <2>1, <2>2, <2>3, <2>4 DEF Request
<1>5. new.stage = "repick" => new.probes < MaxProbe
  BY <1>1, <1>3, LimitsAssumption DEF Request, ProbeCount
<1>6. /\ new.stage \in {"reensure", "giveup", "repick"} /\ new.cur = req[r].cur
      /\ new.purpose = req[r].purpose /\ new.fixes = req[r].fixes
      /\ new.input = req[r].input
      /\ new.err = req[r].err \/ (new.err = "other" /\ req[r].input.path = "recover")
      /\ new.stage = "reensure" => new.alt = NextAccount
  BY <1>1 DEF Request, Path
<1>7. Good(new, accused')
  BY <1>1, <1>2, <1>4, <1>5, <1>6
  DEF Good, Counted, Placed, Charging, Judging, Replacing, Rejections, Repick
<1>8. Frame
  BY <1>2 DEF Frame, IInv, TypeOK, NoInnocentCooling, Repick
<1>9. Update(r, new)
  BY DEF Repick
<1> QED
  BY <1>7, <1>8, <1>9, RequestStep

(* An upstream call ends.  Its account is accused if it rejected the call. *)
LEMMA UpstreamFrame ==
    ASSUME IInv, NEW a \in Accounts, NEW e, UpstreamSays(a, e)
    PROVE  Frame /\ (e \in Rejections => a \in accused')
BY DEF Frame, IInv, TypeOK, NoInnocentCooling, UpstreamSays

LEMMA RespondKeeps ==
    ASSUME IInv, NEW r \in Requests, Respond(r) PROVE IInv'
<1>1. /\ req[r] \in Request /\ req[r].stage = "upstream" /\ Counted(req[r])
      /\ Placed(req[r])
  BY Going DEF Respond
<1>2. req[r].cur \in Accounts
  BY <1>1 DEF Placed
<1>3. PICK e \in Outcomes :
         /\ UpstreamSays(req[r].cur, e)
         /\ Update(r, [req[r] EXCEPT
               !.stage = "judge", !.last = IF req[r].purpose = "correct" THEN @ ELSE e,
               !.err = IF req[r].tone = "magic" /\ e # "ok" THEN "empty" ELSE e])
  BY DEF Respond
<1> DEFINE new == [req[r] EXCEPT
               !.stage = "judge", !.last = IF req[r].purpose = "correct" THEN @ ELSE e,
               !.err = IF req[r].tone = "magic" /\ e # "ok" THEN "empty" ELSE e]
<1>4. Frame /\ (e \in Rejections => req[r].cur \in accused')
  BY <1>2, <1>3, UpstreamFrame
<1>5. new \in Request
  BY <1>1, FieldTypes DEF Request, Stages
<1>6. /\ new.stage = "judge" /\ new.cur = req[r].cur
      /\ new.purpose = req[r].purpose /\ new.fixes = req[r].fixes
      /\ new.err \in {e, "empty"}
  BY <1>1 DEF Request
<1>7. Good(new, accused')
  BY <1>1, <1>2, <1>4, <1>5, <1>6
  DEF Good, Counted, Placed, Charging, Judging, Replacing, Rejections
<1> QED
  BY <1>3, <1>4, <1>7, RequestStep

LEMMA Respond2Keeps ==
    ASSUME IInv, NEW r \in Requests, Respond2(r) PROVE IInv'
<1>1. /\ req[r] \in Request /\ req[r].stage = "upstream2" /\ Counted(req[r])
      /\ Placed(req[r]) /\ Charging(req[r], accused)
  BY Going DEF Respond2
<1>2. req[r].alt \in Accounts
  BY <1>1 DEF Placed, Replacing
<1>3. PICK e \in Outcomes :
         /\ UpstreamSays(req[r].alt, e)
         /\ Update(r, [req[r] EXCEPT !.stage = "judge2", !.last = e, !.err2 = e])
  BY DEF Respond2
<1> DEFINE new == [req[r] EXCEPT !.stage = "judge2", !.last = e, !.err2 = e]
<1>4. Frame /\ (e \in Rejections => req[r].alt \in accused')
  BY <1>2, <1>3, UpstreamFrame
<1>5. new \in Request
  BY <1>1 DEF Request, Stages
<1>6. /\ new.stage = "judge2" /\ new.cur = req[r].cur /\ new.alt = req[r].alt
      /\ new.purpose = req[r].purpose /\ new.fixes = req[r].fixes
      /\ new.input = req[r].input /\ new.err = req[r].err /\ new.err2 = e
  BY <1>1 DEF Request
<1>7. Charging(new, accused')
  BY <1>1, <1>4, <1>6 DEF Charging, Judging, Frame
<1>8. Counted(new) /\ Placed(new)
  BY <1>1, <1>2, <1>6 DEF Counted, Placed
<1> QED
  BY <1>3, <1>4, <1>5, <1>7, <1>8, RequestStep DEF Good

(* The answers and what is charged for them.                               *)
LEMMA SucceedKeeps ==
    ASSUME IInv, NEW r \in Requests, Succeed(r) PROVE IInv'
<1>1. /\ req[r] \in Request /\ req[r].stage = "judge" /\ req[r].purpose = "answer"
      /\ Counted(req[r]) /\ Placed(req[r])
  BY Going DEF Succeed
<1>2. req[r].cur \in Accounts
  BY <1>1 DEF Placed
<1>3. Frame
  BY <1>2, MarkedFrame DEF Succeed, Rejections
<1>4. CASE Update(r, Answer(r, "ok"))
  BY <1>3, <1>4, AnsweredKeeps
<1>5. CASE Fixes(r) > 0 /\ Update(r, Correcting(r))
  <2>1. req[r].fixes + 1 \in FixCount
    BY <1>1 DEF Counted, FixCount
  <2>2. Correcting(r) \in Request
    BY <1>1, <2>1 DEF Correcting, Request, Stages, Purposes
  <2>3. Good(Correcting(r), accused')
    BY <1>1, <2>2 DEF Correcting, Good, Counted, Placed, Charging, Judging, Replacing, Request
  <2> QED
    BY <1>3, <1>5, <2>3, RequestStep
<1> QED
  BY <1>4, <1>5 DEF Succeed

LEMMA FailOverKeeps ==
    ASSUME IInv, NEW r \in Requests, FailOver(r) PROVE IInv'
<1> DEFINE new == [req[r] EXCEPT !.stage = "repick", !.probes = 0]
<1>1. /\ req[r] \in Request /\ req[r].stage = "judge" /\ Counted(req[r])
      /\ Placed(req[r]) /\ Charging(req[r], accused) /\ req[r].err \in Rejections
  BY Going DEF FailOver, MayFailOver
<1>2. req[r].cur \in Accounts /\ (CleanRefresh => req[r].cur \in accused)
  BY <1>1 DEF Placed, Charging, Judging
<1>3. Frame
  BY <1>2, MarkedFrame DEF FailOver
<1>4. new \in Request
  BY <1>1, FieldTypes DEF Request, Stages
<1>5. 0 < MaxProbe
  BY LimitsAssumption
<1>6. Good(new, accused')
  BY <1>1, <1>2, <1>3, <1>4, <1>5
  DEF Good, Counted, Placed, Charging, Judging, Replacing, Request, Frame
<1>7. Update(r, new)
  BY DEF FailOver
<1> QED
  BY <1>3, <1>6, <1>7, RequestStep

LEMMA FailKeeps ==
    ASSUME IInv, NEW r \in Requests, Fail(r) \/ GiveUp(r) PROVE IInv'
<1>1. /\ req[r] \in Request /\ req[r].stage \in {"judge", "giveup"}
      /\ Placed(req[r]) /\ Charging(req[r], accused)
  BY Going DEF Fail, GiveUp
<1>2. req[r].cur \in Accounts /\ (CleanRefresh /\ req[r].err \in Rejections => req[r].cur \in accused)
  BY <1>1 DEF Placed, Charging, Judging
<1>3. Frame
  BY <1>2, MarkedFrame DEF Fail, GiveUp
<1> QED
  BY <1>3, AnsweredKeeps DEF Fail, GiveUp

(* The failovers: the first account has rejected a call, the replacement   *)
(* has if its outcome is a rejection.                                      *)
LEMMA FailedOverKeeps ==
    ASSUME IInv, NEW r \in Requests,
           Rerouted(r) \/ Reanswered(r) \/ ReansweredOnce(r)
    PROVE  IInv'
<1>1. /\ req[r] \in Request /\ req[r].stage = "judge2" /\ Counted(req[r])
      /\ Placed(req[r]) /\ Charging(req[r], accused)
  BY Going DEF Rerouted, Reanswered, ReansweredOnce
<1>2. /\ req[r].cur \in Accounts /\ (CleanRefresh => req[r].cur \in accused)
      /\ req[r].alt \in Accounts
      /\ CleanRefresh /\ req[r].err2 \in Rejections => req[r].alt \in accused
  BY <1>1 DEF Placed, Charging, Judging, Replacing
<1>3. ASSUME Frame, Update(r, [req[r] EXCEPT !.cur = req[r].alt, !.err = "ok",
                                             !.stage = "judge"])
      PROVE  IInv'
  <2> DEFINE new == [req[r] EXCEPT !.cur = req[r].alt, !.err = "ok", !.stage = "judge"]
  <2>1. new \in Request
    BY <1>1, <1>2, FieldTypes DEF Request, Stages
  <2>2. "ok" \notin Rejections
    BY DEF Rejections
  <2>3. Good(new, accused')
    BY <1>1, <1>2, <2>1, <2>2 DEF Good, Counted, Placed, Charging, Judging, Replacing, Request
  <2> QED
    BY <1>3, <2>3, RequestStep
<1>4. CASE Rerouted(r)
  <2>1. Frame
    BY <1>2, <1>4, MarkedFrame DEF Rerouted
  <2> QED
    BY <1>3, <1>4, <2>1, AnsweredKeeps DEF Rerouted
<1>5. CASE Reanswered(r)
  <2>1. Frame
    BY <1>2, <1>5, MarkedFrame DEF Reanswered
  <2> QED
    BY <1>3, <1>5, <2>1, AnsweredKeeps DEF Reanswered
<1>6. CASE ReansweredOnce(r)
  <2>1. Frame
    BY <1>2, <1>6 DEF ReansweredOnce, Frame, IInv, TypeOK, NoInnocentCooling,
       MarkFailure, MarkSuccess
  <2> QED
    BY <1>6, <2>1, AnsweredKeeps DEF ReansweredOnce
<1> QED
  BY <1>4, <1>5, <1>6

LEMMA RecoverKeeps ==
    ASSUME IInv, NEW a \in Accounts, Recover(a) PROVE IInv'
BY DEF IInv, TypeOK, NoInnocentCooling, Recover

LEMMA IInvHolds == Spec => []IInv
<1>1. Init => IInv
  <2> SUFFICES ASSUME Init PROVE IInv
    OBVIOUS
  <2>1. 0 \in 0..Len(Order) - 1
    BY AccountsAssumption
  <2> DEFINE idle == [stage |-> "idle", input |-> CHOOSE in \in Inputs : TRUE,
                      cur |-> NoAccount, alt |-> NoAccount, purpose |-> "answer",
                      tone |-> "asked", probes |-> 0, tries |-> 1, fixes |-> 0,
                      calls |-> 0, err |-> "ok", err2 |-> "ok", last |-> "ok",
                      reply |-> "none", astray |-> FALSE]
  <2>2. (CHOOSE in \in Inputs : TRUE) \in Inputs
    BY InputsAssumption
  <2>3. idle \in Request
    BY <2>2, FieldTypes DEF Request, Stages, Purposes, Replies
  <2>4. Good(idle, accused)
    BY <2>3 DEF Good, Counted, Placed, Charging, Judging, Replacing
  <2>5. req = [r \in Requests |-> idle]
    BY DEF Init
  <2> QED
    BY <2>1, <2>3, <2>4, <2>5 DEF Init, IInv, TypeOK, NoInnocentCooling
<1>2. IInv /\ [Next]_vars => IInv'
  <2> SUFFICES ASSUME IInv, [Next]_vars PROVE IInv'
    OBVIOUS
  <2>1. ASSUME NEW r \in Requests, Accept(r) \/ Progress(r) PROVE IInv'
    BY <2>1, AcceptKeeps, PickKeeps, EnsureKeeps, SendKeeps, RespondKeeps,
       SucceedKeeps, SideCallsKeep, FailOverKeeps, RetryKeeps, FailKeeps,
       RepickKeeps, ReensureKeeps, ResendKeeps, Respond2Keeps, FailedOverKeeps
    DEF Progress
  <2>2. CASE UNCHANGED vars
    BY <2>2 DEF vars, IInv, TypeOK, NoInnocentCooling
  <2> QED
    BY <2>1, <2>2, RecoverKeeps DEF Next
<1> QED
  BY <1>1, <1>2, PTL DEF Spec

(* Every variable has its type, the round-robin cursor and the counters of *)
(* the walks and retries included.                                         *)
THEOREM TypeCorrect == Spec => []TypeOK
<1>1. IInv => TypeOK
  BY DEF IInv
<1> QED
  BY <1>1, IInvHolds, PTL

(* accountHealth only cools down accounts that have answered with a        *)
(* rejection themselves, whichever account MarkFailure is called with.     *)
THEOREM OnlyRejectingAccountsCool ==
    ASSUME "throttled" \notin RefreshErrors
    PROVE  Spec => []NoInnocentCooling
<1>1. IInv => NoInnocentCooling
  BY DEF IInv, CleanRefresh
<1> QED
  BY <1>1, IInvHolds, PTL
-----------------------------------------------------------------------------
(* A request that the code must not move: it names its account, or its     *)
(* conversation has one, and neither the tool router nor a stream's        *)
(* recovery is at work.                                                    *)
Fixed(q) ==
    /\ q.input.path \in {"once", "answer", "plain"} /\ q.input.tools # "router"
    /\ ~(q.input.chosen = NoAccount /\ q.input.conv = NoAccount)

(* A request that names its account, without the tool router.              *)
Named(q) == q.input.chosen # NoAccount /\ q.input.tools # "router"

FailingOver == {"repick", "reensure", "giveup", "resend", "upstream2", "judge2"}

Kept(q) ==
    /\ q.stage = "idle" => q.alt = NoAccount /\ ~q.astray /\ q.tries = 1
    /\ q.stage # "idle" /\ q.purpose \in {"route", "repair", "require"}
          => q.input.tools = "router"
    /\ q.stage \in FailingOver => q.purpose \in {"route", "answer"}
    /\ q.stage \in FailingOver /\ q.input.path = "recover" => q.purpose = "answer"
    /\ q.stage # "idle" /\ Fixed(q) => q.stage \notin FailingOver /\ q.alt = NoAccount
    /\ q.input.path = "recover" /\ q.stage \in FailingOver \ {"giveup"} => q.tries > 1
    /\ q.stage # "idle" /\ Named(q) =>
          /\ q.stage \notin {"pick", "recheck"}
          /\ q.stage # "done" /\ q.tries = 1 => q.cur = q.input.chosen
          /\ AtHome(q.input) => ~q.astray

-----------------------------------------------------------------------------
(* What a request may cost: its router calls, the calls for its answer and *)
(* the correcting ones.                                                    *)
Prior(q) ==
    IF q.input.tools # "router" THEN 0
    ELSE IF q.input.path = "recover" THEN 2 ELSE 3
Own(q) ==
    IF q.input.path = "plain" THEN 1
    ELSE IF q.input.path = "recover" THEN MaxTries ELSE 2
Corrections(q) ==
    IF q.input.tools = "none" THEN 0
    ELSE IF q.input.path = "answer" THEN 4
    ELSE IF q.input.path = "recover" THEN 1 ELSE 0

(* The most it has spent at a stage.  A call for the answer is followed by *)
(* one with the fallback tone or by one with another account, not by both. *)
Before == {"pick", "recheck", "ensure", "send"}
Called(q) == IF q.stage \in Before THEN 0 ELSE 1
Second(q) ==
    \/ q.stage \in {"upstream2", "judge2"}
    \/ q.stage = "judge" /\ q.err = "ok"
    \/ q.tone = "magic"
Spent(q) ==
    IF q.purpose = "route"
    THEN IF q.stage \in Before THEN 0
         ELSE IF q.input.path # "recover" /\ Second(q) THEN 2 ELSE 1
    ELSE IF q.purpose = "repair" THEN Prior(q) - 1 + Called(q)
    ELSE IF q.purpose = "require" THEN Prior(q) + Called(q)
    ELSE IF q.purpose = "correct" THEN Prior(q) + Own(q) + q.fixes - 1 + Called(q)
    ELSE IF q.input.path = "recover"
    THEN Prior(q) + q.tries - (IF q.stage \in {"upstream", "judge"} THEN 0 ELSE 1)
    ELSE Prior(q) + Called(q) + (IF q.input.path # "plain" /\ Second(q) THEN 1 ELSE 0)

Costed(q) ==
    /\ q.stage = "idle" => q.calls = 0 /\ q.tone = "asked"
    /\ q.purpose = "route" => q.tone = "asked"
    /\ q.tone = "magic" => /\ q.input.path = "answer"
                           /\ q.stage \notin FailingOver
                           /\ q.stage = "judge" => q.err \in {"ok", "empty"}
    /\ q.input.path = "plain" => q.stage \notin FailingOver
    /\ q.stage \notin {"idle", "done"} => q.calls <= Spent(q)
    /\ q.purpose = "correct" => q.fixes \in 1..Corrections(q)
    /\ q.stage = "done" => q.calls <= Prior(q) + Own(q) + Corrections(q)

Behaved(q) == Kept(q) /\ Costed(q)

(* An action gives one request a new state.                                *)
Moves(r) == \E new : Update(r, new) /\ Behaved(new)

LEMMA OneMoves ==
    ASSUME TypeOK, \A r \in Requests : Behaved(req[r]), NEW r \in Requests, Moves(r)
    PROVE  \A s \in Requests : Behaved(req'[s])
<1>1. PICK new : Update(r, new) /\ Behaved(new)
  BY DEF Moves
<1>2. \A s \in Requests : req'[s] = IF s = r THEN new ELSE req[s]
  BY <1>1 DEF Update, TypeOK
<1> QED
  BY <1>1, <1>2

(* The numbers of a request.                                               *)
LEMMA Numbers ==
    ASSUME NEW q \in Request
    PROVE  /\ Prior(q) \in 0..3 /\ (q.input.tools = "router" => Prior(q) \in 2..3)
           /\ Own(q) \in Nat \ {0} /\ Corrections(q) \in FixCount
           /\ q.tries \in 1..MaxTries /\ q.fixes \in FixCount /\ q.calls \in Nat
           /\ MaxTries \in Nat \ {0}
           /\ q.input.path = "recover" => Own(q) = MaxTries
           /\ q.input.path \in {"once", "answer"} => Own(q) = 2
           /\ q.input.path = "plain" => Own(q) = 1
           /\ q.input.path \in {"once", "answer", "recover", "plain"}
<1>1. /\ q.input.path \in {"once", "answer", "recover", "plain"}
      /\ q.tries \in TryCount /\ q.fixes \in FixCount /\ q.calls \in Nat
  BY InputsAssumption DEF Request, Input
<1>2. MaxTries \in Nat \ {0}
  BY LimitsAssumption
<1>3. Prior(q) \in 0..3 /\ (q.input.tools = "router" => Prior(q) \in 2..3)
  BY DEF Prior
<1>4. Own(q) \in Nat \ {0} /\ Corrections(q) \in FixCount
  BY <1>2 DEF Own, Corrections, FixCount
<1> QED
  BY <1>1, <1>2, <1>3, <1>4 DEF Own, TryCount

LEMMA SpentIsNat ==
    ASSUME NEW q \in Request, Kept(q), q.stage # "idle"
    PROVE  Spent(q) \in Nat
<1>1. q.purpose \in {"route", "repair", "require"} => Prior(q) \in 2..3
  BY Numbers DEF Kept
<1>2. Called(q) \in {0, 1}
  BY DEF Called
<1>3. /\ Prior(q) \in Nat /\ Own(q) \in Nat \ {0} /\ q.fixes \in Nat
      /\ q.tries \in Nat \ {0}
  BY Numbers DEF FixCount
<1> QED
  BY <1>1, <1>2, <1>3 DEF Spent

(* No stage spends more than the whole.                                    *)
LEMMA WithinTotal ==
    ASSUME NEW q \in Request, Kept(q), Costed(q), q.stage \notin {"idle", "done"}
    PROVE  q.calls <= Prior(q) + Own(q) + Corrections(q)
<1>1. q.calls <= Spent(q)
  BY DEF Costed
<1>2. q.purpose \in {"route", "repair", "require"} => q.input.tools = "router"
  BY DEF Kept
<1>3. q.purpose = "correct" => q.fixes \in 1..Corrections(q)
  BY DEF Costed
<1>4. Called(q) \in {0, 1}
  BY DEF Called
<1>5. Spent(q) \in Nat /\ Spent(q) <= Prior(q) + Own(q) + Corrections(q)
  BY <1>2, <1>3, <1>4, Numbers DEF Spent, Prior, FixCount
<1> QED
  BY <1>1, <1>5, Numbers DEF FixCount

(* A request that ends keeps its count and its failover account.           *)
LEMMA EndBehaves ==
    ASSUME NEW r \in Requests, req[r] \in Request, Behaved(req[r]),
           req[r].stage \notin {"idle", "done"}, NEW what
    PROVE  Behaved(Answer(r, what))
<1> DEFINE new == Answer(r, what)
<1>1. /\ new.stage = "done" /\ new.purpose = "answer" /\ new.tone = "asked"
      /\ new.tries = 1 /\ new.alt = req[r].alt /\ new.astray = req[r].astray
      /\ new.input = req[r].input /\ new.calls = req[r].calls
  BY DEF Answer, Request
<1> HIDE DEF new
<1>2. Kept(new)
  BY <1>1 DEF Behaved, Kept, Fixed, Named, FailingOver
<1>3. new.calls <= Prior(new) + Own(new) + Corrections(new)
  BY <1>1, WithinTotal DEF Behaved, Prior, Own, Corrections
<1> QED
  BY <1>1, <1>2, <1>3 DEF Behaved, Costed, FailingOver, new

(* The state of a request that goes on.                                    *)
LEMMA Behaving ==
    ASSUME IInv, NEW r \in Requests, Behaved(req[r])
    PROVE  /\ req[r] \in Request /\ Kept(req[r]) /\ Costed(req[r])
           /\ Counted(req[r]) /\ Charging(req[r], accused)
           /\ req[r].calls \in Nat /\ req[r].tries \in 1..MaxTries
           /\ req[r].fixes \in FixCount /\ MaxTries \in Nat \ {0}
           /\ Prior(req[r]) \in 0..3
           /\ req[r].input.tools = "router" => Prior(req[r]) \in 2..3
           /\ Own(req[r]) \in Nat \ {0}
BY Going, Numbers DEF Behaved

(* Requests arrive and are given an account.                               *)
LEMMA ArrivalBehaves ==
    ASSUME IInv, NEW r \in Requests, Behaved(req[r]), Accept(r)
    PROVE  Moves(r)
<1>1. PICK in \in Inputs :
         Update(r, [req[r] EXCEPT
                      !.input = in, !.cur = in.chosen,
                      !.purpose = IF in.tools = "router" THEN "route" ELSE "answer",
                      !.stage = IF in.chosen = NoAccount THEN "pick" ELSE "ensure"])
  BY DEF Accept
<1> DEFINE new == [req[r] EXCEPT
                      !.input = in, !.cur = in.chosen,
                      !.purpose = IF in.tools = "router" THEN "route" ELSE "answer",
                      !.stage = IF in.chosen = NoAccount THEN "pick" ELSE "ensure"]
<1>2. /\ req[r] \in Request /\ req[r].stage = "idle" /\ req[r].alt = NoAccount
      /\ ~req[r].astray /\ req[r].tries = 1 /\ req[r].calls = 0
      /\ req[r].tone = "asked" /\ req[r].fixes = 0
  BY Behaving DEF Accept, Kept, Costed, Counted
<1>3. /\ new.input = in /\ new.cur = in.chosen /\ new.alt = NoAccount /\ ~new.astray
      /\ new.tries = 1 /\ new.calls = 0 /\ new.tone = "asked"
      /\ new.purpose = IF in.tools = "router" THEN "route" ELSE "answer"
      /\ new.stage = IF in.chosen = NoAccount THEN "pick" ELSE "ensure"
  BY <1>2 DEF Request
<1> HIDE DEF new
<1>4. Kept(new)
  BY <1>3 DEF Kept, Fixed, Named, FailingOver
<1>5. Spent(new) \in Nat
  BY <1>3 DEF Spent, Before, Called, Second, Prior
<1>6. Costed(new)
  BY <1>3, <1>5 DEF Costed, FailingOver
<1> QED
  BY <1>1, <1>4, <1>6 DEF Moves, Behaved, new

LEMMA PickBehaves ==
    ASSUME IInv, NEW r \in Requests, Behaved(req[r]), Pick(r)
    PROVE  Moves(r)
<1> DEFINE probes == req[r].probes + 1
           new == [req[r] EXCEPT
                     !.cur = NextAccount, !.probes = probes,
                     !.stage = IF Available(NextAccount) \/ probes > MaxProbe
                               THEN "recheck" ELSE "pick"]
<1>1. /\ req[r] \in Request /\ req[r].stage = "pick"
      /\ Kept(req[r]) /\ Costed(req[r])
  BY Behaving DEF Pick
<1>2. /\ new.stage \in {"recheck", "pick"}
      /\ new.input = req[r].input /\ new.alt = req[r].alt
      /\ new.purpose = req[r].purpose /\ new.tone = req[r].tone
      /\ new.tries = req[r].tries /\ new.fixes = req[r].fixes
      /\ new.calls = req[r].calls /\ new.astray = req[r].astray
  BY <1>1 DEF Request
<1> HIDE DEF new
<1>3. Kept(new)
  BY <1>1, <1>2 DEF Kept, Fixed, Named, FailingOver
<1>4. Costed(new)
  BY <1>1, <1>2 DEF Costed, FailingOver, Spent, Before, Called, Second, Prior, Own, Corrections
<1> QED
  BY <1>3, <1>4 DEF Moves, Behaved, new, Pick

LEMMA EndMoves ==
    ASSUME IInv, NEW r \in Requests, Behaved(req[r]),
           req[r].stage \notin {"idle", "done"}, NEW w, Update(r, Answer(r, w))
    PROVE  Moves(r)
BY Going, EndBehaves DEF Moves

(* A request that goes on with the same call, or leaves a call for a       *)
(* failover that spends as much before its own.                            *)
LEMMA EnsureBehaves ==
    ASSUME IInv, NEW r \in Requests, Behaved(req[r]), Recheck(r) \/ Ensure(r)
    PROVE  Moves(r)
<1>1. /\ req[r] \in Request /\ req[r].stage \in {"recheck", "ensure"}
      /\ Kept(req[r]) /\ Costed(req[r])
  BY Behaving DEF Recheck, Ensure
<1>2. ASSUME NEW s \in {"ensure", "send"}, Update(r, [req[r] EXCEPT !.stage = s])
      PROVE  Moves(r)
  <2> DEFINE new == [req[r] EXCEPT !.stage = s]
  <2>1. /\ new.stage = s /\ new.cur = req[r].cur
        /\ new.input = req[r].input /\ new.alt = req[r].alt
        /\ new.purpose = req[r].purpose /\ new.tone = req[r].tone
        /\ new.tries = req[r].tries /\ new.fixes = req[r].fixes
        /\ new.calls = req[r].calls /\ new.astray = req[r].astray
    BY <1>1 DEF Request
  <2> HIDE DEF new
  <2>2. Kept(new)
    BY <1>1, <2>1 DEF Kept, Fixed, Named, FailingOver
  <2>3. Costed(new)
    BY <1>1, <2>1
    DEF Costed, FailingOver, Spent, Before, Called, Second, Prior, Own, Corrections
  <2> QED
    BY <1>2, <2>2, <2>3 DEF Moves, Behaved, new
<1> QED
  BY <1>1, <1>2, EndMoves DEF Recheck, Ensure

(* A call starts.                                                          *)
LEMMA SendBehaves ==
    ASSUME IInv, NEW r \in Requests, Behaved(req[r]), Send(r)
    PROVE  Moves(r)
<1> DEFINE carries == req[r].purpose = "answer" /\ req[r].tries = 1
                        /\ req[r].input.conv # NoAccount
           new == [req[r] EXCEPT
                     !.stage = "upstream", !.calls = @ + 1,
                     !.astray = @ \/ (carries /\ req[r].cur # req[r].input.conv)]
<1>1. /\ req[r] \in Request /\ req[r].stage = "send"
      /\ Kept(req[r]) /\ Costed(req[r]) /\ req[r].input \in Inputs
  BY Behaving DEF Send, Request
<1>2. /\ new.stage = "upstream" /\ new.cur = req[r].cur
      /\ new.input = req[r].input /\ new.alt = req[r].alt
      /\ new.purpose = req[r].purpose /\ new.tone = req[r].tone
      /\ new.tries = req[r].tries /\ new.fixes = req[r].fixes
      /\ new.calls = req[r].calls + 1
      /\ new.astray => req[r].astray \/ (carries /\ req[r].cur # req[r].input.conv)
  BY <1>1 DEF Request
<1> HIDE DEF new
<1>3. AtHome(new.input) /\ Named(new) => ~new.astray
  BY <1>1, <1>2 DEF Kept, Named, AtHome
<1>4. Kept(new)
  BY <1>1, <1>2, <1>3 DEF Kept, Fixed, Named, FailingOver
<1>5. Prior(new) = Prior(req[r]) /\ Own(new) = Own(req[r])
      /\ Corrections(new) = Corrections(req[r])
  BY <1>2 DEF Prior, Own, Corrections
<1>6. Spent(new) = Spent(req[r]) + 1
  <2>1. Called(req[r]) = 0 /\ Called(new) = 1 /\ (req[r].purpose = "route" => ~Second(new))
    BY <1>1, <1>2 DEF Called, Before, Second, Costed
  <2>2. Second(new) <=> Second(req[r])
    BY <1>1, <1>2 DEF Second
  <2> QED
    BY <1>1, <1>2, <1>5, <2>1, <2>2, Behaving DEF Spent, Before, FixCount
<1>7. Spent(req[r]) \in Nat
  BY <1>1, SpentIsNat
<1>8. new.calls <= Spent(new)
  BY <1>1, <1>2, <1>6, <1>7, Behaving DEF Costed
<1>9. Costed(new)
  BY <1>1, <1>2, <1>5, <1>8 DEF Costed, FailingOver
<1> QED
  BY <1>4, <1>9 DEF Moves, Behaved, new, Send

(* A call ends: it counts as before, and as a last one if it succeeded.    *)
LEMMA RespondBehaves ==
    ASSUME IInv, NEW r \in Requests, Behaved(req[r]), Respond(r)
    PROVE  Moves(r)
<1>1. /\ req[r] \in Request /\ req[r].stage = "upstream"
      /\ Kept(req[r]) /\ Costed(req[r])
  BY Behaving DEF Respond
<1>2. PICK e \in Outcomes :
         Update(r, [req[r] EXCEPT
               !.stage = "judge", !.last = IF req[r].purpose = "correct" THEN @ ELSE e,
               !.err = IF req[r].tone = "magic" /\ e # "ok" THEN "empty" ELSE e])
  BY DEF Respond
<1> DEFINE new == [req[r] EXCEPT
               !.stage = "judge", !.last = IF req[r].purpose = "correct" THEN @ ELSE e,
               !.err = IF req[r].tone = "magic" /\ e # "ok" THEN "empty" ELSE e]
<1>3. /\ new.stage = "judge" /\ new.cur = req[r].cur
      /\ new.input = req[r].input /\ new.alt = req[r].alt
      /\ new.purpose = req[r].purpose /\ new.tone = req[r].tone
      /\ new.tries = req[r].tries /\ new.fixes = req[r].fixes
      /\ new.calls = req[r].calls /\ new.astray = req[r].astray
      /\ new.tone = "magic" => new.err \in {"ok", "empty"}
  BY <1>1 DEF Request
<1> HIDE DEF new
<1>4. Kept(new)
  BY <1>1, <1>3 DEF Kept, Fixed, Named, FailingOver
<1>5. /\ Prior(new) = Prior(req[r]) /\ Own(new) = Own(req[r])
      /\ Corrections(new) = Corrections(req[r])
  BY <1>3 DEF Prior, Own, Corrections
<1>6. Spent(new) \in {Spent(req[r]), Spent(req[r]) + 1}
  <2>1. /\ Called(new) = 1 /\ Called(req[r]) = 1
        /\ Second(req[r]) => Second(new)
    BY <1>1, <1>3 DEF Called, Before, Second
  <2> QED
    BY <1>1, <1>3, <1>5, <2>1, Behaving DEF Spent, Before, FixCount
<1>7. new.calls <= Spent(new)
  <2>1. req[r].calls <= Spent(req[r]) /\ Spent(req[r]) \in Nat /\ req[r].calls \in Nat
    BY <1>1, SpentIsNat, Behaving DEF Costed
  <2> QED
    BY <1>3, <1>6, <2>1
<1>8. Costed(new)
  BY <1>1, <1>3, <1>5, <1>7 DEF Costed, FailingOver
<1> QED
  BY <1>2, <1>4, <1>8 DEF Moves, Behaved, new

LEMMA Respond2Behaves ==
    ASSUME IInv, NEW r \in Requests, Behaved(req[r]), Respond2(r)
    PROVE  Moves(r)
<1>1. /\ req[r] \in Request /\ req[r].stage = "upstream2"
      /\ Kept(req[r]) /\ Costed(req[r])
  BY Behaving DEF Respond2
<1>2. PICK e \in Outcomes :
         Update(r, [req[r] EXCEPT !.stage = "judge2", !.last = e, !.err2 = e])
  BY DEF Respond2
<1> DEFINE new == [req[r] EXCEPT !.stage = "judge2", !.last = e, !.err2 = e]
<1>3. /\ new.stage = "judge2" /\ new.cur = req[r].cur
      /\ new.input = req[r].input /\ new.alt = req[r].alt
      /\ new.purpose = req[r].purpose /\ new.tone = req[r].tone
      /\ new.tries = req[r].tries /\ new.fixes = req[r].fixes
      /\ new.calls = req[r].calls /\ new.astray = req[r].astray
  BY <1>1 DEF Request
<1> HIDE DEF new
<1>4. Kept(new)
  BY <1>1, <1>3 DEF Kept, Fixed, Named, FailingOver
<1>5. Costed(new)
  BY <1>1, <1>3
  DEF Costed, FailingOver, Spent, Before, Called, Second, Prior, Own, Corrections
<1> QED
  BY <1>2, <1>4, <1>5 DEF Moves, Behaved, new

(* The next of the calls around the answer.                                *)
LEMMA NextCallBehaves ==
    ASSUME IInv, NEW r \in Requests, Behaved(req[r]), req[r].stage = "judge",
           NEW p \in {"repair", "require", "answer"},
           req[r].input.tools = "router",
           \/ req[r].purpose = "route"
           \/ req[r].purpose = "repair" /\ p # "repair",
           p = "require" => req[r].input.path = "answer",
           Update(r, [req[r] EXCEPT !.purpose = p, !.stage = "send"])
    PROVE  Moves(r)
<1> DEFINE new == [req[r] EXCEPT !.purpose = p, !.stage = "send"]
<1>1. /\ req[r] \in Request /\ Kept(req[r]) /\ Costed(req[r]) /\ req[r].fixes = 0
      /\ req[r].tone = "magic" => req[r].purpose # "route"
  BY Behaving DEF Costed, Counted
<1>2. /\ new.stage = "send" /\ new.cur = req[r].cur
      /\ new.input = req[r].input /\ new.alt = req[r].alt
      /\ new.purpose = p /\ new.tone = req[r].tone
      /\ new.tries = req[r].tries /\ new.fixes = req[r].fixes
      /\ new.calls = req[r].calls /\ new.astray = req[r].astray
  BY <1>1 DEF Request
<1> HIDE DEF new
<1>3. Kept(new)
  BY <1>1, <1>2 DEF Kept, Fixed, Named, FailingOver
<1>4. /\ Prior(new) = Prior(req[r]) /\ Own(new) = Own(req[r])
      /\ Corrections(new) = Corrections(req[r])
  BY <1>2 DEF Prior, Own, Corrections
<1>5. req[r].calls <= Prior(req[r]) - (IF p = "repair" THEN 1 ELSE 0)
  <2>1. req[r].calls <= Spent(req[r]) /\ req[r].calls \in Nat
    BY <1>1, Behaving DEF Costed
  <2>2. CASE req[r].purpose = "route"
    BY <1>1, <2>1, <2>2, Behaving DEF Spent, Second, Prior, Kept
  <2>3. CASE req[r].purpose = "repair" /\ p # "repair"
    BY <2>1, <2>3, Behaving DEF Spent, Called
  <2> QED
    BY <2>2, <2>3
<1>6. new.calls <= Spent(new)
  BY <1>2, <1>4, <1>5, Behaving DEF Spent, Before, Called
<1>7. Costed(new)
  BY <1>1, <1>2, <1>4, <1>6 DEF Costed, FailingOver
<1> QED
  BY <1>3, <1>7 DEF Moves, Behaved, new

LEMMA CorrectingBehaves ==
    ASSUME IInv, NEW r \in Requests, Behaved(req[r]), req[r].stage = "judge",
           req[r].purpose \in {"answer", "correct"}, req[r].fixes < Fixes(r),
           Update(r, Correcting(r))
    PROVE  Moves(r)
<1> DEFINE new == Correcting(r)
<1>1. /\ req[r] \in Request /\ Kept(req[r]) /\ Costed(req[r])
      /\ req[r].purpose = "answer" => req[r].fixes = 0
      /\ req[r].fixes \in Nat /\ req[r].tries \in 1..MaxTries /\ req[r].calls \in Nat
  BY Behaving DEF Counted, FixCount
<1>2. /\ new.stage = "send" /\ new.cur = req[r].cur
      /\ new.input = req[r].input /\ new.alt = req[r].alt
      /\ new.purpose = "correct" /\ new.tone = req[r].tone
      /\ new.tries = req[r].tries /\ new.fixes = req[r].fixes + 1
      /\ new.calls = req[r].calls /\ new.astray = req[r].astray
  BY <1>1 DEF Request, Correcting
<1> HIDE DEF new
<1>3. Kept(new)
  BY <1>1, <1>2 DEF Kept, Fixed, Named, FailingOver
<1>4. /\ Prior(new) = Prior(req[r]) /\ Own(new) = Own(req[r])
      /\ Corrections(new) = Corrections(req[r]) /\ Corrections(req[r]) = Fixes(r)
      /\ Corrections(new) \in Nat
  BY <1>2, Numbers, <1>1 DEF Prior, Own, Corrections, Fixes, Tools, Path, FixCount
<1>5. Spent(req[r]) <= Prior(req[r]) + Own(req[r]) + req[r].fixes
  <2>1. Called(req[r]) = 1
    BY DEF Called, Before
  <2>2. /\ Prior(req[r]) \in Nat /\ Own(req[r]) \in Nat \ {0}
        /\ req[r].input.path = "recover" => Own(req[r]) = MaxTries
        /\ req[r].input.path \in {"once", "answer"} => Own(req[r]) = 2
        /\ req[r].input.path \in {"once", "answer", "recover", "plain"}
        /\ MaxTries \in Nat
    BY <1>1, Numbers
  <2> QED
    BY <1>1, <2>1, <2>2 DEF Spent
<1>6. new.calls <= Spent(new)
  <2>1. Called(new) = 0 /\ Prior(req[r]) \in Nat /\ Own(req[r]) \in Nat
    BY <1>1, <1>2, Numbers DEF Called, Before
  <2>2. Spent(new) = Prior(req[r]) + Own(req[r]) + req[r].fixes
    BY <1>1, <1>2, <1>4, <2>1 DEF Spent
  <2>3. req[r].calls <= Spent(req[r]) /\ Spent(req[r]) \in Nat
    BY <1>1, SpentIsNat DEF Costed
  <2> QED
    BY <1>1, <1>2, <1>5, <2>1, <2>2, <2>3
<1>7. Costed(new)
  BY <1>1, <1>2, <1>4, <1>6 DEF Costed, FailingOver
<1> QED
  BY <1>3, <1>7 DEF Moves, Behaved, new

LEMMA FallBackBehaves ==
    ASSUME IInv, NEW r \in Requests, Behaved(req[r]), FallBack(r)
    PROVE  Moves(r)
<1> DEFINE new == [req[r] EXCEPT !.tone = "magic", !.stage = "send"]
<1>1. /\ req[r] \in Request /\ Kept(req[r]) /\ Costed(req[r]) /\ req[r].stage = "judge"
      /\ req[r].purpose = "answer" /\ req[r].input.path = "answer"
      /\ req[r].tone = "asked" /\ req[r].err = "empty"
  BY Behaving DEF FallBack, Path
<1>2. /\ new.stage = "send" /\ new.cur = req[r].cur
      /\ new.input = req[r].input /\ new.alt = req[r].alt
      /\ new.purpose = "answer" /\ new.tone = "magic"
      /\ new.tries = req[r].tries /\ new.fixes = req[r].fixes
      /\ new.calls = req[r].calls /\ new.astray = req[r].astray
  BY <1>1 DEF Request
<1> HIDE DEF new
<1>3. Kept(new)
  BY <1>1, <1>2 DEF Kept, Fixed, Named, FailingOver
<1>4. Spent(req[r]) = Prior(req[r]) + 1 /\ Spent(new) = Prior(req[r]) + 1
  BY <1>1, <1>2, Behaving DEF Spent, Called, Before, Second, Prior
<1>5. Costed(new)
  BY <1>1, <1>2, <1>4 DEF Costed, FailingOver
<1> QED
  BY <1>3, <1>5 DEF Moves, Behaved, new, FallBack

(* What follows an answer, a router's text or a correction.                *)
LEMMA SideCallsBehave ==
    ASSUME IInv, NEW r \in Requests, Behaved(req[r]),
           \/ Succeed(r) \/ Routed(r) \/ Repaired(r) \/ Required(r) \/ Corrected(r)
    PROVE  Moves(r)
<1>1. /\ req[r] \in Request /\ req[r].stage = "judge" /\ Kept(req[r]) /\ Counted(req[r])
  BY Behaving DEF Succeed, Routed, Repaired, Required, Corrected
<1>2. ASSUME NEW w, Update(r, Answer(r, w)) PROVE Moves(r)
  BY <1>1, <1>2, EndMoves
<1>3. req[r].purpose \in {"route", "repair"} => req[r].input.tools = "router"
  BY <1>1 DEF Kept
<1>4. ASSUME Decide(r), req[r].purpose \in {"route", "repair"} PROVE Moves(r)
  BY <1>1, <1>2, <1>3, <1>4, NextCallBehaves DEF Decide, Path
<1>5. CASE Succeed(r)
  <2>1. req[r].fixes = 0
    BY <1>1, <1>5 DEF Succeed, Counted
  <2> QED
    BY <1>1, <1>2, <1>5, <2>1, CorrectingBehaves DEF Succeed
<1>6. CASE Routed(r)
  BY <1>1, <1>3, <1>4, <1>6, NextCallBehaves DEF Routed, Routing
<1>7. CASE Repaired(r)
  BY <1>1, <1>2, <1>3, <1>4, <1>7, NextCallBehaves DEF Repaired
<1>8. CASE Required(r)
  BY <1>2, <1>8 DEF Required
<1>9. CASE Corrected(r)
  BY <1>1, <1>2, <1>9, CorrectingBehaves DEF Corrected
<1> QED
  BY <1>5, <1>6, <1>7, <1>8, <1>9

(* A rejected call is followed by the search for another account: no call  *)
(* with the fallback tone has been made.                                   *)
LEMMA FailOverBehaves ==
    ASSUME IInv, NEW r \in Requests, Behaved(req[r]), FailOver(r)
    PROVE  Moves(r)
<1> DEFINE new == [req[r] EXCEPT !.stage = "repick", !.probes = 0]
<1>1. /\ req[r] \in Request /\ req[r].stage = "judge"
      /\ Kept(req[r]) /\ Costed(req[r])
  BY Behaving DEF FailOver
<1>2. /\ req[r].err \notin {"ok", "empty"}
      /\ \/ req[r].purpose = "route" /\ req[r].input.path = "answer"
         \/ /\ req[r].purpose = "answer" /\ req[r].input.path \in {"once", "answer"}
            /\ req[r].input.chosen = NoAccount /\ req[r].input.conv = NoAccount
  BY DEF FailOver, MayFailOver, Rejections, Routing, Path, Unpinned
<1>3. /\ new.stage = "repick" /\ new.cur = req[r].cur
      /\ new.input = req[r].input /\ new.alt = req[r].alt
      /\ new.purpose = req[r].purpose /\ new.tone = req[r].tone
      /\ new.tries = req[r].tries /\ new.fixes = req[r].fixes
      /\ new.calls = req[r].calls /\ new.astray = req[r].astray
  BY <1>1 DEF Request
<1> HIDE DEF new
<1>4. Kept(new)
  BY <1>1, <1>2, <1>3 DEF Kept, Fixed, Named, FailingOver
<1>5. Spent(new) = Spent(req[r])
  BY <1>1, <1>2, <1>3 DEF Costed, Spent, Called, Before, Second, Prior
<1>6. Costed(new)
  BY <1>1, <1>2, <1>3, <1>5 DEF Costed, FailingOver
<1> QED
  BY <1>4, <1>6 DEF Moves, Behaved, new, FailOver

LEMMA RetryBehaves ==
    ASSUME IInv, NEW r \in Requests, Behaved(req[r]), Retry(r)
    PROVE  Moves(r)
<1> DEFINE new == [req[r] EXCEPT !.stage = "repick", !.probes = 0,
                                 !.tries = IF @ < MaxTries THEN @ + 1 ELSE @]
<1>1. /\ req[r] \in Request /\ req[r].stage = "judge"
      /\ Kept(req[r]) /\ Costed(req[r])
      /\ req[r].input.path = "recover" /\ req[r].purpose = "answer"
      /\ req[r].tries < MaxTries
  BY Behaving DEF Retry, MayRetry, Path
<1>2. /\ new.stage = "repick" /\ new.cur = req[r].cur
      /\ new.input = req[r].input /\ new.alt = req[r].alt
      /\ new.purpose = req[r].purpose /\ new.tone = req[r].tone
      /\ new.tries = req[r].tries + 1 /\ new.fixes = req[r].fixes
      /\ new.calls = req[r].calls /\ new.astray = req[r].astray
  BY <1>1 DEF Request
<1>3. req[r].tries \in Nat \ {0} /\ Prior(req[r]) \in Nat
  BY <1>1, Numbers
<1> HIDE DEF new
<1>4. Kept(new)
  BY <1>1, <1>2, <1>3 DEF Kept, Fixed, Named, FailingOver
<1>5. Prior(new) = Prior(req[r])
  BY <1>2 DEF Prior
<1>6. Spent(new) = Spent(req[r])
  BY <1>1, <1>2, <1>3, <1>5 DEF Spent
<1>7. Costed(new)
  BY <1>1, <1>2, <1>6 DEF Costed, FailingOver
<1> QED
  BY <1>4, <1>7 DEF Moves, Behaved, new, Retry

LEMMA RepickBehaves ==
    ASSUME IInv, NEW r \in Requests, Behaved(req[r]), Repick(r)
    PROVE  Moves(r)
<1> DEFINE probes == req[r].probes + 1
           usable == NextAccount # req[r].cur /\ Available(NextAccount)
           new == [req[r] EXCEPT
                     !.probes = probes,
                     !.alt = IF usable THEN NextAccount ELSE @,
                     !.err = IF ~usable /\ probes >= MaxProbe /\ Path(r) = "recover"
                             THEN "other" ELSE @,
                     !.stage = IF usable THEN "reensure"
                               ELSE IF probes >= MaxProbe THEN "giveup"
                               ELSE "repick"]
<1>1. /\ req[r] \in Request /\ req[r].stage = "repick"
      /\ Kept(req[r]) /\ Costed(req[r])
  BY Behaving DEF Repick
<1>2. /\ new.stage \in {"reensure", "giveup", "repick"} /\ new.cur = req[r].cur
      /\ new.input = req[r].input
      /\ new.purpose = req[r].purpose /\ new.tone = req[r].tone
      /\ new.tries = req[r].tries /\ new.fixes = req[r].fixes
      /\ new.calls = req[r].calls /\ new.astray = req[r].astray
  BY <1>1 DEF Request
<1>3. Update(r, new)
  BY DEF Repick
<1> HIDE DEF new
<1>4. Kept(new)
  BY <1>1, <1>2 DEF Kept, Fixed, Named, FailingOver
<1>5. Spent(new) = Spent(req[r])
  BY <1>1, <1>2 DEF Spent, Called, Before, Second, Prior, Own
<1>6. Costed(new)
  BY <1>1, <1>2, <1>5 DEF Costed, FailingOver, Corrections
<1> QED
  BY <1>3, <1>4, <1>6 DEF Moves, Behaved

LEMMA ReensureBehaves ==
    ASSUME IInv, NEW r \in Requests, Behaved(req[r]), Reensure(r)
    PROVE  Moves(r)
<1>1. /\ req[r] \in Request /\ req[r].stage = "reensure"
      /\ Kept(req[r]) /\ Costed(req[r])
  BY Behaving DEF Reensure
<1>0. req[r].tries \in Nat \ {0} /\ Prior(req[r]) \in Nat
  BY <1>1, Numbers
<1>2. ASSUME NEW new,
             /\ new.stage \in {"resend", "giveup"} /\ new.cur = req[r].cur
             /\ new.input = req[r].input /\ new.alt = req[r].alt
             /\ new.purpose = req[r].purpose /\ new.tone = req[r].tone
             /\ new.tries = req[r].tries /\ new.fixes = req[r].fixes
             /\ new.calls = req[r].calls /\ new.astray = req[r].astray
      PROVE  Behaved(new)
  <2>1. Kept(new)
    BY <1>1, <1>2 DEF Kept, Fixed, Named, FailingOver
  <2>2. Spent(new) = Spent(req[r])
    BY <1>1, <1>2 DEF Spent, Called, Before, Second, Prior, Own
  <2>3. Costed(new)
    BY <1>1, <1>2, <2>2 DEF Costed, FailingOver, Corrections
  <2> QED
    BY <2>1, <2>3 DEF Behaved
<1>3. ASSUME NEW s \in {"resend", "giveup"}, Update(r, [req[r] EXCEPT !.stage = s])
      PROVE  Moves(r)
  <2> DEFINE new == [req[r] EXCEPT !.stage = s]
  <2>1. /\ new.stage \in {"resend", "giveup"} /\ new.cur = req[r].cur
        /\ new.input = req[r].input /\ new.alt = req[r].alt
        /\ new.purpose = req[r].purpose /\ new.tone = req[r].tone
        /\ new.tries = req[r].tries /\ new.fixes = req[r].fixes
        /\ new.calls = req[r].calls /\ new.astray = req[r].astray
    BY <1>1 DEF Request
  <2> HIDE DEF new
  <2>2. Behaved(new)
    BY <1>2, <2>1
  <2> QED
    BY <1>3, <2>2 DEF Moves, new
<1>4. ASSUME NEW e, Update(r, [req[r] EXCEPT !.stage = "giveup", !.err = e])
      PROVE  Moves(r)
  <2> DEFINE new == [req[r] EXCEPT !.stage = "giveup", !.err = e]
  <2>1. /\ new.stage \in {"resend", "giveup"} /\ new.cur = req[r].cur
        /\ new.input = req[r].input /\ new.alt = req[r].alt
        /\ new.purpose = req[r].purpose /\ new.tone = req[r].tone
        /\ new.tries = req[r].tries /\ new.fixes = req[r].fixes
        /\ new.calls = req[r].calls /\ new.astray = req[r].astray
    BY <1>1 DEF Request
  <2> HIDE DEF new
  <2>2. Behaved(new)
    BY <1>2, <2>1
  <2> QED
    BY <1>4, <2>2 DEF Moves, new
<1>5. ASSUME NEW e, req[r].input.path = "recover",
             Update(r, [req[r] EXCEPT !.stage = "repick", !.probes = 0,
                                      !.tries = @ + 1, !.err = e])
      PROVE  Moves(r)
  <2> DEFINE new == [req[r] EXCEPT !.stage = "repick", !.probes = 0,
                                   !.tries = @ + 1, !.err = e]
  <2>1. /\ new.stage = "repick" /\ new.cur = req[r].cur
        /\ new.input = req[r].input /\ new.alt = req[r].alt
        /\ new.purpose = req[r].purpose /\ new.tone = req[r].tone
        /\ new.tries = req[r].tries + 1 /\ new.fixes = req[r].fixes
        /\ new.calls = req[r].calls /\ new.astray = req[r].astray
    BY <1>1 DEF Request
  <2> HIDE DEF new
  <2>2. Kept(new) /\ req[r].purpose = "answer"
    BY <1>0, <1>1, <1>5, <2>1 DEF Kept, Fixed, Named, FailingOver
  <2>3. Prior(new) = Prior(req[r])
    BY <2>1 DEF Prior
  <2>4. Spent(new) = Spent(req[r]) + 1 /\ Spent(req[r]) \in Nat /\ req[r].calls \in Nat
    BY <1>0, <1>1, <1>5, <2>1, <2>2, <2>3, Behaving DEF Spent
  <2>5. Costed(new)
    BY <1>1, <1>5, <2>1, <2>2, <2>4 DEF Costed, FailingOver, Corrections
  <2> QED
    BY <1>5, <2>2, <2>5 DEF Moves, Behaved, new
<1> QED
  BY <1>3, <1>4, <1>5 DEF Reensure, Path

(* The call with the other account starts.                                 *)
LEMMA ResendBehaves ==
    ASSUME IInv, NEW r \in Requests, Behaved(req[r]), Resend(r)
    PROVE  Moves(r)
<1>1. /\ req[r] \in Request /\ req[r].stage = "resend"
      /\ Kept(req[r]) /\ Costed(req[r])
      /\ req[r].tries \in Nat \ {0} /\ Prior(req[r]) \in Nat /\ req[r].calls \in Nat
      /\ req[r].purpose \in {"route", "answer"}
  BY Behaving DEF Resend, Kept, FailingOver
<1>2. CASE Path(r) = "recover"
  <2> DEFINE new == [req[r] EXCEPT !.cur = req[r].alt, !.stage = "upstream",
                                   !.calls = @ + 1]
  <2>1. /\ new.stage = "upstream" /\ new.input = req[r].input /\ new.alt = req[r].alt
        /\ new.purpose = req[r].purpose /\ new.tone = req[r].tone
        /\ new.tries = req[r].tries /\ new.fixes = req[r].fixes
        /\ new.calls = req[r].calls + 1 /\ new.astray = req[r].astray
    BY <1>1 DEF Request
  <2>2. Update(r, new)
    BY <1>2 DEF Resend
  <2> HIDE DEF new
  <2>3. /\ req[r].purpose = "answer" /\ req[r].tries > 1
        /\ req[r].input.path = "recover"
    BY <1>1, <1>2 DEF Kept, FailingOver, Path
  <2>4. Kept(new)
    BY <1>1, <2>1, <2>3 DEF Kept, Fixed, Named, FailingOver
  <2>5. Prior(new) = Prior(req[r])
    BY <2>1 DEF Prior
  <2>6. Spent(new) = Spent(req[r]) + 1 /\ Spent(req[r]) \in Nat
    BY <1>1, <2>1, <2>3, <2>5 DEF Spent
  <2>7. Costed(new)
    BY <1>1, <2>1, <2>3, <2>6 DEF Costed, FailingOver, Corrections
  <2> QED
    BY <2>2, <2>4, <2>7 DEF Moves, Behaved
<1>3. CASE Path(r) # "recover"
  <2> DEFINE new == [req[r] EXCEPT !.stage = "upstream2", !.calls = @ + 1]
  <2>1. /\ new.stage = "upstream2" /\ new.cur = req[r].cur
        /\ new.input = req[r].input /\ new.alt = req[r].alt
        /\ new.purpose = req[r].purpose /\ new.tone = req[r].tone
        /\ new.tries = req[r].tries /\ new.fixes = req[r].fixes
        /\ new.calls = req[r].calls + 1 /\ new.astray = req[r].astray
    BY <1>1 DEF Request
  <2>2. Update(r, new)
    BY <1>3 DEF Resend
  <2> HIDE DEF new
  <2>3. Kept(new) /\ req[r].input.path \notin {"recover", "plain"}
    BY <1>1, <1>3, <2>1 DEF Kept, Costed, Fixed, Named, FailingOver, Path
  <2>4. Prior(new) = Prior(req[r])
    BY <2>1 DEF Prior
  <2>5. req[r].tone # "magic"
    BY <1>1 DEF Costed, FailingOver
  <2>6. Spent(new) = Spent(req[r]) + 1 /\ Spent(req[r]) \in Nat
    BY <1>1, <2>1, <2>3, <2>4, <2>5 DEF Spent, Called, Before, Second
  <2>7. Costed(new)
    BY <1>1, <2>1, <2>3, <2>6 DEF Costed, FailingOver, Corrections
  <2> QED
    BY <2>2, <2>3, <2>7 DEF Moves, Behaved
<1> QED
  BY <1>2, <1>3

(* The failover's outcome: the replacement becomes the request's account,  *)
(* or the request ends.                                                    *)
LEMMA FailedOverBehaves ==
    ASSUME IInv, NEW r \in Requests, Behaved(req[r]),
           Rerouted(r) \/ Reanswered(r) \/ ReansweredOnce(r)
    PROVE  Moves(r)
<1>1. /\ req[r] \in Request /\ req[r].stage = "judge2"
      /\ Kept(req[r]) /\ Costed(req[r]) /\ Charging(req[r], accused)
      /\ req[r].purpose \in {"route", "answer"} /\ req[r].input.path \notin {"recover", "plain"}
  <2>1. req[r].stage = "judge2"
    BY DEF Rerouted, Reanswered, ReansweredOnce
  <2> QED
    BY <2>1, Behaving DEF Kept, Costed, FailingOver, Charging
<1>2. ASSUME NEW w, Update(r, Answer(r, w)) PROVE Moves(r)
  BY <1>1, <1>2, EndMoves
<1>3. ASSUME Update(r, [req[r] EXCEPT !.cur = req[r].alt, !.err = "ok", !.stage = "judge"])
      PROVE  Moves(r)
  <2> DEFINE new == [req[r] EXCEPT !.cur = req[r].alt, !.err = "ok", !.stage = "judge"]
  <2>1. /\ new.stage = "judge" /\ new.err = "ok"
        /\ new.input = req[r].input /\ new.alt = req[r].alt
        /\ new.purpose = req[r].purpose /\ new.tone = req[r].tone
        /\ new.tries = req[r].tries /\ new.fixes = req[r].fixes
        /\ new.calls = req[r].calls /\ new.astray = req[r].astray
    BY <1>1 DEF Request
  <2> HIDE DEF new
  <2>2. ~Fixed(req[r])
    BY <1>1 DEF Kept, FailingOver
  <2>3. ~Named(req[r])
    BY <1>1, <2>2, Numbers DEF Fixed, Named
  <2>4. Kept(new)
    BY <1>1, <2>1, <2>2, <2>3 DEF Kept, Fixed, Named, FailingOver
  <2>5. Spent(new) = Spent(req[r])
    BY <1>1, <2>1 DEF Spent, Called, Before, Second, Prior
  <2>6. Costed(new)
    BY <1>1, <2>1, <2>5 DEF Costed, FailingOver, Corrections
  <2> QED
    BY <1>3, <2>4, <2>6 DEF Moves, Behaved, new
<1> QED
  BY <1>2, <1>3 DEF Rerouted, Reanswered, ReansweredOnce

LEMMA EveryoneBehaves == Spec => [](IInv /\ \A r \in Requests : Behaved(req[r]))
<1> DEFINE All == \A r \in Requests : Behaved(req[r])
<1>1. Init => All
  BY DEF Init, Behaved, Kept, Costed, Fixed, Named, FailingOver
<1>2. IInv /\ All /\ [Next]_vars => All'
  <2> SUFFICES ASSUME IInv, All, [Next]_vars PROVE All'
    OBVIOUS
  <2>1. TypeOK
    BY DEF IInv
  <2>2. ASSUME NEW r \in Requests, Accept(r) \/ Progress(r) PROVE Moves(r)
    <3>1. CASE Fail(r) \/ GiveUp(r)
      <4>1. req[r].stage \notin {"idle", "done"}
        BY <3>1 DEF Fail, GiveUp
      <4> QED
        BY <3>1, <4>1, EndMoves DEF Fail, GiveUp
    <3> QED
      BY <2>2, <3>1, ArrivalBehaves, PickBehaves, EnsureBehaves, SendBehaves,
         RespondBehaves, SideCallsBehave, FallBackBehaves, FailOverBehaves,
         RetryBehaves, RepickBehaves, ReensureBehaves, ResendBehaves,
         Respond2Behaves, FailedOverBehaves DEF Progress
  <2>3. CASE \E r \in Requests : Accept(r) \/ Progress(r)
    BY <2>1, <2>2, <2>3, OneMoves
  <2>4. CASE UNCHANGED req
    BY <2>4
  <2> QED
    BY <2>3, <2>4 DEF Next, Recover, vars
<1> QED
  BY <1>1, <1>2, IInvHolds, PTL DEF Spec

(* Without the tool router, an explicitly chosen account is respected and  *)
(* a bound chat stays on its account, whatever fails, but for the recovery *)
(* of a stream; and there too no call carries a conversation of the chosen *)
(* account to another one.  For all inputs.                                *)
THEOREM PinnedRequestsStay == Spec => []PinnedStays
<1>1. IInv /\ (\A r \in Requests : Behaved(req[r])) => PinnedStays
  <2> SUFFICES ASSUME IInv, \A r \in Requests : Behaved(req[r]), NEW r \in Requests
               PROVE  PinnedStays!(r)
    BY DEF PinnedStays
  <2>1. Kept(req[r])
    BY DEF Behaved
  <2> QED
    BY <2>1 DEF Kept, Fixed, Named, AtHome, Path, Tools, Unpinned
<1> QED
  BY <1>1, EveryoneBehaves, PTL

(* Fallback, failover, router, retries and corrections together make a     *)
(* bounded number of calls for a request, if the handlers that make one    *)
(* plain call have no tool router.                                         *)
THEOREM CallsAreBounded ==
    ASSUME \A in \in Inputs : in.path = "plain" => in.tools # "router"
    PROVE  Spec => []CallsBounded
<1>1. IInv /\ (\A r \in Requests : Behaved(req[r])) => CallsBounded
  <2> SUFFICES ASSUME IInv, \A r \in Requests : Behaved(req[r]), NEW r \in Requests
               PROVE  req[r].calls <= Budget(r)
    BY DEF CallsBounded
  <2>1. req[r] \in Request /\ Kept(req[r]) /\ Costed(req[r])
    BY Behaving
  <2>2. /\ Corrections(req[r]) = Fixes(r) /\ Fixes(r) \in Nat
        /\ req[r].input \in Inputs
    BY <2>1 DEF Corrections, Fixes, Tools, Path, Request
  <2>3. Budget(r) \in Nat /\ Prior(req[r]) + Own(req[r]) + Fixes(r) <= Budget(r)
    BY <2>1, <2>2, Numbers DEF Budget, Prior, Own, Path, Tools
  <2>4. CASE req[r].stage = "idle"
    BY <2>1, <2>3, <2>4 DEF Costed
  <2>5. CASE req[r].stage # "idle"
    <3>1. req[r].calls <= Prior(req[r]) + Own(req[r]) + Corrections(req[r])
      BY <2>1, <2>5, WithinTotal DEF Costed
    <3> QED
      BY <2>1, <2>2, <2>3, <3>1, Numbers
  <2> QED
    BY <2>4, <2>5
<1> QED
  BY <1>1, EveryoneBehaves, PTL
=============================================================================
