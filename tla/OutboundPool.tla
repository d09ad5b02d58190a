----------------------------- MODULE OutboundPool -----------------------------
(***************************************************************************)
(* One pool of outbound proxies (internal/outbound/pool.go, health.go): a  *)
(* rotation over its entries that passes over those that cool down after a *)
(* failure.  Three kinds of callers share it: HTTP requests, whose client  *)
(* holds the entry picked for it and replays a failed request on others;   *)
(* the dialer of the chat client, which sticks to an entry until that      *)
(* fails; and the console's health check.  The pool's entries are set when *)
(* it is made.  Latencies, the texts of errors, the number of failures and *)
(* the length of a cool-down are left out.  A dial by way of an http://    *)
(* entry passes the proxy by (pool.go:107), but picks and marks the entry. *)
(***************************************************************************)
EXTENDS Naturals, Sequences, FiniteSets

CONSTANTS
    Size,       \* entries of the pool
    Working,    \* entries with which every attempt, request or dial, succeeds
    Requests,   \* HTTP requests
    Dials,      \* connections being dialled
    MaxFails    \* bound: attempts that fail

Entries == 1..Size
ASSUME PoolAssumption == Size \in Nat \ {0} /\ MaxFails \in Nat /\ Working \subseteq Entries

VARIABLES
    cooling,    \* of each entry
    next,       \* Pool.next
    request,    \* of each HTTP request: [at, own, on, body, replays, lifted]
    sticky,     \* the dialer's entry, 0 for nil
    dial,       \* the entry each dial uses, 0 for none
    probe,      \* the entry the health check is at, 0 when there is no check
    fails       \* attempts that failed so far
poolVars == <<cooling, next, request, sticky, dial, probe, fails>>

(* "none" is a request without a body, "replayable" one that can give its  *)
(* body again, "stream" one that cannot.                                   *)
Bodies == {"none", "replayable", "stream"}
RequestIdle == [at |-> "idle", own |-> 0, on |-> 0, body |-> "none", replays |-> 0, lifted |-> FALSE]

PoolInit ==
    /\ cooling = [e \in Entries |-> FALSE]
    /\ next = 0 /\ sticky = 0 /\ probe = 0 /\ fails = 0
    /\ request = [r \in Requests |-> RequestIdle] /\ dial = [d \in Dials |-> 0]

-----------------------------------------------------------------------------
(* pick: the first entry from next on that does not cool down, or the one  *)
(* at next when all do; the rotation goes on behind it.                    *)
Pick ==
    LET at(i) == ((next + i) % Size) + 1
        ready == {i \in 0..(Size - 1) : ~cooling[at(i)]}
    IN IF ready = {} THEN at(0) ELSE at(CHOOSE i \in ready : \A k \in ready : i <= k)
Advance(e) == next' = e % Size

(* An entry is ready again: "lifted" notes it for the requests under way.  *)
Lifting(requests) ==
    [r \in Requests |-> IF requests[r].at \in {"send", "replay"}
                        THEN [requests[r] EXCEPT !.lifted = TRUE] ELSE requests[r]]
(* mark, after an attempt of any caller; requests is what becomes of these *)
(* otherwise.                                                              *)
Mark(e, ok, requests) ==
    /\ e \in Working => ok
    /\ ~ok => fails < MaxFails
    /\ fails' = IF ok THEN fails ELSE fails + 1
    /\ cooling' = [cooling EXCEPT ![e] = ~ok]
    /\ request' = IF ok /\ cooling[e] THEN Lifting(requests) ELSE requests
CoolingEnds(e) ==
    /\ cooling[e] /\ cooling' = [cooling EXCEPT ![e] = FALSE]
    /\ request' = Lifting(request)
    /\ UNCHANGED <<next, sticky, dial, probe, fails>>

-----------------------------------------------------------------------------
(* Pool.HTTPClient *)
Take(r, body) ==
    /\ request[r].at = "idle" /\ Advance(Pick)
    /\ request' = [request EXCEPT ![r] = [RequestIdle EXCEPT !.at = "send", !.own = Pick, !.on = Pick, !.body = body]]
    /\ UNCHANGED <<cooling, sticky, dial, probe, fails>>

Sent(r, ok, most) ==
    LET at == IF ok THEN "answered"
              ELSE IF request[r].body = "stream" \/ request[r].replays = most THEN "failed"
              ELSE "replay"
    IN /\ request[r].at = "send"
       /\ Mark(request[r].on, ok, [request EXCEPT ![r].at = at])
       /\ UNCHANGED <<next, sticky, dial, probe>>
(* Variant: one replay, which is what the comment of pool.go:156 says. *)
AttemptTwice(r, ok) == Sent(r, ok, 1)
(* RoundTrip: an attempt ends and marks its entry; a failed one may be     *)
(* replayed, Size + 1 times, unless its body is spent.                     *)
Attempt(r, ok) == Sent(r, ok, Size + 1)

(* The next entry of the rotation: the request is given up when that is    *)
(* its own, and a request without a body has no GetBody to call: the       *)
(* handler panics.                                                         *)
Replay(r) ==
    /\ request[r].at = "replay" /\ Advance(Pick)
    /\ LET w == request[r]
       IN request' = [request EXCEPT ![r] =
             IF Pick = w.own THEN [w EXCEPT !.at = "failed"]
             ELSE IF w.body = "none" THEN [w EXCEPT !.at = "panic"]
             ELSE [w EXCEPT !.at = "send", !.on = Pick, !.replays = w.replays + 1]]
    /\ UNCHANGED <<cooling, sticky, dial, probe, fails>>

Forget(r) ==
    /\ request[r].at \in {"answered", "failed", "panic"}
    /\ request' = [request EXCEPT ![r] = RequestIdle]
    /\ UNCHANGED <<cooling, next, sticky, dial, probe, fails>>

-----------------------------------------------------------------------------
(* WebSocketDialer: a dial takes the entry all dials stick to ...          *)
Dial(d) ==
    /\ dial[d] = 0
    /\ LET e == IF sticky = 0 THEN Pick ELSE sticky
       IN /\ dial' = [dial EXCEPT ![d] = e] /\ sticky' = e
          /\ IF sticky = 0 THEN Advance(e) ELSE UNCHANGED next
    /\ UNCHANGED <<cooling, request, probe, fails>>
(* ... and a failure lets go of it, unless they stick to another by then.  *)
DialEnds(d, ok) ==
    /\ dial[d] # 0
    /\ Mark(dial[d], ok, request)
    /\ sticky' = IF ~ok /\ sticky = dial[d] THEN 0 ELSE sticky
    /\ dial' = [dial EXCEPT ![d] = 0]
    /\ UNCHANGED <<next, probe>>

(* CheckAll: one entry after the other, marked by whether it was reached;  *)
(* the latency and the verdict it shows are left out.                      *)
Check == /\ probe = 0 /\ probe' = 1
         /\ UNCHANGED <<cooling, next, request, sticky, dial, fails>>
Checked(reached) ==
    /\ probe # 0
    /\ Mark(probe, reached, request)
    /\ probe' = (probe + 1) % (Size + 1)
    /\ UNCHANGED <<next, sticky, dial>>

PoolNext ==
    \/ \E e \in Entries : CoolingEnds(e)
    \/ \E r \in Requests : \/ \E b \in Bodies : Take(r, b)
                           \/ \E ok \in BOOLEAN : Attempt(r, ok)
                           \/ Replay(r) \/ Forget(r)
    \/ \E d \in Dials : Dial(d) \/ \E ok \in BOOLEAN : DialEnds(d, ok)
    \/ Check \/ \E ok \in BOOLEAN : Checked(ok)
PoolSpec == PoolInit /\ [][PoolNext]_poolVars

-----------------------------------------------------------------------------
(* While the pool has a proxy that works, a request whose body can be      *)
(* given again succeeds, however many of the others fail and however       *)
(* dials, checks and other requests turn the rotation, unless an entry     *)
(* came back from its cool-down meanwhile (pool.go:46-64 and 150-178).     *)
WorkingProxyFound ==
    \A r \in Requests :
        request[r].at = "failed" /\ request[r].body = "replayable" /\ Working # {} => request[r].lifted
=============================================================================
