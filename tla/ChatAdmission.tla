--------------------------- MODULE ChatAdmission ---------------------------
(***************************************************************************)
(* Admission of upstream chat calls (internal/web/account_concurrency.go   *)
(* and the chat slots of internal/web/diag.go).                            *)
(*                                                                         *)
(* Every invocation of chatWithAccount, chatWithAccountEvents or           *)
(* chatWithAccountReasoning is one member of Calls.  It takes a slot of    *)
(* the process-wide buffered channel chatSlots, then a slot of its         *)
(* account in accountConcurrency, talks to the upstream, and gives both    *)
(* back in the reverse order (the deferred releases).                      *)
(*                                                                         *)
(* A goroutine that finds its account full remembers the current `changed` *)
(* channel under the mutex and sleeps on it; a release closes that channel *)
(* and installs a new one.  `waiting` is the set of calls whose remembered *)
(* channel is the one currently installed, hence not closed.               *)
(***************************************************************************)
EXTENDS Naturals, FiniteSets

CONSTANTS
    Calls,          \* invocations of chatWithAccount*
    Accounts,       \* account ids
    GlobalLimit,    \* maxConcurrentChats(): M365_MAX_CONCURRENT_CHATS
    AccountLimit    \* accountConcurrency.limit: M365_ACCOUNT_DEFAULT_CONCURRENCY

ASSUME CallsAssumption == IsFiniteSet(Calls)
ASSUME LimitsAssumption ==
    /\ GlobalLimit \in Nat \ {0}
    /\ AccountLimit \in Nat \ {0}

VARIABLES
    pc,         \* where each call is
    acct,       \* the accountID argument of each call
    slots,      \* len(chatSlots)
    inflight,   \* accountConcurrency.inflight (an absent key counts 0)
    waiting,    \* calls sleeping on the current `changed` channel
    expired,    \* calls whose context is done (timeout or client gone)
    peak,       \* chatSlotPeak
    total,      \* chatSlotTotal
    rejected    \* chatSlotRejected

vars == <<pc, acct, slots, inflight, waiting, expired, peak, total, rejected>>

(* idle: not called yet; global: in acquireChatSlot's select; counting: slot *)
(* taken, statistics not yet; account: at the top of Acquire's loop; parked: *)
(* in Acquire's select; chat: the upstream call; unwind: only the deferred   *)
(* globalRelease is left.                                                    *)
Stages == {"idle", "global", "counting", "account", "parked", "chat",
           "unwind", "done"}

GlobalHolders == {c \in Calls : pc[c] \in {"counting", "account", "parked",
                                           "chat", "unwind"}}
AccountHolders(a) == {c \in Calls : pc[c] = "chat" /\ acct[c] = a}

Goto(c, stage) == pc' = [pc EXCEPT ![c] = stage]

Init ==
    /\ pc = [c \in Calls |-> "idle"]
    /\ acct \in [Calls -> Accounts]
    /\ slots = 0
    /\ inflight = [a \in Accounts |-> 0]
    /\ waiting = {}
    /\ expired = {}
    /\ peak = 0
    /\ total = 0
    /\ rejected = 0

-----------------------------------------------------------------------------
(* The call enters acquireChatSlot.                                        *)
Enter(c) ==
    /\ pc[c] = "idle"
    /\ Goto(c, "global")
    /\ UNCHANGED <<acct, slots, inflight, waiting, expired, peak, total, rejected>>

(* Its context ends: the chat timeout, or the client disconnects.          *)
Expire(c) ==
    /\ pc[c] \notin {"idle", "done"}
    /\ c \notin expired
    /\ expired' = expired \cup {c}
    /\ UNCHANGED <<pc, acct, slots, inflight, waiting, peak, total, rejected>>

(* `case slots <- struct{}{}`: room in the buffered channel.               *)
AcquireGlobal(c) ==
    /\ pc[c] = "global"
    /\ slots < GlobalLimit
    /\ slots' = slots + 1
    /\ Goto(c, "counting")
    /\ UNCHANGED <<acct, inflight, waiting, expired, peak, total, rejected>>

(* The statistics are taken under chatSlotsMu after the send, from the     *)
(* length the channel has by then.                                         *)
CountGlobal(c) ==
    /\ pc[c] = "counting"
    /\ total' = total + 1
    /\ peak' = IF slots > peak THEN slots ELSE peak
    /\ Goto(c, "account")
    /\ UNCHANGED <<acct, slots, inflight, waiting, expired, rejected>>

(* `case <-ctx.Done()`: the call is refused and holds nothing.             *)
RejectGlobal(c) ==
    /\ pc[c] = "global"
    /\ c \in expired
    /\ rejected' = rejected + 1
    /\ Goto(c, "done")
    /\ UNCHANGED <<acct, slots, inflight, waiting, expired, peak, total>>

(* Variant: the limit itself is still let in.                              *)
AcquireAccountOffByOne(c) ==
    /\ pc[c] = "account"
    /\ inflight[acct[c]] <= AccountLimit
    /\ inflight' = [inflight EXCEPT ![acct[c]] = @ + 1]
    /\ Goto(c, "chat")
    /\ UNCHANGED <<acct, slots, waiting, expired, peak, total, rejected>>

(* One pass of Acquire's loop under c.mu: count the call in, ...           *)
AcquireAccount(c) ==
    /\ pc[c] = "account"
    /\ inflight[acct[c]] < AccountLimit
    /\ inflight' = [inflight EXCEPT ![acct[c]] = @ + 1]
    /\ Goto(c, "chat")
    /\ UNCHANGED <<acct, slots, waiting, expired, peak, total, rejected>>

(* ... or remember the current channel and go to sleep on it.              *)
Park(c) ==
    /\ pc[c] = "account"
    /\ inflight[acct[c]] >= AccountLimit
    /\ waiting' = waiting \cup {c}
    /\ Goto(c, "parked")
    /\ UNCHANGED <<acct, slots, inflight, expired, peak, total, rejected>>

(* `case <-changed`: the remembered channel has been closed.               *)
Wake(c) ==
    /\ pc[c] = "parked"
    /\ c \notin waiting
    /\ Goto(c, "account")
    /\ UNCHANGED <<acct, slots, inflight, waiting, expired, peak, total, rejected>>

(* Variant: the early return forgets the global slot.                      *)
GiveUpLeaking(c) ==
    /\ pc[c] = "parked"
    /\ c \in expired
    /\ waiting' = waiting \ {c}
    /\ Goto(c, "done")
    /\ UNCHANGED <<acct, slots, inflight, expired, peak, total, rejected>>

(* `case <-ctx.Done()` in Acquire: only globalRelease was deferred.        *)
GiveUp(c) ==
    /\ pc[c] = "parked"
    /\ c \in expired
    /\ waiting' = waiting \ {c}
    /\ Goto(c, "unwind")
    /\ UNCHANGED <<acct, slots, inflight, expired, peak, total, rejected>>

(* Variant: the counter goes down but the channel is not closed.           *)
ReleaseAccountSilently(c) ==
    /\ pc[c] = "chat"
    /\ inflight' = [inflight EXCEPT ![acct[c]] = IF @ <= 1 THEN 0 ELSE @ - 1]
    /\ Goto(c, "unwind")
    /\ UNCHANGED <<acct, slots, waiting, expired, peak, total, rejected>>

(* The account's release, once the upstream call has returned: the counter *)
(* goes down (deleted at one), every sleeper of every account is woken.    *)
ReleaseAccount(c) ==
    /\ pc[c] = "chat"
    /\ inflight' = [inflight EXCEPT ![acct[c]] = IF @ <= 1 THEN 0 ELSE @ - 1]
    /\ waiting' = {}
    /\ Goto(c, "unwind")
    /\ UNCHANGED <<acct, slots, expired, peak, total, rejected>>

(* globalRelease: a non-blocking receive from the same channel.            *)
ReleaseGlobal(c) ==
    /\ pc[c] = "unwind"
    /\ slots' = IF slots > 0 THEN slots - 1 ELSE slots
    /\ Goto(c, "done")
    /\ UNCHANGED <<acct, inflight, waiting, expired, peak, total, rejected>>

Progress(c) ==
    \/ AcquireGlobal(c) \/ CountGlobal(c) \/ RejectGlobal(c)
    \/ AcquireAccount(c) \/ Park(c) \/ Wake(c) \/ GiveUp(c)
    \/ ReleaseAccount(c) \/ ReleaseGlobal(c)

Next == \E c \in Calls : Enter(c) \/ Expire(c) \/ Progress(c)

(* The Go scheduler runs every runnable goroutine and the upstream call    *)
(* returns at the latest when its context ends, so a call that can take a  *)
(* step eventually does.  Nothing forces a client to call or to go away.   *)
Fairness == \A c \in Calls : WF_vars(Progress(c))

Spec == Init /\ [][Next]_vars
FairSpec == Spec /\ Fairness

-----------------------------------------------------------------------------
(* Every variable keeps its type and range.                                *)
TypeOK ==
    /\ pc \in [Calls -> Stages]
    /\ acct \in [Calls -> Accounts]
    /\ slots \in Nat
    /\ inflight \in [Accounts -> Nat]
    /\ waiting \subseteq Calls
    /\ expired \subseteq Calls
    /\ peak \in Nat
    /\ total \in Nat
    /\ rejected \in Nat

(* No release is lost and none happens twice: the counters are exactly the *)
(* numbers of calls that hold a slot, on every path (refusal, giving up    *)
(* while parked, normal return).                                           *)
SlotsAccounted == slots = Cardinality(GlobalHolders)
InflightAccounted ==
    \A a \in Accounts : inflight[a] = Cardinality(AccountHolders(a))
Conservation == SlotsAccounted /\ InflightAccounted

(* The two limits bound the calls that really are upstream, not merely the *)
(* counters: AccountLimit per account and GlobalLimit in total.            *)
UpstreamBounded ==
    /\ \A a \in Accounts : Cardinality(AccountHolders(a)) <= AccountLimit
    /\ Cardinality(GlobalHolders) <= GlobalLimit

(* A call asleep on a channel nobody has closed really has to wait: its    *)
(* account is full, so a release that will close the channel is still to   *)
(* come.  (The channel is read under the mutex that guards the counter.)   *)
NoLostWakeup ==
    \A c \in waiting : inflight[acct[c]] >= AccountLimit

(* Every call that asks for a slot is eventually over: no wake-up is       *)
(* missed, and two calls never wait for each other.                        *)
EveryCallEnds == \A c \in Calls : pc[c] = "global" ~> pc[c] = "done"
=============================================================================
