----------------------------- MODULE TokenStore -----------------------------
(***************************************************************************)
(* The account cache of internal/auth/cache.go: accounts with their access *)
(* and refresh tokens, saved to accounts.json inside the mutex, and the    *)
(* single-flight refresh that concurrent EnsureValid callers share.        *)
(*                                                                         *)
(* Token sets are numbered in the order the token endpoint mints them;     *)
(* `at` and `rt` are the numbers an account record holds, rt = 0 standing  *)
(* for an empty refresh token.  Each member of Calls is one invocation of  *)
(* EnsureValid, each member of ImageCalls one of designerAccessToken       *)
(* (internal/web/images.go), which redeems the same refresh token outside  *)
(* the flight.                                                             *)
(***************************************************************************)
EXTENDS Naturals, FiniteSets

CONSTANTS
    Accounts,       \* account ids
    Calls,          \* invocations of EnsureValid
    ImageCalls,     \* invocations of designerAccessToken
    MaxMint,        \* bound: token sets the endpoint mints
    DiskMayFail,    \* whether atomicWrite can return an error
    MayCrash,       \* whether the process can be killed and restarted
    MayManage,      \* whether the administrator signs in or deletes accounts
    NoCall          \* no flight / no flight joined

ASSUME CallsAssumption ==
    Calls \cap ImageCalls = {} /\ NoCall \notin Calls \cup ImageCalls
ASSUME BoundsAssumption ==
    MaxMint \in Nat /\ {DiskMayFail, MayCrash, MayManage} \subseteq BOOLEAN

VARIABLES
    store,      \* s.data.Accounts, by id
    disk,       \* accounts.json
    saved,      \* whether the latest save succeeded
    expired,    \* access tokens past ExpiresAt - 30s
    minted,     \* token sets minted so far
    pc,         \* where each call is
    acct,       \* the account of each call
    snap,       \* the copy of the record the call works with
    grant,      \* what the endpoint answered the call
    flight,     \* s.inflight, by account: the call that leads the flight
    joined,     \* the flight a call takes its outcome from
    closed,     \* flights whose done channel is closed
    result,     \* access token returned (0: an error)
    persisted,  \* history: access tokens accounts.json has held
    unsaved     \* history: access tokens a failing save has not brought there

storeVars == <<store, disk, saved, persisted, unsaved>>
callVars == <<pc, acct, snap, grant, joined, result>>
flightVars == <<flight, closed>>
vars == <<storeVars, expired, minted, callVars, flightVars>>

AllCalls == Calls \cup ImageCalls
Versions == 1..MaxMint
Absent == [present |-> FALSE, at |-> 0, rt |-> 0, online |-> FALSE]
Record == [present : {TRUE}, at : 0..MaxMint, rt : 0..MaxMint, online : BOOLEAN]
             \cup {Absent}
Grant == [at : 0..MaxMint, rt : 0..MaxMint]
Refused == [at |-> 0, rt |-> 0]

(* Stages of a call that owns the flight of its account.                   *)
Leading == {"redeem", "fail", "upsert", "close", "clear"}
Stages == Leading \cup {"idle", "norefresh", "flight", "wait", "designer",
                        "rotate", "done", "dead"}

Goto(c, stage) == pc' = [pc EXCEPT ![c] = stage]

(* saveLocked: the whole list, by temp file and rename, so either the new  *)
(* contents or the old ones are on disk.                                   *)
Save(contents) ==
    /\ store' = contents
    /\ saved' \in IF DiskMayFail THEN BOOLEAN ELSE {TRUE}
    /\ disk' = IF saved' THEN contents ELSE disk
    /\ persisted' = persisted \cup {disk'[a].at : a \in Accounts}
    /\ unsaved' = unsaved \cup ({contents[a].at : a \in Accounts} \ persisted')

NoSave == UNCHANGED storeVars

(* Replace the record of a only if it is still in the list.                *)
Overwrite(a, rec) ==
    IF store[a].present THEN Save([store EXCEPT ![a] = rec]) ELSE NoSave

(* Upsert's record: an empty refresh token keeps the one already stored.   *)
Upserted(a, g) ==
    [present |-> TRUE, at |-> g.at, online |-> TRUE,
     rt |-> IF g.rt = 0 /\ store[a].present THEN store[a].rt ELSE g.rt]

Init ==
    /\ store = [a \in Accounts |-> [present |-> TRUE, at |-> 1, rt |-> 1, online |-> TRUE]]
    /\ disk = store
    /\ saved = TRUE
    /\ expired = {}
    /\ minted = 1
    /\ pc = [c \in AllCalls |-> "idle"]
    /\ acct \in [AllCalls -> Accounts]
    /\ snap = [c \in AllCalls |-> Absent]
    /\ grant = [c \in AllCalls |-> Refused]
    /\ flight = [a \in Accounts |-> NoCall]
    /\ joined = [c \in AllCalls |-> NoCall]
    /\ closed = {}
    /\ result = [c \in AllCalls |-> 0]
    /\ persisted = {0, 1}
    /\ unsaved = {}

-----------------------------------------------------------------------------
(* EnsureValid's first critical section and the tests on its copy.         *)
ReadAccount(c) ==
    LET rec == store[acct[c]] IN
    /\ pc[c] = "idle" /\ c \in Calls
    /\ snap' = [snap EXCEPT ![c] = rec]
    /\ \/ ~rec.present /\ Goto(c, "done") /\ UNCHANGED result
       \/ /\ rec.present /\ rec.at \notin expired
          /\ result' = [result EXCEPT ![c] = rec.at]
          /\ Goto(c, "done")
       \/ /\ rec.present /\ rec.at \in expired
          /\ Goto(c, IF rec.rt = 0 THEN "norefresh" ELSE "flight")
          /\ UNCHANGED result
    /\ UNCHANGED <<storeVars, expired, minted, acct, grant, joined, flightVars>>

(* No refresh token: the copy goes back into the list marked "expired".    *)
MarkExpired(c) ==
    /\ pc[c] = "norefresh"
    /\ Overwrite(acct[c], [snap[c] EXCEPT !.online = FALSE])
    /\ Goto(c, "done")
    /\ UNCHANGED <<expired, minted, acct, snap, grant, joined, result, flightVars>>

(* refreshInflight: wait for a flight that exists ...                      *)
JoinFlight(c) ==
    /\ pc[c] = "flight"
    /\ flight[acct[c]] # NoCall
    /\ joined' = [joined EXCEPT ![c] = flight[acct[c]]]
    /\ Goto(c, "wait")
    /\ UNCHANGED <<storeVars, expired, minted, acct, snap, grant, result, flightVars>>

(* ... or lead one.                                                        *)
LeadFlight(c) ==
    /\ pc[c] = "flight"
    /\ flight[acct[c]] = NoCall
    /\ flight' = [flight EXCEPT ![acct[c]] = c]
    /\ joined' = [joined EXCEPT ![c] = c]
    /\ Goto(c, "redeem")
    /\ UNCHANGED <<storeVars, expired, minted, acct, snap, grant, result, closed>>

(* The token endpoint takes the refresh token of the call's copy: it mints *)
(* a new set, with or without a new refresh token, or refuses.             *)
Endpoint(c) ==
    \/ /\ minted < MaxMint
       /\ minted' = minted + 1
       /\ \E newRt \in {0, minted + 1} :
             grant' = [grant EXCEPT ![c] = [at |-> minted + 1, rt |-> newRt]]
    \/ grant' = [grant EXCEPT ![c] = Refused] /\ UNCHANGED minted

(* Refresh(acc.RefreshToken), outside the mutex.                           *)
Redeem(c) ==
    /\ pc[c] = "redeem"
    /\ Endpoint(c)
    /\ Goto(c, IF grant'[c] = Refused THEN "fail" ELSE "upsert")
    /\ UNCHANGED <<storeVars, expired, acct, snap, joined, result, flightVars>>

(* Variant: the failure branch returns at once, as EnsureValid's does.     *)
StoreFailureReturning(c) ==
    /\ pc[c] = "fail"
    /\ Overwrite(acct[c], [snap[c] EXCEPT !.online = FALSE])
    /\ flight' = [flight EXCEPT ![acct[c]] = NoCall]
    /\ Goto(c, "done")
    /\ UNCHANGED <<expired, minted, acct, snap, grant, joined, result, closed>>

(* The failure branch writes the whole copy back, marked "expired".        *)
StoreFailure(c) ==
    /\ pc[c] = "fail"
    /\ Overwrite(acct[c], [snap[c] EXCEPT !.online = FALSE])
    /\ Goto(c, "close")
    /\ UNCHANGED <<expired, minted, acct, snap, grant, joined, result, flightVars>>

(* The success branch: Upsert, whose save error becomes the outcome.       *)
StoreGrant(c) ==
    /\ pc[c] = "upsert"
    /\ Save([store EXCEPT ![acct[c]] = Upserted(acct[c], grant[c])])
    /\ result' = [result EXCEPT ![c] = IF saved' THEN grant[c].at ELSE 0]
    /\ Goto(c, "close")
    /\ UNCHANGED <<expired, minted, acct, snap, grant, joined, flightVars>>

(* close(f.done)                                                           *)
CloseFlight(c) ==
    /\ pc[c] = "close"
    /\ closed' = closed \cup {c}
    /\ Goto(c, "clear")
    /\ UNCHANGED <<storeVars, expired, minted, acct, snap, grant, joined, result, flight>>

(* Variant: the entry stays, and later callers join a flight that is over. *)
ClearFlightForgotten(c) ==
    /\ pc[c] = "clear"
    /\ Goto(c, "done")
    /\ UNCHANGED <<storeVars, expired, minted, acct, snap, grant, joined, result, flightVars>>

(* delete(s.inflight, acc.ID)                                              *)
ClearFlight(c) ==
    /\ pc[c] = "clear"
    /\ flight' = [flight EXCEPT ![acct[c]] = NoCall]
    /\ Goto(c, "done")
    /\ UNCHANGED <<storeVars, expired, minted, acct, snap, grant, joined, result, closed>>

(* <-f.done: the leader's outcome is the waiter's.                         *)
Landed(c) ==
    /\ pc[c] = "wait"
    /\ joined[c] \in closed
    /\ result' = [result EXCEPT ![c] = result[joined[c]]]
    /\ Goto(c, "done")
    /\ UNCHANGED <<storeVars, expired, minted, acct, snap, grant, joined, flightVars>>

-----------------------------------------------------------------------------
(* designerAccessToken works on the record its request was routed with.    *)
DesignerStart(c) ==
    LET rec == store[acct[c]] IN
    /\ pc[c] = "idle" /\ c \in ImageCalls
    /\ rec.present /\ rec.at \notin expired /\ rec.rt # 0
    /\ snap' = [snap EXCEPT ![c] = rec]
    /\ Goto(c, "designer")
    /\ UNCHANGED <<storeVars, expired, minted, acct, grant, joined, result, flightVars>>

(* RefreshWithScope; a refusal, or a set without a new refresh token, ends *)
(* the call here.                                                          *)
DesignerRedeem(c) ==
    /\ pc[c] = "designer"
    /\ Endpoint(c)
    /\ Goto(c, IF grant'[c].rt = 0 THEN "done" ELSE "rotate")
    /\ UNCHANGED <<storeVars, expired, acct, snap, joined, result, flightVars>>

(* Variant: the rotated token is kept in memory only.                      *)
UpdateRefreshTokenUnsaved(c) ==
    /\ pc[c] = "rotate"
    /\ store' = [store EXCEPT ![acct[c]].rt = IF @ # 0 THEN grant[c].rt ELSE @]
    /\ Goto(c, "done")
    /\ UNCHANGED <<disk, saved, persisted, unsaved, expired, minted, acct, snap, grant,
                   joined, result, flightVars>>

(* UpdateRefreshToken: only the refresh token, of the account by id.       *)
UpdateRefreshToken(c) ==
    /\ pc[c] = "rotate"
    /\ Overwrite(acct[c], [store[acct[c]] EXCEPT !.rt = grant[c].rt])
    /\ Goto(c, "done")
    /\ UNCHANGED <<expired, minted, acct, snap, grant, joined, result, flightVars>>

(* The administrator signs an account in with a password                   *)
(* (provisionAccount).                                                     *)
Login(a) ==
    /\ MayManage /\ minted < MaxMint
    /\ minted' = minted + 1
    /\ \E newRt \in {0, minted + 1} :
          Save([store EXCEPT ![a] = Upserted(a, [at |-> minted + 1, rt |-> newRt])])
    /\ UNCHANGED <<expired, callVars, flightVars>>

(* The administrator deletes it.                                           *)
Delete(a) ==
    /\ MayManage /\ store[a].present
    /\ Save([store EXCEPT ![a] = Absent])
    /\ UNCHANGED <<expired, minted, callVars, flightVars>>

(* Time passes for an access token.                                        *)
Expire(v) ==
    /\ v \in 1..minted /\ v \notin expired
    /\ expired' = expired \cup {v}
    /\ UNCHANGED <<storeVars, minted, callVars, flightVars>>

(* The process is killed; OpenStore reads what is on disk.                 *)
Restart ==
    /\ MayCrash
    /\ \E c \in AllCalls : pc[c] \notin {"idle", "done", "dead"}
    /\ store' = disk
    /\ saved' = TRUE
    /\ pc' = [c \in AllCalls |-> IF pc[c] \in {"idle", "done"} THEN pc[c] ELSE "dead"]
    /\ flight' = [a \in Accounts |-> NoCall]
    /\ UNCHANGED <<disk, persisted, unsaved, expired, minted, acct, snap, grant,
                   joined, closed, result>>

CallStep(c) ==
    \/ MarkExpired(c) \/ JoinFlight(c) \/ LeadFlight(c) \/ Redeem(c)
    \/ StoreFailure(c) \/ StoreGrant(c) \/ CloseFlight(c) \/ ClearFlight(c)
    \/ Landed(c) \/ DesignerRedeem(c) \/ UpdateRefreshToken(c)

Next ==
    \/ \E c \in AllCalls : ReadAccount(c) \/ DesignerStart(c) \/ CallStep(c)
    \/ \E a \in Accounts : Login(a) \/ Delete(a)
    \/ \E v \in Versions : Expire(v)
    \/ Restart

(* The scheduler runs every goroutine, and the token endpoint answers or   *)
(* the connection breaks: Refresh has no timeout of its own, so this part  *)
(* is an assumption on the network.                                        *)
Fairness == \A c \in AllCalls : WF_vars(CallStep(c))

Spec == Init /\ [][Next]_vars
FairSpec == Spec /\ Fairness

-----------------------------------------------------------------------------
(* Every variable keeps its type and range.                                *)
TypeOK ==
    /\ store \in [Accounts -> Record]
    /\ disk \in [Accounts -> Record]
    /\ saved \in BOOLEAN
    /\ expired \subseteq Versions
    /\ minted \in 1..MaxMint
    /\ pc \in [AllCalls -> Stages]
    /\ acct \in [AllCalls -> Accounts]
    /\ snap \in [AllCalls -> Record]
    /\ grant \in [AllCalls -> Grant]
    /\ flight \in [Accounts -> Calls \cup {NoCall}]
    /\ joined \in [AllCalls -> Calls \cup {NoCall}]
    /\ closed \subseteq Calls
    /\ result \in [AllCalls -> 0..MaxMint]
    /\ persisted \subseteq 0..MaxMint
    /\ unsaved \subseteq 0..MaxMint

(* The flight table says exactly who is refreshing: no entry outlives its  *)
(* call (later callers would wait on it for ever), none is removed by      *)
(* another call, and so no account is refreshed by two calls at a time.    *)
FlightTableExact ==
    \A c \in AllCalls : pc[c] \in Leading <=> c \in Calls /\ flight[acct[c]] = c
OneRefreshAtATime ==
    \A c, d \in AllCalls :
        pc[c] \in Leading /\ pc[d] \in Leading /\ acct[c] = acct[d] => c = d
SingleFlight == FlightTableExact /\ OneRefreshAtATime

(* Every mutation is saved before the mutex is given up: unless the last   *)
(* save failed, a restart finds the accounts as they were in memory.       *)
DiskCurrent == saved => disk = store

(* A refresh is reported as successful, to its leader and to everyone who  *)
(* joined it, only when the new tokens have reached the disk: the old      *)
(* refresh token is spent, so a crash would otherwise lose the account.    *)
SuccessIsDurable ==
    \A c \in Calls : joined[c] # NoCall /\ result[c] # 0 => result[c] \in persisted

(* A call that finds memory's token good answers it without asking whether *)
(* it was saved.  What it hands out has been in the file, unless a save    *)
(* failed while memory held it: nothing else keeps a token from the disk.  *)
HandedOutIsAccounted ==
    \A c \in Calls : result[c] \in persisted \cup unsaved

(* No caller is left behind on a flight: every call that needs a refresh   *)
(* gets its leader's outcome or its own.                                   *)
EveryCallReturns ==
    \A c \in AllCalls : pc[c] = "flight" ~> pc[c] \in {"done", "dead"}
=============================================================================
