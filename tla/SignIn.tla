-------------------------------- MODULE SignIn --------------------------------
(***************************************************************************)
(* Signing accounts in with PKCE (startPKCE, pkceStatus and callbackPKCE   *)
(* of internal/web/server.go) into the account store.  A callback works on *)
(* a copy of the pending sign-in, taken before the code is exchanged, and  *)
(* writes the copy back with its outcome; neither the state nor the code   *)
(* is taken out of the table, so that several callbacks may be at work on  *)
(* one sign-in.  The table is not saved.                                   *)
(***************************************************************************)
EXTENDS TokenStore

CONSTANTS
    Logins,     \* the random states of sign-ins
    Callbacks   \* invocations of callbackPKCE

VARIABLES
    pkce,   \* s.pkce, by state
    begun,  \* states given out
    late,   \* states given out more than 10 minutes ago
    cb      \* the callbacks: stage, state, copy, account and the set minted

signVars == <<pkce, begun, late, cb>>

(* account is the access token the reported account was stored with.       *)
Pending == [status |-> "pending", account |-> 0, error |-> FALSE]
Unknown == [status |-> "expired", account |-> 0, error |-> FALSE]
Entry == [status : {"pending", "error", "authenticated"}, account : 0..MaxMint, error : BOOLEAN]

NotCalled == [stage |-> "idle"]
Step(k, rec) == cb' = [cb EXCEPT ![k] = rec]
At(k, stage) == cb[k].stage = stage

InitSignIn ==
    /\ pkce = [s \in Logins |-> Unknown]
    /\ begun = {} /\ late = {}
    /\ cb = [k \in Callbacks |-> NotCalled]

(* startPKCE                                                               *)
StartPKCE(s) ==
    /\ s \notin begun
    /\ begun' = begun \cup {s}
    /\ pkce' = [pkce EXCEPT ![s] = Pending]
    /\ UNCHANGED <<vars, late, cb>>

GrowLate(s) ==
    /\ s \in begun \ late
    /\ late' = late \cup {s}
    /\ UNCHANGED <<vars, pkce, begun, cb>>

(* pkceStatus forgets a sign-in that is too old.                           *)
PKCEStatus(s) ==
    /\ pkce[s] # Unknown /\ s \in late
    /\ pkce' = [pkce EXCEPT ![s] = Unknown]
    /\ UNCHANGED <<vars, begun, late, cb>>

(* callbackPKCE up to the unlock: what it goes on with is a copy.          *)
TakePending(k, s) ==
    /\ At(k, "idle") /\ s \in begun
    /\ Step(k, IF pkce[s] = Unknown \/ s \in late THEN [stage |-> "refused"]
               ELSE [stage |-> "exchange", state |-> s, copy |-> pkce[s]])
    /\ UNCHANGED <<vars, pkce, begun, late>>

(* ExchangeCode: a set for one of the accounts, or an error, which is      *)
(* written into the table and answered.                                    *)
ExchangeCode(k) ==
    /\ At(k, "exchange")
    /\ \/ /\ minted < MaxMint
          /\ minted' = minted + 1
          /\ \E a \in Accounts, rt \in {0, minted + 1} :
                Step(k, [stage |-> "upsert", state |-> cb[k].state, copy |-> cb[k].copy,
                         account |-> a, set |-> [at |-> minted + 1, rt |-> rt]])
       \/ /\ Step(k, [stage |-> "error", state |-> cb[k].state, copy |-> cb[k].copy])
          /\ UNCHANGED minted
    /\ UNCHANGED <<storeVars, expired, callVars, flightVars, pkce, begun, late>>

Stored(k) ==
    [stage |-> "stored", state |-> cb[k].state, copy |-> cb[k].copy, set |-> cb[k].set]

(* Variant: the error of Upsert is ignored.                                *)
StoreAccountUnchecked(k) ==
    /\ At(k, "upsert")
    /\ Save([store EXCEPT ![cb[k].account] = Upserted(cb[k].account, cb[k].set)])
    /\ Step(k, Stored(k))
    /\ UNCHANGED <<expired, minted, callVars, flightVars, pkce, begun, late>>

(* Upsert saves the account; its error becomes the sign-in's.              *)
StoreAccount(k) ==
    /\ At(k, "upsert")
    /\ Save([store EXCEPT ![cb[k].account] = Upserted(cb[k].account, cb[k].set)])
    /\ Step(k, IF saved' THEN Stored(k)
               ELSE [stage |-> "error", state |-> cb[k].state, copy |-> cb[k].copy])
    /\ UNCHANGED <<expired, minted, callVars, flightVars, pkce, begun, late>>

(* The copy goes back into the table, even of a sign-in that another       *)
(* callback has finished or pkceStatus has forgotten meanwhile.            *)
WriteError(k) ==
    /\ At(k, "error")
    /\ pkce' = [pkce EXCEPT ![cb[k].state] = [cb[k].copy EXCEPT !.status = "error", !.error = TRUE]]
    /\ Step(k, [stage |-> "refused"])
    /\ UNCHANGED <<vars, begun, late>>

WriteAuthenticated(k) ==
    /\ At(k, "stored")
    /\ pkce' = [pkce EXCEPT ![cb[k].state] =
                  [cb[k].copy EXCEPT !.status = "authenticated", !.account = cb[k].set.at]]
    /\ Step(k, [stage |-> "authenticated"])
    /\ UNCHANGED <<vars, begun, late>>

(* The table and the callbacks die with the process.                       *)
RestartSignIn ==
    /\ Restart
    /\ pkce' = [s \in Logins |-> Unknown]
    /\ cb' = [k \in Callbacks |-> [stage |-> IF At(k, "idle") THEN "idle" ELSE "refused"]]
    /\ UNCHANGED <<begun, late>>

StoreNext ==
    \/ \E c \in AllCalls : ReadAccount(c) \/ DesignerStart(c) \/ CallStep(c)
    \/ \E a \in Accounts : Login(a) \/ Delete(a)
    \/ \E v \in Versions : Expire(v)

SignInNext ==
    \/ \E s \in Logins : StartPKCE(s) \/ GrowLate(s) \/ PKCEStatus(s)
    \/ \E k \in Callbacks :
          \/ \E s \in Logins : TakePending(k, s)
          \/ ExchangeCode(k) \/ StoreAccount(k) \/ WriteError(k) \/ WriteAuthenticated(k)
    \/ RestartSignIn
    \/ StoreNext /\ UNCHANGED signVars

SignInSpec == Init /\ InitSignIn /\ [][SignInNext]_<<vars, signVars>>

-----------------------------------------------------------------------------
(* A sign-in that the console is told has succeeded has reached            *)
(* accounts.json, whichever of several callbacks wrote its outcome over    *)
(* the others', and whatever saves failed and restarts came between.       *)
SignInIsDurable ==
    \A s \in Logins :
        pkce[s].status = "authenticated" => pkce[s].account \in persisted \ {0}

(* The outcome of a refresh, for its leader and for who joined its flight  *)
(* (cache.go), and of a sign-in, as the console polls it (callbackPKCE,    *)
(* pkceStatus), is a success only when the tokens have been on disk: the   *)
(* refresh token or the code they were bought with is spent.  After a      *)
(* failed save the outcome is an error, but memory keeps the tokens, and   *)
(* the next EnsureValid hands them out: only then is what a call answers   *)
(* not in the file.  Of image requests, which go on after a failed save,   *)
(* nothing is said.                                                        *)
OutcomesAreDurable == SuccessIsDurable /\ HandedOutIsAccounted /\ SignInIsDurable
=============================================================================
