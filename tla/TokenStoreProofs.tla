-------------------------- MODULE TokenStoreProofs --------------------------
(***************************************************************************)
(* Safety of TokenStore for every set of accounts and calls: the refresh   *)
(* is single-flight per account, and the file on disk is current whenever  *)
(* the last save succeeded; and of SignIn, which signs accounts in to it:  *)
(* no refresh or sign-in ends as a success before its tokens are on disk.  *)
(***************************************************************************)
EXTENDS SignIn, TLAPS

(* Every mutation of the account list goes through saveLocked or replaces   *)
(* both the list and the file.                                              *)
LEMMA DiskStep == DiskCurrent /\ [Next]_vars => DiskCurrent'
<1> SUFFICES ASSUME DiskCurrent, [Next]_vars PROVE DiskCurrent'
  OBVIOUS
<1> USE DEF DiskCurrent
<1>1. ASSUME NEW contents, Save(contents) PROVE DiskCurrent'
  BY <1>1 DEF Save
<1>2. ASSUME UNCHANGED storeVars PROVE DiskCurrent'
  BY <1>2 DEF storeVars
<1>3. ASSUME NEW a, NEW rec, Overwrite(a, rec) PROVE DiskCurrent'
  BY <1>1, <1>2, <1>3 DEF Overwrite, NoSave
<1>4. ASSUME NEW c \in AllCalls, MarkExpired(c) PROVE DiskCurrent'
  BY <1>3, <1>4 DEF MarkExpired
<1>5. ASSUME NEW c \in AllCalls, StoreFailure(c) PROVE DiskCurrent'
  BY <1>3, <1>5 DEF StoreFailure
<1>6. ASSUME NEW c \in AllCalls, UpdateRefreshToken(c) PROVE DiskCurrent'
  BY <1>3, <1>6 DEF UpdateRefreshToken
<1>7. ASSUME NEW c \in AllCalls, StoreGrant(c) PROVE DiskCurrent'
  BY <1>1, <1>7 DEF StoreGrant
<1>8. ASSUME NEW a \in Accounts, Login(a) PROVE DiskCurrent'
  BY <1>1, <1>8 DEF Login
<1>9. ASSUME NEW a \in Accounts, Delete(a) PROVE DiskCurrent'
  BY <1>1, <1>9 DEF Delete
<1>10. CASE Restart
  BY <1>10 DEF Restart
<1>11. ASSUME NEW c \in AllCalls,
              \/ ReadAccount(c) \/ DesignerStart(c) \/ JoinFlight(c)
              \/ LeadFlight(c) \/ Redeem(c) \/ CloseFlight(c)
              \/ ClearFlight(c) \/ Landed(c) \/ DesignerRedeem(c)
       PROVE  DiskCurrent'
  BY <1>2, <1>11 DEF ReadAccount, DesignerStart, JoinFlight, LeadFlight, Redeem,
     CloseFlight, ClearFlight, Landed, DesignerRedeem
<1>12. ASSUME NEW v \in Versions, Expire(v) PROVE DiskCurrent'
  BY <1>2, <1>12 DEF Expire
<1>13. CASE UNCHANGED vars
  BY <1>2, <1>13 DEF vars
<1> QED
  BY <1>4, <1>5, <1>6, <1>7, <1>8, <1>9, <1>10, <1>11, <1>12, <1>13
  DEF Next, CallStep

(* The file mirrors memory unless the last save failed.                     *)
THEOREM DiskIsCurrent == Spec => []DiskCurrent
<1>1. Init => DiskCurrent
  BY DEF Init, DiskCurrent
<1> QED
  BY <1>1, DiskStep, PTL DEF Spec

-----------------------------------------------------------------------------
(* The part of TypeOK the flight table needs.                              *)
FlightTypes ==
    /\ pc \in [AllCalls -> Stages]
    /\ acct \in [AllCalls -> Accounts]
    /\ flight \in [Accounts -> Calls \cup {NoCall}]

FlightInv ==
    /\ FlightTypes
    /\ \A c \in AllCalls :
          pc[c] \in {"flight", "norefresh", "wait"} \cup Leading => c \in Calls
    /\ FlightTableExact

LEMMA CallsAreCalls == Calls \subseteq AllCalls /\ NoCall \notin AllCalls
BY CallsAssumption DEF AllCalls

(* A step between two stages outside a flight leaves the table exact.      *)
LEMMA OutsideFlight ==
    ASSUME FlightInv, NEW c \in AllCalls, NEW s \in Stages, Goto(c, s),
           pc[c] \notin Leading, s \notin Leading,
           s \in {"flight", "norefresh", "wait"} => c \in Calls,
           acct' = acct, flight' = flight
    PROVE  FlightInv'
BY DEF FlightInv, FlightTypes, FlightTableExact, Goto, Leading

(* So does a step of a leader that stays one.                              *)
LEMMA InsideFlight ==
    ASSUME FlightInv, NEW c \in AllCalls, NEW s \in Leading, Goto(c, s),
           pc[c] \in Leading, acct' = acct, flight' = flight
    PROVE  FlightInv'
BY DEF FlightInv, FlightTypes, FlightTableExact, Goto, Leading, Stages

LEMMA FlightStep == FlightInv /\ [Next]_vars => FlightInv'
<1> SUFFICES ASSUME FlightInv, [Next]_vars PROVE FlightInv'
  OBVIOUS
<1> USE DEF callVars, flightVars
<1>1. ASSUME NEW c \in AllCalls, ReadAccount(c) PROVE FlightInv'
  BY <1>1, OutsideFlight DEF ReadAccount, Stages, Leading
<1>2. ASSUME NEW c \in AllCalls, DesignerStart(c) PROVE FlightInv'
  BY <1>2, OutsideFlight DEF DesignerStart, Stages, Leading
<1>3. ASSUME NEW c \in AllCalls, MarkExpired(c) PROVE FlightInv'
  BY <1>3, OutsideFlight DEF MarkExpired, Stages, Leading
<1>4. ASSUME NEW c \in AllCalls, JoinFlight(c) PROVE FlightInv'
  <2>1. c \in Calls
    BY <1>4 DEF JoinFlight, FlightInv
  <2> QED
    BY <1>4, <2>1, OutsideFlight DEF JoinFlight, Stages, Leading
<1>5. ASSUME NEW c \in AllCalls, LeadFlight(c) PROVE FlightInv'
  <2>1. c \in Calls /\ acct[c] \in Accounts /\ c # NoCall
    BY <1>5, CallsAreCalls DEF LeadFlight, FlightInv, FlightTypes
  <2>2. \A d \in AllCalls \ {c} : flight[acct[d]]' = d <=> flight[acct[d]] = d
    BY <1>5, <2>1, CallsAreCalls DEF LeadFlight, FlightInv, FlightTypes
  <2> QED
    BY <1>5, <2>1, <2>2
    DEF LeadFlight, Goto, FlightInv, FlightTypes, FlightTableExact, Leading, Stages
<1>6. ASSUME NEW c \in AllCalls, Redeem(c) PROVE FlightInv'
  BY <1>6, InsideFlight DEF Redeem, Leading
<1>7. ASSUME NEW c \in AllCalls, StoreFailure(c) PROVE FlightInv'
  BY <1>7, InsideFlight DEF StoreFailure, Leading
<1>8. ASSUME NEW c \in AllCalls, StoreGrant(c) PROVE FlightInv'
  BY <1>8, InsideFlight DEF StoreGrant, Leading
<1>9. ASSUME NEW c \in AllCalls, CloseFlight(c) PROVE FlightInv'
  BY <1>9, InsideFlight DEF CloseFlight, Leading
<1>10. ASSUME NEW c \in AllCalls, ClearFlight(c) PROVE FlightInv'
  <2>1. c \in Calls /\ flight[acct[c]] = c /\ acct[c] \in Accounts
    BY <1>10 DEF ClearFlight, FlightInv, FlightTableExact, FlightTypes, Leading
  <2>2. \A d \in AllCalls \ {c} : flight[acct[d]]' = d <=> flight[acct[d]] = d
    BY <1>10, <2>1, CallsAreCalls DEF ClearFlight, FlightInv, FlightTypes
  <2>3. flight'[acct[c]] # c
    BY <1>10, <2>1, CallsAreCalls DEF ClearFlight, FlightInv, FlightTypes
  <2> QED
    BY <1>10, <2>1, <2>2, <2>3
    DEF ClearFlight, Goto, FlightInv, FlightTypes, FlightTableExact, Leading, Stages
<1>11. ASSUME NEW c \in AllCalls, Landed(c) PROVE FlightInv'
  BY <1>11, OutsideFlight DEF Landed, Stages, Leading
<1>12. ASSUME NEW c \in AllCalls, DesignerRedeem(c) PROVE FlightInv'
  BY <1>12, OutsideFlight DEF DesignerRedeem, Stages, Leading
<1>13. ASSUME NEW c \in AllCalls, UpdateRefreshToken(c) PROVE FlightInv'
  BY <1>13, OutsideFlight DEF UpdateRefreshToken, Stages, Leading
<1>14. ASSUME UNCHANGED <<pc, acct, flight>> PROVE FlightInv'
  BY <1>14 DEF FlightInv, FlightTypes, FlightTableExact
<1>15. ASSUME NEW a \in Accounts, Login(a) \/ Delete(a) PROVE FlightInv'
  BY <1>14, <1>15 DEF Login, Delete
<1>16. ASSUME NEW v \in Versions, Expire(v) PROVE FlightInv'
  BY <1>14, <1>16 DEF Expire
<1>17. CASE Restart
  BY <1>17, CallsAreCalls
  DEF Restart, FlightInv, FlightTypes, FlightTableExact, Leading, Stages
<1>18. CASE UNCHANGED vars
  BY <1>14, <1>18 DEF vars
<1> QED
  BY <1>1, <1>2, <1>3, <1>4, <1>5, <1>6, <1>7, <1>8, <1>9, <1>10, <1>11, <1>12,
     <1>13, <1>15, <1>16, <1>17, <1>18 DEF Next, CallStep

(* Single flight: the table names exactly the calls that are refreshing, so *)
(* no two calls refresh the same account at a time and no entry is left     *)
(* behind for later callers to wait on.                                     *)
THEOREM RefreshIsSingleFlight == Spec => []SingleFlight
<1>1. Init => FlightInv
  BY CallsAreCalls DEF Init, FlightInv, FlightTypes, FlightTableExact, Leading, Stages
<1>2. FlightInv => SingleFlight
  BY DEF FlightInv, FlightTypes, SingleFlight, FlightTableExact, OneRefreshAtATime
<1> QED
  BY <1>1, <1>2, FlightStep, PTL DEF Spec

-----------------------------------------------------------------------------
(* What the outcomes of calls rest on: whoever is in a flight shares it    *)
(* with a call that is in one too, a call that has not refreshed has no    *)
(* outcome, and every outcome of a flight has been in the file.            *)
OutcomeTypes ==
    /\ DOMAIN store = Accounts /\ DOMAIN disk = Accounts
    /\ DOMAIN result = AllCalls
    /\ joined \in [AllCalls -> Calls \cup {NoCall}]

OutcomeInv ==
    /\ OutcomeTypes
    /\ FlightInv
    /\ \A a \in Accounts : flight[a] # NoCall => joined[flight[a]] # NoCall
    /\ \A c \in AllCalls :
          /\ joined[c] # NoCall => joined[joined[c]] # NoCall
          /\ pc[c] = "idle" => joined[c] = NoCall
          /\ pc[c] \in {"idle", "flight"} => result[c] = 0
    /\ SuccessIsDurable

(* Whatever is saved stays known as saved; on success the new contents are *)
(* what the file holds.                                                    *)
LEMMA SaveRemembers ==
    ASSUME OutcomeTypes, NEW contents, DOMAIN contents = Accounts, Save(contents)
    PROVE  /\ DOMAIN store' = Accounts /\ DOMAIN disk' = Accounts
           /\ persisted \subseteq persisted'
           /\ saved' => \A a \in Accounts : contents[a].at \in persisted'
BY DEF Save, OutcomeTypes

LEMMA OverwriteRemembers ==
    ASSUME OutcomeTypes, NEW a, NEW rec, Overwrite(a, rec)
    PROVE  /\ DOMAIN store' = Accounts /\ DOMAIN disk' = Accounts
           /\ persisted \subseteq persisted'
<1>1. DOMAIN [store EXCEPT ![a] = rec] = Accounts
  BY DEF OutcomeTypes
<1> QED
  BY <1>1, SaveRemembers DEF Overwrite, NoSave, storeVars, OutcomeTypes

(* A step that gives nobody an outcome and puts nobody in a flight.        *)
LEMMA NoOutcome ==
    ASSUME OutcomeInv, FlightInv',
           DOMAIN store' = Accounts, DOMAIN disk' = Accounts,
           persisted \subseteq persisted',
           UNCHANGED <<joined, result>>,
           \A a \in Accounts : flight'[a] \in {flight[a], NoCall},
           \A d \in AllCalls :
              /\ pc'[d] = "idle" => pc[d] = "idle"
              /\ pc'[d] = "flight" => pc[d] \in {"idle", "flight"}
    PROVE  OutcomeInv'
BY CallsAreCalls DEF OutcomeInv, OutcomeTypes, SuccessIsDurable

LEMMA CallOutcome ==
    ASSUME OutcomeInv, FlightInv', NEW c \in AllCalls,
           ReadAccount(c) \/ DesignerStart(c) \/ CallStep(c)
    PROVE  OutcomeInv'
<1> USE DEF callVars, flightVars, storeVars
<1>0. /\ pc \in [AllCalls -> Stages] /\ acct[c] \in Accounts
      /\ flight \in [Accounts -> Calls \cup {NoCall}]
      /\ DOMAIN store = Accounts /\ DOMAIN disk = Accounts
      /\ OutcomeTypes
  BY DEF OutcomeInv, FlightInv, FlightTypes, OutcomeTypes
<1>1. CASE ReadAccount(c)
  <2>1. joined[c] = NoCall /\ result[c] = 0
    BY <1>1 DEF ReadAccount, OutcomeInv
  <2>2. \A d \in AllCalls \ {c} : result'[d] = result[d] /\ pc'[d] = pc[d]
    BY <1>0, <1>1 DEF ReadAccount, Goto, OutcomeTypes
  <2>3. pc'[c] # "idle" /\ (pc'[c] = "flight" => result'[c] = 0)
    BY <1>0, <1>1, <2>1 DEF ReadAccount, Goto
  <2>4. DOMAIN result' = AllCalls
    BY <1>0, <1>1 DEF ReadAccount, OutcomeTypes
  <2>5. UNCHANGED <<joined, flight, storeVars>>
    BY <1>1 DEF ReadAccount
  <2> QED
    BY <2>1, <2>2, <2>3, <2>4, <2>5, CallsAreCalls
    DEF OutcomeInv, OutcomeTypes, SuccessIsDurable
<1>2. CASE DesignerStart(c)
  BY <1>0, <1>2, NoOutcome DEF DesignerStart, Goto
<1>3. CASE MarkExpired(c)
  BY <1>0, <1>3, OverwriteRemembers, NoOutcome DEF MarkExpired, Goto
<1>4. CASE JoinFlight(c) \/ LeadFlight(c)
  <2>1. /\ joined' \in [AllCalls -> Calls \cup {NoCall}]
        /\ joined'[c] # NoCall
        /\ joined'[c] = c \/ joined[joined'[c]] # NoCall
    BY <1>0, <1>4, CallsAreCalls
    DEF JoinFlight, LeadFlight, OutcomeInv, OutcomeTypes, FlightInv
  <2>2. \A d \in AllCalls \ {c} : joined'[d] = joined[d] /\ pc'[d] = pc[d]
    BY <1>0, <1>4 DEF JoinFlight, LeadFlight, Goto, OutcomeTypes
  <2>3. result[c] = 0 /\ result' = result /\ pc'[c] \notin {"idle", "flight"}
    BY <1>0, <1>4 DEF JoinFlight, LeadFlight, Goto, OutcomeInv
  <2>4. \A a \in Accounts : flight'[a] # flight[a] => flight'[a] = c
    BY <1>0, <1>4 DEF JoinFlight, LeadFlight
  <2>5. UNCHANGED storeVars
    BY <1>4 DEF JoinFlight, LeadFlight
  <2>6. \A d \in AllCalls : joined[d] # NoCall => joined'[d] # NoCall
    BY <2>1, <2>2
  <2>7. \A d \in AllCalls : joined'[d] # NoCall => joined'[joined'[d]] # NoCall
    BY <1>0, <2>1, <2>2, <2>6, CallsAreCalls DEF OutcomeInv, OutcomeTypes
  <2>8. \A a \in Accounts : flight'[a] # NoCall => joined'[flight'[a]] # NoCall
    BY <1>0, <2>1, <2>4, <2>6, CallsAreCalls DEF OutcomeInv
  <2> QED
    BY <2>1, <2>2, <2>3, <2>5, <2>7, <2>8, CallsAreCalls
    DEF OutcomeInv, OutcomeTypes, SuccessIsDurable
<1>5. CASE Redeem(c)
  BY <1>0, <1>5, NoOutcome DEF Redeem, Goto
<1>6. CASE StoreFailure(c)
  BY <1>0, <1>6, OverwriteRemembers, NoOutcome DEF StoreFailure, Goto
<1>7. CASE StoreGrant(c)
  <2> DEFINE contents == [store EXCEPT ![acct[c]] = Upserted(acct[c], grant[c])]
  <2>1. DOMAIN contents = Accounts /\ contents[acct[c]].at = grant[c].at
    BY <1>0 DEF Upserted
  <2>2. Save(contents)
    BY <1>7 DEF StoreGrant
  <2> HIDE DEF contents
  <2>3. /\ DOMAIN store' = Accounts /\ DOMAIN disk' = Accounts
        /\ persisted \subseteq persisted'
        /\ saved' => grant[c].at \in persisted'
    BY <1>0, <2>1, <2>2, SaveRemembers
  <2>4. /\ DOMAIN result' = AllCalls
        /\ result'[c] # 0 => result'[c] \in persisted'
        /\ \A d \in AllCalls \ {c} : result'[d] = result[d] /\ pc'[d] = pc[d]
        /\ pc'[c] = "close" /\ UNCHANGED <<joined, flight>>
    BY <1>0, <1>7, <2>3 DEF StoreGrant, Goto, OutcomeTypes
  <2> QED
    BY <2>3, <2>4, CallsAreCalls DEF OutcomeInv, OutcomeTypes, SuccessIsDurable
<1>8. CASE CloseFlight(c)
  BY <1>0, <1>8, NoOutcome DEF CloseFlight, Goto
<1>9. CASE ClearFlight(c)
  BY <1>0, <1>9, NoOutcome DEF ClearFlight, Goto
<1>10. CASE Landed(c)
  <2>1. c \in Calls
    BY <1>10 DEF Landed, OutcomeInv, FlightInv
  <2>2. joined[c] # NoCall /\ result[joined[c]] # 0 => result[joined[c]] \in persisted
    BY <2>1, CallsAreCalls DEF OutcomeInv, OutcomeTypes, SuccessIsDurable
  <2>3. /\ DOMAIN result' = AllCalls /\ result'[c] = result[joined[c]]
        /\ \A d \in AllCalls \ {c} : result'[d] = result[d] /\ pc'[d] = pc[d]
        /\ pc'[c] = "done" /\ UNCHANGED <<joined, flight, storeVars>>
    BY <1>0, <1>10 DEF Landed, Goto, OutcomeTypes
  <2> QED
    BY <2>2, <2>3, CallsAreCalls DEF OutcomeInv, OutcomeTypes, SuccessIsDurable
<1>11. CASE DesignerRedeem(c)
  BY <1>0, <1>11, NoOutcome DEF DesignerRedeem, Goto
<1>12. CASE UpdateRefreshToken(c)
  BY <1>0, <1>12, OverwriteRemembers, NoOutcome DEF UpdateRefreshToken, Goto
<1> QED
  BY <1>1, <1>2, <1>3, <1>4, <1>5, <1>6, <1>7, <1>8, <1>9, <1>10, <1>11, <1>12
  DEF CallStep

(* Signing in and out, time and restarts give no caller an outcome.        *)
LEMMA StoreOutcome ==
    ASSUME OutcomeInv, FlightInv',
           \/ \E a \in Accounts : Login(a) \/ Delete(a)
           \/ \E v \in Versions : Expire(v)
           \/ Restart
    PROVE  OutcomeInv'
<1> USE DEF callVars, flightVars, storeVars
<1>0. OutcomeTypes
  BY DEF OutcomeInv
<1>1. ASSUME NEW contents, DOMAIN contents = Accounts, Save(contents),
             UNCHANGED <<joined, result, flight, pc>>
      PROVE  OutcomeInv'
  BY <1>0, <1>1, SaveRemembers, NoOutcome
<1>2. ASSUME NEW a \in Accounts, Login(a) \/ Delete(a) PROVE OutcomeInv'
  <2>1. ASSUME NEW rec PROVE DOMAIN [store EXCEPT ![a] = rec] = Accounts
    BY <1>0 DEF OutcomeTypes
  <2> QED
    BY <1>1, <1>2, <2>1 DEF Login, Delete
<1>3. ASSUME NEW v \in Versions, Expire(v) PROVE OutcomeInv'
  BY <1>0, <1>3, NoOutcome DEF Expire, OutcomeTypes
<1>4. CASE Restart
  <2>1. \A d \in AllCalls : /\ pc'[d] = "idle" => pc[d] = "idle"
                            /\ pc'[d] # "flight"
    BY <1>4 DEF Restart
  <2> QED
    BY <1>0, <1>4, <2>1, NoOutcome DEF Restart, OutcomeTypes
<1> QED
  BY <1>2, <1>3, <1>4

(* The initial states: nobody is in a flight, nobody has an outcome.       *)
LEMMA InitOutcome == Init => OutcomeInv /\ DiskCurrent
<1> SUFFICES ASSUME Init PROVE OutcomeInv /\ DiskCurrent
  OBVIOUS
<1>1. FlightInv
  BY CallsAreCalls DEF Init, FlightInv, FlightTypes, FlightTableExact, Leading, Stages
<1>2. OutcomeTypes /\ DiskCurrent
  BY DEF Init, OutcomeTypes, DiskCurrent
<1> QED
  BY <1>1, <1>2, CallsAreCalls DEF Init, OutcomeInv, SuccessIsDurable

(* Which tokens memory and the calls hold: the file's have been in the     *)
(* file, memory's have too or a failing save has not brought them there,   *)
(* and so every answer of EnsureValid is accounted for.                    *)
StoreAccounted ==
    /\ 0 \in persisted
    /\ \A a \in Accounts : disk[a].at \in persisted /\ store[a].at \in persisted \cup unsaved

AccountedInv == closed \subseteq Calls /\ StoreAccounted /\ HandedOutIsAccounted

LEMMA SaveAccounts ==
    ASSUME OutcomeTypes, StoreAccounted, NEW contents, DOMAIN contents = Accounts,
           Save(contents)
    PROVE  /\ StoreAccounted'
           /\ persisted \subseteq persisted' /\ unsaved \subseteq unsaved'
BY DEF Save, StoreAccounted

LEMMA OverwriteAccounts ==
    ASSUME OutcomeTypes, StoreAccounted, NEW a, NEW rec, Overwrite(a, rec)
    PROVE  /\ StoreAccounted'
           /\ persisted \subseteq persisted' /\ unsaved \subseteq unsaved'
<1>1. DOMAIN [store EXCEPT ![a] = rec] = Accounts
  BY DEF OutcomeTypes
<1> QED
  BY <1>1, SaveAccounts DEF Overwrite, NoSave, storeVars, StoreAccounted

(* A step that gives nobody an answer and closes no flight.                *)
LEMMA NoAnswer ==
    ASSUME AccountedInv, UNCHANGED <<result, closed>>, StoreAccounted',
           persisted \subseteq persisted', unsaved \subseteq unsaved'
    PROVE  AccountedInv'
BY DEF AccountedInv, HandedOutIsAccounted

LEMMA StoreUntouched ==
    ASSUME AccountedInv, UNCHANGED <<storeVars, result, closed>>
    PROVE  AccountedInv'
BY DEF AccountedInv, HandedOutIsAccounted, StoreAccounted, storeVars

LEMMA AccountedStep ==
    ASSUME OutcomeInv, AccountedInv, Next
    PROVE  AccountedInv'
<1> USE DEF callVars, flightVars
<1>0. /\ OutcomeTypes /\ StoreAccounted /\ closed \subseteq Calls
      /\ DOMAIN store = Accounts /\ DOMAIN result = AllCalls /\ acct \in [AllCalls -> Accounts]
  BY DEF OutcomeInv, OutcomeTypes, AccountedInv, FlightInv, FlightTypes
<1>1. ASSUME NEW c \in AllCalls, MarkExpired(c) PROVE AccountedInv'
  BY <1>0, <1>1, OverwriteAccounts, NoAnswer DEF MarkExpired
<1>2. ASSUME NEW c \in AllCalls, StoreFailure(c) PROVE AccountedInv'
  BY <1>0, <1>2, OverwriteAccounts, NoAnswer DEF StoreFailure
<1>3. ASSUME NEW c \in AllCalls, UpdateRefreshToken(c) PROVE AccountedInv'
  BY <1>0, <1>3, OverwriteAccounts, NoAnswer DEF UpdateRefreshToken
<1>4. ASSUME NEW a \in Accounts, Login(a) \/ Delete(a) PROVE AccountedInv'
  <2>1. ASSUME NEW rec PROVE DOMAIN [store EXCEPT ![a] = rec] = Accounts
    BY <1>0
  <2>2. PICK rec : Save([store EXCEPT ![a] = rec])
    BY <1>4 DEF Login, Delete
  <2> QED
    BY <1>0, <1>4, <2>1, <2>2, SaveAccounts, NoAnswer DEF Login, Delete
<1>5. ASSUME NEW c \in AllCalls, ReadAccount(c) PROVE AccountedInv'
  <2>1. store[acct[c]].at \in persisted \cup unsaved
    BY <1>0 DEF StoreAccounted
  <2>2. \A d \in AllCalls : result'[d] \in {result[d], store[acct[c]].at}
    BY <1>0, <1>5 DEF ReadAccount
  <2>3. UNCHANGED <<storeVars, closed>>
    BY <1>5 DEF ReadAccount
  <2> QED
    BY <2>1, <2>2, <2>3, CallsAreCalls
    DEF AccountedInv, HandedOutIsAccounted, StoreAccounted, storeVars
<1>6. ASSUME NEW c \in AllCalls, StoreGrant(c) PROVE AccountedInv'
  <2> DEFINE contents == [store EXCEPT ![acct[c]] = Upserted(acct[c], grant[c])]
  <2>1. DOMAIN contents = Accounts /\ contents[acct[c]].at = grant[c].at
    BY <1>0 DEF Upserted
  <2>2. Save(contents)
    BY <1>6 DEF StoreGrant
  <2> HIDE DEF contents
  <2>3. /\ StoreAccounted' /\ persisted \subseteq persisted' /\ unsaved \subseteq unsaved'
        /\ saved' => grant[c].at \in persisted'
    BY <1>0, <2>1, <2>2, SaveAccounts, SaveRemembers
  <2>4. \A d \in AllCalls : \/ result'[d] \in {result[d], 0}
                            \/ saved' /\ result'[d] = grant[c].at
    BY <1>0, <1>6 DEF StoreGrant
  <2>5. closed' = closed /\ 0 \in persisted'
    BY <1>6, <2>3 DEF StoreGrant, StoreAccounted
  <2> QED
    BY <2>3, <2>4, <2>5, CallsAreCalls DEF AccountedInv, HandedOutIsAccounted
<1>7. ASSUME NEW c \in AllCalls, Landed(c) PROVE AccountedInv'
  <2>1. joined[c] \in Calls
    BY <1>0, <1>7 DEF Landed
  <2>2. \A d \in AllCalls : result'[d] \in {result[d], result[joined[c]]}
    BY <1>0, <1>7 DEF Landed
  <2>3. UNCHANGED <<storeVars, closed>>
    BY <1>7 DEF Landed
  <2> QED
    BY <2>1, <2>2, <2>3, CallsAreCalls
    DEF AccountedInv, HandedOutIsAccounted, StoreAccounted, storeVars
<1>8. ASSUME NEW c \in AllCalls, CloseFlight(c) PROVE AccountedInv'
  <2>1. c \in Calls
    BY <1>8 DEF CloseFlight, OutcomeInv, FlightInv, Leading
  <2>2. closed' = closed \cup {c} /\ UNCHANGED <<storeVars, result>>
    BY <1>8 DEF CloseFlight
  <2> QED
    BY <2>1, <2>2 DEF AccountedInv, HandedOutIsAccounted, StoreAccounted, storeVars
<1>9. ASSUME NEW c \in AllCalls,
             \/ DesignerStart(c) \/ JoinFlight(c) \/ LeadFlight(c)
             \/ Redeem(c) \/ ClearFlight(c) \/ DesignerRedeem(c)
      PROVE  AccountedInv'
  BY <1>9, StoreUntouched
  DEF DesignerStart, JoinFlight, LeadFlight, Redeem, ClearFlight, DesignerRedeem
<1>10. ASSUME NEW v \in Versions, Expire(v) PROVE AccountedInv'
  BY <1>10, StoreUntouched DEF Expire
<1>11. CASE Restart
  BY <1>0, <1>11 DEF Restart, AccountedInv, HandedOutIsAccounted, StoreAccounted
<1> QED
  BY <1>1, <1>2, <1>3, <1>4, <1>5, <1>6, <1>7, <1>8, <1>9, <1>10, <1>11 DEF Next, CallStep

LEMMA InitAccounted == Init => AccountedInv
BY DEF Init, AccountedInv, StoreAccounted, HandedOutIsAccounted, AllCalls

-----------------------------------------------------------------------------
(* What a callback holds at each stage: a copy of an entry of the table,   *)
(* then the account and the set the endpoint minted, then the stored set,  *)
(* whose access token has been in the file.                                *)
TableEntry == [status : {"pending", "error", "authenticated"}, account : Nat, error : BOOLEAN]

CallbackHolds(k) ==
    /\ At(k, "exchange") \/ At(k, "upsert") \/ At(k, "error") \/ At(k, "stored")
          => cb[k].state \in Logins /\ cb[k].copy \in TableEntry
    /\ At(k, "upsert") => cb[k].account \in Accounts /\ cb[k].set.at \in Nat \ {0}
    /\ At(k, "stored") => cb[k].set.at \in persisted /\ cb[k].set.at \in Nat \ {0}

SignInInv ==
    /\ minted \in Nat
    /\ DOMAIN cb = Callbacks
    /\ pkce \in [Logins -> TableEntry \cup {Unknown}]
    /\ \A k \in Callbacks : CallbackHolds(k)
    /\ SignInIsDurable

(* The steps of the store alone leave every sign-in as it was.             *)
LEMMA StoreKeepsSignIns ==
    ASSUME SignInInv, minted' \in Nat, persisted \subseteq persisted',
           UNCHANGED <<pkce, cb>>
    PROVE  SignInInv'
BY DEF SignInInv, CallbackHolds, At, SignInIsDurable

(* A callback's step that leaves the table alone.                          *)
LEMMA CallbackSteps ==
    ASSUME SignInInv, NEW k \in Callbacks, NEW rec, Step(k, rec),
           minted' \in Nat, persisted \subseteq persisted', pkce' = pkce,
           CallbackHolds(k)'
    PROVE  SignInInv'
<1>1. DOMAIN cb' = Callbacks /\ \A j \in Callbacks \ {k} : cb'[j] = cb[j]
  BY DEF Step, SignInInv
<1>2. \A j \in Callbacks : CallbackHolds(j)'
  BY <1>1 DEF SignInInv, CallbackHolds, At
<1> QED
  BY <1>1, <1>2 DEF SignInInv, SignInIsDurable

(* A callback that is over and writes an entry with its outcome.           *)
LEMMA OutcomeWritten ==
    ASSUME SignInInv, NEW k \in Callbacks, NEW s \in Logins, NEW e \in TableEntry,
           NEW stage \in {"refused", "authenticated"}, Step(k, [stage |-> stage]),
           pkce' = [pkce EXCEPT ![s] = e], UNCHANGED <<minted, persisted>>,
           e.status = "authenticated" => e.account \in persisted \ {0}
    PROVE  SignInInv'
<1>1. /\ DOMAIN cb' = Callbacks /\ cb'[k] = [stage |-> stage]
      /\ \A j \in Callbacks \ {k} : cb'[j] = cb[j]
  BY DEF Step, SignInInv
<1>2. \A j \in Callbacks : CallbackHolds(j)'
  BY <1>1 DEF SignInInv, CallbackHolds, At
<1>3. /\ pkce' \in [Logins -> TableEntry \cup {Unknown}]
      /\ pkce'[s] = e /\ \A t \in Logins \ {s} : pkce'[t] = pkce[t]
  BY DEF SignInInv
<1>4. SignInIsDurable'
  BY <1>3 DEF SignInInv, SignInIsDurable
<1> QED
  BY <1>1, <1>2, <1>3, <1>4 DEF SignInInv

(* Every step of the store is one of TokenStore's; it mints in order and   *)
(* forgets nothing the file has held.                                      *)
LEMMA StoreGoesOn ==
    ASSUME OutcomeTypes, minted \in Nat, StoreNext \/ Restart
    PROVE  Next /\ minted' \in Nat /\ persisted \subseteq persisted'
<1> USE DEF callVars, flightVars, storeVars
<1>1. Next
  BY DEF StoreNext, Next
<1>2. ASSUME NEW a, NEW rec, Save([store EXCEPT ![a] = rec])
      PROVE  persisted \subseteq persisted'
  BY <1>2 DEF Save
<1>3. ASSUME NEW a, NEW rec, Overwrite(a, rec) PROVE persisted \subseteq persisted'
  BY <1>2, <1>3 DEF Overwrite, NoSave
<1>4. ASSUME NEW c \in AllCalls, ReadAccount(c) \/ DesignerStart(c) \/ CallStep(c)
      PROVE  minted' \in Nat /\ persisted \subseteq persisted'
  <2>1. CASE MarkExpired(c)
    BY <1>3, <2>1 DEF MarkExpired
  <2>2. CASE StoreFailure(c)
    BY <1>3, <2>2 DEF StoreFailure
  <2>3. CASE UpdateRefreshToken(c)
    BY <1>3, <2>3 DEF UpdateRefreshToken
  <2>4. CASE StoreGrant(c)
    BY <1>2, <2>4 DEF StoreGrant
  <2>5. CASE Redeem(c) \/ DesignerRedeem(c)
    BY <2>5 DEF Redeem, DesignerRedeem, Endpoint
  <2>6. CASE \/ ReadAccount(c) \/ DesignerStart(c) \/ JoinFlight(c)
             \/ LeadFlight(c) \/ CloseFlight(c) \/ ClearFlight(c) \/ Landed(c)
    BY <2>6 DEF ReadAccount, DesignerStart, JoinFlight, LeadFlight, CloseFlight,
       ClearFlight, Landed
  <2> QED
    BY <1>4, <2>1, <2>2, <2>3, <2>4, <2>5, <2>6 DEF CallStep
<1>5. ASSUME NEW a \in Accounts, Login(a) \/ Delete(a)
      PROVE  minted' \in Nat /\ persisted \subseteq persisted'
  <2>1. CASE Login(a)
    BY <1>2, <2>1 DEF Login
  <2>2. CASE Delete(a)
    BY <1>2, <2>2 DEF Delete
  <2> QED
    BY <1>5, <2>1, <2>2
<1>6. ASSUME NEW v \in Versions, Expire(v)
      PROVE  minted' \in Nat /\ persisted \subseteq persisted'
  BY <1>6 DEF Expire
<1>7. CASE Restart
  BY <1>1, <1>7 DEF Restart
<1>8. CASE StoreNext
  BY <1>1, <1>4, <1>5, <1>6, <1>8 DEF StoreNext
<1> QED
  BY <1>7, <1>8

DurableInv == OutcomeInv /\ DiskCurrent /\ SignInInv /\ AccountedInv

(* A sign-in's step keeps what is known of the calls, and theirs keep what *)
(* is known of the sign-ins.                                               *)
LEMMA CallbackStep ==
    ASSUME DurableInv, NEW k \in Callbacks,
           \/ \E s \in Logins : TakePending(k, s)
           \/ ExchangeCode(k) \/ StoreAccount(k) \/ WriteError(k) \/ WriteAuthenticated(k)
    PROVE  DurableInv'
<1> USE DEF vars, callVars, flightVars, storeVars
<1>0. /\ OutcomeTypes /\ OutcomeInv /\ FlightInv /\ SignInInv /\ CallbackHolds(k)
      /\ minted \in Nat /\ DOMAIN cb = Callbacks /\ DiskCurrent /\ AccountedInv
  BY DEF DurableInv, OutcomeInv, SignInInv
<1>1. ASSUME UNCHANGED <<storeVars, callVars, flightVars>>
      PROVE  OutcomeInv' /\ DiskCurrent' /\ AccountedInv'
  <2>1. FlightInv'
    BY <1>0, <1>1 DEF FlightInv, FlightTypes, FlightTableExact
  <2> QED
    BY <1>0, <1>1, <2>1, NoOutcome, StoreUntouched DEF OutcomeTypes, DiskCurrent
<1>2. ASSUME NEW s \in Logins, TakePending(k, s) PROVE DurableInv'
  <2>1. pkce[s] # Unknown => pkce[s] \in TableEntry
    BY <1>0 DEF SignInInv
  <2>2. CallbackHolds(k)'
    BY <1>0, <1>2, <2>1 DEF TakePending, Step, CallbackHolds, At
  <2>3. SignInInv'
    BY <1>0, <1>2, <2>2, CallbackSteps DEF TakePending
  <2> QED
    BY <1>1, <1>2, <2>3 DEF TakePending, DurableInv
<1>3. CASE ExchangeCode(k)
  <2>1. cb[k].state \in Logins /\ cb[k].copy \in TableEntry
    BY <1>0, <1>3 DEF ExchangeCode, CallbackHolds
  <2>2. PICK rec : Step(k, rec)
    BY <1>3 DEF ExchangeCode
  <2>3. CallbackHolds(k)' /\ minted' \in Nat
    BY <1>0, <1>3, <2>1 DEF ExchangeCode, Step, CallbackHolds, At
  <2>4. SignInInv'
    BY <1>0, <1>3, <2>2, <2>3, CallbackSteps DEF ExchangeCode
  <2> QED
    BY <1>1, <1>3, <2>4 DEF ExchangeCode, DurableInv
<1>4. CASE StoreAccount(k)
  <2> DEFINE contents == [store EXCEPT ![cb[k].account] = Upserted(cb[k].account, cb[k].set)]
  <2>1. /\ cb[k].state \in Logins /\ cb[k].copy \in TableEntry
        /\ cb[k].account \in Accounts /\ cb[k].set.at \in Nat \ {0}
    BY <1>0, <1>4 DEF StoreAccount, CallbackHolds
  <2>2. DOMAIN contents = Accounts /\ contents[cb[k].account].at = cb[k].set.at
    BY <1>0, <2>1 DEF OutcomeTypes, Upserted
  <2>3. Save(contents)
    BY <1>4 DEF StoreAccount
  <2> HIDE DEF contents
  <2>4. /\ DOMAIN store' = Accounts /\ DOMAIN disk' = Accounts
        /\ persisted \subseteq persisted'
        /\ saved' => cb[k].set.at \in persisted'
    BY <1>0, <2>1, <2>2, <2>3, SaveRemembers
  <2>5. CallbackHolds(k)'
    BY <1>0, <1>4, <2>1, <2>4 DEF StoreAccount, Stored, Step, CallbackHolds, At
  <2>6. SignInInv'
    BY <1>0, <1>4, <2>4, <2>5, CallbackSteps DEF StoreAccount
  <2>7. DiskCurrent'
    BY <2>3 DEF Save, DiskCurrent
  <2>8. FlightInv'
    BY <1>0, <1>4 DEF StoreAccount, FlightInv, FlightTypes, FlightTableExact
  <2>9. OutcomeInv'
    BY <1>0, <1>4, <2>4, <2>8, NoOutcome DEF StoreAccount
  <2>10. StoreAccounted' /\ unsaved \subseteq unsaved'
    BY <1>0, <2>2, <2>3, SaveAccounts DEF AccountedInv
  <2>11. AccountedInv'
    BY <1>0, <1>4, <2>4, <2>10, NoAnswer DEF StoreAccount
  <2> QED
    BY <2>6, <2>7, <2>9, <2>11 DEF DurableInv
<1>5. CASE WriteError(k)
  <2> DEFINE e == [cb[k].copy EXCEPT !.status = "error", !.error = TRUE]
  <2>1. cb[k].state \in Logins /\ e \in TableEntry /\ e.status = "error"
    BY <1>0, <1>5 DEF WriteError, CallbackHolds, TableEntry
  <2> HIDE DEF e
  <2>2. SignInInv'
    BY <1>0, <1>5, <2>1, OutcomeWritten DEF WriteError, e
  <2> QED
    BY <1>1, <1>5, <2>2 DEF WriteError, DurableInv
<1>6. CASE WriteAuthenticated(k)
  <2> DEFINE e == [cb[k].copy EXCEPT !.status = "authenticated", !.account = cb[k].set.at]
  <2>1. /\ cb[k].state \in Logins /\ e \in TableEntry
        /\ e.account \in persisted \ {0}
    BY <1>0, <1>6 DEF WriteAuthenticated, CallbackHolds, TableEntry
  <2> HIDE DEF e
  <2>2. SignInInv'
    BY <1>0, <1>6, <2>1, OutcomeWritten DEF WriteAuthenticated, e
  <2> QED
    BY <1>1, <1>6, <2>2 DEF WriteAuthenticated, DurableInv
<1> QED
  BY <1>2, <1>3, <1>4, <1>5, <1>6

LEMMA SignInStep == DurableInv /\ [SignInNext]_<<vars, signVars>> => DurableInv'
<1> SUFFICES ASSUME DurableInv, [SignInNext]_<<vars, signVars>> PROVE DurableInv'
  OBVIOUS
<1>0. /\ OutcomeTypes /\ OutcomeInv /\ FlightInv /\ DiskCurrent /\ SignInInv
      /\ AccountedInv /\ minted \in Nat
  BY DEF DurableInv, OutcomeInv, SignInInv
<1>1. ASSUME NEW s \in Logins, StartPKCE(s) \/ GrowLate(s) \/ PKCEStatus(s)
      PROVE  DurableInv'
  <2>1. UNCHANGED vars /\ cb' = cb
    BY <1>1 DEF StartPKCE, GrowLate, PKCEStatus
  <2>2. OutcomeInv' /\ DiskCurrent' /\ AccountedInv'
    BY <1>0, <2>1, StoreUntouched DEF vars, storeVars, callVars, flightVars, OutcomeInv, OutcomeTypes,
       FlightInv, FlightTypes, FlightTableExact, SuccessIsDurable, DiskCurrent
  <2>3. UNCHANGED <<minted, persisted>>
    BY <2>1 DEF vars, storeVars
  <2>4. \/ pkce' = pkce
        \/ pkce' = [pkce EXCEPT ![s] = Pending]
        \/ pkce' = [pkce EXCEPT ![s] = Unknown]
    BY <1>1 DEF StartPKCE, GrowLate, PKCEStatus
  <2>5. Pending \in TableEntry /\ Pending.status = "pending" /\ Unknown.status = "expired"
    BY DEF Pending, Unknown, TableEntry
  <2>6. \A k \in Callbacks : CallbackHolds(k)'
    BY <1>0, <2>1, <2>3 DEF SignInInv, CallbackHolds, At
  <2>7. pkce' \in [Logins -> TableEntry \cup {Unknown}] /\ SignInIsDurable'
    BY <1>0, <2>3, <2>4, <2>5 DEF SignInInv, SignInIsDurable
  <2> QED
    BY <1>0, <2>1, <2>2, <2>3, <2>6, <2>7 DEF DurableInv, SignInInv
<1>2. CASE RestartSignIn
  <2>1. /\ Next /\ minted' \in Nat /\ persisted \subseteq persisted'
        /\ pkce' = [s \in Logins |-> Unknown]
        /\ cb' = [k \in Callbacks |-> [stage |-> IF At(k, "idle") THEN "idle" ELSE "refused"]]
    BY <1>0, <1>2, StoreGoesOn DEF RestartSignIn
  <2>2. OutcomeInv'
    BY <1>0, <1>2, <2>1, FlightStep, StoreOutcome DEF RestartSignIn
  <2>3. \A k \in Callbacks : CallbackHolds(k)'
    BY <2>1 DEF CallbackHolds, At
  <2>4. SignInInv'
    BY <2>1, <2>3 DEF SignInInv, SignInIsDurable, Unknown
  <2>5. AccountedInv'
    BY <1>0, <2>1, AccountedStep
  <2> QED
    BY <1>0, <2>1, <2>2, <2>4, <2>5, DiskStep DEF DurableInv
<1>3. CASE StoreNext /\ UNCHANGED signVars
  <2>1. Next /\ minted' \in Nat /\ persisted \subseteq persisted' /\ UNCHANGED <<pkce, cb>>
    BY <1>0, <1>3, StoreGoesOn DEF signVars
  <2>2. FlightInv' /\ DiskCurrent'
    BY <1>0, <2>1, FlightStep, DiskStep
  <2>3. OutcomeInv'
    BY <1>0, <1>3, <2>2, CallOutcome, StoreOutcome DEF StoreNext
  <2>4. SignInInv'
    BY <1>0, <2>1, StoreKeepsSignIns
  <2>5. AccountedInv'
    BY <1>0, <2>1, AccountedStep
  <2> QED
    BY <2>2, <2>3, <2>4, <2>5 DEF DurableInv
<1>4. CASE UNCHANGED <<vars, signVars>>
  BY <1>4 DEF vars, storeVars, callVars, flightVars, signVars, DurableInv, OutcomeInv,
     OutcomeTypes, FlightInv, FlightTypes, FlightTableExact, SuccessIsDurable,
     DiskCurrent, SignInInv, SignInIsDurable, CallbackHolds, At, AccountedInv,
     StoreAccounted, HandedOutIsAccounted
<1> QED
  BY <1>1, <1>2, <1>3, <1>4, CallbackStep DEF SignInNext

LEMMA SignInStart == Init /\ InitSignIn => DurableInv
<1> SUFFICES ASSUME Init, InitSignIn PROVE DurableInv
  OBVIOUS
<1>1. \A k \in Callbacks : CallbackHolds(k)
  BY DEF InitSignIn, NotCalled, CallbackHolds, At
<1>2. SignInInv
  BY <1>1 DEF Init, InitSignIn, SignInInv, SignInIsDurable, Unknown
<1> QED
  BY <1>2, InitOutcome, InitAccounted DEF DurableInv

(* The outcome of a refresh, its leader's and its joiners', and of a       *)
(* sign-in is a success only when the tokens have been on disk, and what   *)
(* an EnsureValid call answers from memory has been there too or was kept  *)
(* from it by a failing save: however many callbacks work on one sign-in   *)
(* and whatever saves fail and restarts come between.                      *)
THEOREM SuccessesAreDurable == SignInSpec => []OutcomesAreDurable
<1>1. DurableInv => OutcomesAreDurable
  BY DEF DurableInv, OutcomeInv, AccountedInv, SignInInv, OutcomesAreDurable
<1> QED
  BY <1>1, SignInStart, SignInStep, PTL DEF SignInSpec

(* Sign-ins go through the same store: with them too its file is current   *)
(* and its refreshes are single-flight.                                    *)
THEOREM SignInsKeepTheStore == SignInSpec => [](DiskCurrent /\ SingleFlight)
<1>1. DurableInv => DiskCurrent /\ SingleFlight
  BY DEF DurableInv, OutcomeInv, FlightInv, FlightTypes, SingleFlight, FlightTableExact,
     OneRefreshAtATime
<1> QED
  BY <1>1, SignInStart, SignInStep, PTL DEF SignInSpec
=============================================================================
