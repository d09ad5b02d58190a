------------------------ MODULE ChatAdmissionProofs ------------------------
(***************************************************************************)
(* Machine-checked safety of ChatAdmission for every number of calls and   *)
(* accounts and every pair of limits.  The inductive invariant is TypeOK,  *)
(* the two limits on the counters and Conservation, which ties the         *)
(* counters to the calls that hold a slot; the cardinalities move by at    *)
(* most one element per step (LEMMA HoldersFinite and the FS_ theorems).   *)
(***************************************************************************)
EXTENDS ChatAdmission, FiniteSetTheorems, TLAPS

CountersBounded ==
    /\ slots <= GlobalLimit
    /\ \A a \in Accounts : inflight[a] <= AccountLimit

IndInv == TypeOK /\ CountersBounded /\ Conservation

LEMMA HoldersFinite ==
    ASSUME TypeOK
    PROVE  /\ IsFiniteSet(GlobalHolders)
           /\ \A a \in Accounts : IsFiniteSet(AccountHolders(a))
<1>1. GlobalHolders \subseteq Calls
  BY DEF GlobalHolders
<1>2. \A a \in Accounts : AccountHolders(a) \subseteq Calls
  BY DEF AccountHolders
<1> QED
  BY <1>1, <1>2, CallsAssumption, FS_Subset

(* Every variable keeps its type: code of all the actions.                 *)
THEOREM TypeCorrect == Spec => []TypeOK
<1> USE LimitsAssumption DEF TypeOK, Stages
<1>1. Init => TypeOK
  BY DEF Init
<1>2. TypeOK /\ [Next]_vars => TypeOK'
  <2> SUFFICES ASSUME TypeOK, [Next]_vars PROVE TypeOK'
    OBVIOUS
  <2>1. ASSUME NEW c \in Calls, Enter(c) PROVE TypeOK'
    BY <2>1 DEF Enter, Goto
  <2>2. ASSUME NEW c \in Calls, Expire(c) PROVE TypeOK'
    BY <2>2 DEF Expire
  <2>3. ASSUME NEW c \in Calls, AcquireGlobal(c) PROVE TypeOK'
    BY <2>3 DEF AcquireGlobal, Goto
  <2>4. ASSUME NEW c \in Calls, CountGlobal(c) PROVE TypeOK'
    BY <2>4 DEF CountGlobal, Goto
  <2>5. ASSUME NEW c \in Calls, RejectGlobal(c) PROVE TypeOK'
    BY <2>5 DEF RejectGlobal, Goto
  <2>6. ASSUME NEW c \in Calls, AcquireAccount(c) PROVE TypeOK'
    BY <2>6 DEF AcquireAccount, Goto
  <2>7. ASSUME NEW c \in Calls, Park(c) PROVE TypeOK'
    BY <2>7 DEF Park, Goto
  <2>8. ASSUME NEW c \in Calls, Wake(c) PROVE TypeOK'
    BY <2>8 DEF Wake, Goto
  <2>9. ASSUME NEW c \in Calls, GiveUp(c) PROVE TypeOK'
    BY <2>9 DEF GiveUp, Goto
  <2>10. ASSUME NEW c \in Calls, ReleaseAccount(c) PROVE TypeOK'
    BY <2>10 DEF ReleaseAccount, Goto
  <2>11. ASSUME NEW c \in Calls, ReleaseGlobal(c) PROVE TypeOK'
    BY <2>11 DEF ReleaseGlobal, Goto
  <2>12. CASE UNCHANGED vars
    BY <2>12 DEF vars
  <2> QED
    BY <2>1, <2>2, <2>3, <2>4, <2>5, <2>6, <2>7, <2>8, <2>9, <2>10, <2>11,
       <2>12 DEF Next, Progress
<1> QED
  BY <1>1, <1>2, PTL DEF Spec

-----------------------------------------------------------------------------
(* A step that moves one call between stages that both hold, or both lack, *)
(* the global slot leaves GlobalHolders alone.                             *)
LEMMA GlobalUnmoved ==
    ASSUME TypeOK, NEW c \in Calls, NEW s \in Stages, Goto(c, s),
           pc[c] \in {"idle", "global", "done"} <=> s \in {"idle", "global", "done"}
    PROVE  GlobalHolders' = GlobalHolders
BY DEF GlobalHolders, Goto, TypeOK, Stages

(* Likewise for the account slot, which only the stage "chat" holds.       *)
LEMMA AccountUnmoved ==
    ASSUME TypeOK, NEW c \in Calls, NEW s \in Stages, Goto(c, s),
           pc[c] # "chat", s # "chat", acct' = acct
    PROVE  \A a \in Accounts : AccountHolders(a)' = AccountHolders(a)
BY DEF AccountHolders, Goto, TypeOK, Stages

LEMMA SameHolders ==
    ASSUME IndInv, GlobalHolders' = GlobalHolders, slots' = slots,
           \A a \in Accounts : AccountHolders(a)' = AccountHolders(a),
           inflight' = inflight
    PROVE  CountersBounded' /\ Conservation'
BY DEF IndInv, CountersBounded, Conservation, SlotsAccounted, InflightAccounted

(* The only steps that move a cardinality are the four acquisitions and    *)
(* releases; each moves one cardinality by one, together with its counter. *)
LEMMA InductiveStep == TypeOK' /\ IndInv /\ [Next]_vars => IndInv'
<1> SUFFICES ASSUME TypeOK', IndInv, [Next]_vars
             PROVE  CountersBounded' /\ Conservation'
  BY DEF IndInv
<1> USE DEF IndInv
<1>1. ASSUME NEW c \in Calls, Enter(c)
      PROVE  CountersBounded' /\ Conservation'
  <2>1. GlobalHolders' = GlobalHolders
    BY <1>1, GlobalUnmoved DEF Enter, Stages
  <2>2. \A a \in Accounts : AccountHolders(a)' = AccountHolders(a)
    BY <1>1, AccountUnmoved DEF Enter, Stages
  <2> QED
    BY <1>1, <2>1, <2>2, SameHolders DEF Enter
<1>2. ASSUME NEW c \in Calls, Expire(c)
      PROVE  CountersBounded' /\ Conservation'
  <2>1. GlobalHolders' = GlobalHolders
    BY <1>2 DEF Expire, GlobalHolders
  <2>2. \A a \in Accounts : AccountHolders(a)' = AccountHolders(a)
    BY <1>2 DEF Expire, AccountHolders
  <2> QED
    BY <1>2, <2>1, <2>2, SameHolders DEF Expire
<1>3. ASSUME NEW c \in Calls, AcquireGlobal(c)
      PROVE  CountersBounded' /\ Conservation'
  <2>1. GlobalHolders' = GlobalHolders \cup {c} /\ c \notin GlobalHolders
    BY <1>3 DEF AcquireGlobal, Goto, GlobalHolders, TypeOK
  <2>2. Cardinality(GlobalHolders') = Cardinality(GlobalHolders) + 1
    BY <2>1, HoldersFinite, FS_AddElement
  <2>3. \A a \in Accounts : AccountHolders(a)' = AccountHolders(a)
    BY <1>3, AccountUnmoved DEF AcquireGlobal, Stages
  <2>4. CountersBounded'
    BY <1>3, LimitsAssumption DEF AcquireGlobal, CountersBounded, TypeOK
  <2> QED
    BY <1>3, <2>2, <2>3, <2>4
    DEF AcquireGlobal, Conservation, SlotsAccounted, InflightAccounted
<1>4. ASSUME NEW c \in Calls, CountGlobal(c)
      PROVE  CountersBounded' /\ Conservation'
  <2>1. GlobalHolders' = GlobalHolders
    BY <1>4, GlobalUnmoved DEF CountGlobal, Stages
  <2>2. \A a \in Accounts : AccountHolders(a)' = AccountHolders(a)
    BY <1>4, AccountUnmoved DEF CountGlobal, Stages
  <2> QED
    BY <1>4, <2>1, <2>2, SameHolders DEF CountGlobal
<1>5. ASSUME NEW c \in Calls, RejectGlobal(c)
      PROVE  CountersBounded' /\ Conservation'
  <2>1. GlobalHolders' = GlobalHolders
    BY <1>5, GlobalUnmoved DEF RejectGlobal, Stages
  <2>2. \A a \in Accounts : AccountHolders(a)' = AccountHolders(a)
    BY <1>5, AccountUnmoved DEF RejectGlobal, Stages
  <2> QED
    BY <1>5, <2>1, <2>2, SameHolders DEF RejectGlobal
<1>6. ASSUME NEW c \in Calls, AcquireAccount(c)
      PROVE  CountersBounded' /\ Conservation'
  <2>1. GlobalHolders' = GlobalHolders
    BY <1>6, GlobalUnmoved DEF AcquireAccount, Stages
  <2>2. /\ AccountHolders(acct[c])' = AccountHolders(acct[c]) \cup {c}
        /\ c \notin AccountHolders(acct[c])
        /\ acct[c] \in Accounts
    BY <1>6 DEF AcquireAccount, Goto, AccountHolders, TypeOK
  <2>3. Cardinality(AccountHolders(acct[c])') = Cardinality(AccountHolders(acct[c])) + 1
    BY <2>2, HoldersFinite, FS_AddElement
  <2>4. \A a \in Accounts \ {acct[c]} : AccountHolders(a)' = AccountHolders(a)
    BY <1>6 DEF AcquireAccount, Goto, AccountHolders, TypeOK
  <2>5. InflightAccounted'
    <3> SUFFICES ASSUME NEW a \in Accounts
                 PROVE  inflight'[a] = Cardinality(AccountHolders(a)')
      BY <1>6 DEF InflightAccounted, AccountHolders, AcquireAccount
    <3>1. CASE a = acct[c]
      BY <1>6, <2>3, <3>1 DEF AcquireAccount, Conservation, InflightAccounted,
         TypeOK, AccountHolders
    <3>2. CASE a # acct[c]
      BY <1>6, <2>4, <3>2 DEF AcquireAccount, Conservation, InflightAccounted, TypeOK
    <3> QED BY <3>1, <3>2
  <2>6. CountersBounded'
    BY <1>6, LimitsAssumption DEF AcquireAccount, CountersBounded, TypeOK
  <2> QED
    BY <1>6, <2>1, <2>5, <2>6 DEF AcquireAccount, Conservation, SlotsAccounted
<1>7. ASSUME NEW c \in Calls, Park(c)
      PROVE  CountersBounded' /\ Conservation'
  <2>1. GlobalHolders' = GlobalHolders
    BY <1>7, GlobalUnmoved DEF Park, Stages
  <2>2. \A a \in Accounts : AccountHolders(a)' = AccountHolders(a)
    BY <1>7, AccountUnmoved DEF Park, Stages
  <2> QED
    BY <1>7, <2>1, <2>2, SameHolders DEF Park
<1>8. ASSUME NEW c \in Calls, Wake(c)
      PROVE  CountersBounded' /\ Conservation'
  <2>1. GlobalHolders' = GlobalHolders
    BY <1>8, GlobalUnmoved DEF Wake, Stages
  <2>2. \A a \in Accounts : AccountHolders(a)' = AccountHolders(a)
    BY <1>8, AccountUnmoved DEF Wake, Stages
  <2> QED
    BY <1>8, <2>1, <2>2, SameHolders DEF Wake
<1>9. ASSUME NEW c \in Calls, GiveUp(c)
      PROVE  CountersBounded' /\ Conservation'
  <2>1. GlobalHolders' = GlobalHolders
    BY <1>9, GlobalUnmoved DEF GiveUp, Stages
  <2>2. \A a \in Accounts : AccountHolders(a)' = AccountHolders(a)
    BY <1>9, AccountUnmoved DEF GiveUp, Stages
  <2> QED
    BY <1>9, <2>1, <2>2, SameHolders DEF GiveUp
<1>10. ASSUME NEW c \in Calls, ReleaseAccount(c)
       PROVE  CountersBounded' /\ Conservation'
  <2>1. GlobalHolders' = GlobalHolders
    BY <1>10, GlobalUnmoved DEF ReleaseAccount, Stages
  <2>2. /\ AccountHolders(acct[c])' = AccountHolders(acct[c]) \ {c}
        /\ c \in AccountHolders(acct[c])
        /\ acct[c] \in Accounts
    BY <1>10 DEF ReleaseAccount, Goto, AccountHolders, TypeOK
  <2>3. /\ Cardinality(AccountHolders(acct[c])') = Cardinality(AccountHolders(acct[c])) - 1
        /\ Cardinality(AccountHolders(acct[c])) # 0
    BY <2>2, HoldersFinite, FS_RemoveElement, FS_EmptySet
  <2>4. \A a \in Accounts \ {acct[c]} : AccountHolders(a)' = AccountHolders(a)
    BY <1>10 DEF ReleaseAccount, Goto, AccountHolders, TypeOK
  <2>5. InflightAccounted'
    <3> SUFFICES ASSUME NEW a \in Accounts
                 PROVE  inflight'[a] = Cardinality(AccountHolders(a)')
      BY <1>10 DEF InflightAccounted, AccountHolders, ReleaseAccount
    <3>1. CASE a = acct[c]
      <4>1. inflight[a] = Cardinality(AccountHolders(a)) /\ inflight[a] \in Nat /\ DOMAIN inflight = Accounts
        BY DEF Conservation, InflightAccounted, TypeOK
      <4>2. inflight'[a] = IF inflight[a] <= 1 THEN 0 ELSE inflight[a] - 1
        BY <1>10, <3>1, <4>1 DEF ReleaseAccount
      <4>3. AccountHolders(a)' = AccountHolders(acct[c])'
        BY <1>10, <3>1 DEF ReleaseAccount, AccountHolders
      <4> QED
        BY <2>3, <3>1, <4>1, <4>2, <4>3
    <3>2. CASE a # acct[c]
      BY <1>10, <2>4, <3>2 DEF ReleaseAccount, Conservation, InflightAccounted, TypeOK
    <3> QED BY <3>1, <3>2
  <2>6. CountersBounded'
    BY <1>10, LimitsAssumption DEF ReleaseAccount, CountersBounded, TypeOK
  <2> QED
    BY <1>10, <2>1, <2>5, <2>6 DEF ReleaseAccount, Conservation, SlotsAccounted
<1>11. ASSUME NEW c \in Calls, ReleaseGlobal(c)
       PROVE  CountersBounded' /\ Conservation'
  <2>1. GlobalHolders' = GlobalHolders \ {c} /\ c \in GlobalHolders
    BY <1>11 DEF ReleaseGlobal, Goto, GlobalHolders, TypeOK
  <2>2. /\ Cardinality(GlobalHolders') = Cardinality(GlobalHolders) - 1
        /\ Cardinality(GlobalHolders) # 0
    BY <2>1, HoldersFinite, FS_RemoveElement, FS_EmptySet
  <2>3. \A a \in Accounts : AccountHolders(a)' = AccountHolders(a)
    BY <1>11, AccountUnmoved DEF ReleaseGlobal, Stages
  <2>4. slots' = slots - 1
    BY <1>11, <2>2 DEF ReleaseGlobal, Conservation, SlotsAccounted, TypeOK
  <2>5. CountersBounded'
    BY <1>11, <2>4, LimitsAssumption DEF ReleaseGlobal, CountersBounded, TypeOK
  <2> QED
    BY <1>11, <2>2, <2>3, <2>4, <2>5
    DEF ReleaseGlobal, Conservation, SlotsAccounted, InflightAccounted
<1>12. CASE UNCHANGED vars
  BY <1>12 DEF vars, CountersBounded, Conservation, SlotsAccounted,
     InflightAccounted, GlobalHolders, AccountHolders
<1> QED
  BY <1>1, <1>2, <1>3, <1>4, <1>5, <1>6, <1>7, <1>8, <1>9, <1>10, <1>11,
     <1>12 DEF Next, Progress

LEMMA IndInvCorrect == Spec => []IndInv
<1>1. Init => IndInv
  <2> SUFFICES ASSUME Init PROVE IndInv
    OBVIOUS
  <2>1. TypeOK
    BY DEF Init, TypeOK, Stages
  <2>2. GlobalHolders = {} /\ \A a \in Accounts : AccountHolders(a) = {}
    BY DEF Init, GlobalHolders, AccountHolders
  <2>3. Conservation
    BY <2>2, FS_EmptySet DEF Init, Conservation, SlotsAccounted, InflightAccounted
  <2>4. CountersBounded
    BY LimitsAssumption DEF Init, CountersBounded
  <2> QED
    BY <2>1, <2>3, <2>4 DEF IndInv
<1> QED
  BY <1>1, InductiveStep, TypeCorrect, PTL DEF Spec

(* No slot is leaked or released twice, on any path through chatWithAccount: *)
(* the counters equal the numbers of holders.                                *)
THEOREM SlotsConserved == Spec => []Conservation
BY IndInvCorrect, PTL DEF IndInv

(* At most AccountLimit calls of an account are upstream at a time, and at   *)
(* most GlobalLimit calls hold a slot of the process.                        *)
THEOREM LimitsRespected == Spec => []UpstreamBounded
<1>1. IndInv => UpstreamBounded
  BY DEF IndInv, CountersBounded, Conservation, SlotsAccounted,
         InflightAccounted, UpstreamBounded
<1> QED
  BY <1>1, IndInvCorrect, PTL

(* No wake-up is lost: whoever sleeps on the installed channel has a full    *)
(* account, because the channel is read under the mutex of the counters and  *)
(* every release replaces it.                                                *)
THEOREM WakeupsKept == Spec => []NoLostWakeup
<1>1. Init => NoLostWakeup
  BY DEF Init, NoLostWakeup
<1>2. TypeOK /\ NoLostWakeup /\ [Next]_vars => NoLostWakeup'
  <2> SUFFICES ASSUME TypeOK, NoLostWakeup, [Next]_vars PROVE NoLostWakeup'
    OBVIOUS
  <2> USE LimitsAssumption DEF NoLostWakeup, TypeOK
  <2>1. ASSUME NEW c \in Calls, AcquireAccount(c) PROVE NoLostWakeup'
    BY <2>1 DEF AcquireAccount
  <2>2. ASSUME NEW c \in Calls, Park(c) PROVE NoLostWakeup'
    BY <2>2 DEF Park
  <2>3. ASSUME NEW c \in Calls, GiveUp(c) PROVE NoLostWakeup'
    BY <2>3 DEF GiveUp
  <2>4. ASSUME NEW c \in Calls, ReleaseAccount(c) PROVE NoLostWakeup'
    BY <2>4 DEF ReleaseAccount
  <2>5. ASSUME NEW c \in Calls,
               \/ Enter(c) \/ Expire(c) \/ AcquireGlobal(c) \/ CountGlobal(c)
               \/ RejectGlobal(c) \/ Wake(c) \/ ReleaseGlobal(c)
        PROVE  NoLostWakeup'
    BY <2>5 DEF Enter, Expire, AcquireGlobal, CountGlobal, RejectGlobal, Wake,
       ReleaseGlobal
  <2>6. CASE UNCHANGED vars
    BY <2>6 DEF vars
  <2> QED
    BY <2>1, <2>2, <2>3, <2>4, <2>5, <2>6 DEF Next, Progress
<1> QED
  BY <1>1, <1>2, TypeCorrect, PTL DEF Spec
=============================================================================
