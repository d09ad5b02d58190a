---------------------------- MODULE ConsoleProofs ----------------------------
(***************************************************************************)
(* The administration console, for every number of concurrent requests:    *)
(* the password, the API keys, the settings and the pool of proxies, the   *)
(* deployments, the clean-ups of the cloud, the benchmark and its log.     *)
(* Each theorem is about the specification of one component; the           *)
(* components share no state.                                              *)
(***************************************************************************)
EXTENDS MCConsole, FiniteSetTheorems, SequenceTheorems, WellFoundedInduction, TLAPS

-----------------------------------------------------------------------------
(* Sequences.                                                              *)
LEMMA SeqFacts ==
    ASSUME NEW S, NEW s \in Seq(S)
    PROVE  /\ Len(s) \in Nat /\ DOMAIN s = 1..Len(s) /\ ToSet(s) \subseteq S
           /\ \A i \in 1..Len(s) : s[i] \in S /\ s[i] \in ToSet(s)
           /\ \A x \in ToSet(s) : \E i \in 1..Len(s) : x = s[i]
           /\ s # <<>> => Len(s) \in Nat \ {0}
BY DEF ToSet

LEMMA AppendFacts ==
    ASSUME NEW S, NEW s \in Seq(S), NEW e \in S
    PROVE  /\ Append(s, e) \in Seq(S) /\ Len(Append(s, e)) = Len(s) + 1
           /\ \A i \in 1..Len(s) : Append(s, e)[i] = s[i]
           /\ Append(s, e)[Len(s) + 1] = e
           /\ ToSet(Append(s, e)) = ToSet(s) \cup {e}
<1>1. /\ Append(s, e) \in Seq(S) /\ Len(Append(s, e)) = Len(s) + 1 /\ Len(s) \in Nat
      /\ \A i \in 1..Len(s) : Append(s, e)[i] = s[i]
      /\ Append(s, e)[Len(s) + 1] = e
  OBVIOUS
<1>2. DOMAIN s = 1..Len(s) /\ DOMAIN Append(s, e) = 1..Len(s) + 1
  BY <1>1
<1>3. \A i \in 1..Len(s) + 1 : i \in 1..Len(s) \/ i = Len(s) + 1
  BY <1>1
<1>4. ToSet(Append(s, e)) \subseteq ToSet(s) \cup {e}
  BY <1>1, <1>2, <1>3 DEF ToSet
<1>5. 1..Len(s) \subseteq 1..Len(s) + 1 /\ Len(s) + 1 \in 1..Len(s) + 1
  BY <1>1
<1>6. ToSet(s) \cup {e} \subseteq ToSet(Append(s, e))
  BY <1>1, <1>2, <1>5 DEF ToSet
<1> QED
  BY <1>1, <1>4, <1>6

LEMMA TailFacts ==
    ASSUME NEW S, NEW s \in Seq(S), s # <<>>
    PROVE  /\ Tail(s) \in Seq(S) /\ Len(Tail(s)) = Len(s) - 1
           /\ \A i \in 1..Len(s) - 1 : Tail(s)[i] = s[i + 1]
           /\ Head(s) = s[1] /\ Head(s) \in S
           /\ ToSet(Tail(s)) \subseteq ToSet(s)
<1>1. /\ Tail(s) \in Seq(S) /\ Len(s) \in Nat \ {0} /\ Len(Tail(s)) = Len(s) - 1
      /\ \A i \in 1..Len(s) - 1 : Tail(s)[i] = s[i + 1]
      /\ Head(s) = s[1] /\ Head(s) \in S
  OBVIOUS
<1>2. DOMAIN s = 1..Len(s) /\ DOMAIN Tail(s) = 1..Len(s) - 1
  BY <1>1
<1>3. \A i \in 1..Len(s) - 1 : i + 1 \in 1..Len(s)
  BY <1>1
<1> QED
  BY <1>1, <1>2, <1>3 DEF ToSet

LEMMA RemoveAtFacts ==
    ASSUME NEW S, NEW s \in Seq(S), NEW i \in 1..Len(s)
    PROVE  /\ RemoveAt(s, i) \in Seq(S) /\ Len(RemoveAt(s, i)) = Len(s) - 1
           /\ \A j \in 1..Len(s) - 1 : RemoveAt(s, i)[j] = IF j < i THEN s[j] ELSE s[j + 1]
           /\ ToSet(RemoveAt(s, i)) \subseteq ToSet(s)
<1> DEFINE a == SubSeq(s, 1, i - 1)
           b == SubSeq(s, i + 1, Len(s))
<1>1. Len(s) \in Nat /\ i \in Nat \ {0} /\ i <= Len(s) /\ \A j \in 1..Len(s) : s[j] \in S
  OBVIOUS
<1>2. /\ a \in Seq(S) /\ Len(a) = i - 1
      /\ \A j \in 1..i - 1 : a[j] = s[j]
  <2>1. 1 \in Int /\ i - 1 \in Int /\ \A j \in 1..i - 1 : s[j] \in S
    BY <1>1
  <2>2. /\ a \in Seq(S) /\ Len(a) = IF 1 <= i - 1 THEN (i - 1) - 1 + 1 ELSE 0
        /\ \A j \in 1..(i - 1) - 1 + 1 : a[j] = s[1 + j - 1]
    BY <2>1, SubSeqProperties
  <2> HIDE DEF a
  <2> QED
    BY <1>1, <2>2
<1>3. /\ b \in Seq(S) /\ Len(b) = Len(s) - i
      /\ \A j \in 1..Len(s) - i : b[j] = s[i + j]
  <2>1. i + 1 \in Int /\ Len(s) \in Int /\ \A j \in i + 1..Len(s) : s[j] \in S
    BY <1>1
  <2>2. /\ b \in Seq(S) /\ Len(b) = IF i + 1 <= Len(s) THEN Len(s) - (i + 1) + 1 ELSE 0
        /\ \A j \in 1..Len(s) - (i + 1) + 1 : b[j] = s[(i + 1) + j - 1]
    BY <2>1, SubSeqProperties
  <2> HIDE DEF b
  <2> QED
    BY <1>1, <2>2
<1>4. RemoveAt(s, i) = a \o b
  BY DEF RemoveAt
<1> HIDE DEF a, b
<1>5. /\ a \o b \in Seq(S) /\ Len(a \o b) = Len(a) + Len(b)
      /\ \A j \in 1..Len(a) + Len(b) : (a \o b)[j] = IF j <= Len(a) THEN a[j] ELSE b[j - Len(a)]
  BY <1>2, <1>3, ConcatProperties
<1>6. /\ RemoveAt(s, i) \in Seq(S) /\ Len(RemoveAt(s, i)) = Len(s) - 1
      /\ \A j \in 1..Len(s) - 1 : RemoveAt(s, i)[j] = IF j < i THEN s[j] ELSE s[j + 1]
  <2>1. Len(a) + Len(b) = Len(s) - 1
    BY <1>1, <1>2, <1>3
  <2>2. ASSUME NEW j \in 1..Len(s) - 1
        PROVE  (a \o b)[j] = IF j < i THEN s[j] ELSE s[j + 1]
    <3>1. j <= Len(a) <=> j < i
      BY <1>1, <1>2
    <3>2. j < i => j \in 1..i - 1
      BY <1>1
    <3>3. ~(j < i) => j - Len(a) \in 1..Len(s) - i /\ i + (j - Len(a)) = j + 1
      BY <1>1, <1>2
    <3>4. (a \o b)[j] = IF j <= Len(a) THEN a[j] ELSE b[j - Len(a)]
      BY <1>5, <2>1
    <3> QED
      BY <1>2, <1>3, <3>1, <3>2, <3>3, <3>4
  <2> QED
    BY <1>4, <1>5, <2>1, <2>2
<1>7. DOMAIN RemoveAt(s, i) = 1..Len(s) - 1 /\ DOMAIN s = 1..Len(s)
  BY <1>1, <1>6
<1>8. \A j \in 1..Len(s) - 1 : j \in 1..Len(s) /\ j + 1 \in 1..Len(s)
  BY <1>1
<1> QED
  BY <1>6, <1>7, <1>8 DEF ToSet

LEMMA InsertAtFacts ==
    ASSUME NEW S, NEW s \in Seq(S), NEW i \in 1..Len(s) + 1, NEW e \in S
    PROVE  /\ InsertAt(s, i, e) \in Seq(S) /\ Len(InsertAt(s, i, e)) = Len(s) + 1
           /\ \A j \in 1..Len(s) + 1 : InsertAt(s, i, e)[j] =
                 IF j < i THEN s[j] ELSE IF j = i THEN e ELSE s[j - 1]
           /\ ToSet(InsertAt(s, i, e)) = ToSet(s) \cup {e}
<1> DEFINE a == SubSeq(s, 1, i - 1)
           b == SubSeq(s, i, Len(s))
           c == a \o <<e>>
<1>1. Len(s) \in Nat /\ i \in Nat \ {0} /\ i <= Len(s) + 1 /\ \A j \in 1..Len(s) : s[j] \in S
  OBVIOUS
<1>2. /\ a \in Seq(S) /\ Len(a) = i - 1
      /\ \A j \in 1..i - 1 : a[j] = s[j]
  <2>1. 1 \in Int /\ i - 1 \in Int /\ \A j \in 1..i - 1 : s[j] \in S
    BY <1>1
  <2>2. /\ a \in Seq(S) /\ Len(a) = IF 1 <= i - 1 THEN (i - 1) - 1 + 1 ELSE 0
        /\ \A j \in 1..(i - 1) - 1 + 1 : a[j] = s[1 + j - 1]
    BY <2>1, SubSeqProperties
  <2> HIDE DEF a
  <2>3. Len(a) = i - 1
    BY <1>1, <2>2
  <2>4. ASSUME NEW j \in 1..i - 1
        PROVE  a[j] = s[j]
    <3>1. j \in 1..(i - 1) - 1 + 1 /\ 1 + j - 1 = j
      BY <1>1
    <3> QED
      BY <2>2, <3>1
  <2> QED
    BY <2>2, <2>3, <2>4
<1>3. /\ b \in Seq(S) /\ Len(b) = Len(s) - i + 1
      /\ \A j \in 1..Len(s) - i + 1 : b[j] = s[i + j - 1]
  <2>1. i \in Int /\ Len(s) \in Int /\ \A j \in i..Len(s) : s[j] \in S
    BY <1>1
  <2>2. /\ b \in Seq(S) /\ Len(b) = IF i <= Len(s) THEN Len(s) - i + 1 ELSE 0
        /\ \A j \in 1..Len(s) - i + 1 : b[j] = s[i + j - 1]
    BY <2>1, SubSeqProperties
  <2> HIDE DEF b
  <2>3. Len(b) = Len(s) - i + 1
    BY <1>1, <2>2
  <2> QED
    BY <2>2, <2>3
<1>4. InsertAt(s, i, e) = c \o b
  BY DEF InsertAt
<1> HIDE DEF a, b
<1>5. /\ c \in Seq(S) /\ Len(c) = i
      /\ \A j \in 1..i - 1 : c[j] = s[j]
      /\ c[i] = e
  <2>1. <<e>> \in Seq(S) /\ Len(<<e>>) = 1 /\ <<e>>[1] = e
    OBVIOUS
  <2>2. /\ c \in Seq(S) /\ Len(c) = Len(a) + Len(<<e>>)
        /\ \A j \in 1..Len(a) + Len(<<e>>) : c[j] = IF j <= Len(a) THEN a[j] ELSE <<e>>[j - Len(a)]
    BY <1>2, <2>1, ConcatProperties
  <2> HIDE DEF c
  <2>3. Len(c) = i
    BY <1>1, <1>2, <2>1, <2>2
  <2>4. ASSUME NEW j \in 1..i - 1
        PROVE  c[j] = s[j]
    BY <1>1, <1>2, <2>1, <2>2
  <2>5. c[i] = e
    <3>1. i \in 1..Len(a) + Len(<<e>>) /\ ~(i <= Len(a)) /\ i - Len(a) = 1
      BY <1>1, <1>2, <2>1
    <3> QED
      BY <2>1, <2>2, <3>1
  <2> QED
    BY <2>2, <2>3, <2>4, <2>5
<1> HIDE DEF c
<1>6. /\ c \o b \in Seq(S) /\ Len(c \o b) = Len(c) + Len(b)
      /\ \A j \in 1..Len(c) + Len(b) : (c \o b)[j] = IF j <= Len(c) THEN c[j] ELSE b[j - Len(c)]
  BY <1>3, <1>5, ConcatProperties
<1>7. /\ InsertAt(s, i, e) \in Seq(S) /\ Len(InsertAt(s, i, e)) = Len(s) + 1
      /\ \A j \in 1..Len(s) + 1 : InsertAt(s, i, e)[j] =
            IF j < i THEN s[j] ELSE IF j = i THEN e ELSE s[j - 1]
  <2>1. Len(c) + Len(b) = Len(s) + 1
    BY <1>1, <1>3, <1>5
  <2>2. ASSUME NEW j \in 1..Len(s) + 1
        PROVE  (c \o b)[j] = IF j < i THEN s[j] ELSE IF j = i THEN e ELSE s[j - 1]
    <3>1. j <= Len(c) <=> j < i \/ j = i
      BY <1>1, <1>5
    <3>2. j < i => j \in 1..i - 1
      BY <1>1
    <3>3. ~(j < i \/ j = i) => j - Len(c) \in 1..Len(s) - i + 1 /\ i + (j - Len(c)) - 1 = j - 1
      BY <1>1, <1>5
    <3>4. (c \o b)[j] = IF j <= Len(c) THEN c[j] ELSE b[j - Len(c)]
      BY <1>6, <2>1
    <3> QED
      BY <1>3, <1>5, <3>1, <3>2, <3>3, <3>4
  <2> QED
    BY <1>4, <1>6, <2>1, <2>2
<1>8. DOMAIN InsertAt(s, i, e) = 1..Len(s) + 1 /\ DOMAIN s = 1..Len(s)
  BY <1>1, <1>7
<1>9. ASSUME NEW j \in 1..Len(s) + 1
      PROVE  InsertAt(s, i, e)[j] \in ToSet(s) \cup {e}
  <2>1. (j < i => j \in 1..Len(s)) /\ (~(j < i) /\ j # i => j - 1 \in 1..Len(s))
    BY <1>1
  <2> QED
    BY <1>7, <2>1 DEF ToSet
<1>10. ASSUME NEW j \in 1..Len(s)
       PROVE  s[j] \in ToSet(InsertAt(s, i, e))
  <2>1. CASE j < i
    <3>1. j \in 1..Len(s) + 1 /\ InsertAt(s, i, e)[j] = s[j]
      BY <1>1, <1>7, <2>1
    <3> QED
      BY <1>8, <3>1 DEF ToSet
  <2>2. CASE ~(j < i)
    <3>1. j + 1 \in 1..Len(s) + 1 /\ ~(j + 1 < i) /\ j + 1 # i /\ (j + 1) - 1 = j
      BY <1>1, <2>2
    <3>2. InsertAt(s, i, e)[j + 1] = s[j]
      BY <1>7, <3>1
    <3> QED
      BY <1>8, <3>1, <3>2 DEF ToSet
  <2> QED
    BY <2>1, <2>2
<1>11. e \in ToSet(InsertAt(s, i, e))
  <2>1. i \in 1..Len(s) + 1 /\ ~(i < i)
    BY <1>1
  <2>2. InsertAt(s, i, e)[i] = e
    BY <1>7, <2>1
  <2> QED
    BY <1>8, <2>1, <2>2 DEF ToSet
<1>12. ToSet(InsertAt(s, i, e)) \subseteq ToSet(s) \cup {e}
  BY <1>8, <1>9 DEF ToSet
<1>13. ToSet(s) \subseteq ToSet(InsertAt(s, i, e))
  <2> SUFFICES ASSUME NEW x \in ToSet(s)
               PROVE  x \in ToSet(InsertAt(s, i, e))
    OBVIOUS
  <2>1. \E j \in 1..Len(s) : x = s[j]
    BY <1>8 DEF ToSet
  <2> QED
    BY <2>1, <1>10
<1> QED
  BY <1>7, <1>11, <1>12, <1>13

LEMMA FrontFacts ==
    ASSUME NEW S, NEW s \in Seq(S), s # <<>>
    PROVE  /\ Front(s) \in Seq(S) /\ Len(Front(s)) = Len(s) - 1
           /\ \A j \in 1..Len(s) - 1 : Front(s)[j] = s[j]
<1>1. Len(s) \in Nat \ {0} /\ \A j \in 1..Len(s) : s[j] \in S
  OBVIOUS
<1>2. 1 \in Int /\ Len(s) - 1 \in Int /\ \A j \in 1..Len(s) - 1 : s[j] \in S
  BY <1>1
<1> DEFINE a == SubSeq(s, 1, Len(s) - 1)
<1>3. /\ a \in Seq(S) /\ Len(a) = IF 1 <= Len(s) - 1 THEN (Len(s) - 1) - 1 + 1 ELSE 0
      /\ \A j \in 1..(Len(s) - 1) - 1 + 1 : a[j] = s[1 + j - 1]
  BY <1>2, SubSeqProperties
<1>4. Front(s) = a
  BY DEF Front
<1> HIDE DEF a
<1> QED
  BY <1>1, <1>3, <1>4

-----------------------------------------------------------------------------
(* The deployments: the list in memory is the file's, or a save is to come *)
(* or has failed.                                                          *)
DeploymentsInv == DeploymentsSaved /\ DOMAIN operator = Operators

(* The file has what the console shows whenever no request has a change to *)
(* save and the latest save did not fail (deploymentStore.save).           *)
THEOREM DeploymentsAreSaved == DeploymentsSpec => []DeploymentsSaved
<1>1. DeploymentsInit => DeploymentsInv
  BY DEF DeploymentsInit, DeploymentsInv, DeploymentsSaved
<1>2. DeploymentsInv /\ [DeploymentsNext]_deploymentVars => DeploymentsInv'
  <2> SUFFICES ASSUME DeploymentsInv, [DeploymentsNext]_deploymentVars
               PROVE  DeploymentsInv'
    OBVIOUS
  <2>0. DOMAIN operator = Operators /\ DeploymentsSaved
    BY DEF DeploymentsInv
  <2>1. ASSUME NEW o \in Operators, Go(o, "save")
        PROVE  DeploymentsInv'
    BY <2>0, <2>1 DEF Go, Is, DeploymentsInv, DeploymentsSaved
  <2>2. ASSUME NEW o \in Operators, SaveDeployments(o)
        PROVE  DeploymentsInv'
    BY <2>0, <2>2 DEF SaveDeployments, Go, DeploymentsInv, DeploymentsSaved
  <2>3. ASSUME NEW o \in Operators, NEW i \in DOMAIN items, StartCheck(o, i)
        PROVE  DeploymentsInv'
    BY <2>0, <2>3 DEF StartCheck, Is, DeploymentsInv, DeploymentsSaved
  <2>4. CASE RestartDeployments
    BY <2>0, <2>4 DEF RestartDeployments, DeploymentsInv, DeploymentsSaved
  <2>5. CASE UNCHANGED deploymentVars
    BY <2>0, <2>5 DEF deploymentVars, Is, DeploymentsInv, DeploymentsSaved
  <2> QED
    BY <2>1, <2>2, <2>3, <2>4, <2>5 DEF DeploymentsNext, Deploy, SetAddress, EndCheck
<1> QED
  BY <1>1, <1>2, PTL DEF DeploymentsSpec, DeploymentsInv

-----------------------------------------------------------------------------
(* The password.  No change and no login crossed the latest change: then a *)
(* login past its check and every session were opened with the password in *)
(* force, and the file has it, or has the one that is about to be.         *)
Agreeing ==
    /\ \A b \in Browsers : browser[b].at = "open" => browser[b].given = adminPassword
    /\ \A s \in ToSet(adminSessions) : s.password = adminPassword
    /\ adminPassword = Loaded(passwordFile) \/ \E b \in Browsers : browser[b].at = "set"

(* A change that nothing crossed, and that is not followed by another      *)
(* waiting one, has the file.                                              *)
FileOfLatest ==
    \A b \in Browsers :
        /\ browser[b].at \in {"save", "set"} => browser[b].new # Default
        /\ browser[b].at = "set" /\ browser[b].clean =>
              \/ passwordFile = <<browser[b].new>>
              \/ \E d \in Browsers \ {b} : browser[d].at = "set"

Session == [id : Nat, password : Passwords]
Browser ==
    [at : {"idle", "login", "open", "check", "save", "set"}, given : Passwords,
     new : Passwords, cookie : Nat, clean : BOOLEAN]

AccessInv ==
    /\ browser \in [Browsers -> Browser] /\ adminPassword \in Passwords
    /\ passwordFile \in {<<>>} \cup {<<w>> : w \in Passwords}
    /\ adminSessions \in Seq(Session) /\ opened \in Nat /\ crossed \in BOOLEAN
    /\ mustChangePassword = (adminPassword = Default)
    /\ FileOfLatest
    /\ ~crossed => Agreeing

LEMMA AccessStart == AccessInit => AccessInv
<1> SUFFICES ASSUME AccessInit
             PROVE  AccessInv
  OBVIOUS
<1>1. /\ browser = [b \in Browsers |-> AtRest(0)] /\ adminSessions = <<>> /\ opened = 0
      /\ adminPassword = Bootstrap /\ mustChangePassword = (Bootstrap = Default)
      /\ crossed = FALSE /\ passwordFile \in {<<>>, <<Bootstrap>>}
  BY DEF AccessInit
<1>2. AtRest(0) \in Browser /\ AtRest(0).at = "idle"
  BY AccessAssumption DEF AtRest, Browser
<1>3. ToSet(<<>>) = {}
  BY DEF ToSet
<1>4. Loaded(passwordFile) = Bootstrap
  BY <1>1 DEF Loaded
<1>5. \A b \in Browsers : browser[b].at = "idle"
  BY <1>1, <1>2
<1>6. /\ browser \in [Browsers -> Browser] /\ adminPassword \in Passwords
      /\ passwordFile \in {<<>>} \cup {<<w>> : w \in Passwords}
      /\ adminSessions \in Seq(Session) /\ opened \in Nat /\ crossed \in BOOLEAN
  <2>1. browser \in [Browsers -> Browser] /\ adminSessions \in Seq(Session)
    BY <1>1, <1>2
  <2>2. adminPassword \in Passwords
    BY <1>1, AccessAssumption
  <2> QED
    BY <1>1, <2>1, <2>2
<1>7. FileOfLatest /\ Agreeing
  BY <1>1, <1>3, <1>4, <1>5 DEF FileOfLatest, Agreeing
<1> QED
  BY <1>1, <1>6, <1>7 DEF AccessInv

(* What a request other than a change that takes effect may do: b moves    *)
(* on, to a session's opening only with the password in force, to saving   *)
(* only with another than the default one; sessions are dropped, or opened *)
(* with the password in force.                                             *)
LEMMA Proceeding ==
    ASSUME AccessInv, NEW b \in Browsers, NEW new \in Browser,
           browser[b].at # "set", new.at # "set",
           browser' = [browser EXCEPT ![b] = new],
           UNCHANGED <<adminPassword, mustChangePassword, passwordFile, crossed>>,
           adminSessions' \in Seq(Session), opened' \in Nat,
           new.at = "open" /\ ~crossed => new.given = adminPassword,
           new.at = "save" => new.new # Default,
           \A s \in ToSet(adminSessions') :
              s \in ToSet(adminSessions) \/ (~crossed => s.password = adminPassword)
    PROVE  AccessInv'
<1>1. /\ browser' \in [Browsers -> Browser] /\ browser'[b] = new
      /\ \A d \in Browsers : d # b => browser'[d] = browser[d]
  BY DEF AccessInv
<1>2. \A d \in Browsers : browser'[d].at = "set" <=> browser[d].at = "set"
  BY <1>1
<1>3. FileOfLatest'
  BY <1>1, <1>2 DEF AccessInv, FileOfLatest
<1>4. ASSUME ~crossed
      PROVE  Agreeing'
  BY <1>1, <1>2, <1>4 DEF AccessInv, Agreeing
<1> QED
  BY <1>1, <1>3, <1>4 DEF AccessInv

LEMMA Loading ==
    \A saved : Loaded(IF saved = <<Default>> THEN <<Bootstrap>> ELSE saved) = Loaded(saved)
BY DEF Loaded

LEMMA AccessStep ==
    ASSUME AccessInv, AccessNext
    PROVE  AccessInv'
<1> DEFINE File == UNCHANGED <<adminPassword, mustChangePassword, passwordFile, crossed>>
<1>0. /\ browser \in [Browsers -> Browser] /\ adminSessions \in Seq(Session) /\ opened \in Nat
      /\ ToSet(<<>>) = {}
      /\ adminPassword \in Passwords /\ Default \in Passwords /\ Bootstrap \in Passwords
  BY AccessAssumption DEF AccessInv, ToSet
<1>1. ASSUME NEW b \in Browsers
      PROVE  /\ AtRest(browser[b].cookie) \in Browser /\ AtRest(0) \in Browser
             /\ \A c \in Nat : AtRest(c) \in Browser /\ AtRest(c).at = "idle"
  BY <1>0 DEF AtRest, Browser
<1>2. ASSUME NEW b \in Browsers, NEW password \in Passwords, AskLogin(b, password)
      PROVE  AccessInv'
  <2> DEFINE new == [browser[b] EXCEPT !.at = "login", !.given = password]
  <2>1. new \in Browser /\ new.at = "login"
    BY <1>0 DEF Browser
  <2>2. browser' = [browser EXCEPT ![b] = new] /\ browser[b].at # "set" /\ File
        /\ UNCHANGED <<adminSessions, opened>>
    BY <1>2 DEF AskLogin
  <2> HIDE DEF new
  <2> QED
    BY <1>0, <2>1, <2>2, Proceeding
<1>3. ASSUME NEW b \in Browsers, NEW ask \in Passwords, NEW to \in Passwords, AskChange(b, ask, to)
      PROVE  AccessInv'
  <2> DEFINE new == [browser[b] EXCEPT !.at = "check", !.given = ask, !.new = to]
  <2>1. new \in Browser /\ new.at = "check"
    BY <1>0 DEF Browser
  <2>2. browser' = [browser EXCEPT ![b] = new] /\ browser[b].at # "set" /\ File
        /\ UNCHANGED <<adminSessions, opened>>
    BY <1>3 DEF AskChange
  <2> HIDE DEF new
  <2> QED
    BY <1>0, <2>1, <2>2, Proceeding
<1>4. ASSUME NEW b \in Browsers, CheckLogin(b)
      PROVE  AccessInv'
  <2>1. browser[b].at # "set" /\ File /\ UNCHANGED <<adminSessions, opened>>
    BY <1>4 DEF CheckLogin
  <2>2. CASE browser[b].given = adminPassword
    <3> DEFINE new == [browser[b] EXCEPT !.at = "open"]
    <3>1. new \in Browser /\ new.at = "open" /\ new.given = browser[b].given
      BY <1>0 DEF Browser
    <3>2. browser' = [browser EXCEPT ![b] = new]
      BY <1>4, <2>2 DEF CheckLogin, To
    <3> HIDE DEF new
    <3> QED
      BY <1>0, <2>1, <2>2, <3>1, <3>2, Proceeding
  <2>3. CASE browser[b].given # adminPassword
    <3>1. browser' = [browser EXCEPT ![b] = AtRest(browser[b].cookie)]
      BY <1>4, <2>3 DEF CheckLogin, Rest, Done
    <3>2. AtRest(browser[b].cookie) \in Browser /\ AtRest(browser[b].cookie).at = "idle"
      BY <1>0, <1>1 DEF AtRest
    <3> QED
      BY <1>0, <2>1, <3>1, <3>2, Proceeding
  <2> QED
    BY <2>2, <2>3
<1>5. ASSUME NEW b \in Browsers, OpenSession(b)
      PROVE  AccessInv'
  <2> DEFINE kept == IF Len(adminSessions) >= MaxSessions THEN Tail(adminSessions) ELSE adminSessions
             e == [id |-> opened + 1, password |-> browser[b].given]
  <2>1. /\ browser[b].at = "open" /\ opened' = opened + 1 /\ adminSessions' = Append(kept, e)
        /\ browser' = [browser EXCEPT ![b] = AtRest(opened + 1)] /\ File
    BY <1>5 DEF OpenSession, Done
  <2>2. kept \in Seq(Session) /\ ToSet(kept) \subseteq ToSet(adminSessions)
    <3>1. CASE Len(adminSessions) >= MaxSessions
      <4>1. adminSessions # <<>>
        BY <1>0, <3>1, AccessAssumption
      <4> QED
        BY <1>0, <3>1, <4>1, TailFacts
    <3>2. CASE ~(Len(adminSessions) >= MaxSessions)
      BY <1>0, <3>2
    <3> QED
      BY <3>1, <3>2
  <2>3. e \in Session /\ e.password = browser[b].given
    BY <1>0 DEF Session, Browser
  <2>4. ~crossed => browser[b].given = adminPassword
    BY <2>1 DEF AccessInv, Agreeing
  <2> HIDE DEF kept, e
  <2>5. /\ adminSessions' \in Seq(Session)
        /\ \A s \in ToSet(adminSessions') : s \in ToSet(adminSessions) \/ s = e
    BY <2>1, <2>2, <2>3, AppendFacts
  <2>6. AtRest(opened + 1) \in Browser /\ AtRest(opened + 1).at = "idle" /\ opened + 1 \in Nat
    BY <1>0, <1>1
  <2> QED
    BY <2>1, <2>3, <2>4, <2>5, <2>6, Proceeding
<1>6. ASSUME NEW b \in Browsers, Logout(b)
      PROVE  AccessInv'
  <2>1. browser' = [browser EXCEPT ![b] = AtRest(0)] /\ browser[b].at # "set" /\ File /\ UNCHANGED opened
    BY <1>6 DEF Logout, Done
  <2>2. adminSessions' \in Seq(Session) /\ ToSet(adminSessions') \subseteq ToSet(adminSessions)
    <3>1. CASE UNCHANGED adminSessions
      BY <1>0, <3>1
    <3>2. CASE \E i \in DOMAIN adminSessions : adminSessions' = RemoveAt(adminSessions, i)
      <4>1. DOMAIN adminSessions = 1..Len(adminSessions)
        BY <1>0
      <4> QED
        BY <1>0, <3>2, <4>1, RemoveAtFacts
    <3> QED
      BY <1>6, <3>1, <3>2 DEF Logout
  <2>3. AtRest(0) \in Browser /\ AtRest(0).at = "idle"
    BY <1>1
  <2> QED
    BY <1>0, <2>1, <2>2, <2>3, Proceeding
<1>7. ASSUME NEW b \in Browsers, CheckCurrent(b)
      PROVE  AccessInv'
  <2>1. browser[b].at # "set" /\ File /\ UNCHANGED <<adminSessions, opened>>
    BY <1>7 DEF CheckCurrent
  <2>2. CASE browser[b].given = adminPassword /\ browser[b].new # Default
    <3> DEFINE new == [browser[b] EXCEPT !.at = "save"]
    <3>1. new \in Browser /\ new.at = "save" /\ new.new = browser[b].new
      BY <1>0 DEF Browser
    <3>2. browser' = [browser EXCEPT ![b] = new]
      BY <1>7, <2>2 DEF CheckCurrent, To
    <3> HIDE DEF new
    <3> QED
      BY <1>0, <2>1, <2>2, <3>1, <3>2, Proceeding
  <2>3. CASE ~(browser[b].given = adminPassword /\ browser[b].new # Default)
    <3>1. browser' = [browser EXCEPT ![b] = AtRest(browser[b].cookie)]
      BY <1>7, <2>3 DEF CheckCurrent, Rest, Done
    <3>2. AtRest(browser[b].cookie) \in Browser /\ AtRest(browser[b].cookie).at = "idle"
      BY <1>0, <1>1 DEF AtRest
    <3> QED
      BY <1>0, <2>1, <3>1, <3>2, Proceeding
  <2> QED
    BY <2>2, <2>3
<1>8. ASSUME NEW b \in Browsers, SavePassword(b)
      PROVE  AccessInv'
  <2>1. browser[b].at = "save" /\ UNCHANGED <<adminPassword, mustChangePassword, adminSessions, opened, crossed>>
    BY <1>8 DEF SavePassword
  <2>2. CASE passwordFile' = <<browser[b].new>> /\ To(b, "set")
    <3> DEFINE new == [browser[b] EXCEPT !.at = "set"]
    <3>1. new \in Browser /\ new.at = "set" /\ new.new = browser[b].new
      BY <1>0 DEF Browser
    <3>2. browser' = [browser EXCEPT ![b] = new]
      BY <2>2 DEF To
    <3> HIDE DEF new
    <3>3. /\ browser' \in [Browsers -> Browser] /\ browser'[b] = new
          /\ \A d \in Browsers : d # b => browser'[d] = browser[d]
      BY <1>0, <3>1, <3>2
    <3>4. FileOfLatest'
      BY <2>1, <2>2, <3>1, <3>3 DEF AccessInv, FileOfLatest
    <3>5. Agreeing => Agreeing'
      BY <2>1, <3>1, <3>3 DEF Agreeing
    <3>6. passwordFile' \in {<<>>} \cup {<<w>> : w \in Passwords}
      BY <1>0, <2>2 DEF Browser
    <3> QED
      BY <2>1, <3>3, <3>4, <3>5, <3>6 DEF AccessInv
  <2>3. CASE Rest(b) /\ UNCHANGED passwordFile
    <3>1. browser' = [browser EXCEPT ![b] = AtRest(browser[b].cookie)]
      BY <2>3 DEF Rest, Done
    <3>2. AtRest(browser[b].cookie) \in Browser /\ AtRest(browser[b].cookie).at = "idle"
      BY <1>0, <1>1 DEF AtRest
    <3> QED
      BY <1>0, <2>1, <2>3, <3>1, <3>2, Proceeding
  <2> QED
    BY <1>8, <2>2, <2>3 DEF SavePassword
<1>9. ASSUME NEW b \in Browsers, SetPassword(b)
      PROVE  AccessInv'
  <2> DEFINE others(ats) == {x \in Browsers \ {b} : browser[x].at \in ats}
             doubted(x) == [browser[x] EXCEPT !.clean = @ /\ x \notin others({"save", "set"})]
  <2>1. /\ browser[b].at = "set" /\ adminPassword' = browser[b].new /\ mustChangePassword' = FALSE
        /\ adminSessions' = <<>> /\ UNCHANGED <<passwordFile, opened>>
        /\ crossed' = (~browser[b].clean \/ others({"open", "save", "set"}) # {})
        /\ browser' = [x \in Browsers |-> IF x = b THEN AtRest(0) ELSE doubted(x)]
    BY <1>9 DEF SetPassword, Crossing
  <2>2. ASSUME NEW x \in Browsers
        PROVE  /\ doubted(x) \in Browser /\ doubted(x).at = browser[x].at
               /\ doubted(x).new = browser[x].new /\ doubted(x).given = browser[x].given
               /\ x # b /\ browser[x].at \in {"save", "set"} => ~doubted(x).clean
    BY <1>0 DEF Browser
  <2>3. /\ browser' \in [Browsers -> Browser] /\ browser'[b].at = "idle"
        /\ \A x \in Browsers \ {b} :
              /\ browser'[x].at = browser[x].at /\ browser'[x].new = browser[x].new
              /\ browser[x].at \in {"save", "set"} => ~browser'[x].clean
    <3> HIDE DEF doubted
    <3> QED
      BY <1>0, <1>1, <2>1, <2>2
  <2>4. browser[b].new \in Passwords /\ browser[b].new # Default /\ browser[b].clean \in BOOLEAN
    BY <1>0, <2>1 DEF AccessInv, FileOfLatest, Browser
  <2>5. FileOfLatest'
    BY <2>3 DEF AccessInv, FileOfLatest
  <2>6. ASSUME ~crossed'
        PROVE  Agreeing'
    <3>1. browser[b].clean /\ \A x \in Browsers \ {b} : browser[x].at \notin {"open", "save", "set"}
      BY <2>1, <2>4, <2>6
    <3>2. passwordFile = <<browser[b].new>>
      BY <2>1, <3>1 DEF AccessInv, FileOfLatest
    <3>3. Loaded(passwordFile) = browser[b].new
      BY <2>4, <3>2 DEF Loaded
    <3> QED
      BY <1>0, <2>1, <2>3, <3>1, <3>3 DEF Agreeing
  <2>7. adminSessions' \in Seq(Session) /\ crossed' \in BOOLEAN
    BY <2>1
  <2> QED
    BY <1>0, <2>1, <2>3, <2>4, <2>5, <2>6, <2>7 DEF AccessInv
<1>10. ASSUME NEW b \in Browsers, TimePasses(b)
       PROVE  AccessInv'
  BY <1>10 DEF TimePasses, AccessInv, Agreeing, FileOfLatest
<1>11. CASE SessionExpires
  <2>1. adminSessions' \in Seq(Session) /\ ToSet(adminSessions') \subseteq ToSet(adminSessions)
    BY <1>0, <1>11, TailFacts DEF SessionExpires
  <2> QED
    BY <1>11, <2>1 DEF SessionExpires, AccessInv, Agreeing, FileOfLatest
<1>12. CASE RestartAccess
  <2>1. /\ adminPassword' = Loaded(passwordFile)
        /\ mustChangePassword' = (Loaded(passwordFile) = Default)
        /\ passwordFile' = IF passwordFile = <<Default>> THEN <<Bootstrap>> ELSE passwordFile
        /\ adminSessions' = <<>> /\ crossed' = FALSE /\ UNCHANGED opened
        /\ browser' = [b \in Browsers |-> AtRest(browser[b].cookie)]
    BY <1>12 DEF RestartAccess, LoadPassword
  <2>2. browser' \in [Browsers -> Browser] /\ \A b \in Browsers : browser'[b].at = "idle"
    BY <1>1, <2>1 DEF AtRest
  <2>3. Loaded(passwordFile') = adminPassword'
    BY <2>1, Loading
  <2>4. Loaded(passwordFile) \in Passwords
    BY <1>0 DEF AccessInv, Loaded
  <2>5. passwordFile' \in {<<>>} \cup {<<w>> : w \in Passwords} /\ adminSessions' \in Seq(Session)
    BY <1>0, <2>1 DEF AccessInv
  <2>6. FileOfLatest' /\ Agreeing'
    BY <1>0, <2>1, <2>2, <2>3 DEF Agreeing, FileOfLatest
  <2> QED
    BY <1>0, <2>1, <2>2, <2>4, <2>5, <2>6 DEF AccessInv
<1> QED
  BY <1>2, <1>3, <1>4, <1>5, <1>6, <1>7, <1>8, <1>9, <1>10, <1>11, <1>12 DEF AccessNext

(* With no change under way the password that is accepted is the one a     *)
(* restart would accept, and every session was opened with it, unless the  *)
(* latest change crossed another one or a login (adminChangePassword).     *)
THEOREM PasswordIsAgreed == AccessSpec => []PasswordAgrees
<1>1. AccessInv => PasswordAgrees
  BY DEF AccessInv, Agreeing, PasswordAgrees
<1>2. AccessInv /\ [AccessNext]_accessVars => AccessInv'
  <2>1. AccessInv /\ UNCHANGED accessVars => AccessInv'
    BY DEF AccessInv, Agreeing, FileOfLatest, accessVars
  <2> QED
    BY <2>1, AccessStep
<1> QED
  BY <1>1, <1>2, AccessStart, PTL DEF AccessSpec

-----------------------------------------------------------------------------
(* The clean-ups: a walk that has deleted nothing and missed nothing still *)
(* has all that is old before it, for its list showed everything.          *)
NothingPassed(s) ==
    /\ sweep[s].stage = "clean" => Cleanup!Old \cap cloud = {}
    /\ sweep[s].stage = "walk" /\ ~sweep[s].any /\ ~sweep[s].missed =>
          Cleanup!Old \cap cloud \subseteq sweep[s].rest

CleanupInv ==
    /\ chats \in 0..Count /\ old \in 0..chats /\ cloud \subseteq 1..chats
    /\ sweep \in [Sweeps -> Cleanup!Sweep]
    /\ Page >= Count => \A s \in Sweeps : NothingPassed(s)

LEMMA AllListed ==
    ASSUME chats \in 0..Count, cloud \subseteq 1..chats
    PROVE  Cleanup!Listed \subseteq 1..Count /\ (Page >= Count => Cleanup!Listed = cloud)
<1>1. cloud \subseteq 1..Count /\ Count \in Nat /\ Page \in Nat
  BY SweepAssumption
<1>2. ASSUME NEW c \in cloud, Page >= Count
      PROVE  Cardinality({d \in cloud : d > c}) < Page
  <2> DEFINE later == {d \in cloud : d > c}
  <2>1. IsFiniteSet(1..Count) /\ Cardinality(1..Count) = Count
    <3>1. 1 \in Int /\ Count \in Int
      BY <1>1
    <3>2. IsFiniteSet(1..Count) /\ Cardinality(1..Count) = IF 1 > Count THEN 0 ELSE Count - 1 + 1
      BY <3>1, FS_Interval
    <3> QED
      BY <1>1, <3>2
  <2>2. c \in 1..Count /\ later \subseteq (1..Count) \ {c}
    <3>1. c \in 1..Count /\ ~(c > c)
      BY <1>1
    <3> QED
      BY <1>1, <3>1
  <2>3. IsFiniteSet((1..Count) \ {c}) /\ Cardinality((1..Count) \ {c}) = Count - 1
    BY <2>1, <2>2, FS_RemoveElement
  <2> HIDE DEF later
  <2>4. IsFiniteSet(later) /\ Cardinality(later) <= Cardinality((1..Count) \ {c})
    BY <2>2, <2>3, FS_Subset
  <2>5. Cardinality(later) < Page
    <3>1. Cardinality(later) \in Nat
      BY <2>4, FS_CardinalityType
    <3> QED
      BY <1>1, <1>2, <2>3, <2>4, <3>1
  <2> QED
    BY <2>5 DEF later
<1>3. /\ Cleanup!Listed \subseteq cloud
      /\ \A c \in cloud : Cardinality({d \in cloud : d > c}) < Page => c \in Cleanup!Listed
  <2>1. \A T : Cleanup!Cardinality(T) = Cardinality(T)
    BY DEF Cleanup!Cardinality, Cardinality
  <2> QED
    BY <2>1 DEF Cleanup!Listed
<1> QED
  BY <1>1, <1>2, <1>3

LEMMA CleanupStart == Cleanup!Init => CleanupInv
BY SweepAssumption DEF Cleanup!Init, CleanupInv, NothingPassed, Cleanup!Sweep, Cleanup!Ends

LEMMA CleanupStep ==
    ASSUME CleanupInv, Cleanup!Next
    PROVE  CleanupInv'
<1>0. /\ chats \in 0..Count /\ old \in 0..chats /\ cloud \subseteq 1..chats
      /\ sweep \in [Sweeps -> Cleanup!Sweep]
      /\ Count \in Nat /\ Page \in Nat /\ Rounds \in Nat
  BY SweepAssumption DEF CleanupInv
<1>1. CASE Cleanup!Open
  <2>1. chats' = chats + 1 /\ cloud' = cloud \cup {chats + 1} /\ chats < Count /\ UNCHANGED <<old, sweep>>
    BY <1>1 DEF Cleanup!Open
  <2>2. chats' \in 0..Count /\ old' \in 0..chats' /\ cloud' \subseteq 1..chats'
    BY <1>0, <2>1
  <2>3. chats + 1 \notin 1..old
    BY <1>0
  <2>4. Cleanup!Old' \cap cloud' = Cleanup!Old \cap cloud
    BY <2>1, <2>3 DEF Cleanup!Old
  <2> QED
    BY <2>1, <2>2, <2>4 DEF CleanupInv, NothingPassed
<1>2. ASSUME NEW s \in Sweeps, NEW new \in Cleanup!Sweep, sweep' = [sweep EXCEPT ![s] = new],
             cloud' \subseteq cloud, UNCHANGED <<chats, old>>,
             /\ Page >= Count /\ new.stage = "clean" => Cleanup!Old \cap cloud' = {}
             /\ Page >= Count /\ new.stage = "walk" /\ ~new.any /\ ~new.missed =>
                   Cleanup!Old \cap cloud' \subseteq new.rest
      PROVE  CleanupInv'
  <2>1. sweep' \in [Sweeps -> Cleanup!Sweep] /\ sweep'[s] = new /\ \A t \in Sweeps \ {s} : sweep'[t] = sweep[t]
    BY <1>0, <1>2
  <2>2. Cleanup!Old' = Cleanup!Old
    BY <1>2 DEF Cleanup!Old
  <2>3. ASSUME Page >= Count, NEW t \in Sweeps
        PROVE  NothingPassed(t)'
    <3>1. CASE t = s
      BY <1>2, <2>1, <2>2, <2>3, <3>1 DEF NothingPassed
    <3>2. CASE t # s
      BY <1>2, <2>1, <2>2, <2>3, <3>2 DEF CleanupInv, NothingPassed
    <3> QED
      BY <3>1, <3>2
  <2> QED
    BY <1>0, <1>2, <2>1, <2>3 DEF CleanupInv
<1>3. ASSUME NEW s \in Sweeps, Cleanup!Start(s) \/ Cleanup!ListFails(s) \/ Cleanup!RunOut(s)
      PROVE  CleanupInv'
  <2>1. PICK at \in {"list", "error", "exhausted"} : sweep' = [sweep EXCEPT ![s].stage = at]
    BY <1>3 DEF Cleanup!Start, Cleanup!ListFails, Cleanup!RunOut
  <2> DEFINE new == [sweep[s] EXCEPT !.stage = at]
  <2>2. new \in Cleanup!Sweep /\ new.stage \notin {"clean", "walk"}
    BY <1>0 DEF Cleanup!Sweep, Cleanup!Ends
  <2>3. sweep' = [sweep EXCEPT ![s] = new] /\ UNCHANGED <<cloud, chats, old>>
    BY <1>3, <2>1 DEF Cleanup!Start, Cleanup!ListFails, Cleanup!RunOut
  <2> HIDE DEF new
  <2> QED
    BY <1>2, <2>2, <2>3
<1>4. ASSUME NEW s \in Sweeps, Cleanup!Relist(s)
      PROVE  CleanupInv'
  <2>1. UNCHANGED <<cloud, chats, old>> /\ sweep[s].round < Rounds
    BY <1>4 DEF Cleanup!Relist, Cleanup!MoreRounds
  <2>2. Cleanup!Listed \subseteq 1..Count /\ (Page >= Count => Cleanup!Listed = cloud)
    BY <1>0, AllListed
  <2>3. CASE Cleanup!Listed = {}
    <3> DEFINE new == [sweep[s] EXCEPT !.stage = "clean"]
    <3>1. new \in Cleanup!Sweep /\ new.stage = "clean"
      BY <1>0 DEF Cleanup!Sweep, Cleanup!Ends
    <3>2. sweep' = [sweep EXCEPT ![s] = new]
      BY <1>4, <2>3 DEF Cleanup!Relist
    <3> HIDE DEF new
    <3> QED
      BY <1>2, <2>1, <2>2, <2>3, <3>1, <3>2
  <2>4. CASE Cleanup!Listed # {}
    <3> DEFINE new == Cleanup!Walking(sweep[s])
    <3>1. new \in Cleanup!Sweep /\ new.stage = "walk" /\ new.rest = Cleanup!Listed
      <4>1. sweep[s] \in Cleanup!Sweep /\ sweep[s].round + 1 \in 0..Rounds
        BY <1>0, <2>1 DEF Cleanup!Sweep
      <4> QED
        BY <2>2, <4>1 DEF Cleanup!Walking, Cleanup!Sweep, Cleanup!Ids
    <3>2. sweep' = [sweep EXCEPT ![s] = new]
      BY <1>4, <2>4 DEF Cleanup!Relist
    <3> HIDE DEF new
    <3> QED
      BY <1>2, <2>1, <2>2, <3>1, <3>2
  <2> QED
    BY <2>3, <2>4
<1>5. ASSUME NEW s \in Sweeps, NEW c \in Cleanup!Ids, Cleanup!Keep(s, c)
      PROVE  CleanupInv'
  <2> DEFINE new == [sweep[s] EXCEPT !.rest = @ \ {c}, !.kept = @ + 1]
  <2>1. /\ new \in Cleanup!Sweep /\ new.rest = sweep[s].rest \ {c} /\ new.stage = sweep[s].stage
        /\ new.any = sweep[s].any /\ new.missed = sweep[s].missed
    <3>1. sweep[s] \in Cleanup!Sweep /\ sweep[s].kept + 1 \in Nat /\ sweep[s].rest \ {c} \in SUBSET Cleanup!Ids
      BY <1>0 DEF Cleanup!Sweep
    <3> QED
      BY <3>1 DEF Cleanup!Sweep
  <2>2. /\ sweep[s].stage = "walk" /\ c \notin Cleanup!Old /\ UNCHANGED <<cloud, chats, old>>
        /\ sweep' = [sweep EXCEPT ![s] = new]
    BY <1>5 DEF Cleanup!Keep, Cleanup!At, Cleanup!ToGo
  <2>3. Page >= Count => NothingPassed(s)
    BY DEF CleanupInv
  <2> HIDE DEF new
  <2>4. Page >= Count /\ ~new.any /\ ~new.missed => Cleanup!Old \cap cloud' \subseteq new.rest
    BY <2>1, <2>2, <2>3 DEF NothingPassed
  <2> QED
    BY <1>2, <2>1, <2>2, <2>4
<1>6. ASSUME NEW s \in Sweeps, NEW c \in Cleanup!Ids, Cleanup!Delete(s, c)
      PROVE  CleanupInv'
  <2> DEFINE new == [sweep[s] EXCEPT !.rest = @ \ {c}, !.any = TRUE]
  <2>1. new \in Cleanup!Sweep /\ new.stage = sweep[s].stage /\ new.any
    BY <1>0 DEF Cleanup!Sweep
  <2>2. /\ sweep[s].stage = "walk" /\ cloud' \subseteq cloud /\ UNCHANGED <<chats, old>>
        /\ sweep' = [sweep EXCEPT ![s] = new]
    BY <1>6 DEF Cleanup!Delete, Cleanup!At
  <2> HIDE DEF new
  <2> QED
    BY <1>2, <2>1, <2>2
<1>7. ASSUME NEW s \in Sweeps, NEW c \in Cleanup!Ids, Cleanup!DeleteFails(s, c)
      PROVE  CleanupInv'
  <2> DEFINE new == [sweep[s] EXCEPT !.rest = @ \ {c}, !.missed = TRUE]
  <2>1. new \in Cleanup!Sweep /\ new.stage = sweep[s].stage /\ new.missed
    BY <1>0 DEF Cleanup!Sweep
  <2>2. /\ sweep[s].stage = "walk" /\ UNCHANGED <<cloud, chats, old>>
        /\ sweep' = [sweep EXCEPT ![s] = new]
    BY <1>7 DEF Cleanup!DeleteFails, Cleanup!At
  <2> HIDE DEF new
  <2> QED
    BY <1>2, <2>1, <2>2
<1>8. ASSUME NEW s \in Sweeps, Cleanup!NextRound(s)
      PROVE  CleanupInv'
  <2> DEFINE at == IF sweep[s].any THEN "list" ELSE IF sweep[s].missed THEN "unclean" ELSE "clean"
             new == [sweep[s] EXCEPT !.stage = at]
  <2>1. new \in Cleanup!Sweep /\ new.stage = at
    BY <1>0 DEF Cleanup!Sweep, Cleanup!Ends
  <2>2. /\ sweep[s].stage = "walk" /\ sweep[s].rest = {} /\ UNCHANGED <<cloud, chats, old>>
        /\ sweep' = [sweep EXCEPT ![s] = new]
    BY <1>8 DEF Cleanup!NextRound
  <2>3. Page >= Count => NothingPassed(s)
    BY DEF CleanupInv
  <2> HIDE DEF new
  <2>4. Page >= Count /\ new.stage = "clean" => Cleanup!Old \cap cloud' = {}
    BY <2>1, <2>2, <2>3 DEF NothingPassed
  <2> QED
    BY <1>2, <2>1, <2>2, <2>4
<1> QED
  BY <1>1, <1>3, <1>4, <1>5, <1>6, <1>7, <1>8 DEF Cleanup!Next, Cleanup!Step

(* A clean-up that ends because a round deleted nothing, and missed        *)
(* nothing, leaves nothing old in the cloud, for any number of clean-ups   *)
(* at once and of chats that open conversations meanwhile, as long as one  *)
(* listing shows them all (CleanupOldConversations).                       *)
THEOREM CleanupsClean == Cleanup!Spec => []CleanMeansClean
<1>1. CleanupInv => CleanMeansClean
  BY DEF CleanupInv, NothingPassed, CleanMeansClean, Cleanup!CleanMeansClean
<1>2. CleanupInv /\ [Cleanup!Next]_(Cleanup!vars) => CleanupInv'
  <2>1. CleanupInv /\ UNCHANGED Cleanup!vars => CleanupInv'
    BY DEF CleanupInv, NothingPassed, Cleanup!Old, Cleanup!vars
  <2> QED
    BY <2>1, CleanupStep
<1> QED
  BY <1>1, <1>2, CleanupStart, PTL DEF Cleanup!Spec

-----------------------------------------------------------------------------
(* The benchmark.  A job's result is about the task that it is at, and its *)
(* score is what WorkIsCredited says of it.                                *)
Tasks == DOMAIN Category
Outcome == [task : Tasks, status : {"done", "error", "cancelled"}, net : Nat, content : Contents]
Job == [at : {"none", "begin", "head", "chat", "grade", "append", "over"}, left : Seq(Tasks), step : Nat,
        forced : Nat, content : Contents, testsPass : BOOLEAN, cancelled : BOOLEAN,
        result : {<<>>} \cup {<<r>> : r \in Outcome}]
Run == [state : {"idle", "running", "done", "cancelled", "error"}, id : Nat, current : Tasks \cup {0},
        tasks : Seq([run : Jobs, task : Tasks]), cancel : {0} \cup Jobs, selected : Seq(Tasks)]

Credited(r) ==
    /\ r.status = "done" =>
          /\ r.content # "tampered" /\ r.net >= Score["start"]
          /\ Passed(r.content) = Total => r.net = Total
    /\ r.status # "done" => r.net = 0
AtTask(w) ==
    /\ w.at \in {"head", "chat", "grade", "append"} => w.left # <<>>
    /\ w.at = "append" => \E r \in Outcome :
          /\ w.result = <<r>> /\ r.task = Head(w.left) /\ Credited(r)
          /\ r.status = "cancelled" => w.cancelled

(* The job of a run that is running has the tasks without a result before  *)
(* it, and was not told to stop.                                           *)
Matching(w) ==
    /\ ~w.cancelled /\ Len(run.tasks) + Len(w.left) = Len(run.selected)
    /\ \A i \in 1..Len(run.tasks) : run.tasks[i].run = run.id /\ run.tasks[i].task = run.selected[i]
    /\ \A i \in 1..Len(w.left) : w.left[i] = run.selected[Len(run.tasks) + i]

UnderWay(w) == w.at \notin {"none", "over"}
BenchInv ==
    /\ job \in [Jobs -> Job] /\ run \in Run /\ started \in 0..MaxRuns /\ overlap \in BOOLEAN
    /\ run.state = "running" => run.cancel \in Jobs
    /\ \A j \in Jobs : AtTask(job[j])
    /\ ~overlap => \A j \in Jobs : UnderWay(job[j]) =>
          j = run.id /\ (run.state = "running" => Matching(job[j]))
    /\ CompleteRun

LEMMA ScoreFacts ==
    /\ Total \in Nat /\ Score["start"] \in 0..Total
    /\ \A content \in Contents : Passed(content) \in 0..Total
    /\ "start" \in Contents /\ "tampered" \in Contents
BY BenchAssumption DEF Contents, Passed

LEMMA JobMoves ==
    ASSUME BenchInv, NEW j \in Jobs, NEW new \in Job, AtTask(new), UnderWay(job[j]),
           new.left = job[j].left, new.cancelled = job[j].cancelled,
           job' = [job EXCEPT ![j] = new], UNCHANGED <<run, started, overlap>>
    PROVE  BenchInv'
<1>1. /\ job' \in [Jobs -> Job] /\ job'[j] = new /\ \A k \in Jobs \ {j} : job'[k] = job[k]
  BY DEF BenchInv
<1>2. ASSUME NEW k \in Jobs
      PROVE  AtTask(job'[k]) /\ (UnderWay(job'[k]) => UnderWay(job[k]))
             /\ (Matching(job[k]) => Matching(job[k])')
  <2>1. CASE k = j
    BY <1>1, <2>1 DEF Matching
  <2>2. CASE k # j
    BY <1>1, <2>2 DEF BenchInv, Matching
  <2> QED
    BY <2>1, <2>2
<1> QED
  BY <1>1, <1>2 DEF BenchInv, CompleteRun

(* What a job that delivers a result becomes.                              *)
LEMMA Delivering ==
    ASSUME BenchInv, NEW j \in Jobs, job[j].at \in {"head", "chat", "grade"},
           NEW status \in {"done", "error", "cancelled"}, NEW net \in Nat,
           Credited(Result(j, status, net)), status = "cancelled" => job[j].cancelled,
           Deliver(j, status, net), UNCHANGED <<run, started, overlap>>
    PROVE  BenchInv'
<1> DEFINE new == [job[j] EXCEPT !.at = "append", !.result = <<Result(j, status, net)>>, !.step = 0,
                                 !.forced = 0, !.testsPass = FALSE, !.content = "start"]
<1>1. job[j] \in Job /\ job[j].left # <<>>
  BY DEF BenchInv, AtTask
<1>2. Head(job[j].left) \in Tasks
  <2>1. job[j].left \in Seq(Tasks)
    BY <1>1 DEF Job
  <2> QED
    BY <1>1, <2>1, TailFacts
<1>3. Result(j, status, net) \in Outcome
  BY <1>1, <1>2 DEF Result, Outcome, Job
<1>4. /\ new \in Job /\ new.left = job[j].left /\ new.cancelled = job[j].cancelled /\ new.at = "append"
      /\ new.result = <<Result(j, status, net)>>
  BY <1>1, <1>3, ScoreFacts DEF Job
<1>5. job' = [job EXCEPT ![j] = new]
  BY DEF Deliver, SetJob
<1> HIDE DEF new
<1>6. Result(j, status, net).task = Head(job[j].left) /\ Result(j, status, net).status = status
  BY DEF Result
<1>7. AtTask(new)
  BY <1>1, <1>3, <1>4, <1>6 DEF AtTask
<1> QED
  BY <1>4, <1>5, <1>7, JobMoves DEF UnderWay

(* A job that goes on in its task.                                         *)
LEMMA GoingOn ==
    ASSUME BenchInv, NEW j \in Jobs, NEW at \in {"head", "chat", "grade"}, NEW new,
           job[j].at \in {"head", "chat", "grade"},
           new \in Job, new.at = at, new.left = job[j].left, new.cancelled = job[j].cancelled,
           SetJob(j, new), UNCHANGED <<run, started, overlap>>
    PROVE  BenchInv'
<1>1. job' = [job EXCEPT ![j] = new]
  BY DEF SetJob
<1>2. AtTask(new)
  BY DEF BenchInv, AtTask
<1> QED
  BY <1>1, <1>2, JobMoves DEF UnderWay

LEMMA TaskSteps ==
    ASSUME BenchInv, NEW j \in Jobs,
           \/ NextStep(j) \/ Grade(j) \/ ChatFails(j) \/ ReplyText(j) \/ ReplyRead(j) \/ ReplyTests(j)
           \/ \E content \in Contents : ReplyWrite(j, content)
    PROVE  BenchInv'
<1>0. job[j] \in Job
  BY DEF BenchInv
<1>1. CASE NextStep(j)
  <2>1. job[j].at = "head" /\ UNCHANGED <<run, started, overlap>>
    BY <1>1 DEF NextStep
  <2>2. CASE job[j].step >= MaxSteps
    <3> DEFINE new == [job[j] EXCEPT !.at = "grade"]
    <3>1. new \in Job /\ new.at = "grade" /\ new.left = job[j].left /\ new.cancelled = job[j].cancelled
      BY <1>0 DEF Job
    <3>2. SetJob(j, new)
      BY <1>1, <2>2 DEF NextStep
    <3> HIDE DEF new
    <3> QED
      BY <2>1, <3>1, <3>2, GoingOn
  <2>3. CASE ~(job[j].step >= MaxSteps) /\ job[j].cancelled
    <3>1. Deliver(j, "cancelled", 0)
      BY <1>1, <2>3 DEF NextStep
    <3>2. Credited(Result(j, "cancelled", 0))
      BY DEF Credited, Result
    <3> QED
      BY <2>1, <2>3, <3>1, <3>2, Delivering
  <2>4. CASE ~(job[j].step >= MaxSteps) /\ ~job[j].cancelled
    <3> DEFINE new == [job[j] EXCEPT !.at = "chat", !.step = @ + 1]
    <3>1. new \in Job /\ new.at = "chat" /\ new.left = job[j].left /\ new.cancelled = job[j].cancelled
      <4>1. job[j].step + 1 \in Nat
        BY <1>0 DEF Job
      <4> QED
        BY <1>0, <4>1 DEF Job
    <3>2. SetJob(j, new)
      BY <1>1, <2>4 DEF NextStep
    <3> HIDE DEF new
    <3> QED
      BY <2>1, <3>1, <3>2, GoingOn
  <2> QED
    BY <2>2, <2>3, <2>4
<1>2. CASE Grade(j)
  <2>1. job[j].at = "grade" /\ UNCHANGED <<run, started, overlap>> /\ job[j].content \in Contents
    BY <1>0, <1>2 DEF Grade, Job
  <2>2. CASE job[j].content = "tampered"
    <3>1. Deliver(j, "error", 0)
      BY <1>2, <2>2 DEF Grade
    <3>2. Credited(Result(j, "error", 0))
      BY DEF Credited, Result
    <3> QED
      BY <2>1, <3>1, <3>2, Delivering
  <2>3. CASE job[j].content # "tampered"
    <3>1. Deliver(j, "done", Net(j))
      BY <1>2, <2>3 DEF Grade
    <3>2. Passed(job[j].content) \in 0..Total /\ Score["start"] \in 0..Total /\ Total \in Nat
      BY <2>1, ScoreFacts
    <3>3. /\ Net(j) \in 0..Total /\ Net(j) >= Score["start"]
          /\ Passed(job[j].content) = Total => Net(j) = Total
      BY <3>2 DEF Net
    <3>4. Credited(Result(j, "done", Net(j))) /\ Net(j) \in Nat
      BY <2>3, <3>2, <3>3 DEF Credited, Result
    <3> QED
      BY <2>1, <3>1, <3>4, Delivering
  <2> QED
    BY <2>2, <2>3
<1>3. CASE ChatFails(j)
  <2>1. Credited(Result(j, "error", 0))
    BY DEF Credited, Result
  <2> QED
    BY <1>3, <2>1, Delivering DEF ChatFails
<1>4. CASE ReplyText(j)
  <2>1. job[j].at = "chat" /\ UNCHANGED <<run, started, overlap>>
    BY <1>4 DEF ReplyText
  <2>2. CASE SetJob(j, [Back(j) EXCEPT !.forced = @ + 1])
    <3> DEFINE new == [Back(j) EXCEPT !.forced = @ + 1]
    <3>1. new \in Job /\ new.at = "head" /\ new.left = job[j].left /\ new.cancelled = job[j].cancelled
      <4>1. job[j].forced + 1 \in Nat
        BY <1>0 DEF Job
      <4> QED
        BY <1>0, <4>1 DEF Job, Back
    <3>2. SetJob(j, new)
      BY <2>2
    <3> HIDE DEF new
    <3> QED
      BY <2>1, <3>1, <3>2, GoingOn
  <2>3. CASE SetJob(j, [job[j] EXCEPT !.at = "grade"])
    <3> DEFINE new == [job[j] EXCEPT !.at = "grade"]
    <3>1. new \in Job /\ new.at = "grade" /\ new.left = job[j].left /\ new.cancelled = job[j].cancelled
      BY <1>0 DEF Job
    <3>2. SetJob(j, new)
      BY <2>3
    <3> HIDE DEF new
    <3> QED
      BY <2>1, <3>1, <3>2, GoingOn
  <2> QED
    BY <1>4, <2>2, <2>3 DEF ReplyText
<1>5. CASE ReplyRead(j)
  <2> DEFINE new == [Back(j) EXCEPT !.forced = 0]
  <2>1. new \in Job /\ new.at = "head" /\ new.left = job[j].left /\ new.cancelled = job[j].cancelled
    BY <1>0 DEF Job, Back
  <2>2. SetJob(j, new) /\ job[j].at = "chat" /\ UNCHANGED <<run, started, overlap>>
    BY <1>5 DEF ReplyRead
  <2> HIDE DEF new
  <2> QED
    BY <2>1, <2>2, GoingOn
<1>6. ASSUME NEW content \in Contents, ReplyWrite(j, content)
      PROVE  BenchInv'
  <2> DEFINE new == [Back(j) EXCEPT !.forced = 0, !.content = content]
  <2>1. new \in Job /\ new.at = "head" /\ new.left = job[j].left /\ new.cancelled = job[j].cancelled
    BY <1>0 DEF Job, Back
  <2>2. SetJob(j, new) /\ job[j].at = "chat" /\ UNCHANGED <<run, started, overlap>>
    BY <1>6 DEF ReplyWrite
  <2> HIDE DEF new
  <2> QED
    BY <2>1, <2>2, GoingOn
<1>7. CASE ReplyTests(j)
  <2> DEFINE pass == Total > 0 /\ Passed(job[j].content) = Total
             new == [Back(j) EXCEPT !.forced = 0, !.testsPass = pass]
  <2>1. pass \in BOOLEAN
    OBVIOUS
  <2>2. SetJob(j, new) /\ job[j].at = "chat" /\ UNCHANGED <<run, started, overlap>>
    BY <1>7 DEF ReplyTests
  <2> HIDE DEF pass
  <2>3. new \in Job /\ new.at = "head" /\ new.left = job[j].left /\ new.cancelled = job[j].cancelled
    BY <1>0, <2>1 DEF Job, Back
  <2> HIDE DEF new
  <2> QED
    BY <2>2, <2>3, GoingOn
<1> QED
  BY <1>1, <1>2, <1>3, <1>4, <1>5, <1>6, <1>7

LEMMA BeginningTask ==
    ASSUME BenchInv, NEW j \in Jobs, BeginTask(j)
    PROVE  BenchInv'
<1> DEFINE new == [job[j] EXCEPT !.at = "head", !.step = 0, !.forced = 0, !.content = "start",
                                 !.testsPass = FALSE]
<1>1. job[j] \in Job /\ job[j].at = "begin" /\ job[j].left # <<>>
  BY DEF BenchInv, BeginTask
<1>2. new \in Job /\ new.left = job[j].left /\ new.cancelled = job[j].cancelled /\ new.at = "head"
  BY <1>1, ScoreFacts DEF Job
<1>3. job' = [job EXCEPT ![j] = new] /\ UNCHANGED <<started, overlap>>
  BY DEF BeginTask, SetJob
<1> HIDE DEF new
<1>4. /\ job' \in [Jobs -> Job] /\ job'[j] = new /\ \A k \in Jobs \ {j} : job'[k] = job[k]
      /\ \A k \in Jobs : AtTask(job'[k])
  BY <1>1, <1>2, <1>3 DEF BenchInv, AtTask
<1>5. Head(job[j].left) \in Tasks
  <2>1. job[j].left \in Seq(Tasks)
    BY <1>1 DEF Job
  <2> QED
    BY <1>1, <2>1, TailFacts
<1>6. /\ run' \in Run /\ run'.state = run.state /\ run'.id = run.id /\ run'.tasks = run.tasks
      /\ run'.cancel = run.cancel /\ run'.selected = run.selected
  <2>1. run \in Run /\ run' = IF run.state = "running" THEN [run EXCEPT !.current = Head(job[j].left)] ELSE run
    BY DEF BenchInv, BeginTask
  <2> QED
    BY <1>5, <2>1 DEF Run
<1>7. \A w : Matching(w) => Matching(w)'
  BY <1>6 DEF Matching
<1>8. Matching(job[j]) => Matching(new)
  BY <1>2 DEF Matching
<1>9. ASSUME NEW k \in Jobs
      PROVE  (UnderWay(job'[k]) => UnderWay(job[k])) /\ (Matching(job[k]) => Matching(job[k])')
  <2>1. CASE k = j
    BY <1>1, <1>4, <1>6, <1>8, <2>1 DEF UnderWay, Matching
  <2>2. CASE k # j
    BY <1>4, <1>6, <2>2 DEF Matching
  <2> QED
    BY <2>1, <2>2
<1> QED
  BY <1>3, <1>4, <1>6, <1>9 DEF BenchInv, CompleteRun

LEMMA Appending ==
    ASSUME BenchInv, NEW j \in Jobs, AppendResult(j)
    PROVE  BenchInv'
<1>1. job[j] \in Job /\ job[j].at = "append" /\ UNCHANGED <<started, overlap>>
  BY DEF BenchInv, AppendResult
<1>2. PICK r \in Outcome : /\ job[j].result = <<r>> /\ r.task = Head(job[j].left)
                           /\ r.status = "cancelled" => job[j].cancelled
  BY <1>1 DEF BenchInv, AtTask
<1>3. job[j].left \in Seq(Tasks) /\ job[j].left # <<>>
  BY <1>1 DEF BenchInv, AtTask, Job
<1> DEFINE left == IF r.status = "cancelled" THEN <<>> ELSE Tail(job[j].left)
           new == [job[j] EXCEPT !.at = "begin", !.result = <<>>, !.left = left]
           e == [run |-> j, task |-> Head(job[j].left)]
<1>4. left \in Seq(Tasks) /\ Head(job[j].left) \in Tasks
  BY <1>3, TailFacts
<1>5. /\ new \in Job /\ new.left = left /\ new.cancelled = job[j].cancelled /\ new.at = "begin"
  <2> HIDE DEF left
  <2> QED
    BY <1>1, <1>4 DEF Job
<1>6. job' = [job EXCEPT ![j] = new] /\ run' = IF run.state = "running" THEN [run EXCEPT !.tasks = Append(@, e)] ELSE run
  BY <1>2 DEF AppendResult, SetJob
<1>7. e \in [run : Jobs, task : Tasks] /\ e.run = j /\ e.task = Head(job[j].left)
  BY <1>4
<1> HIDE DEF new, e
<1>8. run \in Run /\ run.tasks \in Seq([run : Jobs, task : Tasks]) /\ run.selected \in Seq(Tasks)
  BY DEF BenchInv, Run
<1>9. /\ Append(run.tasks, e) \in Seq([run : Jobs, task : Tasks])
      /\ Len(Append(run.tasks, e)) = Len(run.tasks) + 1 /\ Len(run.tasks) \in Nat
      /\ \A i \in 1..Len(run.tasks) : Append(run.tasks, e)[i] = run.tasks[i]
      /\ Append(run.tasks, e)[Len(run.tasks) + 1] = e
  BY <1>7, <1>8, AppendFacts
<1>10. /\ run' \in Run /\ run'.state = run.state /\ run'.id = run.id
       /\ run'.cancel = run.cancel /\ run'.selected = run.selected
       /\ run.state = "running" => run'.tasks = Append(run.tasks, e)
       /\ run.state # "running" => run' = run
  BY <1>6, <1>8, <1>9 DEF Run
<1>11. /\ job' \in [Jobs -> Job] /\ job'[j] = new /\ \A k \in Jobs \ {j} : job'[k] = job[k]
       /\ \A k \in Jobs : AtTask(job'[k])
  BY <1>5, <1>6 DEF BenchInv, AtTask
<1>12. ASSUME run.state = "running", j = run.id, Matching(job[j])
       PROVE  Matching(job[j])'
  <2> DEFINE n == Len(run.tasks)
             m == Len(job[j].left)
  <2>1. left = Tail(job[j].left)
    BY <1>2, <1>12 DEF Matching
  <2>2. /\ Len(left) = m - 1 /\ Head(job[j].left) = job[j].left[1]
        /\ \A i \in 1..m - 1 : left[i] = job[j].left[i + 1]
    BY <1>3, <2>1, TailFacts
  <2>3. m \in Nat \ {0} /\ n \in Nat
    BY <1>3, <1>9, SeqFacts
  <2>4. /\ ~job[j].cancelled /\ n + m = Len(run.selected)
        /\ \A i \in 1..n : run.tasks[i].run = run.id /\ run.tasks[i].task = run.selected[i]
        /\ \A i \in 1..m : job[j].left[i] = run.selected[n + i]
    BY <1>12 DEF Matching
  <2>5. run'.tasks = Append(run.tasks, e) /\ Len(run'.tasks) = n + 1
    BY <1>9, <1>10, <1>12
  <2>6. job'[j].left = left /\ ~job'[j].cancelled /\ run'.selected = run.selected /\ run'.id = run.id
    BY <1>5, <1>10, <1>11, <2>4
  <2>7. ASSUME NEW i \in 1..n + 1
        PROVE  run'.tasks[i].run = run.id /\ run'.tasks[i].task = run.selected[i]
    <3>1. CASE i \in 1..n
      BY <1>9, <2>4, <2>5, <3>1
    <3>2. CASE i = n + 1
      <4>1. 1 \in 1..m
        BY <2>3
      <4>2. e.task = run.selected[n + 1] /\ e.run = run.id
        BY <1>7, <1>12, <2>2, <2>4, <4>1
      <4> QED
        BY <1>9, <2>5, <3>2, <4>2
    <3> QED
      <4>1. i \in 1..n \/ i = n + 1
        BY <2>3
      <4> QED
        BY <3>1, <3>2, <4>1
  <2> HIDE DEF left, n, m
  <2>8. n + 1 + Len(left) = Len(run.selected)
    <3>1. Len(left) = m - 1 /\ n + m = Len(run.selected)
      BY <2>2, <2>4
    <3> QED
      BY <2>3, <3>1
  <2>9. ASSUME NEW i \in 1..Len(left)
        PROVE  left[i] = run.selected[n + 1 + i]
    <3>1. i \in 1..m - 1
      BY <2>2
    <3>2. i + 1 \in 1..m /\ n + (i + 1) = n + 1 + i
      BY <2>3, <3>1
    <3>3. left[i] = job[j].left[i + 1]
      BY <2>2, <3>1
    <3> QED
      BY <2>4, <3>2, <3>3
  <2> QED
    BY <2>5, <2>6, <2>7, <2>8, <2>9 DEF Matching
<1>13. ASSUME ~overlap, NEW k \in Jobs, UnderWay(job'[k])
       PROVE  k = run'.id /\ (run'.state = "running" => Matching(job[k])')
  <2>1. UnderWay(job[k]) /\ UnderWay(job[j])
    BY <1>1, <1>5, <1>11, <1>13 DEF UnderWay
  <2>2. k = j /\ k = run.id /\ (run.state = "running" => Matching(job[j]))
    BY <1>13, <2>1 DEF BenchInv
  <2>3. run'.id = run.id /\ run'.state = run.state
    BY <1>10
  <2> QED
    BY <1>12, <2>2, <2>3
<1> QED
  BY <1>1, <1>10, <1>11, <1>13 DEF BenchInv, CompleteRun

(* A job that is over leaves no other one under way, unless two overlapped. *)
LEMMA Ending ==
    ASSUME BenchInv, NEW j \in Jobs, UnderWay(job[j]), SetJob(j, [NoJob EXCEPT !.at = "over"]),
           run' \in Run, run'.state # "running", UNCHANGED <<started, overlap>>, run'.id = run.id,
           CompleteRun'
    PROVE  BenchInv'
<1> DEFINE new == [NoJob EXCEPT !.at = "over"]
<1>1. new \in Job /\ new.at = "over"
  <2>1. NoJob \in Job
    BY ScoreFacts DEF Job, NoJob
  <2> QED
    BY <2>1 DEF Job
<1>2. job' = [job EXCEPT ![j] = new]
  BY DEF SetJob
<1> HIDE DEF new
<1>3. /\ job' \in [Jobs -> Job] /\ job'[j] = new /\ \A k \in Jobs \ {j} : job'[k] = job[k]
      /\ \A k \in Jobs : AtTask(job'[k])
  BY <1>1, <1>2 DEF BenchInv, AtTask
<1>4. \A k \in Jobs : UnderWay(job'[k]) => UnderWay(job[k])
  BY <1>1, <1>3 DEF UnderWay
<1> QED
  BY <1>3, <1>4 DEF BenchInv

LEMMA Finishing ==
    ASSUME BenchInv, NEW j \in Jobs, FinishRun(j)
    PROVE  BenchInv'
<1>1. /\ job[j].at = "begin" /\ job[j].left = <<>> /\ UNCHANGED <<started, overlap>>
      /\ SetJob(j, [NoJob EXCEPT !.at = "over"]) /\ UnderWay(job[j])
  BY DEF FinishRun, UnderWay
<1>2. /\ run' \in Run /\ run'.state = (IF run.state = "running" THEN "done" ELSE run.state)
      /\ run'.id = run.id /\ run'.tasks = run.tasks /\ run'.selected = run.selected
  <2>1. run \in Run /\ run' = [run EXCEPT !.state = IF @ = "running" THEN "done" ELSE @, !.current = 0, !.cancel = 0]
    BY DEF FinishRun, BenchInv
  <2> QED
    BY <2>1 DEF Run
<1>3. CompleteRun'
  <2>1. CASE run.state = "running" /\ ~overlap
    <3>1. Matching(job[j])
      BY <1>1, <2>1 DEF BenchInv
    <3>2. run.tasks \in Seq([run : Jobs, task : Tasks]) /\ Len(run.tasks) \in Nat /\ DOMAIN run.tasks = 1..Len(run.tasks)
      <4>1. run.tasks \in Seq([run : Jobs, task : Tasks])
        BY DEF BenchInv, Run
      <4> QED
        BY <4>1, SeqFacts
    <3>3. Len(run.tasks) + 0 = Len(run.selected)
      BY <1>1, <3>1 DEF Matching
    <3>4. Len(run.tasks) = Len(run.selected)
      BY <3>2, <3>3
    <3> QED
      BY <1>2, <3>1, <3>2, <3>4 DEF Matching, CompleteRun
  <2>2. CASE run.state # "running" \/ overlap
    BY <1>1, <1>2, <2>2 DEF BenchInv, CompleteRun
  <2> QED
    BY <2>1, <2>2 DEF BenchInv
<1> QED
  BY <1>1, <1>2, <1>3, Ending

LEMMA Panicking ==
    ASSUME BenchInv, NEW j \in Jobs, Panic(j)
    PROVE  BenchInv'
<1>1. /\ UNCHANGED <<started, overlap>> /\ SetJob(j, [NoJob EXCEPT !.at = "over"]) /\ UnderWay(job[j])
  BY DEF Panic, UnderWay, Alive
<1>2. run' \in Run /\ run'.state = "error" /\ run'.id = run.id
  <2>1. run \in Run /\ run' = [run EXCEPT !.state = "error", !.current = 0]
    BY DEF Panic, BenchInv
  <2> QED
    BY <2>1 DEF Run
<1> QED
  BY <1>1, <1>2, Ending DEF CompleteRun

LEMMA Stopping ==
    ASSUME BenchInv, Stop
    PROVE  BenchInv'
<1>1. /\ run.state = "running" /\ run.cancel \in Jobs /\ UNCHANGED <<started, overlap>>
      /\ job' = [job EXCEPT ![run.cancel].cancelled = TRUE]
  BY DEF Stop, BenchInv
<1>2. run' \in Run /\ run'.state = "cancelled" /\ run'.id = run.id
  <2>1. run \in Run /\ run' = [run EXCEPT !.state = "cancelled"]
    BY DEF Stop, BenchInv
  <2> QED
    BY <2>1 DEF Run
<1>3. PICK j \in Jobs : j = run.cancel
  BY <1>1
<1> DEFINE new == [job[j] EXCEPT !.cancelled = TRUE]
<1>4. /\ new \in Job /\ new.at = job[j].at /\ new.left = job[j].left /\ new.result = job[j].result
      /\ new.cancelled
  <2>1. job[j] \in Job
    BY DEF BenchInv
  <2> QED
    BY <2>1 DEF Job
<1>5. job' = [job EXCEPT ![j] = new]
  BY <1>1, <1>3
<1> HIDE DEF new
<1>6. /\ job' \in [Jobs -> Job] /\ job'[j] = new /\ \A k \in Jobs \ {j} : job'[k] = job[k]
  BY <1>4, <1>5 DEF BenchInv
<1>7. ASSUME NEW k \in Jobs
      PROVE  AtTask(job'[k]) /\ (UnderWay(job'[k]) => UnderWay(job[k]))
  <2>1. CASE k = j
    BY <1>4, <1>6, <2>1 DEF BenchInv, AtTask, UnderWay
  <2>2. CASE k # j
    BY <1>6, <2>2 DEF BenchInv
  <2> QED
    BY <2>1, <2>2
<1> QED
  BY <1>1, <1>2, <1>6, <1>7 DEF BenchInv, CompleteRun

LEMMA Starting ==
    ASSUME BenchInv, NEW sel \in Selections, Start(sel)
    PROVE  BenchInv'
<1>1. /\ started < MaxRuns /\ started' = started + 1
      /\ overlap' = (overlap \/ \E j \in Jobs : Alive(j))
      /\ started \in 0..MaxRuns /\ overlap \in BOOLEAN /\ MaxRuns \in Nat
  BY BenchAssumption DEF Start, BenchInv
<1>2. PICK n \in Jobs : n = started + 1
  BY <1>1 DEF Jobs
<1>3. sel \in Seq(Tasks)
  BY BenchAssumption DEF Tasks
<1> DEFINE new == [NoJob EXCEPT !.at = "begin", !.left = sel]
<1>4. new \in Job /\ new.at = "begin" /\ new.left = sel /\ ~new.cancelled
  BY <1>3, ScoreFacts DEF Job, NoJob
<1>5. job' = [job EXCEPT ![n] = new]
  BY <1>1, <1>2 DEF Start, SetJob
<1>6. /\ run' \in Run /\ run'.state = "running" /\ run'.id = n /\ run'.cancel = n
      /\ run'.tasks = <<>> /\ run'.selected = sel
  <2>1. run' = [Idle EXCEPT !.state = "running", !.id = n, !.cancel = n, !.selected = sel]
    BY <1>1, <1>2 DEF Start
  <2>2. n \in Nat /\ <<>> \in Seq([run : Jobs, task : Tasks])
    BY <1>1, <1>2
  <2> QED
    BY <1>2, <1>3, <2>1, <2>2 DEF Idle, Run
<1> HIDE DEF new
<1>7. /\ job' \in [Jobs -> Job] /\ job'[n] = new /\ \A k \in Jobs \ {n} : job'[k] = job[k]
      /\ \A k \in Jobs : AtTask(job'[k])
  BY <1>2, <1>4, <1>5 DEF BenchInv, AtTask
<1>8. Matching(job[n])'
  <2>1. Len(run'.tasks) = 0 /\ run'.selected = sel /\ job'[n].left = sel /\ ~job'[n].cancelled
        /\ Len(sel) \in Nat
    BY <1>3, <1>4, <1>6, <1>7
  <2>2. 0 + Len(sel) = Len(sel) /\ \A i \in 1..Len(sel) : 0 + i = i
    BY <2>1
  <2>3. 1..0 = {}
    OBVIOUS
  <2> QED
    BY <2>1, <2>2, <2>3 DEF Matching
<1>9. ASSUME ~overlap', NEW k \in Jobs, UnderWay(job'[k])
      PROVE  k = run'.id /\ Matching(job[k])'
  <2>1. k = n
    BY <1>1, <1>7, <1>9 DEF UnderWay, Alive
  <2> QED
    BY <1>6, <1>8, <2>1
<1>10. started' \in 0..MaxRuns /\ overlap' \in BOOLEAN
  BY <1>1
<1> QED
  BY <1>2, <1>6, <1>7, <1>9, <1>10 DEF BenchInv, CompleteRun

LEMMA BenchStart == BenchInit => BenchInv
<1> SUFFICES ASSUME BenchInit
             PROVE  BenchInv
  OBVIOUS
<1>1. run = Idle /\ job = [j \in Jobs |-> NoJob] /\ started = 0 /\ overlap = FALSE
  BY DEF BenchInit
<1>2. NoJob \in Job /\ NoJob.at = "none"
  BY ScoreFacts DEF NoJob, Job
<1>3. run \in Run /\ run.state = "idle"
  BY <1>1 DEF Idle, Run
<1>4. job \in [Jobs -> Job] /\ \A j \in Jobs : job[j].at = "none"
  BY <1>1, <1>2
<1>5. started \in 0..MaxRuns
  BY <1>1, BenchAssumption
<1> QED
  BY <1>1, <1>3, <1>4, <1>5 DEF BenchInv, AtTask, UnderWay, CompleteRun

LEMMA BenchStep == BenchInv /\ [Next]_vars => BenchInv'
<1> SUFFICES ASSUME BenchInv, [Next]_vars
             PROVE  BenchInv'
  OBVIOUS
<1>1. ASSUME NEW sel \in Selections, Start(sel)
      PROVE  BenchInv'
  BY <1>1, Starting
<1>2. CASE Stop
  BY <1>2, Stopping
<1>3. ASSUME NEW j \in Jobs, AtWork(j) \/ Panic(j)
      PROVE  BenchInv'
  BY <1>3, BeginningTask, Appending, Finishing, Panicking, TaskSteps DEF AtWork
<1>4. CASE UNCHANGED benchVars
  BY <1>4 DEF benchVars, BenchInv, Matching, CompleteRun
<1>5. CASE Restart
  <2>1. /\ run' = Idle /\ job' = [j \in Jobs |-> NoJob] /\ overlap' = FALSE /\ started' = started
    BY <1>5 DEF Restart
  <2>2. NoJob \in Job /\ NoJob.at = "none"
    BY ScoreFacts DEF NoJob, Job
  <2>3. Idle \in Run /\ Idle.state = "idle"
    BY DEF Idle, Run
  <2>4. run' \in Run /\ run'.state = "idle" /\ job' \in [Jobs -> Job] /\ \A j \in Jobs : job'[j].at = "none"
    BY <2>1, <2>2, <2>3
  <2>5. started' \in 0..MaxRuns
    BY <2>1 DEF BenchInv
  <2> QED
    BY <2>1, <2>4, <2>5 DEF BenchInv, AtTask, UnderWay, CompleteRun
<1> QED
  BY <1>1, <1>2, <1>3, <1>4, <1>5 DEF Next, Flushing, OtherRequest, vars

(* The score of a result is its workspace's: all of it for full work, at   *)
(* least that of the untouched one, and nothing for a result that is not   *)
(* one of work done, for any tasks, scores and selections (runBenchTask).  *)
THEOREM WorkGetsItsScore == Spec => []WorkIsCredited
<1>1. BenchInv => WorkIsCredited
  <2> SUFFICES ASSUME BenchInv, NEW j \in Jobs, job[j].at = "append"
               PROVE  LET result == job[j].result[1]
                      IN /\ result.status = "done" =>
                               /\ result.content # "tampered" /\ result.net >= Score["start"]
                               /\ Passed(result.content) = Total => result.net = Total
                         /\ result.status # "done" => result.net = 0
    BY DEF WorkIsCredited
  <2>1. PICK r \in Outcome : job[j].result = <<r>> /\ Credited(r)
    BY DEF BenchInv, AtTask
  <2>2. job[j].result[1] = r
    BY <2>1
  <2> QED
    BY <2>1, <2>2 DEF Credited
<1> QED
  BY <1>1, BenchStart, BenchStep, PTL DEF Spec, Init

(* A run that is done has a result for each of its tasks, in their order,  *)
(* unless it was started over a stopped one that was still at work         *)
(* (runBenchmark, benchmarkStore).                                         *)
THEOREM DoneRunsAreComplete == Spec => []CompleteRun
<1>1. BenchInv => CompleteRun
  BY DEF BenchInv
<1> QED
  BY <1>1, BenchStart, BenchStep, PTL DEF Spec, Init

-----------------------------------------------------------------------------
(* The usage log.  The elements of s outside T are in increasing order.    *)
Rising(s, T) == \A i, k \in 1..Len(s) : i < k /\ s[i] \notin T /\ s[k] \notin T => s[i] < s[k]
Below(A, B) == \A x \in A, y \in B : x < y

LEMMA ConcatFacts ==
    ASSUME NEW S, NEW s \in Seq(S), NEW t \in Seq(S)
    PROVE  /\ s \o t \in Seq(S) /\ Len(s \o t) = Len(s) + Len(t)
           /\ \A i \in 1..Len(s) : (s \o t)[i] = s[i]
           /\ \A i \in 1..Len(t) : (s \o t)[Len(s) + i] = t[i]
           /\ ToSet(s \o t) = ToSet(s) \cup ToSet(t)
<1>1. /\ s \o t \in Seq(S) /\ Len(s \o t) = Len(s) + Len(t)
      /\ \A i \in 1..Len(s) + Len(t) : (s \o t)[i] = IF i <= Len(s) THEN s[i] ELSE t[i - Len(s)]
      /\ Len(s) \in Nat /\ Len(t) \in Nat
  BY ConcatProperties
<1>2. ASSUME NEW i \in 1..Len(s)
      PROVE  (s \o t)[i] = s[i] /\ i \in 1..Len(s) + Len(t)
  <2>1. i \in 1..Len(s) + Len(t) /\ i <= Len(s)
    BY <1>1
  <2> QED
    BY <1>1, <2>1
<1>3. ASSUME NEW i \in 1..Len(t)
      PROVE  (s \o t)[Len(s) + i] = t[i] /\ Len(s) + i \in 1..Len(s) + Len(t)
  <2>1. Len(s) + i \in 1..Len(s) + Len(t) /\ ~(Len(s) + i <= Len(s)) /\ (Len(s) + i) - Len(s) = i
    BY <1>1
  <2> QED
    BY <1>1, <2>1
<1>4. ASSUME NEW i \in 1..Len(s) + Len(t)
      PROVE  (s \o t)[i] \in ToSet(s) \cup ToSet(t)
  <2>1. CASE i <= Len(s)
    <3>1. i \in 1..Len(s)
      BY <1>1, <2>1
    <3> QED
      BY <1>1, <2>1, <3>1, SeqFacts
  <2>2. CASE ~(i <= Len(s))
    <3>1. i - Len(s) \in 1..Len(t)
      BY <1>1, <2>2
    <3> QED
      BY <1>1, <2>2, <3>1, SeqFacts
  <2> QED
    BY <2>1, <2>2
<1>5. DOMAIN (s \o t) = 1..Len(s) + Len(t) /\ DOMAIN s = 1..Len(s) /\ DOMAIN t = 1..Len(t)
  BY <1>1
<1>6. ToSet(s \o t) \subseteq ToSet(s) \cup ToSet(t)
  BY <1>4, <1>5 DEF ToSet
<1>7. ASSUME NEW x \in ToSet(s)
      PROVE  x \in ToSet(s \o t)
  <2>1. PICK i \in 1..Len(s) : x = s[i]
    BY SeqFacts
  <2> QED
    BY <1>2, <1>5, <2>1 DEF ToSet
<1>8. ASSUME NEW x \in ToSet(t)
      PROVE  x \in ToSet(s \o t)
  <2>1. PICK i \in 1..Len(t) : x = t[i]
    BY SeqFacts
  <2> QED
    BY <1>3, <1>5, <2>1 DEF ToSet
<1> QED
  BY <1>1, <1>2, <1>3, <1>6, <1>7, <1>8

LEMMA RisingConcat ==
    ASSUME NEW s \in Seq(Nat), NEW t \in Seq(Nat), NEW T
    PROVE  Rising(s \o t, T) <=>
              Rising(s, T) /\ Rising(t, T) /\ Below(ToSet(s) \ T, ToSet(t) \ T)
<1> DEFINE u == s \o t
           m == Len(s)
<1>1. /\ Len(u) = m + Len(t) /\ m \in Nat /\ Len(t) \in Nat
      /\ \A i \in 1..m : u[i] = s[i] /\ s[i] \in ToSet(s)
      /\ \A i \in 1..Len(t) : u[m + i] = t[i] /\ t[i] \in ToSet(t)
  BY ConcatFacts, SeqFacts
<1>2. /\ \A x \in ToSet(s) : \E i \in 1..m : x = s[i]
      /\ \A x \in ToSet(t) : \E i \in 1..Len(t) : x = t[i]
  BY SeqFacts
<1> HIDE DEF u, m
<1>3. ASSUME Rising(u, T)
      PROVE  Rising(s, T) /\ Rising(t, T) /\ Below(ToSet(s) \ T, ToSet(t) \ T)
  <2>1. Rising(s, T)
    <3> SUFFICES ASSUME NEW i \in 1..m, NEW k \in 1..m, i < k, s[i] \notin T, s[k] \notin T
                 PROVE  s[i] < s[k]
      BY DEF Rising, m
    <3>1. i \in 1..Len(u) /\ k \in 1..Len(u)
      BY <1>1
    <3> QED
      BY <1>1, <1>3, <3>1 DEF Rising
  <2>2. Rising(t, T)
    <3> SUFFICES ASSUME NEW i \in 1..Len(t), NEW k \in 1..Len(t), i < k, t[i] \notin T, t[k] \notin T
                 PROVE  t[i] < t[k]
      BY DEF Rising
    <3>1. m + i \in 1..Len(u) /\ m + k \in 1..Len(u) /\ m + i < m + k
      BY <1>1
    <3>2. u[m + i] = t[i] /\ u[m + k] = t[k]
      BY <1>1
    <3> QED
      BY <1>3, <3>1, <3>2 DEF Rising
  <2>3. ASSUME NEW x \in ToSet(s) \ T, NEW y \in ToSet(t) \ T
        PROVE  x < y
    <3>1. PICK i \in 1..m : x = s[i]
      BY <1>2
    <3>2. PICK k \in 1..Len(t) : y = t[k]
      BY <1>2
    <3>3. i \in 1..Len(u) /\ m + k \in 1..Len(u) /\ i < m + k
      BY <1>1
    <3>4. u[i] = x /\ u[m + k] = y
      BY <1>1, <3>1, <3>2
    <3> QED
      BY <1>3, <3>3, <3>4 DEF Rising
  <2> QED
    BY <2>1, <2>2, <2>3 DEF Below
<1>4. ASSUME Rising(s, T), Rising(t, T), Below(ToSet(s) \ T, ToSet(t) \ T)
      PROVE  Rising(u, T)
  <2> SUFFICES ASSUME NEW i \in 1..Len(u), NEW k \in 1..Len(u), i < k, u[i] \notin T, u[k] \notin T
               PROVE  u[i] < u[k]
    BY DEF Rising
  <2>1. CASE k <= m
    <3>1. i \in 1..m /\ k \in 1..m
      BY <1>1, <2>1
    <3> QED
      BY <1>1, <1>4, <3>1 DEF Rising, m
  <2>2. CASE i <= m /\ ~(k <= m)
    <3>1. i \in 1..m /\ k - m \in 1..Len(t) /\ m + (k - m) = k
      BY <1>1, <2>2
    <3>2. u[i] = s[i] /\ u[i] \in ToSet(s)
      BY <1>1, <3>1
    <3>3. u[k] = t[k - m] /\ u[k] \in ToSet(t)
      BY <1>1, <3>1
    <3> QED
      BY <1>4, <3>2, <3>3 DEF Below
  <2>3. CASE ~(i <= m)
    <3>1. i - m \in 1..Len(t) /\ k - m \in 1..Len(t) /\ i - m < k - m /\ m + (i - m) = i /\ m + (k - m) = k
      <4>1. i \in 1..m + Len(t) /\ k \in 1..m + Len(t) /\ m \in Nat /\ Len(t) \in Nat
        BY <1>1
      <4> QED
        BY <2>3, <4>1
    <3>2. u[i] = t[i - m] /\ u[k] = t[k - m]
      BY <1>1, <3>1
    <3> QED
      BY <1>4, <3>1, <3>2 DEF Rising
  <2> QED
    BY <1>1, <2>1, <2>2, <2>3
<1> QED
  BY <1>3, <1>4 DEF u

LEMMA RisingFacts ==
    ASSUME NEW s \in Seq(Nat), NEW T
    PROVE  /\ \A U : Rising(s, T) /\ T \subseteq U => Rising(s, U)
           /\ ToSet(s) \subseteq T => Rising(s, T)
           /\ \A x \in Nat : Rising(<<x>>, T)
           /\ Rising(<<>>, T) /\ ToSet(<<>>) = {}
BY SeqFacts DEF Rising, ToSet

(* The first n records are in f, p and u, in this order, but for those in  *)
(* l, and those in t may be in several places.                             *)
Placed(f, writing, u, l, t, n) ==
    /\ f \in Seq(Nat) /\ writing \in Seq(Nat) /\ u \in Seq(Nat) /\ n \in Nat
    /\ l \subseteq 1..n /\ t \subseteq 1..n
    /\ Rising(f, t) /\ Rising(writing, t) /\ Rising(u, t)
    /\ Below(ToSet(f) \ t, ToSet(writing) \ t) /\ Below(ToSet(f) \ t, ToSet(u) \ t)
    /\ Below(ToSet(writing) \ t, ToSet(u) \ t)
    /\ ToSet(f) \cup ToSet(writing) \cup ToSet(u) \subseteq 1..n
    /\ (ToSet(f) \cup ToSet(writing) \cup ToSet(u)) \ t = (1..n) \ (l \cup t)

LEMMA Placing ==
    ASSUME NEW f, NEW b, NEW u, NEW l, NEW t, NEW n, Placed(f, b, u, l, t, n)
    PROVE  /\ b = <<>> => Placed(f, u, <<>>, l, t, n)
           /\ Placed(f, <<>>, u, l \cup ToSet(b), t, n)
           /\ Placed(f \o b, <<>>, u, l, t, n)
           /\ \A a \in Seq(Nat) : ToSet(a) \subseteq ToSet(b) =>
                 Placed(f \o a, <<>>, b \o u, l, t \cup ToSet(a), n)
           /\ Placed(f, b, Append(u, n + 1), l, t, n + 1)
<1>1. /\ f \in Seq(Nat) /\ b \in Seq(Nat) /\ u \in Seq(Nat) /\ n \in Nat /\ <<>> \in Seq(Nat)
      /\ l \subseteq 1..n /\ t \subseteq 1..n
      /\ Rising(f, t) /\ Rising(b, t) /\ Rising(u, t) /\ Rising(<<>>, t) /\ ToSet(<<>>) = {}
  BY RisingFacts DEF Placed
<1>2. /\ Below(ToSet(f) \ t, ToSet(b) \ t) /\ Below(ToSet(f) \ t, ToSet(u) \ t)
      /\ Below(ToSet(b) \ t, ToSet(u) \ t)
      /\ ToSet(f) \cup ToSet(b) \cup ToSet(u) \subseteq 1..n
      /\ (ToSet(f) \cup ToSet(b) \cup ToSet(u)) \ t = (1..n) \ (l \cup t)
  BY DEF Placed
<1>3. b = <<>> => Placed(f, u, <<>>, l, t, n)
  BY <1>1, <1>2 DEF Placed, Below
<1>4. Placed(f, <<>>, u, l \cup ToSet(b), t, n)
  <2>1. ASSUME NEW x \in ToSet(b) \ t
        PROVE  x \notin ToSet(f) /\ x \notin ToSet(u)
    <3>1. x \in 1..n /\ ~(x < x)
      BY <1>1, <1>2
    <3> QED
      BY <1>2, <2>1, <3>1 DEF Below
  <2>2. (ToSet(f) \cup ToSet(u)) \ t = (1..n) \ (l \cup ToSet(b) \cup t)
    BY <1>1, <1>2, <2>1
  <2>3. Below(ToSet(f) \ t, {}) /\ Below({}, ToSet(u) \ t) /\ {} \ t = {}
    BY DEF Below
  <2> QED
    BY <1>1, <1>2, <2>2, <2>3 DEF Placed
<1>5. Placed(f \o b, <<>>, u, l, t, n)
  <2>1. f \o b \in Seq(Nat) /\ ToSet(f \o b) = ToSet(f) \cup ToSet(b) /\ Rising(f \o b, t)
    <3>1. f \o b \in Seq(Nat) /\ ToSet(f \o b) = ToSet(f) \cup ToSet(b)
      BY <1>1, ConcatFacts
    <3>2. Rising(f \o b, t)
      BY <1>1, <1>2, RisingConcat
    <3> QED
      BY <3>1, <3>2
  <2>2. Below(ToSet(f \o b) \ t, {}) /\ Below({}, ToSet(u) \ t) /\ {} \ t = {}
    BY DEF Below
  <2>3. Below(ToSet(f \o b) \ t, ToSet(u) \ t)
    BY <1>2, <2>1 DEF Below
  <2>4. (ToSet(f \o b) \cup {} \cup ToSet(u)) = ToSet(f) \cup ToSet(b) \cup ToSet(u)
    BY <2>1
  <2> DEFINE w == f \o b
  <2> HIDE DEF w
  <2>5. w \in Seq(Nat) /\ Rising(w, t) /\ Below(ToSet(w) \ t, {}) /\ Below(ToSet(w) \ t, ToSet(u) \ t)
    BY <2>1, <2>2, <2>3 DEF w
  <2>6. (ToSet(w) \cup {} \cup ToSet(u)) \subseteq 1..n
        /\ (ToSet(w) \cup {} \cup ToSet(u)) \ t = (1..n) \ (l \cup t)
    BY <1>2, <2>4 DEF w
  <2>7. Placed(w, <<>>, u, l, t, n)
    BY <1>1, <2>2, <2>5, <2>6 DEF Placed
  <2> QED
    BY <2>7 DEF w
<1>6. ASSUME NEW a \in Seq(Nat), ToSet(a) \subseteq ToSet(b)
      PROVE  Placed(f \o a, <<>>, b \o u, l, t \cup ToSet(a), n)
  <2> DEFINE v == t \cup ToSet(a)
  <2>1. /\ f \o a \in Seq(Nat) /\ ToSet(f \o a) = ToSet(f) \cup ToSet(a)
        /\ b \o u \in Seq(Nat) /\ ToSet(b \o u) = ToSet(b) \cup ToSet(u)
    BY <1>1, <1>6, ConcatFacts
  <2>2. v \subseteq 1..n /\ t \subseteq v /\ ToSet(a) \subseteq v
    BY <1>1, <1>2, <1>6
  <2> HIDE DEF v
  <2>3. Rising(f, v) /\ Rising(a, v) /\ Rising(b, v) /\ Rising(u, v) /\ Rising(<<>>, v)
    BY <1>1, <1>6, <2>2, RisingFacts
  <2>4. /\ Below(ToSet(f) \ v, ToSet(a) \ v) /\ Below(ToSet(b) \ v, ToSet(u) \ v)
        /\ Below(ToSet(f) \ v, ToSet(b) \ v) /\ Below(ToSet(f) \ v, ToSet(u) \ v)
    BY <1>2, <2>2 DEF Below
  <2>5. Rising(f \o a, v) /\ Rising(b \o u, v)
    BY <1>1, <1>6, <2>3, <2>4, RisingConcat
  <2>6. /\ Below(ToSet(f \o a) \ v, ToSet(b \o u) \ v) /\ {} \ v = {}
        /\ Below(ToSet(f \o a) \ v, {}) /\ Below({}, ToSet(b \o u) \ v)
    BY <2>1, <2>2, <2>4 DEF Below
  <2>7. ToSet(f \o a) \cup {} \cup ToSet(b \o u) = ToSet(f) \cup ToSet(b) \cup ToSet(u)
    BY <1>6, <2>1
  <2>8. (ToSet(f \o a) \cup {} \cup ToSet(b \o u)) \ v = (1..n) \ (l \cup v)
    BY <1>2, <2>2, <2>7
  <2>9. Placed(f \o a, <<>>, b \o u, l, v, n)
    BY <1>1, <1>2, <2>1, <2>2, <2>3, <2>5, <2>6, <2>7, <2>8 DEF Placed
  <2> QED
    BY <2>9 DEF v
<1>7. ASSUME NEW x \in Nat, x = n + 1
      PROVE  Placed(f, b, Append(u, x), l, t, x)
  <2>1. 1..x = (1..n) \cup {x} /\ x \notin 1..n /\ \A y \in 1..n : y < x
    BY <1>1, <1>7
  <2>2. Append(u, x) \in Seq(Nat) /\ ToSet(Append(u, x)) = ToSet(u) \cup {x}
    <3>1. Append(u, x) = u \o <<x>> /\ <<x>> \in Seq(Nat) /\ ToSet(<<x>>) = {x}
      BY <1>1 DEF ToSet
    <3>2. u \o <<x>> \in Seq(Nat) /\ ToSet(u \o <<x>>) = ToSet(u) \cup ToSet(<<x>>)
      <4> DEFINE e == <<x>>
      <4>1. u \in Seq(Nat) /\ e \in Seq(Nat)
        BY <1>1, <3>1
      <4> HIDE DEF e
      <4>2. u \o e \in Seq(Nat) /\ ToSet(u \o e) = ToSet(u) \cup ToSet(e)
        BY <4>1, ConcatFacts
      <4> QED
        BY <4>2 DEF e
    <3> QED
      BY <3>1, <3>2
  <2>3. Rising(Append(u, x), t)
    <3>1. Append(u, x) = u \o <<x>> /\ <<x>> \in Seq(Nat) /\ ToSet(<<x>>) = {x}
      BY <1>1 DEF ToSet
    <3>2. Rising(<<x>>, t)
      BY <1>1, RisingFacts
    <3>3. Below(ToSet(u) \ t, ToSet(<<x>>) \ t)
      BY <1>2, <2>1, <3>1 DEF Below
    <3>4. Rising(u \o <<x>>, t)
      BY <1>1, <3>1, <3>2, <3>3, RisingConcat
    <3> QED
      BY <3>1, <3>4
  <2> DEFINE w == Append(u, x)
  <2> HIDE DEF w
  <2>4. Below(ToSet(f) \ t, ToSet(w) \ t) /\ Below(ToSet(b) \ t, ToSet(w) \ t)
    BY <1>2, <2>1, <2>2 DEF Below, w
  <2>5. /\ ToSet(f) \cup ToSet(b) \cup ToSet(w) \subseteq 1..x
        /\ (ToSet(f) \cup ToSet(b) \cup ToSet(w)) \ t = (1..x) \ (l \cup t)
    BY <1>1, <1>2, <2>1, <2>2 DEF w
  <2>6. l \subseteq 1..x /\ t \subseteq 1..x
    BY <1>1, <2>1
  <2> QED
    BY <1>1, <1>2, <2>1, <2>2, <2>3, <2>4, <2>5, <2>6 DEF Placed, w
<1>8. n + 1 \in Nat
  BY <1>1
<1> QED
  BY <1>3, <1>4, <1>5, <1>6, <1>7, <1>8

(* Of what is being written only a is left, in the order it was.           *)
LEMMA Dropping ==
    ASSUME NEW f, NEW b, NEW u, NEW l, NEW t, NEW n, Placed(f, b, u, l, t, n),
           NEW a \in Seq(Nat), ToSet(a) \subseteq ToSet(b), Rising(a, t)
    PROVE  Placed(f, a, u, l \cup (ToSet(b) \ ToSet(a)), t, n)
<1> DEFINE d == ToSet(b) \ ToSet(a)
<1>1. /\ f \in Seq(Nat) /\ b \in Seq(Nat) /\ u \in Seq(Nat) /\ n \in Nat
      /\ l \subseteq 1..n /\ t \subseteq 1..n /\ Rising(f, t) /\ Rising(u, t)
  BY DEF Placed
<1>2. /\ Below(ToSet(f) \ t, ToSet(b) \ t) /\ Below(ToSet(f) \ t, ToSet(u) \ t)
      /\ Below(ToSet(b) \ t, ToSet(u) \ t)
      /\ ToSet(f) \cup ToSet(b) \cup ToSet(u) \subseteq 1..n
      /\ (ToSet(f) \cup ToSet(b) \cup ToSet(u)) \ t = (1..n) \ (l \cup t)
  BY DEF Placed
<1>3. /\ Below(ToSet(f) \ t, ToSet(a) \ t) /\ Below(ToSet(a) \ t, ToSet(u) \ t)
  BY <1>2 DEF Below
<1>4. ASSUME NEW x \in d \ t
      PROVE  x \notin ToSet(f) /\ x \notin ToSet(u)
  <2>1. x \in 1..n /\ ~(x < x)
    BY <1>1, <1>2
  <2> QED
    BY <1>2, <1>4, <2>1 DEF Below
<1>5. d \subseteq 1..n /\ ToSet(b) = ToSet(a) \cup d /\ d \cap ToSet(a) = {}
  BY <1>2
<1> HIDE DEF d
<1>6. (ToSet(f) \cup ToSet(a) \cup ToSet(u)) \ t = (1..n) \ (l \cup d \cup t)
  BY <1>2, <1>4, <1>5
<1>7. l \cup d \subseteq 1..n /\ ToSet(f) \cup ToSet(a) \cup ToSet(u) \subseteq 1..n
  BY <1>1, <1>2, <1>5
<1>8. Placed(f, a, u, l \cup d, t, n)
  BY <1>1, <1>2, <1>3, <1>6, <1>7 DEF Placed
<1> QED
  BY <1>8 DEF d

(* Part of a sequence, without its first element or with it.               *)
LEMMA PartFacts ==
    ASSUME NEW s \in Seq(Nat), NEW T, Rising(s, T), NEW k \in {1, 2}, NEW n \in 0..Len(s)
    PROVE  /\ SubSeq(s, k, n) \in Seq(Nat) /\ ToSet(SubSeq(s, k, n)) \subseteq ToSet(s)
           /\ Rising(SubSeq(s, k, n), T)
<1> DEFINE a == SubSeq(s, k, n)
<1>1. k \in Int /\ n \in Int /\ Len(s) \in Nat /\ \A i \in k..n : s[i] \in Nat /\ i \in 1..Len(s)
  OBVIOUS
<1>2. /\ a \in Seq(Nat) /\ Len(a) = IF k <= n THEN n - k + 1 ELSE 0
      /\ \A i \in 1..n - k + 1 : a[i] = s[k + i - 1]
  BY <1>1, SubSeqProperties
<1> HIDE DEF a
<1>3. \A i \in 1..Len(a) : a[i] = s[k + i - 1] /\ k + i - 1 \in 1..Len(s)
  BY <1>1, <1>2
<1>4. ToSet(a) \subseteq ToSet(s)
  <2>1. \A x \in ToSet(a) : \E i \in 1..Len(a) : x = a[i]
    BY <1>2, SeqFacts
  <2>2. \A i \in 1..Len(s) : s[i] \in ToSet(s)
    BY SeqFacts
  <2>3. ASSUME NEW x \in ToSet(a)
        PROVE  x \in ToSet(s)
    <3>1. PICK i \in 1..Len(a) : x = a[i]
      BY <2>1
    <3>2. x = s[k + i - 1] /\ k + i - 1 \in 1..Len(s)
      BY <1>3, <3>1
    <3> QED
      BY <2>2, <3>2
  <2> QED
    BY <2>3
<1>5. Rising(a, T)
  <2> SUFFICES ASSUME NEW i \in 1..Len(a), NEW m \in 1..Len(a), i < m, a[i] \notin T, a[m] \notin T
               PROVE  a[i] < a[m]
    BY DEF Rising
  <2>1. Len(a) \in Nat /\ k + i - 1 < k + m - 1
    BY <1>2
  <2> QED
    BY <1>3, <2>1 DEF Rising
<1> QED
  BY <1>2, <1>4, <1>5 DEF a

-----------------------------------------------------------------------------
UnderWrite == IF flusher \in {"open", "write"} THEN batch ELSE <<>>
LogInv == Placed(file, UnderWrite, unsaved, lost, repeated, recorded)

LEMMA LogStart == InitUsage => LogInv
<1> SUFFICES ASSUME InitUsage
             PROVE  LogInv
  OBVIOUS
<1>1. /\ file = <<>> /\ UnderWrite = <<>> /\ unsaved = <<>> /\ lost = {} /\ repeated = {} /\ recorded = 0
  BY DEF InitUsage, UnderWrite
<1>2. <<>> \in Seq(Nat) /\ ToSet(<<>>) = {} /\ Rising(<<>>, {}) /\ 1..0 = {} /\ 0 \in Nat
  <2>1. <<>> \in Seq(Nat) /\ 1..0 = {} /\ 0 \in Nat
    OBVIOUS
  <2> QED
    BY <2>1, RisingFacts
<1> QED
  BY <1>1, <1>2 DEF LogInv, Placed, Below

(* What a write leaves of the batch, and where that leaves the records.    *)
LEMMA Leaving ==
    ASSUME LogInv, flusher = "write", NEW n \in 0..Len(batch)
    PROVE  /\ Readable(n) \in Seq(Nat) /\ ToSet(Readable(n)) \subseteq ToSet(batch)
           /\ Placed(file, Readable(n), unsaved, lost \cup LostOf(n), repeated, recorded)
<1>1. Placed(file, batch, unsaved, lost, repeated, recorded)
  BY DEF LogInv, UnderWrite
<1>2. batch \in Seq(Nat) /\ Rising(batch, repeated)
  BY <1>1 DEF Placed
<1>3. /\ Readable(n) \in Seq(Nat) /\ ToSet(Readable(n)) \subseteq ToSet(batch)
      /\ Rising(Readable(n), repeated)
  <2> DEFINE k == IF cut THEN 2 ELSE 1
  <2>1. k \in {1, 2} /\ Readable(n) = SubSeq(batch, k, n)
    BY DEF Readable
  <2> HIDE DEF k
  <2> QED
    BY <1>2, <2>1, PartFacts
<1> QED
  BY <1>1, <1>3, Dropping DEF LostOf

LEMMA LogStep ==
    ASSUME LogInv, Record \/ FlushUsage \/ RestartLog
    PROVE  LogInv'
<1>0. /\ Placed(file, UnderWrite, unsaved, lost, repeated, recorded)
      /\ UnderWrite \in Seq(Nat) /\ unsaved \in Seq(Nat)
  BY DEF LogInv, Placed
<1>1. CASE Record
  <2>1. CASE recorded < MaxRecords
    <3>1. /\ recorded' = recorded + 1 /\ unsaved' = Append(unsaved, recorded + 1) /\ UnderWrite' = UnderWrite
          /\ UNCHANGED <<file, lost, repeated>>
      BY <1>1, <2>1 DEF Record, UnderWrite
    <3> QED
      BY <1>0, <3>1, Placing DEF LogInv
  <2>2. CASE ~(recorded < MaxRecords)
    BY <1>1, <2>2 DEF Record, usageVars, LogInv, UnderWrite
  <2> QED
    BY <2>1, <2>2
<1>2. CASE TakeBatch
  <2>1. UnderWrite = <<>> /\ UnderWrite' = unsaved /\ unsaved' = <<>> /\ UNCHANGED <<recorded, file, lost, repeated>>
    BY <1>2 DEF TakeBatch, UnderWrite
  <2> QED
    BY <1>0, <2>1, Placing DEF LogInv
<1>3. CASE OpenLog
  <2>1. UnderWrite = batch /\ UNCHANGED <<recorded, unsaved, file, repeated>>
    BY <1>3 DEF OpenLog, FlushOver, UnderWrite
  <2>2. CASE flusher' = "write" /\ UNCHANGED <<batch, lost>>
    BY <1>0, <2>1, <2>2 DEF LogInv, UnderWrite
  <2>3. CASE FlushOver(TRUE) /\ lost' = lost \cup ToSet(batch)
    <3>1. UnderWrite' = <<>>
      BY <2>3 DEF FlushOver, UnderWrite
    <3> QED
      BY <1>0, <2>1, <2>3, <3>1, Placing DEF LogInv
  <2> QED
    BY <1>3, <2>2, <2>3 DEF OpenLog
<1>4. CASE WriteLog
  <2>1. UnderWrite = batch /\ UNCHANGED recorded /\ Len(batch) \in Nat
    BY <1>0, <1>4 DEF WriteLog, FlushOver, UnderWrite
  <2>2. CASE /\ Written(Len(batch)) /\ lost' = lost \cup LostOf(Len(batch))
             /\ flusher' = "sync" /\ UNCHANGED <<unsaved, repeated>>
    <3>1. UnderWrite' = <<>> /\ file' = file \o Readable(Len(batch))
      BY <2>2 DEF UnderWrite, Written
    <3>2. Len(batch) \in 0..Len(batch)
      BY <2>1
    <3>3. Placed(file, Readable(Len(batch)), unsaved, lost', repeated, recorded)
      BY <1>4, <2>2, <3>2, Leaving DEF WriteLog
    <3>4. Placed(file \o Readable(Len(batch)), <<>>, unsaved, lost', repeated, recorded)
      BY <3>3, Placing
    <3> QED
      BY <2>1, <2>2, <3>1, <3>4 DEF LogInv
  <2>3. ASSUME FlushOver(TRUE), NEW n \in 0..Len(batch) - 1, unsaved' = batch \o unsaved,
               Written(n), repeated' = repeated \cup ToSet(Readable(n)), UNCHANGED lost
        PROVE  LogInv'
    <3>1. UnderWrite' = <<>> /\ file' = file \o Readable(n)
      BY <2>3 DEF FlushOver, UnderWrite, Written
    <3>2. Readable(n) \in Seq(Nat) /\ ToSet(Readable(n)) \subseteq ToSet(batch)
      <4>1. n \in 0..Len(batch)
        BY <2>1
      <4> QED
        BY <1>4, <4>1, Leaving DEF WriteLog
    <3> QED
      BY <1>0, <2>1, <2>3, <3>1, <3>2, Placing DEF LogInv
  <2> QED
    BY <1>4, <2>2, <2>3 DEF WriteLog
<1>5. CASE SyncLog
  <2>1. UnderWrite = <<>> /\ UnderWrite' = <<>> /\ UNCHANGED <<recorded, unsaved, file, lost, repeated>>
    BY <1>5 DEF SyncLog, FlushOver, UnderWrite
  <2> QED
    BY <1>0, <2>1 DEF LogInv
<1>6. CASE RestartLog
  <2>1. UnderWrite' = <<>> /\ unsaved' = <<>> /\ UNCHANGED <<recorded, repeated>>
    BY <1>6 DEF RestartLog, Forgotten, UnderWrite
  <2>2. SUFFICES ASSUME NEW w, NEW l, Placed(w, <<>>, unsaved, l, repeated, recorded),
                        file' = w, lost' = l \cup ToSet(unsaved)
                 PROVE  LogInv'
    <3>1. CASE flusher = "write"
      <4>1. PICK n \in 0..Len(batch) : Written(n) /\ lost' = lost \cup LostOf(n) \cup ToSet(unsaved)
        BY <1>6, <3>1 DEF RestartLog
      <4>2. Placed(file, Readable(n), unsaved, lost \cup LostOf(n), repeated, recorded)
        BY <3>1, Leaving
      <4>3. Placed(file \o Readable(n), <<>>, unsaved, lost \cup LostOf(n), repeated, recorded)
        BY <4>2, Placing
      <4> QED
        BY <2>2, <4>1, <4>3 DEF Written
    <3>2. CASE flusher # "write"
      <4>1. file' = file /\ lost' = lost \cup ToSet(UnderWrite) \cup ToSet(unsaved)
        <5>1. ToSet(<<>>) = {}
          BY RisingFacts, <1>0
        <5> QED
          BY <1>6, <3>2, <5>1 DEF RestartLog, UnderWrite
      <4>2. Placed(file, <<>>, unsaved, lost \cup ToSet(UnderWrite), repeated, recorded)
        BY <1>0, Placing
      <4> QED
        BY <2>2, <4>1, <4>2
    <3> QED
      BY <3>1, <3>2
  <2>3. Placed(w, unsaved, <<>>, l, repeated, recorded)
    BY <2>2, Placing
  <2>4. Placed(w, <<>>, <<>>, l \cup ToSet(unsaved), repeated, recorded)
    BY <2>3, Placing
  <2> QED
    BY <2>1, <2>2, <2>4 DEF LogInv
<1> QED
  BY <1>1, <1>2, <1>3, <1>4, <1>5, <1>6 DEF FlushUsage

(* No record is lost or written twice, and all stay in order, but for what *)
(* LogIsWhole names: for any number of records, flushes, failures and ends *)
(* of the process (usageLog.record, flush and load).                       *)
THEOREM UsageIsWhole == Spec => []LogIsWhole
<1>1. LogInv => LogIsWhole
  <2> SUFFICES ASSUME LogInv
               PROVE  LogIsWhole
    OBVIOUS
  <2> DEFINE part == file \o UnderWrite
             all == part \o unsaved
             sound == {i \in DOMAIN all : all[i] \notin repeated}
  <2>1. /\ file \in Seq(Nat) /\ UnderWrite \in Seq(Nat) /\ unsaved \in Seq(Nat)
        /\ Rising(file, repeated) /\ Rising(UnderWrite, repeated) /\ Rising(unsaved, repeated)
        /\ Below(ToSet(file) \ repeated, ToSet(UnderWrite) \ repeated)
        /\ Below(ToSet(file) \ repeated, ToSet(unsaved) \ repeated)
        /\ Below(ToSet(UnderWrite) \ repeated, ToSet(unsaved) \ repeated)
        /\ (ToSet(file) \cup ToSet(UnderWrite) \cup ToSet(unsaved)) \ repeated = (1..recorded) \ (lost \cup repeated)
    BY DEF LogInv, Placed
  <2>2. part \in Seq(Nat) /\ ToSet(part) = ToSet(file) \cup ToSet(UnderWrite) /\ Rising(part, repeated)
    <3>1. part \in Seq(Nat) /\ ToSet(part) = ToSet(file) \cup ToSet(UnderWrite)
      BY <2>1, ConcatFacts
    <3>2. Rising(part, repeated)
      BY <2>1, RisingConcat
    <3> QED
      BY <3>1, <3>2
  <2> HIDE DEF part
  <2>3. Below(ToSet(part) \ repeated, ToSet(unsaved) \ repeated)
    BY <2>1, <2>2 DEF Below
  <2>4. all \in Seq(Nat) /\ ToSet(all) = ToSet(part) \cup ToSet(unsaved) /\ Rising(all, repeated)
    <3>1. all \in Seq(Nat) /\ ToSet(all) = ToSet(part) \cup ToSet(unsaved)
      BY <2>1, <2>2, ConcatFacts
    <3>2. Rising(all, repeated)
      BY <2>1, <2>2, <2>3, RisingConcat
    <3> QED
      BY <3>1, <3>2
  <2>5. ToSet(all) \ repeated = (1..recorded) \ (lost \cup repeated)
    BY <2>1, <2>2, <2>4
  <2>6. all = file \o (IF flusher \in {"open", "write"} THEN batch ELSE <<>>) \o unsaved
    BY DEF part, UnderWrite
  <2> HIDE DEF all
  <2>7. DOMAIN all = 1..Len(all)
    BY <2>4
  <2>8. \A i, k \in sound : i < k => all[i] < all[k]
    BY <2>4, <2>7 DEF Rising
  <2>9. {all[i] : i \in sound} = ToSet(all) \ repeated
    BY DEF ToSet
  <2> QED
    BY <2>5, <2>6, <2>8, <2>9 DEF LogIsWhole
<1>2. LogInv /\ [Next]_vars => LogInv'
  <2>1. [Next]_vars => Record \/ FlushUsage \/ RestartLog \/ UNCHANGED usageVars
    BY DEF Next, Start, Stop, AtWork, BeginTask, NextStep, Grade, AppendResult, FinishRun, ChatFails, ReplyText,
           ReplyRead, ReplyTests, ReplyWrite, RecordChat, Panic, Flushing, OtherRequest, Restart, vars
  <2>2. LogInv /\ UNCHANGED usageVars => LogInv'
    BY DEF usageVars, LogInv, UnderWrite
  <2> QED
    BY <2>1, <2>2, LogStep
<1> QED
  BY <1>1, <1>2, LogStart, PTL DEF Spec, Init

-----------------------------------------------------------------------------
(* The API keys.  Lists of keys with an id each, and what they say of one. *)
Key == [id : Nat, revoked : BOOLEAN]
Distinct(s) == \A i, k \in 1..Len(s) : s[i].id = s[k].id => i = k
Of(s, id) == {r \in ToSet(s) : r.id = id}
Says(word, list, id) ==
    \/ word \in {IF r.revoked THEN "revoked" ELSE "valid" : r \in Of(list, id)}
    \/ word = "gone" /\ Of(list, id) = {}

LEMMA AppendingKey ==
    ASSUME NEW s \in Seq(Key), Distinct(s), NEW e \in Key, \A r \in ToSet(s) : r.id # e.id
    PROVE  /\ Append(s, e) \in Seq(Key) /\ Distinct(Append(s, e)) /\ ToSet(Append(s, e)) = ToSet(s) \cup {e}
           /\ Len(Append(s, e)) = Len(s) + 1 /\ Append(s, e)[Len(s) + 1] = e
           /\ Of(Append(s, e), e.id) = {e} /\ \A id \in Nat \ {e.id} : Of(Append(s, e), id) = Of(s, id)
<1> DEFINE u == Append(s, e)
           m == Len(s)
<1>1. /\ u \in Seq(Key) /\ Len(u) = m + 1 /\ \A i \in 1..m : u[i] = s[i] /\ s[i] \in ToSet(s)
      /\ u[m + 1] = e /\ ToSet(u) = ToSet(s) \cup {e} /\ m \in Nat
  BY AppendFacts, SeqFacts
<1>2. Distinct(u)
  <2> SUFFICES ASSUME NEW i \in 1..Len(u), NEW k \in 1..Len(u), u[i].id = u[k].id
               PROVE  i = k
    BY DEF Distinct
  <2> HIDE DEF u
  <2>1. (i \in 1..m \/ i = m + 1) /\ (k \in 1..m \/ k = m + 1)
    BY <1>1
  <2>2. CASE i \in 1..m /\ k \in 1..m
    BY <1>1, <2>2 DEF Distinct
  <2> QED
    BY <1>1, <2>1, <2>2
<1> QED
  BY <1>1, <1>2 DEF Of

LEMMA RemovingKey ==
    ASSUME NEW s \in Seq(Key), Distinct(s), NEW i \in 1..Len(s)
    PROVE  /\ RemoveAt(s, i) \in Seq(Key) /\ Distinct(RemoveAt(s, i))
           /\ Len(RemoveAt(s, i)) = Len(s) - 1 /\ ToSet(RemoveAt(s, i)) \subseteq ToSet(s)
           /\ Of(RemoveAt(s, i), s[i].id) = {}
           /\ \A id \in Nat \ {s[i].id} : Of(RemoveAt(s, i), id) = Of(s, id)
<1> DEFINE u == RemoveAt(s, i)
           m == Len(s)
<1>1. /\ u \in Seq(Key) /\ Len(u) = m - 1 /\ ToSet(u) \subseteq ToSet(s)
      /\ \A j \in 1..m - 1 : u[j] = IF j < i THEN s[j] ELSE s[j + 1]
  BY RemoveAtFacts
<1>2. m \in Nat /\ i \in 1..m /\ (\A x \in ToSet(s) : \E j \in 1..m : x = s[j])
  BY SeqFacts
<1>3. (\A x \in ToSet(u) : \E j \in 1..m - 1 : x = u[j]) /\ (\A j \in 1..m - 1 : u[j] \in ToSet(u))
  BY <1>1, SeqFacts
<1> HIDE DEF u, m
<1>4. ASSUME NEW j \in 1..m - 1
      PROVE  \E k \in 1..m : k # i /\ u[j] = s[k] /\ k = (IF j < i THEN j ELSE j + 1)
  <2>1. CASE j < i
    BY <1>1, <1>2, <2>1
  <2>2. CASE ~(j < i)
    <3>1. j + 1 \in 1..m /\ j + 1 # i
      BY <1>2, <2>2
    <3> QED
      BY <1>1, <2>2, <3>1
  <2> QED
    BY <2>1, <2>2
<1>5. Distinct(u)
  <2> SUFFICES ASSUME NEW j \in 1..m - 1, NEW k \in 1..m - 1, u[j].id = u[k].id
               PROVE  j = k
    BY <1>1 DEF Distinct
  <2>1. PICK a \in 1..m : u[j] = s[a] /\ a = (IF j < i THEN j ELSE j + 1)
    BY <1>4
  <2>2. PICK b \in 1..m : u[k] = s[b] /\ b = (IF k < i THEN k ELSE k + 1)
    BY <1>4
  <2>3. a = b
    BY <2>1, <2>2 DEF Distinct, m
  <2> QED
    BY <1>2, <2>1, <2>2, <2>3
<1>6. ASSUME NEW r \in ToSet(u)
      PROVE  r.id # s[i].id
  <2>1. PICK j \in 1..m - 1 : r = u[j]
    BY <1>3
  <2> QED
    BY <1>2, <1>4, <2>1 DEF Distinct, m
<1>7. ASSUME NEW r \in ToSet(s), r.id # s[i].id
      PROVE  r \in ToSet(u)
  <2>1. PICK k \in 1..m : r = s[k]
    BY <1>2
  <2>2. k # i
    BY <1>7, <2>1
  <2>3. CASE k < i
    <3>1. k \in 1..m - 1
      BY <1>2, <2>3
    <3>2. u[k] = r
      BY <1>1, <2>1, <2>3, <3>1
    <3> QED
      BY <1>3, <3>1, <3>2
  <2>4. CASE ~(k < i)
    <3>1. k - 1 \in 1..m - 1 /\ ~(k - 1 < i) /\ (k - 1) + 1 = k
      BY <1>2, <2>2, <2>4
    <3>2. u[k - 1] = r
      BY <1>1, <2>1, <3>1
    <3> QED
      BY <1>3, <3>1, <3>2
  <2> QED
    BY <2>3, <2>4
<1>8. Of(u, s[i].id) = {} /\ \A id \in Nat \ {s[i].id} : Of(u, id) = Of(s, id)
  BY <1>1, <1>6, <1>7 DEF Of
<1> QED
  BY <1>1, <1>5, <1>8 DEF u, m

LEMMA CuttingKey ==
    ASSUME NEW s \in Seq(Key), Distinct(s), s # <<>>
    PROVE  /\ Front(s) \in Seq(Key) /\ Distinct(Front(s)) /\ ToSet(Front(s)) \subseteq ToSet(s)
           /\ \A id \in Nat \ {s[Len(s)].id} : Of(Front(s), id) = Of(s, id)
<1> DEFINE u == Front(s)
           m == Len(s)
<1>1. /\ u \in Seq(Key) /\ Len(u) = m - 1 /\ \A j \in 1..m - 1 : u[j] = s[j]
  BY FrontFacts
<1>2. m \in Nat \ {0} /\ (\A x \in ToSet(s) : \E j \in 1..m : x = s[j]) /\ (\A j \in 1..m : s[j] \in ToSet(s))
  BY SeqFacts
<1>3. (\A x \in ToSet(u) : \E j \in 1..m - 1 : x = u[j]) /\ (\A j \in 1..m - 1 : u[j] \in ToSet(u))
  BY <1>1, SeqFacts
<1> HIDE DEF u, m
<1>4. \A j \in 1..m - 1 : j \in 1..m
  BY <1>2
<1>5. Distinct(u)
  BY <1>1, <1>4 DEF Distinct, m
<1>6. ToSet(u) \subseteq ToSet(s)
  BY <1>1, <1>2, <1>3, <1>4
<1>7. ASSUME NEW r \in ToSet(s), r.id # s[m].id
      PROVE  r \in ToSet(u)
  <2>1. PICK k \in 1..m : r = s[k]
    BY <1>2
  <2>2. k \in 1..m - 1
    <3>1. k # m
      BY <1>7, <2>1
    <3> QED
      BY <1>2, <3>1
  <2> QED
    BY <1>1, <1>3, <2>1, <2>2
<1>8. \A id \in Nat \ {s[m].id} : Of(u, id) = Of(s, id)
  BY <1>6, <1>7 DEF Of
<1> QED
  BY <1>1, <1>5, <1>6, <1>8 DEF u, m

LEMMA InsertingKey ==
    ASSUME NEW s \in Seq(Key), Distinct(s), NEW i \in 1..Len(s) + 1, NEW e \in Key, Of(s, e.id) = {}
    PROVE  /\ InsertAt(s, i, e) \in Seq(Key) /\ Distinct(InsertAt(s, i, e))
           /\ ToSet(InsertAt(s, i, e)) = ToSet(s) \cup {e}
           /\ \A id \in Nat \ {e.id} : Of(InsertAt(s, i, e), id) = Of(s, id)
<1> DEFINE u == InsertAt(s, i, e)
           m == Len(s)
<1>1. /\ u \in Seq(Key) /\ Len(u) = m + 1 /\ ToSet(u) = ToSet(s) \cup {e}
      /\ \A j \in 1..m + 1 : u[j] = IF j < i THEN s[j] ELSE IF j = i THEN e ELSE s[j - 1]
  BY InsertAtFacts
<1>2. m \in Nat /\ i \in 1..m + 1 /\ \A j \in 1..m : s[j] \in ToSet(s)
  BY SeqFacts
<1> HIDE DEF u, m
<1>3. \A j \in 1..m : s[j].id # e.id
  BY <1>2 DEF Of
<1>4. ASSUME NEW j \in 1..m + 1, j # i
      PROVE  \E k \in 1..m : u[j] = s[k] /\ k = (IF j < i THEN j ELSE j - 1)
  <2>1. CASE j < i
    <3>1. j \in 1..m
      BY <1>2, <2>1
    <3> QED
      BY <1>1, <2>1, <3>1
  <2>2. CASE ~(j < i)
    <3>1. j - 1 \in 1..m
      BY <1>2, <1>4, <2>2
    <3> QED
      BY <1>1, <1>4, <2>2, <3>1
  <2> QED
    BY <2>1, <2>2
<1>5. u[i] = e
  <2>1. ~(i < i)
    BY <1>2
  <2> QED
    BY <1>1, <1>2, <2>1
<1>6. Distinct(u)
  <2> SUFFICES ASSUME NEW j \in 1..m + 1, NEW k \in 1..m + 1, u[j].id = u[k].id
               PROVE  j = k
    BY <1>1 DEF Distinct
  <2>1. CASE j # i /\ k # i
    <3>1. PICK a \in 1..m : u[j] = s[a] /\ a = (IF j < i THEN j ELSE j - 1)
      BY <1>4, <2>1
    <3>2. PICK b \in 1..m : u[k] = s[b] /\ b = (IF k < i THEN k ELSE k - 1)
      BY <1>4, <2>1
    <3>3. a = b
      BY <3>1, <3>2 DEF Distinct, m
    <3> QED
      BY <1>2, <2>1, <3>1, <3>2, <3>3
  <2>2. CASE j = i \/ k = i
    BY <1>3, <1>4, <1>5, <2>2
  <2> QED
    BY <2>1, <2>2
<1>7. \A id \in Nat \ {e.id} : Of(u, id) = Of(s, id)
  BY <1>1 DEF Of
<1> QED
  BY <1>1, <1>6, <1>7 DEF u

Replaced(s, i, new, u) == Len(u) = Len(s) /\ u[i] = new /\ \A j \in 1..Len(s) : j # i => u[j] = s[j]
(* Each id is still there once, and only this key is another.              *)
Rewritten(s, u, id, new) ==
    /\ Distinct(u) /\ \A r \in ToSet(u) : \E earlier \in ToSet(s) : r.id = earlier.id
    /\ Of(u, id) = {new} /\ \A other \in Nat \ {id} : Of(u, other) = Of(s, other)
LEMMA ChangingKey ==
    ASSUME NEW s \in Seq(Key), Distinct(s), NEW i \in 1..Len(s), NEW id, s[i].id = id,
           NEW new \in Key, new.id = id, NEW u \in Seq(Key), Replaced(s, i, new, u)
    PROVE  Rewritten(s, u, id, new)
<1> DEFINE m == Len(s)
<1>1. m \in Nat /\ \A j \in 1..m : s[j] \in Key
  OBVIOUS
<1>2. /\ Len(u) = m /\ u[i] = new /\ \A j \in 1..m : j # i => u[j] = s[j]
  BY DEF Replaced
<1>3. (\A x \in ToSet(s) : \E j \in 1..m : x = s[j]) /\ (\A j \in 1..m : s[j] \in ToSet(s))
  BY SeqFacts
<1> HIDE DEF m
<1>4. (\A x \in ToSet(u) : \E j \in 1..m : x = u[j]) /\ (\A j \in 1..m : u[j] \in ToSet(u))
  BY <1>2, SeqFacts
<1>5. \A j \in 1..m : u[j].id = s[j].id
  BY <1>1, <1>2
<1>6. Distinct(u)
  BY <1>2, <1>5 DEF Distinct, m
<1>7. \A r \in ToSet(u) : \E earlier \in ToSet(s) : r.id = earlier.id
  BY <1>3, <1>4, <1>5
<1>8. i \in 1..m
  BY DEF m
<1>9. Of(u, id) = {new}
  <2>1. new \in ToSet(u)
    BY <1>2, <1>4, <1>8
  <2>2. ASSUME NEW r \in ToSet(u), r.id = id
        PROVE  r = new
    <3>1. PICK j \in 1..m : r = u[j]
      BY <1>4
    <3>2. j = i
      BY <1>5, <1>8, <2>2, <3>1 DEF Distinct, m
    <3> QED
      BY <1>2, <3>1, <3>2
  <2> QED
    BY <1>1, <2>1, <2>2 DEF Of
<1>10. \A other \in Nat \ {id} : Of(u, other) = Of(s, other)
  <2>1. \A j \in 1..m : u[j].id # id => u[j] = s[j]
    BY <1>1, <1>2
  <2>2. \A r \in ToSet(u) : r.id # id => r \in ToSet(s)
    BY <1>3, <1>4, <2>1
  <2>3. \A r \in ToSet(s) : r.id # id => r \in ToSet(u)
    BY <1>3, <1>4, <1>5, <2>1
  <2> QED
    BY <2>2, <2>3 DEF Of
<1> QED
  BY <1>2, <1>6, <1>7, <1>9, <1>10 DEF m, Rewritten

-----------------------------------------------------------------------------
(* What the store and the requests keep while no change was taken back     *)
(* that was not the latest: a request whose change is the latest is alone, *)
(* its change is still the last thing that happened to the list, and       *)
(* nothing was said of its key yet.                                        *)
Clerk == [op : {"none", "create", "delete", "revoke", "allow"}, id : 0..MaxKeys, index : Nat, failed : BOOLEAN,
          latest : BOOLEAN, alone : BOOLEAN, removed : {<<>>} \cup {<<k>> : k \in Key}]
Words == {"none", "open", "valid", "revoked", "gone"}

Removable(w) ==
    /\ w.index \in 1..Len(keys) + 1 /\ Of(keys, w.id) = {}
    /\ \E k \in Key : w.removed = <<k>> /\ k.id = w.id /\ w.id \in 1..created
Busy(c) == clerk[c].op # "none"
LastChange(c) ==
    /\ said[clerk[c].id] = "open" /\ \A d \in Clerks \ {c} : ~Busy(d)
    /\ clerk[c].op = "create" => keys # <<>> /\ keys[Len(keys)].id = clerk[c].id
    /\ clerk[c].op = "delete" => Removable(clerk[c])
Held(c) ==
    /\ clerk[c].failed => Busy(c)
    /\ Busy(c) => clerk[c].id \in KeyIds
    /\ Busy(c) /\ clerk[c].alone => Says(Answer(clerk[c].op), keys, clerk[c].id)
    /\ Busy(c) /\ clerk[c].latest => LastChange(c)

ListTypes ==
    /\ keys \in Seq(Key) /\ keyFile \in Seq(Key) /\ created \in 0..MaxKeys
    /\ Distinct(keys) /\ Distinct(keyFile)
    /\ \A r \in ToSet(keys) \cup ToSet(keyFile) : r.id \in 1..created
KeysGood ==
    /\ ListTypes /\ ~keyStuck
    /\ clerk \in [Clerks -> Clerk] /\ said \in [KeyIds -> Words]
    /\ \A c \in Clerks : Held(c)
    /\ \A id \in KeyIds : said[id] \in {"none", "open"} \/ (Says(said[id], keys, id) /\ Says(said[id], keyFile, id))
KeysInv == undone \in BOOLEAN /\ (~undone => KeysGood)

LEMMA SaysOf ==
    \A word, s, t, id : Of(s, id) = Of(t, id) /\ Says(word, s, id) => Says(word, t, id)
BY DEF Says

LEMMA KeysStart == KeysInit => KeysInv
<1> SUFFICES ASSUME KeysInit
             PROVE  KeysInv
  OBVIOUS
<1>1. /\ keys = <<>> /\ keyFile = <<>> /\ ~keyStuck /\ created = 0 /\ undone = FALSE
      /\ clerk = [c \in Clerks |-> KeyIdle] /\ said = [id \in KeyIds |-> "none"]
  BY DEF KeysInit
<1>2. KeyIdle \in Clerk /\ KeyIdle.op = "none" /\ ~KeyIdle.failed
  <2>1. 0 \in 0..MaxKeys
    BY KeyAssumption
  <2> QED
    BY <2>1 DEF KeyIdle, Clerk
<1>3. ListTypes
  <2>1. <<>> \in Seq(Key) /\ Len(<<>>) = 0 /\ 1..0 = {} /\ ToSet(<<>>) = {} /\ 0 \in 0..MaxKeys
    BY KeyAssumption DEF ToSet
  <2> QED
    BY <1>1, <2>1 DEF ListTypes, Distinct
<1>4. clerk \in [Clerks -> Clerk] /\ \A c \in Clerks : Held(c)
  BY <1>1, <1>2 DEF Held, Busy
<1>5. said \in [KeyIds -> Words] /\ \A id \in KeyIds : said[id] = "none"
  BY <1>1 DEF Words
<1> QED
  BY <1>1, <1>3, <1>4, <1>5 DEF KeysInv, KeysGood

(* A change of key id by c: what it says of the others stays.              *)
LEMMA KeyChanges ==
    ASSUME KeysGood, NEW c \in Clerks, NEW op \in {"create", "delete", "revoke", "allow"}, NEW id \in KeyIds,
           NEW index \in Nat, NEW removed \in {<<>>} \cup {<<k>> : k \in Key},
           Change(c, op, id, index, removed),
           keys' \in Seq(Key), Distinct(keys'), created' \in 0..MaxKeys, created' >= created,
           \A r \in ToSet(keys') : r.id \in 1..created',
           \A other \in KeyIds \ {id} : Of(keys', other) = Of(keys, other),
           Says(Answer(op), keys', id),
           op = "create" => keys' # <<>> /\ keys'[Len(keys')].id = id,
           op = "delete" => /\ index \in 1..Len(keys') + 1 /\ Of(keys', id) = {}
                            /\ \E k \in Key : removed = <<k>> /\ k.id = id /\ id \in 1..created'
    PROVE  KeysGood'
<1> DEFINE others == {d \in Clerks \ {c} : Busy(d)}
           new == [KeyIdle EXCEPT !.op = op, !.id = id, !.index = index, !.removed = removed, !.latest = (others = {})]
           moved(d) == [clerk[d] EXCEPT !.latest = FALSE, !.alone = @ /\ clerk[d].id # id]
<1>1. /\ clerk[c].op = "none" /\ ~keyStuck /\ said' = [said EXCEPT ![id] = "open"]
      /\ clerk' = [d \in Clerks |-> IF d = c THEN new ELSE moved(d)]
      /\ UNCHANGED <<keyFile, keyStuck>>
  BY DEF Change, Busy
<1>2. clerk \in [Clerks -> Clerk] /\ said \in [KeyIds -> Words] /\ ListTypes
  BY DEF KeysGood
<1>3. /\ new \in Clerk /\ new.op = op /\ new.id = id /\ new.index = index /\ new.removed = removed
      /\ new.latest = (others = {}) /\ ~new.failed
  <2>1. (others = {}) \in BOOLEAN /\ id \in 0..MaxKeys /\ 0 \in 0..MaxKeys
    BY KeyAssumption DEF KeyIds
  <2> HIDE DEF others
  <2> QED
    BY <2>1 DEF KeyIdle, Clerk
<1>4. ASSUME NEW d \in Clerks
      PROVE  /\ moved(d) \in Clerk /\ moved(d).op = clerk[d].op /\ moved(d).id = clerk[d].id
             /\ ~moved(d).latest /\ moved(d).failed = clerk[d].failed
             /\ moved(d).alone = (clerk[d].alone /\ clerk[d].id # id)
  BY <1>2 DEF Clerk
<1> HIDE DEF new, moved
<1>5. clerk' \in [Clerks -> Clerk] /\ clerk'[c] = new /\ \A d \in Clerks \ {c} : clerk'[d] = moved(d)
  BY <1>1, <1>3, <1>4
<1>6. said' \in [KeyIds -> Words] /\ said'[id] = "open" /\ \A other \in KeyIds \ {id} : said'[other] = said[other]
  BY <1>1, <1>2 DEF Words
<1>7. \A d \in Clerks \ {c} : Busy(d)' <=> Busy(d)
  BY <1>4, <1>5 DEF Busy
<1>8. Held(c)'
  <2>1. ~clerk'[c].failed /\ clerk'[c].id \in KeyIds /\ Says(Answer(clerk'[c].op), keys', clerk'[c].id)
    BY <1>3, <1>5
  <2>2. ASSUME clerk'[c].latest
        PROVE  LastChange(c)'
    <3>1. \A d \in Clerks \ {c} : ~Busy(d)'
      BY <1>3, <1>5, <1>7, <2>2
    <3>2. op = "delete" => Removable(clerk[c])'
      BY <1>3, <1>5 DEF Removable
    <3> QED
      BY <1>3, <1>5, <1>6, <3>1, <3>2 DEF LastChange
  <2> QED
    BY <2>1, <2>2 DEF Held
<1>9. ASSUME NEW d \in Clerks \ {c}
      PROVE  Held(d)'
  <2>1. Held(d)
    BY DEF KeysGood
  <2>2. Busy(d) /\ clerk[d].alone /\ clerk[d].id # id => Says(Answer(clerk[d].op), keys', clerk[d].id)
    BY <2>1, SaysOf DEF Held
  <2> QED
    BY <1>4, <1>5, <1>7, <2>1, <2>2 DEF Held
<1>10. ASSUME NEW other \in KeyIds
       PROVE  \/ said'[other] \in {"none", "open"}
              \/ (Says(said'[other], keys', other) /\ Says(said'[other], keyFile', other))
  BY <1>1, <1>6, SaysOf DEF KeysGood
<1>11. ListTypes'
  <2>1. \A r \in ToSet(keyFile) : r.id \in 1..created'
    BY <1>2 DEF ListTypes
  <2> QED
    BY <1>1, <1>2, <2>1 DEF ListTypes
<1> QED
  BY <1>1, <1>5, <1>6, <1>8, <1>9, <1>10, <1>11 DEF KeysGood

LEMMA CreatingKey ==
    ASSUME KeysGood, NEW c \in Clerks, CreateKey(c)
    PROVE  KeysGood'
<1>1. /\ created < MaxKeys /\ created' = created + 1 /\ created \in 0..MaxKeys /\ MaxKeys \in Nat
      /\ keys' = Append(keys, [id |-> created + 1, revoked |-> FALSE])
      /\ Change(c, "create", created + 1, 0, <<>>)
  BY KeyAssumption DEF CreateKey, KeysGood, ListTypes
<1>2. PICK id \in KeyIds : id = created + 1
  BY <1>1 DEF KeyIds
<1> DEFINE e == [id |-> id, revoked |-> FALSE]
<1>3. e \in Key /\ e.id = id /\ ~e.revoked
  BY <1>1, <1>2 DEF Key
<1>4. /\ keys \in Seq(Key) /\ Distinct(keys) /\ \A r \in ToSet(keys) : r.id \in 1..created /\ r.id # id
  <2>1. \A n \in 1..created : n # id
    BY <1>1, <1>2
  <2> QED
    BY <2>1 DEF KeysGood, ListTypes
<1>5. keys' = Append(keys, e)
  BY <1>1, <1>2
<1> HIDE DEF e
<1>6. /\ keys' \in Seq(Key) /\ Distinct(keys') /\ ToSet(keys') = ToSet(keys) \cup {e}
      /\ Len(keys') = Len(keys) + 1 /\ keys'[Len(keys) + 1] = e
      /\ Of(keys', id) = {e} /\ \A other \in Nat \ {id} : Of(keys', other) = Of(keys, other)
  BY <1>3, <1>4, <1>5, AppendingKey
<1>7. keys' # <<>> /\ keys'[Len(keys')].id = id
  <2>1. Len(keys) \in Nat /\ Len(keys') # 0
    BY <1>4, <1>6
  <2> QED
    BY <1>3, <1>6, <2>1
<1>8. Says("valid", keys', id) /\ Answer("create") = "valid"
  BY <1>3, <1>6 DEF Says, Answer
<1>9. /\ created' \in 0..MaxKeys /\ created' >= created /\ \A r \in ToSet(keys') : r.id \in 1..created'
      /\ KeyIds \subseteq Nat /\ 0 \in Nat
  <2>1. 1..created' = 1..created \cup {id} /\ KeyIds \subseteq Nat
    BY <1>1, <1>2 DEF KeyIds
  <2> QED
    <3>1. created' \in 0..MaxKeys /\ created' >= created
      BY <1>1
    <3>2. \A r \in ToSet(keys') : r.id \in 1..created'
      BY <1>3, <1>4, <1>6, <2>1
    <3> QED
      BY <2>1, <3>1, <3>2
<1>10. Change(c, "create", id, 0, <<>>)
  BY <1>1, <1>2
<1> QED
  BY <1>6, <1>7, <1>8, <1>9, <1>10, KeyChanges

LEMMA DeletingKey ==
    ASSUME KeysGood, NEW c \in Clerks, NEW id \in KeyIds, DeleteKey(c, id)
    PROVE  KeysGood'
<1>1. PICK i \in 1..Len(keys) : /\ keys[i].id = id /\ keys' = RemoveAt(keys, i)
                                /\ Change(c, "delete", id, i, <<keys[i]>>) /\ UNCHANGED created
  <2>1. DOMAIN keys = 1..Len(keys)
    BY DEF KeysGood, ListTypes
  <2> QED
    BY <2>1 DEF DeleteKey, Where
<1>2. keys \in Seq(Key) /\ Distinct(keys) /\ created \in 0..MaxKeys /\ \A r \in ToSet(keys) : r.id \in 1..created
  BY DEF KeysGood, ListTypes
<1>3. keys[i] \in Key /\ keys[i] \in ToSet(keys) /\ Len(keys) \in Nat
  BY <1>2, SeqFacts
<1>4. /\ keys' \in Seq(Key) /\ Distinct(keys') /\ Len(keys') = Len(keys) - 1 /\ ToSet(keys') \subseteq ToSet(keys)
      /\ Of(keys', id) = {} /\ \A other \in Nat \ {id} : Of(keys', other) = Of(keys, other)
  BY <1>1, <1>2, RemovingKey
<1>5. Says("gone", keys', id) /\ Answer("delete") = "gone"
  BY <1>4 DEF Says, Answer
<1>6. /\ i \in 1..Len(keys') + 1 /\ i \in Nat /\ KeyIds \subseteq Nat /\ created' \in 0..MaxKeys /\ created' >= created
      /\ \A r \in ToSet(keys') : r.id \in 1..created'
  <2>1. i \in 1..Len(keys') + 1 /\ i \in Nat
    BY <1>3, <1>4
  <2>2. KeyIds \subseteq Nat
    BY DEF KeyIds
  <2> QED
    BY <1>1, <1>2, <1>4, <2>1, <2>2
<1>7. \E k \in Key : <<keys[i]>> = <<k>> /\ k.id = id /\ id \in 1..created'
  BY <1>1, <1>2, <1>3
<1>8. <<keys[i]>> \in {<<>>} \cup {<<k>> : k \in Key}
  BY <1>3
<1> QED
  BY <1>1, <1>4, <1>5, <1>6, <1>7, <1>8, KeyChanges

LEMMA UpdatingKey ==
    ASSUME KeysGood, NEW c \in Clerks, NEW id \in KeyIds, NEW revoked \in BOOLEAN, UpdateKey(c, id, revoked)
    PROVE  KeysGood'
<1> DEFINE op == IF revoked THEN "revoke" ELSE "allow"
<1>1. PICK i \in 1..Len(keys) : /\ keys[i].id = id /\ keys' = [keys EXCEPT ![i].revoked = revoked]
                                /\ Change(c, op, id, i, <<>>) /\ UNCHANGED created
  <2>1. DOMAIN keys = 1..Len(keys)
    BY DEF KeysGood, ListTypes
  <2> QED
    BY <2>1 DEF UpdateKey, Where
<1>2. keys \in Seq(Key) /\ Distinct(keys) /\ created \in 0..MaxKeys /\ \A r \in ToSet(keys) : r.id \in 1..created
  BY DEF KeysGood, ListTypes
<1>3. keys[i] \in Key /\ Len(keys) \in Nat
  BY <1>2, SeqFacts
<1> DEFINE new == [keys[i] EXCEPT !.revoked = revoked]
<1>4. new \in Key /\ new.id = id /\ new.revoked = revoked
  BY <1>1, <1>3 DEF Key
<1>5. keys' = [keys EXCEPT ![i] = new]
  BY <1>1
<1> HIDE DEF new
<1>6. /\ keys' \in Seq(Key) /\ Distinct(keys') /\ \A r \in ToSet(keys') : \E earlier \in ToSet(keys) : r.id = earlier.id
      /\ Of(keys', id) = {new} /\ \A other \in Nat \ {id} : Of(keys', other) = Of(keys, other)
  <2>1. /\ keys' \in Seq(Key) /\ Len(keys') = Len(keys) /\ keys'[i] = new
        /\ \A j \in 1..Len(keys) : j # i => keys'[j] = keys[j]
    BY <1>2, <1>4, <1>5
  <2> QED
    <3>1. Replaced(keys, i, new, keys')
      BY <2>1 DEF Replaced
    <3>2. keys \in Seq(Key) /\ Distinct(keys) /\ new \in Key /\ keys' \in Seq(Key)
      BY <1>2, <1>4, <2>1
    <3>3. i \in 1..Len(keys) /\ keys[i].id = id /\ new.id = id
      BY <1>1, <1>4
    <3>4. Rewritten(keys, keys', id, new)
      BY <3>1, <3>2, <3>3, ChangingKey
    <3> QED
      BY <3>2, <3>4 DEF Rewritten
<1>7. Says(Answer(op), keys', id) /\ op \in {"revoke", "allow"}
  BY <1>4, <1>6 DEF Says, Answer
<1> HIDE DEF op
<1>8. /\ i \in Nat /\ KeyIds \subseteq Nat /\ created' \in 0..MaxKeys /\ created' >= created
      /\ \A r \in ToSet(keys') : r.id \in 1..created'
  <2>1. i \in Nat /\ KeyIds \subseteq Nat
    BY DEF KeyIds
  <2> QED
    <3>1. created' \in 0..MaxKeys /\ created' >= created
      BY <1>1, <1>2
    <3>2. \A r \in ToSet(keys') : r.id \in 1..created'
      BY <1>1, <1>2, <1>6
    <3> QED
      BY <2>1, <3>1, <3>2
<1>9. op # "create" /\ op # "delete" /\ op \in {"create", "delete", "revoke", "allow"}
  BY <1>7
<1>10. /\ Change(c, op, id, i, <<>>) /\ keys' \in Seq(Key) /\ Distinct(keys')
       /\ \A other \in KeyIds \ {id} : Of(keys', other) = Of(keys, other)
       /\ i \in Nat /\ <<>> \in {<<>>} \cup {<<k>> : k \in Key}
  BY <1>1, <1>6, <1>8
<1> QED
  BY <1>7, <1>8, <1>9, <1>10, KeyChanges

LEMMA SavingKeys ==
    ASSUME KeysGood, NEW c \in Clerks, SaveKeys(c)
    PROVE  KeysGood'
<1>1. /\ clerk[c].op # "none" /\ UNCHANGED <<keys, keyStuck, created>>
      /\ clerk \in [Clerks -> Clerk] /\ said \in [KeyIds -> Words] /\ ListTypes /\ clerk[c] \in Clerk /\ Held(c)
  BY DEF SaveKeys, KeysGood
<1>2. CASE /\ keyFile' = keys
           /\ said' = [said EXCEPT ![clerk[c].id] = IF clerk[c].alone THEN Answer(clerk[c].op) ELSE @]
           /\ clerk' = [clerk EXCEPT ![c] = KeyIdle]
  <2>1. KeyIdle \in Clerk /\ KeyIdle.op = "none" /\ ~KeyIdle.failed
    <3>1. 0 \in 0..MaxKeys
      BY KeyAssumption
    <3> QED
      BY <3>1 DEF KeyIdle, Clerk
  <2>2. clerk' \in [Clerks -> Clerk] /\ clerk'[c] = KeyIdle /\ \A d \in Clerks \ {c} : clerk'[d] = clerk[d]
    BY <1>1, <1>2, <2>1
  <2>3. PICK id \in KeyIds : id = clerk[c].id
    BY <1>1 DEF Held, Busy
  <2>4. Answer(clerk[c].op) \in {"valid", "revoked", "gone"}
    BY <1>1 DEF Answer
  <2>5. /\ said' \in [KeyIds -> Words] /\ said'[id] = (IF clerk[c].alone THEN Answer(clerk[c].op) ELSE said[id])
        /\ \A other \in KeyIds \ {id} : said'[other] = said[other]
    BY <1>1, <1>2, <2>3, <2>4 DEF Words
  <2>6. ASSUME NEW other \in KeyIds, said'[other] \notin {"none", "open"}
        PROVE  Says(said'[other], keys', other) /\ Says(said'[other], keyFile', other)
    <3>1. Says(said'[other], keys, other)
      BY <1>1, <2>3, <2>5, <2>6 DEF KeysGood, Held, Busy
    <3> QED
      BY <1>1, <1>2, <3>1
  <2>7. ASSUME NEW d \in Clerks
        PROVE  Held(d)'
    <3>1. CASE d = c
      BY <2>1, <2>2, <3>1 DEF Held, Busy
    <3>2. CASE d # c
      <4>1. ~clerk[d].latest \/ clerk[d].op = "none"
        BY <1>1, <2>2, <3>2 DEF KeysGood, Held, LastChange, Busy
      <4>2. clerk'[d] = clerk[d] /\ Held(d)
        BY <2>2, <3>2 DEF KeysGood
      <4> QED
        BY <1>1, <4>1, <4>2 DEF Held, Busy
    <3> QED
      BY <3>1, <3>2
  <2>8. ListTypes'
    BY <1>1, <1>2 DEF ListTypes
  <2> QED
    BY <1>1, <2>2, <2>5, <2>6, <2>7, <2>8 DEF KeysGood
<1>3. CASE clerk' = [clerk EXCEPT ![c].failed = TRUE] /\ UNCHANGED <<keyFile, said>>
  <2> DEFINE new == [clerk[c] EXCEPT !.failed = TRUE]
  <2>1. /\ new \in Clerk /\ new.op = clerk[c].op /\ new.id = clerk[c].id /\ new.alone = clerk[c].alone
        /\ new.latest = clerk[c].latest /\ new.index = clerk[c].index /\ new.removed = clerk[c].removed
    BY <1>1 DEF Clerk
  <2>2. clerk' = [clerk EXCEPT ![c] = new]
    BY <1>3
  <2> HIDE DEF new
  <2>3. clerk' \in [Clerks -> Clerk] /\ clerk'[c] = new /\ \A d \in Clerks \ {c} : clerk'[d] = clerk[d]
    BY <1>1, <2>1, <2>2
  <2>4. ASSUME NEW d \in Clerks
        PROVE  /\ clerk'[d].op = clerk[d].op /\ clerk'[d].id = clerk[d].id /\ clerk'[d].alone = clerk[d].alone
               /\ clerk'[d].latest = clerk[d].latest /\ clerk'[d].index = clerk[d].index
               /\ clerk'[d].removed = clerk[d].removed
               /\ clerk'[d].failed => clerk[d].failed \/ clerk[d].op # "none"
    <3>1. CASE d = c
      BY <1>1, <2>1, <2>3, <3>1
    <3>2. CASE d # c
      BY <2>3, <3>2
    <3> QED
      BY <3>1, <3>2
  <2>5. ASSUME NEW d \in Clerks
        PROVE  Held(d)'
    <3>1. Held(d)
      BY DEF KeysGood
    <3>2. Busy(d) /\ clerk[d].latest => LastChange(d)'
      <4>1. Busy(d) /\ clerk[d].latest => LastChange(d)
        BY <3>1 DEF Held
      <4> QED
        BY <1>1, <1>3, <2>4, <4>1 DEF LastChange, Removable, Busy
    <3> QED
      BY <1>1, <2>4, <3>1, <3>2 DEF Held, Busy
  <2> QED
    BY <1>1, <1>3, <2>3, <2>5 DEF KeysGood, ListTypes
<1> QED
  BY <1>2, <1>3 DEF SaveKeys

LEMMA RollingBack ==
    ASSUME KeysGood, NEW c \in Clerks, RollBackKeys(c), undone \in BOOLEAN, ~undone'
    PROVE  KeysGood'
<1>1. /\ clerk[c].failed /\ clerk[c].latest /\ clerk' = [clerk EXCEPT ![c] = KeyIdle]
      /\ UNCHANGED <<keyFile, created, said>>
      /\ clerk \in [Clerks -> Clerk] /\ clerk[c] \in Clerk /\ ListTypes
  BY DEF RollBackKeys, KeysGood, Clerk
<1>2. Busy(c) /\ LastChange(c)
  BY <1>1 DEF KeysGood, Held
<1>3. PICK id \in KeyIds : id = clerk[c].id
  BY <1>2 DEF KeysGood, Held
<1>4. /\ keys \in Seq(Key) /\ keyFile \in Seq(Key) /\ Distinct(keys) /\ Distinct(keyFile) /\ created \in 0..MaxKeys
      /\ \A r \in ToSet(keys) \cup ToSet(keyFile) : r.id \in 1..created
      /\ KeyIds \subseteq Nat /\ said[id] = "open"
  BY <1>1, <1>2, <1>3 DEF ListTypes, LastChange, KeyIds
<1>5. /\ keys' \in Seq(Key) /\ Distinct(keys') /\ ~keyStuck'
      /\ \A r \in ToSet(keys') : r.id \in 1..created
      /\ \A other \in Nat \ {id} : Of(keys', other) = Of(keys, other)
  <2>1. CASE clerk[c].op = "create"
    <3>1. keys # <<>> /\ keys[Len(keys)].id = id
      BY <1>2, <1>3, <2>1 DEF LastChange
    <3>2. keys' = Front(keys) /\ ~keyStuck'
      BY <2>1, <3>1 DEF RollBackKeys
    <3>3. /\ Front(keys) \in Seq(Key) /\ Distinct(Front(keys)) /\ ToSet(Front(keys)) \subseteq ToSet(keys)
          /\ \A other \in Nat \ {keys[Len(keys)].id} : Of(Front(keys), other) = Of(keys, other)
      BY <1>4, <3>1, CuttingKey
    <3> QED
      BY <1>4, <3>1, <3>2, <3>3
  <2>2. CASE clerk[c].op = "delete"
    <3>1. /\ clerk[c].index \in 1..Len(keys) + 1 /\ Of(keys, id) = {}
          /\ \E k \in Key : clerk[c].removed = <<k>> /\ k.id = id /\ id \in 1..created
      BY <1>2, <1>3, <2>2 DEF LastChange, Removable
    <3>2. PICK i \in 1..Len(keys) + 1 : i = clerk[c].index
      BY <3>1
    <3>3. PICK k \in Key : clerk[c].removed = <<k>> /\ k.id = id /\ id \in 1..created
      BY <3>1
    <3>4. ~(clerk[c].index > Len(keys) + 1) /\ clerk[c].removed[1] = k
      <4>1. Len(keys) \in Nat
        BY <1>4
      <4> QED
        BY <3>2, <3>3, <4>1
    <3>5. keys' = InsertAt(keys, i, k) /\ ~keyStuck'
      BY <2>2, <3>2, <3>4 DEF RollBackKeys
    <3>6. /\ InsertAt(keys, i, k) \in Seq(Key) /\ Distinct(InsertAt(keys, i, k))
          /\ ToSet(InsertAt(keys, i, k)) = ToSet(keys) \cup {k}
          /\ \A other \in Nat \ {k.id} : Of(InsertAt(keys, i, k), other) = Of(keys, other)
      BY <1>4, <3>1, <3>3, InsertingKey
    <3> QED
      BY <1>4, <3>3, <3>5, <3>6
  <2>3. CASE clerk[c].op \in {"allow", "revoke"}
    <3>1. keys' = keys /\ ~keyStuck'
      BY <2>3 DEF RollBackKeys
    <3> QED
      BY <1>4, <3>1
  <2> QED
    BY <1>1, <1>2, <2>1, <2>2, <2>3 DEF Clerk, Busy
<1>6. /\ clerk' \in [Clerks -> Clerk] /\ \A d \in Clerks : clerk'[d].op = "none" /\ ~clerk'[d].failed
  <2>1. KeyIdle \in Clerk /\ KeyIdle.op = "none" /\ ~KeyIdle.failed
    <3>1. 0 \in 0..MaxKeys
      BY KeyAssumption
    <3> QED
      BY <3>1 DEF KeyIdle, Clerk
  <2>2. clerk' \in [Clerks -> Clerk] /\ clerk'[c] = KeyIdle /\ \A d \in Clerks \ {c} : clerk'[d] = clerk[d]
    BY <1>1, <2>1
  <2>3. \A d \in Clerks \ {c} : clerk[d].op = "none" /\ ~clerk[d].failed
    BY <1>2 DEF KeysGood, Held, LastChange, Busy
  <2> QED
    BY <2>1, <2>2, <2>3
<1>7. \A d \in Clerks : Held(d)'
  BY <1>6 DEF Held, Busy
<1>8. ASSUME NEW other \in KeyIds, said'[other] \notin {"none", "open"}
      PROVE  Says(said'[other], keys', other) /\ Says(said'[other], keyFile', other)
  <2>1. other # id /\ other \in Nat
    BY <1>1, <1>4, <1>8
  <2>2. Says(said[other], keys, other) /\ Says(said[other], keyFile, other)
    BY <1>1, <1>8 DEF KeysGood
  <2> QED
    BY <1>1, <1>5, <2>1, <2>2, SaysOf
<1>9. ListTypes'
  BY <1>1, <1>4, <1>5 DEF ListTypes
<1>10. said' \in [KeyIds -> Words]
  BY <1>1 DEF KeysGood
<1> QED
  BY <1>5, <1>6, <1>7, <1>8, <1>9, <1>10 DEF KeysGood

LEMMA ReopeningKeys ==
    ASSUME KeysGood, OpenKeys
    PROVE  KeysGood'
<1>1. /\ keys' = keyFile /\ ~keyStuck' /\ clerk' = [c \in Clerks |-> KeyIdle]
      /\ UNCHANGED <<keyFile, created, said>>
  BY DEF OpenKeys
<1>2. KeyIdle \in Clerk /\ KeyIdle.op = "none" /\ ~KeyIdle.failed
  <2>1. 0 \in 0..MaxKeys
    BY KeyAssumption
  <2> QED
    BY <2>1 DEF KeyIdle, Clerk
<1>3. clerk' \in [Clerks -> Clerk] /\ \A c \in Clerks : Held(c)'
  BY <1>1, <1>2 DEF Held, Busy
<1>4. ListTypes'
  BY <1>1 DEF KeysGood, ListTypes
<1> QED
  BY <1>1, <1>3, <1>4 DEF KeysGood

LEMMA KeysStep ==
    ASSUME KeysInv, [KeysNext]_keyVars
    PROVE  KeysInv'
<1> SUFFICES ASSUME ~undone'
             PROVE  undone' \in BOOLEAN /\ KeysGood'
  <2>1. undone' \in BOOLEAN
    BY DEF KeysInv, KeysNext, CreateKey, DeleteKey, UpdateKey, Change, SaveKeys, RollBackKeys, UseKey, KeyLoop,
           OpenKeys, keyVars, Clerk
  <2> QED
    BY <2>1 DEF KeysInv
<1>1. undone \in BOOLEAN /\ ~undone /\ KeysGood
  <2>1. undone => undone'
    BY DEF KeysNext, CreateKey, DeleteKey, UpdateKey, Change, SaveKeys, RollBackKeys, UseKey, KeyLoop,
           OpenKeys, keyVars
  <2> QED
    BY <2>1 DEF KeysInv
<1>2. ASSUME NEW c \in Clerks, CreateKey(c) \/ SaveKeys(c) \/ RollBackKeys(c)
      PROVE  KeysGood'
  BY <1>1, <1>2, CreatingKey, SavingKeys, RollingBack
<1>3. ASSUME NEW c \in Clerks, NEW id \in KeyIds, DeleteKey(c, id) \/ \E r \in BOOLEAN : UpdateKey(c, id, r)
      PROVE  KeysGood'
  BY <1>1, <1>3, DeletingKey, UpdatingKey
<1>4. ASSUME OpenKeys
      PROVE  KeysGood'
  BY <1>1, <1>4, ReopeningKeys
<1>5. ASSUME UNCHANGED <<keys, keyStuck, clerk, created, said>>, keyFile' \in {keys, keyFile}
      PROVE  KeysGood'
  <2>1. \A c \in Clerks : Held(c)'
    BY <1>1, <1>5 DEF KeysGood, Held, LastChange, Busy, Removable
  <2>2. ListTypes'
    BY <1>1, <1>5 DEF KeysGood, ListTypes
  <2> QED
    BY <1>1, <1>5, <2>1, <2>2 DEF KeysGood
<1>6. ASSUME (\E id \in KeyIds : UseKey(id)) \/ KeyLoop \/ UNCHANGED keyVars
      PROVE  KeysGood'
  BY <1>5, <1>6 DEF UseKey, KeyLoop, keyVars
<1>7. undone' \in BOOLEAN
  BY <1>1 DEF KeysNext, CreateKey, DeleteKey, UpdateKey, Change, SaveKeys, RollBackKeys, UseKey, KeyLoop,
              OpenKeys, keyVars
<1> QED
  BY <1>2, <1>3, <1>4, <1>6, <1>7 DEF KeysNext

(* What the console was last told of a key stays so, in memory and in the  *)
(* file, for any number of keys and of requests at once, unless a change   *)
(* that was not the latest was taken back (apiKeyStore and adminKeys).     *)
THEOREM AnswersAboutKeysStay == KeysSpec => []AcknowledgedKeys
<1>1. KeysInv => AcknowledgedKeys
  BY DEF KeysInv, KeysGood, AcknowledgedKeys, Says, Of
<1> QED
  BY <1>1, KeysStart, KeysStep, PTL DEF KeysSpec

-----------------------------------------------------------------------------
(* The settings.  NewPool is defined by recursion over its list: it exists *)
(* for every list, and has each of its proxies once.                       *)
LEMMA Least ==
    ASSUME NEW S \in SUBSET Nat, S # {}
    PROVE  \E x \in S : \A y \in S : x <= y
<1>1. IsWellFoundedOn(OpToRel(<, Nat), Nat)
  BY NatLessThanWellFounded, Zenon
<1>2. PICK x \in S : \A y \in S : ~ (<<y, x>> \in OpToRel(<, Nat))
  BY <1>1, WFMin, Zenon
<1>3. ASSUME NEW y \in S
      PROVE  x <= y
  <2>1. ~(y < x)
    BY <1>2 DEF OpToRel
  <2> QED
    BY <2>1
<1> QED
  BY <1>3

Grown(list, f) ==
    [n \in 0..Len(list) |->
        IF n = 0 THEN <<>>
        ELSE IF list[n] \in ToSet(f[n - 1]) THEN f[n - 1] ELSE Append(f[n - 1], list[n])]
Pool(list) == CHOOSE f : f = Grown(list, f)
LEMMA Filling ==
    ASSUME NEW list \in Seq(Proxies)
    PROVE  \E f : f = Grown(list, f)
<1> DEFINE step(n, g) == IF n = 0 THEN <<>>
                         ELSE IF list[n] \in ToSet(g[n - 1]) THEN g[n - 1] ELSE Append(g[n - 1], list[n])
           Till(n) == \E g : g = [m \in 0..n |-> step(m, g)]
           bad == {n \in Nat : ~Till(n)}
<1>1. Till(0)
  <2> DEFINE g == [m \in 0..0 |-> <<>>]
  <2>1. g = [m \in 0..0 |-> step(m, g)]
    OBVIOUS
  <2> QED
    BY <2>1
<1>2. ASSUME NEW n \in Nat \ {0}, Till(n - 1)
      PROVE  Till(n)
  <2>1. PICK g : g = [m \in 0..(n - 1) |-> step(m, g)]
    BY <1>2
  <2> DEFINE h == [m \in 0..n |-> IF m = n THEN step(n, g) ELSE g[m]]
  <2>2. ASSUME NEW m \in 0..n
        PROVE  h[m] = step(m, h)
    <3>1. CASE m = 0
      BY <2>1, <3>1
    <3>2. CASE m # 0
      <4>1. m - 1 \in 0..(n - 1) /\ m - 1 \in 0..n /\ m - 1 # n
        BY <3>2
      <4>2. h[m - 1] = g[m - 1]
        BY <4>1
      <4>3. m # n => m \in 0..(n - 1)
        OBVIOUS
      <4>4. h[m] = step(m, g)
        BY <2>1, <4>3
      <4> QED
        BY <3>2, <4>2, <4>4
    <3> QED
      BY <3>1, <3>2
  <2>3. h = [m \in 0..n |-> step(m, h)]
    BY <2>2
  <2> QED
    BY <2>3
<1> HIDE DEF Till
<1>3. bad = {}
  <2> SUFFICES ASSUME bad # {}
               PROVE  FALSE
    OBVIOUS
  <2>1. PICK n \in bad : \A m \in bad : n <= m
    <3>1. bad \in SUBSET Nat
      OBVIOUS
    <3> QED
      BY <3>1, Least
  <2>2. n # 0 /\ n \in Nat
    BY <1>1
  <2>3. n - 1 \in Nat /\ ~(n <= n - 1)
    BY <2>2
  <2>4. Till(n - 1)
    BY <2>1, <2>3
  <2> QED
    BY <1>2, <2>2, <2>4
<1>4. Till(Len(list))
  BY <1>3
<1> QED
  BY <1>4 DEF Till, Grown
NoTwice(s) == \A i, k \in 1..Len(s) : s[i] = s[k] => i = k

(* What NewPool has made of the first n of a list.                         *)
Filled(list, s, n) ==
    /\ s \in Seq(Proxies) /\ NoTwice(s)
    /\ \A x : x \in ToSet(s) <=> \E i \in 1..n : x = list[i]
    /\ NoTwice(list) => Len(s) = n /\ \A i \in 1..n : s[i] = list[i]

LEMMA FillingOne ==
    ASSUME NEW list \in Seq(Proxies), NEW n \in 1..Len(list), NEW s, Filled(list, s, n - 1)
    PROVE  Filled(list, IF list[n] \in ToSet(s) THEN s ELSE Append(s, list[n]), n)
<1>1. /\ n \in Nat /\ n - 1 \in Nat /\ Len(list) \in Nat /\ n \in 1..n /\ list[n] \in Proxies
      /\ \A i \in 1..n : i \in 1..n - 1 \/ i = n
      /\ \A i \in 1..n - 1 : i \in 1..n /\ i # n /\ i \in 1..Len(list)
  OBVIOUS
<1>2. /\ s \in Seq(Proxies) /\ NoTwice(s)
      /\ \A x : x \in ToSet(s) <=> \E i \in 1..n - 1 : x = list[i]
      /\ NoTwice(list) => Len(s) = n - 1 /\ \A i \in 1..n - 1 : s[i] = list[i]
  BY DEF Filled
<1>3. CASE list[n] \in ToSet(s)
  <2>1. ~NoTwice(list)
    BY <1>1, <1>2, <1>3 DEF NoTwice
  <2>2. \A x : x \in ToSet(s) <=> \E i \in 1..n : x = list[i]
    BY <1>1, <1>2, <1>3
  <2> QED
    BY <1>2, <1>3, <2>1, <2>2 DEF Filled
<1>4. CASE list[n] \notin ToSet(s)
  <2> DEFINE u == Append(s, list[n])
             m == Len(s)
  <2>1. /\ u \in Seq(Proxies) /\ Len(u) = m + 1 /\ ToSet(u) = ToSet(s) \cup {list[n]}
        /\ \A i \in 1..m : u[i] = s[i] /\ s[i] \in ToSet(s)
        /\ u[m + 1] = list[n] /\ m \in Nat
    BY <1>1, <1>2, AppendFacts, SeqFacts
  <2> HIDE DEF u
  <2>2. NoTwice(u)
    <3> SUFFICES ASSUME NEW i \in 1..Len(u), NEW k \in 1..Len(u), u[i] = u[k]
                 PROVE  i = k
      BY DEF NoTwice
    <3>1. (i \in 1..m \/ i = m + 1) /\ (k \in 1..m \/ k = m + 1)
      BY <2>1
    <3>2. CASE i \in 1..m /\ k \in 1..m
      BY <1>2, <2>1, <3>2 DEF NoTwice
    <3> QED
      BY <1>4, <2>1, <3>1, <3>2
  <2>3. \A x : x \in ToSet(u) <=> \E i \in 1..n : x = list[i]
    BY <1>1, <1>2, <2>1
  <2>4. ASSUME NoTwice(list)
        PROVE  Len(u) = n /\ \A i \in 1..n : u[i] = list[i]
    <3>1. m = n - 1 /\ m + 1 = n
      BY <1>1, <1>2, <2>4
    <3> QED
      BY <1>1, <1>2, <2>1, <2>4, <3>1
  <2>5. Filled(list, u, n)
    BY <2>1, <2>2, <2>3, <2>4 DEF Filled
  <2> QED
    BY <1>4, <2>5 DEF u
<1> QED
  BY <1>3, <1>4

LEMMA PoolFacts ==
    ASSUME NEW list \in Seq(Proxies)
    PROVE  /\ NewPool(list) \in Seq(Proxies) /\ NoTwice(NewPool(list)) /\ ToSet(NewPool(list)) = ToSet(list)
           /\ NoTwice(list) => NewPool(list) = list
<1> DEFINE f == CHOOSE f : f = Grown(list, f)
           bad == {n \in Nat : n \in 0..Len(list) /\ ~Filled(list, f[n], n)}
<1>1. NewPool(list) = f[Len(list)]
  BY DEF NewPool, Grown
<1>2. f = Grown(list, f)
  BY Filling
<1> HIDE DEF f
<1>3. /\ f[0] = <<>> /\ Len(list) \in Nat
      /\ \A n \in 1..Len(list) :
            f[n] = IF list[n] \in ToSet(f[n - 1]) THEN f[n - 1] ELSE Append(f[n - 1], list[n])
  <2>1. Len(list) \in Nat /\ 0 \in 0..Len(list) /\ \A n \in 1..Len(list) : n \in 0..Len(list) /\ n # 0
    OBVIOUS
  <2> QED
    BY <1>2, <2>1 DEF Grown
<1>4. Filled(list, f[0], 0)
  <2>1. <<>> \in Seq(Proxies) /\ Len(<<>>) = 0 /\ 1..0 = {} /\ ToSet(<<>>) = {}
    BY DEF ToSet
  <2> QED
    BY <1>3, <2>1 DEF Filled, NoTwice
<1>5. bad = {}
  <2> SUFFICES ASSUME bad # {}
               PROVE  FALSE
    OBVIOUS
  <2>1. PICK n \in bad : \A m \in bad : n <= m
    <3>1. bad \in SUBSET Nat
      OBVIOUS
    <3> QED
      BY <3>1, Least
  <2>2. n # 0 /\ n \in Nat /\ n \in 0..Len(list)
    BY <1>4
  <2>3. n - 1 \in Nat /\ ~(n <= n - 1) /\ n \in 1..Len(list) /\ n - 1 \in 0..Len(list)
    BY <1>3, <2>2
  <2>4. Filled(list, f[n - 1], n - 1)
    BY <2>1, <2>3
  <2>5. Filled(list, f[n], n)
    BY <1>3, <2>3, <2>4, FillingOne
  <2> QED
    BY <2>5
<1>6. Filled(list, NewPool(list), Len(list))
  <2>1. Len(list) \in 0..Len(list)
    BY <1>3
  <2> QED
    BY <1>1, <1>3, <1>5, <2>1
<1>7. ToSet(NewPool(list)) = ToSet(list)
  <2>1. \A x : x \in ToSet(NewPool(list)) <=> \E i \in 1..Len(list) : x = list[i]
    BY <1>6 DEF Filled
  <2>2. \A x : x \in ToSet(list) <=> \E i \in 1..Len(list) : x = list[i]
    BY DEF ToSet
  <2> HIDE DEF f
  <2> QED
    BY <2>1, <2>2
<1>8. ASSUME NoTwice(list)
      PROVE  NewPool(list) = list
  <2>1. NewPool(list) \in Seq(Proxies) /\ Len(NewPool(list)) = Len(list) /\ \A i \in 1..Len(list) : NewPool(list)[i] = list[i]
    BY <1>6, <1>8 DEF Filled
  <2> HIDE DEF f
  <2> QED
    BY <2>1, SeqEqual
<1> QED
  BY <1>6, <1>7, <1>8 DEF Filled

-----------------------------------------------------------------------------
(* What the settings, the file, the pool in use and the request that runs  *)
(* alone, when none overlaps it, are to each other.                        *)
Setting == [pool : Seq(Proxies), other : Others]
Editing == [at : {"idle", "replace", "copy", "list", "file", "memory", "configure"},
            list : Seq(Proxies), v : Setting, via : {"put", "edit"}]
Agreed == settings = settingsFile /\ List = NewPool(settings.pool)
Stage(w) ==
    /\ w.at = "memory" => settingsFile = w.v
    /\ w.at = "configure" => settings = settingsFile /\ w.v.pool = settings.pool
    /\ w.via = "edit" /\ w.at \in {"file", "memory"} => w.v.pool = List
StoreTypes ==
    /\ settings \in Setting /\ settingsFile \in Setting
    /\ poolInUse \in {NoPool} \cup Seq(Proxies) /\ NoTwice(List)
Alone ==
    /\ \A e, d \in Editors : editor[e].at # "idle" /\ editor[d].at # "idle" => e = d
    /\ \A e \in Editors : Stage(editor[e])
    /\ (\A e \in Editors : editor[e].at = "idle") => Agreed
SettingsInv ==
    /\ StoreTypes /\ editor \in [Editors -> Editing] /\ mixed \in BOOLEAN
    /\ ~mixed => Alone

LEMMA PoolIsAPool ==
    /\ \A list \in Seq(Proxies) : NewPool(list) \in Seq(Proxies) /\ NoTwice(NewPool(list)) /\ NewPool(list) # NoPool
    /\ <<>> # NoPool /\ NoTwice(<<>>) /\ <<>> \in Seq(Proxies) /\ NewPool(<<>>) = <<>>
<1>1. ASSUME NEW s \in Seq(Proxies)
      PROVE  s # NoPool
  <2>1. Len(NoPool) = 1 /\ NoPool[1] = "none"
    BY DEF NoPool
  <2>2. Len(s) = 1 => s[1] \in Proxies
    OBVIOUS
  <2> QED
    BY <2>1, <2>2, SettingsAssumption
<1>2. <<>> \in Seq(Proxies) /\ NoTwice(<<>>)
  <2>1. <<>> \in Seq(Proxies) /\ Len(<<>>) = 0 /\ 1..0 = {}
    OBVIOUS
  <2> QED
    BY <2>1 DEF NoTwice
<1> QED
  BY <1>1, <1>2, PoolFacts

LEMMA EditorIdleFacts ==
    /\ AnyOther \in Others /\ EditorIdle(AnyOther) \in Editing /\ EditorIdle(AnyOther).at = "idle"
    /\ EditorIdle(AnyOther).v \in Setting
    /\ \A list \in Seq(Proxies) : /\ Replacing(list) \in Editing /\ Replacing(list).at = "replace"
                                  /\ Replacing(list).list = list /\ Replacing(list).via = "edit"
                                  /\ Replacing(list).v \in Setting
<1>1. AnyOther \in Others
  BY SettingsAssumption DEF AnyOther
<1>2. <<>> \in Seq(Proxies)
  OBVIOUS
<1>3. [pool |-> <<>>, other |-> AnyOther] \in Setting
  BY <1>1, <1>2 DEF Setting
<1>4. EditorIdle(AnyOther) \in Editing /\ EditorIdle(AnyOther).at = "idle"
      /\ EditorIdle(AnyOther).v \in Setting
  BY <1>2, <1>3 DEF EditorIdle, Editing
<1>5. ASSUME NEW list \in Seq(Proxies)
      PROVE  /\ Replacing(list) \in Editing /\ Replacing(list).at = "replace"
             /\ Replacing(list).list = list /\ Replacing(list).via = "edit" /\ Replacing(list).v \in Setting
  BY <1>2, <1>3 DEF Replacing, EditorIdle, Editing
<1> QED
  BY <1>1, <1>4, <1>5

(* One request goes on to w: enough to know the others idle where the      *)
(* history has nothing mixed.                                              *)
LEMMA EditorMoves ==
    ASSUME SettingsInv, NEW e \in Editors, NEW w \in Editing, editor' = [editor EXCEPT ![e] = w],
           StoreTypes', mixed' \in BOOLEAN,
           ~mixed' => Quiet(e) /\ Stage(w)' /\ (w.at = "idle" => Agreed')
    PROVE  SettingsInv'
<1>1. editor \in [Editors -> Editing]
  BY DEF SettingsInv
<1>2. editor' \in [Editors -> Editing] /\ editor'[e] = w /\ \A d \in Editors \ {e} : editor'[d] = editor[d]
  BY <1>1
<1>3. ASSUME ~mixed'
      PROVE  Alone'
  <2>1. \A d \in Editors \ {e} : editor'[d].at = "idle"
    BY <1>2, <1>3 DEF Quiet
  <2>2. \A d \in Editors : Stage(editor[d])'
    <3> SUFFICES ASSUME NEW d \in Editors
                 PROVE  Stage(editor[d])'
      OBVIOUS
    <3>1. CASE d = e
      BY <1>2, <1>3, <3>1 DEF Stage
    <3>2. CASE d # e
      <4>1. editor'[d].at = "idle"
        BY <2>1, <3>2
      <4> QED
        BY <4>1 DEF Stage
    <3> QED
      BY <3>1, <3>2
  <2>3. (\A d \in Editors : editor'[d].at = "idle") => Agreed'
    BY <1>2, <1>3
  <2>4. \A a, d \in Editors : editor'[a].at # "idle" /\ editor'[d].at # "idle" => a = d
    BY <2>1
  <2> QED
    BY <2>2, <2>3, <2>4 DEF Alone
<1> QED
  BY <1>2, <1>3 DEF SettingsInv

LEMMA SettingsStart == SettingsInit => SettingsInv
<1> SUFFICES ASSUME SettingsInit
             PROVE  SettingsInv
  OBVIOUS
<1>1. PICK l \in Lists : settings = [pool |-> l, other |-> AnyOther]
  BY DEF SettingsInit
<1>2. l \in Seq(Proxies)
  BY SettingsAssumption
<1>3. settings \in Setting /\ settings.pool = l /\ settingsFile = settings
  BY <1>1, <1>2, EditorIdleFacts DEF Setting, SettingsInit
<1>4. poolInUse = IF l = <<>> THEN NoPool ELSE NewPool(l)
  BY <1>3 DEF SettingsInit, Startup
<1>5. List = NewPool(l) /\ poolInUse \in {NoPool} \cup Seq(Proxies) /\ NoTwice(List)
  BY <1>2, <1>4, PoolIsAPool DEF List
<1>6. editor \in [Editors -> Editing] /\ mixed = FALSE /\ \A e \in Editors : editor[e].at = "idle"
  BY EditorIdleFacts DEF SettingsInit
<1> QED
  BY <1>3, <1>5, <1>6 DEF SettingsInv, StoreTypes, Alone, Stage, Agreed

(* A request begins, whatever the others are doing.                        *)
LEMMA BeginningEdit ==
    ASSUME SettingsInv, NEW e \in Editors, NEW w \in Editing, Begin(e, w),
           w.at \in {"replace", "copy", "file"}, w.at = "file" => w.via = "put"
    PROVE  SettingsInv'
<1>1. /\ editor' = [editor EXCEPT ![e] = w] /\ (mixed' <=> ~Quiet(e)) /\ mixed' \in BOOLEAN
      /\ UNCHANGED <<settings, settingsFile, poolInUse>>
  BY DEF Begin
<1>2. StoreTypes'
  BY <1>1 DEF SettingsInv, StoreTypes, List
<1>3. Stage(w)' /\ w.at # "idle"
  BY DEF Stage
<1> QED
  BY <1>1, <1>2, <1>3, EditorMoves

LEMMA AskingToEdit ==
    ASSUME SettingsInv, NEW e \in Editors,
           \/ \E list \in Lists : PutPool(e, list)
           \/ \E o \in Others : PutOther(e, o)
           \/ \E a \in Proxies : AddProxy(e, a) \/ RemoveProxy(e, a)
           \/ RemoveAll(e)
    PROVE  SettingsInv'
<1>1. settings \in Setting /\ List \in Seq(Proxies)
  BY PoolIsAPool DEF SettingsInv, StoreTypes, List
<1>2. ASSUME NEW v \in Setting
      PROVE  [at |-> "file", list |-> <<>>, v |-> v, via |-> "put"] \in Editing
  <2>1. <<>> \in Seq(Proxies)
    OBVIOUS
  <2> QED
    BY <2>1 DEF Editing
<1>3. ASSUME NEW list \in Lists, PutPool(e, list)
      PROVE  SettingsInv'
  <2> DEFINE v == [settings EXCEPT !.pool = list]
             w == [at |-> "file", list |-> <<>>, v |-> v, via |-> "put"]
  <2>1. v \in Setting
    BY <1>1, SettingsAssumption DEF Setting
  <2>2. w \in Editing /\ w.at = "file" /\ w.via = "put"
    BY <1>2, <2>1
  <2>3. Begin(e, w)
    BY <1>3 DEF PutPool
  <2> HIDE DEF w
  <2> QED
    BY <2>2, <2>3, BeginningEdit
<1>4. ASSUME NEW o \in Others, PutOther(e, o)
      PROVE  SettingsInv'
  <2> DEFINE v == [settings EXCEPT !.other = o]
             w == [at |-> "file", list |-> <<>>, v |-> v, via |-> "put"]
  <2>1. v \in Setting
    BY <1>1 DEF Setting
  <2>2. w \in Editing /\ w.at = "file" /\ w.via = "put"
    BY <1>2, <2>1
  <2>3. Begin(e, w)
    BY <1>4 DEF PutOther
  <2> HIDE DEF w
  <2> QED
    BY <2>2, <2>3, BeginningEdit
<1>5. ASSUME NEW list \in Seq(Proxies), Begin(e, Replacing(list))
      PROVE  SettingsInv'
  <2>1. Replacing(list) \in Editing /\ Replacing(list).at = "replace"
    BY EditorIdleFacts
  <2> QED
    BY <1>5, <2>1, BeginningEdit
<1>6. ASSUME Begin(e, [Replacing(<<>>) EXCEPT !.at = "copy"])
      PROVE  SettingsInv'
  <2> DEFINE w == [Replacing(<<>>) EXCEPT !.at = "copy"]
  <2>1. Replacing(<<>>) \in Editing
    <3>1. <<>> \in Seq(Proxies)
      OBVIOUS
    <3> QED
      BY <3>1, EditorIdleFacts
  <2>2. w \in Editing /\ w.at = "copy"
    BY <2>1 DEF Editing
  <2> HIDE DEF w
  <2>3. Begin(e, w)
    BY <1>6 DEF w
  <2> QED
    BY <2>2, <2>3, BeginningEdit
<1>7. ASSUME NEW a \in Proxies, AddProxy(e, a)
      PROVE  SettingsInv'
  <2>1. Append(List, a) \in Seq(Proxies)
    BY <1>1
  <2> QED
    BY <1>5, <1>7, <2>1 DEF AddProxy
<1>8. ASSUME NEW a \in Proxies, RemoveProxy(e, a)
      PROVE  SettingsInv'
  <2>1. ASSUME NEW i \in DOMAIN List
        PROVE  RemoveAt(List, i) \in Seq(Proxies)
    <3>1. i \in 1..Len(List)
      BY <1>1
    <3> QED
      BY <1>1, <3>1, RemoveAtFacts
  <2> QED
    BY <1>5, <1>6, <1>8, <2>1 DEF RemoveProxy
<1>9. ASSUME RemoveAll(e)
      PROVE  SettingsInv'
  <2>1. <<>> \in Seq(Proxies)
    OBVIOUS
  <2> QED
    BY <1>5, <1>9, <2>1 DEF RemoveAll
<1> QED
  BY <1>3, <1>4, <1>7, <1>8, <1>9

(* The pool in use is replaced, or looked at.                              *)
LEMMA EditingPool ==
    ASSUME SettingsInv, NEW e \in Editors, ReplacePool(e) \/ CopySettings(e) \/ CopyList(e) \/ ConfigurePool(e)
    PROVE  SettingsInv'
<1>1. /\ settings \in Setting /\ settingsFile \in Setting /\ editor[e] \in Editing /\ StoreTypes
      /\ mixed \in BOOLEAN /\ (~mixed => Alone) /\ List \in Seq(Proxies)
  BY PoolIsAPool DEF SettingsInv, StoreTypes, List
<1>2. ASSUME editor[e].at # "idle", ~mixed
      PROVE  Quiet(e) /\ Stage(editor[e])
  BY <1>1, <1>2 DEF Alone, Quiet
<1>3. /\ editor[e].list \in Seq(Proxies) /\ editor[e].v \in Setting /\ editor[e].v.pool \in Seq(Proxies)
      /\ <<>> \in Seq(Proxies) /\ UNCHANGED <<settings, settingsFile, mixed>>
  BY <1>1 DEF Editing, Setting, ReplacePool, CopySettings, CopyList, ConfigurePool
<1>4. ASSUME NEW list \in Seq(Proxies), poolInUse' = NewPool(list)
      PROVE  List' = NewPool(list) /\ StoreTypes'
  <2>1. NewPool(list) \in Seq(Proxies) /\ NoTwice(NewPool(list)) /\ NewPool(list) # NoPool
    BY PoolIsAPool
  <2>2. List' = NewPool(list)
    BY <1>4, <2>1 DEF List
  <2> QED
    BY <1>1, <1>3, <1>4, <2>1, <2>2 DEF StoreTypes
<1>5. UNCHANGED poolInUse => List' = List /\ StoreTypes'
  BY <1>1, <1>3 DEF List, StoreTypes
<1>6. ASSUME ReplacePool(e)
      PROVE  SettingsInv'
  <2> PICK w : w = [editor[e] EXCEPT !.at = "copy", !.list = <<>>]
    OBVIOUS
  <2>1. w \in Editing /\ w.at = "copy"
    BY <1>1, <1>3 DEF Editing
  <2>2. editor' = [editor EXCEPT ![e] = w] /\ poolInUse' = NewPool(editor[e].list) /\ editor[e].at = "replace"
    BY <1>6 DEF ReplacePool, Step
  <2>3. StoreTypes' /\ Stage(w)'
    BY <1>3, <1>4, <2>1, <2>2 DEF Stage
  <2> QED
    BY <1>1, <1>2, <1>3, <2>1, <2>2, <2>3, EditorMoves
<1>7. ASSUME CopySettings(e)
      PROVE  SettingsInv'
  <2> PICK w : w = [editor[e] EXCEPT !.at = "list", !.v = settings]
    OBVIOUS
  <2>1. w \in Editing /\ w.at = "list"
    BY <1>1, <1>3 DEF Editing
  <2>2. editor' = [editor EXCEPT ![e] = w] /\ UNCHANGED poolInUse /\ editor[e].at = "copy"
    BY <1>7 DEF CopySettings, Step
  <2>3. StoreTypes' /\ Stage(w)'
    BY <1>5, <2>1, <2>2 DEF Stage
  <2> QED
    BY <1>1, <1>2, <1>3, <2>1, <2>2, <2>3, EditorMoves
<1>8. ASSUME CopyList(e)
      PROVE  SettingsInv'
  <2> PICK w : w = [editor[e] EXCEPT !.at = "file", !.v.pool = List]
    OBVIOUS
  <2>1. w \in Editing /\ w.at = "file" /\ w.v.pool = List
    BY <1>1, <1>3 DEF Editing, Setting
  <2>2. editor' = [editor EXCEPT ![e] = w] /\ UNCHANGED poolInUse /\ editor[e].at = "list"
    BY <1>8 DEF CopyList, Step
  <2>3. StoreTypes' /\ Stage(w)'
    BY <1>5, <2>1, <2>2 DEF Stage
  <2> QED
    BY <1>1, <1>2, <1>3, <2>1, <2>2, <2>3, EditorMoves
<1>9. ASSUME ConfigurePool(e)
      PROVE  SettingsInv'
  <2> DEFINE w == EditorIdle(AnyOther)
  <2>1. w \in Editing /\ w.at = "idle"
    BY EditorIdleFacts
  <2>2. editor' = [editor EXCEPT ![e] = w] /\ poolInUse' = NewPool(editor[e].v.pool) /\ editor[e].at = "configure"
    BY <1>9 DEF ConfigurePool, End, Step
  <2> HIDE DEF w
  <2>3. StoreTypes' /\ Stage(w)' /\ List' = NewPool(editor[e].v.pool)
    BY <1>3, <1>4, <2>1, <2>2 DEF Stage
  <2>4. ~mixed' => Agreed'
    BY <1>2, <1>3, <2>2, <2>3 DEF Agreed, Stage
  <2> QED
    BY <1>1, <1>2, <1>3, <2>1, <2>2, <2>3, <2>4, EditorMoves
<1> QED
  BY <1>6, <1>7, <1>8, <1>9

(* The file and then the memory.                                           *)
LEMMA SavingSettings ==
    ASSUME SettingsInv, NEW e \in Editors, SaveSettings(e) \/ TakeSettings(e)
    PROVE  SettingsInv'
<1>1. /\ settings \in Setting /\ settingsFile \in Setting /\ editor[e] \in Editing /\ StoreTypes
      /\ mixed \in BOOLEAN /\ (~mixed => Alone) /\ List \in Seq(Proxies) /\ NoTwice(List)
  BY PoolIsAPool DEF SettingsInv, StoreTypes, List
<1>2. ASSUME editor[e].at # "idle", ~mixed
      PROVE  Quiet(e) /\ Stage(editor[e])
  BY <1>1, <1>2 DEF Alone, Quiet
<1>3. editor[e].v \in Setting /\ editor[e].v.pool \in Seq(Proxies) /\ List' = List /\ UNCHANGED poolInUse
  BY <1>1 DEF Editing, Setting, SaveSettings, TakeSettings, List
<1>4. StoreTypes'
  BY <1>1, <1>3 DEF StoreTypes, SaveSettings, TakeSettings
<1> DEFINE idle == EditorIdle(AnyOther)
<1>5. idle \in Editing /\ idle.at = "idle"
  BY EditorIdleFacts
<1>6. ASSUME editor[e].at = "file", settingsFile' = editor[e].v, UNCHANGED <<settings, mixed>>,
             Step(e, [editor[e] EXCEPT !.at = "memory"])
      PROVE  SettingsInv'
  <2> PICK w : w = [editor[e] EXCEPT !.at = "memory"]
    OBVIOUS
  <2>1. w \in Editing /\ w.at = "memory" /\ w.v = editor[e].v /\ w.via = editor[e].via
    BY <1>1 DEF Editing
  <2>2. editor' = [editor EXCEPT ![e] = w]
    BY <1>6 DEF Step
  <2>3. ~mixed' => Stage(w)'
    BY <1>2, <1>3, <1>6, <2>1 DEF Stage
  <2> QED
    BY <1>1, <1>2, <1>4, <1>6, <2>1, <2>2, <2>3, EditorMoves
<1>7. ASSUME End(e), mixed' = TRUE
      PROVE  SettingsInv'
  <2>1. editor' = [editor EXCEPT ![e] = idle]
    BY <1>7 DEF End, Step
  <2> HIDE DEF idle
  <2> QED
    BY <1>4, <1>5, <1>7, <2>1, EditorMoves
<1>8. ASSUME editor[e].at = "memory", settings' = editor[e].v, UNCHANGED <<settingsFile, mixed>>,
             Step(e, [editor[e] EXCEPT !.at = "configure", !.v.other = AnyOther])
      PROVE  SettingsInv'
  <2> PICK w : w = [editor[e] EXCEPT !.at = "configure", !.v.other = AnyOther]
    OBVIOUS
  <2>1. w \in Editing /\ w.at = "configure" /\ w.v.pool = editor[e].v.pool
    BY <1>1, EditorIdleFacts DEF Editing, Setting
  <2>2. editor' = [editor EXCEPT ![e] = w]
    BY <1>8 DEF Step
  <2>3. ~mixed' => Stage(w)'
    BY <1>2, <1>3, <1>8, <2>1 DEF Stage
  <2> QED
    BY <1>1, <1>2, <1>4, <1>8, <2>1, <2>2, <2>3, EditorMoves
<1>9. ASSUME editor[e].at = "memory", editor[e].via = "edit", settings' = editor[e].v,
             UNCHANGED <<settingsFile, mixed>>, End(e)
      PROVE  SettingsInv'
  <2>1. editor' = [editor EXCEPT ![e] = idle]
    BY <1>9 DEF End, Step
  <2>2. List = NewPool(List)
    BY <1>1, PoolFacts
  <2>3. ~mixed' => settingsFile = editor[e].v /\ editor[e].v.pool = List
    BY <1>2, <1>9 DEF Stage
  <2>4. ~mixed' => Agreed'
    <3> SUFFICES ASSUME ~mixed'
                 PROVE  settings' = settingsFile' /\ List' = NewPool(settings'.pool)
      BY DEF Agreed
    <3>1. settings'.pool = List /\ settings' = settingsFile'
      BY <1>9, <2>3
    <3> QED
      BY <1>3, <2>2, <3>1
  <2>5. Stage(idle)'
    BY <1>5 DEF Stage
  <2> HIDE DEF idle
  <2> QED
    BY <1>1, <1>2, <1>4, <1>5, <1>9, <2>1, <2>4, <2>5, EditorMoves
<1>10. editor[e].via # "put" => editor[e].via = "edit"
  BY <1>1 DEF Editing
<1> QED
  BY <1>6, <1>7, <1>8, <1>9, <1>10 DEF SaveSettings, TakeSettings

LEMMA SettingsStep == SettingsInv /\ [SettingsNext]_settingsVars => SettingsInv'
<1> SUFFICES ASSUME SettingsInv, [SettingsNext]_settingsVars
             PROVE  SettingsInv'
  OBVIOUS
<1>1. ASSUME NEW e \in Editors,
             \/ \E list \in Lists : PutPool(e, list)
             \/ \E o \in Others : PutOther(e, o)
             \/ \E a \in Proxies : AddProxy(e, a) \/ RemoveProxy(e, a)
             \/ RemoveAll(e)
      PROVE  SettingsInv'
  BY <1>1, AskingToEdit
<1>2. ASSUME NEW e \in Editors, ReplacePool(e) \/ CopySettings(e) \/ CopyList(e) \/ ConfigurePool(e)
      PROVE  SettingsInv'
  BY <1>2, EditingPool
<1>3. ASSUME NEW e \in Editors, SaveSettings(e) \/ TakeSettings(e)
      PROVE  SettingsInv'
  BY <1>3, SavingSettings
<1>4. ASSUME RestartSettings
      PROVE  SettingsInv'
  <2>1. /\ settingsFile \in Setting /\ settings' = settingsFile /\ settingsFile' = settingsFile /\ mixed' = FALSE
        /\ editor' = [d \in Editors |-> EditorIdle(AnyOther)]
        /\ poolInUse' = IF settingsFile.pool = <<>> THEN NoPool ELSE NewPool(settingsFile.pool)
    BY <1>4 DEF RestartSettings, Startup, SettingsInv, StoreTypes
  <2>2. settingsFile.pool \in Seq(Proxies)
    BY <2>1 DEF Setting
  <2>3. List' = NewPool(settingsFile.pool) /\ poolInUse' \in {NoPool} \cup Seq(Proxies) /\ NoTwice(List')
    BY <2>1, <2>2, PoolIsAPool DEF List
  <2>4. editor' \in [Editors -> Editing] /\ \A d \in Editors : editor'[d].at = "idle"
    BY <2>1, EditorIdleFacts
  <2>5. StoreTypes' /\ Agreed'
    BY <2>1, <2>3 DEF StoreTypes, Agreed
  <2>6. Alone'
    BY <2>4, <2>5 DEF Alone, Stage
  <2> QED
    BY <2>1, <2>4, <2>5, <2>6 DEF SettingsInv
<1>5. ASSUME UNCHANGED settingsVars
      PROVE  SettingsInv'
  <2>1. /\ settings' = settings /\ settingsFile' = settingsFile /\ poolInUse' = poolInUse
        /\ editor' = editor /\ mixed' = mixed /\ List' = List
    BY <1>5 DEF settingsVars, List
  <2> QED
    BY <2>1 DEF SettingsInv, StoreTypes, Alone, Stage, Agreed
<1> QED
  BY <1>1, <1>2, <1>3, <1>4, <1>5 DEF SettingsNext

(* A request that ran alone and could save leaves the settings in memory,  *)
(* the file and the pool in use in agreement, for any lists of proxies and *)
(* any requests before it (settingsStore.save and persistProxyPool).       *)
THEOREM SettingsAreAgreed == SettingsSpec => []SettingsAgree
<1>1. SettingsInv => SettingsAgree
  BY DEF SettingsInv, Alone, Agreed, SettingsAgree
<1> QED
  BY <1>1, SettingsStart, SettingsStep, PTL DEF SettingsSpec

-----------------------------------------------------------------------------
(* The pool of proxies.  The entry picked is ready while any entry is.     *)
Cool == {e \in Entries : cooling[e]}

LEMMA PickIsReady ==
    ASSUME next \in 0..Size - 1, cooling \in [Entries -> BOOLEAN]
    PROVE  Pick \in Entries /\ (Cool # Entries => Pick \notin Cool)
<1> DEFINE at(i) == ((next + i) % Size) + 1
           ready == {i \in 0..Size - 1 : ~cooling[at(i)]}
<1>1. Size \in Nat /\ Size > 0 /\ next \in Nat /\ next < Size
  BY PoolAssumption
<1>2. ASSUME NEW i \in 0..Size - 1
      PROVE  at(i) \in Entries
  <2>1. next + i \in Nat
    BY <1>1
  <2>2. (next + i) % Size \in 0..Size - 1
    BY <1>1, <2>1
  <2> QED
    BY <1>1, <2>2 DEF Entries
<1>3. Pick = IF ready = {} THEN at(0) ELSE at(CHOOSE i \in ready : \A k \in ready : i <= k)
  BY DEF Pick
<1>4. ASSUME NEW e \in Entries, e \notin Cool
      PROVE  ready # {}
  <2>1. e \in Nat /\ e - 1 \in 0..Size - 1
    BY <1>1 DEF Entries
  <2>2. ASSUME NEW n \in Nat, n < Size
        PROVE  n % Size = n /\ (n + Size) % Size = n
    BY <1>1, <2>2
  <2>3. PICK i \in 0..Size - 1 : at(i) = e
    <3>1. CASE next <= e - 1
      <4>1. e - 1 - next \in 0..Size - 1 /\ next + (e - 1 - next) = e - 1
        BY <1>1, <2>1, <3>1
      <4>2. at(e - 1 - next) = e
        BY <1>1, <2>1, <2>2, <4>1
      <4> QED
        BY <4>1, <4>2
    <3>2. CASE ~(next <= e - 1)
      <4>1. e - 1 - next + Size \in 0..Size - 1 /\ next + (e - 1 - next + Size) = (e - 1) + Size
        BY <1>1, <2>1, <3>2
      <4>2. e - 1 \in Nat /\ e - 1 < Size /\ (e - 1) + 1 = e
        BY <2>1, <1>1
      <4>3. ((e - 1) + Size) % Size = e - 1
        BY <2>2, <4>2
      <4>4. at(e - 1 - next + Size) = e
        BY <4>1, <4>2, <4>3
      <4> QED
        BY <4>1, <4>4
    <3> QED
      BY <3>1, <3>2
  <2>4. ~cooling[e]
    BY <1>4 DEF Cool
  <2> QED
    BY <2>3, <2>4
<1>5. ASSUME ready # {}
      PROVE  Pick \in Entries /\ Pick \notin Cool
  <2>1. \E i \in ready : \A k \in ready : i <= k
    <3>1. ready \in SUBSET Nat
      OBVIOUS
    <3> QED
      BY <1>5, <3>1, Least
  <2> DEFINE first == CHOOSE i \in ready : \A k \in ready : i <= k
  <2>2. first \in ready
    BY <2>1
  <2>3. Pick = at(first)
    BY <1>3, <1>5
  <2> HIDE DEF first
  <2> QED
    BY <1>2, <2>2, <2>3 DEF Cool
<1>6. ASSUME ready = {}
      PROVE  Pick \in Entries /\ Cool = Entries
  <2>1. 0 \in 0..Size - 1
    BY <1>1
  <2>2. Pick = at(0)
    BY <1>3, <1>6
  <2>3. Cool = Entries
    BY <1>4, <1>6 DEF Cool
  <2> QED
    BY <1>2, <2>1, <2>2, <2>3
<1> QED
  BY <1>5, <1>6

(* An HTTP request has failed on as many entries as it was replayed, which *)
(* all cool down still, unless one of them came back meanwhile.  C is the  *)
(* set of those that cool down.                                            *)
Asking == [at : {"idle", "send", "replay", "answered", "failed", "panic"}, own : 0..Size, on : 0..Size,
           body : Bodies, replays : Nat, lifted : BOOLEAN]
Tried(w, C) ==
    /\ w.at \in {"send", "replay"} => w.own \in Entries /\ w.on \in Entries
    /\ Working # {} /\ ~w.lifted =>
          /\ w.at = "send" =>
                \E T \in SUBSET C : Cardinality(T) = w.replays /\ w.on \notin T /\ w.own \in T \cup {w.on}
          /\ w.at = "replay" => \E T \in SUBSET C : Cardinality(T) = w.replays + 1 /\ w.own \in T
          /\ ~(w.at = "failed" /\ w.body = "replayable")
PoolTypes ==
    /\ cooling \in [Entries -> BOOLEAN] /\ next \in 0..Size - 1
    /\ sticky \in 0..Size /\ probe \in 0..Size /\ dial \in [Dials -> 0..Size]
PoolInv ==
    /\ PoolTypes /\ request \in [Requests -> Asking]
    /\ Cool \cap Working = {}
    /\ \A r \in Requests : Tried(request[r], Cool)

LEMMA TriedStays ==
    ASSUME NEW w, NEW C, NEW D, Tried(w, C), C \subseteq D
    PROVE  Tried(w, D)
<1>1. \A T \in SUBSET C : T \in SUBSET D
  OBVIOUS
<1> QED
  BY <1>1 DEF Tried

LEMMA LiftedTries ==
    ASSUME NEW w \in Asking, NEW C, NEW D, Tried(w, C)
    PROVE  /\ w.at \in {"send", "replay"} => Tried([w EXCEPT !.lifted = TRUE], D)
           /\ w.at \notin {"send", "replay"} => Tried(w, D)
           /\ [w EXCEPT !.lifted = TRUE] \in Asking
<1> DEFINE u == [w EXCEPT !.lifted = TRUE]
<1>1. /\ u \in Asking /\ u.lifted = TRUE /\ u.at = w.at /\ u.own = w.own /\ u.on = w.on
  BY DEF Asking
<1> HIDE DEF u
<1>2. w.at \in {"send", "replay"} => Tried(u, D)
  BY <1>1 DEF Tried
<1>3. w.at \notin {"send", "replay"} => Tried(w, D)
  BY DEF Tried
<1> QED
  BY <1>1, <1>2, <1>3 DEF u

(* The same of all requests, when an entry is ready again and ...          *)
LEMMA LiftingTries ==
    ASSUME NEW requests \in [Requests -> Asking], NEW C, NEW D,
           \A r \in Requests : Tried(requests[r], C)
    PROVE  /\ Lifting(requests) \in [Requests -> Asking]
           /\ \A r \in Requests : Tried(Lifting(requests)[r], D)
<1>1. ASSUME NEW r \in Requests
      PROVE  /\ Lifting(requests)[r] \in Asking
             /\ Tried(Lifting(requests)[r], D)
  <2>1. Lifting(requests)[r] = IF requests[r].at \in {"send", "replay"}
                               THEN [requests[r] EXCEPT !.lifted = TRUE] ELSE requests[r]
    BY DEF Lifting
  <2>2. requests[r] \in Asking
    OBVIOUS
  <2>3. [requests[r] EXCEPT !.lifted = TRUE] \in Asking
    BY <2>2 DEF Asking
  <2>4. Tried(Lifting(requests)[r], D)
    BY <2>1, <2>2, LiftedTries
  <2> QED
    BY <2>1, <2>2, <2>3, <2>4
<1>2. Lifting(requests) = [r \in Requests |-> Lifting(requests)[r]]
  BY DEF Lifting
<1> QED
  BY <1>1, <1>2

(* ... when an attempt marks its entry.                                    *)
LEMMA Marking ==
    ASSUME PoolInv, NEW e \in Entries, NEW ok \in BOOLEAN, NEW requests \in [Requests -> Asking],
           Mark(e, ok, requests),
           \A r \in Requests : Tried(requests[r], IF ok THEN Cool ELSE Cool \cup {e})
    PROVE  /\ cooling' \in [Entries -> BOOLEAN] /\ request' \in [Requests -> Asking]
           /\ (Cool \cap Working = {})'
           /\ \A r \in Requests : Tried(request'[r], Cool')
<1>1. /\ cooling \in [Entries -> BOOLEAN] /\ Cool \cap Working = {} /\ (e \in Working => ok)
      /\ cooling' = [cooling EXCEPT ![e] = ~ok]
      /\ request' = IF ok /\ cooling[e] THEN Lifting(requests) ELSE requests
  BY DEF PoolInv, PoolTypes, Mark
<1>2. cooling' \in [Entries -> BOOLEAN]
  BY <1>1
<1>3. Cool' = IF ok THEN Cool \ {e} ELSE Cool \cup {e}
  BY <1>1 DEF Cool
<1>4. CASE ok /\ cooling[e]
  <2>1. request' = Lifting(requests)
    BY <1>1, <1>4
  <2> QED
    BY <1>1, <1>2, <1>3, <2>1, LiftingTries
<1>5. CASE ~(ok /\ cooling[e])
  <2>1. request' = requests /\ Cool' = IF ok THEN Cool ELSE Cool \cup {e}
    BY <1>1, <1>3, <1>5 DEF Cool
  <2> QED
    BY <1>1, <1>2, <1>3, <2>1
<1> QED
  BY <1>4, <1>5

(* An attempt fails: its entry is one more of those tried, and there are   *)
(* no more entries than the pool has.                                      *)
LEMMA Failing ==
    ASSUME NEW C \in SUBSET Entries, NEW w \in Asking, w.at = "send", Tried(w, C), NEW at,
           at \in {"failed", "replay"}, at = "failed" => w.body = "stream" \/ w.replays = Size + 1
    PROVE  Tried([w EXCEPT !.at = at], C \cup {w.on}) /\ [w EXCEPT !.at = at] \in Asking
<1> DEFINE u == [w EXCEPT !.at = at]
<1>1. /\ u \in Asking /\ u.at = at /\ u.own = w.own /\ u.on = w.on /\ u.body = w.body
      /\ u.replays = w.replays /\ u.lifted = w.lifted
  BY DEF Asking
<1> HIDE DEF u
<1>2. w.own \in Entries /\ w.on \in Entries
  BY DEF Tried
<1>3. CASE w.lifted \/ Working = {}
  BY <1>1, <1>2, <1>3 DEF Tried, u
<1>4. CASE ~w.lifted /\ Working # {}
  <2>1. PICK T \in SUBSET C : Cardinality(T) = w.replays /\ w.on \notin T /\ w.own \in T \cup {w.on}
    BY <1>4 DEF Tried
  <2> DEFINE U == T \cup {w.on}
  <2>2. IsFiniteSet(Entries) /\ Cardinality(Entries) = Size /\ Size \in Nat
    <3>1. Size \in Nat /\ 1 \in Int /\ Size \in Int
      BY PoolAssumption
    <3>2. IsFiniteSet(1..Size) /\ Cardinality(1..Size) = IF 1 > Size THEN 0 ELSE Size - 1 + 1
      BY <3>1, FS_Interval
    <3> QED
      BY <3>1, <3>2, PoolAssumption DEF Entries
  <2>3. IsFiniteSet(T) /\ U \in SUBSET Entries /\ U \in SUBSET (C \cup {w.on}) /\ w.own \in U
    BY <1>2, <2>1, <2>2, FS_Subset
  <2>4. Cardinality(U) = w.replays + 1
    BY <2>1, <2>3, FS_AddElement
  <2>5. Cardinality(U) <= Size
    BY <2>2, <2>3, FS_Subset
  <2> HIDE DEF U
  <2>6. w.replays \in Nat
    BY DEF Asking
  <2>7. w.replays # Size + 1
    BY <2>2, <2>4, <2>5, <2>6
  <2>8. at = "failed" => w.body # "replayable"
    BY <2>7
  <2> QED
    BY <1>1, <1>2, <2>3, <2>4, <2>8 DEF Tried, u
<1> QED
  BY <1>3, <1>4

LEMMA Attempting ==
    ASSUME PoolInv, NEW r \in Requests, NEW ok \in BOOLEAN, Attempt(r, ok)
    PROVE  PoolInv'
<1>1. /\ PoolTypes /\ request \in [Requests -> Asking] /\ Cool \cap Working = {} /\ Cool \in SUBSET Entries
      /\ \A d \in Requests : Tried(request[d], Cool)
  BY DEF PoolInv, Cool
<1>2. PICK w : w = request[r]
  OBVIOUS
<1>3. PICK at : at = IF ok THEN "answered"
                     ELSE IF w.body = "stream" \/ w.replays = Size + 1 THEN "failed" ELSE "replay"
  OBVIOUS
<1>4. /\ w.at = "send" /\ Mark(w.on, ok, [request EXCEPT ![r].at = at])
      /\ UNCHANGED <<next, sticky, dial, probe>>
  BY <1>2, <1>3 DEF Attempt, Sent
<1>5. PICK requests : requests = [request EXCEPT ![r] = [w EXCEPT !.at = at]]
  OBVIOUS
<1>6. w \in Asking /\ requests = [request EXCEPT ![r].at = at]
  BY <1>1, <1>2, <1>5
<1>7. /\ ok => at = "answered"
      /\ ~ok => at \in {"failed", "replay"}
      /\ at = "failed" => w.body = "stream" \/ w.replays = Size + 1
  BY <1>3
<1>8. [w EXCEPT !.at = at] \in Asking
  BY <1>6, <1>7 DEF Asking
<1>9. requests \in [Requests -> Asking]
  BY <1>1, <1>5, <1>8
<1>10. w.on \in Entries
  BY <1>1, <1>2, <1>4 DEF Tried
<1>11. ASSUME NEW d \in Requests
       PROVE  Tried(requests[d], IF ok THEN Cool ELSE Cool \cup {w.on})
  <2>1. Tried(request[d], Cool)
    BY <1>1
  <2>2. CASE d # r
    <3>1. requests[d] = request[d]
      BY <1>1, <1>5, <2>2
    <3>2. Cool \subseteq IF ok THEN Cool ELSE Cool \cup {w.on}
      OBVIOUS
    <3> QED
      BY <2>1, <3>1, <3>2, TriedStays
  <2>3. CASE d = r
    <3>1. requests[d] = [w EXCEPT !.at = at] /\ Tried(w, Cool)
      BY <1>1, <1>2, <1>5, <2>1, <2>3
    <3>2. CASE ok
      <4>1. requests[d].at = "answered"
        BY <1>6, <1>7, <3>1, <3>2 DEF Asking
      <4> QED
        BY <4>1 DEF Tried
    <3>3. CASE ~ok
      <4>1. Tried([w EXCEPT !.at = at], Cool \cup {w.on})
        BY <1>1, <1>4, <1>6, <1>7, <3>1, <3>3, Failing
      <4> QED
        BY <3>1, <3>3, <4>1
    <3> QED
      BY <3>2, <3>3
  <2> QED
    BY <2>2, <2>3
<1> QED
  <2>1. /\ cooling' \in [Entries -> BOOLEAN] /\ request' \in [Requests -> Asking]
        /\ (Cool \cap Working = {})' /\ \A d \in Requests : Tried(request'[d], Cool')
    BY <1>4, <1>6, <1>9, <1>10, <1>11, Marking
  <2> QED
    BY <1>1, <1>4, <2>1 DEF PoolInv, PoolTypes

(* The other callers mark entries too, and an entry comes back by itself.  *)
LEMMA MarkingOther ==
    ASSUME PoolInv, NEW e \in Entries,
           \/ \E ok \in BOOLEAN : Mark(e, ok, request)
           \/ CoolingEnds(e)
    PROVE  /\ cooling' \in [Entries -> BOOLEAN] /\ request' \in [Requests -> Asking]
           /\ (Cool \cap Working = {})' /\ \A d \in Requests : Tried(request'[d], Cool')
<1>1. /\ PoolTypes /\ request \in [Requests -> Asking] /\ Cool \cap Working = {}
      /\ \A d \in Requests : Tried(request[d], Cool)
  BY DEF PoolInv
<1>2. ASSUME NEW ok \in BOOLEAN, Mark(e, ok, request)
      PROVE  /\ cooling' \in [Entries -> BOOLEAN] /\ request' \in [Requests -> Asking]
             /\ (Cool \cap Working = {})' /\ \A d \in Requests : Tried(request'[d], Cool')
  <2>1. Cool \subseteq IF ok THEN Cool ELSE Cool \cup {e}
    OBVIOUS
  <2>2. \A d \in Requests : Tried(request[d], IF ok THEN Cool ELSE Cool \cup {e})
    BY <1>1, <2>1, TriedStays
  <2> QED
    BY <1>1, <1>2, <2>2, Marking
<1>3. ASSUME CoolingEnds(e)
      PROVE  /\ cooling' \in [Entries -> BOOLEAN] /\ request' \in [Requests -> Asking]
             /\ (Cool \cap Working = {})' /\ \A d \in Requests : Tried(request'[d], Cool')
  <2>1. cooling' = [cooling EXCEPT ![e] = FALSE] /\ request' = Lifting(request)
    BY <1>3 DEF CoolingEnds
  <2>2. cooling' \in [Entries -> BOOLEAN] /\ Cool' \subseteq Cool
    BY <1>1, <2>1 DEF PoolTypes, Cool
  <2>3. request' \in [Requests -> Asking] /\ \A d \in Requests : Tried(request'[d], Cool')
    BY <1>1, <2>1, LiftingTries
  <2> QED
    BY <1>1, <2>2, <2>3
<1> QED
  BY <1>2, <1>3

(* A request takes the entry picked, first or for a replay.                *)
LEMMA Asks ==
    ASSUME PoolInv, NEW r \in Requests,
           (\E b \in Bodies : Take(r, b)) \/ Replay(r) \/ Forget(r)
    PROVE  PoolInv'
<1>1. /\ PoolTypes /\ request \in [Requests -> Asking] /\ Cool \cap Working = {} /\ Size \in Nat \ {0}
      /\ (\A d \in Requests : Tried(request[d], Cool)) /\ Working \subseteq Entries
  BY PoolAssumption DEF PoolInv
<1>2. Pick \in Entries /\ (Working # {} => Pick \notin Cool)
  <2>1. Working # {} => Cool # Entries
    BY <1>1
  <2> QED
    BY <1>1, <2>1, PickIsReady DEF PoolTypes
<1>3. Pick % Size \in 0..Size - 1 /\ Pick \in 0..Size /\ 0 \in 0..Size /\ 0 \in Nat
  <2>1. Pick \in 1..Size
    BY <1>2 DEF Entries
  <2> QED
    BY <1>1, <2>1
<1>4. UNCHANGED cooling /\ Cool' = Cool /\ PoolTypes'
  BY <1>1, <1>3 DEF Take, Replay, Forget, Advance, PoolTypes, Cool
<1>5. ASSUME NEW w \in Asking, request' = [request EXCEPT ![r] = w], Tried(w, Cool)
      PROVE  PoolInv'
  <2>1. request' \in [Requests -> Asking] /\ \A d \in Requests : Tried(request'[d], Cool')
    BY <1>1, <1>4, <1>5
  <2> QED
    BY <1>1, <1>4, <2>1 DEF PoolInv
<1>6. RequestIdle \in Asking /\ RequestIdle.at = "idle" /\ RequestIdle.replays = 0 /\ ~RequestIdle.lifted
  BY <1>3 DEF RequestIdle, Asking, Bodies
<1>7. ASSUME NEW b \in Bodies, Take(r, b)
      PROVE  PoolInv'
  <2>1. PICK w : w = [RequestIdle EXCEPT !.at = "send", !.own = Pick, !.on = Pick, !.body = b]
    OBVIOUS
  <2>2. /\ w \in Asking /\ w.at = "send" /\ w.own = Pick /\ w.on = Pick /\ w.replays = 0
    BY <1>3, <1>6, <2>1 DEF Asking
  <2>3. {} \in SUBSET Cool /\ Cardinality({}) = 0
    BY FS_EmptySet
  <2>4. Tried(w, Cool)
    BY <1>2, <2>2, <2>3 DEF Tried
  <2>5. request' = [request EXCEPT ![r] = w]
    BY <1>7, <2>1 DEF Take
  <2> QED
    BY <1>5, <2>2, <2>4, <2>5
<1>8. ASSUME Replay(r)
      PROVE  PoolInv'
  <2>1. PICK v : v = request[r]
    OBVIOUS
  <2>2. v \in Asking /\ v.at = "replay" /\ Tried(v, Cool)
    BY <1>1, <1>8, <2>1 DEF Replay
  <2>3. PICK w : w = IF Pick = v.own THEN [v EXCEPT !.at = "failed"]
                     ELSE IF v.body = "none" THEN [v EXCEPT !.at = "panic"]
                     ELSE [v EXCEPT !.at = "send", !.on = Pick, !.replays = v.replays + 1]
    OBVIOUS
  <2>4. request' = [request EXCEPT ![r] = w]
    BY <1>8, <2>1, <2>3 DEF Replay
  <2>5. CASE Pick = v.own
    <3>1. w \in Asking /\ w.at = "failed" /\ w.lifted = v.lifted
      BY <2>2, <2>3, <2>5 DEF Asking
    <3>2. Working # {} => v.lifted
      BY <1>2, <2>2, <2>5 DEF Tried
    <3> QED
      BY <1>5, <2>4, <3>1, <3>2 DEF Tried
  <2>6. CASE Pick # v.own /\ v.body = "none"
    <3>1. w \in Asking /\ w.at = "panic"
      BY <2>2, <2>3, <2>6 DEF Asking
    <3> QED
      BY <1>5, <2>4, <3>1 DEF Tried
  <2>7. CASE Pick # v.own /\ v.body # "none"
    <3>1. v.replays + 1 \in Nat
      BY <2>2 DEF Asking
    <3>2. /\ w \in Asking /\ w.at = "send" /\ w.on = Pick /\ w.own = v.own
          /\ w.replays = v.replays + 1 /\ w.lifted = v.lifted
      BY <1>3, <2>2, <2>3, <2>7, <3>1 DEF Asking
    <3>3. v.own \in Entries
      BY <2>2 DEF Tried
    <3>4. ASSUME Working # {}, ~w.lifted
          PROVE  \E T \in SUBSET Cool : Cardinality(T) = w.replays /\ w.on \notin T /\ w.own \in T \cup {w.on}
      <4>1. PICK T \in SUBSET Cool : Cardinality(T) = v.replays + 1 /\ v.own \in T
        BY <2>2, <3>2, <3>4 DEF Tried
      <4> QED
        BY <1>2, <3>2, <3>4, <4>1
    <3>5. Tried(w, Cool)
      BY <1>2, <3>2, <3>3, <3>4 DEF Tried
    <3> QED
      BY <1>5, <2>4, <3>2, <3>5
  <2> QED
    BY <2>5, <2>6, <2>7
<1>9. ASSUME Forget(r)
      PROVE  PoolInv'
  <2>1. Tried(RequestIdle, Cool)
    BY <1>6 DEF Tried
  <2> QED
    BY <1>5, <1>6, <1>9, <2>1 DEF Forget
<1> QED
  BY <1>7, <1>8, <1>9

(* A dial or the health check begins, or ends and marks its entry.         *)
LEMMA DialsAndChecks ==
    ASSUME PoolInv,
           \/ \E d \in Dials : Dial(d) \/ \E ok \in BOOLEAN : DialEnds(d, ok)
           \/ Check
           \/ \E ok \in BOOLEAN : Checked(ok)
    PROVE  PoolInv'
<1>1. /\ cooling \in [Entries -> BOOLEAN] /\ next \in 0..Size - 1
      /\ sticky \in 0..Size /\ probe \in 0..Size /\ dial \in [Dials -> 0..Size]
      /\ request \in [Requests -> Asking] /\ Size \in Nat \ {0} /\ 0 \in 0..Size /\ 1 \in 0..Size
  BY PoolAssumption DEF PoolInv, PoolTypes
<1>2. ASSUME UNCHANGED <<cooling, request>>, PoolTypes'
      PROVE  PoolInv'
  <2>1. Cool' = Cool
    BY <1>2 DEF Cool
  <2> QED
    BY <1>2, <2>1 DEF PoolInv
<1>3. ASSUME NEW e \in Entries, NEW ok \in BOOLEAN, Mark(e, ok, request), UNCHANGED next,
             sticky' \in 0..Size, probe' \in 0..Size, dial' \in [Dials -> 0..Size]
      PROVE  PoolInv'
  <2>1. /\ cooling' \in [Entries -> BOOLEAN] /\ request' \in [Requests -> Asking]
        /\ (Cool \cap Working = {})' /\ \A d \in Requests : Tried(request'[d], Cool')
    BY <1>3, MarkingOther
  <2> QED
    BY <1>1, <1>3, <2>1 DEF PoolInv, PoolTypes
<1>4. ASSUME NEW d \in Dials, Dial(d)
      PROVE  PoolInv'
  <2>1. PICK e : e = IF sticky = 0 THEN Pick ELSE sticky
    OBVIOUS
  <2>2. e \in Entries
    BY <1>1, <2>1, PickIsReady DEF Entries
  <2>3. e \in 1..Size /\ e % Size \in 0..Size - 1
    BY <1>1, <2>2 DEF Entries
  <2>4. /\ dial' = [dial EXCEPT ![d] = e] /\ sticky' = e /\ next' \in {e % Size, next}
        /\ UNCHANGED <<cooling, request, probe>>
    BY <1>4, <2>1 DEF Dial, Advance
  <2> QED
    BY <1>1, <1>2, <2>3, <2>4 DEF PoolTypes
<1>5. ASSUME NEW d \in Dials, NEW ok \in BOOLEAN, DialEnds(d, ok)
      PROVE  PoolInv'
  <2>1. dial[d] \in Entries
    BY <1>1, <1>5 DEF DialEnds, Entries
  <2>2. /\ Mark(dial[d], ok, request) /\ UNCHANGED <<next, probe>>
        /\ sticky' \in {0, sticky} /\ dial' = [dial EXCEPT ![d] = 0]
    BY <1>5 DEF DialEnds
  <2> QED
    BY <1>1, <1>3, <2>1, <2>2
<1>6. ASSUME Check
      PROVE  PoolInv'
  BY <1>1, <1>2, <1>6 DEF Check, PoolTypes
<1>7. ASSUME NEW ok \in BOOLEAN, Checked(ok)
      PROVE  PoolInv'
  <2>1. probe \in Entries /\ probe + 1 \in Nat /\ Size + 1 \in Nat \ {0}
    BY <1>1, <1>7 DEF Checked, Entries
  <2>2. (probe + 1) % (Size + 1) \in 0..(Size + 1) - 1
    BY <2>1
  <2>3. (probe + 1) % (Size + 1) \in 0..Size
    BY <1>1, <2>2
  <2> QED
    BY <1>1, <1>3, <1>7, <2>1, <2>3 DEF Checked
<1> QED
  BY <1>4, <1>5, <1>6, <1>7

(* While the pool has a proxy that works, a request whose body can be      *)
(* given again succeeds, for any number of entries, requests and dials,    *)
(* unless an entry came back from its cool-down meanwhile (RoundTrip).     *)
THEOREM WorkingProxyIsFound == PoolSpec => []WorkingProxyFound
<1>1. PoolInit => PoolInv
  <2> SUFFICES ASSUME PoolInit
               PROVE  PoolInv
    OBVIOUS
  <2>1. Size \in Nat \ {0} /\ 0 \in 0..Size /\ 0 \in 0..Size - 1 /\ 0 \in Nat
    BY PoolAssumption
  <2>2. RequestIdle \in Asking /\ RequestIdle.at = "idle"
    BY <2>1 DEF RequestIdle, Asking, Bodies
  <2>3. Tried(RequestIdle, Cool)
    BY <2>2 DEF Tried
  <2>4. PoolTypes /\ Cool = {}
    BY <2>1 DEF PoolInit, PoolTypes, Cool
  <2>5. request = [r \in Requests |-> RequestIdle]
    BY DEF PoolInit
  <2> QED
    BY <2>2, <2>3, <2>4, <2>5 DEF PoolInv
<1>2. PoolInv /\ [PoolNext]_poolVars => PoolInv'
  <2> SUFFICES ASSUME PoolInv, [PoolNext]_poolVars
               PROVE  PoolInv'
    OBVIOUS
  <2>1. ASSUME NEW e \in Entries, CoolingEnds(e)
        PROVE  PoolInv'
    <3>1. /\ cooling' \in [Entries -> BOOLEAN] /\ request' \in [Requests -> Asking]
          /\ (Cool \cap Working = {})' /\ \A d \in Requests : Tried(request'[d], Cool')
      BY <2>1, MarkingOther
    <3> QED
      BY <2>1, <3>1 DEF PoolInv, PoolTypes, CoolingEnds
  <2>2. ASSUME NEW r \in Requests,
               (\E b \in Bodies : Take(r, b)) \/ (\E ok \in BOOLEAN : Attempt(r, ok)) \/ Replay(r) \/ Forget(r)
        PROVE  PoolInv'
    BY <2>2, Attempting, Asks
  <2>3. ASSUME \/ \E d \in Dials : Dial(d) \/ \E ok \in BOOLEAN : DialEnds(d, ok)
               \/ Check
               \/ \E ok \in BOOLEAN : Checked(ok)
        PROVE  PoolInv'
    BY <2>3, DialsAndChecks
  <2>4. ASSUME UNCHANGED poolVars
        PROVE  PoolInv'
    BY <2>4 DEF poolVars, PoolInv, PoolTypes, Cool
  <2> QED
    BY <2>1, <2>2, <2>3, <2>4 DEF PoolNext
<1>3. PoolInv => WorkingProxyFound
  BY DEF PoolInv, Tried, WorkingProxyFound
<1> QED
  BY <1>1, <1>2, <1>3, PTL DEF PoolSpec
==============================================================================
