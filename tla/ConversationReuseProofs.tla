---------------------- MODULE ConversationReuseProofs ----------------------
(***************************************************************************)
(* NoCrossTalk and IntactHoldsHistory for every set of requests, clients   *)
(* and turns and every length of the windows.  Both are about a request    *)
(* and its conversation; the induction needs what the two say of each      *)
(* binding (BindingOK) and of a request at every stage (RequestOK).  What  *)
(* other requests, the cleaner and the admins do to a conversation is      *)
(* summarised by Evolves, under which both are stable.                     *)
(***************************************************************************)
EXTENDS ConversationReuse, SequenceTheorems, TLAPS

Content == {"prefix", "similar"}
Sending == {"sent", "put", "bound", "recorded"}

Holds(k, msgs, n) == \A j \in 1..n : msgs[j] \in k.said

Sound(k) ==
    /\ k.state = "unborn" <=> k.ips = {}
    /\ k.intact => k.state = "live"

BindingOK(b, k) ==
    b.on => /\ k.state # "unborn"
            /\ ~k.shared => k.ips \subseteq {b.ip}
            /\ k.intact => Holds(k, b.hist, Len(b.hist))

(* A request and the conversation it names.                                *)
NamedOK(q, k) ==
    /\ k.state # "unborn"
    /\ q.stage = "resolved" =>
        q.from # "new" /\ (q.aligned /\ k.intact => Holds(k, q.in.msgs, q.start))
    /\ q.from \in Content => k.shared \/ k.ips \subseteq {q.in.ip}
    /\ q.stage \in Sending =>
        /\ ~k.shared => k.ips \subseteq {q.in.ip}
        /\ k.intact => Holds(k, q.in.msgs, Len(q.in.msgs))

RequestOK(q, cl) ==
    /\ q.stage \in Sending => q.conv # Null
    /\ q.stage \notin Sending \cup {"resolved"} => q.from = "new"
    /\ q.stage = "resolved" /\ q.conv = Null => q.start = 0 /\ q.from = "new"
    /\ q.stage \in Sending \cup {"resolved"} /\ q.conv # Null => NamedOK(q, cl[q.conv])

IInv ==
    /\ TypeOK
    /\ \A c \in Convs : Sound(cloud[c]) /\ BindingOK(bindings[c], cloud[c])
    /\ \A u \in Users : users[u].conv # Null => cloud[users[u].conv].state # "unborn"
    /\ \A r \in Requests : RequestOK(req[r], cloud)
    /\ \A c \in cleaner.todo : cloud[c].state # "unborn"

(* What may happen to a conversation that others name.                     *)
Evolves(k, new) ==
    /\ new.state # "unborn"
    /\ ~new.shared => ~k.shared /\ new.ips = k.ips
    /\ new.intact => k.intact /\ k.said \subseteq new.said

-----------------------------------------------------------------------------
(* The stores *)

(* Eviction only takes bindings away.                                      *)
LEMMA EvictedFacts ==
    ASSUME TypeOK, NEW b \in Evicted
    PROVE  /\ b \in [Convs -> Binding]
           /\ \A c \in Convs : b[c].on => b[c] = bindings[c]
<1>1. PICK K \in Survivors : b = [c \in Convs |-> IF c \in K THEN bindings[c] ELSE Unbound]
  BY DEF Evicted
<1>2. Unbound \in Binding /\ ~Unbound.on
  BY DEF Unbound, Binding
<1> QED
  BY <1>1, <1>2 DEF TypeOK

(* Refreshing a binding changes its time stamp only.                       *)
LEMMA TouchedFacts ==
    ASSUME NEW b \in [Convs -> Binding], NEW c \in Convs \cup {Null}, now \in Nat
    PROVE  /\ Touched(b, c) \in [Convs -> Binding]
           /\ \A d \in Convs : /\ Touched(b, c)[d].on = b[d].on
                                /\ Touched(b, c)[d].ip = b[d].ip
                                /\ Touched(b, c)[d].hist = b[d].hist
BY DEF Touched, Binding

(* What evicting and refreshing leaves is as sound as what was there.      *)
LEMMA BindingsKept ==
    ASSUME IInv, NEW b \in Evicted, NEW c \in Convs \cup {Null}
    PROVE  /\ Touched(b, c) \in [Convs -> Binding]
           /\ \A d \in Convs : BindingOK(Touched(b, c)[d], cloud[d])
<1>1. b \in [Convs -> Binding] /\ \A d \in Convs : b[d].on => b[d] = bindings[d]
  BY EvictedFacts DEF IInv
<1>2. now \in Nat
  BY DEF IInv, TypeOK
<1>3. \A d \in Convs : BindingOK(bindings[d], cloud[d])
  BY DEF IInv
<1> DEFINE t == Touched(b, c)
<1>4. t \in [Convs -> Binding]
  BY <1>1, <1>2, TouchedFacts
<1>5. ASSUME NEW d \in Convs PROVE BindingOK(t[d], cloud[d])
  <2>1. t[d].on = b[d].on /\ t[d].ip = b[d].ip /\ t[d].hist = b[d].hist
    BY <1>1, <1>2, TouchedFacts
  <2> HIDE DEF t
  <2>2. CASE ~b[d].on
    BY <2>1, <2>2 DEF BindingOK
  <2>3. CASE b[d].on
    BY <1>1, <1>3, <2>1, <2>3 DEF BindingOK
  <2> QED
    BY <2>2, <2>3
<1> QED
  BY <1>4, <1>5

LEMMA LiveUsersFacts ==
    ASSUME TypeOK
    PROVE  /\ LiveUsers \in [Users -> UserSession]
           /\ \A u \in Users : LiveUsers[u].conv # Null => LiveUsers[u].conv = users[u].conv
BY DEF TypeOK, LiveUsers, NoSession, UserSession

(* What Resolve answers: a hit names a binding, a hit by content one of    *)
(* the same client, and an aligned hit skips what the binding recorded.    *)
LEMMA ResolveFacts ==
    ASSUME NEW b \in [Convs -> Binding], NEW i \in Inputs, NEW o \in Resolve(b, i)
    PROVE  /\ o \in Outcome
           /\ o.conv = Null => o.from = "new" /\ o.start = 0
           /\ o.conv # Null =>
                /\ o.conv \in Convs /\ o.from # "new" /\ b[o.conv].on
                /\ o.from \in Content => b[o.conv].ip = i.ip
                /\ o.aligned /\ o.start # 0 =>
                     /\ o.start = Len(b[o.conv].hist)
                     /\ \A j \in 1..o.start : b[o.conv].hist[j] = i.msgs[j]
<1>0. i \in Input /\ Null \notin Convs
  BY InputsAssumption, NullAssumption
<1>a. i.msgs \in Seq(Turns) /\ Len(i.msgs) \in Nat
  BY <1>0, LenProperties DEF Input
<1>b. \A c \in Convs : Len(b[c].hist) \in Nat
  BY LenProperties DEF Binding
<1>1. CASE Explicit(b, i)
  <2> DEFINE h == b[i.header].hist
             n == Increment(h, i.msgs)
  <2>1. i.header \in Convs /\ b[i.header].on
    BY <1>1 DEF Explicit
  <2>2. o = Hit(i.header, "explicit", n, n = 0 \/ Continues(h, i.msgs))
    BY <1>1 DEF Resolve
  <2>3. n \in Nat /\ (n # 0 => n = Len(h))
    BY <1>a, <1>b, <2>1 DEF Increment
  <2>4. (n = 0 \/ Continues(h, i.msgs)) \in BOOLEAN
    BY DEF Continues
  <2>5. o.conv = i.header /\ o.from = "explicit" /\ o.start = n
        /\ o.aligned = (n = 0 \/ Continues(h, i.msgs))
    BY <2>2 DEF Hit
  <2>6. o \in Outcome
    BY <2>1, <2>2, <2>3, <2>4 DEF Hit, Outcome, Routes
  <2>7. ASSUME o.aligned, o.start # 0
        PROVE  /\ o.start = Len(h)
               /\ \A j \in 1..o.start : h[j] = i.msgs[j]
    <3> HIDE DEF n, h
    <3> QED
      BY <2>3, <2>5, <2>7 DEF Continues
  <2> QED
    BY <1>0, <2>1, <2>5, <2>6, <2>7 DEF Content
<1>2. CASE ~Explicit(b, i) /\ Prefixes(b, i) # {}
  <2>1. PICK c \in Best(b, i) : o = Hit(c, "prefix", Len(b[c].hist), TRUE)
    BY <1>2 DEF Resolve
  <2>2. c \in Convs /\ b[c].on /\ b[c].ip = i.ip /\ Continues(b[c].hist, i.msgs)
    BY DEF Best, Prefixes, Matchable
  <2> DEFINE h == b[c].hist
  <2>3. o.conv = c /\ o.from = "prefix" /\ o.start = Len(h) /\ o.aligned
    BY <2>1 DEF Hit
  <2>4. o \in Outcome
    BY <1>b, <2>1, <2>2 DEF Hit, Outcome, Routes
  <2>5. Continues(h, i.msgs)
    BY <2>2
  <2>6. \A j \in 1..o.start : h[j] = i.msgs[j]
    <3> HIDE DEF h
    <3> QED
      BY <2>3, <2>5 DEF Continues
  <2>7. /\ o.conv \in Convs /\ o.conv # Null /\ o.from # "new"
        /\ b[o.conv].on /\ b[o.conv].ip = i.ip
    BY <1>0, <2>2, <2>3
  <2>8. o.start = Len(b[o.conv].hist) /\ \A j \in 1..o.start : b[o.conv].hist[j] = i.msgs[j]
    BY <2>3, <2>6
  <2> QED
    BY <2>4, <2>7, <2>8
<1>3. CASE ~Explicit(b, i) /\ Prefixes(b, i) = {}
  <2>1. \/ o = Hit(Null, "new", 0, TRUE)
        \/ \E c \in Convs : Matchable(b[c], i.ip) /\ o = Hit(c, "similar", 0, TRUE)
    BY <1>3 DEF Resolve
  <2>2. CASE o = Hit(Null, "new", 0, TRUE)
    <3>1. o.conv = Null /\ o.from = "new" /\ o.start = 0 /\ o \in Outcome
      BY <2>2 DEF Hit, Outcome, Routes
    <3> QED
      BY <3>1
  <2>3. ASSUME NEW c \in Convs, Matchable(b[c], i.ip), o = Hit(c, "similar", 0, TRUE)
        PROVE  /\ o \in Outcome /\ o.conv \in Convs /\ o.conv # Null /\ o.from = "similar"
               /\ o.start = 0 /\ b[o.conv].on /\ b[o.conv].ip = i.ip
    <3>1. o.conv = c /\ o.from = "similar" /\ o.start = 0 /\ o \in Outcome
      BY <2>3 DEF Hit, Outcome, Routes
    <3> QED
      BY <1>0, <2>3, <3>1 DEF Matchable
  <2> QED
    BY <2>1, <2>2, <2>3
<1> QED
  BY <1>1, <1>2, <1>3

-----------------------------------------------------------------------------
(* The conversations *)

(* A prompt that is sent makes a conversation evolve, if a match by        *)
(* content has found it among the sender's own.                            *)
LEMMA ReceivedFacts ==
    ASSUME NEW k \in Conversation, NEW q \in Request, Sound(k), now \in Nat,
           k.state = "unborn" \/ q.from # "new",
           q.from \in Content => k.shared \/ k.ips \subseteq {q.in.ip}
    PROVE  LET new == Received(k, q)
           IN  /\ new \in Conversation
               /\ Sound(new)
               /\ new.state = "live" /\ q.in.ip \in new.ips
               /\ k.state # "unborn" => Evolves(k, new)
<1> DEFINE new == Received(k, q)
<1>0. q.in \in Input
  BY InputsAssumption DEF Request
<1>1. new.state = "live" /\ new.ips = k.ips \cup {q.in.ip}
      /\ new.shared = (k.shared \/ (q.from \in {"user", "explicit"} /\ ~ k.ips \subseteq {q.in.ip}))
      /\ new.intact = (IF k.state = "unborn" THEN q.start = 0 ELSE k.intact /\ q.aligned)
      /\ new.said = Prompt(q) \cup (IF k.state = "live" THEN k.said ELSE {})
  BY DEF Received
<1>2. Prompt(q) \subseteq Turns
  <2>1. q.in.msgs \in Seq(Turns) /\ q.start \in Nat
    BY <1>0 DEF Input, Request
  <2>2. \A j \in q.start + 1..Len(q.in.msgs) : q.in.msgs[j] \in Turns
    BY <2>1, ElementOfSeq, LenProperties
  <2> QED
    BY <2>2 DEF Prompt
<1>3. new \in Conversation
  BY <1>0, <1>2 DEF Conversation, Received, Input, Request
<1>4. Sound(new)
  BY <1>1 DEF Sound
<1>5. ASSUME k.state # "unborn" PROVE Evolves(k, new)
  <2>1. q.from \in {"user", "explicit", "prefix", "similar"}
    BY <1>5 DEF Request, Routes
  <2>2. ASSUME ~new.shared PROVE ~k.shared /\ new.ips = k.ips
    <3>1. ~k.shared /\ k.ips \subseteq {q.in.ip} /\ k.ips # {}
      BY <1>1, <1>5, <2>1, <2>2 DEF Content, Sound, Conversation
    <3> QED
      BY <1>1, <3>1
  <2>3. ASSUME new.intact PROVE k.intact /\ k.said \subseteq new.said
    BY <1>1, <1>5, <2>3 DEF Sound
  <2> QED
    BY <1>1, <2>2, <2>3 DEF Evolves
<1> QED
  BY <1>1, <1>3, <1>4, <1>5

(* Deletion is an evolution too.                                           *)
LEMMA DeletedFacts ==
    ASSUME TypeOK, NEW c \in Convs, cloud[c].state # "unborn", Sound(cloud[c]),
           NEW new, new = [cloud[c] EXCEPT !.state = "deleted", !.intact = FALSE]
    PROVE  new \in Conversation /\ Sound(new) /\ Evolves(cloud[c], new)
BY DEF TypeOK, Conversation, Sound, Evolves

(* Evolution leaves intact what is known of bindings and requests.         *)
LEMMA BindingEvolves ==
    ASSUME NEW b, NEW k, NEW new, BindingOK(b, k), k.state # "unborn" => Evolves(k, new)
    PROVE  BindingOK(b, new)
BY DEF BindingOK, Evolves, Holds

LEMMA NamedEvolves ==
    ASSUME NEW q, NEW k, NEW new, NamedOK(q, k), Evolves(k, new)
    PROVE  NamedOK(q, new)
BY DEF NamedOK, Evolves, Holds

(* One conversation is opened or evolves: the others, the bindings, the    *)
(* user sessions and the requests see nothing that contradicts them.       *)
LEMMA CloudChanges ==
    ASSUME IInv, NEW c \in Convs, NEW new \in Conversation, Sound(new),
           cloud' = [cloud EXCEPT ![c] = new],
           cloud[c].state # "unborn" => Evolves(cloud[c], new)
    PROVE  /\ cloud' \in [Convs -> Conversation]
           /\ \A d \in Convs : Sound(cloud'[d]) /\ BindingOK(bindings[d], cloud'[d])
           /\ \A d \in Convs : cloud[d].state # "unborn" => Evolves(cloud[d], cloud'[d])
           /\ \A u \in Users :
                users[u].conv # Null => cloud'[users[u].conv].state # "unborn"
           /\ \A r \in Requests : RequestOK(req[r], cloud')
           /\ \A d \in cleaner.todo : cloud'[d].state # "unborn"
<1>1. cloud' \in [Convs -> Conversation]
  BY DEF IInv, TypeOK
<1>2. \A d \in Convs : cloud'[d] = IF d = c THEN new ELSE cloud[d]
  BY DEF IInv, TypeOK
<1>3. \A d \in Convs : cloud[d].state # "unborn" => Evolves(cloud[d], cloud'[d])
  BY <1>2 DEF Evolves
<1>4. \A d \in Convs : Sound(cloud'[d]) /\ BindingOK(bindings[d], cloud'[d])
  BY <1>2, <1>3, BindingEvolves DEF IInv
<1>5. ASSUME NEW u \in Users, users[u].conv # Null
      PROVE  cloud'[users[u].conv].state # "unborn"
  <2>1. users[u].conv \in Convs
    BY <1>5 DEF IInv, TypeOK, UserSession
  <2> QED
    BY <1>3, <1>5, <2>1 DEF IInv, Evolves
<1>6. ASSUME NEW r \in Requests PROVE RequestOK(req[r], cloud')
  <2>1. RequestOK(req[r], cloud) /\ req[r].conv \in Convs \cup {Null}
    BY DEF IInv, TypeOK, Request
  <2>2. ASSUME req[r].conv # Null, NamedOK(req[r], cloud[req[r].conv])
        PROVE  NamedOK(req[r], cloud'[req[r].conv])
    BY <1>3, <2>1, <2>2, NamedEvolves DEF NamedOK
  <2> QED
    BY <2>1, <2>2 DEF RequestOK
<1>7. \A d \in cleaner.todo : cloud'[d].state # "unborn"
  BY <1>3 DEF IInv, TypeOK, Cleaner, Evolves
<1> QED
  BY <1>1, <1>3, <1>4, <1>5, <1>6, <1>7

-----------------------------------------------------------------------------
(* The steps of a request *)

(* An action gives one request a new state.                                *)
LEMMA OneRequestChanges ==
    ASSUME IInv, NEW r \in Requests, NEW q \in Request, req' = [req EXCEPT ![r] = q],
           RequestOK(q, cloud'), \A s \in Requests : RequestOK(req[s], cloud')
    PROVE  req' \in [Requests -> Request] /\ \A s \in Requests : RequestOK(req'[s], cloud')
<1>1. req \in [Requests -> Request]
  BY DEF IInv, TypeOK
<1>2. \A s \in Requests : req'[s] = IF s = r THEN q ELSE req[s]
  BY <1>1
<1> QED
  BY <1>1, <1>2

LEMMA ResolvedFacts ==
    ASSUME NEW i \in Inputs, NEW o \in Outcome
    PROVE  Resolved(i, o) \in Request
BY DEF Resolved, Outcome, Request, Stages

LEMMA ByUserKeeps ==
    ASSUME IInv, NEW r \in Requests, NEW i \in Inputs, ByUser(r, i)
    PROVE  IInv'
<1> DEFINE c == LiveUsers[i.user].conv
           o == Hit(c, "user", 0, TRUE)
           q == Resolved(i, o)
<1>1. i.user \in Users
  BY InputsAssumption DEF ByUser, Input
<1>2. /\ LiveUsers \in [Users -> UserSession]
      /\ \A u \in Users : LiveUsers[u].conv # Null => LiveUsers[u].conv = users[u].conv
  BY LiveUsersFacts DEF IInv
<1>3. c # Null /\ c = users[i.user].conv /\ c \in Convs /\ cloud[c].state # "unborn"
  BY <1>1, <1>2 DEF ByUser, IInv, UserSession
<1>4. o \in Outcome
  BY <1>3 DEF Hit, Outcome, Routes
<1>5. q \in Request
  BY <1>4, ResolvedFacts
<1>6. RequestOK(q, cloud)
  <2>1. q.stage = "resolved" /\ q.conv = c /\ q.from = "user" /\ q.start = 0
    BY DEF Resolved, Hit
  <2> HIDE DEF q, c
  <2> QED
    BY <1>3, <2>1 DEF RequestOK, NamedOK, Sending, Content, Holds
<1>7. req' = [req EXCEPT ![r] = q] /\ cloud' = cloud
  BY DEF ByUser
<1> HIDE DEF q
<1>8. req' \in [Requests -> Request] /\ \A s \in Requests : RequestOK(req'[s], cloud')
  BY <1>5, <1>6, <1>7, OneRequestChanges DEF IInv
<1>9. /\ users' \in [Users -> UserSession]
      /\ \A u \in Users : users'[u].conv # Null => users'[u].conv = users[u].conv
  <2>1. users' = [LiveUsers EXCEPT ![i.user].at = now] /\ now \in Nat
    BY DEF ByUser, IInv, TypeOK
  <2> QED
    BY <1>1, <1>2, <2>1 DEF UserSession
<1> QED
  BY <1>7, <1>8, <1>9 DEF IInv, TypeOK, ByUser

LEMMA ByContentKeeps ==
    ASSUME IInv, NEW r \in Requests, NEW i \in Inputs, ByContent(r, i)
    PROVE  IInv'
<1>1. PICK b \in Evicted : \E o \in Resolve(b, i) :
        /\ bindings' = Touched(b, o.conv)
        /\ req' = [req EXCEPT ![r] = Resolved(i, o)]
  BY DEF ByContent
<1>2. PICK o \in Resolve(b, i) :
        /\ bindings' = Touched(b, o.conv)
        /\ req' = [req EXCEPT ![r] = Resolved(i, o)]
  BY <1>1
<1>3. b \in [Convs -> Binding] /\ \A c \in Convs : b[c].on => b[c] = bindings[c]
  BY EvictedFacts DEF IInv
<1>4. /\ o \in Outcome
      /\ o.conv = Null => o.from = "new" /\ o.start = 0
      /\ o.conv # Null =>
           /\ o.conv \in Convs /\ o.from # "new" /\ b[o.conv].on
           /\ o.from \in Content => b[o.conv].ip = i.ip
           /\ o.aligned /\ o.start # 0 =>
                /\ o.start = Len(b[o.conv].hist)
                /\ \A j \in 1..o.start : b[o.conv].hist[j] = i.msgs[j]
  BY <1>3, ResolveFacts
<1> DEFINE q == Resolved(i, o)
<1>5. q \in Request
  BY <1>4, ResolvedFacts
<1>6. /\ q.stage = "resolved" /\ q.in = i /\ q.conv = o.conv /\ q.from = o.from
      /\ q.start = o.start /\ q.aligned = o.aligned
  BY DEF Resolved
<1> HIDE DEF q
<1>7. ASSUME o.conv # Null PROVE NamedOK(q, cloud[o.conv])
  <2>1. b[o.conv].on /\ b[o.conv] = bindings[o.conv] /\ BindingOK(bindings[o.conv], cloud[o.conv])
    BY <1>3, <1>4, <1>7 DEF IInv
  <2>2. /\ cloud[o.conv].state # "unborn"
        /\ ~cloud[o.conv].shared => cloud[o.conv].ips \subseteq {b[o.conv].ip}
        /\ cloud[o.conv].intact => Holds(cloud[o.conv], b[o.conv].hist, Len(b[o.conv].hist))
    BY <2>1 DEF BindingOK
  <2>3. ASSUME q.aligned, cloud[o.conv].intact PROVE Holds(cloud[o.conv], q.in.msgs, q.start)
    <3>1. CASE o.start = 0
      BY <1>6, <3>1 DEF Holds
    <3>2. CASE o.start # 0
      BY <1>4, <1>6, <1>7, <2>2, <2>3, <3>2 DEF Holds
    <3> QED
      BY <3>1, <3>2
  <2> QED
    BY <1>4, <1>6, <1>7, <2>2, <2>3 DEF NamedOK, Sending
<1>8. RequestOK(q, cloud)
  BY <1>4, <1>6, <1>7 DEF RequestOK, Sending
<1>9. cloud' = cloud /\ req' = [req EXCEPT ![r] = q]
  BY <1>2 DEF ByContent, q
<1>10. req' \in [Requests -> Request] /\ \A s \in Requests : RequestOK(req'[s], cloud')
  BY <1>5, <1>8, <1>9, OneRequestChanges DEF IInv
<1>11. /\ bindings' \in [Convs -> Binding]
       /\ \A d \in Convs : BindingOK(bindings'[d], cloud[d])
  BY <1>2, <1>4, BindingsKept
<1>12. /\ users' \in [Users -> UserSession]
       /\ \A u \in Users : users'[u].conv # Null => users'[u].conv = users[u].conv
  BY LiveUsersFacts DEF ByContent, IInv, TypeOK
<1> QED
  BY <1>9, <1>10, <1>11, <1>12 DEF IInv, TypeOK, ByContent

(* What is sent into a conversation, fresh or the one the request was      *)
(* given, makes it hold the whole request if it stays intact.              *)
LEMMA SentHolds ==
    ASSUME IInv, NEW r \in Requests, NEW c \in Convs,
           \/ cloud[c].state = "unborn"
           \/ req[r].stage = "resolved" /\ req[r].conv = c,
           Received(cloud[c], req[r]).intact
    PROVE  Holds(Received(cloud[c], req[r]), req[r].in.msgs, Len(req[r].in.msgs))
<1> DEFINE k == cloud[c]
           q == req[r]
           new == Received(k, q)
<1>1. q \in Request /\ RequestOK(q, cloud) /\ Sound(k)
  BY DEF IInv, TypeOK
<1>2. q.start \in Nat /\ Len(q.in.msgs) \in Nat
  <2>1. q.in \in Input
    BY <1>1, InputsAssumption DEF Request
  <2> QED
    BY <1>1, <2>1, LenProperties DEF Request, Input
<1>3. \A j \in q.start + 1..Len(q.in.msgs) : q.in.msgs[j] \in new.said
  BY DEF Received, Prompt
<1>4. \A j \in 1..Len(q.in.msgs) : j <= q.start => q.in.msgs[j] \in new.said
  <2>1. CASE k.state = "unborn"
    <3>1. q.start = 0
      BY <2>1 DEF Received
    <3> HIDE DEF new, q, k
    <3> QED
      BY <1>2, <3>1
  <2>2. CASE k.state # "unborn"
    <3>1. q.aligned /\ k.intact /\ k.state = "live"
      BY <1>1, <2>2 DEF Received, Sound
    <3>2. NamedOK(q, k)
      BY <1>1, <2>2, NullAssumption DEF RequestOK
    <3>3. Holds(k, q.in.msgs, q.start)
      BY <2>2, <3>1, <3>2 DEF NamedOK
    <3>4. k.said \subseteq new.said
      BY <3>1 DEF Received
    <3> QED
      BY <1>2, <3>3, <3>4 DEF Holds
  <2> QED
    BY <2>1, <2>2
<1> HIDE DEF new, q, k
<1>5. \A j \in 1..Len(q.in.msgs) : q.in.msgs[j] \in new.said
  BY <1>2, <1>3, <1>4
<1> QED
  BY <1>5 DEF Holds, new, q, k

LEMMA SendKeeps ==
    ASSUME IInv, NEW r \in Requests, Send(r)
    PROVE  IInv'
<1> DEFINE q == req[r]
<1>1. PICK c \in IF q.conv = Null THEN Fresh ELSE {q.conv} :
        /\ cloud' = [cloud EXCEPT ![c] = Received(@, q)]
        /\ req' = [req EXCEPT ![r].stage = "sent", ![r].conv = c]
  BY DEF Send
<1>2. q \in Request /\ RequestOK(q, cloud) /\ q.stage = "resolved" /\ q.conv \in Convs \cup {Null}
  BY DEF IInv, TypeOK, Send, Request
<1>3. c \in Convs /\ (q.conv = Null => cloud[c].state = "unborn") /\ (q.conv # Null => c = q.conv)
  BY <1>1, <1>2 DEF Fresh
<1>4. q.conv = Null => q.from = "new" /\ q.from \notin Content
  BY <1>2 DEF RequestOK, Content
<1>5. q.conv # Null => NamedOK(q, cloud[c])
  BY <1>2, <1>3 DEF RequestOK
<1> DEFINE k == cloud[c]
           new == Received(k, q)
           q2 == [q EXCEPT !.stage = "sent", !.conv = c]
<1>6. /\ k \in Conversation /\ Sound(k) /\ now \in Nat
      /\ k.state = "unborn" \/ q.from # "new"
      /\ q.from \in Content => k.shared \/ k.ips \subseteq {q.in.ip}
  BY <1>2, <1>3, <1>4, <1>5 DEF IInv, TypeOK, NamedOK
<1>7. /\ new \in Conversation /\ Sound(new) /\ new.state = "live" /\ q.in.ip \in new.ips
      /\ k.state # "unborn" => Evolves(k, new)
  BY <1>2, <1>6, ReceivedFacts
<1>8. cloud' = [cloud EXCEPT ![c] = new] /\ cloud'[c] = new
  BY <1>1, <1>3 DEF IInv, TypeOK
<1>9. /\ cloud' \in [Convs -> Conversation]
      /\ \A d \in Convs : Sound(cloud'[d]) /\ BindingOK(bindings[d], cloud'[d])
      /\ \A u \in Users : users[u].conv # Null => cloud'[users[u].conv].state # "unborn"
      /\ \A s \in Requests : RequestOK(req[s], cloud')
      /\ \A d \in cleaner.todo : cloud'[d].state # "unborn"
  <2> HIDE DEF new, q, k
  <2> QED
    BY <1>3, <1>7, <1>8, CloudChanges DEF k
<1>10. new.intact => Holds(new, q.in.msgs, Len(q.in.msgs))
  BY <1>2, <1>3, SentHolds
<1>11. ~new.shared => new.ips \subseteq {q.in.ip}
  BY <1>2, <1>3, <1>4, <1>5, <1>6 DEF Received, Request, Routes, Content, NamedOK, Sound
<1>12. q2 \in Request /\ req' = [req EXCEPT ![r] = q2]
  BY <1>1, <1>2, <1>3 DEF Request, Stages, IInv, TypeOK
<1>13. /\ q2.stage = "sent" /\ q2.conv = c /\ q2.in = q.in /\ q2.from = q.from
  BY <1>2 DEF Request
<1>14. RequestOK(q2, cloud')
  <2> HIDE DEF new, q, k, q2
  <2>1. q2.from \in Content => new.shared \/ new.ips \subseteq {q2.in.ip}
    BY <1>11, <1>13
  <2>2. NamedOK(q2, new)
    BY <1>7, <1>10, <1>11, <1>13, <2>1 DEF NamedOK
  <2> QED
    BY <1>3, <1>8, <1>13, <2>2, NullAssumption DEF RequestOK, Sending
<1>15. req' \in [Requests -> Request] /\ \A s \in Requests : RequestOK(req'[s], cloud')
  <2> HIDE DEF q2
  <2> QED
    BY <1>9, <1>12, <1>14, OneRequestChanges
<1> QED
  BY <1>9, <1>15 DEF IInv, TypeOK, Send

LEMMA RecoverKeeps ==
    ASSUME IInv, NEW r \in Requests, Recover(r)
    PROVE  IInv'
<1> DEFINE q == req[r]
<1>1. PICK c \in Fresh :
        /\ cloud' = [cloud EXCEPT ![c] = Received(@, q)]
        /\ req' = [req EXCEPT ![r].conv = c, ![r].from = "new", ![r].tries = @ + 1]
  BY DEF Recover
<1>2. q \in Request /\ RequestOK(q, cloud) /\ q.stage = "sent"
  BY DEF IInv, TypeOK, Recover
<1> DEFINE k == cloud[c]
           new == Received(k, q)
           q2 == [q EXCEPT !.conv = c, !.from = "new", !.tries = @ + 1]
<1>3. c \in Convs /\ k.state = "unborn"
  BY DEF Fresh
<1>4. k \in Conversation /\ Sound(k) /\ now \in Nat
  BY <1>3 DEF IInv, TypeOK
<1>5. /\ new \in Conversation /\ Sound(new) /\ new.state = "live" /\ q.in.ip \in new.ips
      /\ k.state # "unborn" => Evolves(k, new)
  BY <1>2, <1>3, <1>4, ReceivedFacts DEF Sound
<1>6. cloud' = [cloud EXCEPT ![c] = new] /\ cloud'[c] = new
  BY <1>1, <1>3 DEF IInv, TypeOK
<1>7. /\ cloud' \in [Convs -> Conversation]
      /\ \A d \in Convs : Sound(cloud'[d]) /\ BindingOK(bindings[d], cloud'[d])
      /\ \A u \in Users : users[u].conv # Null => cloud'[users[u].conv].state # "unborn"
      /\ \A s \in Requests : RequestOK(req[s], cloud')
      /\ \A d \in cleaner.todo : cloud'[d].state # "unborn"
  <2> HIDE DEF new, q, k
  <2> QED
    BY <1>3, <1>5, <1>6, CloudChanges DEF k
<1>8. new.intact => Holds(new, q.in.msgs, Len(q.in.msgs))
  BY <1>3, SentHolds
<1>9. new.ips \subseteq {q.in.ip}
  BY <1>3, <1>4 DEF Received, Sound
<1>10. q2 \in Request /\ req' = [req EXCEPT ![r] = q2]
  BY <1>1, <1>2, <1>3 DEF Request, Routes, IInv, TypeOK
<1>11. q2.stage = "sent" /\ q2.conv = c /\ q2.in = q.in /\ q2.from = "new"
  BY <1>2 DEF Request
<1>12. RequestOK(q2, cloud')
  <2> HIDE DEF new, q, k, q2
  <2>1. NamedOK(q2, new)
    BY <1>5, <1>8, <1>9, <1>11 DEF NamedOK, Content
  <2> QED
    BY <1>3, <1>6, <1>11, <2>1, NullAssumption DEF RequestOK, Sending
<1>13. req' \in [Requests -> Request] /\ \A s \in Requests : RequestOK(req'[s], cloud')
  <2> HIDE DEF q2
  <2> QED
    BY <1>7, <1>10, <1>12, OneRequestChanges
<1> QED
  BY <1>7, <1>13 DEF IInv, TypeOK, Recover

(* A request moves on; nothing it relies on changes but its stage.         *)
LEMMA StageKeeps ==
    ASSUME IInv, NEW r \in Requests, NEW q \in Request,
           req' = [req EXCEPT ![r] = q], UNCHANGED cloud,
           \/ q.stage \in {"done", "failed"} /\ q.from = "new"
           \/ /\ q.stage \in Sending /\ req[r].stage \in Sending
              /\ q.conv = req[r].conv /\ q.in = req[r].in /\ q.from = req[r].from
    PROVE  req' \in [Requests -> Request] /\ \A s \in Requests : RequestOK(req'[s], cloud')
<1>1. RequestOK(req[r], cloud)
  BY DEF IInv
<1>2. RequestOK(q, cloud)
  BY <1>1 DEF RequestOK, NamedOK, Sending
<1> QED
  BY <1>2, OneRequestChanges DEF IInv

LEMMA EndedFacts ==
    ASSUME NEW q \in Request, NEW stage \in {"done", "failed"}
    PROVE  /\ Ended(q, stage) \in Request
           /\ Ended(q, stage).stage = stage /\ Ended(q, stage).from = "new"
BY DEF Ended, Request, Stages, Routes

LEMMA FailKeeps ==
    ASSUME IInv, NEW r \in Requests, Fail(r)
    PROVE  IInv'
<1>1. req[r] \in Request
  BY DEF IInv, TypeOK
<1>2. req' \in [Requests -> Request] /\ \A s \in Requests : RequestOK(req'[s], cloud')
  BY <1>1, EndedFacts, StageKeeps DEF Fail
<1> QED
  BY <1>2 DEF IInv, TypeOK, Fail

(* A request that has been sent names a conversation that exists.          *)
LEMMA SentIsNamed ==
    ASSUME IInv, NEW r \in Requests, req[r].stage \in Sending
    PROVE  /\ req[r] \in Request /\ req[r].conv \in Convs /\ req[r].conv # Null
           /\ NamedOK(req[r], cloud[req[r].conv])
BY NullAssumption DEF IInv, TypeOK, RequestOK, Request

LEMMA PutUserKeeps ==
    ASSUME IInv, NEW r \in Requests, PutUser(r)
    PROVE  IInv'
<1> DEFINE q == req[r]
           q2 == [q EXCEPT !.stage = "put"]
<1>1. q.stage = "sent" /\ q.stage \in Sending
  BY DEF PutUser, Sending
<1>2. q \in Request /\ q.conv \in Convs /\ cloud[q.conv].state # "unborn"
  BY <1>1, SentIsNamed DEF NamedOK
<1>3. q2 \in Request /\ req' = [req EXCEPT ![r] = q2] /\ q2.stage \in Sending
      /\ q2.conv = q.conv /\ q2.in = q.in /\ q2.from = q.from
  BY <1>2 DEF PutUser, Request, Stages, Sending, IInv, TypeOK
<1>4. req' \in [Requests -> Request] /\ \A s \in Requests : RequestOK(req'[s], cloud')
  <2> HIDE DEF q2
  <2> QED
    BY <1>1, <1>3, StageKeeps DEF PutUser
<1>5. /\ users' \in [Users -> UserSession]
      /\ \A u \in Users : users'[u].conv # Null => cloud[users'[u].conv].state # "unborn"
  <2>1. q.in.user \in Users \cup {Null} /\ now \in Nat
    BY <1>2, InputsAssumption DEF Request, Input, IInv, TypeOK
  <2>2. users \in [Users -> UserSession]
        /\ \A u \in Users : users[u].conv # Null => cloud[users[u].conv].state # "unborn"
    BY DEF IInv, TypeOK
  <2>3. CASE q.in.user = Null
    BY <2>2, <2>3 DEF PutUser
  <2>4. CASE q.in.user # Null
    <3>1. users' = [users EXCEPT ![q.in.user] = [conv |-> q.conv, at |-> now]]
      BY <2>4 DEF PutUser
    <3> QED
      BY <1>2, <2>1, <2>2, <2>4, <3>1 DEF UserSession
  <2> QED
    BY <2>3, <2>4
<1> QED
  BY <1>4, <1>5 DEF IInv, TypeOK, PutUser

LEMMA BindKeeps ==
    ASSUME IInv, NEW r \in Requests, Bind(r)
    PROVE  IInv'
<1> DEFINE q == req[r]
           q2 == [q EXCEPT !.stage = "bound"]
           new == [on |-> TRUE, ip |-> q.in.ip, hist |-> q.in.msgs, at |-> now]
<1>1. q.stage = "put" /\ q.stage \in Sending
  BY DEF Bind, Sending
<1>2. q \in Request /\ q.conv \in Convs /\ NamedOK(q, cloud[q.conv])
  BY <1>1, SentIsNamed
<1>3. PICK b \in Evicted : bindings' = [b EXCEPT ![q.conv] = new]
  BY DEF Bind
<1>4. b \in [Convs -> Binding] /\ \A c \in Convs : b[c].on => b[c] = bindings[c]
  BY EvictedFacts DEF IInv
<1>5. new \in Binding
  BY <1>2, InputsAssumption DEF Binding, Request, Input, IInv, TypeOK
<1>6. BindingOK(new, cloud[q.conv])
  BY <1>1, <1>2 DEF NamedOK, BindingOK
<1>7. /\ bindings' \in [Convs -> Binding]
      /\ \A d \in Convs : BindingOK(bindings'[d], cloud[d])
  <2> HIDE DEF new
  <2>1. \A d \in Convs : bindings'[d] = IF d = q.conv THEN new ELSE b[d]
    BY <1>3, <1>4
  <2>2. ASSUME NEW d \in Convs, b[d].on PROVE BindingOK(b[d], cloud[d])
    BY <1>4, <2>2 DEF IInv
  <2>3. ASSUME NEW d \in Convs, ~b[d].on PROVE BindingOK(b[d], cloud[d])
    BY <2>3 DEF BindingOK
  <2> QED
    BY <1>3, <1>4, <1>5, <1>6, <2>1, <2>2, <2>3
<1>8. q2 \in Request /\ req' = [req EXCEPT ![r] = q2] /\ q2.stage \in Sending
      /\ q2.conv = q.conv /\ q2.in = q.in /\ q2.from = q.from
  BY <1>2 DEF Bind, Request, Stages, Sending, IInv, TypeOK
<1>9. req' \in [Requests -> Request] /\ \A s \in Requests : RequestOK(req'[s], cloud')
  <2> HIDE DEF q2
  <2> QED
    BY <1>1, <1>8, StageKeeps DEF Bind
<1> QED
  BY <1>7, <1>9 DEF IInv, TypeOK, Bind

LEMMA RecordKeeps ==
    ASSUME IInv, NEW r \in Requests, Record(r)
    PROVE  IInv'
<1> DEFINE q == req[r]
           q2 == IF q.in.stream THEN Ended(q, "done") ELSE [q EXCEPT !.stage = "recorded"]
<1>1. q.stage = "bound" /\ q.stage \in Sending
  BY DEF Record, Sending
<1>2. q \in Request /\ q.conv \in Convs
  BY <1>1, SentIsNamed
<1>3. q2 \in Request /\ req' = [req EXCEPT ![r] = q2]
  BY <1>2, EndedFacts DEF Record, Request, Stages, IInv, TypeOK
<1>4. \/ q2.stage \in {"done", "failed"} /\ q2.from = "new"
      \/ q2.stage \in Sending /\ q2.conv = q.conv /\ q2.in = q.in /\ q2.from = q.from
  BY <1>2, EndedFacts DEF Request, Sending
<1>5. req' \in [Requests -> Request] /\ \A s \in Requests : RequestOK(req'[s], cloud')
  <2> HIDE DEF q2
  <2> QED
    BY <1>1, <1>3, <1>4, StageKeeps DEF Record
<1>6. managed' \in [Convs -> [on : BOOLEAN, at : Nat]]
  <2> DEFINE m == [managed EXCEPT ![q.conv] = [on |-> TRUE, at |-> now]]
             forgotten == {c \in Convs \ whitelist : now - m[c].at > ManagedAge}
  <2>1. m \in [Convs -> [on : BOOLEAN, at : Nat]]
    BY <1>2 DEF IInv, TypeOK
  <2>2. managed' = [c \in Convs |-> IF c \in forgotten
                                     THEN [on |-> FALSE, at |-> 0] ELSE m[c]]
    BY DEF Record
  <2> HIDE DEF m, forgotten
  <2> QED
    BY <2>1, <2>2
<1> QED
  BY <1>5, <1>6 DEF IInv, TypeOK, Record

LEMMA ReplyKeeps ==
    ASSUME IInv, NEW r \in Requests, Reply(r)
    PROVE  IInv'
<1>1. PICK b \in Evicted : \E o \in Resolve(b, req[r].in) : bindings' = Touched(b, o.conv)
  BY DEF Reply
<1>2. PICK o \in Resolve(b, req[r].in) : bindings' = Touched(b, o.conv)
  BY <1>1
<1>3. req[r] \in Request /\ req[r].in \in Inputs /\ b \in [Convs -> Binding]
  BY EvictedFacts DEF IInv, TypeOK, Request
<1>4. o.conv \in Convs \cup {Null}
  BY <1>3, ResolveFacts DEF Outcome
<1>5. /\ bindings' \in [Convs -> Binding]
      /\ \A d \in Convs : BindingOK(bindings'[d], cloud[d])
  BY <1>2, <1>4, BindingsKept
<1>6. req' \in [Requests -> Request] /\ \A s \in Requests : RequestOK(req'[s], cloud')
  BY <1>3, EndedFacts, StageKeeps DEF Reply
<1> QED
  BY <1>5, <1>6 DEF IInv, TypeOK, Reply

-----------------------------------------------------------------------------
(* The cleaner, the admin handlers and the clock *)

LEMMA DeletionKeeps ==
    ASSUME IInv, NEW c \in Convs, cloud[c].state # "unborn", cloud' = Deleted(c)
    PROVE  /\ cloud' \in [Convs -> Conversation]
           /\ \A d \in Convs : Sound(cloud'[d]) /\ BindingOK(bindings[d], cloud'[d])
           /\ \A u \in Users : users[u].conv # Null => cloud'[users[u].conv].state # "unborn"
           /\ \A r \in Requests : RequestOK(req[r], cloud')
           /\ \A d \in cleaner.todo : cloud'[d].state # "unborn"
<1> DEFINE new == [cloud[c] EXCEPT !.state = "deleted", !.intact = FALSE]
<1>1. new \in Conversation /\ Sound(new) /\ Evolves(cloud[c], new)
  BY DeletedFacts DEF IInv
<1>2. cloud' = [cloud EXCEPT ![c] = new]
  BY DEF Deleted, IInv, TypeOK
<1> HIDE DEF new
<1> QED
  BY <1>1, <1>2, CloudChanges

LEMMA DropBindingKeeps ==
    ASSUME IInv, NEW c \in Convs, DropBinding(c)
    PROVE  /\ bindings' \in [Convs -> Binding]
           /\ \A d \in Convs : BindingOK(bindings'[d], cloud[d])
<1>1. Unbound \in Binding /\ ~Unbound.on
  BY DEF Unbound, Binding
<1>2. bindings' = [bindings EXCEPT ![c] = Unbound] /\ bindings \in [Convs -> Binding]
  BY DEF DropBinding, IInv, TypeOK
<1>3. ASSUME NEW d \in Convs PROVE BindingOK(bindings'[d], cloud[d])
  BY <1>1, <1>2 DEF IInv, BindingOK
<1> QED
  BY <1>1, <1>2, <1>3

LEMMA CleanerKeeps ==
    ASSUME IInv, CleanerStep
    PROVE  IInv'
<1> USE NullAssumption
<1>1. cleaner \in Cleaner /\ now \in Nat
  BY DEF IInv, TypeOK
<1>2. CASE CleanerWake
  <2>1. Active \subseteq Convs
    BY DEF Active, Bound, IInv, TypeOK, UserSession
  <2>2. cleaner' \in Cleaner /\ cleaner'.todo = cleaner.todo
    BY <1>1, <1>2, <2>1 DEF CleanerWake, Cleaner
  <2> QED
    BY <1>2, <2>2 DEF CleanerWake, IInv, TypeOK
<1>3. CASE CleanerList
  <2>1. PICK E \in Excesses : cleaner' =
          [cleaner EXCEPT !.stage = "delete", !.todo = Stale \cup E, !.any = FALSE]
    BY <1>3 DEF CleanerList
  <2>2. Stale \cup E \subseteq Live
    BY DEF Excesses, Stale, Unprotected, Listed
  <2>3. \A c \in Live : c \in Convs /\ cloud[c].state # "unborn"
    BY DEF Live
  <2>4. cleaner' \in Cleaner /\ cleaner'.todo = Stale \cup E
    BY <1>1, <2>1, <2>2, <2>3 DEF Cleaner
  <2> QED
    BY <1>3, <2>2, <2>3, <2>4 DEF CleanerList, IInv, TypeOK
<1>4. Asleep \in Cleaner /\ Asleep.todo = {}
  BY DEF Asleep, Cleaner
<1>5. CASE CleanerListFails
  BY <1>4, <1>5 DEF CleanerListFails, IInv, TypeOK
<1>6. ASSUME NEW c \in Convs, CleanerDelete(c) PROVE IInv'
  <2>1. cleaner' \in Cleaner /\ cleaner'.todo \subseteq cleaner.todo
    BY <1>1, <1>6 DEF CleanerDelete, Cleaner
  <2>2. cloud[c].state # "unborn" /\ cloud' = Deleted(c)
    BY <1>6 DEF CleanerDelete, IInv
  <2> QED
    BY <1>6, <2>1, <2>2, DeletionKeeps DEF CleanerDelete, IInv, TypeOK
<1>7. ASSUME NEW c \in Convs, CleanerDeleteFails(c) PROVE IInv'
  <2>1. cleaner' \in Cleaner /\ cleaner'.todo \subseteq cleaner.todo
    BY <1>1, <1>7 DEF CleanerDeleteFails, Cleaner
  <2> QED
    BY <1>7, <2>1 DEF CleanerDeleteFails, IInv, TypeOK
<1>8. CASE CleanerDrop
  <2>1. cleaner.cur \in Convs
    BY <1>1, <1>8 DEF CleanerDrop, Cleaner
  <2>2. cleaner' \in Cleaner /\ cleaner'.todo = cleaner.todo
    BY <1>1, <1>8 DEF CleanerDrop, Cleaner
  <2>3. /\ bindings' \in [Convs -> Binding]
        /\ \A d \in Convs : BindingOK(bindings'[d], cloud[d])
    BY <1>8, <2>1, DropBindingKeeps DEF CleanerDrop, Drop
  <2> QED
    BY <1>8, <2>2, <2>3 DEF CleanerDrop, Drop, IInv, TypeOK
<1>9. CASE CleanerRound
  <2>1. cleaner' \in Cleaner /\ cleaner'.todo \subseteq cleaner.todo
    BY <1>1, <1>4, <1>9 DEF CleanerRound, Cleaner
  <2> QED
    BY <1>9, <2>1 DEF CleanerRound, IInv, TypeOK
<1> QED
  BY <1>2, <1>3, <1>5, <1>6, <1>7, <1>8, <1>9 DEF CleanerStep

LEMMA AdminKeeps ==
    ASSUME IInv, AdminStep
    PROVE  IInv'
<1>1. ASSUME NEW c \in Convs, AdminDelete(c) PROVE IInv'
  <2>1. cloud[c].state # "unborn" /\ cloud' = Deleted(c)
    BY <1>1 DEF AdminDelete, Live
  <2> QED
    BY <1>1, <2>1, DeletionKeeps DEF AdminDelete, IInv, TypeOK
<1>2. ASSUME NEW c \in Convs, AdminDrop(c) PROVE IInv'
  <2>1. /\ bindings' \in [Convs -> Binding]
        /\ \A d \in Convs : BindingOK(bindings'[d], cloud[d])
    BY <1>2, DropBindingKeeps DEF AdminDrop, Drop
  <2> QED
    BY <1>2, <2>1 DEF AdminDrop, Drop, IInv, TypeOK
<1>3. ASSUME NEW c \in Convs, AdminSweep(c) PROVE IInv'
  <2>1. cloud[c].state # "unborn" /\ cloud' = Deleted(c)
    BY <1>3 DEF AdminSweep, Live
  <2> QED
    BY <1>3, <2>1, DeletionKeeps DEF AdminSweep, IInv, TypeOK
<1>4. ASSUME NEW c \in Convs, AdminForget(c) PROVE IInv'
  BY <1>4, DropBindingKeeps DEF AdminForget, IInv, TypeOK
<1>5. ASSUME NEW c \in Convs, AdminWhitelist(c) PROVE IInv'
  BY <1>5 DEF AdminWhitelist, IInv, TypeOK
<1> QED
  BY <1>1, <1>2, <1>3, <1>4, <1>5 DEF AdminStep

-----------------------------------------------------------------------------
LEMMA IInvHolds == Spec => []IInv
<1>1. Init => IInv
  <2> SUFFICES ASSUME Init PROVE IInv
    OBVIOUS
  <2>1. TypeOK
    <3>1. (CHOOSE i \in Inputs : TRUE) \in Inputs
      BY InputsAssumption
    <3> QED
      BY <3>1 DEF Init, TypeOK, Conversation, Binding, Unbound, UserSession, NoSession,
                  Request, Stages, Routes, Cleaner, Asleep
  <2>2. \A c \in Convs : Sound(cloud[c]) /\ BindingOK(bindings[c], cloud[c])
    BY DEF Init, Sound, BindingOK, Unbound
  <2>3. \A u \in Users : users[u].conv = Null
    BY DEF Init, NoSession
  <2>4. \A r \in Requests : RequestOK(req[r], cloud)
    BY DEF Init, RequestOK, Sending
  <2>5. cleaner.todo = {}
    BY DEF Init, Asleep
  <2> QED
    BY <2>1, <2>2, <2>3, <2>4, <2>5 DEF IInv
<1>2. IInv /\ [Next]_vars => IInv'
  <2> SUFFICES ASSUME IInv, [Next]_vars PROVE IInv'
    OBVIOUS
  <2>1. ASSUME NEW r \in Requests, RequestStep(r) PROVE IInv'
    BY <2>1, ByUserKeeps, ByContentKeeps, SendKeeps, RecoverKeeps, FailKeeps,
       PutUserKeeps, BindKeeps, RecordKeeps, ReplyKeeps DEF RequestStep
  <2>2. CASE Tick
    BY <2>2 DEF Tick, IInv, TypeOK
  <2>3. CASE UNCHANGED vars
    BY <2>3 DEF vars, IInv, TypeOK
  <2> QED
    BY <2>1, <2>2, <2>3, CleanerKeeps, AdminKeeps DEF Next
<1> QED
  BY <1>1, <1>2, PTL DEF Spec

(* Every variable keeps its type.                                          *)
THEOREM TypeCorrect == Spec => []TypeOK
<1>1. IInv => TypeOK
  BY DEF IInv
<1> QED
  BY <1>1, IInvHolds, PTL

(* A client is only ever matched, by content, to a conversation of its own *)
(* or one that a session id or user field has opened to others: Resolve,   *)
(* with everything Bind and the deletions do meanwhile.                    *)
THEOREM ContentStaysApart == Spec => []NoCrossTalk
<1>1. IInv => NoCrossTalk
  <2> SUFFICES ASSUME IInv, NEW r \in Requests, req[r].stage # "idle",
                      req[r].from \in Content
               PROVE  cloud[req[r].conv].shared \/ cloud[req[r].conv].ips \subseteq {req[r].in.ip}
    BY DEF NoCrossTalk, Content
  <2>1. RequestOK(req[r], cloud)
    BY DEF IInv
  <2>2. req[r].stage \in Sending \cup {"resolved"} /\ req[r].conv # Null
    BY <2>1 DEF RequestOK, Content
  <2> QED
    BY <2>1, <2>2 DEF RequestOK, NamedOK
<1> QED
  BY <1>1, IInvHolds, PTL

(* HistoryLen tells the truth about every conversation that is intact.     *)
THEOREM HistoryIsThere == Spec => []IntactHoldsHistory
<1>1. IInv => IntactHoldsHistory
  <2> SUFFICES ASSUME IInv, NEW r \in Requests, req[r].stage \in Sending,
                      cloud[req[r].conv].intact
               PROVE  Holds(cloud[req[r].conv], req[r].in.msgs, Len(req[r].in.msgs))
    BY DEF IntactHoldsHistory, Sending, Holds
  <2> QED
    BY SentIsNamed DEF NamedOK
<1> QED
  BY <1>1, IInvHolds, PTL
=============================================================================
