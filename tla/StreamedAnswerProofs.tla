------------------------ MODULE StreamedAnswerProofs ------------------------
(***************************************************************************)
(* The streamed answer, for every length of the answer, every number of    *)
(* calls and all thresholds: the client gets nothing twice and nothing out *)
(* of order, has all of it when the stream ends with "stop", and sees what *)
(* AnswerStream promises.                                                  *)
(***************************************************************************)
EXTENDS StreamedAnswer, SequenceTheorems, WellFoundedInduction, TLAPS

-----------------------------------------------------------------------------
(* Sequences.                                                              *)
LEMMA SeqFacts ==
    ASSUME NEW S, NEW s \in Seq(S)
    PROVE  /\ Len(s) \in Nat /\ DOMAIN s = 1..Len(s) /\ ToSet(s) \subseteq S
           /\ \A i \in 1..Len(s) : s[i] \in S /\ s[i] \in ToSet(s)
           /\ \A x \in ToSet(s) : \E i \in 1..Len(s) : x = s[i]
           /\ s # <<>> => Len(s) \in Nat \ {0}
BY DEF ToSet

LEMMA AppendFacts ==
    ASSUME NEW S, NEW s \in Seq(S), NEW e \in S
    PROVE  /\ Append(s, e) \in Seq(S) /\ Len(Append(s, e)) = Len(s) + 1
           /\ \A i \in 1..Len(s) : Append(s, e)[i] = s[i]
           /\ Append(s, e)[Len(s) + 1] = e
           /\ ToSet(Append(s, e)) = ToSet(s) \cup {e}
<1>1. /\ Append(s, e) \in Seq(S) /\ Len(Append(s, e)) = Len(s) + 1 /\ Len(s) \in Nat
      /\ \A i \in 1..Len(s) : Append(s, e)[i] = s[i]
      /\ Append(s, e)[Len(s) + 1] = e
  OBVIOUS
<1>2. DOMAIN s = 1..Len(s) /\ DOMAIN Append(s, e) = 1..Len(s) + 1
  BY <1>1
<1>3. \A i \in 1..Len(s) + 1 : i \in 1..Len(s) \/ i = Len(s) + 1
  BY <1>1
<1>4. ToSet(Append(s, e)) \subseteq ToSet(s) \cup {e}
  BY <1>1, <1>2, <1>3 DEF ToSet
<1>5. 1..Len(s) \subseteq 1..Len(s) + 1 /\ Len(s) + 1 \in 1..Len(s) + 1
  BY <1>1
<1>6. ToSet(s) \cup {e} \subseteq ToSet(Append(s, e))
  BY <1>1, <1>2, <1>5 DEF ToSet
<1> QED
  BY <1>1, <1>4, <1>6

LEMMA ConcatFacts ==
    ASSUME NEW S, NEW s \in Seq(S), NEW t \in Seq(S)
    PROVE  /\ s \o t \in Seq(S) /\ Len(s \o t) = Len(s) + Len(t)
           /\ \A i \in 1..Len(s) : (s \o t)[i] = s[i]
           /\ \A i \in 1..Len(t) : (s \o t)[Len(s) + i] = t[i]
           /\ ToSet(s \o t) = ToSet(s) \cup ToSet(t)
<1>1. /\ s \o t \in Seq(S) /\ Len(s \o t) = Len(s) + Len(t)
      /\ \A i \in 1..Len(s) + Len(t) : (s \o t)[i] = IF i <= Len(s) THEN s[i] ELSE t[i - Len(s)]
      /\ Len(s) \in Nat /\ Len(t) \in Nat
  BY ConcatProperties
<1>2. ASSUME NEW i \in 1..Len(s)
      PROVE  (s \o t)[i] = s[i] /\ i \in 1..Len(s) + Len(t)
  <2>1. i \in 1..Len(s) + Len(t) /\ i <= Len(s)
    BY <1>1
  <2> QED
    BY <1>1, <2>1
<1>3. ASSUME NEW i \in 1..Len(t)
      PROVE  (s \o t)[Len(s) + i] = t[i] /\ Len(s) + i \in 1..Len(s) + Len(t)
  <2>1. Len(s) + i \in 1..Len(s) + Len(t) /\ ~(Len(s) + i <= Len(s)) /\ (Len(s) + i) - Len(s) = i
    BY <1>1
  <2> QED
    BY <1>1, <2>1
<1>4. ASSUME NEW i \in 1..Len(s) + Len(t)
      PROVE  (s \o t)[i] \in ToSet(s) \cup ToSet(t)
  <2>1. CASE i <= Len(s)
    <3>1. i \in 1..Len(s)
      BY <1>1, <2>1
    <3> QED
      BY <1>1, <2>1, <3>1, SeqFacts
  <2>2. CASE ~(i <= Len(s))
    <3>1. i - Len(s) \in 1..Len(t)
      BY <1>1, <2>2
    <3> QED
      BY <1>1, <2>2, <3>1, SeqFacts
  <2> QED
    BY <2>1, <2>2
<1>5. DOMAIN (s \o t) = 1..Len(s) + Len(t) /\ DOMAIN s = 1..Len(s) /\ DOMAIN t = 1..Len(t)
  BY <1>1
<1>6. ToSet(s \o t) \subseteq ToSet(s) \cup ToSet(t)
  BY <1>4, <1>5 DEF ToSet
<1>7. ASSUME NEW x \in ToSet(s)
      PROVE  x \in ToSet(s \o t)
  <2>1. PICK i \in 1..Len(s) : x = s[i]
    BY SeqFacts
  <2> QED
    BY <1>2, <1>5, <2>1 DEF ToSet
<1>8. ASSUME NEW x \in ToSet(t)
      PROVE  x \in ToSet(s \o t)
  <2>1. PICK i \in 1..Len(t) : x = t[i]
    BY SeqFacts
  <2> QED
    BY <1>3, <1>5, <2>1 DEF ToSet
<1> QED
  BY <1>1, <1>2, <1>3, <1>6, <1>7, <1>8

(* A sequence cut in two.                                                  *)
LEMMA CutFacts ==
    ASSUME NEW S, NEW s \in Seq(S), NEW k \in 0..Len(s)
    PROVE  /\ SubSeq(s, 1, k) \in Seq(S) /\ Len(SubSeq(s, 1, k)) = k
           /\ \A i \in 1..k : SubSeq(s, 1, k)[i] = s[i]
           /\ Rest(s, k) \in Seq(S) /\ Len(Rest(s, k)) = Len(s) - k
           /\ \A i \in 1..Len(s) - k : Rest(s, k)[i] = s[k + i]
           /\ SubSeq(s, 1, k) \o Rest(s, k) = s
           /\ ToSet(s) = ToSet(SubSeq(s, 1, k)) \cup ToSet(Rest(s, k))
<1> DEFINE a == SubSeq(s, 1, k)
           b == Rest(s, k)
<1>1. Len(s) \in Nat /\ k \in Nat /\ k <= Len(s) /\ \A j \in 1..Len(s) : s[j] \in S
  OBVIOUS
<1>2. a \in Seq(S) /\ Len(a) = k /\ \A j \in 1..k : a[j] = s[j]
  <2>1. 1 \in Int /\ k \in Int /\ \A j \in 1..k : s[j] \in S
    BY <1>1
  <2>2. /\ a \in Seq(S) /\ Len(a) = IF 1 <= k THEN k - 1 + 1 ELSE 0
        /\ \A j \in 1..k - 1 + 1 : a[j] = s[1 + j - 1]
    BY <2>1, SubSeqProperties
  <2> HIDE DEF a
  <2> QED
    BY <1>1, <2>2
<1>3. b \in Seq(S) /\ Len(b) = Len(s) - k /\ \A j \in 1..Len(s) - k : b[j] = s[k + j]
  <2>1. k + 1 \in Int /\ Len(s) \in Int /\ \A j \in k + 1..Len(s) : s[j] \in S
    BY <1>1
  <2>2. /\ b \in Seq(S) /\ Len(b) = IF k + 1 <= Len(s) THEN Len(s) - (k + 1) + 1 ELSE 0
        /\ \A j \in 1..Len(s) - (k + 1) + 1 : b[j] = s[(k + 1) + j - 1]
    BY <2>1, SubSeqProperties DEF Rest
  <2> HIDE DEF b
  <2>3. Len(s) - (k + 1) + 1 = Len(s) - k /\ \A j \in 1..Len(s) - k : (k + 1) + j - 1 = k + j
    BY <1>1
  <2>4. Len(b) = Len(s) - k
    BY <1>1, <2>2
  <2> QED
    BY <2>2, <2>3, <2>4
<1> HIDE DEF a, b
<1>4. /\ a \o b \in Seq(S) /\ Len(a \o b) = Len(a) + Len(b)
      /\ \A j \in 1..Len(a) + Len(b) : (a \o b)[j] = IF j <= Len(a) THEN a[j] ELSE b[j - Len(a)]
  BY <1>2, <1>3, ConcatProperties
<1>5. a \o b = s
  <2>1. Len(a \o b) = Len(s)
    BY <1>1, <1>2, <1>3, <1>4
  <2>2. ASSUME NEW j \in 1..Len(s)
        PROVE  (a \o b)[j] = s[j]
    <3>1. j <= k => j \in 1..k
      BY <1>1
    <3>2. ~(j <= k) => j - k \in 1..Len(s) - k /\ k + (j - k) = j
      BY <1>1
    <3>3. (a \o b)[j] = IF j <= k THEN a[j] ELSE b[j - k]
      BY <1>2, <1>4, <2>1
    <3> QED
      BY <1>2, <1>3, <3>1, <3>2, <3>3
  <2> QED
    BY <1>4, <2>1, <2>2, SeqEqual
<1>6. ToSet(a \o b) = ToSet(a) \cup ToSet(b)
  BY <1>2, <1>3, ConcatFacts
<1> QED
  BY <1>2, <1>3, <1>5, <1>6 DEF a, b

LEMMA Least ==
    ASSUME NEW S \in SUBSET Nat, S # {}
    PROVE  \E x \in S : \A y \in S : x <= y
<1>1. IsWellFoundedOn(OpToRel(<, Nat), Nat)
  BY NatLessThanWellFounded, Zenon
<1>2. PICK x \in S : \A y \in S : ~ (<<y, x>> \in OpToRel(<, Nat))
  BY <1>1, WFMin, Zenon
<1>3. ASSUME NEW y \in S
      PROVE  x <= y
  <2>1. ~(y < x)
    BY <1>2 DEF OpToRel
  <2> QED
    BY <2>1
<1> QED
  BY <1>3

(* Sequences of numbers that rise, or run without a gap from a on.         *)
Rising(s) == \A i, k \in 1..Len(s) : i < k => s[i] < s[k]
Below(A, B) == \A x \in A, y \in B : x < y
Run(s, a) == \A i \in 1..Len(s) : s[i] = a + i - 1

LEMMA RisingConcat ==
    ASSUME NEW s \in Seq(Nat), NEW t \in Seq(Nat)
    PROVE  Rising(s \o t) <=> Rising(s) /\ Rising(t) /\ Below(ToSet(s), ToSet(t))
<1> DEFINE u == s \o t
           m == Len(s)
<1>1. /\ Len(u) = m + Len(t) /\ m \in Nat /\ Len(t) \in Nat
      /\ \A i \in 1..m : u[i] = s[i] /\ s[i] \in ToSet(s)
      /\ \A i \in 1..Len(t) : u[m + i] = t[i] /\ t[i] \in ToSet(t)
  BY ConcatFacts, SeqFacts
<1>2. /\ \A x \in ToSet(s) : \E i \in 1..m : x = s[i]
      /\ \A x \in ToSet(t) : \E i \in 1..Len(t) : x = t[i]
  BY SeqFacts
<1> HIDE DEF u, m
<1>3. ASSUME Rising(u)
      PROVE  Rising(s) /\ Rising(t) /\ Below(ToSet(s), ToSet(t))
  <2>1. Rising(s)
    <3> SUFFICES ASSUME NEW i \in 1..m, NEW k \in 1..m, i < k
                 PROVE  s[i] < s[k]
      BY DEF Rising, m
    <3>1. i \in 1..Len(u) /\ k \in 1..Len(u)
      BY <1>1
    <3> QED
      BY <1>1, <1>3, <3>1 DEF Rising
  <2>2. Rising(t)
    <3> SUFFICES ASSUME NEW i \in 1..Len(t), NEW k \in 1..Len(t), i < k
                 PROVE  t[i] < t[k]
      BY DEF Rising
    <3>1. m + i \in 1..Len(u) /\ m + k \in 1..Len(u) /\ m + i < m + k
      BY <1>1
    <3>2. u[m + i] = t[i] /\ u[m + k] = t[k]
      BY <1>1
    <3> QED
      BY <1>3, <3>1, <3>2 DEF Rising
  <2>3. ASSUME NEW x \in ToSet(s), NEW y \in ToSet(t)
        PROVE  x < y
    <3>1. PICK i \in 1..m : x = s[i]
      BY <1>2
    <3>2. PICK k \in 1..Len(t) : y = t[k]
      BY <1>2
    <3>3. i \in 1..Len(u) /\ m + k \in 1..Len(u) /\ i < m + k
      BY <1>1
    <3>4. u[i] = x /\ u[m + k] = y
      BY <1>1, <3>1, <3>2
    <3> QED
      BY <1>3, <3>3, <3>4 DEF Rising
  <2> QED
    BY <2>1, <2>2, <2>3 DEF Below
<1>4. ASSUME Rising(s), Rising(t), Below(ToSet(s), ToSet(t))
      PROVE  Rising(u)
  <2> SUFFICES ASSUME NEW i \in 1..Len(u), NEW k \in 1..Len(u), i < k
               PROVE  u[i] < u[k]
    BY DEF Rising
  <2>1. CASE k <= m
    <3>1. i \in 1..m /\ k \in 1..m
      BY <1>1, <2>1
    <3> QED
      BY <1>1, <1>4, <3>1 DEF Rising, m
  <2>2. CASE i <= m /\ ~(k <= m)
    <3>1. i \in 1..m /\ k - m \in 1..Len(t) /\ m + (k - m) = k
      BY <1>1, <2>2
    <3>2. u[i] = s[i] /\ u[i] \in ToSet(s)
      BY <1>1, <3>1
    <3>3. u[k] = t[k - m] /\ u[k] \in ToSet(t)
      BY <1>1, <3>1
    <3> QED
      BY <1>4, <3>2, <3>3 DEF Below
  <2>3. CASE ~(i <= m)
    <3>1. i - m \in 1..Len(t) /\ k - m \in 1..Len(t) /\ i - m < k - m /\ m + (i - m) = i /\ m + (k - m) = k
      <4>1. i \in 1..m + Len(t) /\ k \in 1..m + Len(t) /\ m \in Nat /\ Len(t) \in Nat
        BY <1>1
      <4> QED
        BY <2>3, <4>1
    <3>2. u[i] = t[i - m] /\ u[k] = t[k - m]
      BY <1>1, <3>1
    <3> QED
      BY <1>4, <3>1, <3>2 DEF Rising
  <2> QED
    BY <1>1, <2>1, <2>2, <2>3
<1> QED
  BY <1>3, <1>4 DEF u

Associate(a, b, c) == (a \o b) \o c = a \o (b \o c)
LEMMA Joining ==
    ASSUME NEW a \in Seq(Text), NEW b \in Seq(Text), NEW c \in Seq(Text)
    PROVE  Associate(a, b, c)
BY ConcatAssociative DEF Associate

JoinsUp(o, h, e, k, v, w) ==
    e \o k = h \o v => ((o \o e) \o k) \o w = (o \o h) \o (v \o w)
LEMMA JoiningAll ==
    ASSUME NEW o \in Seq(Text), NEW h \in Seq(Text), NEW e \in Seq(Text), NEW k \in Seq(Text),
           NEW v \in Seq(Text), NEW w \in Seq(Text)
    PROVE  JoinsUp(o, h, e, k, v, w)
<1>1. PICK p \in Seq(Text), q \in Seq(Text) : p = o \o h /\ q = e \o k
  <2>1. o \o h \in Seq(Text) /\ e \o k \in Seq(Text)
    BY ConcatFacts
  <2> QED
    BY <2>1
<1>2. Associate(o, e, k) /\ Associate(o, h, v) /\ Associate(p, v, w)
  BY Joining
<1> QED
  BY <1>1, <1>2 DEF Associate, JoinsUp

LEMMA Greatest ==
    ASSUME NEW m \in Nat, NEW S \in SUBSET (0..m), S # {}
    PROVE  Longest(S) \in S /\ \A k \in S : k <= Longest(S)
<1> DEFINE T == {m - k : k \in S}
<1>1. PICK x \in T : \A y \in T : x <= y
  <2>1. T \in SUBSET Nat /\ T # {}
    <3>1. \A k \in S : m - k \in Nat
      OBVIOUS
    <3> QED
      BY <3>1
  <2> QED
    BY <2>1, Least
<1>2. PICK g \in S : x = m - g
  OBVIOUS
<1>3. ASSUME NEW k \in S
      PROVE  k <= g
  <2>1. x <= m - k
    BY <1>1
  <2> QED
    BY <1>2, <2>1
<1> QED
  BY <1>2, <1>3 DEF Longest

LEMMA RunFacts ==
    ASSUME NEW s \in Seq(Nat), NEW a \in Nat, Run(s, a)
    PROVE  Rising(s) /\ ToSet(s) = a..(a + Len(s) - 1)
<1>1. Len(s) \in Nat /\ DOMAIN s = 1..Len(s) /\ \A i \in 1..Len(s) : s[i] = a + i - 1 /\ i \in Nat
  BY DEF Run
<1>2. Rising(s)
  BY <1>1 DEF Rising
<1>3. ASSUME NEW x \in a..(a + Len(s) - 1)
      PROVE  x \in ToSet(s)
  <2>1. x - a + 1 \in 1..Len(s) /\ a + (x - a + 1) - 1 = x
    BY <1>1
  <2>2. s[x - a + 1] = x
    BY <1>1, <2>1
  <2> QED
    BY <1>1, <2>1, <2>2 DEF ToSet
<1>4. \A i \in 1..Len(s) : s[i] \in a..(a + Len(s) - 1)
  BY <1>1
<1> QED
  BY <1>1, <1>2, <1>3, <1>4 DEF ToSet

LEMMA RunConcat ==
    ASSUME NEW s \in Seq(Nat), NEW t \in Seq(Nat), NEW a \in Nat
    PROVE  Run(s \o t, a) <=> Run(s, a) /\ Run(t, a + Len(s))
<1> DEFINE u == s \o t
           m == Len(s)
<1>1. /\ Len(u) = m + Len(t) /\ m \in Nat /\ Len(t) \in Nat
      /\ \A i \in 1..m : u[i] = s[i]
      /\ \A i \in 1..Len(t) : u[m + i] = t[i]
  BY ConcatFacts
<1> HIDE DEF u, m
<1>2. ASSUME Run(u, a)
      PROVE  Run(s, a) /\ Run(t, a + m)
  <2>1. \A i \in 1..m : i \in 1..Len(u)
    BY <1>1
  <2>2. \A i \in 1..m : s[i] = a + i - 1
    BY <1>1, <1>2, <2>1 DEF Run
  <2>3. \A i \in 1..Len(t) : m + i \in 1..Len(u) /\ a + (m + i) - 1 = (a + m) + i - 1
    BY <1>1
  <2>4. \A i \in 1..Len(t) : t[i] = (a + m) + i - 1
    BY <1>1, <1>2, <2>3 DEF Run
  <2> QED
    BY <2>2, <2>4 DEF Run, m
<1>3. ASSUME Run(s, a), Run(t, a + m)
      PROVE  Run(u, a)
  <2> SUFFICES ASSUME NEW i \in 1..Len(u)
               PROVE  u[i] = a + i - 1
    BY DEF Run
  <2>1. CASE i \in 1..m
    BY <1>1, <1>3, <2>1 DEF Run, m
  <2>2. CASE i \notin 1..m
    <3>1. i - m \in 1..Len(t) /\ m + (i - m) = i /\ (a + m) + (i - m) - 1 = a + i - 1
      BY <1>1, <2>2
    <3>2. u[i] = t[i - m]
      BY <1>1, <3>1
    <3>3. t[i - m] = (a + m) + (i - m) - 1
      BY <1>3, <3>1 DEF Run
    <3> QED
      BY <3>1, <3>2, <3>3
  <2> QED
    BY <2>1, <2>2
<1> QED
  BY <1>2, <1>3 DEF u, m

LEMMA PrefixFacts ==
    ASSUME NEW S, NEW s \in Seq(S), NEW t \in Seq(S)
    PROVE  /\ IsPrefix(s, t) <=> Len(s) <= Len(t) /\ \A i \in 1..Len(s) : s[i] = t[i]
           /\ IsPrefix(s, t) => SubSeq(t, 1, Len(s)) = s /\ s \o Rest(t, Len(s)) = t
           /\ IsPrefix(s, s \o t)
           /\ IsSuffix(s, t) => ToSet(s) \subseteq ToSet(t)
<1>1. Len(s) \in Nat /\ Len(t) \in Nat /\ Len(s) \in 0..Len(s) /\ (Len(s) <= Len(t) => Len(s) \in 0..Len(t))
  OBVIOUS
<1>2. /\ SubSeq(s, 1, Len(s)) \in Seq(S) /\ Len(SubSeq(s, 1, Len(s))) = Len(s)
      /\ \A i \in 1..Len(s) : SubSeq(s, 1, Len(s))[i] = s[i]
  BY <1>1, CutFacts
<1>3. SubSeq(s, 1, Len(s)) = s
  BY <1>2, SeqEqual
<1>4. ASSUME Len(s) <= Len(t)
      PROVE  /\ SubSeq(t, 1, Len(s)) \in Seq(S) /\ Len(SubSeq(t, 1, Len(s))) = Len(s)
             /\ \A i \in 1..Len(s) : SubSeq(t, 1, Len(s))[i] = t[i]
             /\ SubSeq(t, 1, Len(s)) \o Rest(t, Len(s)) = t
  BY <1>1, <1>4, CutFacts
<1>5. IsPrefix(s, t) <=> Len(s) <= Len(t) /\ \A i \in 1..Len(s) : s[i] = t[i]
  <2>1. ASSUME Len(s) <= Len(t), \A i \in 1..Len(s) : s[i] = t[i]
        PROVE  SubSeq(t, 1, Len(s)) = s
    BY <1>4, <2>1, SeqEqual
  <2>2. ASSUME Len(s) <= Len(t), SubSeq(t, 1, Len(s)) = s
        PROVE  \A i \in 1..Len(s) : s[i] = t[i]
    BY <1>4, <2>2
  <2> QED
    BY <1>3, <2>1, <2>2 DEF IsPrefix
<1>6. IsPrefix(s, t) => SubSeq(t, 1, Len(s)) = s /\ s \o Rest(t, Len(s)) = t
  BY <1>3, <1>4 DEF IsPrefix
<1>7. IsPrefix(s, s \o t)
  <2>1. /\ s \o t \in Seq(S) /\ Len(s \o t) = Len(s) + Len(t)
        /\ \A i \in 1..Len(s) : (s \o t)[i] = s[i]
    BY ConcatFacts
  <2>2. PICK u \in Seq(S) : u = s \o t
    BY <2>1
  <2>3. Len(s) \in 0..Len(u) /\ \A i \in 1..Len(s) : u[i] = s[i]
    BY <1>1, <2>1, <2>2
  <2>4. /\ SubSeq(u, 1, Len(s)) \in Seq(S) /\ Len(SubSeq(u, 1, Len(s))) = Len(s)
        /\ \A i \in 1..Len(s) : SubSeq(u, 1, Len(s))[i] = u[i]
    BY <2>3, CutFacts
  <2>5. SubSeq(u, 1, Len(s)) = s
    BY <2>3, <2>4, SeqEqual
  <2> QED
    BY <1>1, <1>3, <2>1, <2>2, <2>5 DEF IsPrefix
<1>8. ASSUME IsSuffix(s, t)
      PROVE  ToSet(s) \subseteq ToSet(t)
  <2> DEFINE a == Reverse(s)
             b == Reverse(t)
  <2>1. /\ a \in Seq(S) /\ Len(a) = Len(s) /\ \A i \in 1..Len(s) : a[i] = s[(Len(s) - i) + 1]
    BY <1>1 DEF Reverse
  <2>2. /\ b \in Seq(S) /\ Len(b) = Len(t) /\ \A i \in 1..Len(t) : b[i] = t[(Len(t) - i) + 1]
    BY <1>1 DEF Reverse
  <2> HIDE DEF a, b
  <2>3. Len(s) <= Len(t) /\ SubSeq(a, 1, Len(s)) = SubSeq(b, 1, Len(s))
    BY <1>8, <2>1, <2>2 DEF IsSuffix, IsPrefix, a, b
  <2>4. /\ \A i \in 1..Len(s) : SubSeq(a, 1, Len(s))[i] = a[i]
        /\ \A i \in 1..Len(s) : SubSeq(b, 1, Len(s))[i] = b[i]
    <3>1. Len(s) \in 0..Len(a) /\ Len(s) \in 0..Len(b)
      BY <1>1, <2>1, <2>2, <2>3
    <3> QED
      BY <2>1, <2>2, <3>1, CutFacts
  <2>5. ASSUME NEW x \in ToSet(s)
        PROVE  x \in ToSet(t)
    <3>1. PICK i \in 1..Len(s) : x = s[i]
      BY SeqFacts
    <3>2. PICK k \in 1..Len(s) : k = (Len(s) - i) + 1
      <4>1. (Len(s) - i) + 1 \in 1..Len(s)
        BY <1>1
      <4> QED
        BY <4>1
    <3>3. (Len(s) - k) + 1 = i /\ k \in 1..Len(t) /\ (Len(t) - k) + 1 \in 1..Len(t)
      BY <1>1, <2>3, <3>2
    <3>4. a[k] = x /\ b[k] = t[(Len(t) - k) + 1] /\ a[k] = b[k]
      BY <2>1, <2>2, <2>3, <2>4, <3>1, <3>3
    <3> QED
      BY <3>3, <3>4, SeqFacts
  <2> QED
    BY <2>5
<1> QED
  BY <1>5, <1>6, <1>7, <1>8

-----------------------------------------------------------------------------
(* The scan for fences: what Scanned has made of the first symbols of p is *)
(* all of them, in their order, or all but complete fences.  It is defined *)
(* by recursion over p.                                                    *)
Pieces == [shown : Seq(Text), rest : Seq(Text), block : Seq(Text)]
Parts(s) == (s.shown \o s.rest) \o s.block
InOrderOf(p, u, i) ==
    /\ Rising(p) => Rising(u)
    /\ \A x \in ToSet(u) : \E j \in 1..i : x = p[j]
AllOf(p, u, i) == Len(u) = i /\ \A j \in 1..i : u[j] = p[j]
Looked(p, s, i) ==
    /\ s \in Pieces
    /\ s.block # <<>> => s.rest = <<>> /\ \E j \in 1..i : p[j] = Open
    /\ InOrderOf(p, Parts(s), i)
    /\ ~(ask.callable /\ FenceDone(p)) => AllOf(p, Parts(s), i)

LEMMA LookingAtOne ==
    ASSUME NEW p \in Seq(Text), NEW i \in 1..Len(p), NEW u \in Seq(Text)
    PROVE  /\ InOrderOf(p, u, i - 1) => InOrderOf(p, Append(u, p[i]), i)
           /\ AllOf(p, u, i - 1) => AllOf(p, Append(u, p[i]), i)
<1>1. /\ i \in Nat \ {0} /\ Len(p) \in Nat /\ Len(u) \in Nat /\ p[i] \in Text /\ i \in 1..i
      /\ \A j \in 1..i : j \in 1..i - 1 \/ j = i
      /\ \A j \in 1..i - 1 : j \in 1..i /\ j \in 1..Len(p) /\ j < i
  OBVIOUS
<1>2. PICK v : v = Append(u, p[i])
  OBVIOUS
<1>3. /\ v \in Seq(Text) /\ Len(v) = Len(u) + 1 /\ ToSet(v) = ToSet(u) \cup {p[i]}
      /\ \A j \in 1..Len(u) : v[j] = u[j] /\ u[j] \in ToSet(u)
      /\ v[Len(u) + 1] = p[i]
  BY <1>1, <1>2, AppendFacts, SeqFacts
<1>4. ASSUME InOrderOf(p, u, i - 1), Rising(p)
      PROVE  Rising(v)
  <2> SUFFICES ASSUME NEW j \in 1..Len(v), NEW k \in 1..Len(v), j < k
               PROVE  v[j] < v[k]
    BY DEF Rising
  <2>1. j \in 1..Len(u) /\ (k \in 1..Len(u) \/ k = Len(u) + 1)
    BY <1>1, <1>3
  <2>2. CASE k \in 1..Len(u)
    BY <1>3, <1>4, <2>1, <2>2 DEF InOrderOf, Rising
  <2>3. CASE k = Len(u) + 1
    <3>1. PICK l \in 1..i - 1 : u[j] = p[l]
      BY <1>3, <1>4, <2>1 DEF InOrderOf
    <3>2. p[l] < p[i]
      BY <1>1, <1>4 DEF Rising
    <3> QED
      BY <1>3, <2>1, <2>3, <3>1, <3>2
  <2> QED
    BY <2>1, <2>2, <2>3
<1>5. ASSUME InOrderOf(p, u, i - 1)
      PROVE  \A x \in ToSet(v) : \E j \in 1..i : x = p[j]
  BY <1>1, <1>3, <1>5 DEF InOrderOf
<1>6. ASSUME AllOf(p, u, i - 1)
      PROVE  AllOf(p, v, i)
  <2>1. Len(u) = i - 1 /\ Len(u) + 1 = i
    BY <1>1, <1>6 DEF AllOf
  <2> QED
    BY <1>1, <1>3, <1>6, <2>1 DEF AllOf
<1> QED
  BY <1>2, <1>4, <1>5, <1>6 DEF InOrderOf

LEMMA LookingOn ==
    ASSUME NEW p \in Seq(Text), NEW i \in 1..Len(p), NEW s, Looked(p, s, i - 1)
    PROVE  Looked(p, Scan(s, p[i]), i)
<1>1. PICK x \in Text : x = p[i]
  OBVIOUS
<1>2. PICK a \in Seq(Text), r \in Seq(Text), b \in Seq(Text) :
            s = [shown |-> a, rest |-> r, block |-> b] /\ s.shown = a /\ s.rest = r /\ s.block = b
  BY DEF Looked, Pieces
<1>3. PICK t : t = Scan(s, x)
  OBVIOUS
<1>4. /\ <<x>> \in Seq(Text) /\ <<>> \in Seq(Text) /\ <<x>> # <<>> /\ i \in 1..i
      /\ \A j \in 1..i - 1 : j \in 1..i
  OBVIOUS
<1>5. PICK u \in Seq(Text) : u = Parts(s)
  <2>1. (a \o r) \o b \in Seq(Text)
    OBVIOUS
  <2> QED
    BY <1>2, <2>1 DEF Parts
<1>6. /\ u = (a \o r) \o b /\ InOrderOf(p, u, i - 1)
      /\ (b # <<>> => r = <<>> /\ \E j \in 1..i - 1 : p[j] = Open)
      /\ (~(ask.callable /\ FenceDone(p)) => AllOf(p, u, i - 1))
  BY <1>2, <1>5 DEF Looked, Parts
<1>7. Append(u, x) = u \o <<x>> /\ \A v \in Seq(Text) : v \o <<>> = v /\ Append(v, x) = v \o <<x>>
  BY AppendIsConcat, ConcatEmptySeq
<1>8. ASSUME t \in Pieces, Parts(t) = Append(u, x),
             t.block # <<>> => t.rest = <<>> /\ \E j \in 1..i : p[j] = Open
      PROVE  Looked(p, t, i)
  <2>1. InOrderOf(p, Parts(t), i)
    BY <1>1, <1>6, <1>8, LookingAtOne
  <2>2. ~(ask.callable /\ FenceDone(p)) => AllOf(p, Parts(t), i)
    BY <1>1, <1>6, <1>8, LookingAtOne
  <2> QED
    BY <1>8, <2>1, <2>2 DEF Looked
<1>9. CASE b # <<>> /\ x = Shut /\ ask.callable
  <2>1. t = [shown |-> a, rest |-> r, block |-> <<>>]
    BY <1>2, <1>3, <1>9 DEF Scan
  <2>2. r = <<>> /\ a \o r = a /\ Parts(t) = a /\ u = a \o b
    BY <1>6, <1>7, <1>9, <2>1 DEF Parts
  <2>3. t \in Pieces /\ t.block = <<>>
    BY <1>4, <2>1 DEF Pieces
  <2>4. FenceDone(p)
    <3>1. PICK j \in 1..i - 1 : p[j] = Open
      BY <1>6, <1>9
    <3>2. j \in 1..Len(p) /\ j < i /\ DOMAIN p = 1..Len(p)
      OBVIOUS
    <3> QED
      BY <1>1, <1>9, <3>1, <3>2 DEF FenceDone
  <2>5. ToSet(a) \subseteq ToSet(u)
    BY <2>2, ConcatFacts
  <2>6. Rising(u) => Rising(a)
    <3>1. a \in Seq(Nat) /\ b \in Seq(Nat)
      BY CallAssumption DEF Text
    <3> QED
      BY <2>2, <3>1, RisingConcat
  <2>7. InOrderOf(p, a, i)
    BY <1>4, <1>6, <2>5, <2>6 DEF InOrderOf
  <2>8. Looked(p, t, i)
    BY <1>9, <2>2, <2>3, <2>4, <2>7 DEF Looked
  <2> QED
    BY <1>1, <1>3, <2>8
<1>10. CASE b # <<>> /\ ~(x = Shut /\ ask.callable)
  <2>1. t = [shown |-> a, rest |-> r, block |-> Append(b, x)]
    BY <1>2, <1>3, <1>10 DEF Scan
  <2>2. Parts(t) = Append(u, x)
    <3>1. PICK c \in Seq(Text) : c = a \o r
      <4>1. a \o r \in Seq(Text)
        OBVIOUS
      <4> QED
        BY <4>1
    <3>2. Parts(t) = c \o (b \o <<x>>) /\ u = c \o b
      BY <1>6, <1>7, <2>1, <3>1 DEF Parts
    <3>3. PICK e \in Seq(Text) : e = <<x>>
      BY <1>4
    <3>4. Associate(c, b, e)
      BY <3>1, <3>3, Joining
    <3> QED
      BY <1>7, <3>2, <3>3, <3>4 DEF Associate
  <2>3. t \in Pieces /\ t.rest = <<>> /\ \E j \in 1..i : p[j] = Open
    BY <1>4, <1>6, <1>10, <2>1 DEF Pieces
  <2> QED
    BY <1>1, <1>3, <1>8, <2>2, <2>3
<1>11. CASE b = <<>> /\ x = Open
  <2>1. t = [shown |-> a \o r, rest |-> <<>>, block |-> <<x>>]
    BY <1>2, <1>3, <1>11 DEF Scan
  <2>2. a \o r \in Seq(Text) /\ u = a \o r
    BY <1>6, <1>7, <1>11
  <2>3. Parts(t) = Append(u, x)
    BY <1>7, <2>1, <2>2 DEF Parts
  <2>4. t \in Pieces /\ t.rest = <<>> /\ p[i] = Open
    BY <1>1, <1>4, <1>11, <2>1, <2>2 DEF Pieces
  <2> QED
    BY <1>1, <1>3, <1>4, <1>8, <2>3, <2>4
<1>12. CASE b = <<>> /\ x # Open
  <2>1. t = [shown |-> a, rest |-> Append(r, x), block |-> <<>>]
    BY <1>2, <1>3, <1>12 DEF Scan
  <2>2. a \o r \in Seq(Text) /\ u = a \o r /\ r \o <<x>> \in Seq(Text) /\ a \o (r \o <<x>>) \in Seq(Text)
    BY <1>6, <1>7, <1>12
  <2>3. Parts(t) = Append(u, x)
    <3>1. Parts(t) = a \o (r \o <<x>>)
      BY <1>7, <2>1, <2>2 DEF Parts
    <3>2. PICK e \in Seq(Text) : e = <<x>>
      BY <1>4
    <3>3. Associate(a, r, e)
      BY <3>2, Joining
    <3>4. Append(u, x) = (a \o r) \o e
      BY <1>7, <2>2, <3>2
    <3> QED
      BY <3>1, <3>2, <3>3, <3>4 DEF Associate
  <2>4. t \in Pieces /\ t.block = <<>>
    BY <1>4, <2>1 DEF Pieces
  <2> QED
    BY <1>1, <1>3, <1>8, <2>3, <2>4
<1> QED
  BY <1>9, <1>10, <1>11, <1>12

Looking(p, f) ==
    [i \in 0..Len(p) |->
        IF i = 0 THEN [shown |-> <<>>, rest |-> <<>>, block |-> <<>>] ELSE Scan(f[i - 1], p[i])]
LEMMA ScanIsDefined ==
    ASSUME NEW p \in Seq(Text)
    PROVE  \E f : f = Looking(p, f)
<1> DEFINE step(m, g) == IF m = 0 THEN [shown |-> <<>>, rest |-> <<>>, block |-> <<>>]
                         ELSE Scan(g[m - 1], p[m])
           Till(m) == \E g : g = [i \in 0..m |-> step(i, g)]
           bad == {m \in Nat : ~Till(m)}
<1>1. Till(0)
  <2> DEFINE g == [i \in 0..0 |-> [shown |-> <<>>, rest |-> <<>>, block |-> <<>>]]
  <2>1. g = [i \in 0..0 |-> step(i, g)]
    OBVIOUS
  <2> QED
    BY <2>1
<1>2. ASSUME NEW m \in Nat \ {0}, Till(m - 1)
      PROVE  Till(m)
  <2>1. PICK g : g = [i \in 0..(m - 1) |-> step(i, g)]
    BY <1>2
  <2> DEFINE h == [i \in 0..m |-> IF i = m THEN step(m, g) ELSE g[i]]
  <2>2. ASSUME NEW i \in 0..m
        PROVE  h[i] = step(i, h)
    <3>1. CASE i = 0
      BY <2>1, <3>1
    <3>2. CASE i # 0
      <4>1. i - 1 \in 0..(m - 1) /\ i - 1 \in 0..m /\ i - 1 # m
        BY <3>2
      <4>2. h[i - 1] = g[i - 1]
        BY <4>1
      <4>3. i # m => i \in 0..(m - 1)
        OBVIOUS
      <4>4. h[i] = step(i, g)
        BY <2>1, <4>3
      <4> QED
        BY <3>2, <4>2, <4>4
    <3> QED
      BY <3>1, <3>2
  <2>3. h = [i \in 0..m |-> step(i, h)]
    BY <2>2
  <2> QED
    BY <2>3
<1> HIDE DEF Till
<1>3. bad = {}
  <2> SUFFICES ASSUME bad # {}
               PROVE  FALSE
    OBVIOUS
  <2>1. PICK m \in bad : \A k \in bad : m <= k
    <3>1. bad \in SUBSET Nat
      OBVIOUS
    <3> QED
      BY <3>1, Least
  <2>2. m # 0 /\ m \in Nat
    BY <1>1
  <2>3. m - 1 \in Nat /\ ~(m <= m - 1)
    BY <2>2
  <2>4. Till(m - 1)
    BY <2>1, <2>3
  <2> QED
    BY <1>2, <2>2, <2>4
<1>4. Till(Len(p))
  BY <1>3
<1> QED
  BY <1>4 DEF Till, Looking

LEMMA ScannedFacts ==
    ASSUME NEW p \in Seq(Text)
    PROVE  Looked(p, Scanned(p), Len(p))
<1> DEFINE f == CHOOSE f : f = Looking(p, f)
           bad == {m \in Nat : m \in 0..Len(p) /\ ~Looked(p, f[m], m)}
<1>1. Scanned(p) = f[Len(p)]
  BY DEF Scanned, Looking
<1>2. f = Looking(p, f)
  BY ScanIsDefined
<1> HIDE DEF f
<1>3. /\ f[0] = [shown |-> <<>>, rest |-> <<>>, block |-> <<>>] /\ Len(p) \in Nat
      /\ \A m \in 1..Len(p) : f[m] = Scan(f[m - 1], p[m])
  <2>1. Len(p) \in Nat /\ 0 \in 0..Len(p) /\ \A m \in 1..Len(p) : m \in 0..Len(p) /\ m # 0
    OBVIOUS
  <2> QED
    BY <1>2, <2>1 DEF Looking
<1>4. Looked(p, f[0], 0)
  <2>1. <<>> \in Seq(Text) /\ Len(<<>>) = 0 /\ 1..0 = {} /\ ToSet(<<>>) = {} /\ (<<>> \o <<>>) \o <<>> = <<>>
    BY DEF ToSet
  <2>2. f[0] \in Pieces /\ f[0].block = <<>> /\ Parts(f[0]) = <<>>
    BY <1>3, <2>1 DEF Pieces, Parts
  <2> QED
    BY <2>1, <2>2 DEF Looked, InOrderOf, AllOf, Rising
<1>5. bad = {}
  <2> SUFFICES ASSUME bad # {}
               PROVE  FALSE
    OBVIOUS
  <2>1. PICK m \in bad : \A k \in bad : m <= k
    <3>1. bad \in SUBSET Nat
      OBVIOUS
    <3> QED
      BY <3>1, Least
  <2>2. m # 0 /\ m \in Nat /\ m \in 0..Len(p)
    BY <1>4
  <2>3. m - 1 \in Nat /\ ~(m <= m - 1) /\ m \in 1..Len(p) /\ m - 1 \in 0..Len(p)
    BY <1>3, <2>2
  <2>4. Looked(p, f[m - 1], m - 1)
    BY <2>1, <2>3
  <2>5. Looked(p, f[m], m)
    BY <1>3, <2>3, <2>4, LookingOn
  <2> QED
    BY <2>5
<1> QED
  <2>1. Len(p) \in 0..Len(p)
    BY <1>3
  <2> QED
    BY <1>1, <1>3, <1>5, <2>1

-----------------------------------------------------------------------------
(* What is sent and what is held back, by flushStreamText and by the       *)
(* identity filter.  s makes of p what Flush makes of it.                  *)
Makes(p, s) ==
    /\ s.emit \in Seq(Text) /\ s.keep \in Seq(Text)
    /\ InOrderOf(p, s.emit \o s.keep, Len(p))
    /\ ~(ask.callable /\ FenceDone(p)) => s.emit \o s.keep = p

LEMMA FlushFacts ==
    ASSUME NEW p \in Seq(Text), NEW final \in BOOLEAN
    PROVE  Makes(p, Flush(p, final)) /\ (final => Flush(p, final).keep = <<>>)
<1>1. PICK s : s = Scanned(p)
  OBVIOUS
<1>2. Looked(p, s, Len(p))
  BY <1>1, ScannedFacts
<1>3. PICK a \in Seq(Text), r \in Seq(Text), b \in Seq(Text) :
            s = [shown |-> a, rest |-> r, block |-> b] /\ s.shown = a /\ s.rest = r /\ s.block = b
  BY <1>2 DEF Looked, Pieces
<1>4. PICK u \in Seq(Text) : u = (a \o r) \o b
  <2>1. (a \o r) \o b \in Seq(Text)
    OBVIOUS
  <2> QED
    BY <2>1
<1>5. /\ InOrderOf(p, u, Len(p)) /\ (b # <<>> => r = <<>>)
      /\ (~(ask.callable /\ FenceDone(p)) => AllOf(p, u, Len(p)))
  BY <1>2, <1>3, <1>4 DEF Looked, Parts
<1>6. ~(ask.callable /\ FenceDone(p)) => u = p
  <2> SUFFICES ASSUME AllOf(p, u, Len(p))
               PROVE  u = p
    BY <1>5
  <2>1. Len(u) = Len(p) /\ \A j \in 1..Len(u) : u[j] = p[j]
    BY DEF AllOf
  <2> QED
    BY <2>1, SeqEqual
<1>7. PICK f : f = Flush(p, final)
  OBVIOUS
<1>8. \A v \in Seq(Text) : v \o <<>> = v /\ <<>> \o v = v
  BY ConcatEmptySeq
<1>9. PICK cut \in 0..Len(r) : cut = IF Len(r) <= Lookahead THEN 0 ELSE Len(r) - Lookahead
  <2>1. Len(r) \in Nat /\ Lookahead \in Nat
    BY AnswerAssumption
  <2>2. (IF Len(r) <= Lookahead THEN 0 ELSE Len(r) - Lookahead) \in 0..Len(r)
    BY <2>1
  <2> QED
    BY <2>2
<1>10. SubSeq(r, 1, cut) \in Seq(Text) /\ Rest(r, cut) \in Seq(Text) /\ SubSeq(r, 1, cut) \o Rest(r, cut) = r
  BY CutFacts
<1>11. f.emit \in Seq(Text) /\ f.keep \in Seq(Text) /\ f.emit \o f.keep = u /\ (final => f.keep = <<>>)
  <2>1. CASE final
    <3>1. f = [emit |-> u, keep |-> <<>>]
      BY <1>1, <1>3, <1>4, <1>7, <2>1 DEF Flush
    <3> QED
      BY <1>8, <3>1
  <2>2. CASE ~final /\ b # <<>>
    <3>1. f = [emit |-> a, keep |-> b]
      BY <1>1, <1>3, <1>7, <2>2 DEF Flush
    <3>2. u = a \o b
      BY <1>4, <1>5, <1>8, <2>2
    <3> QED
      BY <2>2, <3>1, <3>2
  <2>3. CASE ~final /\ b = <<>>
    <3>1. PICK v \in Seq(Text), w \in Seq(Text) : v = SubSeq(r, 1, cut) /\ w = Rest(r, cut)
      BY <1>10
    <3>2. f = [emit |-> a \o v, keep |-> w]
      BY <1>1, <1>3, <1>7, <1>9, <2>3, <3>1 DEF Flush
    <3>3. Associate(a, v, w)
      BY <3>1, Joining
    <3>4. u = a \o r /\ v \o w = r
      BY <1>4, <1>8, <1>10, <2>3, <3>1
    <3>5. PICK e \in Seq(Text) : e = a \o v
      <4>1. a \o v \in Seq(Text)
        BY ConcatFacts
      <4> QED
        BY <4>1
    <3>6. e \o w = u
      BY <3>3, <3>4, <3>5 DEF Associate
    <3>7. f.emit = e /\ f.keep = w
      BY <3>2, <3>5
    <3> QED
      BY <2>3, <3>6, <3>7
  <2> QED
    BY <2>1, <2>2, <2>3
<1> QED
  BY <1>5, <1>6, <1>7, <1>11 DEF Makes

LEMMA FilteredFacts ==
    ASSUME held \in Seq(Text), NEW part \in Seq(Text), ask.policy \in BOOLEAN, ~ask.policy => held = <<>>
    PROVE  /\ Filtered(part).emit \in Seq(Text) /\ Filtered(part).keep \in Seq(Text)
           /\ Filtered(part).emit \o Filtered(part).keep = held \o part
           /\ ~ask.policy => Filtered(part).keep = <<>>
<1>1. \A v \in Seq(Text) : v \o <<>> = v /\ <<>> \o v = v
  BY ConcatEmptySeq
<1>2. CASE ~ask.policy
  <2>1. Filtered(part) = [emit |-> part, keep |-> held] /\ held = <<>>
    BY <1>2 DEF Filtered
  <2> QED
    BY <1>1, <2>1
<1>3. CASE ask.policy
  <2>1. PICK p \in Seq(Text) : p = held \o part
    <3>1. held \o part \in Seq(Text)
      OBVIOUS
    <3> QED
      BY <3>1
  <2>2. PICK ends : ends = {i \in DOMAIN p : p[i] \in Stops}
    OBVIOUS
  <2>3. PICK cut \in 0..Len(p) : cut = IF ends = {} THEN 0 ELSE Longest(ends)
    <3>1. Len(p) \in Nat /\ ends \in SUBSET (0..Len(p)) /\ 0 \in 0..Len(p)
      BY <2>2
    <3>2. ends # {} => Longest(ends) \in 0..Len(p)
      BY <3>1, Greatest
    <3> QED
      BY <3>1, <3>2
  <2>4. SubSeq(p, 1, cut) \in Seq(Text) /\ Rest(p, cut) \in Seq(Text) /\ SubSeq(p, 1, cut) \o Rest(p, cut) = p
    BY CutFacts
  <2>5. PICK a \in Seq(Text), b \in Seq(Text) : a = SubSeq(p, 1, cut) /\ b = Rest(p, cut)
    BY <2>4
  <2>6. Filtered(part) = [emit |-> a, keep |-> b]
    BY <1>3, <2>1, <2>2, <2>3, <2>5 DEF Filtered
  <2>7. Filtered(part).emit = a /\ Filtered(part).keep = b
    BY <2>6
  <2> QED
    BY <1>3, <2>1, <2>4, <2>5, <2>7
<1> QED
  BY <1>2, <1>3

LEMMA FenceStays ==
    ASSUME NEW a \in Seq(Text), NEW b \in Seq(Text), FenceDone(a) \/ FenceDone(b)
    PROVE  FenceDone(a \o b)
<1>1. /\ Len(a \o b) = Len(a) + Len(b) /\ Len(a) \in Nat /\ Len(b) \in Nat
      /\ \A i \in 1..Len(a) : (a \o b)[i] = a[i]
      /\ \A i \in 1..Len(b) : (a \o b)[Len(a) + i] = b[i]
      /\ DOMAIN a = 1..Len(a) /\ DOMAIN b = 1..Len(b) /\ DOMAIN (a \o b) = 1..Len(a) + Len(b)
  BY ConcatFacts
<1>2. ASSUME NEW i \in 1..Len(a), NEW j \in 1..Len(a), i < j, a[i] = Open, a[j] = Shut
      PROVE  FenceDone(a \o b)
  <2>1. i \in 1..Len(a) + Len(b) /\ j \in 1..Len(a) + Len(b)
    BY <1>1
  <2> QED
    BY <1>1, <1>2, <2>1 DEF FenceDone
<1>3. ASSUME NEW i \in 1..Len(b), NEW j \in 1..Len(b), i < j, b[i] = Open, b[j] = Shut
      PROVE  FenceDone(a \o b)
  <2>1. /\ Len(a) + i \in 1..Len(a) + Len(b) /\ Len(a) + j \in 1..Len(a) + Len(b)
        /\ Len(a) + i < Len(a) + j
    BY <1>1, <1>3
  <2>2. (a \o b)[Len(a) + i] = Open /\ (a \o b)[Len(a) + j] = Shut
    BY <1>1, <1>3
  <2> QED
    BY <1>1, <2>1, <2>2 DEF FenceDone
<1> QED
  BY <1>1, <1>2, <1>3 DEF FenceDone

(* All that was made of the text: what was sent, what the filter and what  *)
(* flushStreamText hold back.                                              *)
Onward == (out \o held) \o pending
NoHoles ==
    /\ ~(ask.callable /\ FenceDone(text)) => Onward = text
    /\ ~ask.policy => held = <<>>
Texts ==
    /\ text \in Seq(Text) /\ pending \in Seq(Text) /\ held \in Seq(Text) /\ out \in Seq(Text)
Ordered == Rising(Onward) /\ ToSet(Onward) \subseteq ToSet(text)

LEMMA Emitting ==
    ASSUME Texts, NoHoles, ask.policy \in BOOLEAN, UNCHANGED ask, NEW fragment \in Seq(Text), NEW s,
           Makes(pending \o fragment, s), Emit(fragment, s)
    PROVE  /\ Texts' /\ NoHoles' /\ text' = text \o fragment
           /\ out' \in Seq(Text) /\ IsPrefix(out, out')
           /\ Ordered /\ Rising(text \o fragment) => Ordered'
           /\ pending' = s.keep
<1>1. PICK f : f = Filtered(s.emit)
  OBVIOUS
<1>2. /\ text' = text \o fragment /\ pending' = s.keep /\ held' = f.keep /\ out' = out \o f.emit
      /\ s.emit \in Seq(Text) /\ s.keep \in Seq(Text)
      /\ text \in Seq(Text) /\ pending \in Seq(Text) /\ held \in Seq(Text) /\ out \in Seq(Text)
  BY <1>1 DEF Emit, Makes, Texts
<1>3. /\ f.emit \in Seq(Text) /\ f.keep \in Seq(Text) /\ f.emit \o f.keep = held \o s.emit
      /\ (~ask.policy => f.keep = <<>>)
  BY <1>1, <1>2, FilteredFacts DEF NoHoles
<1>4. Texts' /\ out' \in Seq(Text)
  <2>1. text \o fragment \in Seq(Text) /\ out \o f.emit \in Seq(Text)
    BY <1>2, <1>3
  <2> QED
    BY <1>2, <1>3, <2>1 DEF Texts
<1>5. IsPrefix(out, out')
  BY <1>2, <1>3, PrefixFacts
<1>6. PICK a \in Seq(Text), p \in Seq(Text), u \in Seq(Text) :
            a = out \o held /\ p = pending \o fragment /\ u = s.emit \o s.keep
  <2>1. out \o held \in Seq(Text) /\ pending \o fragment \in Seq(Text) /\ s.emit \o s.keep \in Seq(Text)
    BY <1>2
  <2> QED
    BY <2>1
<1>7. Onward' = a \o u
  <2>1. PICK o \in Seq(Text), h \in Seq(Text), e \in Seq(Text), k \in Seq(Text),
             v \in Seq(Text), w \in Seq(Text) :
               o = out /\ h = held /\ e = f.emit /\ k = f.keep /\ v = s.emit /\ w = s.keep
    BY <1>2, <1>3
  <2>2. Onward' = ((o \o e) \o k) \o w /\ e \o k = h \o v /\ a = o \o h /\ u = v \o w
    BY <1>2, <1>3, <1>6, <2>1 DEF Onward
  <2>3. JoinsUp(o, h, e, k, v, w)
    <3>1. /\ o \in Seq(Text) /\ h \in Seq(Text) /\ e \in Seq(Text) /\ k \in Seq(Text)
          /\ v \in Seq(Text) /\ w \in Seq(Text)
      BY <2>1
    <3> QED
      BY <3>1, JoiningAll
  <2> QED
    BY <2>2, <2>3 DEF JoinsUp
<1>8. /\ InOrderOf(p, u, Len(p)) /\ (~(ask.callable /\ FenceDone(p)) => u = p)
      /\ Onward = a \o pending
  BY <1>6 DEF Makes, Onward
<1>9. ASSUME ~(ask.callable /\ FenceDone(text \o fragment))
      PROVE  Onward' = text \o fragment
  <2>1. ~(ask.callable /\ FenceDone(text))
    BY <1>2, <1>9, FenceStays
  <2>2. a \o pending = text
    BY <1>8, <2>1 DEF NoHoles
  <2>3. (a \o pending) \o fragment = a \o p
    <3>1. PICK q \in Seq(Text) : q = pending
      BY <1>2
    <3>2. a \in Seq(Text) /\ q \in Seq(Text)
      BY <1>6, <3>1
    <3>3. Associate(a, q, fragment)
      BY <3>2, Joining
    <3> QED
      BY <1>6, <3>1, <3>3 DEF Associate
  <2>4. ~(ask.callable /\ FenceDone(p))
    BY <1>9, <2>2, <2>3, FenceStays
  <2> QED
    BY <1>7, <1>8, <2>2, <2>3, <2>4
<1>10. NoHoles'
  BY <1>2, <1>3, <1>9 DEF NoHoles
<1>11. ASSUME Ordered, Rising(text \o fragment)
       PROVE  Ordered'
  <2>1. /\ \A v \in Seq(Text) : v \in Seq(Nat)
        /\ \A v \in Seq(Text), w \in Seq(Text) :
              Rising(v \o w) <=> Rising(v) /\ Rising(w) /\ Below(ToSet(v), ToSet(w))
    <3>1. \A v \in Seq(Text) : v \in Seq(Nat)
      BY CallAssumption DEF Text
    <3> QED
      BY <3>1, RisingConcat
  <2>2. \A v \in Seq(Text), w \in Seq(Text) : ToSet(v \o w) = ToSet(v) \cup ToSet(w)
    BY ConcatFacts
  <2>3. Rising(text) /\ Rising(fragment) /\ Below(ToSet(text), ToSet(fragment))
    BY <1>2, <1>11, <2>1
  <2>4. Rising(a) /\ Rising(pending) /\ Below(ToSet(a), ToSet(pending))
    BY <1>2, <1>8, <1>11, <2>1 DEF Ordered
  <2>5. ToSet(a) \subseteq ToSet(text) /\ ToSet(pending) \subseteq ToSet(text)
    BY <1>2, <1>8, <1>11, <2>2 DEF Ordered
  <2>6. ToSet(p) = ToSet(pending) \cup ToSet(fragment)
    BY <1>2, <1>6, <2>2
  <2>7. Rising(p)
    <3>1. Below(ToSet(pending), ToSet(fragment))
      BY <2>3, <2>5 DEF Below
    <3> QED
      BY <1>2, <1>6, <2>1, <2>3, <2>4, <3>1
  <2>8. Rising(u)
    BY <1>8, <2>7 DEF InOrderOf
  <2>9. ToSet(u) \subseteq ToSet(p)
    <3>1. \A j \in 1..Len(p) : p[j] \in ToSet(p)
      BY SeqFacts
    <3> QED
      BY <1>8, <3>1 DEF InOrderOf
  <2>10. Below(ToSet(a), ToSet(u))
    BY <2>3, <2>4, <2>5, <2>6, <2>9 DEF Below
  <2>11. Rising(a \o u) /\ ToSet(a \o u) \subseteq ToSet(text \o fragment)
    BY <1>2, <2>1, <2>2, <2>4, <2>5, <2>6, <2>8, <2>9, <2>10
  <2> QED
    BY <1>2, <1>7, <2>11 DEF Ordered
<1> QED
  BY <1>2, <1>4, <1>5, <1>10, <1>11

-----------------------------------------------------------------------------
(* What the reconciler lets pass.  e is candidate c without a beginning    *)
(* that has been delivered as part of d.                                   *)
Continues(d, c, e) ==
    \E k \in 0..Len(c) : e = Rest(c, k) /\ ToSet(SubSeq(c, 1, k)) \subseteq ToSet(d)
RecRecord == [delivered : Seq(Text), buffer : Seq(Text), through : BOOLEAN]

LEMMA TextIsNumbers ==
    Seq(Text) \subseteq Seq(Nat) /\ \A s \in Seq(Text), i \in 1..N : i <= Len(s) => s[i] \in 1..N
BY CallAssumption DEF Text

LEMMA EmptyFacts ==
    ASSUME NEW s \in Seq(Text)
    PROVE  /\ s \o <<>> = s /\ <<>> \o s = s /\ <<>> \in Seq(Text) /\ Len(<<>>) = 0
           /\ ToSet(<<>>) = {} /\ (Len(s) = 0 <=> s = <<>>) /\ Rest(s, 0) = s
           /\ Rest(s, Len(s)) = <<>> /\ SubSeq(s, 1, Len(s)) = s /\ SubSeq(s, 1, 0) = <<>>
<1>1. Len(s) \in Nat /\ (Len(s) = 0 <=> s = <<>>) /\ s \o <<>> = s /\ <<>> \o s = s
  BY ConcatEmptySeq
<1>2. <<>> \in Seq(Text) /\ Len(<<>>) = 0 /\ ToSet(<<>>) = {}
  BY DEF ToSet
<1>3. 0 \in 0..Len(s) /\ Len(s) \in 0..Len(s) /\ Len(s) - 0 = Len(s) /\ Len(s) - Len(s) = 0
      /\ \A i \in 1..Len(s) : 0 + i = i
  BY <1>1
<1>4. /\ Rest(s, 0) \in Seq(Text) /\ Len(Rest(s, 0)) = Len(s)
      /\ \A i \in 1..Len(s) : Rest(s, 0)[i] = s[i]
  BY <1>3, CutFacts
<1>5. Rest(s, 0) = s
  BY <1>4, SeqEqual
<1>6. Rest(s, Len(s)) \in Seq(Text) /\ Len(Rest(s, Len(s))) = 0
  BY <1>3, CutFacts
<1>7. Rest(s, Len(s)) = <<>>
  <2>1. PICK t \in Seq(Text) : t = Rest(s, Len(s))
    BY <1>6
  <2>2. Len(t) = 0
    BY <1>6, <2>1
  <2>3. t = <<>>
    BY <2>1, <2>2
  <2> QED
    BY <2>1, <2>3
<1>8. /\ SubSeq(s, 1, Len(s)) \in Seq(Text) /\ Len(SubSeq(s, 1, Len(s))) = Len(s)
      /\ \A i \in 1..Len(s) : SubSeq(s, 1, Len(s))[i] = s[i]
  BY <1>3, CutFacts
<1>9. SubSeq(s, 1, Len(s)) = s
  BY <1>8, SeqEqual
<1>10. SubSeq(s, 1, 0) \in Seq(Text) /\ Len(SubSeq(s, 1, 0)) = 0
  BY <1>3, CutFacts
<1>11. SubSeq(s, 1, 0) = <<>>
  <2>1. PICK t \in Seq(Text) : t = SubSeq(s, 1, 0)
    BY <1>10
  <2>2. Len(t) = 0
    BY <1>10, <2>1
  <2>3. t = <<>>
    BY <2>1, <2>2
  <2> QED
    BY <2>1, <2>3
<1> QED
  BY <1>1, <1>2, <1>5, <1>7, <1>9, <1>11

LEMMA ContinuesFacts ==
    ASSUME NEW d \in Seq(Text), NEW c \in Seq(Text), NEW e, Continues(d, c, e),
           NEW from \in Nat \ {0}, Run(c, from)
    PROVE  /\ e \in Seq(Text) /\ ToSet(c) \subseteq ToSet(d \o e)
           /\ e # <<>> => Last(d \o e) = from - 1 + Len(c) /\ d \o e # <<>>
<1>1. PICK k \in 0..Len(c) : e = Rest(c, k) /\ ToSet(SubSeq(c, 1, k)) \subseteq ToSet(d)
  BY DEF Continues
<1>2. /\ e \in Seq(Text) /\ Len(e) = Len(c) - k /\ \A i \in 1..Len(c) - k : e[i] = c[k + i]
      /\ ToSet(c) = ToSet(SubSeq(c, 1, k)) \cup ToSet(e)
  BY <1>1, CutFacts
<1>3. PICK u \in Seq(Text) : u = d \o e
  <2>1. d \o e \in Seq(Text)
    BY <1>2
  <2> QED
    BY <2>1
<1>4. /\ Len(u) = Len(d) + Len(e) /\ ToSet(u) = ToSet(d) \cup ToSet(e)
      /\ \A i \in 1..Len(e) : u[Len(d) + i] = e[i]
  <2>1. e \in Seq(Text)
    BY <1>2
  <2>2. /\ Len(d \o e) = Len(d) + Len(e) /\ ToSet(d \o e) = ToSet(d) \cup ToSet(e)
        /\ \A i \in 1..Len(e) : (d \o e)[Len(d) + i] = e[i]
    BY <2>1, ConcatFacts
  <2> QED
    BY <1>3, <2>2
<1>5. ASSUME e # <<>>
      PROVE  Last(u) = from - 1 + Len(c) /\ u # <<>>
  <2>1. Len(e) \in Nat \ {0} /\ Len(c) \in Nat /\ Len(d) \in Nat /\ Len(<<>>) = 0
    BY <1>2, <1>5
  <2>2. Len(e) \in 1..Len(e) /\ Len(c) - k = Len(e) /\ k + Len(e) = Len(c) /\ Len(c) \in 1..Len(c)
    BY <1>2, <2>1
  <2>3. u[Len(d) + Len(e)] = c[Len(c)]
    BY <1>2, <1>4, <2>2
  <2>4. c[Len(c)] = from + Len(c) - 1
    BY <2>2 DEF Run
  <2>5. from + Len(c) - 1 = from - 1 + Len(c) /\ Len(u) # 0
    BY <1>4, <2>1
  <2> QED
    BY <1>4, <2>1, <2>3, <2>4, <2>5 DEF Last
<1> QED
  BY <1>1, <1>2, <1>3, <1>4, <1>5

LEMMA TwoRuns ==
    ASSUME NEW c \in Seq(Text), NEW d \in Seq(Text), Run(c, 1), Run(d, 1)
    PROVE  IsPrefix(c, d) \/ IsPrefix(d, c)
<1>1. Len(c) \in Nat /\ Len(d) \in Nat
  OBVIOUS
<1>2. CASE Len(c) <= Len(d)
  <2>1. \A i \in 1..Len(c) : i \in 1..Len(d)
    BY <1>1, <1>2
  <2>2. \A i \in 1..Len(c) : c[i] = d[i]
    BY <2>1 DEF Run
  <2> QED
    BY <1>2, <2>2, PrefixFacts
<1>3. CASE ~(Len(c) <= Len(d))
  <2>1. Len(d) <= Len(c) /\ \A i \in 1..Len(d) : i \in 1..Len(c)
    BY <1>1, <1>3
  <2>2. \A i \in 1..Len(d) : d[i] = c[i]
    BY <2>1 DEF Run
  <2> QED
    BY <2>1, <2>2, PrefixFacts
<1> QED
  BY <1>2, <1>3

(* Of a run from 1, and one that starts there or just after it.            *)
InPlace(d, c, e, opened) ==
    \A from \in {1, Len(d) + 1} :
        Run(d, 1) /\ Run(c, from) => /\ Run(d \o e, 1)
                                     /\ opened => Len(d \o e) = from - 1 + Len(c)

LEMMA PassedFacts ==
    ASSUME NEW r \in RecRecord, NEW c \in Seq(Text), NEW final \in BOOLEAN,
           NEW e, e = Passed(r, c, final)
    PROVE  /\ e \in Seq(Text)
           /\ ~final /\ ~Opened(r, c) => e = <<>>
           /\ final \/ Opened(r, c) => Continues(r.delivered, c, e) /\ InPlace(r.delivered, c, e, Opened(r, c))
<1>1. PICK d \in Seq(Text) : d = r.delivered
  BY DEF RecRecord
<1>2. /\ MinOverlap \in Nat \ {0} /\ MaxOverlap \in Nat /\ Len(c) \in Nat /\ Len(d) \in Nat
      /\ 0 \in 0..Len(c) /\ Len(c) \in 0..Len(c)
  BY AnswerAssumption
<1>3. /\ d \o <<>> = d /\ <<>> \o c = c /\ <<>> \in Seq(Text) /\ Len(<<>>) = 0 /\ ToSet(<<>>) = {}
      /\ Rest(c, 0) = c /\ Rest(c, Len(c)) = <<>> /\ SubSeq(c, 1, Len(c)) = c
      /\ SubSeq(c, 1, 0) = <<>> /\ (c # <<>> => Len(c) # 0)
  BY EmptyFacts
<1>4. CASE d = <<>>
  <2>1. e = c /\ (Opened(r, c) <=> c # <<>>)
    BY <1>1, <1>4 DEF Passed, Opened
  <2>2. Continues(d, c, e)
    BY <1>2, <1>3, <2>1 DEF Continues
  <2>3. InPlace(d, c, e, Opened(r, c))
    <3>1. Len(d) = 0 /\ d \o e = c
      BY <1>3, <1>4, <2>1
    <3> QED
      BY <1>2, <3>1 DEF InPlace
  <2> QED
    BY <1>1, <2>1, <2>2, <2>3
<1>5. CASE d # <<>> /\ IsPrefix(c, d)
  <2>1. e = <<>> /\ ~Opened(r, c)
    BY <1>1, <1>5 DEF Passed, Opened
  <2>2. ToSet(c) \subseteq ToSet(d)
    <3>1. Len(c) <= Len(d) /\ \A i \in 1..Len(c) : c[i] = d[i]
      BY <1>5, PrefixFacts
    <3>2. \A i \in 1..Len(c) : i \in 1..Len(d)
      BY <1>2, <3>1
    <3>3. \A x \in ToSet(c) : \E i \in 1..Len(c) : x = c[i]
      BY SeqFacts
    <3>4. \A i \in 1..Len(d) : d[i] \in ToSet(d)
      BY SeqFacts
    <3> QED
      BY <3>1, <3>2, <3>3, <3>4
  <2>3. Continues(d, c, e)
    BY <1>2, <1>3, <2>1, <2>2 DEF Continues
  <2>4. InPlace(d, c, e, Opened(r, c))
    BY <1>3, <2>1 DEF InPlace
  <2> QED
    BY <1>1, <1>3, <2>1, <2>3, <2>4
<1>6. CASE d # <<>> /\ ~IsPrefix(c, d) /\ IsPrefix(d, c)
  <2>1. e = Rest(c, Len(d)) /\ Opened(r, c)
    <3>1. c # <<>>
      <4>1. ASSUME c = <<>>
            PROVE  FALSE
        <5>1. Len(c) <= Len(d) /\ \A i \in 1..Len(c) : c[i] = d[i]
          BY <1>2, <1>3, <4>1
        <5> QED
          BY <1>6, <5>1, PrefixFacts
      <4> QED
        BY <4>1
    <3> QED
      BY <1>1, <1>6, <3>1 DEF Passed, Opened
  <2>2. Len(d) <= Len(c) /\ (\A i \in 1..Len(d) : d[i] = c[i]) /\ SubSeq(c, 1, Len(d)) = d
        /\ d \o Rest(c, Len(d)) = c /\ Len(d) \in 0..Len(c)
    <3>1. Len(d) <= Len(c) /\ (\A i \in 1..Len(d) : d[i] = c[i]) /\ SubSeq(c, 1, Len(d)) = d
          /\ d \o Rest(c, Len(d)) = c
      BY <1>6, PrefixFacts
    <3> QED
      BY <1>2, <3>1
  <2>3. Continues(d, c, e)
    BY <2>1, <2>2 DEF Continues
  <2>4. e \in Seq(Text) /\ Len(e) = Len(c) - Len(d)
    BY <2>1, <2>2, CutFacts
  <2>6. InPlace(d, c, e, Opened(r, c))
    <3> SUFFICES ASSUME NEW from \in {1, Len(d) + 1}, Run(d, 1), Run(c, from)
                 PROVE  Run(c, 1) /\ Len(c) = from - 1 + Len(c)
      BY <2>1, <2>2 DEF InPlace
    <3>1. Len(d) # 0 /\ 1 \in 1..Len(d) /\ 1 \in 1..Len(c)
      BY <1>2, <1>6, <2>2
    <3>2. d[1] = 1 /\ c[1] = from /\ d[1] = c[1]
      <4>1. from \in Nat
        BY <1>2
      <4>2. d[1] = 1 + 1 - 1 /\ c[1] = from + 1 - 1
        BY <3>1 DEF Run
      <4> QED
        BY <2>2, <3>1, <4>1, <4>2
    <3> QED
      BY <1>2, <3>2
  <2> QED
    BY <1>1, <2>1, <2>3, <2>4, <2>6
<1> DEFINE ks == Overlaps(r, c)
<1>7. CASE d # <<>> /\ ~IsPrefix(c, d) /\ ~IsPrefix(d, c) /\ ks # {}
  <2>1. PICK k \in ks : k = Longest(ks)
    <3>1. Len(c) \in Nat /\ ks \in SUBSET (0..Len(c))
      BY <1>2 DEF Overlaps
    <3> QED
      BY <1>7, <3>1, Greatest
  <2>2. k \in MinOverlap..MaxOverlap /\ k <= Len(c) /\ IsSuffix(SubSeq(c, 1, k), d)
    BY <1>1, <2>1 DEF Overlaps
  <2>3. k \in 0..Len(c) /\ k \in Nat /\ 1 <= k /\ MinOverlap <= k /\ c # <<>> /\ Len(c) >= MinOverlap
    BY <1>2, <1>3, <2>2
  <2>4. e = Rest(c, k) /\ Opened(r, c)
    BY <1>1, <1>7, <2>1, <2>3 DEF Passed, Opened
  <2>5. SubSeq(c, 1, k) \in Seq(Text) /\ Len(SubSeq(c, 1, k)) = k /\ SubSeq(c, 1, k)[1] = c[1]
        /\ e \in Seq(Text)
    BY <2>3, <2>4, CutFacts
  <2>6. ToSet(SubSeq(c, 1, k)) \subseteq ToSet(d)
    BY <2>2, <2>5, PrefixFacts
  <2>7. Continues(d, c, e)
    BY <2>3, <2>4, <2>6 DEF Continues
  <2>8. ASSUME NEW from \in {1, Len(d) + 1}, Run(d, 1), Run(c, from)
        PROVE  FALSE
    <3>1. from # 1
      BY <1>7, <2>8, TwoRuns
    <3>2. c[1] = Len(d) + 1
      <4>1. 1 \in 1..Len(c)
        BY <1>2, <2>3
      <4>2. c[1] = from + 1 - 1
        BY <2>8, <4>1 DEF Run
      <4> QED
        BY <1>2, <3>1, <4>2
    <3>3. c[1] \in ToSet(d)
      <4>1. 1 \in 1..k
        BY <2>3
      <4>2. SubSeq(c, 1, k)[1] \in ToSet(SubSeq(c, 1, k))
        BY <2>5, <4>1, SeqFacts
      <4> QED
        BY <2>5, <2>6, <4>2
    <3>4. ToSet(d) = 1..(1 + Len(d) - 1)
      BY <2>8, TextIsNumbers, RunFacts
    <3> QED
      BY <1>2, <3>2, <3>3, <3>4
  <2>9. InPlace(d, c, e, Opened(r, c))
    BY <2>8 DEF InPlace
  <2> QED
    BY <1>1, <2>4, <2>5, <2>7, <2>9
<1>8. CASE d # <<>> /\ ~IsPrefix(c, d) /\ ~IsPrefix(d, c) /\ ks = {} /\ (final \/ Len(c) >= MinOverlap)
  <2>1. e = c
    BY <1>1, <1>8 DEF Passed
  <2>2. Continues(d, c, e)
    BY <1>2, <1>3, <2>1 DEF Continues
  <2>3. InPlace(d, c, e, Opened(r, c))
    <3> SUFFICES ASSUME NEW from \in {1, Len(d) + 1}, Run(d, 1), Run(c, from)
                 PROVE  Run(d \o c, 1) /\ Len(d \o c) = from - 1 + Len(c)
      BY <2>1 DEF InPlace
    <3>1. from = Len(d) + 1
      BY <1>8, TwoRuns
    <3>2. Len(d \o c) = Len(d) + Len(c)
      BY ConcatFacts
    <3>3. Run(d \o c, 1)
      <4>1. c \in Seq(Nat) /\ d \in Seq(Nat) /\ 1 \in Nat /\ 1 + Len(d) = from
        BY <1>2, <3>1, TextIsNumbers
      <4> QED
        BY <4>1, RunConcat
    <3> QED
      BY <1>2, <3>1, <3>2, <3>3
  <2>5. ~final => Opened(r, c)
    <3>1. Len(c) >= MinOverlap => c # <<>>
      BY <1>2, <1>3
    <3> QED
      BY <1>1, <1>8, <3>1 DEF Opened
  <2> QED
    BY <1>1, <2>1, <2>2, <2>3, <2>5
<1>9. CASE /\ d # <<>> /\ ~IsPrefix(c, d) /\ ~IsPrefix(d, c) /\ ks = {}
           /\ ~(final \/ Len(c) >= MinOverlap)
  <2>1. e = <<>> /\ ~Opened(r, c)
    BY <1>1, <1>9 DEF Passed, Opened
  <2> QED
    BY <1>3, <1>9, <2>1
<1> QED
  BY <1>4, <1>5, <1>6, <1>7, <1>8, <1>9

-----------------------------------------------------------------------------
(* The inductive invariant.  Call: what the upstream has written in this   *)
(* call is the answer from call.from on, and a call that is over stays so. *)
(* Reach: up to its last symbol the delivered text has no gap, as a set; a *)
(* call that runs starts within it or just after it; and what the call has *)
(* written is delivered or still in the reconciler's buffer.  InOrder: as  *)
(* long as no continuation has started inside the text it is the answer's  *)
(* beginning, and what was sent and is held back is part of it, in order.  *)
CallRecord == [stage : Stages, from : 1..N + 1, said : 0..N, cur : Seq(Text), final : BOOLEAN,
               revised : BOOLEAN]
Live == call.stage \in Running \cup {"ok"} /\ end = "none"
Buffered == n > 1 /\ ~rec.through

(* Text has been emitted if and only if some was said.                     *)
SaidOK(c) == c.said + 1 >= c.from /\ (c.cur = <<>> <=> c.said + 1 = c.from)

CallOK ==
    /\ n = 0 <=> call.stage = "none"
    /\ n = 0 => text = <<>> /\ end = "none"
    /\ Run(call.cur, call.from) /\ call.from - 1 + Len(call.cur) <= N
    /\ end # "none" => call.stage \in {"ok"} \cup Failures
    /\ call.stage = "ok" => Said
    /\ n = 1 => call.from = 1
    /\ call.final => call.cur = <<>>
    /\ SaidOK(call)

Reach ==
    /\ text # <<>> => 1..Last(text) \subseteq ToSet(text)
    /\ Live => /\ 1..call.from - 1 \subseteq ToSet(text)
               /\ IF Buffered THEN rec.buffer = call.cur /\ rec.delivered = text
                  ELSE ToSet(call.cur) \subseteq ToSet(text)
               /\ n = 1 => text = call.cur

InOrder ==
    ~overlapped =>
        /\ Run(text, 1) /\ Ordered
        /\ Live => IF Buffered THEN call.from \in {1, Len(text) + 1}
                   ELSE Len(text) = call.from - 1 + Len(call.cur)

StreamInv == TypeOK /\ CallOK /\ Reach /\ InOrder /\ NoHoles /\ WholeAnswer

LEMMA Typing ==
    ASSUME TypeOK
    PROVE  /\ n \in Nat /\ call \in CallRecord /\ rec \in RecRecord /\ Texts
           /\ call.stage \in Stages /\ call.from \in Nat \ {0} /\ call.from <= N + 1
           /\ call.said \in Nat /\ call.said <= N /\ call.cur \in Seq(Text) /\ call.final \in BOOLEAN /\ call.revised \in BOOLEAN
           /\ rec.delivered \in Seq(Text) /\ rec.buffer \in Seq(Text) /\ rec.through \in BOOLEAN
           /\ text \in Seq(Text) /\ pending \in Seq(Text) /\ held \in Seq(Text) /\ out \in Seq(Text)
           /\ ask.policy \in BOOLEAN /\ ask.callable \in BOOLEAN
BY CallAssumption DEF TypeOK, CallRecord, RecRecord, Texts

Joined(u, a, b) == u = a \o b

LEMMA JoinedFacts ==
    ASSUME NEW a \in Seq(Text), NEW b \in Seq(Text), NEW u, Joined(u, a, b)
    PROVE  /\ u \in Seq(Text) /\ Len(u) = Len(a) + Len(b) /\ Len(a) \in Nat /\ Len(b) \in Nat
           /\ Len(a) \in 0..Len(u)
           /\ SubSeq(u, 1, Len(a)) = a /\ Rest(u, Len(a)) = b
           /\ ToSet(u) = ToSet(a) \cup ToSet(b)
<1>1. /\ a \o b \in Seq(Text) /\ Len(a \o b) = Len(a) + Len(b) /\ Len(a) \in Nat /\ Len(b) \in Nat
      /\ \A i \in 1..Len(b) : (a \o b)[Len(a) + i] = b[i]
      /\ ToSet(a \o b) = ToSet(a) \cup ToSet(b)
  BY ConcatFacts
<1>2. IsPrefix(a, a \o b)
  BY PrefixFacts
<1>3. PICK v \in Seq(Text) : v = a \o b
  BY <1>1
<1>4. /\ Len(v) = Len(a) + Len(b) /\ \A i \in 1..Len(b) : v[Len(a) + i] = b[i]
      /\ IsPrefix(a, v) /\ u = v
  BY <1>1, <1>2, <1>3 DEF Joined
<1> HIDE <1>3
<1>5. SubSeq(v, 1, Len(a)) = a
  BY <1>4, PrefixFacts
<1>6. PICK k \in 0..Len(v) : k = Len(a)
  <2>1. Len(a) \in 0..Len(v)
    BY <1>1, <1>4
  <2> QED
    BY <2>1
<1>7. /\ Rest(v, k) \in Seq(Text) /\ Len(Rest(v, k)) = Len(v) - k
      /\ \A i \in 1..Len(v) - k : Rest(v, k)[i] = v[k + i]
  BY CutFacts
<1>8. Len(v) - k = Len(b)
  BY <1>1, <1>4, <1>6
<1>9. Rest(v, k) = b
  BY <1>4, <1>6, <1>7, <1>8, SeqEqual
<1> QED
  BY <1>1, <1>4, <1>5, <1>6, <1>9 DEF Joined

(* What the text becomes when the reconciler has seen c of the call.       *)
Reconciles(c, final, p, t) ==
    /\ p.emit \in Seq(Text) /\ p.next \in RecRecord /\ t \in Seq(Text)
    /\ final \/ n = 1 \/ p.next.through => ToSet(c) \subseteq ToSet(t)
    /\ ~final /\ n > 1 /\ ~p.next.through =>
          /\ p.emit = <<>> /\ t = text /\ p.next.buffer = c /\ p.next.delivered = text
          /\ ~overlapped => call.from \in {1, Len(text) + 1}
    /\ t # <<>> => 1..Last(t) \subseteq ToSet(t)
    /\ 1..call.from - 1 \subseteq ToSet(t)
    /\ n = 1 => t = c
    /\ ~overlapped => /\ Run(t, 1)
                      /\ ~final /\ (n = 1 \/ p.next.through) => Len(t) = call.from - 1 + Len(c)

LEMMA Reconciling ==
    ASSUME TypeOK, CallOK, Reach, InOrder, Live, n # 0, NEW f \in Seq(Text), NEW c \in Seq(Text),
           Joined(c, call.cur, f), Run(c, call.from), NEW final \in BOOLEAN, final => f = <<>>,
           NEW p, p = Reconciled(f, final), NEW t, Joined(t, text, p.emit)
    PROVE  Reconciles(c, final, p, t)
<1>1. PICK x \in Seq(Text), cur \in Seq(Text), from \in Nat \ {0} :
            x = text /\ cur = call.cur /\ from = call.from
  BY Typing
<1>2. /\ n \in Nat \ {0} /\ rec \in RecRecord /\ x \o <<>> = x /\ <<>> \in Seq(Text)
      /\ 1..from - 1 \subseteq ToSet(x) /\ (x # <<>> => 1..Last(x) \subseteq ToSet(x))
      /\ Joined(c, cur, f) /\ Joined(t, x, p.emit) /\ Run(c, from)
  <2>1. n \in Nat \ {0} /\ rec \in RecRecord
    BY Typing
  <2>2. x \o <<>> = x /\ <<>> \in Seq(Text)
    BY EmptyFacts
  <2>3. 1..from - 1 \subseteq ToSet(x) /\ (x # <<>> => 1..Last(x) \subseteq ToSet(x))
    BY <1>1 DEF Reach
  <2> QED
    BY <1>1, <2>1, <2>2, <2>3
<1>3. /\ Len(c) = Len(cur) + Len(f) /\ Len(cur) \in Nat /\ Len(f) \in Nat
      /\ SubSeq(c, 1, Len(cur)) = cur /\ Rest(c, Len(cur)) = f /\ Len(cur) \in 0..Len(c)
      /\ ToSet(c) = from..(from + Len(c) - 1)
  <2>1. /\ Len(c) = Len(cur) + Len(f) /\ Len(cur) \in Nat /\ Len(f) \in Nat
        /\ SubSeq(c, 1, Len(cur)) = cur /\ Rest(c, Len(cur)) = f /\ Len(cur) \in 0..Len(c)
    BY <1>1, <1>2, JoinedFacts
  <2>2. c \in Seq(Nat) /\ from \in Nat
    BY TextIsNumbers
  <2>3. Run(c, from)
    BY <1>2
  <2>4. ToSet(c) = from..(from + Len(c) - 1)
    BY <2>2, <2>3, RunFacts
  <2> QED
    BY <2>1, <2>4
<1>4. ASSUME Continues(x, c, p.emit)
      PROVE  /\ p.emit \in Seq(Text) /\ t \in Seq(Text) /\ ToSet(c) \subseteq ToSet(t)
             /\ t # <<>> => 1..Last(t) \subseteq ToSet(t)
             /\ 1..from - 1 \subseteq ToSet(t)
  <2>1. PICK e : e = p.emit
    OBVIOUS
  <2>2. Continues(x, c, e) /\ Run(c, from) /\ Joined(t, x, e)
    BY <1>2, <1>4, <2>1
  <2>3. /\ e \in Seq(Text) /\ ToSet(c) \subseteq ToSet(t)
        /\ e # <<>> => Last(t) = from - 1 + Len(c)
    <3>1. PICK u : u = x \o e
      OBVIOUS
    <3>2. u = t
      BY <2>2, <3>1 DEF Joined
    <3>3. /\ e \in Seq(Text) /\ ToSet(c) \subseteq ToSet(x \o e)
          /\ e # <<>> => Last(x \o e) = from - 1 + Len(c)
      BY <2>2, ContinuesFacts
    <3> QED
      BY <3>1, <3>2, <3>3
  <2>4. t \in Seq(Text) /\ ToSet(t) = ToSet(x) \cup ToSet(e)
    BY <2>2, <2>3, JoinedFacts
  <2>5. e # <<>> => 1..(from - 1 + Len(c)) \subseteq ToSet(t)
    <3> SUFFICES ASSUME NEW i \in 1..(from - 1 + Len(c))
                 PROVE  i \in 1..from - 1 \/ i \in from..(from + Len(c) - 1)
      BY <1>2, <1>3, <2>3, <2>4
    <3> QED
      BY <1>3
  <2>6. e = <<>> => t = x
    BY <1>2, <2>2 DEF Joined
  <2> QED
    BY <1>2, <2>1, <2>3, <2>4, <2>5, <2>6
<1>5. CASE Buffered
  <2>1. rec.buffer = cur /\ rec.delivered = x /\ ~rec.through /\ n > 1
    BY <1>1, <1>5 DEF Reach, Buffered
  <2>2. /\ p.emit = Passed(rec, c, final)
        /\ p.next = IF Opened(rec, c) THEN [rec EXCEPT !.buffer = <<>>, !.through = TRUE]
                    ELSE [rec EXCEPT !.buffer = c]
    <3>1. c = rec.buffer \o f
      BY <1>2, <2>1 DEF Joined
    <3> QED
      BY <2>1, <3>1 DEF Reconciled, Push
  <2>3. /\ p.next \in RecRecord /\ (p.next.through <=> Opened(rec, c))
        /\ p.next.delivered = x /\ (~Opened(rec, c) => p.next.buffer = c)
    <3>1. CASE Opened(rec, c)
      <4>1. p.next = [rec EXCEPT !.buffer = <<>>, !.through = TRUE]
        BY <2>2, <3>1
      <4> QED
        BY <1>2, <2>1, <3>1, <4>1 DEF RecRecord
    <3>2. CASE ~Opened(rec, c)
      <4>1. p.next = [rec EXCEPT !.buffer = c]
        BY <2>2, <3>2
      <4> QED
        BY <1>2, <2>1, <3>2, <4>1 DEF RecRecord
    <3> QED
      BY <3>1, <3>2
  <2>4. /\ ~final /\ ~Opened(rec, c) => p.emit = <<>>
        /\ final \/ Opened(rec, c) => Continues(x, c, p.emit) /\ InPlace(x, c, p.emit, Opened(rec, c))
    BY <1>2, <2>1, <2>2, PassedFacts
  <2>5. ~overlapped => Run(x, 1) /\ from \in {1, Len(x) + 1}
    BY <1>1, <1>5 DEF InOrder
  <2>6. ASSUME final \/ Opened(rec, c), ~overlapped
        PROVE  Run(t, 1) /\ (Opened(rec, c) => Len(t) = from - 1 + Len(c))
    <3>1. t = x \o p.emit /\ Run(c, from)
      BY <1>2 DEF Joined
    <3> QED
      BY <2>4, <2>5, <2>6, <3>1 DEF InPlace
  <2>7. CASE final \/ Opened(rec, c)
    <3>1. n # 1
      BY <1>2, <2>1
    <3> QED
      BY <1>1, <1>4, <2>3, <2>4, <2>6, <2>7, <3>1 DEF Reconciles
  <2>8. CASE ~final /\ ~Opened(rec, c)
    <3>1. p.emit = <<>> /\ t = x /\ n # 1 /\ ~p.next.through
      BY <1>2, <2>1, <2>3, <2>4, <2>8 DEF Joined
    <3> QED
      BY <1>1, <1>2, <2>3, <2>5, <2>8, <3>1 DEF Reconciles
  <2> QED
    BY <2>7, <2>8
<1>6. CASE ~Buffered
  <2>1. n = 1 \/ (rec.through /\ n > 1)
    <3>1. n = 1 \/ n > 1
      BY <1>2
    <3> QED
      BY <1>6, <3>1 DEF Buffered
  <2>2. p.emit = f /\ p.next = rec
    BY <1>2, <2>1 DEF Reconciled, Push
  <2>3. ToSet(cur) \subseteq ToSet(x) /\ (n = 1 => x = cur)
    BY <1>1, <1>6 DEF Reach
  <2>4. Continues(x, c, f)
    BY <1>3, <2>3 DEF Continues
  <2>5. ASSUME ~overlapped
        PROVE  Run(t, 1) /\ Len(t) = from - 1 + Len(c)
    <3>1. Run(x, 1) /\ Len(x) = from - 1 + Len(cur)
      BY <1>1, <1>6, <2>5 DEF InOrder
    <3>2. Len(x \o f) = Len(x) + Len(f) /\ Len(x) \in Nat
      BY ConcatFacts
    <3>3. f \in Seq(Nat) /\ cur \in Seq(Nat) /\ x \in Seq(Nat) /\ 1 \in Nat /\ from \in Nat
      BY TextIsNumbers
    <3>4. Run(f, from + Len(cur))
      <4>1. Run(cur \o f, from)
        BY <1>2 DEF Joined
      <4> QED
        BY <3>3, <4>1, RunConcat
    <3>5. from + Len(cur) = 1 + Len(x)
      BY <1>3, <3>1
    <3>6. Run(x \o f, 1)
      BY <3>1, <3>3, <3>4, <3>5, RunConcat
    <3> QED
      <4>1. t = x \o f
        BY <1>2, <2>2 DEF Joined
      <4>2. Len(x) + Len(f) = from - 1 + Len(c)
        BY <1>3, <3>1
      <4> QED
        BY <3>2, <3>6, <4>1, <4>2
  <2>6. /\ f \in Seq(Text) /\ t \in Seq(Text) /\ ToSet(c) \subseteq ToSet(t)
        /\ (t # <<>> => 1..Last(t) \subseteq ToSet(t)) /\ 1..from - 1 \subseteq ToSet(t)
    BY <1>4, <2>2, <2>4
  <2>7. n = 1 => t = c
    <3>1. t = x \o f /\ c = cur \o f
      BY <1>2, <2>2 DEF Joined
    <3> QED
      BY <2>3, <3>1
  <2>8. n = 1 \/ p.next.through
    BY <2>1, <2>2
  <2> QED
    BY <1>1, <1>2, <2>1, <2>2, <2>5, <2>6, <2>7, <2>8 DEF Reconciles
<1> QED
  BY <1>5, <1>6

-----------------------------------------------------------------------------
(* Steps that leave the answer alone.                                      *)
Elsewhere == UNCHANGED <<ask, text, pending, held, out, overlapped>>
SameCall == call'.from = call.from /\ call'.cur = call.cur /\ call'.said = call.said

LEMMA Kept ==
    ASSUME Reach, InOrder, NoHoles, Elsewhere, Live' => Live /\ SameCall /\ UNCHANGED <<rec, n>>
    PROVE  Reach' /\ InOrder' /\ NoHoles'
<1>1. NoHoles'
  BY DEF NoHoles, Elsewhere, Onward, FenceDone
<1>2. Reach'
  <2>1. text # <<>> => 1..Last(text) \subseteq ToSet(text)
    BY DEF Reach
  <2>2. ASSUME Live'
        PROVE  /\ 1..call'.from - 1 \subseteq ToSet(text')
               /\ IF Buffered' THEN rec'.buffer = call'.cur /\ rec'.delivered = text'
                  ELSE ToSet(call'.cur) \subseteq ToSet(text')
               /\ n' = 1 => text' = call'.cur
    <3>1. Live /\ SameCall /\ UNCHANGED <<rec, n>> /\ text' = text
      BY <2>2 DEF Elsewhere
    <3>2. Buffered' <=> Buffered
      BY <3>1 DEF Buffered
    <3> QED
      BY <3>1, <3>2 DEF Reach, SameCall
  <2> QED
    BY <2>1, <2>2 DEF Reach, Elsewhere
<1>3. InOrder'
  <2> SUFFICES ASSUME ~overlapped'
               PROVE  /\ Run(text', 1) /\ Ordered'
                      /\ Live' => IF Buffered' THEN call'.from \in {1, Len(text') + 1}
                                  ELSE Len(text') = call'.from - 1 + Len(call'.cur)
    BY DEF InOrder
  <2>1. ~overlapped /\ text' = text
    BY DEF Elsewhere
  <2>2. Run(text', 1)
    BY <2>1 DEF InOrder
  <2>3. Ordered'
    BY <2>1 DEF InOrder, Ordered, Onward, Elsewhere, Rising
  <2>4. ASSUME Live'
        PROVE  IF Buffered' THEN call'.from \in {1, Len(text') + 1}
               ELSE Len(text') = call'.from - 1 + Len(call'.cur)
    <3>1. Live /\ SameCall /\ UNCHANGED <<rec, n>>
      BY <2>4
    <3>2. Buffered' <=> Buffered
      BY <3>1 DEF Buffered
    <3> QED
      BY <2>1, <3>1, <3>2 DEF InOrder, SameCall
  <2> QED
    BY <2>2, <2>3, <2>4
<1> QED
  BY <1>1, <1>2, <1>3

LEMMA GotoFacts ==
    ASSUME call \in CallRecord, NEW stage \in Stages \ {"none"}, Goto(stage)
    PROVE  /\ call' \in CallRecord /\ call'.stage = stage
           /\ stage \notin Failures => SameCall /\ call'.final = call.final /\ call'.revised = call.revised
           /\ stage \in Failures =>
                 /\ call'.from = 1 /\ call'.said = 0 /\ call'.cur = <<>>
                 /\ call'.final = FALSE /\ call'.revised = FALSE
<1>1. CASE stage \in Failures
  <2>1. /\ call' = NewCall(stage, 1) /\ 1 \in 1..N + 1 /\ 0 \in 0..N /\ 1 - 1 = 0
        /\ <<>> \in Seq(Text)
    BY <1>1, CallAssumption DEF Goto
  <2> QED
    BY <1>1, <2>1 DEF NewCall, CallRecord
<1>2. CASE stage \notin Failures
  <2>1. call' = [call EXCEPT !.stage = stage]
    BY <1>2 DEF Goto
  <2> QED
    BY <1>2, <2>1 DEF CallRecord, SameCall
<1> QED
  BY <1>1, <1>2

LEMMA StepsOfTheCall ==
    ASSUME TypeOK, CallOK, CallStep
    PROVE  /\ TypeOK' /\ CallOK' /\ Elsewhere /\ UNCHANGED <<n, rec, tools, end>>
           /\ end = "none" /\ n # 0 /\ (Live' => Live /\ SameCall)
<1>1. /\ end = "none" /\ UNCHANGED <<text, rec, pending, held, tools, out, end, overlapped>>
      /\ call \in CallRecord
  BY Typing DEF CallStep
<1>2. /\ call.stage \in Running /\ UNCHANGED <<ask, n, uploads, doc, ctx>> /\ sent' \in 0..MaxCalls
      /\ \/ \E stage \in Stages \ {"none"} : Goto(stage) /\ (stage = "ok" => Said)
         \/ call' = [call EXCEPT !.revised = TRUE] /\ call.stage = "read"
         \/ call' = [call EXCEPT !.final = TRUE] /\ call.stage = "read" /\ call.cur = <<>>
  <2>1. \A stage \in {"ok"} \cup Running \cup Failures : stage \in Stages \ {"none"}
    BY DEF Stages, Running, Failures
  <2>2. sent \in 0..MaxCalls /\ doc \in 0..MaxCalls
    BY DEF TypeOK
  <2>3. CASE Connected
    BY <2>1, <2>2, <2>3 DEF Connected, Ends, Running, Failures
  <2>4. CASE DialFails
    BY <2>1, <2>2, <2>4 DEF DialFails, Ends, Running, Failures
  <2>5. CASE AwaitUpload
    BY <2>1, <2>2, <2>5 DEF AwaitUpload, Ends, Running, Failures
  <2>6. CASE ShakeHands
    BY <2>1, <2>2, <2>6 DEF ShakeHands, Ends, Running, Failures
  <2>7. CASE Send
    BY <2>1, <2>2, <2>7 DEF Send, Running, Failures
  <2>8. CASE SendFails
    BY <2>1, <2>2, <2>8 DEF SendFails, Ends, Running, Failures
  <2>9. CASE Revise
    BY <2>2, <2>9 DEF Revise, Running
  <2>10. CASE ResultFrame
    BY <2>2, <2>10 DEF ResultFrame, Running
  <2>11. CASE Completion
    BY <2>1, <2>2, <2>11 DEF Completion, Ends, Running, Failures
  <2>12. CASE CompletionError \/ Dropped \/ Deadline
    BY <2>1, <2>2, <2>12 DEF CompletionError, Dropped, Deadline, Ends, Running, Failures
  <2>13. CASE Cancelled
    BY <2>1, <2>2, <2>13 DEF Cancelled, Running, Failures
  <2> QED
    BY <2>3, <2>4, <2>5, <2>6, <2>7, <2>8, <2>9, <2>10, <2>11, <2>12, <2>13 DEF CallStep
<1>3. call.stage # "none" /\ n # 0
  BY <1>2 DEF CallOK, Running
<1>4. /\ call' \in CallRecord /\ call'.stage # "none" /\ (call'.stage = "ok" => Said')
      /\ \/ SameCall /\ (call'.final => call'.cur = <<>>)
         \/ call'.stage \in Failures /\ call'.from = 1 /\ call'.said = 0 /\ call'.cur = <<>>
  <2>1. CASE \E stage \in Stages \ {"none"} : Goto(stage) /\ (stage = "ok" => Said)
    <3>1. PICK stage \in Stages \ {"none"} : Goto(stage) /\ (stage = "ok" => Said)
      BY <2>1
    <3>2. /\ call' \in CallRecord /\ call'.stage = stage
          /\ stage \notin Failures => SameCall /\ call'.final = call.final /\ call'.revised = call.revised
          /\ stage \in Failures => call'.from = 1 /\ call'.said = 0 /\ call'.cur = <<>>
      BY <1>1, <3>1, GotoFacts
    <3>3. stage = "ok" => Said'
      BY <3>1, <3>2 DEF Said, Failures, SameCall
    <3>4. stage \notin Failures => (call'.final => call'.cur = <<>>)
      BY <3>2 DEF CallOK, SameCall
    <3> QED
      BY <3>1, <3>2, <3>3, <3>4
  <2>2. CASE call' = [call EXCEPT !.revised = TRUE] /\ call.stage = "read"
    <3>1. call' \in CallRecord /\ SameCall /\ call'.stage = "read" /\ call'.final = call.final
      BY <1>1, <2>2 DEF CallRecord, SameCall
    <3> QED
      BY <3>1 DEF CallOK, SameCall
  <2>3. CASE call' = [call EXCEPT !.final = TRUE] /\ call.stage = "read" /\ call.cur = <<>>
    <3>1. call' \in CallRecord /\ SameCall /\ call'.stage = "read" /\ call'.cur = <<>>
      BY <1>1, <2>3 DEF CallRecord, SameCall
    <3> QED
      BY <3>1
  <2> QED
    BY <1>2, <2>1, <2>2, <2>3
<1>5. TypeOK'
  BY <1>1, <1>2, <1>4 DEF TypeOK, CallRecord
<1>6. CallOK'
  <2>1. n' = n /\ end' = end /\ text' = text
    BY <1>1, <1>2
  <2>2. /\ Run(call'.cur, call'.from) /\ call'.from - 1 + Len(call'.cur) <= N
        /\ (call'.final => call'.cur = <<>>) /\ (n = 1 => call'.from = 1) /\ SaidOK(call')
    <3>1. CASE SameCall /\ (call'.final => call'.cur = <<>>)
      BY <3>1 DEF SameCall, CallOK, SaidOK
    <3>2. CASE call'.stage \in Failures /\ call'.from = 1 /\ call'.said = 0 /\ call'.cur = <<>>
      <4>1. Len(<<>>) = 0 /\ 1 - 1 + 0 <= N
        BY CallAssumption
      <4> QED
        BY <3>2, <4>1 DEF Run, SaidOK
    <3> QED
      BY <1>4, <3>1, <3>2
  <2> QED
    BY <1>1, <1>3, <1>4, <2>1, <2>2 DEF CallOK
<1>7. Live' => Live /\ SameCall
  BY <1>1, <1>2, <1>4 DEF Live, Running, Failures
<1> QED
  BY <1>1, <1>2, <1>3, <1>5, <1>6, <1>7 DEF Elsewhere

LEMMA Around ==
    ASSUME StreamInv, CallStep \/ Uploading \/ ContextEnds \/ ToolEvent \/ GiveUp
    PROVE  StreamInv' /\ end = "none" /\ end' \in {"none", "error"} /\ UNCHANGED out
<1>1. TypeOK /\ CallOK /\ Reach /\ InOrder /\ NoHoles
  BY DEF StreamInv
<1>2. /\ TypeOK' /\ CallOK' /\ Elsewhere /\ end = "none" /\ end' \in {"none", "error"}
      /\ (Live' => Live /\ SameCall /\ UNCHANGED <<rec, n>>)
  <2>1. CASE CallStep
    BY <1>1, <2>1, StepsOfTheCall
  <2>2. CASE Uploading \/ ContextEnds \/ ToolEvent
    <3>1. /\ UNCHANGED <<ask, n, call, sent, text, rec, pending, held, out, end, overlapped>>
          /\ end = "none" /\ tools' \in BOOLEAN
      <4>1. CASE Uploading
        BY <1>1, <4>1 DEF Uploading, UploadWrites, UploadEnds, TypeOK
      <4>2. CASE ContextEnds
        BY <1>1, <4>2 DEF ContextEnds, Expire, TypeOK
      <4>3. CASE ToolEvent
        BY <1>1, <4>3 DEF ToolEvent, callVars, CallOK, Failures
      <4> QED
        BY <2>2, <4>1, <4>2, <4>3
    <3>2. /\ uploads' \in [Calls -> Uploads] /\ doc' \in 0..MaxCalls
          /\ ctx' \in {"live", "late", "left"}
      <4>1. uploads \in [Calls -> Uploads] /\ doc \in 0..MaxCalls /\ ctx \in {"live", "late", "left"}
        BY <1>1 DEF TypeOK
      <4>2. CASE Uploading
        <5>1. PICK k \in Calls : UploadWrites(k) \/ UploadEnds(k)
          BY <4>2 DEF Uploading
        <5>2. k \in 0..MaxCalls
          BY CallAssumption DEF Calls
        <5>3. {"wrote", "overwrote", "skipped", "failed"} \subseteq Uploads
          BY DEF Uploads
        <5>4. CASE UploadWrites(k)
          <6>1. ctx' = ctx /\ doc' = k
            BY <5>4 DEF UploadWrites
          <6>2. uploads' \in [Calls -> Uploads]
            BY <4>1, <5>3, <5>4 DEF UploadWrites
          <6> QED
            BY <4>1, <5>2, <6>1, <6>2
        <5>5. CASE UploadEnds(k)
          <6>1. ctx' = ctx /\ doc' = doc
            BY <5>5 DEF UploadEnds
          <6>2. uploads' \in [Calls -> Uploads]
            BY <4>1, <5>3, <5>5 DEF UploadEnds
          <6> QED
            BY <4>1, <6>1, <6>2
        <5> QED
          BY <5>1, <5>4, <5>5
      <4>3. CASE ContextEnds
        BY <4>1, <4>3 DEF ContextEnds, Expire
      <4>4. CASE ToolEvent
        BY <4>1, <4>4 DEF ToolEvent, callVars
      <4> QED
        BY <2>2, <4>2, <4>3, <4>4
    <3>3. TypeOK'
      BY <1>1, <3>1, <3>2 DEF TypeOK
    <3>4. CallOK'
      BY <1>1, <3>1 DEF CallOK, SaidOK, Said, Run
    <3>5. Live' => Live /\ SameCall
      BY <3>1 DEF Live, SameCall
    <3> QED
      BY <3>1, <3>3, <3>4, <3>5 DEF Elsewhere
  <2>3. CASE GiveUp
    <3>1. /\ UNCHANGED <<callVars, text, rec, pending, held, tools, out, overlapped>>
          /\ end = "none" /\ end' = "error" /\ call.stage \in Failures
      BY <2>3 DEF GiveUp
    <3>2. TypeOK'
      BY <1>1, <3>1 DEF TypeOK, callVars
    <3>3. CallOK'
      <4>1. n # 0
        BY <1>1, <3>1 DEF CallOK, Failures
      <4> QED
        BY <1>1, <3>1, <4>1 DEF CallOK, SaidOK, Said, Run, callVars
    <3> QED
      BY <3>1, <3>2, <3>3 DEF Elsewhere, Live, callVars
  <2> QED
    BY <2>1, <2>2, <2>3
<1>3. Reach' /\ InOrder' /\ NoHoles'
  BY <1>1, <1>2, Kept
<1>4. WholeAnswer'
  BY <1>2 DEF WholeAnswer
<1> QED
  BY <1>2, <1>3, <1>4 DEF StreamInv, Elsewhere

(* The first call and a repetition.                                        *)
LEMMA Starting ==
    ASSUME StreamInv, Start
    PROVE  StreamInv' /\ end = "none" /\ end' \in {"none", "error"} /\ UNCHANGED out
<1>1. /\ TypeOK /\ CallOK /\ Reach /\ InOrder /\ NoHoles
      /\ n = 0 /\ n < MaxCalls /\ n' = 1 /\ sent' = 0 /\ call' = NewCall("dial", 1)
      /\ uploads' = [uploads EXCEPT ![n + 1] = IF ask.image THEN "running" ELSE @]
      /\ UNCHANGED <<ask, doc, ctx, text, rec, pending, held, tools, out, end, overlapped>>
  BY DEF StreamInv, Start, Dial
<1>2. text = <<>> /\ end = "none"
  BY <1>1 DEF CallOK
<1>3. /\ call' \in CallRecord /\ call'.stage = "dial" /\ call'.from = 1 /\ call'.cur = <<>>
      /\ call'.said = 0 /\ call'.final = FALSE
  <2>1. "dial" \in Stages /\ 1 \in 1..N + 1 /\ 0 \in 0..N /\ 1 - 1 = 0 /\ <<>> \in Seq(Text)
    BY CallAssumption DEF Stages, Running
  <2> QED
    BY <1>1, <2>1 DEF NewCall, CallRecord
<1>4. TypeOK'
  <2>1. uploads' \in [Calls -> Uploads]
    BY <1>1 DEF TypeOK, Uploads
  <2>2. 1 \in 0..MaxCalls /\ 0 \in 0..MaxCalls
    BY CallAssumption
  <2> QED
    BY <1>1, <1>3, <2>1, <2>2 DEF TypeOK, CallRecord
<1>5. CallOK'
  <2>1. Len(<<>>) = 0 /\ 1 - 1 + 0 <= N
    BY CallAssumption
  <2> QED
    BY <1>1, <1>2, <1>3, <2>1 DEF CallOK, SaidOK, Run
<1>6. Len(<<>>) = 0 /\ ToSet(<<>>) = {} /\ 1..(1 - 1) = {}
  BY EmptyFacts DEF ToSet
<1>7. ~Buffered'
  BY <1>1 DEF Buffered
<1>8. Reach'
  BY <1>1, <1>2, <1>3, <1>6, <1>7 DEF Reach
<1>9. InOrder'
  <2>1. Ordered' <=> Ordered
    BY <1>1 DEF Ordered, Onward, Rising
  <2>2. Run(text', 1)
    BY <1>1, <1>2, <1>6 DEF Run
  <2> QED
    BY <1>1, <1>2, <1>3, <1>6, <1>7, <2>1, <2>2 DEF InOrder
<1>10. NoHoles' /\ WholeAnswer'
  BY <1>1, <1>2 DEF NoHoles, Onward, FenceDone, WholeAnswer
<1> QED
  BY <1>1, <1>2, <1>4, <1>5, <1>8, <1>9, <1>10 DEF StreamInv

LEMMA Retrying ==
    ASSUME StreamInv, NEW from \in Text \cup {N + 1}, Retry(from)
    PROVE  StreamInv' /\ end = "none" /\ end' \in {"none", "error"} /\ UNCHANGED out
<1>1. /\ TypeOK /\ CallOK /\ Reach /\ InOrder /\ NoHoles /\ end = "none" /\ call.stage \in Retryable
      /\ n < MaxCalls /\ n' = n + 1 /\ sent' = 0 /\ call' = NewCall("dial", from)
      /\ uploads' = [uploads EXCEPT ![n + 1] = IF ask.image THEN "running" ELSE @]
      /\ from \in GoesOn(text) /\ rec' = Reconciler(text)
      /\ overlapped' = (overlapped \/ (from \notin {1, N + 1} /\ from # Last(text) + 1))
      /\ UNCHANGED <<ask, doc, ctx, text, pending, held, tools, out, end>>
  BY DEF StreamInv, Retry, Dial
<1>2. n \in Nat \ {0} /\ text \in Seq(Text) /\ from \in 1..N + 1 /\ from \in Nat /\ N \in Nat \ {0}
  <2>1. n \in Nat /\ text \in Seq(Text) /\ N \in Nat \ {0}
    BY <1>1, CallAssumption, Typing
  <2>2. n # 0
    BY <1>1 DEF CallOK, Retryable
  <2>3. from \in 1..N + 1
    BY <2>1 DEF Text
  <2> QED
    BY <2>1, <2>2, <2>3
<1>3. /\ call' \in CallRecord /\ call'.stage = "dial" /\ call'.from = from /\ call'.cur = <<>>
      /\ call'.said = from - 1 /\ call'.final = FALSE
  <2>1. "dial" \in Stages /\ <<>> \in Seq(Text) /\ from - 1 \in 0..N
    BY <1>2 DEF Stages, Running
  <2> QED
    BY <1>1, <1>2, <2>1 DEF NewCall, CallRecord
<1>4. /\ rec' \in RecRecord /\ rec'.delivered = text /\ rec'.buffer = <<>> /\ ~rec'.through
  BY <1>1, <1>2 DEF Reconciler, RecRecord
<1>5. TypeOK'
  <2>1. uploads' \in [Calls -> Uploads]
    BY <1>1 DEF TypeOK, Uploads
  <2>2. n + 1 \in 0..MaxCalls /\ 0 \in 0..MaxCalls
    BY <1>1, <1>2, CallAssumption
  <2> QED
    BY <1>1, <1>3, <1>4, <2>1, <2>2 DEF TypeOK, CallRecord, RecRecord
<1>6. Len(<<>>) = 0 /\ ToSet(<<>>) = {}
  BY DEF ToSet
<1>7. CallOK'
  <2>1. n' # 0 /\ n' # 1 /\ from - 1 + 0 <= N
    BY <1>1, <1>2
  <2> QED
    BY <1>1, <1>2, <1>3, <1>6, <2>1 DEF CallOK, SaidOK, Run
<1>8. Buffered' /\ n' # 1
  BY <1>1, <1>2, <1>4 DEF Buffered
<1>9. from = 1 \/ (text # <<>> /\ (from = Last(text) + 1 \/ (from \in Nat /\ from <= Last(text) /\ from \in Text)))
  BY <1>1, AnswerAssumption DEF GoesOn, Text
<1>10. text # <<>> => Last(text) \in Nat \ {0}
  <2>1. text # <<>> => Len(text) \in 1..Len(text)
    BY <1>2
  <2>2. \A i \in 1..Len(text) : text[i] \in Nat \ {0}
    BY <1>2, CallAssumption DEF Text
  <2> QED
    BY <2>1, <2>2 DEF Last
<1>11. 1..from - 1 \subseteq ToSet(text)
  <2>1. CASE from = 1
    BY <2>1
  <2>2. CASE text # <<>> /\ from <= Last(text) + 1
    <3>1. 1..from - 1 \subseteq 1..Last(text)
      BY <1>2, <1>10, <2>2
    <3> QED
      BY <1>1, <2>2, <3>1 DEF Reach
  <2> QED
    BY <1>2, <1>9, <1>10, <2>1, <2>2
<1>12. Reach'
  <2>1. text # <<>> => 1..Last(text) \subseteq ToSet(text)
    BY <1>1 DEF Reach
  <2> QED
    BY <1>1, <1>3, <1>4, <1>8, <1>11, <2>1 DEF Reach
<1>13. InOrder'
  <2>1. Ordered' <=> Ordered
    BY <1>1 DEF Ordered, Onward, Rising
  <2>2. ASSUME ~overlapped'
        PROVE  Run(text, 1) /\ Ordered /\ from \in {1, Len(text) + 1}
    <3>1. ~overlapped /\ (from \in {1, N + 1} \/ from = Last(text) + 1)
      BY <1>1, <2>2
    <3>2. Run(text, 1) /\ Ordered
      BY <1>1, <3>1 DEF InOrder
    <3>3. text # <<>> => Last(text) = Len(text)
      <4>1. text # <<>> => Len(text) \in 1..Len(text) /\ Len(text) \in Nat
        BY <1>2
      <4>2. text # <<>> => text[Len(text)] = 1 + Len(text) - 1
        BY <3>2, <4>1 DEF Run
      <4> QED
        BY <4>1, <4>2 DEF Last
    <3>4. from = 1 \/ (text # <<>> /\ from = Last(text) + 1)
      <4>1. from = N + 1 => from \notin Text
        BY <1>2 DEF Text
      <4>2. CASE from = N + 1
        BY <1>2, <1>9, <4>1, <4>2
      <4>3. CASE from # N + 1
        <5>1. from = Last(text) + 1 /\ text = <<>> => from = 1
          BY <1>9
        <5> QED
          BY <3>1, <4>3, <5>1
      <4> QED
        BY <4>2, <4>3
    <3> QED
      BY <3>2, <3>3, <3>4
  <2> QED
    BY <1>1, <1>3, <1>8, <2>1, <2>2 DEF InOrder
<1>14. NoHoles' /\ WholeAnswer'
  BY <1>1 DEF NoHoles, Onward, FenceDone, WholeAnswer
<1> QED
  BY <1>1, <1>5, <1>7, <1>12, <1>13, <1>14 DEF StreamInv

(* A frame with text.                                                      *)
LEMMA UnseenFacts ==
    ASSUME TypeOK, CallOK, NEW frame \in Frames, NEW f, f = Unseen(call.cur, frame),
           NEW c, Joined(c, call.cur, f)
    PROVE  /\ f \in Seq(Text) /\ c \in Seq(Text) /\ Run(c, call.from)
           /\ call.from - 1 + Len(c) <= N
           /\ c # <<>> /\ Last(frame) \in call.from..N
<1>1. PICK cur \in Seq(Text), from \in Nat \ {0} : cur = call.cur /\ from = call.from
  BY Typing
<1>2. Run(cur, from) /\ from - 1 + Len(cur) <= N /\ N \in Nat \ {0}
  BY <1>1, CallAssumption DEF CallOK
<1>3. PICK a \in Nat \ {0}, b \in Nat : /\ frame = Span(a, b) /\ from <= a /\ a <= b /\ b <= N
                                     /\ (cur = <<>> => a = from)
  <2>1. PICK said \in Nat : said = call.said
    BY Typing
  <2>2. said + 1 >= from /\ (cur = <<>> => said + 1 = from)
    BY <1>1, <2>1 DEF CallOK, SaidOK
  <2>3. \/ \E b \in from..N : frame = Span(from, b)
        \/ \E b \in said + 1..N : frame = Span(said + 1, b)
    BY <1>1, <2>1 DEF Frames, Snapshots, Deltas
  <2>4. CASE \E b \in from..N : frame = Span(from, b)
    <3>1. PICK b \in from..N : frame = Span(from, b)
      BY <2>4
    <3>2. b \in Nat /\ from <= b /\ b <= N
      BY <1>1, <1>2, <3>1
    <3> QED
      BY <1>1, <3>1, <3>2
  <2>5. CASE \E b \in said + 1..N : frame = Span(said + 1, b)
    <3>1. PICK b \in said + 1..N : frame = Span(said + 1, b)
      BY <2>5
    <3>2. b \in Nat /\ said + 1 <= b /\ b <= N /\ said + 1 \in Nat \ {0}
      BY <1>2, <2>1, <3>1
    <3> QED
      BY <1>1, <2>2, <3>1, <3>2
  <2> QED
    BY <2>3, <2>4, <2>5
<1>4. from \in Nat \ {0} /\ a \in Nat \ {0} /\ b \in Nat
  BY <1>1, <1>3
<1>5. PICK m \in Nat \ {0} : m = b - a + 1
  <2>1. b - a + 1 \in Nat \ {0}
    BY <1>3, <1>4
  <2> QED
    BY <2>1
<1>6. frame = [i \in 1..m |-> a + i - 1]
  BY <1>3, <1>4, <1>5 DEF Span
<1>7. /\ frame \in Seq(Text) /\ Len(frame) = m /\ Run(frame, a)
      /\ Last(frame) \in from..N /\ frame # <<>>
  <2>1. \A i \in 1..m : a + i - 1 \in Text
    BY <1>2, <1>3, <1>4, <1>5 DEF Text
  <2>2. frame \in Seq(Text) /\ Len(frame) = m
    BY <1>6, <2>1
  <2>3. Run(frame, a)
    BY <1>6, <2>2 DEF Run
  <2>4. m \in 1..m /\ a + m - 1 = b
    BY <1>4, <1>5
  <2>5. Last(frame) = b
    BY <2>2, <2>3, <2>4 DEF Run, Last
  <2> QED
    BY <1>2, <1>3, <1>4, <1>5, <2>2, <2>3, <2>5, EmptyFacts
<1>8. CASE IsPrefix(cur, frame)
  <2>1. f = Rest(frame, Len(cur))
    BY <1>1, <1>8 DEF Unseen, Rest
  <2>2. cur \o f = frame /\ Len(cur) <= Len(frame)
    <3>1. PICK v \in Seq(Text) : v = frame
      BY <1>7
    <3>2. cur \in Seq(Text) /\ v \in Seq(Text) /\ IsPrefix(cur, v)
      BY <1>1, <1>8, <3>1
    <3>3. cur \o Rest(v, Len(cur)) = v
      BY <3>2, PrefixFacts
    <3>4. Len(cur) <= Len(v)
      BY <3>2, PrefixFacts
    <3> QED
      BY <2>1, <3>1, <3>3, <3>4
  <2>3. f \in Seq(Text)
    <3>1. Len(cur) \in 0..Len(frame)
      BY <1>1, <1>7, <2>2
    <3> QED
      BY <1>7, <2>1, <3>1, CutFacts
  <2>4. c = frame
    BY <1>1, <2>2 DEF Joined
  <2>5. a = from
    <3>1. CASE cur # <<>>
      <4>1. 1 \in 1..Len(cur) /\ 1 \in 1..m
        BY <1>1, <1>5, <3>1, SeqFacts
      <4>2. cur[1] = from /\ frame[1] = a
        BY <1>2, <1>4, <1>7, <4>1 DEF Run
      <4>3. cur[1] = frame[1]
        BY <1>1, <1>7, <1>8, <4>1, PrefixFacts
      <4> QED
        BY <4>2, <4>3
    <3> QED
      BY <1>3, <3>1
  <2>6. from - 1 + m <= N
    BY <1>3, <1>4, <1>5, <2>5
  <2> QED
    BY <1>1, <1>7, <2>3, <2>4, <2>5, <2>6
<1>9. CASE ~IsPrefix(cur, frame)
  <2>1. f = <<>>
    BY <1>1, <1>9 DEF Unseen
  <2>3. cur # <<>>
    BY <1>1, <1>7, <1>9, EmptyFacts, PrefixFacts, SMTT(60)
  <2>2. c = cur /\ f \in Seq(Text)
    BY <1>1, <2>1, EmptyFacts DEF Joined
  <2> QED
    BY <1>1, <1>2, <1>7, <2>2, <2>3
<1> QED
  BY <1>8, <1>9

(* The answer after a step that passes p on to the client.                 *)
LEMMA Answering ==
    ASSUME StreamInv, n # 0, Live, UNCHANGED <<ask, n, overlapped>>, NEW c \in Seq(Text),
           NEW final \in BOOLEAN, NEW p, NEW t, Reconciles(c, final, p, t), text' = t,
           Texts', NoHoles', ~overlapped => Ordered',
           Live' => ~final /\ call'.from = call.from /\ call'.cur = c /\ rec' = p.next
    PROVE  Reach' /\ InOrder'
<1>1. PICK from \in Nat \ {0} : from = call.from
  BY Typing DEF StreamInv
<1>2. /\ n \in Nat \ {0} /\ (final \/ n = 1 \/ p.next.through => ToSet(c) \subseteq ToSet(t))
      /\ (~final /\ n > 1 /\ ~p.next.through => t = text /\ p.next.buffer = c /\ p.next.delivered = text)
      /\ (t # <<>> => 1..Last(t) \subseteq ToSet(t)) /\ 1..from - 1 \subseteq ToSet(t)
      /\ (n = 1 => t = c)
  BY <1>1, Typing DEF StreamInv, Reconciles
<1>3. ASSUME ~overlapped
      PROVE  /\ Run(t, 1)
             /\ (~final /\ (n = 1 \/ p.next.through) => Len(t) = from - 1 + Len(c))
             /\ (~final /\ n > 1 /\ ~p.next.through => from \in {1, Len(t) + 1})
  BY <1>1, <1>3 DEF Reconciles
<1>4. ASSUME Live'
      PROVE  /\ ~final /\ call'.from = from /\ call'.cur = c
             /\ (Buffered' <=> n > 1 /\ ~p.next.through)
             /\ (~Buffered' => n = 1 \/ p.next.through)
             /\ (Buffered' => rec'.buffer = c /\ rec'.delivered = t)
  <2>1. ~final /\ call'.from = from /\ call'.cur = c /\ rec' = p.next /\ n' = n
    BY <1>1, <1>4
  <2>2. Buffered' <=> n > 1 /\ ~p.next.through
    BY <2>1 DEF Buffered
  <2>3. n = 1 \/ n > 1
    BY <1>2
  <2> QED
    BY <1>2, <2>1, <2>2, <2>3
<1>5. Reach'
  <2>1. ASSUME Live'
        PROVE  /\ 1..call'.from - 1 \subseteq ToSet(text')
               /\ IF Buffered' THEN rec'.buffer = call'.cur /\ rec'.delivered = text'
                  ELSE ToSet(call'.cur) \subseteq ToSet(text')
               /\ n' = 1 => text' = call'.cur
    BY <1>2, <1>4, <2>1
  <2> QED
    BY <1>2, <2>1 DEF Reach
<1>6. InOrder'
  <2> SUFFICES ASSUME ~overlapped'
               PROVE  /\ Run(text', 1) /\ Ordered'
                      /\ Live' => IF Buffered' THEN call'.from \in {1, Len(text') + 1}
                                  ELSE Len(text') = call'.from - 1 + Len(call'.cur)
    BY DEF InOrder
  <2>1. ~overlapped
    OBVIOUS
  <2> QED
    BY <1>3, <1>4, <2>1
<1> QED
  BY <1>5, <1>6

LEMMA Receiving ==
    ASSUME StreamInv, NEW frame \in Frames, Receive(frame)
    PROVE  StreamInv' /\ end = "none" /\ end' = "none" /\ out' \in Seq(Text) /\ IsPrefix(out, out')
<1>1. PICK f : f = Unseen(call.cur, frame)
  OBVIOUS
<1>2. PICK c : Joined(c, call.cur, f)
  BY DEF Joined
<1>3. PICK p : p = Reconciled(f, FALSE)
  OBVIOUS
<1>4. PICK s : s = Handle(p.emit, FALSE)
  OBVIOUS
<1>5. PICK heard \in BOOLEAN : heard = (p.emit = <<>> \/ ~Unheard(s))
  OBVIOUS
<1>6. PICK t : Joined(t, text, p.emit)
  BY DEF Joined
<1>7. /\ Reads(frame, IF heard THEN "read" ELSE "gone") /\ rec' = p.next
      /\ IF p.emit # <<>> /\ heard THEN Emit(p.emit, s) ELSE UNCHANGED <<text, pending, held, out>>
      /\ UNCHANGED <<tools, end, overlapped>>
  BY <1>1, <1>3, <1>4, <1>5 DEF Receive
<1>8. /\ TypeOK /\ CallOK /\ Reach /\ InOrder /\ NoHoles /\ call.stage = "read" /\ n # 0 /\ end = "none"
      /\ UNCHANGED <<ask, n, uploads, doc, sent, ctx>>
  BY <1>7 DEF StreamInv, Reads, CallOK, Failures
<1>9. Live
  BY <1>8 DEF Live, Running
<1>10. /\ f \in Seq(Text) /\ c \in Seq(Text) /\ Run(c, call.from) /\ call.from - 1 + Len(c) <= N
       /\ c # <<>> /\ Last(frame) \in call.from..N
  BY <1>1, <1>2, <1>8, UnseenFacts
<1>11. Reconciles(c, FALSE, p, t)
  BY <1>2, <1>3, <1>6, <1>8, <1>9, <1>10, Reconciling
<1>12. p.emit \in Seq(Text) /\ p.next \in RecRecord /\ t \in Seq(Text)
  BY <1>11 DEF Reconciles
<1>13. CASE heard
  <2> DEFINE far == IF Last(frame) > call.said THEN Last(frame) ELSE call.said
  <2>1. call' = [call EXCEPT !.cur = call.cur \o f, !.final = FALSE, !.said = far]
    BY <1>1, <1>7, <1>13 DEF Reads
  <2>2. /\ call' \in CallRecord /\ call'.from = call.from /\ call'.cur = c /\ call'.final = FALSE
        /\ call'.stage = "read" /\ SaidOK(call')
    <3>1. call \in CallRecord /\ c = call.cur \o f
      BY <1>2, <1>8, Typing DEF Joined
    <3>2. call' = [call EXCEPT !.cur = c, !.final = FALSE, !.said = far]
      BY <2>1, <3>1
    <3>3. far \in call.from..N /\ far \in 0..N /\ call.from \in Nat \ {0} /\ N \in Nat
      BY <1>8, <1>10, CallAssumption, Typing, SMTT(60)
    <3> HIDE DEF far
    <3>4. /\ call' \in CallRecord /\ call'.from = call.from /\ call'.cur = c /\ call'.final = FALSE
          /\ call'.stage = "read" /\ call'.said = far
      BY <1>8, <1>10, <3>1, <3>2, <3>3 DEF CallRecord
    <3> QED
      BY <1>10, <3>3, <3>4 DEF SaidOK
  <2>3. /\ text' = t /\ Texts' /\ NoHoles' /\ (~overlapped => Ordered')
        /\ out' \in Seq(Text) /\ IsPrefix(out, out')
    <3>1. CASE p.emit # <<>>
      <4>1. Emit(p.emit, s)
        BY <1>7, <1>13, <3>1
      <4>2. Makes(pending \o p.emit, s)
        <5>1. PICK q \in Seq(Text) : q = pending \o p.emit
          <6>1. PICK a \in Seq(Text), b \in Seq(Text) : a = pending /\ b = p.emit
            BY <1>8, <1>12, Typing
          <6>2. a \o b \in Seq(Text)
            BY <6>1, ConcatFacts
          <6> QED
            BY <6>1, <6>2
        <5>2. Makes(q, Flush(q, FALSE))
          BY <5>1, FlushFacts
        <5> QED
          BY <1>4, <5>1, <5>2 DEF Handle
      <4>3. PICK e \in Seq(Text) : e = p.emit
        BY <1>12
      <4>4. Texts /\ ask.policy \in BOOLEAN /\ UNCHANGED ask
        BY <1>8, Typing
      <4>5. /\ Texts' /\ NoHoles' /\ text' = text \o e /\ out' \in Seq(Text) /\ IsPrefix(out, out')
            /\ (Ordered /\ Rising(text \o e) => Ordered')
        BY <1>8, <4>1, <4>2, <4>3, <4>4, Emitting
      <4>6. text' = t
        BY <1>6, <4>3, <4>5 DEF Joined
      <4>7. ~overlapped => Ordered /\ Rising(text \o e)
        <5>1. ~overlapped => Run(t, 1)
          BY <1>11 DEF Reconciles
        <5>2. ~overlapped => Rising(t)
          <6>1. t \in Seq(Nat) /\ 1 \in Nat
            BY <1>12, TextIsNumbers
          <6> QED
            BY <5>1, <6>1, RunFacts
        <5> QED
          BY <1>8, <4>5, <4>6, <5>2 DEF InOrder
      <4> QED
        BY <4>5, <4>6, <4>7
    <3>2. CASE p.emit = <<>>
      <4>1. UNCHANGED <<text, pending, held, out>>
        BY <1>7, <3>2
      <4>2. text \in Seq(Text) /\ out \in Seq(Text) /\ Texts
        BY <1>8, Typing
      <4>3. t = text
        <5>1. text \o <<>> = text
          BY <4>2, EmptyFacts
        <5> QED
          BY <1>6, <3>2, <5>1 DEF Joined
      <4>4. IsPrefix(out, out)
        BY <4>2, PrefixFacts
      <4>5. Texts' /\ NoHoles'
        BY <1>8, <4>1, <4>2 DEF Texts, NoHoles, Onward, FenceDone
      <4>6. ~overlapped => Ordered'
        BY <1>8, <4>1 DEF InOrder, Ordered, Onward, Rising
      <4> QED
        BY <4>1, <4>2, <4>3, <4>4, <4>5, <4>6
    <3> QED
      BY <3>1, <3>2
  <2>4. Reach' /\ InOrder'
    <3>1. UNCHANGED <<ask, n, overlapped>>
      BY <1>7, <1>8
    <3> QED
      BY <1>7, <1>8, <1>9, <1>10, <1>11, <2>2, <2>3, <3>1, Answering
  <2>5. TypeOK'
    BY <1>7, <1>8, <1>12, <2>2, <2>3 DEF TypeOK, CallRecord, RecRecord, Texts
  <2>6. CallOK'
    BY <1>7, <1>8, <1>10, <2>2 DEF CallOK
  <2> QED
    BY <1>7, <1>8, <2>3, <2>4, <2>5, <2>6 DEF StreamInv, WholeAnswer
<1>14. CASE ~heard
  <2>1. Goto("gone") /\ UNCHANGED <<text, pending, held, out>>
    BY <1>7, <1>14 DEF Reads
  <2>2. call \in CallRecord /\ "gone" \in Stages \ {"none"} /\ "gone" \in Failures
    BY <1>8, Typing DEF Stages, Failures
  <2>3. /\ call' \in CallRecord /\ call'.stage = "gone" /\ call'.from = 1 /\ call'.cur = <<>>
        /\ call'.said = 0 /\ call'.final = FALSE
    BY <2>1, <2>2, GotoFacts
  <2>4. TypeOK'
    BY <1>7, <1>8, <1>12, <2>1, <2>3 DEF TypeOK, CallRecord, RecRecord
  <2>5. CallOK'
    <3>1. Len(<<>>) = 0 /\ 1 - 1 + 0 <= N
      BY CallAssumption
    <3> QED
      BY <1>7, <1>8, <2>3, <3>1 DEF CallOK, SaidOK, Run
  <2>6. ~Live'
    BY <2>3 DEF Live, Running
  <2>7. Elsewhere
    BY <1>7, <1>8, <2>1 DEF Elsewhere
  <2>8. Reach' /\ InOrder' /\ NoHoles'
    BY <1>8, <2>6, <2>7, Kept
  <2>9. out' \in Seq(Text) /\ IsPrefix(out, out')
    <3>1. out \in Seq(Text) /\ out' = out
      BY <1>8, <2>1, Typing
    <3>2. IsPrefix(out, out)
      BY <3>1, PrefixFacts
    <3> QED
      BY <3>1, <3>2
  <2> QED
    BY <1>7, <1>8, <2>4, <2>5, <2>8, <2>9 DEF StreamInv, WholeAnswer
<1> QED
  BY <1>13, <1>14

(* The call has succeeded.                                                 *)
LEMMA SpanFacts ==
    /\ Span(1, N) \in Seq(Text) /\ Len(Span(1, N)) = N /\ Run(Span(1, N), 1)
    /\ ToSet(Span(1, N)) = Text
<1>1. N \in Nat \ {0} /\ N - 1 + 1 = N /\ ~(N < 1)
  BY CallAssumption
<1>2. PICK v : v = Span(1, N)
  OBVIOUS
<1>3. v = [i \in 1..N |-> 1 + i - 1]
  BY <1>1, <1>2 DEF Span
<1>4. v \in Seq(Text) /\ Len(v) = N
  BY <1>1, <1>3 DEF Text
<1>5. Run(v, 1)
  BY <1>3, <1>4 DEF Run
<1>6. ToSet(v) = 1..(1 + N - 1)
  <2>1. v \in Seq(Nat) /\ 1 \in Nat
    BY <1>4, TextIsNumbers
  <2> QED
    BY <1>4, <1>5, <2>1, RunFacts
<1> QED
  BY <1>1, <1>2, <1>4, <1>5, <1>6 DEF Text

LEMMA Finishing ==
    ASSUME StreamInv, Finish
    PROVE  /\ StreamInv' /\ end = "none" /\ end' \in {"stop", "tools", "error"}
           /\ out' \in Seq(Text) /\ IsPrefix(out, out')
<1>1. PICK p : p = Reconciled(<<>>, TRUE)
  OBVIOUS
<1>2. PICK whole : Joined(whole, text, p.emit)
  BY DEF Joined
<1>3. PICK rest : rest = IF whole = <<>> /\ call.final THEN Span(call.from, N) ELSE p.emit
  OBVIOUS
<1>4. PICK t : Joined(t, text, rest)
  BY DEF Joined
<1>5. PICK called \in BOOLEAN : called = (tools \/ (ask.callable /\ FenceDone(t)))
  OBVIOUS
<1>6. PICK s : s = IF called /\ whole = <<>> THEN [emit |-> <<>>, keep |-> rest]
                   ELSE Handle(rest, ~called)
  OBVIOUS
<1>7. /\ end = "none" /\ call.stage = "ok" /\ rec' = p.next
      /\ UNCHANGED <<ask, n, call, uploads, doc, sent, ctx, tools, overlapped>>
      /\ IF Unheard(s) THEN end' = "error" /\ UNCHANGED <<text, pending, held, out>>
         ELSE end' \in (IF called THEN {"tools", "error"} ELSE {"stop"}) /\ Emit(rest, s)
  <2>1. whole = text \o p.emit /\ t = text \o rest
    BY <1>2, <1>4 DEF Joined
  <2> QED
    BY <1>1, <1>3, <1>5, <1>6, <2>1 DEF Finish, callVars
<1>8. /\ TypeOK /\ CallOK /\ Reach /\ InOrder /\ NoHoles /\ Live /\ n # 0
  BY <1>7 DEF StreamInv, Live, CallOK
<1>9. PICK x \in Seq(Text), cur \in Seq(Text), from \in Nat \ {0} :
            x = text /\ cur = call.cur /\ from = call.from
  BY <1>8, Typing
<1>10. Reconciles(call.cur, TRUE, p, whole)
  <2>1. Joined(call.cur, call.cur, <<>>) /\ Run(call.cur, call.from) /\ call.cur \in Seq(Text)
        /\ <<>> \in Seq(Text)
    BY <1>8, <1>9, EmptyFacts DEF Joined, CallOK
  <2> QED
    BY <1>1, <1>2, <1>8, <2>1, Reconciling
<1>11. /\ p.emit \in Seq(Text) /\ p.next \in RecRecord /\ whole \in Seq(Text)
       /\ ToSet(cur) \subseteq ToSet(whole) /\ (whole # <<>> => 1..Last(whole) \subseteq ToSet(whole))
       /\ 1..from - 1 \subseteq ToSet(whole) /\ (n = 1 => whole = cur)
       /\ (~overlapped => Run(whole, 1)) /\ Joined(whole, x, p.emit) /\ Joined(t, x, rest)
       /\ n \in Nat \ {0} /\ N \in Nat \ {0} /\ call.final \in BOOLEAN
  BY <1>2, <1>4, <1>8, <1>9, <1>10, CallAssumption, Typing DEF Reconciles
<1>12. whole = <<>> => x = <<>> /\ from = 1
  <2>1. ASSUME whole = <<>>
        PROVE  x = <<>>
    <3>1. Len(whole) = Len(x) + Len(p.emit) /\ Len(x) \in Nat /\ Len(p.emit) \in Nat /\ Len(<<>>) = 0
      BY <1>9, <1>11, JoinedFacts
    <3>2. Len(x) = 0
      BY <2>1, <3>1
    <3> QED
      BY <1>9, <3>2, EmptyFacts
  <2>2. ASSUME whole = <<>>, from # 1
        PROVE  FALSE
    <3>1. 1 \in 1..from - 1 /\ ToSet(<<>>) = {}
      BY <1>9, <2>2 DEF ToSet
    <3> QED
      BY <1>11, <2>2, <3>1
  <2> QED
    BY <2>1, <2>2
<1>13. /\ rest \in Seq(Text) /\ t \in Seq(Text) /\ (t # <<>> => 1..Last(t) \subseteq ToSet(t))
       /\ (~overlapped => Run(t, 1))
       /\ (~call.revised /\ ~Skipped /\ ~(n > 1 /\ call.final) => ToSet(t) = Text)
       /\ (whole = <<>> => pending = <<>>)
  <2>1. whole = <<>> => pending = <<>>
    <3> SUFFICES ASSUME whole = <<>>
                 PROVE  pending = <<>>
      OBVIOUS
    <3>1. ~FenceDone(<<>>)
      BY DEF FenceDone
    <3>2. Onward = <<>>
      BY <1>8, <1>9, <1>12, <3>1 DEF NoHoles
    <3>3. PICK a \in Seq(Text), q \in Seq(Text) : a = out \o held /\ q = pending
      <4>1. out \in Seq(Text) /\ held \in Seq(Text) /\ pending \in Seq(Text)
        BY <1>8, Typing
      <4>2. out \o held \in Seq(Text)
        BY <4>1, ConcatFacts
      <4> QED
        BY <4>1, <4>2
    <3>4. Len(a \o q) = Len(a) + Len(q) /\ Len(a) \in Nat /\ Len(q) \in Nat
      BY <3>3, ConcatFacts
    <3>5. a \o q = <<>> /\ Len(<<>>) = 0
      BY <3>2, <3>3 DEF Onward
    <3>6. Len(q) = 0
      BY <3>4, <3>5
    <3> QED
      BY <3>3, <3>6, EmptyFacts
  <2>2. CASE whole = <<>> /\ call.final
    <3>1. rest = Span(1, N)
      BY <1>3, <1>9, <1>12, <2>2
    <3>2. rest \in Seq(Text)
      BY <3>1, SpanFacts
    <3>3. t = rest
      BY <1>11, <1>12, <2>2, <3>2, EmptyFacts DEF Joined
    <3>4. t \in Seq(Text) /\ Run(t, 1) /\ ToSet(t) = Text /\ Len(t) = N
      BY <3>1, <3>3, SpanFacts
    <3>5. Last(t) = N
      <4>1. N \in 1..Len(t) /\ 1 + N - 1 = N
        BY <1>11, <3>4
      <4> QED
        BY <3>4, <4>1 DEF Run, Last
    <3> QED
      BY <2>1, <3>2, <3>4, <3>5 DEF Text
  <2>3. CASE ~(whole = <<>> /\ call.final)
    <3>1. rest = p.emit
      BY <1>3, <2>3
    <3>2. t = whole
      BY <1>11, <3>1 DEF Joined
    <3>3. ASSUME ~call.revised, ~Skipped, ~(n > 1 /\ call.final)
          PROVE  ToSet(whole) = Text
      <4>1. ToSet(whole) \subseteq Text
        BY <1>11, SeqFacts
      <4>2. from > N \/ (IF cur = <<>> THEN call.final ELSE Last(cur) = N)
        <5>1. PICK said \in Nat : said = call.said
          BY <1>8, Typing
        <5>2. /\ (said = N \/ (call.final /\ cur = <<>>))
              /\ (cur = <<>> <=> said + 1 = from)
              /\ Run(cur, from) /\ from - 1 + Len(cur) <= N
              /\ (cur # <<>> => ~(Last(cur) < said))
          BY <1>7, <1>8, <1>9, <3>3, <5>1 DEF CallOK, SaidOK, Said, Skipped
        <5>3. CASE cur # <<>>
          <6>1. Len(cur) \in 1..Len(cur)
            BY <1>9, <5>3, SeqFacts
          <6>2. Last(cur) = from + Len(cur) - 1
            BY <5>2, <6>1 DEF Run, Last
          <6> QED
            BY <1>9, <1>11, <5>1, <5>2, <5>3, <6>1, <6>2, SMTT(60)
        <5>4. CASE cur = <<>>
          BY <1>9, <1>11, <5>1, <5>2, <5>4
        <5> QED
          BY <5>3, <5>4
      <4>3. CASE from > N
        <5>1. Text \subseteq 1..from - 1
          BY <1>9, <1>11, <4>3 DEF Text
        <5> QED
          BY <1>11, <4>1, <5>1
      <4>4. CASE cur = <<>> /\ call.final
        <5>1. n = 1
          BY <1>11, <3>3, <4>4
        <5>2. whole = <<>>
          BY <1>11, <4>4, <5>1
        <5> QED
          BY <2>3, <4>4, <5>2
      <4>5. CASE cur # <<>> /\ Last(cur) = N
        <5>1. Run(cur, from) /\ cur \in Seq(Nat) /\ from \in Nat /\ cur \in Seq(Text)
          BY <1>8, <1>9, TextIsNumbers DEF CallOK
        <5>2. ToSet(cur) = from..(from + Len(cur) - 1)
          BY <5>1, RunFacts
        <5>3. Len(cur) \in 1..Len(cur)
          BY <4>5, <5>1
        <5>4. from + Len(cur) - 1 = N
          BY <4>5, <5>1, <5>3 DEF Run, Last
        <5>5. \A i \in 1..N : i \in 1..from - 1 \/ i \in from..N
          BY <1>9, <1>11
        <5> QED
          BY <1>11, <4>1, <5>2, <5>4, <5>5 DEF Text
      <4> QED
        BY <4>2, <4>3, <4>4, <4>5
    <3> QED
      BY <1>11, <2>1, <3>1, <3>2, <3>3
  <2> QED
    BY <2>2, <2>3
<1>14. Makes(pending \o rest, s) /\ (~called => s.keep = <<>>)
  <2>1. PICK q \in Seq(Text), b \in Seq(Text) : q = pending /\ b = rest
    BY <1>8, <1>13, Typing
  <2>2. PICK u \in Seq(Text) : u = q \o b
    <3>1. q \o b \in Seq(Text)
      BY <2>1, ConcatFacts
    <3> QED
      BY <3>1
  <2>3. CASE called /\ whole = <<>>
    <3>1. s = [emit |-> <<>>, keep |-> b] /\ u = b /\ <<>> \o b = b /\ <<>> \in Seq(Text)
      BY <1>6, <1>13, <2>1, <2>2, <2>3, EmptyFacts
    <3>2. InOrderOf(b, b, Len(b))
      BY <2>1, SeqFacts DEF InOrderOf
    <3> QED
      BY <2>1, <2>2, <2>3, <3>1, <3>2 DEF Makes
  <2>4. CASE ~(called /\ whole = <<>>)
    <3>1. s = Flush(u, ~called)
      BY <1>6, <2>1, <2>2, <2>4 DEF Handle
    <3>2. PICK final \in BOOLEAN : final = ~called
      OBVIOUS
    <3>3. Makes(u, Flush(u, final)) /\ (final => Flush(u, final).keep = <<>>)
      BY <2>2, <3>2, FlushFacts
    <3> QED
      BY <2>1, <2>2, <3>1, <3>2, <3>3
  <2> QED
    BY <2>3, <2>4
<1>15. CASE Unheard(s)
  <2>1. end' = "error" /\ UNCHANGED <<text, pending, held, out>>
    BY <1>7, <1>15
  <2>2. Elsewhere /\ ~Live'
    BY <1>7, <2>1 DEF Elsewhere, Live
  <2>3. Reach' /\ InOrder' /\ NoHoles'
    BY <1>8, <2>2, Kept
  <2>4. TypeOK'
    BY <1>7, <1>8, <1>11, <2>1 DEF TypeOK, RecRecord
  <2>5. CallOK'
    BY <1>7, <1>8, <2>1 DEF CallOK, SaidOK, Run, Said
  <2>6. out' \in Seq(Text) /\ IsPrefix(out, out')
    <3>1. out \in Seq(Text) /\ out' = out
      BY <1>8, <2>1, Typing
    <3>2. IsPrefix(out, out)
      BY <3>1, PrefixFacts
    <3> QED
      BY <3>1, <3>2
  <2> QED
    BY <1>7, <2>1, <2>3, <2>4, <2>5, <2>6 DEF StreamInv, WholeAnswer
<1>16. CASE ~Unheard(s)
  <2>1. end' \in (IF called THEN {"tools", "error"} ELSE {"stop"}) /\ Emit(rest, s)
    BY <1>7, <1>16
  <2>2. Texts /\ ask.policy \in BOOLEAN /\ UNCHANGED ask
    BY <1>7, <1>8, Typing
  <2>3. PICK e \in Seq(Text) : e = rest
    BY <1>13
  <2>4. /\ Texts' /\ NoHoles' /\ text' = text \o e /\ out' \in Seq(Text) /\ IsPrefix(out, out')
        /\ (Ordered /\ Rising(text \o e) => Ordered') /\ pending' = s.keep
    <3>1. Makes(pending \o e, s) /\ Emit(e, s)
      BY <1>14, <2>1, <2>3
    <3> QED
      BY <1>8, <2>2, <2>3, <3>1, Emitting
  <2>5. text' = t
    BY <1>4, <2>3, <2>4 DEF Joined
  <2>6. ~overlapped => Ordered'
    <3>1. ~overlapped => Rising(t)
      <4>1. t \in Seq(Nat) /\ 1 \in Nat
        BY <1>13, TextIsNumbers
      <4> QED
        BY <1>13, <4>1, RunFacts
    <3> QED
      BY <1>8, <2>4, <2>5, <3>1 DEF InOrder
  <2>7. ~Live' /\ end' \in {"stop", "tools", "error"}
    BY <2>1 DEF Live
  <2>8. Reach' /\ InOrder'
    BY <1>7, <1>13, <2>5, <2>6, <2>7 DEF Reach, InOrder
  <2>9. TypeOK'
    BY <1>7, <1>8, <1>11, <2>4, <2>7 DEF TypeOK, RecRecord, Texts
  <2>10. CallOK'
    <3>1. end' # "none" /\ n # 0
      BY <1>8, <2>7
    <3> QED
      BY <1>7, <1>8, <3>1 DEF CallOK, SaidOK, Said, Run
  <2>11. WholeAnswer'
    <3> SUFFICES ASSUME end' = "stop", ~call.revised, ~Skipped, ~(n > 1 /\ call.final)
                 PROVE  ToSet(out') \cup ToSet(held') = Text /\ (ask.policy \/ held' = <<>>)
      BY <1>7 DEF WholeAnswer, Skipped
    <3>1. ~called
      BY <2>1
    <3>2. pending' = <<>> /\ ~(ask.callable /\ FenceDone(text'))
      BY <1>5, <1>14, <2>4, <2>5, <3>1
    <3>3. Onward' = t
      BY <1>7, <2>4, <2>5, <3>2 DEF NoHoles
    <3>4. PICK a \in Seq(Text), b \in Seq(Text) : a = out' /\ b = held'
      BY <2>4 DEF Texts
    <3>5. PICK u \in Seq(Text) : u = a \o b
      <4>1. a \o b \in Seq(Text)
        BY <3>4, ConcatFacts
      <4> QED
        BY <4>1
    <3>6. u = t
      <4>1. t = u \o <<>>
        BY <3>2, <3>3, <3>4, <3>5 DEF Onward
      <4>2. u \o <<>> = u
        BY <3>5, EmptyFacts
      <4> QED
        BY <4>1, <4>2
    <3>7. ToSet(a \o b) = ToSet(a) \cup ToSet(b)
      BY <3>4, ConcatFacts
    <3>8. ask.policy \/ held' = <<>>
      BY <1>7, <2>4 DEF NoHoles
    <3> QED
      BY <1>13, <3>4, <3>5, <3>6, <3>7, <3>8
  <2> QED
    BY <1>7, <2>4, <2>7, <2>8, <2>9, <2>10, <2>11 DEF StreamInv
<1> QED
  BY <1>15, <1>16

-----------------------------------------------------------------------------
LEMMA AtFirst == Init => StreamInv
<1> SUFFICES ASSUME Init
             PROVE  StreamInv
  OBVIOUS
<1>1. /\ n = 0 /\ doc = 0 /\ sent = 0 /\ ctx = "live" /\ call = NewCall("none", 1) /\ ask \in Asks
      /\ uploads = [k \in Calls |-> "none"]
      /\ text = <<>> /\ rec = Reconciler(<<>>) /\ pending = <<>> /\ held = <<>>
      /\ tools = FALSE /\ out = <<>> /\ end = "none" /\ overlapped = FALSE
  BY DEF Init, CallInit
<1>2. <<>> \in Seq(Text) /\ Len(<<>>) = 0 /\ <<>> \o <<>> = <<>> /\ ToSet(<<>>) = {} /\ 1..0 = {}
  BY DEF ToSet
<1>3. /\ call \in CallRecord /\ call.stage = "none" /\ call.from = 1 /\ call.said = 0
      /\ call.cur = <<>> /\ call.final = FALSE
  <2>1. "none" \in Stages /\ 1 \in 1..N + 1 /\ 0 \in 0..N /\ 1 - 1 = 0
    BY CallAssumption DEF Stages
  <2> QED
    BY <1>1, <1>2, <2>1 DEF NewCall, CallRecord
<1>4. TypeOK
  <2>1. 0 \in 0..MaxCalls
    BY CallAssumption
  <2>2. uploads \in [Calls -> Uploads]
    BY <1>1 DEF Uploads
  <2> QED
    BY <1>1, <1>2, <1>3, <2>1, <2>2 DEF TypeOK, CallRecord, Reconciler
<1>5. CallOK
  <2>1. 1 - 1 + 0 <= N
    BY CallAssumption
  <2> QED
    BY <1>1, <1>2, <1>3, <2>1 DEF CallOK, SaidOK, Run
<1>6. ~Live
  BY <1>3 DEF Live, Running
<1>7. Onward = <<>>
  BY <1>1, <1>2 DEF Onward
<1>8. Reach /\ InOrder /\ NoHoles
  BY <1>1, <1>2, <1>6, <1>7 DEF Reach, InOrder, Ordered, NoHoles, Run, Rising
<1> QED
  BY <1>1, <1>4, <1>5, <1>8 DEF StreamInv, WholeAnswer

(* Every step keeps the invariant and shows the client no less.            *)
LEMMA EachStep ==
    ASSUME StreamInv, [Next]_vars
    PROVE  StreamInv' /\ [Promise!More \/ Promise!Close]_(Promise!stream)
<1>1. CASE UNCHANGED vars
  <2>1. UNCHANGED <<ask, n, call, uploads, doc, sent, ctx, text, rec, pending, held, tools, out, end, overlapped>>
    BY <1>1 DEF vars, callVars
  <2>2. TypeOK'
    BY <2>1 DEF StreamInv, TypeOK
  <2>3. CallOK' /\ WholeAnswer'
    BY <2>1 DEF StreamInv, CallOK, SaidOK, Run, Said, WholeAnswer, Skipped
  <2>4. Reach' /\ InOrder' /\ NoHoles'
    <3>1. Elsewhere /\ (Live' => Live /\ SameCall /\ UNCHANGED <<rec, n>>)
      BY <2>1 DEF Elsewhere, SameCall, Live
    <3> QED
      BY <3>1, Kept DEF StreamInv
  <2> QED
    BY <2>1, <2>2, <2>3, <2>4 DEF StreamInv, Promise!stream
<1>2. ASSUME StreamInv', end = "none", end' \in {"none", "stop", "tools", "error"},
             out' \in Seq(Text), IsPrefix(out, out')
      PROVE  StreamInv' /\ [Promise!More \/ Promise!Close]_(Promise!stream)
  BY <1>2 DEF Promise!More, Promise!Close, Promise!Longer, Promise!Ways, Promise!stream,
            IsPrefix, Promise!IsPrefix
<1>3. ASSUME StreamInv', end = "none", end' \in {"none", "error"}, UNCHANGED out
      PROVE  StreamInv' /\ [Promise!More \/ Promise!Close]_(Promise!stream)
  <2>1. out \in Seq(Text)
    BY Typing DEF StreamInv
  <2>2. IsPrefix(out, out)
    BY <2>1, PrefixFacts
  <2> QED
    BY <1>2, <1>3, <2>1, <2>2
<1>4. CASE Start
  BY <1>3, <1>4, Starting
<1>5. CASE CallStep \/ Uploading \/ ContextEnds \/ ToolEvent \/ GiveUp
  BY <1>3, <1>5, Around
<1>6. CASE Finish
  BY <1>2, <1>6, Finishing
<1>7. CASE \E s \in Frames : Receive(s)
  BY <1>2, <1>7, Receiving
<1>8. CASE \E from \in Text \cup {N + 1} : Retry(from)
  BY <1>3, <1>8, Retrying
<1> QED
  BY <1>1, <1>4, <1>5, <1>6, <1>7, <1>8 DEF Next, Server, Done

(* The variables keep their types over all calls, frames and failures.     *)
THEOREM StreamTypes == Spec => []TypeOK
<1>1. StreamInv => TypeOK
  BY DEF StreamInv
<1> QED
  BY <1>1, AtFirst, EachStep, PTL DEF Spec

(* Over any number of calls, with stale and rewritten snapshots, fences    *)
(* taken out and sentences held back, the client gets nothing twice and    *)
(* nothing out of order, unless a continuation starts inside the text.     *)
THEOREM NothingIsSentTwice == Spec => []NothingTwice
<1>1. StreamInv => NothingTwice
  <2> SUFFICES ASSUME StreamInv, ~overlapped
               PROVE  \A i, j \in DOMAIN out : i < j => out[i] < out[j]
    BY DEF NothingTwice
  <2>1. PICK o \in Seq(Text), h \in Seq(Text), q \in Seq(Text) : o = out /\ h = held /\ q = pending
    BY Typing DEF StreamInv
  <2>2. PICK a \in Seq(Text) : a = o \o h
    <3>1. o \o h \in Seq(Text)
      BY <2>1, ConcatFacts
    <3> QED
      BY <3>1
  <2>3. Rising(a \o q)
    BY <2>1, <2>2 DEF StreamInv, InOrder, Ordered, Onward
  <2>4. Rising(o)
    <3>1. a \in Seq(Nat) /\ q \in Seq(Nat) /\ o \in Seq(Nat) /\ h \in Seq(Nat)
      BY <2>1, <2>2, TextIsNumbers
    <3>2. Rising(a)
      BY <2>3, <3>1, RisingConcat
    <3>3. Rising(o \o h)
      BY <2>2, <3>2
    <3> QED
      BY <3>1, <3>3, RisingConcat
  <2>5. DOMAIN o = 1..Len(o)
    BY <2>1
  <2> QED
    BY <2>1, <2>4, <2>5 DEF Rising
<1> QED
  BY <1>1, AtFirst, EachStep, PTL DEF Spec

(* However many calls broke and whatever their continuations repeated: a   *)
(* stream that ends with "stop" has given the client the whole answer, but *)
(* for the exceptions that WholeAnswer names.                              *)
THEOREM StoppedIsWhole == Spec => []WholeAnswer
<1>1. StreamInv => WholeAnswer
  BY DEF StreamInv
<1> QED
  BY <1>1, AtFirst, EachStep, PTL DEF Spec

(* The handler implements what AnswerStream promises the client: text is   *)
(* only ever added, and nothing comes after the end.                       *)
THEOREM ClientSeesItsStream == Spec => ClientSees
<1>1. Init => Promise!Init
  BY DEF Init, Promise!Init
<1> QED
  BY <1>1, AtFirst, EachStep, PTL DEF Spec, ClientSees, Promise!Spec
=============================================================================
