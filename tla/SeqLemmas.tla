----------------------------- MODULE SeqLemmas ------------------------------
(***************************************************************************)
(* Facts about queues that the proofs of the components keep needing: what *)
(* taking from the front, adding at the back, removing in the middle and   *)
(* joining do to a queue's contents and to its freedom from duplicates;    *)
(* and that a set of positions has a lowest and a highest one.             *)
(***************************************************************************)
EXTENDS Naturals, Sequences, Functions, SequencesExt, SequenceTheorems,
        FiniteSetTheorems, WellFoundedInduction, TLAPS

\* An element of a queue is at some position of it.
LEMMA RangeMember ==
  ASSUME NEW S, NEW s \in Seq(S)
  PROVE  /\ Range(s) \subseteq S
         /\ \A x : x \in Range(s) <=> \E i \in 1..Len(s) : s[i] = x
BY DOMAIN s = 1..Len(s), LenProperties, ElementOfSeq DEF Range

\* The empty queue holds nothing, nothing twice.
LEMMA EmptyQueue ==
  /\ Range(<<>>) = {}
  /\ IsInjective(<<>>)
BY DEF Range, IsInjective

\* Freedom from duplicates, in terms of positions.
LEMMA InjectivePositions ==
  ASSUME NEW S, NEW s \in Seq(S)
  PROVE  IsInjective(s) <=> \A i, j \in 1..Len(s) : s[i] = s[j] => i = j
BY LenProperties DEF IsInjective

\* A push at the back (VecDeque::push_back).
LEMMA PushBack ==
  ASSUME NEW S, NEW s \in Seq(S), NEW x \in S
  PROVE  /\ Append(s, x) \in Seq(S)
         /\ Range(Append(s, x)) = Range(s) \cup {x}
         /\ IsInjective(s) /\ x \notin Range(s) => IsInjective(Append(s, x))
<1> DEFINE t == Append(s, x)
<1>1. /\ t \in Seq(S) /\ Len(t) = Len(s) + 1 /\ Len(s) \in Nat
      /\ \A i \in 1..Len(s) : t[i] = s[i]
      /\ t[Len(s) + 1] = x
  BY AppendProperties, LenProperties
<1>2. \A y : y \in Range(t) <=> \E i \in 1..Len(t) : t[i] = y
  BY <1>1, RangeMember
<1>3. \A y : y \in Range(s) <=> \E i \in 1..Len(s) : s[i] = y
  BY RangeMember
<1> HIDE DEF t
<1>4. Range(t) = Range(s) \cup {x}
  <2>1. ASSUME NEW y \in Range(t) PROVE y \in Range(s) \cup {x}
    <3>1. PICK i \in 1..Len(t) : t[i] = y BY <1>2, <2>1
    <3>2. CASE i \in 1..Len(s) BY <3>1, <3>2, <1>1, <1>3
    <3>3. CASE i = Len(s) + 1 BY <3>1, <3>3, <1>1
    <3> QED BY <1>1, <3>2, <3>3
  <2>2. ASSUME NEW y \in Range(s) PROVE y \in Range(t)
    <3>1. PICK i \in 1..Len(s) : s[i] = y BY <1>3
    <3>2. i \in 1..Len(t) BY <1>1
    <3> QED BY <3>1, <3>2, <1>1, <1>2
  <2>3. x \in Range(t)
    <3>1. Len(t) \in 1..Len(t) BY <1>1
    <3> QED BY <3>1, <1>1, <1>2
  <2> QED BY <2>1, <2>2, <2>3
<1>5. ASSUME IsInjective(s), x \notin Range(s) PROVE IsInjective(t)
  <2>1. \A i, j \in 1..Len(s) : s[i] = s[j] => i = j BY <1>5, InjectivePositions
  <2>2. SUFFICES ASSUME NEW i \in 1..Len(t), NEW j \in 1..Len(t), t[i] = t[j]
                 PROVE  i = j
    BY <1>1, InjectivePositions
  <2>3. \A k \in 1..Len(s) : s[k] # x BY <1>3, <1>5
  <2>4. CASE i \in 1..Len(s) /\ j \in 1..Len(s) BY <1>1, <2>1, <2>2, <2>4
  <2>5. CASE i \in 1..Len(s) /\ j = Len(s) + 1 BY <1>1, <2>3, <2>2, <2>5
  <2>6. CASE i = Len(s) + 1 /\ j \in 1..Len(s) BY <1>1, <2>3, <2>2, <2>6
  <2>7. CASE i = Len(s) + 1 /\ j = Len(s) + 1 BY <2>7
  <2> QED BY <1>1, <2>4, <2>5, <2>6, <2>7
<1> QED BY <1>1, <1>4, <1>5 DEF t

\* A pop at the front (VecDeque::pop_front).
LEMMA PopFront ==
  ASSUME NEW S, NEW s \in Seq(S), s # <<>>
  PROVE  /\ Head(s) \in S /\ Tail(s) \in Seq(S)
         /\ Range(s) = Range(Tail(s)) \cup {Head(s)}
         /\ IsInjective(s) => IsInjective(Tail(s)) /\ Head(s) \notin Range(Tail(s))
<1> DEFINE t == Tail(s)
<1>1. /\ t \in Seq(S) /\ Head(s) \in S /\ Len(s) \in Nat \ {0}
      /\ Len(t) = Len(s) - 1 /\ Head(s) = s[1]
      /\ \A i \in 1..Len(t) : t[i] = s[i + 1]
  <2>1. Head(s) = s[1] OBVIOUS
  <2> QED BY <2>1, HeadTailProperties, EmptySeq
<1> HIDE DEF t
<1>2. \A y : y \in Range(t) <=> \E i \in 1..Len(t) : t[i] = y
  BY <1>1, RangeMember
<1>3. \A y : y \in Range(s) <=> \E i \in 1..Len(s) : s[i] = y
  BY RangeMember
<1>4. Range(s) = Range(t) \cup {Head(s)}
  <2>1. ASSUME NEW y \in Range(s) PROVE y \in Range(t) \cup {Head(s)}
    <3>1. PICK i \in 1..Len(s) : s[i] = y BY <1>3
    <3>2. CASE i = 1 BY <3>1, <3>2, <1>1
    <3>3. CASE i # 1
      <4>1. (i - 1) \in 1..Len(t) /\ t[i - 1] = y BY <3>1, <3>3, <1>1
      <4> QED BY <4>1, <1>2
    <3> QED BY <3>2, <3>3
  <2>2. ASSUME NEW y \in Range(t) PROVE y \in Range(s)
    <3>1. PICK i \in 1..Len(t) : t[i] = y BY <1>2
    <3>2. (i + 1) \in 1..Len(s) /\ s[i + 1] = y BY <3>1, <1>1
    <3> QED BY <3>2, <1>3
  <2>3. Head(s) \in Range(s)
    <3>1. 1 \in 1..Len(s) BY <1>1
    <3> QED BY <3>1, <1>1, <1>3
  <2> QED BY <2>1, <2>2, <2>3
<1>5. ASSUME IsInjective(s) PROVE IsInjective(t) /\ Head(s) \notin Range(t)
  <2>1. \A i, j \in 1..Len(s) : s[i] = s[j] => i = j BY <1>5, InjectivePositions
  <2>2. ASSUME NEW i \in 1..Len(t), NEW j \in 1..Len(t), t[i] = t[j] PROVE i = j
    <3>1. i + 1 \in 1..Len(s) /\ j + 1 \in 1..Len(s) BY <1>1
    <3>2. s[i + 1] = s[j + 1] BY <1>1, <2>2
    <3>3. i + 1 = j + 1 BY <2>1, <3>1, <3>2
    <3> QED BY <3>3
  <2>3. IsInjective(t) BY <2>2, <1>1, InjectivePositions
  <2>4. ASSUME NEW i \in 1..Len(t), t[i] = Head(s) PROVE FALSE
    <3>1. i + 1 \in 1..Len(s) /\ 1 \in 1..Len(s) BY <1>1
    <3>2. s[i + 1] = s[1] BY <1>1, <2>4
    <3>3. i + 1 = 1 BY <2>1, <3>1, <3>2
    <3> QED BY <3>3
  <2> QED BY <2>3, <2>4, <1>2
<1> QED BY <1>1, <1>4, <1>5 DEF t

\* Removal from the middle of a queue that holds nothing twice: one element
\* goes, the others stay.
LEMMA RemoveMiddle ==
  ASSUME NEW S, NEW s \in Seq(S), NEW i \in 1..Len(s), IsInjective(s)
  PROVE  /\ RemoveAt(s, i) \in Seq(S)
         /\ Len(RemoveAt(s, i)) = Len(s) - 1
         /\ IsInjective(RemoveAt(s, i))
         /\ Range(RemoveAt(s, i)) = Range(s) \ {s[i]}
<1> DEFINE t == RemoveAt(s, i)
           a == SubSeq(s, 1, i - 1)
           b == SubSeq(s, i + 1, Len(s))
<1>1. Len(s) \in Nat /\ \A j \in 1..Len(s) : s[j] \in S
  BY LenProperties, ElementOfSeq
<1>2. /\ a \in Seq(S) /\ Len(a) = i - 1
      /\ \A j \in 1..(i - 1) : a[j] = s[j]
  <2>1. \A j \in 1..(i - 1) : s[j] \in S BY <1>1
  <2>2. /\ a \in Seq(S)
        /\ Len(a) = IF 1 <= i - 1 THEN (i - 1) - 1 + 1 ELSE 0
        /\ \A j \in 1..((i - 1) - 1 + 1) : a[j] = s[1 + j - 1]
    BY <2>1, SubSeqProperties
  <2> HIDE DEF a
  <2>3. \A j \in 1..(i - 1) : 1 + j - 1 = j OBVIOUS
  <2> QED BY <1>1, <2>2, <2>3
<1>3. /\ b \in Seq(S) /\ Len(b) = Len(s) - i
      /\ \A j \in 1..(Len(s) - i) : b[j] = s[i + j]
  <2>1. \A j \in (i + 1)..Len(s) : s[j] \in S BY <1>1
  <2>2. /\ b \in Seq(S)
        /\ Len(b) = IF i + 1 <= Len(s) THEN Len(s) - (i + 1) + 1 ELSE 0
        /\ \A j \in 1..(Len(s) - (i + 1) + 1) : b[j] = s[(i + 1) + j - 1]
    BY <1>1, <2>1, SubSeqProperties
  <2> HIDE DEF b
  <2>3. \A j \in 1..(Len(s) - i) : (i + 1) + j - 1 = i + j BY <1>1
  <2>4. Len(s) - (i + 1) + 1 = Len(s) - i BY <1>1
  <2>5. \A j \in 1..(Len(s) - i) : b[j] = s[i + j] BY <2>2, <2>3, <2>4
  <2>6. Len(b) = Len(s) - i BY <1>1, <2>2
  <2> QED BY <2>2, <2>5, <2>6
<1>4. t = a \o b BY DEF RemoveAt
<1> HIDE DEF a, b, t
<1>5. /\ t \in Seq(S) /\ Len(t) = Len(s) - 1
      /\ \A j \in 1..(Len(s) - 1) : t[j] = IF j < i THEN s[j] ELSE s[j + 1]
  <2>1. /\ t \in Seq(S) /\ Len(t) = Len(a) + Len(b)
        /\ \A j \in 1..(Len(a) + Len(b)) :
             t[j] = IF j <= Len(a) THEN a[j] ELSE b[j - Len(a)]
    BY <1>2, <1>3, <1>4, ConcatProperties
  <2>2. ASSUME NEW j \in 1..(Len(s) - 1)
        PROVE  t[j] = IF j < i THEN s[j] ELSE s[j + 1]
    <3>1. CASE j < i
      <4>1. j \in 1..(i - 1) /\ j <= Len(a) BY <3>1, <1>1, <1>2
      <4>2. j \in 1..(Len(a) + Len(b)) BY <1>1, <1>2, <1>3
      <4>3. t[j] = a[j] BY <4>1, <4>2, <2>1
      <4>4. a[j] = s[j] BY <4>1, <1>2
      <4> QED BY <3>1, <4>3, <4>4
    <3>2. CASE ~(j < i)
      <4>1. j - (i - 1) \in 1..(Len(s) - i) /\ i + (j - (i - 1)) = j + 1
        BY <3>2, <1>1
      <4>2. j \in 1..(Len(a) + Len(b)) /\ ~(j <= Len(a)) BY <3>2, <1>1, <1>2, <1>3
      <4>3. t[j] = b[j - (i - 1)] BY <4>2, <1>2, <2>1
      <4>4. b[j - (i - 1)] = s[j + 1] BY <4>1, <1>3
      <4> QED BY <3>2, <4>3, <4>4
    <3> QED BY <3>1, <3>2
  <2> QED BY <1>1, <1>2, <1>3, <2>1, <2>2
<1>6. \A j, k \in 1..Len(s) : s[j] = s[k] => j = k BY InjectivePositions
<1>7. IsInjective(t)
  <2>1. SUFFICES ASSUME NEW j \in 1..Len(t), NEW k \in 1..Len(t), t[j] = t[k]
                 PROVE  j = k
    BY <1>5, InjectivePositions
  <2> DEFINE at(m) == IF m < i THEN m ELSE m + 1
  <2>2. at(j) \in 1..Len(s) /\ at(k) \in 1..Len(s) BY <1>1, <1>5
  <2>3. t[j] = s[at(j)] /\ t[k] = s[at(k)] BY <1>1, <1>5
  <2>4. at(j) = at(k) BY <1>6, <2>1, <2>2, <2>3
  <2> QED BY <2>4, <1>1, <1>5
<1>8. \A y : y \in Range(t) <=> \E j \in 1..Len(t) : t[j] = y
  BY <1>5, RangeMember
<1>9. \A y : y \in Range(s) <=> \E j \in 1..Len(s) : s[j] = y
  BY RangeMember
<1>10. ASSUME NEW y \in Range(t) PROVE y \in Range(s) \ {s[i]}
  <2>1. PICK j \in 1..Len(t) : t[j] = y BY <1>8, <1>10
  <2> DEFINE m == IF j < i THEN j ELSE j + 1
  <2>2. m \in 1..Len(s) /\ m # i /\ s[m] = y BY <2>1, <1>1, <1>5
  <2> QED BY <2>2, <1>6, <1>9
<1>11. ASSUME NEW y \in Range(s) \ {s[i]} PROVE y \in Range(t)
  <2>1. PICK j \in 1..Len(s) : s[j] = y BY <1>9, <1>11
  <2>2. j # i BY <2>1, <1>11
  <2> DEFINE m == IF j < i THEN j ELSE j - 1
  <2>3. m \in 1..Len(t) /\ t[m] = y BY <2>1, <2>2, <1>1, <1>5
  <2> QED BY <2>3, <1>8
<1>12. Range(t) = Range(s) \ {s[i]} BY <1>10, <1>11
<1> QED BY <1>5, <1>7, <1>12 DEF t

\* Two queues joined hold nothing twice exactly when neither does and they
\* share nothing.
LEMMA JoinQueues ==
  ASSUME NEW S, NEW s \in Seq(S), NEW t \in Seq(S)
  PROVE  /\ s \o t \in Seq(S)
         /\ Range(s \o t) = Range(s) \cup Range(t)
         /\ IsInjective(s \o t) <=>
              /\ IsInjective(s) /\ IsInjective(t)
              /\ Range(s) \cap Range(t) = {}
<1> DEFINE u == s \o t
<1>1. /\ u \in Seq(S) /\ Len(u) = Len(s) + Len(t)
      /\ Len(s) \in Nat /\ Len(t) \in Nat
      /\ \A i \in 1..(Len(s) + Len(t)) :
           u[i] = IF i <= Len(s) THEN s[i] ELSE t[i - Len(s)]
  BY ConcatProperties, LenProperties
<1>2. Range(u) = Range(s) \cup Range(t) BY RangeConcatenation
<1> HIDE DEF u
<1>3. /\ \A y : y \in Range(s) <=> \E i \in 1..Len(s) : s[i] = y
      /\ \A y : y \in Range(t) <=> \E i \in 1..Len(t) : t[i] = y
  BY RangeMember
<1>4. \A i \in 1..Len(s) : i \in 1..Len(u) /\ u[i] = s[i] BY <1>1
<1>5. ASSUME NEW i \in 1..Len(t)
      PROVE  Len(s) + i \in 1..Len(u) /\ u[Len(s) + i] = t[i]
  <2>1. Len(s) + i \in 1..Len(u) /\ (Len(s) + i) - Len(s) = i BY <1>1
  <2>2. ~(Len(s) + i <= Len(s)) BY <1>1
  <2> QED BY <2>1, <2>2, <1>1
<1>6. ASSUME IsInjective(u)
      PROVE  IsInjective(s) /\ IsInjective(t) /\ Range(s) \cap Range(t) = {}
  <2>1. \A i, j \in 1..Len(u) : u[i] = u[j] => i = j BY <1>1, <1>6, InjectivePositions
  <2>2. \A i, j \in 1..Len(s) : s[i] = s[j] => i = j BY <1>4, <2>1
  <2>3. ASSUME NEW i \in 1..Len(t), NEW j \in 1..Len(t), t[i] = t[j] PROVE i = j
    <3>1. Len(s) + i = Len(s) + j BY <1>5, <2>1, <2>3
    <3> QED BY <3>1, <1>1
  <2>4. ASSUME NEW i \in 1..Len(s), NEW j \in 1..Len(t), s[i] = t[j] PROVE FALSE
    <3>1. i = Len(s) + j BY <1>4, <1>5, <2>1, <2>4
    <3> QED BY <3>1, <1>1
  <2>5. Range(s) \cap Range(t) = {} BY <1>3, <2>4
  <2> QED BY <2>2, <2>3, <2>5, InjectivePositions
<1>7. ASSUME IsInjective(s), IsInjective(t), Range(s) \cap Range(t) = {}
      PROVE  IsInjective(u)
  <2>1. /\ \A i, j \in 1..Len(s) : s[i] = s[j] => i = j
        /\ \A i, j \in 1..Len(t) : t[i] = t[j] => i = j
    BY <1>7, InjectivePositions
  <2>2. \A i \in 1..Len(s), j \in 1..Len(t) : s[i] # t[j] BY <1>3, <1>7
  <2>3. SUFFICES ASSUME NEW i \in 1..Len(u), NEW j \in 1..Len(u), u[i] = u[j]
                 PROVE  i = j
    BY <1>1, InjectivePositions
  <2>4. CASE i <= Len(s) /\ j <= Len(s)
    <3>1. i \in 1..Len(s) /\ j \in 1..Len(s) BY <2>4, <1>1
    <3>2. s[i] = s[j] BY <3>1, <1>4, <2>3
    <3> QED BY <3>1, <3>2, <2>1
  <2>5. CASE i <= Len(s) /\ ~(j <= Len(s))
    <3>1. i \in 1..Len(s) /\ j - Len(s) \in 1..Len(t) BY <2>5, <1>1
    <3>2. u[i] = s[i] /\ u[j] = t[j - Len(s)] BY <2>5, <1>1
    <3> QED BY <3>1, <3>2, <2>2, <2>3
  <2>6. CASE ~(i <= Len(s)) /\ j <= Len(s)
    <3>1. j \in 1..Len(s) /\ i - Len(s) \in 1..Len(t) BY <2>6, <1>1
    <3>2. u[j] = s[j] /\ u[i] = t[i - Len(s)] BY <2>6, <1>1
    <3> QED BY <3>1, <3>2, <2>2, <2>3
  <2>7. CASE ~(i <= Len(s)) /\ ~(j <= Len(s))
    <3>1. i - Len(s) \in 1..Len(t) /\ j - Len(s) \in 1..Len(t) BY <2>7, <1>1
    <3>2. u[i] = t[i - Len(s)] /\ u[j] = t[j - Len(s)] BY <2>7, <1>1
    <3>3. i - Len(s) = j - Len(s) BY <3>1, <3>2, <2>1, <2>3
    <3> QED BY <3>3, <1>1
  <2> QED BY <2>4, <2>5, <2>6, <2>7
<1> QED BY <1>1, <1>2, <1>6, <1>7 DEF u

\* A set of numbers has a lowest one.
LEMMA LowestExists ==
  ASSUME NEW S, S \subseteq Nat, S # {}
  PROVE  \E m \in S : \A k \in S : m <= k
<1>1. PICK m \in S : \A k \in S : ~(<<k, m>> \in OpToRel(<, Nat))
  BY NatLessThanWellFounded, WFMin
<1>2. \A k \in S : ~(k < m)
  BY <1>1, Zenon DEF OpToRel
<1>3. \A k \in S : m <= k
  BY <1>2
<1> QED
  BY <1>3

\* A finite set of positions or of ranks that is not empty has a highest one.
LEMMA HighestExists ==
  ASSUME NEW S, IsFiniteSet(S), S \subseteq Nat, S # {}
  PROVE  \E m \in S : \A k \in S : m >= k
<1> DEFINE Topped(U) == \E m \in U : \A k \in U : m >= k
           Bare == {U \in FiniteSubsetsOf(S) : U # {} /\ ~Topped(U)}
<1>1. SUFFICES ASSUME ~Topped(S) PROVE FALSE
  OBVIOUS
<1>2. S \in Bare
  BY <1>1, FS_FiniteSubsetsOfFinite
<1>3. Bare \subseteq FiniteSubsetsOf(S) /\ Bare # {}
  BY <1>2
<1> HIDE DEF Bare
<1>4. PICK U \in Bare : \A V \in Bare : ~(<<V, U>> \in StrictSubsetOrdering(S))
  BY <1>3, WFMin, FS_StrictSubsetOrderingWellFounded
<1>5. U \subseteq S /\ U # {} /\ ~Topped(U)
  BY <1>4, FS_FiniteSubsetsOfFinite DEF Bare
<1>6. PICK x \in U : TRUE
  BY <1>5
<1> DEFINE V == U \ {x}
<1>7. V \subseteq S /\ <<V, U>> \in StrictSubsetOrdering(S)
  BY <1>5, <1>6 DEF StrictSubsetOrdering
<1>8. V = {} \/ Topped(V)
  BY <1>4, <1>7, FS_FiniteSubsetsOfFinite DEF Bare
<1>9. CASE V = {}
  <2>1. \A k \in U : k = x
    BY <1>9
  <2> QED BY <1>5, <1>6, <2>1
<1>10. CASE Topped(V)
  <2>1. PICK m \in V : \A k \in V : m >= k
    BY <1>10
  <2>2. m \in Nat /\ x \in Nat /\ m \in U /\ U \subseteq Nat
    BY <1>5, <1>6
  <2>3. CASE m >= x
    <3>1. \A k \in U : m >= k
      BY <2>1, <2>3
    <3> QED BY <1>5, <2>2, <3>1
  <2>4. CASE x >= m
    <3>1. \A k \in U : x >= k
      BY <2>1, <2>2, <2>4
    <3> QED BY <1>5, <1>6, <3>1
  <2> QED BY <2>2, <2>3, <2>4
<1> QED BY <1>8, <1>9, <1>10

\* The contents of a queue, under its two names.
LEMMA ContentsAreRange ==
  ASSUME NEW s
  PROVE  ToSet(s) = Range(s)
BY DEF ToSet, Range

\* A queue with one element.
LEMMA OneElement ==
  ASSUME NEW S, NEW x \in S
  PROVE  /\ <<x>> \in Seq(S) /\ <<x>> # <<>> /\ Head(<<x>>) = x /\ Tail(<<x>>) = <<>>
         /\ Range(<<x>>) = {x} /\ IsInjective(<<x>>)
<1>1. DOMAIN <<x>> = {1} /\ <<x>>[1] = x
  OBVIOUS
<1>2. Range(<<x>>) = {x} /\ IsInjective(<<x>>)
  BY <1>1 DEF Range, IsInjective
<1> QED BY <1>2

=============================================================================
