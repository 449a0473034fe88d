----------------------------- MODULE SeqLemmas ------------------------------
(***************************************************************************)
(* Facts about minima, maxima and lists of distinct elements that the      *)
(* proofs of several components rest on.  NatMinimum is what they use as   *)
(* induction: the least number at which a statement fails.                 *)
(***************************************************************************)
EXTENDS Integers, Sequences, FiniteSets, SequencesExt, FiniteSetsExt,
        SequenceTheorems, WellFoundedInduction, TLAPS

LEMMA NatMinimum ==
    ASSUME NEW S, S \subseteq Nat, S # {}
    PROVE  \E x \in S : \A y \in S : x <= y
<1> DEFINE R == OpToRel(<, Nat)
<1>1. IsWellFoundedOn(R, Nat)
  BY NatLessThanWellFounded
<1> HIDE DEF R
<1>2. PICK x \in S : \A y \in S : ~(<<y, x>> \in R)
  BY <1>1, WFMin
<1>3. ASSUME NEW y \in S, ~(x <= y)
      PROVE  FALSE
  <2>1. <<y, x>> \in Nat \X Nat /\ y < x
    BY <1>3
  <2>2. <<y, x>> \in R
    BY <2>1 DEF R, OpToRel
  <2> QED
    BY <1>2, <2>2
<1> QED
  BY <1>3

LEMMA MinMember ==
    ASSUME NEW S, S \subseteq Nat, S # {}
    PROVE  Min(S) \in S
BY NatMinimum DEF Min

LEMMA MaxMember ==
    ASSUME NEW n \in Nat, NEW S, S \subseteq 1..n, S # {}
    PROVE  Max(S) \in S
<1> DEFINE T == {n - x : x \in S}
<1>0. \A x \in S : x \in Int /\ n - x \in Nat
  OBVIOUS
<1>1. T \subseteq Nat /\ T # {}
  BY <1>0
<1>2. PICK t \in T : \A u \in T : t <= u
  BY <1>1, NatMinimum
<1>3. PICK x \in S : t = n - x
  BY <1>2
<1>4. ASSUME NEW y \in S
      PROVE  x >= y
  <2>1. n - y \in T
    OBVIOUS
  <2>2. n - x <= n - y
    BY <1>2, <1>3, <2>1
  <2> QED
    BY <1>0, <2>2
<1> QED
  BY <1>4 DEF Max

LEMMA RemoveAtProperties ==
    ASSUME NEW S, NEW s \in Seq(S), NEW i \in 1..Len(s)
    PROVE  /\ RemoveAt(s, i) \in Seq(S)
           /\ Len(RemoveAt(s, i)) = Len(s) - 1
           /\ \A k \in 1..(Len(s) - 1) :
                 RemoveAt(s, i)[k] = IF k < i THEN s[k] ELSE s[k + 1]
<1> DEFINE l == SubSeq(s, 1, i - 1)
           r == SubSeq(s, i + 1, Len(s))
<1>1. \A k \in 1..Len(s) : s[k] \in S
  OBVIOUS
<1>2. /\ l \in Seq(S)
      /\ Len(l) = i - 1
      /\ \A k \in 1..(i - 1) : l[k] = s[k]
  BY <1>1, SubSeqProperties
<1>3. /\ r \in Seq(S)
      /\ Len(r) = Len(s) - i
      /\ \A k \in 1..(Len(s) - i) : r[k] = s[i + k]
  BY <1>1, SubSeqProperties
<1> HIDE DEF l, r
<1>a. Len(s) \in Nat /\ Len(l) + Len(r) = Len(s) - 1
  BY <1>2, <1>3, LenProperties
<1>4. /\ l \o r \in Seq(S)
      /\ Len(l \o r) = Len(l) + Len(r)
      /\ \A k \in 1..(Len(l) + Len(r)) :
            (l \o r)[k] = IF k <= Len(l) THEN l[k] ELSE r[k - Len(l)]
  BY <1>2, <1>3, ConcatProperties
<1>5. RemoveAt(s, i) = l \o r
  BY DEF RemoveAt, l, r
<1>6. ASSUME NEW k \in 1..(Len(s) - 1)
      PROVE  (l \o r)[k] = IF k < i THEN s[k] ELSE s[k + 1]
  <2>1. k \in 1..(Len(l) + Len(r)) /\ k \in Int /\ i \in Int
    BY <1>a
  <2>2. CASE k < i
    BY <1>2, <1>4, <2>1, <2>2
  <2>3. CASE k >= i
    <3>1. (l \o r)[k] = r[k - (i - 1)]
      BY <1>2, <1>4, <2>1, <2>3
    <3>2. k - (i - 1) \in 1..(Len(s) - i) /\ i + (k - (i - 1)) = k + 1
      BY <1>a, <2>1, <2>3
    <3> QED
      BY <1>3, <2>1, <2>3, <3>1, <3>2
  <2> QED
    BY <2>1, <2>2, <2>3
<1> QED
  BY <1>a, <1>4, <1>5, <1>6

(* Taking one element out of a list of distinct elements.                  *)
LEMMA RemoveAtDistinct ==
    ASSUME NEW S, NEW s \in Seq(S), NEW i \in 1..Len(s), IsInjective(s)
    PROVE  /\ IsInjective(RemoveAt(s, i))
           /\ ToSet(RemoveAt(s, i)) = ToSet(s) \ {s[i]}
<1> DEFINE t == RemoveAt(s, i)
<1>1. /\ t \in Seq(S)
      /\ Len(t) = Len(s) - 1
      /\ \A k \in 1..(Len(s) - 1) : t[k] = IF k < i THEN s[k] ELSE s[k + 1]
  BY RemoveAtProperties
<1> HIDE DEF t
<1>2. DOMAIN t = 1..(Len(s) - 1) /\ DOMAIN s = 1..Len(s)
  BY <1>1
<1>3. IsInjective(t)
  <2> SUFFICES ASSUME NEW j \in DOMAIN t, NEW k \in DOMAIN t, t[j] = t[k]
               PROVE  j = k
    BY DEF IsInjective
  <2> DEFINE at(x) == IF x < i THEN x ELSE x + 1
  <2>1. j \in Int /\ k \in Int /\ at(j) \in DOMAIN s /\ at(k) \in DOMAIN s
    BY <1>2
  <2>2. s[at(j)] = s[at(k)]
    BY <1>1, <1>2
  <2>3. at(j) = at(k)
    BY <2>1, <2>2 DEF IsInjective
  <2> QED
    BY <2>1, <2>3
<1>4. \A k \in DOMAIN s : k # i => \E j \in DOMAIN t : t[j] = s[k]
  <2> SUFFICES ASSUME NEW k \in DOMAIN s, k # i
               PROVE  \E j \in DOMAIN t : t[j] = s[k]
    OBVIOUS
  <2>1. CASE k < i
    BY <1>1, <1>2, <2>1
  <2>2. CASE k > i
    <3>1. k - 1 \in DOMAIN t /\ t[k - 1] = s[k]
      BY <1>1, <1>2, <2>2
    <3> QED
      BY <3>1
  <2> QED
    BY <1>2, <2>1, <2>2
<1>5. \A k \in DOMAIN t : t[k] \in ToSet(s) /\ t[k] # s[i]
  BY <1>1, <1>2 DEF IsInjective, ToSet
<1>6. ToSet(t) = ToSet(s) \ {s[i]}
  BY <1>4, <1>5 DEF ToSet
<1> QED
  BY <1>3, <1>6 DEF t

(* Putting a new element in front of a list of distinct elements.          *)
LEMMA PrependDistinct ==
    ASSUME NEW S, NEW s \in Seq(S), NEW b \in S, IsInjective(s), b \notin ToSet(s)
    PROVE  /\ <<b>> \o s \in Seq(S)
           /\ Len(<<b>> \o s) = Len(s) + 1
           /\ IsInjective(<<b>> \o s)
           /\ ToSet(<<b>> \o s) = ToSet(s) \cup {b}
<1> DEFINE t == <<b>> \o s
<1>1. /\ t \in Seq(S)
      /\ Len(t) = Len(s) + 1
      /\ \A k \in 1..(Len(s) + 1) : t[k] = IF k <= 1 THEN b ELSE s[k - 1]
  BY ConcatProperties
<1> HIDE DEF t
<1>2. DOMAIN t = 1..(Len(s) + 1) /\ DOMAIN s = 1..Len(s)
  BY <1>1
<1>3. IsInjective(t)
  <2> SUFFICES ASSUME NEW j \in DOMAIN t, NEW k \in DOMAIN t, t[j] = t[k]
               PROVE  j = k
    BY DEF IsInjective
  <2>1. j \in Int /\ k \in Int
    BY <1>2
  <2>2. j # 1 => j - 1 \in DOMAIN s /\ t[j] = s[j - 1]
    BY <1>1, <1>2
  <2>3. k # 1 => k - 1 \in DOMAIN s /\ t[k] = s[k - 1]
    BY <1>1, <1>2
  <2>4. t[1] = b
    BY <1>1
  <2>5. (j = 1) <=> (k = 1)
    BY <2>2, <2>3, <2>4 DEF ToSet
  <2>6. j # 1 => j - 1 = k - 1
    BY <2>2, <2>3, <2>5 DEF IsInjective
  <2> QED
    BY <2>1, <2>5, <2>6
<1>4. t[1] = b /\ 1 \in DOMAIN t
  BY <1>1, <1>2
<1>5. \A k \in DOMAIN s : k + 1 \in DOMAIN t /\ t[k + 1] = s[k]
  BY <1>1, <1>2
<1>6. \A k \in DOMAIN t : t[k] \in ToSet(s) \cup {b}
  BY <1>1, <1>2 DEF ToSet
<1>7. ToSet(t) = ToSet(s) \cup {b}
  BY <1>4, <1>5, <1>6 DEF ToSet
<1> QED
  BY <1>1, <1>3, <1>7 DEF t

(* Induction over the positions of a run.                                  *)
LEMMA LeastFailure ==
    ASSUME NEW n \in Nat, NEW G, G \subseteq 0..n, 0 \in G,
           \A i \in 1..n : i - 1 \in G => i \in G
    PROVE  G = 0..n
<1> DEFINE T == (0..n) \ G
<1> SUFFICES ASSUME T # {} PROVE FALSE
  OBVIOUS
<1>1. PICK k \in T : \A j \in T : k <= j
  <2> HIDE DEF T
  <2>1. T \subseteq Nat
    BY DEF T
  <2> QED
    BY <2>1, NatMinimum
<1>2. k \in 1..n /\ k - 1 \in 0..n /\ k - 1 \notin T
  BY <1>1
<1> QED
  BY <1>1, <1>2

LEMMA AppendDistinct ==
    ASSUME NEW S, NEW s \in Seq(S), NEW b \in S, IsInjective(s), b \notin ToSet(s)
    PROVE  /\ Append(s, b) \in Seq(S)
           /\ Len(Append(s, b)) = Len(s) + 1
           /\ IsInjective(Append(s, b))
           /\ ToSet(Append(s, b)) = ToSet(s) \cup {b}
<1> DEFINE t == Append(s, b)
<1>1. /\ t \in Seq(S) /\ Len(t) = Len(s) + 1 /\ Len(s) \in Nat
      /\ DOMAIN t = 1..(Len(s) + 1) /\ DOMAIN s = 1..Len(s)
      /\ \A i \in 1..Len(s) : t[i] = s[i]
      /\ t[Len(s) + 1] = b
  OBVIOUS
<1> HIDE DEF t
<1>2. \A i \in 1..Len(s) : s[i] # b
  BY <1>1 DEF ToSet
<1>3. IsInjective(t)
  BY <1>1, <1>2 DEF IsInjective
<1>4. ToSet(t) = ToSet(s) \cup {b}
  BY <1>1 DEF ToSet
<1> QED
  BY <1>1, <1>3, <1>4 DEF t

LEMMA AppendElements ==
    ASSUME NEW S, NEW s \in Seq(S), NEW b \in S
    PROVE  Append(s, b) \in Seq(S) /\ ToSet(Append(s, b)) = ToSet(s) \cup {b}
<1> DEFINE t == Append(s, b)
<1>1. /\ t \in Seq(S) /\ Len(s) \in Nat
      /\ DOMAIN t = (1..Len(s)) \cup {Len(s) + 1} /\ DOMAIN s = 1..Len(s)
      /\ \A i \in 1..Len(s) : t[i] = s[i]
      /\ t[Len(s) + 1] = b
  OBVIOUS
<1> HIDE DEF t
<1> QED
  BY <1>1 DEF ToSet, t

LEMMA Products ==
    ASSUME NEW a \in Nat, NEW b \in Nat, NEW c \in Nat, a < b
    PROVE  a * c \in Nat /\ b * c \in Nat /\ (a + 1) * c = a * c + c /\ a * c + c <= b * c
<1>1. a * c \in Nat /\ b * c \in Nat /\ (a + 1) * c = a * c + c
  OBVIOUS
<1>2. PICK d \in Nat : b = a + 1 + d
  <2>1. b - a - 1 \in Nat /\ b = a + 1 + (b - a - 1)
    OBVIOUS
  <2> QED
    BY <2>1
<1>3. (a + 1 + d) * c = a * c + c + d * c /\ d * c \in Nat
  OBVIOUS
<1> QED
  BY <1>1, <1>2, <1>3

LEMMA ConcatAppend ==
    ASSUME NEW S, NEW s \in Seq(S), NEW t \in Seq(S), NEW r \in S
    PROVE  s \o Append(t, r) = Append(s \o t, r)
<1> DEFINE u == s \o Append(t, r)
           v == Append(s \o t, r)
<1>1. u \in Seq(S) /\ v \in Seq(S) /\ Len(u) = Len(s) + Len(t) + 1 /\ Len(v) = Len(s) + Len(t) + 1
  OBVIOUS
<1>2. Len(s) \in Nat /\ Len(t) \in Nat
  OBVIOUS
<1>3. ASSUME NEW i \in 1..(Len(s) + Len(t) + 1) PROVE u[i] = v[i]
  <2>1. CASE i <= Len(s)
    BY <1>2, <2>1
  <2>2. CASE i > Len(s) /\ i <= Len(s) + Len(t)
    BY <1>2, <2>2
  <2>3. CASE i = Len(s) + Len(t) + 1
    BY <1>2, <2>3
  <2> QED
    BY <1>2, <2>1, <2>2, <2>3
<1> HIDE DEF u, v
<1>4. u = v
  BY <1>1, <1>2, <1>3
<1> QED
  BY <1>4 DEF u, v

=============================================================================
