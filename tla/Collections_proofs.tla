------------------------- MODULE Collections_proofs -------------------------
(***************************************************************************)
(* Proofs about the operators the models are built from: queues whose      *)
(* elements differ, and sums over finite sets.  SumOn is a fold, a         *)
(* function defined by recursion over finite sets; instead of induction,   *)
(* whose rule the provers cannot instantiate, a minimal set for which a    *)
(* claim fails is considered: finite sets have one (MinimalSubset).        *)
(***************************************************************************)
EXTENDS Sums, SequencesExt, FiniteSetTheorems, SequenceTheorems, WellFoundedInduction, TLAPS

(* A non-empty collection of subsets of a finite set has a member none of  *)
(* whose proper subsets belongs to it.                                     *)
LEMMA MinimalSubset ==
  ASSUME NEW S, IsFiniteSet(S), NEW B \in SUBSET (SUBSET S), B # {}
  PROVE  \E T \in B : \A U \in SUBSET T : U # T => U \notin B
<1>1. IsWellFoundedOn(StrictSubsetOrdering(S), SUBSET S)
  BY FS_StrictSubsetOrderingWellFounded, FS_FiniteSubsetsOfFinite
<1>2. PICK T \in B : \A U \in B : ~ (<<U, T>> \in StrictSubsetOrdering(S))
  BY <1>1, WFMin
<1>3. ASSUME NEW U \in SUBSET T, U # T, U \in B
      PROVE  FALSE
  <2>1. <<U, T>> \in (SUBSET S) \X (SUBSET S)
    BY <1>3
  <2>2. <<U, T>> \in StrictSubsetOrdering(S)
    BY <1>3, <2>1 DEF StrictSubsetOrdering
  <2> QED BY <1>2, <1>3, <2>2
<1> QED BY <1>3

(***************************************************************************)
(* Queues without repetition.                                              *)
(***************************************************************************)

LEMMA QueueElements ==
  ASSUME NEW S, NEW s \in Seq(S)
  PROVE  /\ Len(s) \in Nat
         /\ ToSet(s) = {s[i] : i \in 1..Len(s)}
         /\ ToSet(s) \subseteq S
         /\ IsInjective(s) <=> \A i, j \in 1..Len(s) : s[i] = s[j] => i = j
         /\ ToSet(s) = {} <=> s = <<>>
<1>1. DOMAIN s = 1..Len(s) /\ Len(s) \in Nat /\ \A i \in 1..Len(s) : s[i] \in S
  OBVIOUS
<1>2. s = <<>> <=> Len(s) = 0
  BY EmptySeq
<1>3. ToSet(s) = {s[i] : i \in 1..Len(s)}
  BY <1>1 DEF ToSet
<1>4. IsInjective(s) <=> \A i, j \in 1..Len(s) : s[i] = s[j] => i = j
  BY <1>1 DEF IsInjective
<1>5. ASSUME s # <<>> PROVE ToSet(s) # {}
  <2>1. 1 \in 1..Len(s)
    BY <1>1, <1>2, <1>5
  <2> QED BY <1>3, <2>1
<1>6. ASSUME s = <<>> PROVE ToSet(s) = {}
  BY <1>1, <1>2, <1>3, <1>6
<1> QED BY <1>1, <1>3, <1>4, <1>5, <1>6

LEMMA EmptyQueue == ToSet(<<>>) = {} /\ IsInjective(<<>>)
BY DEF ToSet, IsInjective

LEMMA QueueAppend ==
  ASSUME NEW S, NEW s \in Seq(S), NEW x \in S
  PROVE  /\ Append(s, x) \in Seq(S)
         /\ ToSet(Append(s, x)) = ToSet(s) \cup {x}
         /\ IsInjective(s) /\ x \notin ToSet(s) => IsInjective(Append(s, x))
<1>1. /\ Append(s, x) \in Seq(S) /\ Len(s) \in Nat
      /\ Len(Append(s, x)) = Len(s) + 1
      /\ \A i \in 1..Len(s) : Append(s, x)[i] = s[i]
      /\ Append(s, x)[Len(s) + 1] = x
  BY AppendProperties
<1> DEFINE t == Append(s, x)
<1> HIDE DEF t
<1>2. ToSet(t) = ToSet(s) \cup {x}
  <2>1. \A i \in 1..Len(s) + 1 : i \in 1..Len(s) \/ i = Len(s) + 1
    BY <1>1
  <2>2. Len(s) + 1 \in 1..Len(s) + 1 /\ \A i \in 1..Len(s) : i \in 1..Len(s) + 1
    BY <1>1
  <2>3. ToSet(t) = {t[i] : i \in 1..Len(s) + 1} /\ ToSet(s) = {s[i] : i \in 1..Len(s)}
    BY <1>1, QueueElements DEF t
  <2> QED BY <1>1, <2>1, <2>2, <2>3 DEF t
<1>3. ASSUME IsInjective(s), x \notin ToSet(s)
      PROVE  IsInjective(t)
  <2>1. ASSUME NEW i \in 1..Len(s) + 1, NEW j \in 1..Len(s) + 1, t[i] = t[j]
        PROVE  i = j
    <3>1. \A k \in 1..Len(s) : s[k] # x
      BY <1>3, QueueElements
    <3>2. \A k, l \in 1..Len(s) : s[k] = s[l] => k = l
      BY <1>3, QueueElements
    <3> QED BY <1>1, <2>1, <3>1, <3>2 DEF t
  <2> QED BY <1>1, <2>1, QueueElements DEF t
<1> QED BY <1>1, <1>2, <1>3 DEF t

LEMMA QueuePush ==
  ASSUME NEW S, NEW s \in Seq(S), NEW x \in S
  PROVE  /\ <<x>> \o s \in Seq(S)
         /\ Len(<<x>> \o s) = Len(s) + 1
         /\ (<<x>> \o s)[1] = x
         /\ \A i \in 1..Len(s) : (<<x>> \o s)[i + 1] = s[i]
         /\ ToSet(<<x>> \o s) = ToSet(s) \cup {x}
         /\ IsInjective(s) /\ x \notin ToSet(s) => IsInjective(<<x>> \o s)
<1> DEFINE t == <<x>> \o s
<1>1. /\ t \in Seq(S) /\ Len(s) \in Nat
      /\ Len(t) = Len(s) + 1
      /\ t[1] = x
      /\ \A i \in 1..Len(s) : t[i + 1] = s[i]
  <2>1. <<x>> \in Seq(S) /\ Len(<<x>>) = 1 /\ <<x>>[1] = x /\ Len(s) \in Nat
    OBVIOUS
  <2>2. /\ t \in Seq(S) /\ Len(t) = Len(<<x>>) + Len(s)
        /\ \A i \in 1..Len(<<x>>) + Len(s) :
              t[i] = IF i <= Len(<<x>>) THEN <<x>>[i] ELSE s[i - Len(<<x>>)]
    BY <2>1, ConcatProperties
  <2> HIDE DEF t
  <2> QED BY <2>1, <2>2
<1> HIDE DEF t
<1>2. \A i \in 1..Len(s) + 1 : i = 1 \/ (i - 1 \in 1..Len(s) /\ t[i] = s[i - 1])
  <2>1. TAKE i \in 1..Len(s) + 1
  <2>2. CASE i # 1
    <3>1. i - 1 \in 1..Len(s) /\ (i - 1) + 1 = i
      BY <1>1, <2>2
    <3>2. t[(i - 1) + 1] = s[i - 1]
      BY <1>1, <3>1
    <3> QED BY <3>1, <3>2
  <2> QED BY <2>2
<1>3. ToSet(t) = ToSet(s) \cup {x}
  <2>2. 1 \in 1..Len(s) + 1 /\ \A i \in 1..Len(s) : i + 1 \in 1..Len(s) + 1
    BY <1>1
  <2>3. ToSet(t) = {t[i] : i \in 1..Len(s) + 1} /\ ToSet(s) = {s[i] : i \in 1..Len(s)}
    BY <1>1, QueueElements
  <2>4. \A i \in 1..Len(s) : s[i] \in ToSet(t)
    BY <1>1, <2>2, <2>3
  <2>5. \A i \in 1..Len(s) + 1 : t[i] \in ToSet(s) \cup {x}
    BY <1>1, <1>2, <2>3
  <2>6. x \in ToSet(t)
    BY <1>1, <2>2, <2>3
  <2>7. ToSet(t) \subseteq ToSet(s) \cup {x}
    BY <2>3, <2>5
  <2>8. ToSet(s) \subseteq ToSet(t)
    BY <2>3, <2>4
  <2> QED BY <2>6, <2>7, <2>8
<1>4. ASSUME IsInjective(s), x \notin ToSet(s)
      PROVE  IsInjective(t)
  <2>1. ASSUME NEW i \in 1..Len(s) + 1, NEW j \in 1..Len(s) + 1, t[i] = t[j]
        PROVE  i = j
    <3>1. \A k \in 1..Len(s) : s[k] # x
      BY <1>4, QueueElements
    <3>2. \A k, l \in 1..Len(s) : s[k] = s[l] => k = l
      BY <1>4, QueueElements
    <3> QED BY <1>1, <1>2, <2>1, <3>1, <3>2
  <2> QED BY <1>1, <2>1, QueueElements
<1> QED BY <1>1, <1>3, <1>4 DEF t

LEMMA QueueTail ==
  ASSUME NEW S, NEW s \in Seq(S), s # <<>>
  PROVE  /\ Len(s) \in Nat \ {0} /\ Head(s) = s[1] /\ Head(s) \in S
         /\ Tail(s) \in Seq(S)
         /\ Len(Tail(s)) = Len(s) - 1
         /\ \A i \in 1..Len(s) - 1 : Tail(s)[i] = s[i + 1]
         /\ ToSet(s) = ToSet(Tail(s)) \cup {Head(s)}
         /\ IsInjective(s) => IsInjective(Tail(s)) /\ Head(s) \notin ToSet(Tail(s))
<1> DEFINE t == Tail(s)
<1>1. /\ Len(s) \in Nat \ {0} /\ Head(s) = s[1] /\ Head(s) \in S
      /\ t \in Seq(S) /\ Len(t) = Len(s) - 1
      /\ \A i \in 1..Len(s) - 1 : t[i] = s[i + 1]
  <2>1. Len(s) \in Nat /\ Len(s) # 0
    BY EmptySeq
  <2> QED BY <2>1, HeadTailProperties
<1> HIDE DEF t
<1>2. \A i \in 1..Len(s) : i = 1 \/ (i - 1 \in 1..Len(t) /\ s[i] = t[i - 1])
  <2>1. TAKE i \in 1..Len(s)
  <2>2. CASE i # 1
    <3>1. i - 1 \in 1..Len(s) - 1 /\ (i - 1) + 1 = i
      BY <1>1, <2>2
    <3>2. t[i - 1] = s[(i - 1) + 1]
      BY <1>1, <3>1
    <3> QED BY <1>1, <3>1, <3>2
  <2> QED BY <2>2
<1>3. 1 \in 1..Len(s) /\ \A i \in 1..Len(t) : i + 1 \in 1..Len(s) /\ t[i] = s[i + 1] /\ i + 1 # 1
  BY <1>1
<1>4. ToSet(s) = ToSet(t) \cup {Head(s)}
  <2>1. ToSet(t) = {t[i] : i \in 1..Len(t)} /\ ToSet(s) = {s[i] : i \in 1..Len(s)}
    BY <1>1, QueueElements
  <2> QED BY <1>1, <1>2, <1>3, <2>1
<1>5. ASSUME IsInjective(s) PROVE IsInjective(t) /\ Head(s) \notin ToSet(t)
  <2>1. \A k, l \in 1..Len(s) : s[k] = s[l] => k = l
    BY <1>5, QueueElements
  <2>2. \A i, j \in 1..Len(t) : t[i] = t[j] => i = j
    <3>1. TAKE i, j \in 1..Len(t)
    <3>2. i \in Int /\ j \in Int
      BY <1>1
    <3> QED BY <1>3, <2>1, <3>2
  <2>3. \A i \in 1..Len(t) : t[i] # s[1]
    BY <1>3, <2>1
  <2>4. ToSet(t) = {t[i] : i \in 1..Len(t)}
    BY <1>1, QueueElements
  <2>5. IsInjective(t)
    BY <1>1, <2>2, QueueElements
  <2> QED BY <1>1, <2>3, <2>4, <2>5
<1> QED BY <1>1, <1>4, <1>5 DEF t

(* RemoveFirst closes the gap at the place of x, if it is there at all. *)
LEMMA QueueRemove ==
  ASSUME NEW S, NEW s \in Seq(S), IsInjective(s), NEW x \in ToSet(s)
  PROVE  \E k \in 1..Len(s) :
            /\ s[k] = x
            /\ RemoveFirst(s, x) \in Seq(S)
            /\ Len(RemoveFirst(s, x)) = Len(s) - 1
            /\ \A i \in 1..Len(s) - 1 : RemoveFirst(s, x)[i] = IF i < k THEN s[i] ELSE s[i + 1]
<1>1. /\ Len(s) \in Nat /\ \A i \in 1..Len(s) : s[i] \in S
      /\ ToSet(s) = {s[i] : i \in 1..Len(s)}
      /\ \A i, j \in 1..Len(s) : s[i] = s[j] => i = j
  BY QueueElements
<1>2. PICK k \in 1..Len(s) : s[k] = x
  BY <1>1
<1>3. SelectInSeq(s, LAMBDA v : v = x) = k
  <2>1. {i \in 1..Len(s) : s[i] = x} = {k}
    BY <1>1, <1>2
  <2>2. Min({k}) = k
    BY <1>1 DEF Min
  <2> QED BY <2>1, <2>2 DEF SelectInSeq
<1> DEFINE a == SubSeq(s, 1, k - 1)
           b == SubSeq(s, k + 1, Len(s))
           n == Len(s)
<1>4. RemoveFirst(s, x) = a \o b
  BY <1>2, <1>3 DEF RemoveFirst, RemoveAt
<1>5. k \in Int /\ n \in Int /\ 1 <= k /\ k <= n /\ k - 1 \in Int /\ k + 1 \in Int
  BY <1>1
<1>6. /\ a \in Seq(S) /\ Len(a) = k - 1
      /\ \A i \in 1..k - 1 : a[i] = s[i]
  <2>1. \A i \in 1..k - 1 : s[i] \in S
    BY <1>1, <1>5
  <2>2. /\ a \in Seq(S)
        /\ Len(a) = IF 1 <= k - 1 THEN k - 1 - 1 + 1 ELSE 0
        /\ \A i \in 1 .. k - 1 - 1 + 1 : a[i] = s[1 + i - 1]
    <3> HIDE DEF n
    <3> QED BY <1>5, <2>1, SubSeqProperties
  <2> HIDE DEF a
  <2> QED BY <1>5, <2>2
<1>7. /\ b \in Seq(S) /\ Len(b) = n - k
      /\ \A i \in 1..n - k : b[i] = s[k + i]
  <2>1. \A i \in k + 1 .. n : s[i] \in S
    BY <1>1, <1>5
  <2>2. /\ b \in Seq(S)
        /\ Len(b) = IF k + 1 <= n THEN n - (k + 1) + 1 ELSE 0
        /\ \A i \in 1 .. n - (k + 1) + 1 : b[i] = s[(k + 1) + i - 1]
    BY <1>5, <2>1, SubSeqProperties
  <2> HIDE DEF b, n
  <2>3. \A i \in 1..n - k : (k + 1) + i - 1 = k + i
    BY <1>5
  <2>4. n - (k + 1) + 1 = n - k
    BY <1>5
  <2> QED BY <1>5, <2>2, <2>3, <2>4
<1> HIDE DEF a, b, n
<1>8. /\ a \o b \in Seq(S) /\ Len(a \o b) = n - 1
      /\ \A i \in 1..n - 1 : (a \o b)[i] = IF i < k THEN s[i] ELSE s[i + 1]
  <2>1. /\ a \o b \in Seq(S) /\ Len(a \o b) = Len(a) + Len(b)
        /\ \A i \in 1..Len(a) + Len(b) : (a \o b)[i] = IF i <= Len(a) THEN a[i] ELSE b[i - Len(a)]
    BY <1>6, <1>7, ConcatProperties
  <2>2. Len(a) + Len(b) = n - 1
    BY <1>5, <1>6, <1>7
  <2>3. ASSUME NEW i \in 1..n - 1, ~ (i < k) PROVE (a \o b)[i] = s[i + 1]
    <3>1. i - (k - 1) \in 1..n - k /\ k + (i - (k - 1)) = i + 1 /\ ~ (i <= k - 1)
      BY <1>5, <2>3
    <3> QED BY <1>6, <1>7, <2>1, <2>2, <3>1
  <2>4. ASSUME NEW i \in 1..n - 1, i < k PROVE (a \o b)[i] = s[i]
    BY <1>5, <1>6, <2>1, <2>2, <2>4
  <2> QED BY <2>1, <2>2, <2>3, <2>4
<1> QED BY <1>2, <1>4, <1>8 DEF n

LEMMA QueueWithout ==
  ASSUME NEW S, NEW s \in Seq(S), IsInjective(s), NEW x
  PROVE  /\ RemoveFirst(s, x) \in Seq(S)
         /\ ToSet(RemoveFirst(s, x)) = ToSet(s) \ {x}
         /\ IsInjective(RemoveFirst(s, x))
         /\ x \notin ToSet(s) => RemoveFirst(s, x) = s
<1>1. /\ Len(s) \in Nat /\ ToSet(s) = {s[i] : i \in 1..Len(s)}
      /\ \A i, j \in 1..Len(s) : s[i] = s[j] => i = j
  BY QueueElements
<1>2. CASE x \notin ToSet(s)
  BY <1>1, <1>2 DEF RemoveFirst
<1>3. CASE x \in ToSet(s)
  <2> DEFINE t == RemoveFirst(s, x)
             n == Len(s)
  <2>1. PICK k \in 1..n : /\ s[k] = x
                          /\ t \in Seq(S)
                          /\ Len(t) = n - 1
                          /\ \A i \in 1..n - 1 : t[i] = IF i < k THEN s[i] ELSE s[i + 1]
    BY <1>3, QueueRemove
  <2> HIDE DEF t, n
  <2>2. n \in Int /\ k \in Int /\ \A i \in 1..n - 1 : i \in Int /\ i \in 1..n /\ i + 1 \in 1..n
    BY <1>1 DEF n
  <2>3. ToSet(t) = {t[i] : i \in 1..n - 1} /\ (IsInjective(t) <=> \A i, j \in 1..n - 1 : t[i] = t[j] => i = j)
    BY <2>1, QueueElements
  <2>4. \A i \in 1..n - 1 : t[i] \in ToSet(s) \ {x}
    <3>1. TAKE i \in 1..n - 1
    <3>2. CASE i < k
      BY <1>1, <2>1, <2>2, <3>2 DEF n
    <3>3. CASE ~ (i < k)
      BY <1>1, <2>1, <2>2, <3>3 DEF n
    <3> QED BY <3>2, <3>3
  <2>5. ASSUME NEW i \in 1..n, s[i] # x PROVE s[i] \in ToSet(t)
    <3>1. CASE i < k
      <4>1. i \in 1..n - 1 /\ t[i] = s[i]
        BY <2>1, <2>2, <3>1
      <4> QED BY <2>3, <4>1
    <3>2. CASE i > k
      <4>1. i - 1 \in 1..n - 1 /\ ~ (i - 1 < k) /\ (i - 1) + 1 = i
        BY <2>1, <2>2, <3>2
      <4>2. t[i - 1] = s[(i - 1) + 1]
        BY <2>1, <4>1
      <4> QED BY <2>3, <4>1, <4>2
    <3>3. i = k \/ i < k \/ i > k
      BY <2>2
    <3> QED BY <2>1, <2>5, <3>1, <3>2, <3>3
  <2>6. ToSet(t) = ToSet(s) \ {x}
    <3>1. ToSet(t) \subseteq ToSet(s) \ {x}
      BY <2>3, <2>4
    <3>2. ToSet(s) \ {x} \subseteq ToSet(t)
      BY <1>1, <2>5 DEF n
    <3> QED BY <3>1, <3>2
  <2>7. \A i, j \in 1..n - 1 : t[i] = t[j] => i = j
    <3>1. TAKE i, j \in 1..n - 1
    <3>2. i \in Int /\ j \in Int /\ i \in 1..n /\ j \in 1..n /\ i + 1 \in 1..n /\ j + 1 \in 1..n
      BY <2>2
    <3>3. \A p, q \in 1..n : s[p] = s[q] => p = q
      BY <1>1 DEF n
    <3>4. t[i] = (IF i < k THEN s[i] ELSE s[i + 1]) /\ t[j] = IF j < k THEN s[j] ELSE s[j + 1]
      BY <2>1
    <3> QED BY <2>2, <3>2, <3>3, <3>4
  <2> QED BY <1>3, <2>1, <2>3, <2>6, <2>7 DEF t
<1> QED BY <1>2, <1>3

(* Removing the last element leaves the others where they are. *)
LEMMA QueueWithoutLast ==
  ASSUME NEW S, NEW s \in Seq(S), IsInjective(s), s # <<>>
  PROVE  LET t == RemoveFirst(s, Last(s))
         IN  /\ Len(t) = Len(s) - 1
             /\ \A i \in 1..Len(s) - 1 : t[i] = s[i]
             /\ Last(s) \in ToSet(s) /\ Len(s) \in Nat \ {0}
<1>1. /\ Len(s) \in Nat \ {0} /\ ToSet(s) = {s[i] : i \in 1..Len(s)}
      /\ \A i, j \in 1..Len(s) : s[i] = s[j] => i = j
  BY QueueElements, EmptySeq
<1>2. Last(s) = s[Len(s)] /\ Len(s) \in 1..Len(s)
  BY <1>1 DEF Last
<1>3. Last(s) \in ToSet(s)
  BY <1>1, <1>2
<1>4. PICK k \in 1..Len(s) :
            /\ s[k] = Last(s)
            /\ Len(RemoveFirst(s, Last(s))) = Len(s) - 1
            /\ \A i \in 1..Len(s) - 1 :
                  RemoveFirst(s, Last(s))[i] = IF i < k THEN s[i] ELSE s[i + 1]
  BY <1>3, QueueRemove
<1>5. k = Len(s)
  BY <1>1, <1>2, <1>4
<1>6. \A i \in 1..Len(s) - 1 : i < k
  BY <1>1, <1>5
<1> QED BY <1>1, <1>3, <1>4, <1>6

(* An injective sequence is as long as its set of elements. *)
LEMMA QueueSize ==
  ASSUME NEW S, NEW s \in Seq(S)
  PROVE  /\ IsFiniteSet(ToSet(s))
         /\ IsInjective(s) => Cardinality(ToSet(s)) = Len(s)
<1>1. /\ Len(s) \in Nat /\ ToSet(s) = {s[i] : i \in 1..Len(s)}
      /\ IsInjective(s) <=> \A i, j \in 1..Len(s) : s[i] = s[j] => i = j
  BY QueueElements
<1>2. IsFiniteSet(1..Len(s)) /\ Cardinality(1..Len(s)) = Len(s)
  BY <1>1, FS_Interval, SMTT(30)
<1> DEFINE f == [i \in 1..Len(s) |-> s[i]]
<1>3. f \in Surjection(1..Len(s), ToSet(s))
  BY <1>1 DEF Surjection
<1>4. /\ IsFiniteSet(ToSet(s))
      /\ Cardinality(ToSet(s)) = Cardinality(1..Len(s)) <=> f \in Injection(1..Len(s), ToSet(s))
  BY <1>2, <1>3, FS_Surjection
<1>5. IsInjective(s) => f \in Injection(1..Len(s), ToSet(s))
  BY <1>1, <1>3 DEF Injection, Surjection, IsInjective
<1> QED BY <1>2, <1>4, <1>5

(* Cutting off the first n elements. *)
LEMMA QueueSplit ==
  ASSUME NEW S, NEW s \in Seq(S), IsInjective(s)
  PROVE  \A n \in 0..Len(s) :
           /\ SubSeq(s, n + 1, Len(s)) \in Seq(S)
           /\ Len(SubSeq(s, n + 1, Len(s))) = Len(s) - n
           /\ IsInjective(SubSeq(s, n + 1, Len(s)))
           /\ ToSet(SubSeq(s, 1, n)) = {s[i] : i \in 1..n}
           /\ ToSet(SubSeq(s, n + 1, Len(s))) = ToSet(s) \ ToSet(SubSeq(s, 1, n))
           /\ ToSet(SubSeq(s, 1, n)) \in SUBSET ToSet(s)
<1> SUFFICES ASSUME NEW n \in 0..Len(s), NEW t, t = SubSeq(s, n + 1, Len(s))
             PROVE  /\ t \in Seq(S) /\ Len(t) = Len(s) - n /\ IsInjective(t)
                    /\ ToSet(SubSeq(s, 1, n)) = {s[i] : i \in 1..n}
                    /\ ToSet(t) = ToSet(s) \ ToSet(SubSeq(s, 1, n))
                    /\ ToSet(SubSeq(s, 1, n)) \in SUBSET ToSet(s)
  OBVIOUS
<1>1. /\ Len(s) \in Nat /\ ToSet(s) = {s[i] : i \in 1..Len(s)}
      /\ \A i, j \in 1..Len(s) : s[i] = s[j] => i = j
      /\ \A i \in 1..Len(s) : s[i] \in S
  BY QueueElements
<1> DEFINE l == Len(s)
           h == SubSeq(s, 1, n)
<1>2. l \in Nat /\ n \in Nat /\ n <= l /\ n + 1 \in Int
  BY <1>1
<1>3. /\ h \in Seq(S) /\ Len(h) = n /\ \A i \in 1..n : h[i] = s[i]
  <2>1. \A i \in 1..n : s[i] \in S
    BY <1>1
  <2>2. /\ h \in Seq(S) /\ Len(h) = IF 1 <= n THEN n - 1 + 1 ELSE 0
        /\ \A i \in 1 .. n - 1 + 1 : h[i] = s[1 + i - 1]
    BY <1>2, <2>1, SubSeqProperties
  <2> HIDE DEF h
  <2>3. \A i \in 1..n : 1 + i - 1 = i
    OBVIOUS
  <2> QED BY <1>2, <2>2, <2>3
<1>4. /\ t \in Seq(S) /\ Len(t) = l - n /\ \A i \in 1..l - n : t[i] = s[n + i]
  <2>1. \A i \in n + 1 .. l : s[i] \in S
    BY <1>1, <1>2
  <2>2. /\ t \in Seq(S) /\ Len(t) = IF n + 1 <= l THEN l - (n + 1) + 1 ELSE 0
        /\ \A i \in 1 .. l - (n + 1) + 1 : t[i] = s[(n + 1) + i - 1]
    BY <1>2, <2>1, SubSeqProperties
  <2> HIDE DEF l
  <2>3. l - (n + 1) + 1 = l - n /\ \A i \in 1..l - n : (n + 1) + i - 1 = n + i
    BY <1>2
  <2> QED BY <1>2, <2>2, <2>3
<1>5. ToSet(h) = {s[i] : i \in 1..n}
  <2>1. ToSet(h) = {h[i] : i \in 1..n}
    BY <1>3, QueueElements
  <2> QED BY <1>3, <2>1
<1>6. ToSet(t) = {t[i] : i \in 1..l - n}
      /\ (IsInjective(t) <=> \A i, j \in 1..l - n : t[i] = t[j] => i = j)
  <2> HIDE DEF l
  <2>1. t \in Seq(S) /\ Len(t) = l - n
    BY <1>4
  <2>2. /\ ToSet(t) = {t[i] : i \in 1..Len(t)}
        /\ IsInjective(t) <=> \A i, j \in 1..Len(t) : t[i] = t[j] => i = j
    <3>1. \A u \in Seq(S) :
             /\ ToSet(u) = {u[i] : i \in 1..Len(u)}
             /\ IsInjective(u) <=> \A i, j \in 1..Len(u) : u[i] = u[j] => i = j
      BY QueueElements
    <3> QED BY <2>1, <3>1, Zenon
  <2> QED BY <2>1, <2>2
<1> HIDE DEF h
<1>7. ToSet(t) = {s[i] : i \in n + 1..l}
  <2>1. \A i \in 1..l - n : n + i \in n + 1..l
    BY <1>2
  <2>2. \A i \in n + 1..l : i - n \in 1..l - n /\ n + (i - n) = i
    BY <1>2
  <2>3. \A i \in n + 1..l : s[i] = t[i - n]
    BY <1>4, <2>2
  <2> HIDE DEF l
  <2> QED BY <1>4, <1>6, <2>1, <2>2, <2>3
<1>8. IsInjective(t)
  <2>1. ASSUME NEW i \in 1..l - n, NEW j \in 1..l - n, t[i] = t[j] PROVE i = j
    <3>1. n + i \in 1..l /\ n + j \in 1..l /\ s[n + i] = s[n + j]
      BY <1>2, <1>4, <2>1
    <3>2. n + i = n + j
      BY <1>1, <3>1
    <3> QED BY <1>2, <3>2
  <2> QED BY <1>6, <2>1
<1>9. /\ \A i \in 1..n : i \in 1..l
      /\ \A i \in n + 1..l : i \in 1..l /\ i \notin 1..n
      /\ \A i \in 1..l : i \in 1..n \/ i \in n + 1..l
  BY <1>2
<1>10. ToSet(t) = ToSet(s) \ ToSet(h) /\ ToSet(h) \in SUBSET ToSet(s)
  BY <1>1, <1>5, <1>7, <1>9
<1> QED BY <1>4, <1>5, <1>7, <1>8, <1>10 DEF h

(* A non-empty set of numbers up to n has a least one. *)
LEMMA LeastIndex ==
  ASSUME NEW n \in Nat, NEW G \in SUBSET (0..n), G # {}
  PROVE  \E i \in G : \A j \in 0..i-1 : j \notin G
<1> DEFINE B == {0..i-1 : i \in G}
<1>1. IsFiniteSet(0..n) /\ \A i \in G : i \in Nat /\ i <= n
  <2>1. IsFiniteSet(0..n)
    BY FS_Interval
  <2> QED BY <2>1
<1>2. B \in SUBSET (SUBSET (0..n)) /\ B # {}
  <2>1. \A i \in G : 0..i-1 \in SUBSET (0..n)
    BY <1>1
  <2> QED BY <2>1
<1>3. PICK T \in B : \A U \in SUBSET T : U # T => U \notin B
  <2> HIDE DEF B
  <2> QED BY <1>1, <1>2, MinimalSubset
<1>4. PICK i \in G : T = 0..i-1
  OBVIOUS
<1>5. ASSUME NEW j \in 0..i-1, j \in G PROVE FALSE
  <2>1. j \in T /\ j \notin 0..j-1 /\ 0..j-1 \in SUBSET T
    BY <1>1, <1>4, <1>5
  <2>2. 0..j-1 \in B
    BY <1>5
  <2> QED BY <1>3, <2>1, <2>2
<1> QED BY <1>5

(* A bounded set of numbers has a greatest element. *)
LEMMA MaxOf ==
  ASSUME NEW n \in Nat, NEW I \in SUBSET (0..n), I # {}
  PROVE  Max(I) \in I /\ \A i \in I : i <= Max(I)
<1> DEFINE G == {m \in 0..n : \A i \in I : i <= m}
<1>1. \A i \in I : i \in Nat /\ i <= n
  OBVIOUS
<1>2. G \in SUBSET (0..n) /\ n \in G
  BY <1>1
<1>3. PICK m \in G : \A k \in 0..m-1 : k \notin G
  <2> HIDE DEF G
  <2> QED BY <1>2, LeastIndex
<1>4. m \in 0..n /\ m \in Nat /\ \A i \in I : i <= m
  OBVIOUS
<1>5. m \in I
  <2> SUFFICES ASSUME m \notin I PROVE FALSE
    OBVIOUS
  <2>1. \A i \in I : i <= m - 1
    BY <1>1, <1>4
  <2>2. PICK i \in I : i \in Nat /\ i <= m - 1
    BY <1>1, <2>1
  <2>3. m - 1 \in 0..m-1 /\ m - 1 \in 0..n
    BY <1>4, <2>2
  <2> QED BY <1>3, <2>1, <2>3
<1>6. \A i \in I : m >= i
  BY <1>1, <1>4
<1>7. Max(I) \in I /\ \A i \in I : Max(I) >= i
  BY <1>5, <1>6 DEF Max
<1> QED BY <1>1, <1>7

(***************************************************************************)
(* Sums.                                                                   *)
(***************************************************************************)

Picked(s) == CHOOSE x \in s : TRUE

(* g[s] is the sum of f over s, for every subset s of S. *)
IsSum(g, f, S) ==
    g = [s \in SUBSET S |-> IF s = {} THEN 0 ELSE f[Picked(s)] + g[s \ {Picked(s)}]]

LEMMA SumIs ==
  ASSUME NEW f, NEW S
  PROVE  SumOn(f, S) = (CHOOSE g : IsSum(g, f, S))[S]
BY DEF SumOn, MapThenSumSet, MapThenFoldSet, IsSum, Picked

(* There is at most one such function, *)
LEMMA SumUnique ==
  ASSUME NEW f, NEW S, IsFiniteSet(S), NEW g, NEW h, IsSum(g, f, S), IsSum(h, f, S)
  PROVE  g = h
<1> DEFINE B == {s \in SUBSET S : g[s] # h[s]}
<1>1. SUFFICES ASSUME B # {} PROVE FALSE
  <2>1. \A s \in SUBSET S : g[s] = h[s]
    BY <1>1
  <2> QED BY <2>1 DEF IsSum
<1>2. PICK T \in B : \A U \in SUBSET T : U # T => U \notin B
  <2>1. B \in SUBSET (SUBSET S)
    OBVIOUS
  <2> HIDE DEF B
  <2> QED BY <1>1, <2>1, MinimalSubset
<1>3. T # {}
  BY DEF IsSum
<1>4. Picked(T) \in T
  BY <1>3 DEF Picked
<1>5. T \ {Picked(T)} \in SUBSET S /\ T \ {Picked(T)} \notin B
  BY <1>2, <1>4
<1>6. g[T \ {Picked(T)}] = h[T \ {Picked(T)}]
  BY <1>5
<1> QED BY <1>3, <1>6 DEF IsSum

(* its restriction to the subsets of a subset is the one for that subset,  *)
LEMMA SumRestricts ==
  ASSUME NEW f, NEW S, NEW T \in SUBSET S, NEW g, IsSum(g, f, S)
  PROVE  IsSum([s \in SUBSET T |-> g[s]], f, T)
<1> DEFINE h == [s \in SUBSET T |-> g[s]]
<1>1. ASSUME NEW s \in SUBSET T
      PROVE  h[s] = IF s = {} THEN 0 ELSE f[Picked(s)] + h[s \ {Picked(s)}]
  <2>1. s \in SUBSET S /\ s \ {Picked(s)} \in SUBSET T
    OBVIOUS
  <2> QED BY <2>1 DEF IsSum
<1>2. h = [s \in SUBSET T |-> IF s = {} THEN 0 ELSE f[Picked(s)] + h[s \ {Picked(s)}]]
  <2>1. h = [s \in SUBSET T |-> h[s]]
    OBVIOUS
  <2> HIDE DEF h
  <2> QED BY <1>1, <2>1
<1> QED BY <1>2 DEF IsSum

(* and there is one. *)
LEMMA SumExists ==
  ASSUME NEW f, NEW S, IsFiniteSet(S)
  PROVE  \E g : IsSum(g, f, S)
<1> DEFINE B == {T \in SUBSET S : ~ \E g : IsSum(g, f, T)}
<1>1. SUFFICES ASSUME B # {} PROVE FALSE
  OBVIOUS
<1>2. PICK T \in B : \A U \in SUBSET T : U # T => U \notin B
  <2>1. B \in SUBSET (SUBSET S)
    OBVIOUS
  <2> HIDE DEF B
  <2> QED BY <1>1, <2>1, MinimalSubset
<1>3. \A U \in SUBSET T : IsFiniteSet(U) /\ U \in SUBSET S
  BY FS_Subset
<1> DEFINE sum(U) == CHOOSE g : IsSum(g, f, U)
<1>4. \A U \in SUBSET T : U # T => IsSum(sum(U), f, U)
  BY <1>2, <1>3
<1> HIDE DEF sum
<1> DEFINE val(U) == IF U = {} THEN 0 ELSE f[Picked(U)] + sum(U \ {Picked(U)})[U \ {Picked(U)}]
           g == [U \in SUBSET T |-> val(U)]
<1>5. ASSUME NEW U \in SUBSET T, U # T
      PROVE  sum(U)[U] = val(U)
  <2>1. IsSum(sum(U), f, U)
    BY <1>4, <1>5
  <2>2. CASE U = {}
    BY <2>1, <2>2 DEF IsSum
  <2>3. CASE U # {}
    <3> DEFINE V == U \ {Picked(U)}
    <3>1. Picked(U) \in U /\ V \in SUBSET U /\ V # T /\ V \in SUBSET T
      BY <2>3 DEF Picked
    <3>2. sum(U)[U] = f[Picked(U)] + sum(U)[V]
      BY <2>1, <2>3, <3>1 DEF IsSum
    <3>3. IsSum([s \in SUBSET V |-> sum(U)[s]], f, V)
      BY <2>1, <3>1, SumRestricts
    <3>4. IsSum(sum(V), f, V)
      BY <1>4, <3>1
    <3>5. sum(V) = [s \in SUBSET V |-> sum(U)[s]]
      BY <1>3, <3>1, <3>3, <3>4, SumUnique
    <3>6. sum(V)[V] = sum(U)[V]
      BY <3>5
    <3> QED BY <2>3, <3>2, <3>6
  <2> QED BY <2>2, <2>3
<1>6. ASSUME NEW U \in SUBSET T
      PROVE  val(U) = IF U = {} THEN 0 ELSE f[Picked(U)] + g[U \ {Picked(U)}]
  <2> SUFFICES ASSUME U # {} PROVE val(U) = f[Picked(U)] + g[U \ {Picked(U)}]
    OBVIOUS
  <2> DEFINE V == U \ {Picked(U)}
  <2>1. Picked(U) \in U /\ V \in SUBSET T /\ V # T
    BY DEF Picked
  <2>2. g[V] = sum(V)[V]
    BY <1>5, <2>1
  <2> QED BY <2>2
<1>7. g = [U \in SUBSET T |-> IF U = {} THEN 0 ELSE f[Picked(U)] + g[U \ {Picked(U)}]]
  <2>1. g = [U \in SUBSET T |-> val(U)]
    OBVIOUS
  <2> HIDE DEF g, val
  <2> QED BY <1>6, <2>1
<1>8. IsSum(g, f, T)
  <2> HIDE DEF g
  <2> QED BY <1>7 DEF IsSum
<1> QED BY <1>8

(* The sum over no element is 0, and an element chosen is added to the sum *)
(* over the others.                                                        *)
LEMMA SumUnfold ==
  ASSUME NEW f, NEW S, IsFiniteSet(S)
  PROVE  SumOn(f, S) = IF S = {} THEN 0
                       ELSE f[Picked(S)] + SumOn(f, S \ {Picked(S)})
<1> DEFINE g == CHOOSE g : IsSum(g, f, S)
<1>1. IsSum(g, f, S)
  BY SumExists
<1>2. SumOn(f, S) = g[S]
  BY SumIs
<1> HIDE DEF g
<1>3. CASE S = {}
  BY <1>1, <1>2, <1>3 DEF IsSum
<1>4. CASE S # {}
  <2> DEFINE T == S \ {Picked(S)}
             h == CHOOSE h : IsSum(h, f, T)
  <2>1. T \in SUBSET S /\ IsFiniteSet(T)
    BY FS_Subset
  <2>2. IsSum(h, f, T) /\ SumOn(f, T) = h[T]
    BY <2>1, SumExists, SumIs
  <2>3. h = [s \in SUBSET T |-> g[s]]
    <3> HIDE DEF h, T
    <3>1. IsSum([s \in SUBSET T |-> g[s]], f, T)
      BY <1>1, <2>1, SumRestricts
    <3> QED BY <2>1, <2>2, <3>1, SumUnique
  <2>4. SumOn(f, T) = g[T]
    BY <2>2, <2>3
  <2>5. g[S] = f[Picked(S)] + g[T]
    BY <1>1, <1>4 DEF IsSum
  <2> QED BY <1>2, <1>4, <2>4, <2>5
<1> QED BY <1>3, <1>4

-----------------------------------------------------------------------------
(* What the other proofs use.  Summands are natural numbers.               *)

LEMMA SumEmpty == \A f : SumOn(f, {}) = 0
  BY SumUnfold, FS_EmptySet

LEMMA SumNat ==
  ASSUME NEW S, IsFiniteSet(S), NEW f, \A x \in S : f[x] \in Nat
  PROVE  SumOn(f, S) \in Nat
<1> DEFINE B == {T \in SUBSET S : SumOn(f, T) \notin Nat}
<1>1. SUFFICES ASSUME B # {} PROVE FALSE
  OBVIOUS
<1>2. PICK T \in B : \A U \in SUBSET T : U # T => U \notin B
  <2>1. B \in SUBSET (SUBSET S)
    OBVIOUS
  <2> HIDE DEF B
  <2> QED BY <1>1, <2>1, MinimalSubset
<1>3. IsFiniteSet(T) /\ T # {}
  <2>1. IsFiniteSet(T)
    BY FS_Subset
  <2>2. T # {}
    BY SumEmpty
  <2> QED BY <2>1, <2>2
<1>4. Picked(T) \in T
  BY <1>3 DEF Picked
<1>5. SumOn(f, T \ {Picked(T)}) \in Nat
  BY <1>2, <1>4
<1> QED BY <1>3, <1>4, <1>5, SumUnfold

(* Whichever element is taken out, the sum loses its summand. *)
LEMMA SumRemove ==
  ASSUME NEW S, IsFiniteSet(S), NEW f, \A x \in S : f[x] \in Nat, NEW a \in S
  PROVE  SumOn(f, S) = f[a] + SumOn(f, S \ {a})
<1> DEFINE B == {T \in SUBSET S : \E x \in T : SumOn(f, T) # f[x] + SumOn(f, T \ {x})}
<1>1. SUFFICES ASSUME B # {} PROVE FALSE
  OBVIOUS
<1>2. PICK T \in B : \A U \in SUBSET T : U # T => U \notin B
  <2>1. B \in SUBSET (SUBSET S)
    OBVIOUS
  <2> HIDE DEF B
  <2> QED BY <1>1, <2>1, MinimalSubset
<1>3. PICK b \in T : SumOn(f, T) # f[b] + SumOn(f, T \ {b})
  OBVIOUS
<1> DEFINE p == Picked(T)
<1>4. /\ IsFiniteSet(T) /\ T \subseteq S
      /\ p \in T /\ SumOn(f, T) = f[p] + SumOn(f, T \ {p})
  <2>1. IsFiniteSet(T) /\ T # {}
    BY FS_Subset
  <2> QED BY <2>1, SumUnfold DEF Picked
<1>5. p # b
  BY <1>3, <1>4
<1>6. SumOn(f, T \ {p}) = f[b] + SumOn(f, (T \ {p}) \ {b})
  <2> HIDE DEF p
  <2>1. T \ {p} \in SUBSET T /\ T \ {p} # T /\ b \in T \ {p} /\ T \ {p} \in SUBSET S
    BY <1>4, <1>5
  <2> QED BY <1>2, <2>1
<1>7. SumOn(f, T \ {b}) = f[p] + SumOn(f, (T \ {b}) \ {p})
  <2> HIDE DEF p
  <2>1. T \ {b} \in SUBSET T /\ T \ {b} # T /\ p \in T \ {b} /\ T \ {b} \in SUBSET S
    BY <1>4, <1>5
  <2> QED BY <1>2, <2>1
<1> DEFINE R == (T \ {b}) \ {p}
<1>8. (T \ {p}) \ {b} = R
  OBVIOUS
<1>9. SumOn(f, R) \in Nat /\ f[p] \in Nat /\ f[b] \in Nat
  <2>1. R \subseteq S /\ IsFiniteSet(R)
    BY FS_Subset
  <2> HIDE DEF R
  <2>2. \A x \in R : f[x] \in Nat
    BY <2>1
  <2>3. SumOn(f, R) \in Nat
    BY <2>1, <2>2, SumNat
  <2> QED BY <1>4, <2>3
<1> HIDE DEF p, R
<1>10. f[p] + (f[b] + SumOn(f, R)) = f[b] + (f[p] + SumOn(f, R))
  BY <1>9
<1> QED BY <1>3, <1>4, <1>6, <1>7, <1>8, <1>10 DEF R

(* Only the summands of the elements matter. *)
LEMMA SumCongruent ==
  ASSUME NEW S, IsFiniteSet(S), NEW f, NEW g, \A x \in S : f[x] = g[x]
  PROVE  SumOn(f, S) = SumOn(g, S)
<1> DEFINE B == {T \in SUBSET S : SumOn(f, T) # SumOn(g, T)}
<1>1. SUFFICES ASSUME B # {} PROVE FALSE
  OBVIOUS
<1>2. PICK T \in B : \A U \in SUBSET T : U # T => U \notin B
  <2>1. B \in SUBSET (SUBSET S)
    OBVIOUS
  <2> HIDE DEF B
  <2> QED BY <1>1, <2>1, MinimalSubset
<1>3. IsFiniteSet(T) /\ T # {}
  BY FS_Subset, SumEmpty
<1>4. Picked(T) \in T
  BY <1>3 DEF Picked
<1>5. SumOn(f, T \ {Picked(T)}) = SumOn(g, T \ {Picked(T)})
  BY <1>2, <1>4
<1>6. f[Picked(T)] = g[Picked(T)]
  BY <1>4
<1> QED BY <1>3, <1>5, <1>6, SumUnfold

(* One summand changes. *)
LEMMA SumUpdate ==
  ASSUME NEW S, IsFiniteSet(S), NEW f, NEW g, NEW a \in S,
         \A x \in S : f[x] \in Nat, g[a] \in Nat, \A x \in S \ {a} : g[x] = f[x]
  PROVE  SumOn(g, S) = SumOn(f, S) - f[a] + g[a]
<1> DEFINE R == S \ {a}
<1>1. IsFiniteSet(R) /\ R \subseteq S
  BY FS_Subset
<1>2. SumOn(f, S) = f[a] + SumOn(f, R)
  BY SumRemove
<1>3. SumOn(g, S) = g[a] + SumOn(g, R)
  <2>1. \A x \in S : g[x] \in Nat
    OBVIOUS
  <2> QED BY <2>1, SumRemove
<1>4. SumOn(g, R) = SumOn(f, R)
  <2> HIDE DEF R
  <2>1. \A x \in R : f[x] = g[x]
    BY DEF R
  <2> QED BY <1>1, <2>1, SumCongruent
<1>5. SumOn(f, R) \in Nat
  <2> HIDE DEF R
  <2>1. \A x \in R : f[x] \in Nat
    BY <1>1
  <2> QED BY <1>1, <2>1, SumNat
<1> HIDE DEF R
<1> QED BY <1>2, <1>3, <1>4, <1>5

(* No summand exceeds the sum, and one that is alone is the sum. *)
LEMMA SumBounds ==
  ASSUME NEW S, IsFiniteSet(S), NEW f, \A x \in S : f[x] \in Nat, NEW a \in S
  PROVE  /\ f[a] <= SumOn(f, S)
         /\ (\A x \in S \ {a} : f[x] = 0) => SumOn(f, S) = f[a]
<1> DEFINE R == S \ {a}
<1>1. IsFiniteSet(R) /\ R \subseteq S /\ \A x \in R : f[x] \in Nat
  BY FS_Subset
<1>2. SumOn(f, S) = f[a] + SumOn(f, R)
  BY SumRemove
<1> HIDE DEF R
<1>3. SumOn(f, R) \in Nat
  BY <1>1, SumNat
<1>4. ASSUME \A x \in R : f[x] = 0
      PROVE  SumOn(f, R) = 0
  <2> DEFINE z == [x \in R |-> 0]
             B == {T \in SUBSET R : SumOn(f, T) # 0}
  <2>1. SUFFICES ASSUME B # {} PROVE FALSE
    OBVIOUS
  <2>2. PICK T \in B : \A U \in SUBSET T : U # T => U \notin B
    <3>1. B \in SUBSET (SUBSET R)
      OBVIOUS
    <3> HIDE DEF B
    <3> QED BY <1>1, <2>1, <3>1, MinimalSubset
  <2>3. IsFiniteSet(T) /\ T # {}
    BY <1>1, FS_Subset, SumEmpty
  <2>4. Picked(T) \in T
    BY <2>3 DEF Picked
  <2>5. SumOn(f, T \ {Picked(T)}) = 0 /\ f[Picked(T)] = 0
    BY <1>4, <2>2, <2>4
  <2> QED BY <2>3, <2>5, SumUnfold
<1> QED BY <1>2, <1>3, <1>4 DEF R

(* The sizes of disjoint sets add up to the size of their union. *)
LEMMA SumOfSizes ==
  ASSUME NEW E, IsFiniteSet(E), NEW t, \A e \in E : IsFiniteSet(t[e]),
         \A e, f \in E : e # f => t[e] \cap t[f] = {}
  PROVE  /\ IsFiniteSet(UNION {t[e] : e \in E})
         /\ SumOn([e \in E |-> Cardinality(t[e])], E) = Cardinality(UNION {t[e] : e \in E})
<1> DEFINE c    == [e \in E |-> Cardinality(t[e])]
           U(F) == UNION {t[e] : e \in F}
           Holds(F) == IsFiniteSet(U(F)) /\ SumOn(c, F) = Cardinality(U(F))
           B    == {F \in SUBSET E : ~ Holds(F)}
<1>1. SUFFICES ASSUME B # {} PROVE FALSE
  <2>1. Holds(E)
    BY <1>1
  <2> QED BY <2>1
<1>2. PICK F \in B : \A G \in SUBSET F : G # F => G \notin B
  <2>1. B \in SUBSET (SUBSET E)
    OBVIOUS
  <2> HIDE DEF B
  <2> QED BY <1>1, <2>1, MinimalSubset
<1>3. F \in SUBSET E /\ ~ Holds(F) /\ IsFiniteSet(F)
  BY FS_Subset
<1>4. F # {}
  <2>1. U({}) = {}
    OBVIOUS
  <2>2. Holds({})
    BY <2>1, SumEmpty, FS_EmptySet
  <2> QED BY <1>3, <2>2
<1> DEFINE p == Picked(F)
           R == F \ {p}
<1>5. p \in F
  BY <1>4 DEF Picked
<1>6. Holds(R)
  <2>1. R \in SUBSET F /\ R # F /\ R \in SUBSET E
    BY <1>3, <1>5
  <2> QED BY <1>2, <2>1
<1>7. U(F) = U(R) \cup t[p] /\ U(R) \cap t[p] = {}
  <2>1. \A e \in R : t[e] \cap t[p] = {}
    BY <1>3, <1>5
  <2> QED BY <1>5, <2>1
<1>8. c[p] = Cardinality(t[p]) /\ IsFiniteSet(t[p])
  BY <1>3, <1>5
<1>9. SumOn(c, F) = c[p] + SumOn(c, R)
  BY <1>3, <1>4, SumUnfold
<1> DEFINE u == U(R)
           v == t[p]
<1>10. IsFiniteSet(u) /\ SumOn(c, R) = Cardinality(u) /\ IsFiniteSet(v)
       /\ U(F) = u \cup v /\ u \cap v = {}
  BY <1>6, <1>7, <1>8
<1>11. IsFiniteSet(u \cup v) /\ Cardinality(u \cup v) = Cardinality(u) + Cardinality(v)
  <2> HIDE DEF u, v
  <2>1. /\ IsFiniteSet(u \cup v)
        /\ Cardinality(u \cup v) = Cardinality(u) + Cardinality(v) - Cardinality(u \cap v)
    BY <1>10, FS_Union
  <2>2. Cardinality(u \cap v) = 0
    BY <1>10, FS_EmptySet
  <2>3. Cardinality(u) \in Nat /\ Cardinality(v) \in Nat
    BY <1>10, FS_CardinalityType
  <2> QED BY <2>1, <2>2, <2>3
<1>12. Cardinality(u) \in Nat /\ Cardinality(v) \in Nat
  BY <1>10, FS_CardinalityType
<1>13. SumOn(c, F) = Cardinality(u \cup v)
  <2>1. SumOn(c, F) = Cardinality(v) + Cardinality(u)
    BY <1>8, <1>9, <1>10
  <2> HIDE DEF u, v
  <2> QED BY <1>11, <1>12, <2>1
<1> QED BY <1>3, <1>10, <1>11, <1>13

(* A sum of positive numbers is at least their count. *)
LEMMA SumOfPositive ==
  ASSUME NEW S, IsFiniteSet(S), NEW f, \A x \in S : f[x] \in Nat /\ f[x] >= 1
  PROVE  SumOn(f, S) \in Nat /\ SumOn(f, S) >= Cardinality(S)
<1> DEFINE Holds(F) == SumOn(f, F) >= Cardinality(F)
           B        == {F \in SUBSET S : ~ Holds(F)}
<1>1. SUFFICES ASSUME B # {} PROVE FALSE
  <2>1. Holds(S)
    BY <1>1
  <2> QED BY <2>1, SumNat
<1>2. PICK F \in B : \A G \in SUBSET F : G # F => G \notin B
  <2>1. B \in SUBSET (SUBSET S)
    OBVIOUS
  <2> HIDE DEF B
  <2> QED BY <1>1, <2>1, MinimalSubset
<1>3. F \in SUBSET S /\ ~ Holds(F) /\ IsFiniteSet(F)
  BY FS_Subset
<1>4. F # {}
  <2>1. Holds({})
    BY SumEmpty, FS_EmptySet
  <2> QED BY <1>3, <2>1
<1> DEFINE p == Picked(F)
           R == F \ {p}
<1>5. p \in F
  BY <1>4 DEF Picked
<1>6. Holds(R) /\ R \in SUBSET S /\ IsFiniteSet(R)
  <2>1. R \in SUBSET F /\ R # F /\ R \in SUBSET S
    BY <1>3, <1>5
  <2> QED BY <1>2, <1>3, <2>1, FS_Subset
<1>7. SumOn(f, F) = f[p] + SumOn(f, R)
  BY <1>3, <1>4, SumUnfold
<1>8. Cardinality(R) = Cardinality(F) - 1 /\ Cardinality(F) \in Nat
  <2>1. p \in F /\ IsFiniteSet(F)
    BY <1>3, <1>5
  <2> HIDE DEF p
  <2> QED BY <2>1, FS_RemoveElement, FS_CardinalityType
<1>9. f[p] \in Nat /\ f[p] >= 1 /\ SumOn(f, R) \in Nat
  <2>1. \A x \in R : f[x] \in Nat
    BY <1>6
  <2>2. SumOn(f, R) \in Nat
    <3> HIDE DEF R
    <3> QED BY <1>6, <2>1, SumNat
  <2> QED BY <1>3, <1>5, <2>2
<1>10. SumOn(f, R) >= Cardinality(R)
  BY <1>6
<1>11. SumOn(f, F) >= Cardinality(F)
  <2> HIDE DEF p, R
  <2> QED BY <1>7, <1>8, <1>9, <1>10
<1> QED BY <1>3, <1>11

(* The sum over a set is the sum over a part of it and the rest. *)
LEMMA SumSplit ==
  ASSUME NEW S, IsFiniteSet(S), NEW f, \A x \in S : f[x] \in Nat, NEW T \in SUBSET S
  PROVE  SumOn(f, S) = SumOn(f, T) + SumOn(f, S \ T)
<1> DEFINE B == {U \in SUBSET S : SumOn(f, S) # SumOn(f, U) + SumOn(f, S \ U)}
<1>1. SUFFICES ASSUME B # {} PROVE FALSE
  OBVIOUS
<1>2. PICK U \in B : \A V \in SUBSET U : V # U => V \notin B
  <2>1. B \in SUBSET (SUBSET S)
    OBVIOUS
  <2> HIDE DEF B
  <2> QED BY <1>1, <2>1, MinimalSubset
<1>3. \A V \in SUBSET S : IsFiniteSet(V) /\ SumOn(f, V) \in Nat
  BY FS_Subset, SumNat
<1>4. CASE U = {}
  <2>1. SumOn(f, U) = 0 /\ S \ U = S
    BY <1>4, SumEmpty
  <2>2. SumOn(f, S) \in Nat /\ SumOn(f, S) # SumOn(f, U) + SumOn(f, S \ U)
    BY <1>2, <1>3
  <2> QED BY <2>1, <2>2
<1>5. CASE U # {}
  <2>1. PICK a \in U : TRUE
    BY <1>5
  <2> DEFINE V == U \ {a}
  <2>2. SumOn(f, S) = SumOn(f, V) + SumOn(f, S \ V)
    BY <1>2, <2>1
  <2>3. SumOn(f, U) = f[a] + SumOn(f, V)
    BY <1>2, <1>3, <2>1, SumRemove
  <2>4. SumOn(f, S \ V) = f[a] + SumOn(f, S \ U)
    <3>1. (S \ V) \ {a} = S \ U /\ a \in S \ V /\ S \ V \in SUBSET S
      BY <1>2, <2>1
    <3>2. SumOn(f, S \ V) = f[a] + SumOn(f, (S \ V) \ {a})
      BY <1>3, <3>1, SumRemove
    <3> QED BY <3>1, <3>2
  <2>5. /\ SumOn(f, V) \in Nat /\ SumOn(f, S \ U) \in Nat /\ f[a] \in Nat
        /\ SumOn(f, S) # SumOn(f, U) + SumOn(f, S \ U)
    BY <1>2, <1>3, <2>1
  <2> QED BY <2>2, <2>3, <2>4, <2>5
<1> QED BY <1>4, <1>5

(* Greater summands, greater sum; the elements left out count for nothing. *)
LEMMA SumMonotone ==
  ASSUME NEW S, IsFiniteSet(S), NEW f, NEW g, NEW T \in SUBSET S,
         \A x \in S : f[x] \in Nat /\ g[x] \in Nat,
         \A x \in T : f[x] <= g[x], \A x \in S \ T : f[x] = 0
  PROVE  SumOn(f, S) <= SumOn(g, T)
<1>1. \A U \in SUBSET S : IsFiniteSet(U) /\ SumOn(f, U) \in Nat /\ SumOn(g, U) \in Nat
  BY FS_Subset, SumNat
<1>2. SumOn(f, S \ T) = 0
  <2> DEFINE R == S \ T
  <2>1. R \in SUBSET S /\ \A x \in R : f[x] = 0
    OBVIOUS
  <2> HIDE DEF R
  <2>2. CASE R = {}
    BY <2>2, SumEmpty DEF R
  <2>3. ASSUME NEW a \in R PROVE SumOn(f, R) = 0
    <3>1. IsFiniteSet(R) /\ (\A x \in R : f[x] \in Nat) /\ \A x \in R \ {a} : f[x] = 0
      BY <1>1, <2>1
    <3>2. SumOn(f, R) = f[a]
      BY <3>1, SumBounds
    <3> QED BY <2>1, <3>2
  <2> QED BY <2>2, <2>3 DEF R
<1>3. SumOn(f, S) = SumOn(f, T) + SumOn(f, S \ T)
  BY SumSplit
<1>4. SumOn(f, S) = SumOn(f, T)
  BY <1>1, <1>2, <1>3
<1> DEFINE B == {U \in SUBSET T : ~ (SumOn(f, U) <= SumOn(g, U))}
<1>5. B = {}
  <2> SUFFICES ASSUME B # {} PROVE FALSE
    OBVIOUS
  <2>1. PICK U \in B : \A V \in SUBSET U : V # U => V \notin B
    <3>1. B \in SUBSET (SUBSET T) /\ IsFiniteSet(T)
      BY <1>1
    <3> HIDE DEF B
    <3> QED BY <3>1, MinimalSubset
  <2>2. IsFiniteSet(U) /\ U \in SUBSET S /\ U \subseteq T
    BY <1>1
  <2>3. U # {}
    <3>1. SumOn(f, {}) = 0 /\ SumOn(g, {}) = 0
      BY SumEmpty
    <3> QED BY <3>1
  <2>4. PICK a \in U : TRUE
    BY <2>3
  <2> DEFINE V == U \ {a}
  <2>5. SumOn(f, V) <= SumOn(g, V)
    BY <2>1, <2>4
  <2>6. SumOn(f, U) = f[a] + SumOn(f, V) /\ SumOn(g, U) = g[a] + SumOn(g, V)
    <3>1. \A x \in U : f[x] \in Nat /\ g[x] \in Nat
      BY <2>2
    <3> QED BY <2>2, <3>1, SumRemove
  <2>7. /\ SumOn(f, V) \in Nat /\ SumOn(g, V) \in Nat /\ f[a] \in Nat /\ g[a] \in Nat
        /\ f[a] <= g[a]
    BY <1>1, <2>2
  <2> HIDE DEF V
  <2>8. SumOn(f, U) <= SumOn(g, U)
    BY <2>5, <2>6, <2>7
  <2> QED BY <2>8
<1>6. SumOn(f, T) <= SumOn(g, T)
  BY <1>5
<1> QED BY <1>4, <1>6
=============================================================================
