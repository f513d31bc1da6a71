----------------------------- MODULE FifoLemmas -----------------------------
(* Facts about FIFO queues kept as sequences, about least elements and     *)
(* about totals and selections, for the proof modules.                     *)
EXTENDS Integers, Sequences, SequencesExt, Totals, SequenceTheorems,
        FiniteSetTheorems, WellFoundedInduction, TLAPS

\* What the three updates of a FIFO do to the set of its entries.
LEMMA AppendToSet ==
    ASSUME NEW S, NEW s \in Seq(S), NEW x \in S
    PROVE  /\ ToSet(Append(s, x)) = ToSet(s) \cup {x}
           /\ Append(s, x) \in Seq(S)
  <1> DEFINE r == Append(s, x)
  <1>1. /\ r \in Seq(S) /\ Len(r) = Len(s) + 1 /\ Len(s) \in Nat
        /\ \A i \in 1 .. Len(s) : r[i] = s[i]
        /\ r[Len(s) + 1] = x
    BY AppendProperties
  <1>2. DOMAIN r = 1 .. Len(s) + 1 /\ DOMAIN s = 1 .. Len(s)
    BY <1>1
  <1> HIDE DEF r
  <1>3. ToSet(r) \subseteq ToSet(s) \cup {x}
    BY <1>1, <1>2 DEF ToSet
  <1>4. ToSet(s) \subseteq ToSet(r)
    BY <1>1, <1>2 DEF ToSet
  <1>5. x \in ToSet(r)
    BY <1>1, <1>2 DEF ToSet
  <1> QED BY <1>1, <1>3, <1>4, <1>5 DEF r

LEMMA RemoveAtElements ==
    ASSUME NEW S, NEW s \in Seq(S), NEW i \in DOMAIN s
    PROVE  /\ RemoveAt(s, i) \in Seq(S)
           /\ Len(RemoveAt(s, i)) = Len(s) - 1
           /\ \A j \in 1 .. Len(s) - 1 :
                 RemoveAt(s, i)[j] = IF j < i THEN s[j] ELSE s[j + 1]
  <1> DEFINE a == SubSeq(s, 1, i - 1)
             b == SubSeq(s, i + 1, Len(s))
  <1>1. Len(s) \in Nat /\ DOMAIN s = 1 .. Len(s) /\ i \in 1 .. Len(s)
        /\ \A j \in 1 .. Len(s) : s[j] \in S
    BY LenProperties, ElementOfSeq
  <1>2. /\ a \in Seq(S) /\ Len(a) = i - 1
        /\ \A j \in 1 .. i - 1 : a[j] = s[j]
    BY <1>1, SubSeqProperties
  <1>3. /\ b \in Seq(S) /\ Len(b) = Len(s) - i
        /\ \A j \in 1 .. Len(s) - i : b[j] = s[i + j]
    BY <1>1, SubSeqProperties
  <1> HIDE DEF a, b
  <1>4. /\ a \o b \in Seq(S) /\ Len(a \o b) = Len(s) - 1
        /\ \A j \in 1 .. Len(s) - 1 :
              (a \o b)[j] = IF j <= i - 1 THEN a[j] ELSE b[j - (i - 1)]
    <2>1. /\ a \o b \in Seq(S) /\ Len(a \o b) = Len(a) + Len(b)
          /\ \A j \in 1 .. Len(a) + Len(b) :
                (a \o b)[j] = IF j <= Len(a) THEN a[j] ELSE b[j - Len(a)]
      BY <1>2, <1>3, ConcatProperties
    <2>2. Len(a) + Len(b) = Len(s) - 1
      BY <1>1, <1>2, <1>3
    <2> QED BY <2>1, <2>2, <1>2
  <1>5. ASSUME NEW j \in 1 .. Len(s) - 1
        PROVE  (a \o b)[j] = IF j < i THEN s[j] ELSE s[j + 1]
    <2>0. i \in Int /\ j \in Int
      BY <1>1
    <2>1. CASE j < i
      BY <2>0, <2>1, <1>1, <1>2, <1>4
    <2>2. CASE j >= i
      <3>1. j - (i - 1) \in 1 .. Len(s) - i /\ i + (j - (i - 1)) = j + 1
        BY <2>2, <1>1
      <3> QED BY <2>2, <3>1, <1>1, <1>3, <1>4
    <2>3. j < i \/ j >= i
      BY <2>0
    <2> QED BY <2>1, <2>2, <2>3
  <1> QED BY <1>4, <1>5 DEF RemoveAt, a, b

LEMMA RemoveAtToSet ==
    ASSUME NEW S, NEW s \in Seq(S), NEW i \in DOMAIN s,
           \A j, k \in DOMAIN s : s[j] = s[k] => j = k
    PROVE  /\ ToSet(RemoveAt(s, i)) = ToSet(s) \ {s[i]}
           /\ \A j, k \in DOMAIN RemoveAt(s, i) :
                 RemoveAt(s, i)[j] = RemoveAt(s, i)[k] => j = k
  <1> DEFINE r == RemoveAt(s, i)
  <1>1. /\ r \in Seq(S) /\ Len(r) = Len(s) - 1
        /\ \A j \in 1 .. Len(s) - 1 : r[j] = IF j < i THEN s[j] ELSE s[j + 1]
    BY RemoveAtElements
  <1>2. DOMAIN r = 1 .. Len(s) - 1 /\ DOMAIN s = 1 .. Len(s) /\ Len(s) \in Nat
    BY <1>1
  <1> HIDE DEF r
  <1>3. ASSUME NEW j \in DOMAIN r, NEW k \in DOMAIN r, r[j] = r[k] PROVE j = k
    <2>1. /\ r[j] = s[IF j < i THEN j ELSE j + 1] /\ r[k] = s[IF k < i THEN k ELSE k + 1]
          /\ (IF j < i THEN j ELSE j + 1) \in DOMAIN s
          /\ (IF k < i THEN k ELSE k + 1) \in DOMAIN s
      BY <1>1, <1>2
    <2>2. (IF j < i THEN j ELSE j + 1) = (IF k < i THEN k ELSE k + 1)
      BY <2>1, <1>3
    <2> QED BY <2>2, <1>2
  <1>4. ToSet(r) \subseteq ToSet(s) \ {s[i]}
    BY <1>1, <1>2 DEF ToSet
  <1>5. ASSUME NEW x \in ToSet(s) \ {s[i]} PROVE x \in ToSet(r)
    <2>1. PICK k \in DOMAIN s : x = s[k]
      BY DEF ToSet
    <2>2. CASE k < i
      BY <2>1, <2>2, <1>1, <1>2 DEF ToSet
    <2>3. CASE k > i
      <3>1. k - 1 \in DOMAIN r /\ r[k - 1] = s[k]
        BY <2>3, <1>1, <1>2
      <3> QED BY <2>1, <3>1 DEF ToSet
    <2> QED BY <2>1, <2>2, <2>3, <1>2
  <1> QED BY <1>3, <1>4, <1>5 DEF r

LEMMA TailToSet ==
    ASSUME NEW S, NEW s \in Seq(S), s # <<>>,
           \A j, k \in DOMAIN s : s[j] = s[k] => j = k
    PROVE  /\ Tail(s) \in Seq(S) /\ Head(s) \in S
           /\ Head(s) \in ToSet(s)
           /\ ToSet(Tail(s)) = ToSet(s) \ {Head(s)}
           /\ \A j, k \in DOMAIN Tail(s) : Tail(s)[j] = Tail(s)[k] => j = k
  <1> DEFINE t == Tail(s)
  <1>1. /\ t \in Seq(S) /\ Len(t) = Len(s) - 1 /\ Head(s) = s[1] /\ Len(s) \in Nat \ {0}
        /\ \A j \in 1 .. Len(t) : t[j] = s[j + 1]
    BY HeadTailProperties
  <1>2. DOMAIN t = 1 .. Len(s) - 1 /\ DOMAIN s = 1 .. Len(s)
    BY <1>1
  <1> HIDE DEF t
  <1>3. ToSet(t) \subseteq ToSet(s) \ {Head(s)}
    BY <1>1, <1>2 DEF ToSet
  <1>4. ASSUME NEW x \in ToSet(s) \ {Head(s)} PROVE x \in ToSet(t)
    <2>1. PICK k \in DOMAIN s : x = s[k]
      BY DEF ToSet
    <2>2. k - 1 \in DOMAIN t /\ t[k - 1] = s[k]
      BY <2>1, <1>1, <1>2
    <2> QED BY <2>1, <2>2 DEF ToSet
  <1>5. ASSUME NEW j \in DOMAIN t, NEW k \in DOMAIN t, t[j] = t[k] PROVE j = k
    <2>1. t[j] = s[j + 1] /\ t[k] = s[k + 1] /\ j + 1 \in DOMAIN s /\ k + 1 \in DOMAIN s
      BY <1>1, <1>2
    <2>2. j + 1 = k + 1
      BY <2>1, <1>5
    <2> QED BY <2>2, <1>2
  <1>6. Head(s) \in S /\ Head(s) \in ToSet(s)
    BY <1>1, <1>2 DEF ToSet
  <1> QED BY <1>1, <1>3, <1>4, <1>5, <1>6 DEF t

\* A nonempty set of natural numbers has a least element.
LEMMA LeastElement ==
    ASSUME NEW S, S \subseteq Nat, S # {}
    PROVE  \E m \in S : \A n \in S : m <= n
  <1>1. PICK x \in S : \A y \in S : ~ (<<y, x>> \in OpToRel(<, Nat))
    BY NatLessThanWellFounded, WFMin
  <1>2. ASSUME NEW y \in Nat, NEW z \in Nat, y < z PROVE <<y, z>> \in OpToRel(<, Nat)
    BY <1>2 DEF OpToRel
  <1>3. ASSUME NEW y \in S PROVE x <= y
    <2>1. ~ (y < x)
      BY <1>1, <1>2
    <2> QED BY <2>1
  <1> QED BY <1>3

\* A bounded nonempty set of numbers has a greatest element.
LEMMA GreatestElement ==
  ASSUME NEW n \in Nat, NEW S, S \subseteq 0..n, S # {}
  PROVE  \E m \in S : \A x \in S : x <= m
  <1> DEFINE T == {n - x : x \in S}
  <1>1. T \subseteq Nat /\ T # {}
    <2>1. ASSUME NEW x \in S PROVE n - x \in Nat
      <3>1. x \in 0..n
        OBVIOUS
      <3> QED BY <3>1
    <2> QED BY <2>1
  <1>2. PICK t \in T : \A u \in T : t <= u
    BY <1>1, LeastElement, Zenon
  <1>3. PICK m \in S : t = n - m
    OBVIOUS
  <1>4. ASSUME NEW x \in S PROVE x <= m
    <2>1. n - x \in T
      OBVIOUS
    <2>2. n - m <= n - x /\ m \in 0..n /\ x \in 0..n
      BY <1>2, <1>3, <2>1
    <2> QED BY <2>2
  <1> QED BY <1>4

-----------------------------------------------------------------------------
(* Totals.  Induction over the length is by least counterexample, which the  *)
(* provers can follow.                                                     *)

\* The prefix sums of a sequence.
IsSum(f, s) == f = [i \in 0 .. Len(s) |-> IF i = 0 THEN 0 ELSE f[i - 1] + s[i]]

\* By the least length that lacks one: prefix sums exist ...
LEMMA SumExists ==
  ASSUME NEW s \in Seq(Nat) PROVE \E f \in [0 .. Len(s) -> Nat] : IsSum(f, s)
  <1> DEFINE Lacks(n) == ~ \E f \in [0 .. n -> Nat] :
                f = [i \in 0 .. n |-> IF i = 0 THEN 0 ELSE f[i - 1] + s[i]]
             S == {n \in 0 .. Len(s) : Lacks(n)}
  <1>0. Len(s) \in Nat /\ \A i \in 1 .. Len(s) : s[i] \in Nat
    BY ElementOfSeq
  <1> SUFFICES S = {}
    BY <1>0 DEF IsSum
  <1> SUFFICES ASSUME S # {} PROVE FALSE
    OBVIOUS
  <1>1. PICK m \in S : \A n \in S : m <= n
    <2> S \subseteq Nat
      BY <1>0
    <2> HIDE DEF S
    <2> QED BY LeastElement
  <1>2. CASE m = 0
    <2> DEFINE f == [i \in 0 .. 0 |-> 0]
    <2>1. f \in [0 .. 0 -> Nat]
      OBVIOUS
    <2>2. f = [i \in 0 .. 0 |-> IF i = 0 THEN 0 ELSE f[i - 1] + s[i]]
      OBVIOUS
    <2> HIDE DEF f
    <2> QED BY <1>1, <1>2, <2>1, <2>2
  <1>3. CASE m # 0
    <2>1. m \in 1 .. Len(s) /\ m - 1 \in 0 .. Len(s) /\ ~ (m <= m - 1) /\ s[m] \in Nat
      BY <1>0, <1>1, <1>3
    <2>2. PICK f \in [0 .. m - 1 -> Nat] :
             f = [i \in 0 .. m - 1 |-> IF i = 0 THEN 0 ELSE f[i - 1] + s[i]]
      BY <1>1, <2>1
    <2> DEFINE g == [i \in 0 .. m |-> IF i < m THEN f[i] ELSE f[m - 1] + s[m]]
    <2>3. g \in [0 .. m -> Nat]
      BY <2>1
    <2>4. ASSUME NEW i \in 0 .. m PROVE g[i] = IF i = 0 THEN 0 ELSE g[i - 1] + s[i]
      <3>1. CASE i = m
        BY <2>1, <3>1
      <3>2. CASE i < m /\ i # 0
        <4>1. i \in 0 .. m - 1 /\ i - 1 \in 0 .. m - 1 /\ i - 1 < m
          BY <2>1, <3>2
        <4>2. f[i] = f[i - 1] + s[i]
          BY <2>2, <3>2, <4>1
        <4> QED BY <2>1, <3>2, <4>1, <4>2
      <3>3. CASE i < m /\ i = 0
        <4>1. f[0] = 0
          BY <2>1, <2>2
        <4> QED BY <2>1, <3>3, <4>1
      <3> QED BY <2>1, <3>1, <3>2, <3>3
    <2>5. g = [i \in 0 .. m |-> IF i = 0 THEN 0 ELSE g[i - 1] + s[i]]
      <3> HIDE DEF g
      <3> QED BY <2>3, <2>4
    <2> HIDE DEF g
    <2> QED BY <1>1, <2>3, <2>5
  <1> QED BY <1>2, <1>3

\* ... and are unique, by the least place where two differ.
LEMMA SumUnique ==
  ASSUME NEW s \in Seq(Nat), NEW f, NEW g, IsSum(f, s), IsSum(g, s) PROVE f = g
  <1> DEFINE S == {n \in 0 .. Len(s) : f[n] # g[n]}
  <1>0. Len(s) \in Nat
    OBVIOUS
  <1>1. S = {}
    <2> SUFFICES ASSUME S # {} PROVE FALSE
      OBVIOUS
    <2>1. PICK m \in S : \A n \in S : m <= n
      <3> S \subseteq Nat
        BY <1>0
      <3> HIDE DEF S
      <3> QED BY LeastElement
    <2>2. m # 0
      BY <1>0, <2>1 DEF IsSum
    <2>3. m - 1 \in 0 .. Len(s) /\ ~ (m <= m - 1)
      BY <1>0, <2>1, <2>2
    <2>4. f[m - 1] = g[m - 1]
      BY <2>1, <2>3
    <2> QED BY <1>0, <2>1, <2>2, <2>4 DEF IsSum
  <1>2. f = [i \in 0 .. Len(s) |-> f[i]] /\ g = [i \in 0 .. Len(s) |-> g[i]]
    BY DEF IsSum
  <1> QED BY <1>1, <1>2

\* A total is the last of any prefix sums.
LEMMA TotalIs ==
  ASSUME NEW s \in Seq(Nat), NEW f, IsSum(f, s) PROVE Total(s) = f[Len(s)]
  <1> DEFINE h == CHOOSE sum : sum = [i \in 0 .. Len(s) |-> IF i = 0 THEN 0 ELSE sum[i - 1] + s[i]]
  <1>1. Total(s) = h[Len(s)]
    BY DEF Total
  <1>2. IsSum(h, s)
    BY SumExists DEF IsSum
  <1> QED BY <1>1, <1>2, SumUnique

\* The total grows by what is appended ...
LEMMA TotalExtended ==
  ASSUME NEW s \in Seq(Nat), NEW t \in Seq(Nat), Len(t) = Len(s) + 1,
         \A i \in 1 .. Len(s) : t[i] = s[i]
  PROVE  Total(t) = Total(s) + t[Len(t)] /\ Total(s) \in Nat
  <1>0. Len(s) \in Nat /\ Len(t) \in 1 .. Len(t)
    OBVIOUS
  <1>1. PICK g \in [0 .. Len(t) -> Nat] : IsSum(g, t)
    BY SumExists
  <1> DEFINE f == [i \in 0 .. Len(s) |-> g[i]]
  <1>2. f \in [0 .. Len(s) -> Nat]
    BY <1>0
  <1>3. ASSUME NEW i \in 0 .. Len(s) PROVE f[i] = IF i = 0 THEN 0 ELSE f[i - 1] + s[i]
    <2>1. i \in 0 .. Len(t) /\ (i # 0 => i - 1 \in 0 .. Len(s) /\ i \in 1 .. Len(s))
      BY <1>0
    <2>2. g[i] = IF i = 0 THEN 0 ELSE g[i - 1] + t[i]
      BY <1>1, <2>1 DEF IsSum
    <2> QED BY <2>1, <2>2
  <1>4. f[Len(s)] = g[Len(s)]
    BY <1>0
  <1> HIDE DEF f
  <1>5. IsSum(f, s)
    BY <1>2, <1>3 DEF IsSum
  <1>6. g[Len(t)] = g[Len(t) - 1] + t[Len(t)]
    BY <1>0, <1>1 DEF IsSum
  <1>7. Total(s) = f[Len(s)] /\ Total(t) = g[Len(t)]
    BY <1>1, <1>5, TotalIs
  <1> QED BY <1>0, <1>2, <1>4, <1>6, <1>7

\* ... and shrinks by the head that is removed.
LEMMA TotalShortened ==
  ASSUME NEW s \in Seq(Nat), NEW t \in Seq(Nat), Len(s) = Len(t) + 1,
         \A i \in 1 .. Len(t) : t[i] = s[i + 1]
  PROVE  Total(s) = s[1] + Total(t)
  <1>0. Len(t) \in Nat /\ \A i \in 1 .. Len(s) : s[i] \in Nat
    BY ElementOfSeq
  <1>1. PICK f \in [0 .. Len(s) -> Nat] : IsSum(f, s)
    BY SumExists
  <1> DEFINE g == [i \in 0 .. Len(t) |-> f[i + 1] - s[1]]
  <1>a. f[1] = s[1] /\ s[1] \in Nat /\ \A i \in 0 .. Len(t) : f[i + 1] \in Nat
    <2>1. f[0] = 0 /\ f[1] = f[1 - 1] + s[1] /\ s[1] \in Nat
      BY <1>0, <1>1 DEF IsSum
    <2>2. ASSUME NEW i \in 0 .. Len(t) PROVE f[i + 1] \in Nat
      <3>1. i + 1 \in 0 .. Len(s)
        BY <1>0
      <3> QED BY <1>1, <3>1
    <2> QED BY <2>1, <2>2
  <1>2. ASSUME NEW i \in 0 .. Len(t) PROVE g[i] = IF i = 0 THEN 0 ELSE g[i - 1] + t[i]
    <2>1. CASE i = 0
      BY <1>a, <2>1, <1>0
    <2>2. CASE i # 0
      <3>1. /\ i + 1 \in 0 .. Len(s) /\ i + 1 # 0 /\ i - 1 \in 0 .. Len(t) /\ i \in 1 .. Len(t)
            /\ (i + 1) - 1 = i /\ (i - 1) + 1 = i
        BY <1>0, <2>2
      <3>2. f[i + 1] = f[i] + s[i + 1]
        BY <1>1, <3>1 DEF IsSum
      <3>3. f[i] \in Nat /\ s[i + 1] \in Nat
        <4>1. i \in 0 .. Len(s) /\ i + 1 \in 1 .. Len(s)
          BY <1>0, <3>1
        <4> QED BY <1>0, <1>1, <4>1
      <3>4. g[i] = f[i + 1] - s[1] /\ g[i - 1] = f[i] - s[1] /\ t[i] = s[i + 1]
        BY <3>1
      <3> HIDE DEF g
      <3> QED BY <1>a, <2>2, <3>2, <3>3, <3>4
    <2> QED BY <2>1, <2>2
  <1>3. g[Len(t)] = f[Len(s)] - s[1]
    BY <1>0
  <1>4. IsSum(g, t)
    <2>1. g = [i \in 0 .. Len(t) |-> g[i]]
      OBVIOUS
    <2> HIDE DEF g
    <2> QED BY <1>2, <2>1 DEF IsSum
  <1> HIDE DEF g
  <1>5. Total(s) = f[Len(s)] /\ Total(t) = g[Len(t)] /\ f[Len(s)] \in Nat
    BY <1>0, <1>1, <1>4, TotalIs
  <1> QED BY <1>a, <1>3, <1>5

\* ... or by the entry that is removed from any place.
LEMMA TotalRemoved ==
  ASSUME NEW s \in Seq(Nat), NEW t \in Seq(Nat), NEW at \in 1 .. Len(s), Len(s) = Len(t) + 1,
         \A i \in 1 .. Len(t) : t[i] = IF i < at THEN s[i] ELSE s[i + 1]
  PROVE  Total(s) = s[at] + Total(t)
  <1>0. Len(t) \in Nat /\ Len(s) \in Nat /\ at \in Nat /\ 1 <= at /\ at <= Len(t) + 1
        /\ \A i \in 1 .. Len(s) : s[i] \in Nat
    BY ElementOfSeq
  <1>1. PICK f \in [0 .. Len(s) -> Nat] : IsSum(f, s)
    BY SumExists
  <1>a. /\ f[0] = 0
        /\ \A i \in 1 .. Len(s) : f[i] = f[i - 1] + s[i] /\ f[i] \in Nat /\ f[i - 1] \in Nat
    <2>1. \A i \in 1 .. Len(s) : i \in 0 .. Len(s) /\ i - 1 \in 0 .. Len(s) /\ i # 0
      BY <1>0
    <2>2. \A i \in 0 .. Len(s) : f[i] = (IF i = 0 THEN 0 ELSE f[i - 1] + s[i]) /\ f[i] \in Nat
      BY <1>1 DEF IsSum
    <2>3. 0 \in 0 .. Len(s)
      BY <1>0
    <2> QED BY <2>1, <2>2, <2>3
  <1> DEFINE g == [i \in 0 .. Len(t) |-> IF i < at THEN f[i] ELSE f[i + 1] - s[at]]
  <1>b. \A i \in 0 .. Len(t) : g[i] = IF i < at THEN f[i] ELSE f[i + 1] - s[at]
    OBVIOUS
  <1>c. g = [i \in 0 .. Len(t) |-> g[i]]
    OBVIOUS
  <1> HIDE DEF g
  <1>2. ASSUME NEW i \in 0 .. Len(t) PROVE g[i] = IF i = 0 THEN 0 ELSE g[i - 1] + t[i]
    <2>1. CASE i = 0
      BY <1>0, <1>a, <1>b, <2>1
    <2>2. CASE i # 0 /\ i < at
      <3>1. i \in 1 .. Len(s) /\ i \in 1 .. Len(t) /\ i - 1 \in 0 .. Len(t) /\ i - 1 < at
        BY <1>0, <2>2
      <3> QED BY <1>a, <1>b, <2>2, <3>1
    <2>3. CASE i # 0 /\ i = at
      <3>1. /\ i \in 1 .. Len(s) /\ i + 1 \in 1 .. Len(s) /\ i \in 1 .. Len(t)
            /\ i - 1 \in 0 .. Len(t) /\ i - 1 < at /\ (i + 1) - 1 = i /\ ~ (i < at)
        BY <1>0, <2>3
      <3>2. f[i + 1] = f[i] + s[i + 1] /\ f[i] = f[i - 1] + s[i]
        BY <1>a, <3>1
      <3>3. f[i - 1] \in Nat /\ s[i] \in Nat /\ s[i + 1] \in Nat
        BY <1>0, <1>a, <3>1
      <3>4. g[i] = f[i + 1] - s[i] /\ g[i - 1] = f[i - 1] /\ t[i] = s[i + 1]
        BY <1>b, <2>3, <3>1
      <3>5. \A a, b, c \in Nat : ((a + b) + c) - b = a + c
        OBVIOUS
      <3>6. g[i] = ((f[i - 1] + s[i]) + s[i + 1]) - s[i]
        BY <3>2, <3>4
      <3>7. g[i] = f[i - 1] + s[i + 1]
        BY <3>3, <3>5, <3>6, Zenon
      <3> QED BY <2>3, <3>4, <3>7
    <2>4. CASE i # 0 /\ i > at
      <3>1. /\ i + 1 \in 1 .. Len(s) /\ i \in 1 .. Len(t) /\ i - 1 \in 0 .. Len(t)
            /\ ~ (i - 1 < at) /\ ~ (i < at) /\ (i + 1) - 1 = i /\ (i - 1) + 1 = i
        BY <1>0, <2>4
      <3>2. f[i + 1] = f[i] + s[i + 1] /\ f[i] \in Nat /\ s[i + 1] \in Nat /\ s[at] \in Nat
        BY <1>0, <1>a, <3>1
      <3>3. g[i] = f[i + 1] - s[at] /\ g[i - 1] = f[i] - s[at] /\ t[i] = s[i + 1]
        BY <1>b, <3>1
      <3>4. \A a, b, c \in Nat : (a + b) - c = (a - c) + b
        OBVIOUS
      <3>5. g[i] = (f[i] + s[i + 1]) - s[at]
        BY <3>2, <3>3
      <3>6. g[i] = (f[i] - s[at]) + s[i + 1]
        BY <3>2, <3>4, <3>5, Zenon
      <3> QED BY <2>4, <3>3, <3>6
    <2>5. i < at \/ i = at \/ i > at
      BY <1>0
    <2> QED BY <2>1, <2>2, <2>3, <2>4, <2>5
  <1>3. IsSum(g, t)
    BY <1>2, <1>c DEF IsSum
  <1>4. Total(s) = f[Len(s)] /\ Total(t) = g[Len(t)]
    BY <1>1, <1>3, TotalIs
  <1>5. CASE at = Len(s)
    <2>1. Len(t) < at /\ Len(t) \in 0 .. Len(t) /\ Len(s) \in 1 .. Len(s) /\ Len(s) - 1 = Len(t)
      BY <1>0, <1>5
    <2>2. f[Len(s)] = f[Len(t)] + s[at] /\ f[Len(t)] \in Nat
      BY <1>5, <1>a, <2>1
    <2>3. g[Len(t)] = f[Len(t)] /\ s[at] \in Nat
      BY <1>0, <1>b, <2>1
    <2>4. \A a, b \in Nat : a + b = b + a
      OBVIOUS
    <2>5. f[Len(t)] + s[at] = s[at] + f[Len(t)]
      BY <2>2, <2>3, <2>4, Zenon
    <2> QED BY <1>4, <2>2, <2>3, <2>5
  <1>6. CASE at < Len(s)
    <2>1. ~ (Len(t) < at) /\ Len(t) \in 0 .. Len(t) /\ Len(s) \in 1 .. Len(s)
      BY <1>0, <1>6
    <2>2. g[Len(t)] = f[Len(s)] - s[at] /\ f[Len(s)] \in Nat /\ s[at] \in Nat
      BY <1>0, <1>a, <1>b, <2>1
    <2> QED BY <1>4, <2>2
  <1> QED BY <1>0, <1>5, <1>6

LEMMA TotalType == ASSUME NEW s \in Seq(Nat) PROVE Total(s) \in Nat
  <1>1. PICK f \in [0 .. Len(s) -> Nat] : IsSum(f, s)
    BY SumExists
  <1>2. Len(s) \in 0 .. Len(s)
    BY LenProperties
  <1> QED BY <1>1, <1>2, TotalIs

LEMMA TotalOfNothing == ASSUME NEW s \in Seq(Nat), Len(s) = 0 PROVE Total(s) = 0
  <1>1. PICK f \in [0 .. 0 -> Nat] : IsSum(f, s)
    BY SumExists
  <1> QED BY <1>1, TotalIs DEF IsSum

\* Selections: the partial ones of a sequence exist ...
IsPicking(f, s, S) ==
    f = [i \in 0 .. Len(s) |-> IF i = 0 THEN <<>>
                               ELSE IF i \in S THEN Append(f[i - 1], s[i]) ELSE f[i - 1]]

LEMMA PickingExists ==
  ASSUME NEW T, NEW s \in Seq(T), NEW P PROVE \E f : IsPicking(f, s, P)
  <1> DEFINE Step(f, n) == f = [i \in 0 .. n |-> IF i = 0 THEN <<>>
                               ELSE IF i \in P THEN Append(f[i - 1], s[i]) ELSE f[i - 1]]
             S == {n \in 0 .. Len(s) : ~ \E f : Step(f, n)}
  <1>0. Len(s) \in Nat
    BY LenProperties
  <1> SUFFICES S = {}
    <2>1. Len(s) \in 0 .. Len(s)
      BY <1>0
    <2> QED BY <2>1 DEF IsPicking
  <1> SUFFICES ASSUME S # {} PROVE FALSE
    OBVIOUS
  <1>1. PICK m \in S : \A n \in S : m <= n
    <2> S \subseteq Nat
      BY <1>0
    <2> HIDE DEF S
    <2> QED BY LeastElement
  <1>2. CASE m = 0
    <2> DEFINE f == [i \in 0 .. 0 |-> <<>>]
    <2>1. Step(f, 0)
      OBVIOUS
    <2> HIDE DEF f
    <2> QED BY <1>1, <1>2, <2>1
  <1>3. CASE m # 0
    <2>1. m \in 1 .. Len(s) /\ m - 1 \in 0 .. Len(s) /\ ~ (m <= m - 1)
      BY <1>0, <1>1, <1>3
    <2>2. PICK f : Step(f, m - 1)
      BY <1>1, <2>1
    <2> DEFINE last == IF m \in P THEN Append(f[m - 1], s[m]) ELSE f[m - 1]
               g == [i \in 0 .. m |-> IF i < m THEN f[i] ELSE last]
    <2>3. \A i \in 0 .. m : g[i] = IF i < m THEN f[i] ELSE last
      OBVIOUS
    <2>a. g = [i \in 0 .. m |-> g[i]]
      OBVIOUS
    <2> HIDE DEF g
    <2>4. ASSUME NEW i \in 0 .. m
          PROVE  g[i] = IF i = 0 THEN <<>>
                        ELSE IF i \in P THEN Append(g[i - 1], s[i]) ELSE g[i - 1]
      <3>1. CASE i = m
        <4>1. g[i] = last /\ i # 0 /\ i - 1 \in 0 .. m /\ g[i - 1] = f[m - 1]
          BY <2>1, <2>3, <3>1
        <4> QED BY <3>1, <4>1
      <3>2. CASE i < m /\ i # 0
        <4>1. i \in 0 .. m - 1 /\ i - 1 \in 0 .. m /\ i - 1 < m
          BY <2>1, <3>2
        <4>2. f[i] = IF i \in P THEN Append(f[i - 1], s[i]) ELSE f[i - 1]
          BY <2>2, <3>2, <4>1
        <4>3. g[i] = f[i] /\ g[i - 1] = f[i - 1]
          BY <2>3, <3>2, <4>1
        <4> QED BY <3>2, <4>2, <4>3
      <3>3. CASE i < m /\ i = 0
        <4>1. f[0] = <<>>
          <5>1. 0 \in 0 .. m - 1
            BY <2>1
          <5> QED BY <5>1, <2>2
        <4> QED BY <2>3, <3>3, <4>1
      <3> QED BY <2>1, <3>1, <3>2, <3>3
    <2>5. Step(g, m)
      BY <2>a, <2>4
    <2> QED BY <1>1, <2>5
  <1> QED BY <1>2, <1>3

\* ... and a selection has one entry for every place, and no other.
LEMMA PickedProperties ==
  ASSUME NEW T, NEW s \in Seq(T), NEW P \in SUBSET (1 .. Len(s))
  PROVE  /\ Picked(s, P) \in Seq(T) /\ Len(Picked(s, P)) = Cardinality(P)
         /\ \A k \in DOMAIN Picked(s, P) : \E i \in P : Picked(s, P)[k] = s[i]
  <1> DEFINE h == CHOOSE pick : pick = [i \in 0 .. Len(s) |-> IF i = 0 THEN <<>>
                        ELSE IF i \in P THEN Append(pick[i - 1], s[i]) ELSE pick[i - 1]]
             Upto(n) == P \cap (1 .. n)
             Good(n) == /\ h[n] \in Seq(T) /\ Len(h[n]) = Cardinality(Upto(n))
                        /\ \A k \in DOMAIN h[n] : \E i \in P : h[n][k] = s[i]
             S == {n \in 0 .. Len(s) : ~ Good(n)}
  <1>0. Len(s) \in Nat /\ \A i \in 1 .. Len(s) : s[i] \in T
    BY LenProperties, ElementOfSeq
  <1>1. Picked(s, P) = h[Len(s)]
    BY DEF Picked
  <1>2. IsPicking(h, s, P)
    BY PickingExists DEF IsPicking
  <1>3. h[0] = <<>> /\ \A i \in 1 .. Len(s) :
            h[i] = IF i \in P THEN Append(h[i - 1], s[i]) ELSE h[i - 1]
    <2>1. \A i \in 0 .. Len(s) : h[i] = IF i = 0 THEN <<>>
                     ELSE IF i \in P THEN Append(h[i - 1], s[i]) ELSE h[i - 1]
      <3> HIDE DEF h
      <3> QED BY <1>2 DEF IsPicking
    <2> HIDE DEF h
    <2>2. 0 \in 0 .. Len(s) /\ \A i \in 1 .. Len(s) : i \in 0 .. Len(s) /\ i # 0
      BY <1>0
    <2> QED BY <2>1, <2>2
  <1> HIDE DEF h
  <1>4. S = {}
    <2> SUFFICES ASSUME S # {} PROVE FALSE
      OBVIOUS
    <2>1. PICK m \in S : \A n \in S : m <= n
      <3> S \subseteq Nat
        BY <1>0
      <3> HIDE DEF S
      <3> QED BY LeastElement
    <2>2. CASE m = 0
      <3>1. Upto(0) = {}
        OBVIOUS
      <3>2. Cardinality(Upto(0)) = 0
        BY <3>1, FS_EmptySet
      <3>3. <<>> \in Seq(T) /\ Len(<<>>) = 0 /\ DOMAIN <<>> = {}
        OBVIOUS
      <3> HIDE DEF Upto
      <3>4. Good(0)
        BY <1>3, <3>2, <3>3
      <3> QED BY <2>1, <2>2, <3>4
    <2>3. CASE m # 0
      <3>1. m \in 1 .. Len(s) /\ m - 1 \in 0 .. Len(s) /\ ~ (m <= m - 1) /\ s[m] \in T
            /\ m \in Nat /\ m - 1 \in Nat
        BY <1>0, <2>1, <2>3
      <3>2. Good(m - 1)
        BY <2>1, <3>1
      <3>3. IsFiniteSet(Upto(m - 1))
        <4>1. IsFiniteSet(1 .. m - 1) /\ Upto(m - 1) \in SUBSET (1 .. m - 1)
          <5>1. 1 \in Int /\ m - 1 \in Int
            BY <3>1
          <5> QED BY <5>1, FS_Interval, Zenon
        <4> HIDE DEF Upto
        <4> QED BY <4>1, FS_Subset
      <3>4. CASE m \in P
        <4>1. Upto(m) = Upto(m - 1) \cup {m} /\ m \notin Upto(m - 1)
          BY <3>1, <3>4
        <4> DEFINE q == h[m - 1]
        <4>2. h[m] = Append(q, s[m]) /\ q \in Seq(T)
          BY <1>3, <3>1, <3>2, <3>4
        <4>a. Len(q) = Cardinality(Upto(m - 1)) /\ \A k \in DOMAIN q : \E i \in P : q[k] = s[i]
          BY <3>2
        <4> HIDE DEF Upto, q
        <4>3. Cardinality(Upto(m)) = Cardinality(Upto(m - 1)) + 1
          BY <3>3, <4>1, FS_AddElement
        <4>4. /\ h[m] \in Seq(T) /\ Len(h[m]) = Len(q) + 1 /\ Len(q) \in Nat
              /\ DOMAIN q = 1 .. Len(q) /\ DOMAIN h[m] = 1 .. Len(q) + 1
              /\ \A k \in 1 .. Len(q) : h[m][k] = q[k]
              /\ h[m][Len(q) + 1] = s[m]
          BY <3>1, <4>2, AppendProperties, LenProperties
        <4>5. \A k \in DOMAIN h[m] : k \in 1 .. Len(q) \/ k = Len(q) + 1
          BY <4>4
        <4>6. \A k \in DOMAIN h[m] : \E i \in P : h[m][k] = s[i]
          BY <3>4, <4>a, <4>4, <4>5
        <4>7. Good(m)
          BY <4>a, <4>3, <4>4, <4>6
        <4> QED BY <2>1, <4>7
      <3>5. CASE m \notin P
        <4>1. Upto(m) = Upto(m - 1)
          BY <3>1, <3>5
        <4>2. h[m] = h[m - 1]
          BY <1>3, <3>1, <3>5
        <4>3. Good(m)
          BY <3>2, <4>1, <4>2
        <4> QED BY <2>1, <4>3
      <3> QED BY <3>4, <3>5
    <2> QED BY <2>2, <2>3
  <1>5. Good(Len(s))
    <2>1. Len(s) \in 0 .. Len(s)
      BY <1>0
    <2> QED BY <2>1, <1>4
  <1>6. Upto(Len(s)) = P
    OBVIOUS
  <1> HIDE DEF Upto
  <1> QED BY <1>1, <1>5, <1>6
=============================================================================
