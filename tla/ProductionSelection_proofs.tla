----------------------- MODULE ProductionSelection_proofs -----------------------
(***************************************************************************)
(* Proofs about the decision for one key, for any uploads, registry,       *)
(* requests, answers of the libraries, measures and faults.                *)
(***************************************************************************)
EXTENDS ProductionSelection, TLAPS, WellFoundedInduction, FiniteSetTheorems
--------------------------------------------------------------------------------
(* Numbers, finite sets of them, and induction. *)

LEMMA SetInduction ==
  ASSUME NEW T, 0 \in T, \A k \in Nat : k \in T => k + 1 \in T
  PROVE  Nat \subseteq T
<1> SUFFICES ASSUME Nat \ T # {} PROVE FALSE
  OBVIOUS
<1>1. PICK k \in Nat \ T : \A m \in Nat \ T : ~(<<m, k>> \in OpToRel(<, Nat))
  BY NatLessThanWellFounded, WFMin
<1>2. \A m \in Nat \ T : ~(m < k) BY <1>1 DEF OpToRel
<1>3. k \in Nat /\ k \notin T OBVIOUS
<1>4. k # 0 BY <1>3
<1>5. k - 1 \in Nat BY <1>3, <1>4
<1>6. k - 1 \in T BY <1>2, <1>5
<1>7. (k - 1) + 1 = k BY <1>3
<1> QED BY <1>3, <1>5, <1>6, <1>7

\* A finite set of integers has a least and a greatest element.
LEMMA FiniteIntsHaveEnds ==
  ASSUME NEW S \in SUBSET Int, IsFiniteSet(S), S # {}
  PROVE  /\ Min(S) \in S /\ \A y \in S : Min(S) <= y
         /\ Max(S) \in S /\ \A y \in S : Max(S) >= y
<1> DEFINE
      Ended(T) == /\ \E x \in T : \A y \in T : x <= y
                  /\ \E x \in T : \A y \in T : x >= y
      N == {k \in Nat : \A T \in SUBSET Int :
                IsFiniteSet(T) /\ Cardinality(T) = k /\ T # {} => Ended(T)}
<1>1. 0 \in N BY FS_EmptySet
<1>2. ASSUME NEW k \in Nat, k \in N PROVE k + 1 \in N
  <2> SUFFICES ASSUME NEW T \in SUBSET Int, IsFiniteSet(T), Cardinality(T) = k + 1, T # {}
               PROVE  Ended(T)
    OBVIOUS
  <2>1. PICK x \in T : TRUE OBVIOUS
  <2> DEFINE R == T \ {x}
  <2>2. IsFiniteSet(R) /\ Cardinality(R) = k
    <3>1. IsFiniteSet(R) /\ Cardinality(R) = Cardinality(T) - 1 BY <2>1, FS_RemoveElement, Zenon
    <3> QED BY <3>1
  <2>3. R \in SUBSET Int /\ x \in Int BY <2>1
  <2>4. CASE R = {}
    <3>1. T = {x} BY <2>1, <2>4
    <3>2. x <= x /\ x >= x BY <2>3
    <3> QED BY <3>1, <3>2
  <2>5. CASE R # {}
    <3>1. Ended(R) BY <1>2, <2>2, <2>3, <2>5
    <3>2. PICK a \in R : \A y \in R : a <= y BY <3>1
    <3>3. PICK b \in R : \A y \in R : b >= y BY <3>1
    <3>4. a \in Int /\ b \in Int /\ a \in T /\ b \in T /\ T = R \cup {x} BY <2>1, <2>3
    <3> HIDE DEF R
    <3>5. \E z \in T : \A y \in T : z <= y
      <4>1. CASE a <= x BY <3>2, <3>4, <4>1
      <4>2. CASE x <= a
        <5>1. \A y \in T : x <= y BY <2>3, <3>2, <3>4, <4>2
        <5> QED BY <2>1, <5>1
      <4> QED BY <2>3, <3>4, <4>1, <4>2
    <3>6. \E z \in T : \A y \in T : z >= y
      <4>1. CASE b >= x BY <3>3, <3>4, <4>1
      <4>2. CASE x >= b
        <5>1. \A y \in T : x >= y BY <2>3, <3>3, <3>4, <4>2
        <5> QED BY <2>1, <5>1
      <4> QED BY <2>3, <3>4, <4>1, <4>2
    <3> QED BY <3>5, <3>6
  <2> QED BY <2>4, <2>5
<1> HIDE DEF N
<1>3. Nat \subseteq N BY <1>1, <1>2, SetInduction, Zenon
<1>4. Cardinality(S) \in N BY <1>3, FS_CardinalityType
<1>5. Ended(S) BY <1>4 DEF N
<1> QED BY <1>5 DEF Min, Max

\* The quotient by a positive number keeps the order.
LEMMA QuotientIs ==
  ASSUME NEW a \in Int, NEW w \in Nat, w > 0
  PROVE  a \div w \in Int /\ w * (a \div w) <= a /\ a < w * (a \div w) + w
  OBVIOUS

LEMMA QuotientKeepsOrder ==
  ASSUME NEW a \in Int, NEW b \in Int, a <= b, NEW w \in Nat, w > 0
  PROVE  a \div w <= b \div w
<1> DEFINE p == a \div w
           q == b \div w
<1>1. p \in Int /\ q \in Int /\ w * p <= a /\ b < w * q + w BY QuotientIs
<1> HIDE DEF p, q
<1>2. w * p < w * (q + 1) BY <1>1
<1>3. ASSUME p >= q + 1 PROVE FALSE
  <2>1. w * p >= w * (q + 1) BY <1>1, <1>3
  <2> QED BY <1>1, <1>2, <2>1
<1>4. p <= q BY <1>1, <1>3
<1> QED BY <1>4 DEF p, q
--------------------------------------------------------------------------------
(* What At takes. *)

\* The steps of an At, up to the m-th.
AtSteps(f, s, places, m) ==
  f = [i \in 0 .. m |->
         IF i = 0 THEN <<>> ELSE IF i \in places THEN Append(f[i - 1], s[i]) ELSE f[i - 1]]

LEMMA AtStep ==
  ASSUME NEW f, NEW s, NEW places, NEW m \in Nat, AtSteps(f, s, places, m), NEW i \in 1 .. m
  PROVE  f[i] = IF i \in places THEN Append(f[i - 1], s[i]) ELSE f[i - 1]
<1> DEFINE step(j) == IF j = 0 THEN <<>> ELSE IF j \in places THEN Append(f[j - 1], s[j]) ELSE f[j - 1]
<1>1. i \in 0 .. m /\ i # 0 OBVIOUS
<1>2. f = [j \in 0 .. m |-> step(j)] BY DEF AtSteps
<1> HIDE DEF step
<1>3. f[i] = step(i) BY <1>1, <1>2
<1> QED BY <1>1, <1>3 DEF step

LEMMA AtStepsExist == ASSUME NEW s, NEW places PROVE \A m \in Nat : \E f : AtSteps(f, s, places, m)
<1> DEFINE N == {m \in Nat : \E f : AtSteps(f, s, places, m)}
<1>1. 0 \in N
  <2>1. AtSteps([i \in 0 .. 0 |-> <<>>], s, places, 0) BY DEF AtSteps
  <2> QED BY <2>1
<1>2. ASSUME NEW m \in Nat, m \in N PROVE m + 1 \in N
  <2>1. PICK f : AtSteps(f, s, places, m) BY <1>2
  <2> DEFINE g == [i \in 0 .. m + 1 |->
                     IF i <= m THEN f[i]
                     ELSE IF m + 1 \in places THEN Append(f[m], s[m + 1]) ELSE f[m]]
  <2>2. ASSUME NEW i \in 0 .. m + 1
        PROVE  g[i] = IF i = 0 THEN <<>>
                      ELSE IF i \in places THEN Append(g[i - 1], s[i]) ELSE g[i - 1]
    <3>1. CASE i = 0 BY <2>1, <3>1 DEF AtSteps
    <3>2. CASE i \in 1 .. m
      <4>1. f[i] = IF i \in places THEN Append(f[i - 1], s[i]) ELSE f[i - 1]
        BY <2>1, <3>2, AtStep
      <4>2. g[i] = f[i] /\ g[i - 1] = f[i - 1] BY <3>2
      <4> QED BY <3>2, <4>1, <4>2
    <3>3. CASE i = m + 1
      <4>1. g[i - 1] = f[m] /\ i # 0 BY <3>3
      <4> QED BY <3>3, <4>1
    <3> QED BY <3>1, <3>2, <3>3
  <2>3. AtSteps(g, s, places, m + 1) BY <2>2 DEF AtSteps
  <2> QED BY <2>3
<1> HIDE DEF N
<1>3. Nat \subseteq N BY <1>1, <1>2, SetInduction, Zenon
<1> QED BY <1>3 DEF N

LEMMA AtIs ==
  ASSUME NEW s, NEW places, Len(s) \in Nat
  PROVE  \E f : AtSteps(f, s, places, Len(s)) /\ At(s, places) = f[Len(s)]
<1> DEFINE f == CHOOSE f : AtSteps(f, s, places, Len(s))
<1>1. AtSteps(f, s, places, Len(s)) BY AtStepsExist
<1>2. At(s, places) = f[Len(s)] BY DEF At, AtSteps
<1> QED BY <1>1, <1>2

\* r is what s has at some places: pos tells, in order, which.
Taken(r, s, places, pos) ==
  /\ DOMAIN r = 1 .. Len(r)
  /\ pos \in [1 .. Len(r) -> places]
  /\ \A i \in 1 .. Len(r) : r[i] = s[pos[i]]
  /\ \A i, j \in 1 .. Len(r) : i < j => pos[i] < pos[j]
  /\ \A p \in places : \E i \in 1 .. Len(r) : pos[i] = p

LEMMA AtTakes ==
  ASSUME NEW S, NEW s \in Seq(S), NEW places \in SUBSET (1 .. Len(s))
  PROVE  /\ At(s, places) \in Seq(S)
         /\ \E pos : Taken(At(s, places), s, places, pos)
<1>1. PICK l \in Nat : l = Len(s) OBVIOUS
<1>2. PICK f : AtSteps(f, s, places, l) /\ At(s, places) = f[l] BY <1>1, AtIs
<1> DEFINE upTo(m) == places \cap 1 .. m
           Reached(m) == f[m] \in Seq(S) /\ \E pos : Taken(f[m], s, upTo(m), pos)
           N == {m \in Nat : m <= l => Reached(m)}
<1>3. 0 \in N
  <2>1. f[0] = <<>> BY <1>2 DEF AtSteps
  <2>2. upTo(0) = {} /\ Len(<<>>) = 0 /\ 1 .. 0 = {} OBVIOUS
  <2>3. Taken(<<>>, s, {}, [i \in {} |-> 0])
    BY <2>2 DEF Taken
  <2>4. f[0] \in Seq(S) BY <2>1
  <2>5. Taken(f[0], s, upTo(0), [i \in {} |-> 0])
    <3> HIDE DEF upTo
    <3> QED BY <2>1, <2>2, <2>3
  <2>6. Reached(0) BY <2>4, <2>5
  <2> HIDE DEF Reached
  <2> QED BY <2>6
<1>4. ASSUME NEW m \in Nat, m \in N PROVE m + 1 \in N
  <2> SUFFICES ASSUME m + 1 <= l PROVE Reached(m + 1)
    <3> HIDE DEF Reached
    <3> QED OBVIOUS
  <2>1. Reached(m)
    <3> HIDE DEF Reached
    <3> QED BY <1>4
  <2>2. PICK pos : Taken(f[m], s, upTo(m), pos) BY <2>1
  <2>3. m + 1 \in 1 .. l /\ (m + 1) - 1 = m BY <1>1
  <2>4. f[m + 1] = IF m + 1 \in places THEN Append(f[m], s[m + 1]) ELSE f[m]
    <3>1. \A i \in 1 .. l : f[i] = IF i \in places THEN Append(f[i - 1], s[i]) ELSE f[i - 1]
      BY <1>2, AtStep
    <3> QED BY <2>3, <3>1
  <2>5. s[m + 1] \in S BY <1>1, <2>3
  <2>6. CASE m + 1 \notin places
    <3>1. upTo(m + 1) = upTo(m) BY <2>6
    <3> QED BY <2>1, <2>2, <2>4, <2>6, <3>1
  <2>7. CASE m + 1 \in places
    <3>1. PICK c \in Nat : c = Len(f[m]) BY <2>1
    <3> DEFINE r == Append(f[m], s[m + 1])
               new == [i \in 1 .. c + 1 |-> IF i <= c THEN pos[i] ELSE m + 1]
    <3>2. r \in Seq(S) /\ Len(r) = c + 1 /\ DOMAIN r = 1 .. c + 1 /\ r[c + 1] = s[m + 1]
          /\ \A i \in 1 .. c : r[i] = f[m][i]
      BY <2>1, <2>5, <3>1
    <3>3. f[m + 1] = r BY <2>4, <2>7
    <3>4. upTo(m + 1) = upTo(m) \cup {m + 1} BY <2>7
    <3>5. /\ pos \in [1 .. c -> upTo(m)]
          /\ \A i \in 1 .. c : f[m][i] = s[pos[i]]
          /\ \A i, j \in 1 .. c : i < j => pos[i] < pos[j]
          /\ \A p \in upTo(m) : \E i \in 1 .. c : pos[i] = p
      BY <2>2, <3>1 DEF Taken
    <3>6. upTo(m) \subseteq 1 .. m /\ upTo(m) \subseteq upTo(m + 1) /\ m + 1 \in upTo(m + 1)
      BY <2>7
    <3> HIDE DEF r, upTo
    <3>7. new \in [1 .. c + 1 -> upTo(m + 1)] BY <3>5, <3>6
    <3>8. \A i \in 1 .. c + 1 : r[i] = s[new[i]] BY <3>2, <3>5
    <3>9. ASSUME NEW i \in 1 .. c + 1, NEW j \in 1 .. c + 1, i < j PROVE new[i] < new[j]
      <4>1. i \in 1 .. c /\ new[i] = pos[i] /\ pos[i] \in 1 .. m BY <3>5, <3>6, <3>9
      <4>2. CASE j \in 1 .. c BY <3>5, <3>9, <4>1, <4>2
      <4>3. CASE j = c + 1
        <5>1. new[j] = m + 1 BY <4>3
        <5> QED BY <4>1, <5>1
      <4> QED BY <4>2, <4>3
    <3>10. ASSUME NEW p \in upTo(m + 1) PROVE \E i \in 1 .. c + 1 : new[i] = p
      <4>1. CASE p \in upTo(m)
        <5>1. PICK i \in 1 .. c : pos[i] = p BY <3>5, <4>1
        <5> QED BY <5>1
      <4>2. CASE p = m + 1
        <5>1. new[c + 1] = m + 1 /\ c + 1 \in 1 .. c + 1 OBVIOUS
        <5> QED BY <4>2, <5>1
      <4> QED BY <3>4, <4>1, <4>2
    <3> HIDE DEF new
    <3>11. Taken(r, s, upTo(m + 1), new)
      BY <3>2, <3>7, <3>8, <3>9, <3>10 DEF Taken
    <3> QED BY <3>2, <3>3, <3>11
  <2> QED BY <2>6, <2>7
<1> HIDE DEF N
<1>5. Nat \subseteq N BY <1>3, <1>4, SetInduction, Zenon
<1>6. l \in N BY <1>5
<1>7. f[l] \in Seq(S) /\ \E pos : Taken(f[l], s, upTo(l), pos)
  <2>1. l <= l OBVIOUS
  <2> QED BY <1>6, <2>1 DEF N
<1>8. upTo(l) = places BY <1>1
<1> QED BY <1>2, <1>7, <1>8

\* What is taken everywhere is all there is.
LEMMA AtEverywhere ==
  ASSUME NEW S, NEW s \in Seq(S), NEW places, 1 .. Len(s) \subseteq places
  PROVE  At(s, places) = s
<1>1. PICK l \in Nat : l = Len(s) OBVIOUS
<1>2. PICK f : AtSteps(f, s, places, l) /\ At(s, places) = f[l] BY <1>1, AtIs
<1> DEFINE N == {m \in Nat : m <= l => f[m] = SubSeq(s, 1, m)}
<1>3. 0 \in N
  <2>1. f[0] = <<>> BY <1>2 DEF AtSteps
  <2>2. SubSeq(s, 1, 0) = <<>> OBVIOUS
  <2> QED BY <2>1, <2>2
<1>4. ASSUME NEW m \in Nat, m \in N PROVE m + 1 \in N
  <2> SUFFICES ASSUME m + 1 <= l PROVE f[m + 1] = SubSeq(s, 1, m + 1)
    OBVIOUS
  <2>1. f[m] = SubSeq(s, 1, m) BY <1>4
  <2>2. m + 1 \in 1 .. l /\ (m + 1) - 1 = m /\ m + 1 \in places BY <1>1
  <2>3. f[m + 1] = IF m + 1 \in places THEN Append(f[m], s[m + 1]) ELSE f[m]
    <3>1. \A i \in 1 .. l : f[i] = IF i \in places THEN Append(f[i - 1], s[i]) ELSE f[i - 1]
      BY <1>2, AtStep
    <3> QED BY <2>2, <3>1
  <2>4. Append(SubSeq(s, 1, m), s[m + 1]) = SubSeq(s, 1, m + 1) BY <1>1, <2>2
  <2> QED BY <2>1, <2>2, <2>3, <2>4
<1> HIDE DEF N
<1>5. Nat \subseteq N BY <1>3, <1>4, SetInduction, Zenon
<1>6. l \in N BY <1>5
<1>7. f[l] = SubSeq(s, 1, l) BY <1>6 DEF N
<1>8. SubSeq(s, 1, l) = s BY <1>1
<1> QED BY <1>2, <1>7, <1>8

LEMMA AtRange ==
  ASSUME NEW S, NEW s \in Seq(S), NEW places \in SUBSET (1 .. Len(s))
  PROVE  Range(At(s, places)) = {s[p] : p \in places}
<1> DEFINE r == At(s, places)
<1>1. PICK pos : Taken(r, s, places, pos) BY AtTakes
<1> HIDE DEF r
<1>2. /\ DOMAIN r = 1 .. Len(r)
      /\ \A i \in 1 .. Len(r) : pos[i] \in places /\ r[i] = s[pos[i]]
      /\ \A p \in places : \E i \in 1 .. Len(r) : pos[i] = p
  BY <1>1 DEF Taken
<1>3. ASSUME NEW x \in Range(r) PROVE x \in {s[p] : p \in places}
  <2>1. PICK i \in 1 .. Len(r) : x = r[i] BY <1>2 DEF Range
  <2> QED BY <1>2, <2>1
<1>4. ASSUME NEW p \in places PROVE s[p] \in Range(r)
  <2>1. PICK i \in 1 .. Len(r) : pos[i] = p BY <1>2
  <2>2. i \in DOMAIN r /\ r[i] = s[p] BY <1>2, <2>1
  <2> QED BY <2>2 DEF Range
<1>5. Range(r) = {s[p] : p \in places} BY <1>3, <1>4
<1> QED BY <1>5 DEF r

\* What is taken somewhere is as long as there are places.
LEMMA AtLength ==
  ASSUME NEW S, NEW s \in Seq(S), NEW places \in SUBSET (1 .. Len(s))
  PROVE  Len(At(s, places)) = Cardinality(places) /\ IsFiniteSet(places)
<1> DEFINE r == At(s, places)
<1>1. r \in Seq(S) /\ \E pos : Taken(r, s, places, pos) BY AtTakes
<1>2. PICK pos : Taken(r, s, places, pos) BY <1>1
<1>3. PICK l \in Nat : l = Len(r) BY <1>1
<1> HIDE DEF r
<1>4. /\ pos \in [1 .. l -> places]
      /\ \A i, j \in 1 .. l : i < j => pos[i] < pos[j]
      /\ \A p \in places : \E i \in 1 .. l : pos[i] = p
  BY <1>2, <1>3 DEF Taken
<1>5. \A i \in 1 .. l : pos[i] \in Int
  <2>1. places \subseteq Int OBVIOUS
  <2> QED BY <1>4, <2>1
<1>6. ASSUME NEW i \in 1 .. l, NEW j \in 1 .. l, pos[i] = pos[j] PROVE i = j
  <2>1. ~(i < j) /\ ~(j < i) BY <1>4, <1>5, <1>6
  <2> QED BY <2>1
<1>7. pos \in Bijection(1 .. l, places)
  BY <1>4, <1>6 DEF Bijection, Injection, Surjection, IsInjective
<1>8. IsFiniteSet(1 .. l) /\ Cardinality(1 .. l) = l
  <2>1. 0 \in Int /\ 1 \in Int /\ l \in Int /\ (1 > l => l = 0) /\ l - 1 + 1 = l OBVIOUS
  <2> QED BY <2>1, FS_Interval
<1>9. IsFiniteSet(places) /\ Cardinality(places) = Cardinality(1 .. l)
  <2>1. ExistsBijection(1 .. l, places) BY <1>7 DEF ExistsBijection
  <2> QED BY <1>8, <2>1, FS_Bijection
<1> QED BY <1>3, <1>8, <1>9 DEF r
--------------------------------------------------------------------------------
(* Ranks. *)

\* before[i] are the positions that come before i, of m.
Orders(before, m) ==
  /\ before \in [1 .. m -> SUBSET (1 .. m)]
  /\ \A i \in 1 .. m : i \notin before[i]
  /\ \A i, j \in 1 .. m : i # j => i \in before[j] \/ j \in before[i]
  /\ \A i, j, k \in 1 .. m : j \in before[i] /\ k \in before[j] => k \in before[i]

\* Every rank is taken, and a position that comes before has the lower one.
EachHasARank(before, m) ==
  /\ \A i \in 1 .. m : Cardinality(before[i]) \in 0 .. m - 1
  /\ \A i, j \in 1 .. m : j \in before[i] => Cardinality(before[j]) < Cardinality(before[i])
  /\ \A r \in 1 .. m : \E i \in 1 .. m : Cardinality(before[i]) = r - 1

LEMMA RanksAreTaken ==
  ASSUME NEW m \in Nat, NEW before, Orders(before, m)
  PROVE  EachHasARank(before, m)
<1>1. /\ before \in [1 .. m -> SUBSET (1 .. m)]
      /\ \A i \in 1 .. m : i \notin before[i]
      /\ \A i, j \in 1 .. m : i # j => i \in before[j] \/ j \in before[i]
      /\ \A i, j, k \in 1 .. m : j \in before[i] /\ k \in before[j] => k \in before[i]
  BY DEF Orders
<1>2. IsFiniteSet(1 .. m) /\ Cardinality(1 .. m) = m
  <2>1. 1 \in Int /\ m \in Int /\ (1 > m => m = 0) /\ m - 1 + 1 = m OBVIOUS
  <2> QED BY <2>1, FS_Interval
<1>3. ASSUME NEW i \in 1 .. m
      PROVE  IsFiniteSet(before[i]) /\ Cardinality(before[i]) \in Nat /\ Cardinality(before[i]) < m
  <2>1. before[i] \in SUBSET (1 .. m) /\ before[i] # 1 .. m BY <1>1
  <2>2. /\ IsFiniteSet(before[i]) /\ Cardinality(before[i]) <= Cardinality(1 .. m)
        /\ Cardinality(1 .. m) = Cardinality(before[i]) => 1 .. m = before[i]
    BY <1>2, <2>1, FS_Subset
  <2>3. Cardinality(before[i]) \in Nat BY <2>2, FS_CardinalityType
  <2> QED BY <1>2, <2>1, <2>2, <2>3
<1>4. ASSUME NEW i \in 1 .. m, NEW j \in 1 .. m, j \in before[i]
      PROVE  Cardinality(before[j]) < Cardinality(before[i])
  <2>1. before[j] \in SUBSET before[i] /\ before[j] # before[i]
    <3>1. \A k \in before[j] : k \in 1 .. m BY <1>1
    <3>2. before[j] \subseteq before[i] BY <1>1, <1>4, <3>1
    <3> QED BY <1>1, <1>4, <3>2
  <2>2. /\ Cardinality(before[j]) <= Cardinality(before[i])
        /\ Cardinality(before[i]) = Cardinality(before[j]) => before[i] = before[j]
    BY <1>3, <2>1, FS_Subset
  <2>3. Cardinality(before[i]) \in Nat /\ Cardinality(before[j]) \in Nat BY <1>3
  <2> QED BY <2>1, <2>2, <2>3
<1> DEFINE rank == [i \in 1 .. m |-> Cardinality(before[i])]
<1>5. rank \in [1 .. m -> 0 .. m - 1] BY <1>3
<1>6. ASSUME NEW i \in 1 .. m, NEW j \in 1 .. m, rank[i] = rank[j] PROVE i = j
  <2> SUFFICES ASSUME i # j PROVE FALSE
    OBVIOUS
  <2>1. Cardinality(before[i]) = Cardinality(before[j]) /\ Cardinality(before[i]) \in Nat
    BY <1>3, <1>6
  <2>2. CASE i \in before[j]
    <3>1. Cardinality(before[i]) < Cardinality(before[j]) BY <1>4, <2>2
    <3> QED BY <2>1, <3>1
  <2>3. CASE j \in before[i]
    <3>1. Cardinality(before[j]) < Cardinality(before[i]) BY <1>4, <2>3
    <3> QED BY <2>1, <3>1
  <2> QED BY <1>1, <2>2, <2>3
<1>7. rank \in Injection(1 .. m, 0 .. m - 1) BY <1>5, <1>6 DEF Injection, IsInjective
<1>8. IsFiniteSet(0 .. m - 1) /\ Cardinality(0 .. m - 1) = m
  <2>1. 0 \in Int /\ m - 1 \in Int /\ (0 > m - 1 => m = 0) /\ (m - 1) - 0 + 1 = m OBVIOUS
  <2> QED BY <2>1, FS_Interval
<1>9. rank \in Surjection(1 .. m, 0 .. m - 1) BY <1>2, <1>7, <1>8, FS_Injection
<1>10. ASSUME NEW r \in 1 .. m PROVE \E i \in 1 .. m : Cardinality(before[i]) = r - 1
  <2>1. r - 1 \in 0 .. m - 1 OBVIOUS
  <2>2. PICK i \in 1 .. m : rank[i] = r - 1 BY <1>9, <2>1 DEF Surjection
  <2> QED BY <2>2
<1>11. \A i \in 1 .. m : Cardinality(before[i]) \in 0 .. m - 1 BY <1>3
<1> QED BY <1>4, <1>10, <1>11 DEF EachHasARank
--------------------------------------------------------------------------------
(* Sums. *)

\* The steps of a sum that begins at a base, up to the m-th.
Sums(f, base, s, m) == f = [i \in 0 .. m |-> IF i = 0 THEN base ELSE f[i - 1] + s[i]]

LEMMA SumStep ==
  ASSUME NEW f, NEW base, NEW s, NEW m \in Nat, Sums(f, base, s, m)
  PROVE  f[0] = base /\ \A i \in 1 .. m : f[i] = f[i - 1] + s[i]
<1> DEFINE step(j) == IF j = 0 THEN base ELSE f[j - 1] + s[j]
<1>1. f = [j \in 0 .. m |-> step(j)] BY DEF Sums
<1> HIDE DEF step
<1>2. \A i \in 0 .. m : f[i] = step(i) BY <1>1
<1>3. 0 \in 0 .. m /\ \A i \in 1 .. m : i \in 0 .. m /\ i # 0 OBVIOUS
<1> QED BY <1>2, <1>3 DEF step

LEMMA SumsExist == ASSUME NEW base, NEW s PROVE \A m \in Nat : \E f : Sums(f, base, s, m)
<1> DEFINE N == {m \in Nat : \E f : Sums(f, base, s, m)}
<1>1. 0 \in N
  <2>1. Sums([i \in 0 .. 0 |-> base], base, s, 0) BY DEF Sums
  <2> QED BY <2>1
<1>2. ASSUME NEW m \in Nat, m \in N PROVE m + 1 \in N
  <2>1. PICK f : Sums(f, base, s, m) BY <1>2
  <2> DEFINE g == [i \in 0 .. m + 1 |-> IF i <= m THEN f[i] ELSE f[m] + s[m + 1]]
  <2>2. ASSUME NEW i \in 0 .. m + 1
        PROVE  g[i] = IF i = 0 THEN base ELSE g[i - 1] + s[i]
    <3>1. CASE i = 0 BY <2>1, <3>1, SumStep
    <3>2. CASE i \in 1 .. m
      <4>1. f[i] = f[i - 1] + s[i] BY <2>1, <3>2, SumStep
      <4>2. g[i] = f[i] /\ g[i - 1] = f[i - 1] BY <3>2
      <4> QED BY <3>2, <4>1, <4>2
    <3>3. CASE i = m + 1
      <4>1. g[i] = f[m] + s[i] /\ g[i - 1] = f[m] /\ i # 0 BY <3>3
      <4> QED BY <3>3, <4>1
    <3> QED BY <3>1, <3>2, <3>3
  <2>3. Sums(g, base, s, m + 1) BY <2>2 DEF Sums
  <2> QED BY <2>3
<1> HIDE DEF N
<1>3. Nat \subseteq N BY <1>1, <1>2, SetInduction, Zenon
<1> QED BY <1>3 DEF N

LEMMA TotalIs ==
  ASSUME NEW s, Len(s) \in Nat
  PROVE  \E f : Sums(f, 0, s, Len(s)) /\ Total(s) = f[Len(s)]
<1> DEFINE f == CHOOSE f : Sums(f, 0, s, Len(s))
<1>1. Sums(f, 0, s, Len(s)) BY SumsExist
<1>2. Total(s) = f[Len(s)] BY DEF Total, Sums
<1> QED BY <1>1, <1>2

\* A set of integers that is closed under sums holds them all.
LEMMA TotalIn ==
  ASSUME NEW T \in SUBSET Int, 0 \in T, \A x, y \in T : x + y \in T, NEW s \in Seq(T)
  PROVE  Total(s) \in T
<1>1. PICK l \in Nat : l = Len(s) OBVIOUS
<1>2. PICK f : Sums(f, 0, s, l) /\ Total(s) = f[l] BY <1>1, TotalIs
<1>3. f[0] = 0 /\ \A i \in 1 .. l : f[i] = f[i - 1] + s[i] BY <1>2, SumStep
<1> DEFINE N == {m \in Nat : m <= l => f[m] \in T}
<1>4. 0 \in N BY <1>3
<1>5. ASSUME NEW m \in Nat, m \in N PROVE m + 1 \in N
  <2> SUFFICES ASSUME m + 1 <= l PROVE f[m + 1] \in T
    OBVIOUS
  <2>1. m + 1 \in 1 .. l /\ (m + 1) - 1 = m BY <1>1
  <2>2. f[m + 1] = f[m] + s[m + 1] BY <1>3, <2>1
  <2>3. f[m] \in T /\ s[m + 1] \in T BY <1>1, <1>5, <2>1
  <2> QED BY <2>2, <2>3
<1> HIDE DEF N
<1>6. Nat \subseteq N BY <1>4, <1>5, SetInduction, Zenon
<1>7. l \in N BY <1>6
<1> QED BY <1>2, <1>7 DEF N

LEMMA TotalOfInts == \A s \in Seq(Int) : Total(s) \in Int
BY TotalIn

LEMMA TotalOfNats == \A s \in Seq(Nat) : Total(s) \in Nat
BY TotalIn

LEMMA TotalAppend ==
  ASSUME NEW s \in Seq(Int), NEW x \in Int, NEW e, e = Append(s, x)
  PROVE  Total(e) = Total(s) + x
<1>1. PICK l \in Nat : l = Len(s) OBVIOUS
<1> DEFINE r == Append(s, x)
<1>2. r \in Seq(Int) /\ Len(r) = l + 1 /\ r[l + 1] = x /\ \A i \in 1 .. l : r[i] = s[i]
  BY <1>1
<1>0. e = r OBVIOUS
<1> HIDE DEF r
<1>3. PICK f : Sums(f, 0, s, l) /\ Total(s) = f[l] BY <1>1, TotalIs
<1>4. PICK g : Sums(g, 0, r, l + 1) /\ Total(r) = g[l + 1]
  <2>1. \E g : Sums(g, 0, r, Len(r)) /\ Total(r) = g[Len(r)]
    <3>1. Len(r) \in Nat BY <1>2
    <3> QED BY <3>1, TotalIs
  <2> QED BY <1>2, <2>1
<1>5. f[0] = 0 /\ \A i \in 1 .. l : f[i] = f[i - 1] + s[i] BY <1>3, SumStep
<1>6. g[0] = 0 /\ \A i \in 1 .. l + 1 : g[i] = g[i - 1] + r[i]
  <2>1. PICK k \in Nat : k = l + 1 OBVIOUS
  <2>2. Sums(g, 0, r, k) BY <1>4, <2>1
  <2>3. g[0] = 0 /\ \A i \in 1 .. k : g[i] = g[i - 1] + r[i] BY <2>2, SumStep
  <2> QED BY <2>1, <2>3
<1> DEFINE N == {m \in Nat : m <= l => f[m] = g[m]}
<1>7. 0 \in N BY <1>5, <1>6
<1>8. ASSUME NEW m \in Nat, m \in N PROVE m + 1 \in N
  <2> SUFFICES ASSUME m + 1 <= l PROVE f[m + 1] = g[m + 1]
    OBVIOUS
  <2>1. m + 1 \in 1 .. l /\ m + 1 \in 1 .. l + 1 /\ (m + 1) - 1 = m /\ f[m] = g[m] BY <1>8
  <2>2. f[m + 1] = f[m] + s[m + 1] /\ g[m + 1] = g[m] + r[m + 1] BY <1>5, <1>6, <2>1
  <2> QED BY <1>2, <2>1, <2>2
<1> HIDE DEF N
<1>9. Nat \subseteq N BY <1>7, <1>8, SetInduction, Zenon
<1>10. l \in N BY <1>9
<1>11. f[l] = g[l] BY <1>10 DEF N
<1>12. l + 1 \in 1 .. l + 1 /\ (l + 1) - 1 = l OBVIOUS
<1>13. g[l + 1] = g[l] + r[l + 1] BY <1>6, <1>12
<1>14. Total(r) = Total(s) + x BY <1>2, <1>3, <1>4, <1>11, <1>13
<1> QED BY <1>14, <1>0

\* A part of a sum of naturals is no more than the sum.
LEMMA TotalOfPart ==
  ASSUME NEW s \in Seq(Nat), NEW places \in SUBSET (1 .. Len(s))
  PROVE  Total(At(s, places)) \in Nat /\ Total(At(s, places)) <= Total(s)
<1>1. PICK l \in Nat : l = Len(s) OBVIOUS
<1>2. PICK f : AtSteps(f, s, places, l) /\ At(s, places) = f[l] BY <1>1, AtIs
<1>3. PICK g : Sums(g, 0, s, l) /\ Total(s) = g[l] BY <1>1, TotalIs
<1>4. g[0] = 0 /\ \A i \in 1 .. l : g[i] = g[i - 1] + s[i] BY <1>3, SumStep
<1>5. \A i \in 1 .. l : f[i] = IF i \in places THEN Append(f[i - 1], s[i]) ELSE f[i - 1]
  BY <1>2, AtStep
<1>6. f[0] = <<>> BY <1>2 DEF AtSteps
<1> DEFINE N == {m \in Nat : m <= l =>
                   f[m] \in Seq(Nat) /\ g[m] \in Nat /\ Total(f[m]) <= g[m]}
<1>7. 0 \in N
  <2>1. <<>> \in Seq(Nat) /\ Len(<<>>) = 0 OBVIOUS
  <2>2. PICK h : Sums(h, 0, <<>>, 0) /\ Total(<<>>) = h[0] BY <2>1, TotalIs
  <2>3. Total(<<>>) = 0 BY <2>2, SumStep
  <2>4. f[0] \in Seq(Nat) /\ g[0] \in Nat /\ Total(f[0]) <= g[0]
    BY <1>4, <1>6, <2>1, <2>3
  <2> QED BY <2>4
<1>8. ASSUME NEW m \in Nat, m \in N PROVE m + 1 \in N
  <2> SUFFICES ASSUME m + 1 <= l
               PROVE  f[m + 1] \in Seq(Nat) /\ g[m + 1] \in Nat /\ Total(f[m + 1]) <= g[m + 1]
    OBVIOUS
  <2>1. m + 1 \in 1 .. l /\ (m + 1) - 1 = m /\ s[m + 1] \in Nat BY <1>1
  <2>2. f[m] \in Seq(Nat) /\ g[m] \in Nat /\ Total(f[m]) <= g[m] BY <1>8, <2>1
  <2>3. g[m + 1] = g[m] + s[m + 1] BY <1>4, <2>1
  <2>4. f[m + 1] = IF m + 1 \in places THEN Append(f[m], s[m + 1]) ELSE f[m] BY <1>5, <2>1
  <2>5. Total(f[m]) \in Nat BY <2>2, TotalOfNats
  <2>6. CASE m + 1 \notin places BY <2>1, <2>2, <2>3, <2>4, <2>5, <2>6
  <2>7. CASE m + 1 \in places
    <3>1. f[m + 1] = Append(f[m], s[m + 1]) BY <2>4, <2>7
    <3>2. Total(f[m + 1]) = Total(f[m]) + s[m + 1]
      <4>1. f[m] \in Seq(Int) /\ s[m + 1] \in Int BY <2>1, <2>2
      <4> QED BY <3>1, <4>1, TotalAppend
    <3>3. f[m + 1] \in Seq(Nat) BY <2>1, <2>2, <3>1
    <3> QED BY <2>1, <2>2, <2>3, <2>5, <3>2, <3>3
  <2> QED BY <2>6, <2>7
<1> HIDE DEF N
<1>9. Nat \subseteq N BY <1>7, <1>8, SetInduction, Zenon
<1>10. l \in N BY <1>9
<1>11. f[l] \in Seq(Nat) /\ Total(f[l]) <= g[l] BY <1>10 DEF N
<1> QED BY <1>2, <1>3, <1>11, TotalOfNats
--------------------------------------------------------------------------------
(* Scores. *)

LEMMA QuotientWithin ==
  ASSUME NEW w \in Nat, w > 0, NEW c \in Nat, NEW a \in Int, 0 <= a, a <= c * w
  PROVE  a \div w \in 0 .. c
<1> DEFINE p == a \div w
<1>1. p \in Int /\ w * p <= a /\ a < w * p + w BY QuotientIs
<1> HIDE DEF p
<1>2. ASSUME p <= -1 PROVE FALSE
  <2>1. w * p <= w * (-1) BY <1>1, <1>2
  <2>2. w * p + w <= 0 BY <1>1, <2>1
  <2> QED BY <1>1, <2>2
<1>3. ASSUME p >= c + 1 PROVE FALSE
  <2>1. w * p >= w * (c + 1) BY <1>1, <1>3
  <2>2. w * (c + 1) = c * w + w OBVIOUS
  <2> QED BY <1>1, <2>1, <2>2
<1>4. p \in 0 .. c BY <1>1, <1>2, <1>3
<1> QED BY <1>4 DEF p

LEMMA MaxOfTwo == ASSUME NEW a \in Int, NEW b \in Int
                  PROVE  Max({a, b}) = IF a >= b THEN a ELSE b
<1> DEFINE m == IF a >= b THEN a ELSE b
<1>1. m \in {a, b} /\ \A y \in {a, b} : m >= y OBVIOUS
<1>2. \A x \in {a, b} : (\A y \in {a, b} : x >= y) => x = m OBVIOUS
<1> QED BY <1>1, <1>2 DEF Max

LEMMA MinOfTwo == ASSUME NEW a \in Int, NEW b \in Int
                  PROVE  Min({a, b}) = IF a <= b THEN a ELSE b
<1> DEFINE m == IF a <= b THEN a ELSE b
<1>1. m \in {a, b} /\ \A y \in {a, b} : m =< y OBVIOUS
<1>2. \A x \in {a, b} : (\A y \in {a, b} : x =< y) => x = m OBVIOUS
<1> QED BY <1>1, <1>2 DEF Min

\* _inverse_normalize() yields percents, and no less for a lower raw value.
LEMMA NormalIs ==
  ASSUME NEW D, IsFiniteSet(D), NEW raw \in [D -> Int]
  PROVE  /\ \A i \in D : InverseNormalize(raw)[i] \in 0 .. 100
         /\ \A i, j \in D : raw[i] <= raw[j] => InverseNormalize(raw)[i] >= InverseNormalize(raw)[j]
<1>1. CASE D = {} BY <1>1
<1>2. CASE D # {}
  <2> DEFINE values == Range(raw)
             low == Min(values)
             high == Max(values)
             percent(i) == IF low = high THEN 100 ELSE (100 * (high - raw[i])) \div (high - low)
  <2>1. \A i \in D : InverseNormalize(raw)[i] = percent(i) BY DEF InverseNormalize
  <2>2. values \in SUBSET Int /\ values # {} /\ \A i \in D : raw[i] \in values
    BY <1>2 DEF Range
  <2>3. raw \in Surjection(D, values) BY DEF Surjection, Range
  <2>4. IsFiniteSet(values) BY <2>3, FS_Surjection
  <2>5. low \in values /\ high \in values /\ \A y \in values : low <= y /\ high >= y
    <3> HIDE DEF values
    <3> QED BY <2>2, <2>4, FiniteIntsHaveEnds
  <2>6. low \in Int /\ high \in Int /\ \A i \in D : raw[i] \in Int /\ low <= raw[i] /\ raw[i] <= high
    BY <2>2, <2>5
  <2> HIDE DEF low, high, values
  <2>7. CASE low = high
    <3>1. \A i \in D : percent(i) = 100 BY <2>7
    <3> QED BY <2>1, <3>1
  <2>8. CASE low # high
    <3>1. low < high BY <1>2, <2>6, <2>8
    <3> DEFINE w == high - low
    <3>2. w \in Nat /\ w > 0 BY <2>6, <3>1
    <3>3. \A i \in D : percent(i) = (100 * (high - raw[i])) \div w BY <2>8
    <3>4. \A i \in D : 100 * (high - raw[i]) \in Int /\ 0 <= 100 * (high - raw[i])
                        /\ 100 * (high - raw[i]) <= 100 * w
      BY <2>6
    <3> HIDE DEF w, percent
    <3>5. ASSUME NEW i \in D PROVE percent(i) \in 0 .. 100
      <4>1. (100 * (high - raw[i])) \div w \in 0 .. 100
        BY <3>2, <3>4, QuotientWithin
      <4> QED BY <3>3, <4>1
    <3>6. ASSUME NEW i \in D, NEW j \in D, raw[i] <= raw[j] PROVE percent(i) >= percent(j)
      <4> DEFINE a == 100 * (high - raw[j])
                 b == 100 * (high - raw[i])
      <4>1. a \in Int /\ b \in Int /\ a <= b BY <2>6, <3>4, <3>6
      <4> HIDE DEF a, b
      <4>2. a \div w <= b \div w BY <3>2, <4>1, QuotientKeepsOrder
      <4>3. percent(i) = b \div w /\ percent(j) = a \div w BY <3>3 DEF a, b
      <4>4. percent(i) \in Int /\ percent(j) \in Int BY <3>5
      <4> QED BY <4>2, <4>3, <4>4
    <3> QED BY <2>1, <3>5, <3>6
  <2> QED BY <2>7, <2>8
<1> QED BY <1>1, <1>2

\* What is finite in a forecast.
LEMMA FiniteIs ==
  ASSUME NEW f \in Seq(Int \cup {NaN})
  PROVE  Finite(f) \in Seq(Int) /\ (IsFinite(f) => Finite(f) = f)
<1> DEFINE places == {i \in DOMAIN f : f[i] # NaN}
<1>1. places \in SUBSET (1 .. Len(f)) OBVIOUS
<1>2. Finite(f) = At(f, places) BY DEF Finite
<1>3. Finite(f) \in Seq(Int \cup {NaN}) /\ Range(Finite(f)) = {f[p] : p \in places}
  BY <1>1, <1>2, AtTakes, AtRange
<1>4. \A p \in places : f[p] \in Int OBVIOUS
<1>5. \A i \in 1 .. Len(Finite(f)) : Finite(f)[i] \in Int
  <2> SUFFICES ASSUME NEW i \in 1 .. Len(Finite(f)) PROVE Finite(f)[i] \in Int
    OBVIOUS
  <2>1. i \in DOMAIN Finite(f) BY <1>3
  <2>2. Finite(f)[i] \in Range(Finite(f)) BY <2>1 DEF Range
  <2> QED BY <1>3, <1>4, <2>2
<1>6. ASSUME IsFinite(f) PROVE Finite(f) = f
  <2>1. 1 .. Len(f) \subseteq places BY <1>6 DEF IsFinite, Range
  <2> HIDE DEF places
  <2> QED BY <1>2, <2>1, AtEverywhere
<1>7. Finite(f) \in Seq(Int) BY <1>3, <1>5
<1> QED BY <1>6, <1>7

LEMMA VarianceIs ==
  ASSUME NEW s \in Seq(Int), s # <<>>
  PROVE  /\ Total(s) \in Int /\ Variance(s) \in Int /\ RelativeVariance(s) \in Int
<1>1. PICK l \in Nat : l = Len(s) OBVIOUS
<1>2. l > 0 BY <1>1
<1>3. Total(s) \in Int BY TotalOfInts
<1> DEFINE squares == [i \in DOMAIN s |-> s[i] * s[i]]
<1>4. squares \in Seq(Int)
  <2>1. DOMAIN s = 1 .. l /\ \A i \in 1 .. l : s[i] * s[i] \in Int BY <1>1
  <2> QED BY <2>1
<1>5. Total(squares) \in Int BY <1>4, TotalOfInts
<1> HIDE DEF squares
<1>6. Spread(s) \in Int BY <1>1, <1>3, <1>5 DEF Spread, squares
<1>7. l * l \in Nat /\ l * l > 0 BY <1>2
<1>8. Variance(s) \in Int
  <2>1. 1000 * Spread(s) \in Int BY <1>6
  <2>2. (1000 * Spread(s)) \div (l * l) \in Int BY <1>7, <2>1, QuotientIs
  <2> QED BY <1>1, <2>2 DEF Variance
<1> DEFINE x == (Total(s) * Total(s)) \div l
           w == Max({1, x})
<1>9. x \in Int
  <2>1. Total(s) * Total(s) \in Int BY <1>3
  <2> QED BY <1>2, <2>1, QuotientIs
<1> HIDE DEF x
<1>10. w \in Nat /\ w > 0 BY <1>9, MaxOfTwo
<1> HIDE DEF w
<1>11. 100 * Variance(s) * l \in Int BY <1>8
<1>12. (100 * Variance(s) * l) \div w \in Int BY <1>10, <1>11, QuotientIs
<1>13. RelativeVariance(s) \in Int BY <1>1, <1>12 DEF RelativeVariance, w, x
<1> QED BY <1>3, <1>8, <1>13

LEMMA MeasuresAre ==
  ASSUME NEW f \in Seq(Int \cup {NaN})
  PROVE  Dispersion(f) \in Int /\ Jaggedness(f) \in Int
<1> DEFINE s == Finite(f)
<1>1. s \in Seq(Int) BY FiniteIs
<1> HIDE DEF s
<1>2. Total(s) \in Int BY <1>1, TotalOfInts
<1>3. Dispersion(f) \in Int
  <2>1. CASE s = <<>> BY <2>1 DEF Dispersion, s
  <2>2. CASE s # <<>>
    <3>1. Variance(s) \in Int /\ RelativeVariance(s) \in Int BY <1>1, <2>2, VarianceIs
    <3> QED BY <2>2, <3>1 DEF Dispersion, s
  <2> QED BY <2>1, <2>2
<1>4. Jaggedness(f) \in Int
  <2>1. PICK l \in Nat : l = Len(s) BY <1>1
  <2> DEFINE bends == [i \in 1 .. l - 2 |-> Abs(s[i + 2] - 2 * s[i + 1] + s[i])]
  <2>2. CASE l < 3
    <3>1. Len(s) < 3 BY <2>1, <2>2
    <3> QED BY <3>1 DEF Jaggedness, s
  <2>3. CASE l >= 3
    <3>1. l - 2 \in Nat /\ \A i \in 1 .. l - 2 : Abs(s[i + 2] - 2 * s[i + 1] + s[i]) \in Int
      <4>1. \A i \in 1 .. l : s[i] \in Int BY <1>1, <2>1
      <4>2. \A i \in 1 .. l - 2 : i + 2 \in 1 .. l /\ i + 1 \in 1 .. l /\ i \in 1 .. l BY <2>3
      <4> QED BY <2>3, <4>1, <4>2 DEF Abs
    <3>2. bends \in Seq(Int) BY <3>1
    <3>3. Total(bends) \in Int BY <3>2, TotalOfInts
    <3> HIDE DEF bends
    <3>4. ASSUME Total(s) # 0 PROVE (1000 * Total(bends)) \div Abs(Total(s)) \in Int
      <4>1. Abs(Total(s)) \in Nat /\ Abs(Total(s)) > 0 BY <1>2, <3>4 DEF Abs
      <4>2. 1000 * Total(bends) \in Int BY <3>3
      <4> QED BY <4>1, <4>2, QuotientIs
    <3>5. Jaggedness(f) = IF Total(s) = 0 THEN Total(bends) ELSE (1000 * Total(bends)) \div Abs(Total(s))
      BY <2>1, <2>3 DEF Jaggedness, s, bends
    <3> QED BY <3>3, <3>4, <3>5
  <2> QED BY <2>1, <2>2, <2>3
<1> QED BY <1>3, <1>4

LEMMA SurvivorsAre ==
  ASSUME evaluation \in Seq(Results)
  PROVE  /\ Survivors \in Seq(Results)
         /\ Range(Survivors) = {evaluation[i] : i \in {j \in DOMAIN evaluation : evaluation[j].status = "survived"}}
<1> DEFINE places == {j \in DOMAIN evaluation : evaluation[j].status = "survived"}
<1>1. places \in SUBSET (1 .. Len(evaluation)) OBVIOUS
<1>2. Survivors = At(evaluation, places) BY DEF Survivors
<1> HIDE DEF places
<1>3. At(evaluation, places) \in Seq(Results) BY <1>1, AtTakes
<1>4. Range(At(evaluation, places)) = {evaluation[i] : i \in places} BY <1>1, AtRange
<1> QED BY <1>2, <1>3, <1>4 DEF places

LEMMA ErrorsAre ==
  ASSUME NEW e \in Results
  PROVE  /\ \A m \in Metrics : e.errors[m] \in Nat \cup {None}
         /\ e.width \in Nat \cup {None}
         /\ e.forecast \in Seq(Int \cup {NaN})
         /\ None \in Int /\ None \notin Nat
<1>1. FoldErrors \subseteq [Metrics -> Nat \cup {None}] /\ Widths \subseteq Nat
  BY EvaluationAssumption
<1>2. e.errors \in FoldErrors \cup {NothingMeasured} /\ e.width \in Widths \cup {None}
      /\ e.forecast \in Seq(Int \cup {NaN})
  BY DEF Results
<1>3. e.errors \in [Metrics -> Nat \cup {None}] BY <1>1, <1>2 DEF NothingMeasured
<1>4. None \in Int /\ None \notin Nat BY DEF None
<1> QED BY <1>1, <1>2, <1>3, <1>4

LEMMA OverMetricsIs ==
  ASSUME NEW f, \A m \in Metrics : f[m] \in Nat
  PROVE  OverMetrics(f) \in Nat
<1>1. /\ f["mape"] \in Nat /\ f["wmape"] \in Nat /\ f["rmse"] \in Nat
      /\ f["mae"] \in Nat /\ f["smape"] \in Nat
  BY DEF Metrics
<1> QED BY <1>1 DEF OverMetrics

LEMMA OverMetricsKeepsOrder ==
  ASSUME NEW f, NEW g, NEW c \in Nat,
         \A m \in Metrics : f[m] \in Nat /\ g[m] \in Nat /\ f[m] <= c * g[m]
  PROVE  OverMetrics(f) <= c * OverMetrics(g)
<1>1. \A m \in {"mape", "wmape", "rmse", "mae", "smape"} :
         f[m] \in Nat /\ g[m] \in Nat /\ f[m] <= c * g[m]
  BY DEF Metrics
<1>2. f["mape"] \in Nat /\ g["mape"] \in Nat /\ f["mape"] <= c * g["mape"] BY <1>1
<1>3. f["wmape"] \in Nat /\ g["wmape"] \in Nat /\ f["wmape"] <= c * g["wmape"] BY <1>1
<1>4. f["rmse"] \in Nat /\ g["rmse"] \in Nat /\ f["rmse"] <= c * g["rmse"] BY <1>1
<1>5. f["mae"] \in Nat /\ g["mae"] \in Nat /\ f["mae"] <= c * g["mae"] BY <1>1
<1>6. f["smape"] \in Nat /\ g["smape"] \in Nat /\ f["smape"] <= c * g["smape"] BY <1>1
<1> QED BY <1>2, <1>3, <1>4, <1>5, <1>6 DEF OverMetrics

\* What _score_backtest() combines for one model.
Measured(m) == {j \in DOMAIN Survivors : Survivors[j].errors[m] # None}
NormalErrors(m) == InverseNormalize([j \in Measured(m) |-> Survivors[j].errors[m]])
MetricWeights(i) == [m \in Metrics |-> IF i \in Measured(m) THEN MetricWeight(m) ELSE 0]
MetricScores(i) ==
  [m \in Metrics |-> IF i \in Measured(m) THEN MetricWeights(i)[m] * NormalErrors(m)[i] ELSE 0]

LEMMA BacktestScoreIs ==
  ASSUME NEW i
  PROVE  BacktestScore(i) =
           IF OverMetrics(MetricWeights(i)) = 0 THEN 0
           ELSE (100 * OverMetrics(MetricScores(i))) \div OverMetrics(MetricWeights(i))
BY DEF BacktestScore, MetricScores, MetricWeights, NormalErrors, Measured

LEMMA PositionsAreFinite ==
  ASSUME NEW S, NEW s \in Seq(S), NEW D \in SUBSET DOMAIN s
  PROVE  IsFiniteSet(D)
<1>1. Len(s) \in Int /\ 1 \in Int /\ D \in SUBSET (1 .. Len(s)) OBVIOUS
<1>2. IsFiniteSet(1 .. Len(s)) BY <1>1, FS_Interval
<1> QED BY <1>1, <1>2, FS_Subset

LEMMA NormalErrorsAre ==
  ASSUME evaluation \in Seq(Results), NEW m \in Metrics
  PROVE  /\ \A i \in Measured(m) : NormalErrors(m)[i] \in 0 .. 100
         /\ \A i, j \in Measured(m) :
              Survivors[i].errors[m] <= Survivors[j].errors[m] => NormalErrors(m)[i] >= NormalErrors(m)[j]
<1> DEFINE raw == [j \in Measured(m) |-> Survivors[j].errors[m]]
<1>1. Survivors \in Seq(Results) BY SurvivorsAre
<1>2. Measured(m) \in SUBSET DOMAIN Survivors BY DEF Measured
<1>3. IsFiniteSet(Measured(m)) BY <1>1, <1>2, PositionsAreFinite
<1>4. \A j \in Measured(m) : Survivors[j].errors[m] \in Int
  <2> SUFFICES ASSUME NEW j \in Measured(m) PROVE Survivors[j].errors[m] \in Int
    OBVIOUS
  <2>1. Survivors[j] \in Results BY <1>1, <1>2
  <2>2. Survivors[j].errors[m] \in Nat \cup {None} BY <2>1, ErrorsAre
  <2> QED BY <2>1, <2>2, ErrorsAre
<1>5. raw \in [Measured(m) -> Int] BY <1>4
<1>6. \A j \in Measured(m) : raw[j] = Survivors[j].errors[m] OBVIOUS
<1>7. NormalErrors(m) = InverseNormalize(raw) BY DEF NormalErrors
<1> HIDE DEF raw
<1>8. /\ \A i \in Measured(m) : InverseNormalize(raw)[i] \in 0 .. 100
      /\ \A i, j \in Measured(m) : raw[i] <= raw[j] => InverseNormalize(raw)[i] >= InverseNormalize(raw)[j]
  BY <1>3, <1>5, NormalIs
<1> QED BY <1>6, <1>7, <1>8

LEMMA MetricWeightIs == \A m \in Metrics : MetricWeight(m) \in Nat
BY DEF MetricWeight

LEMMA MetricScoresAre ==
  ASSUME evaluation \in Seq(Results), NEW i, NEW m \in Metrics
  PROVE  /\ MetricWeights(i)[m] \in Nat
         /\ MetricScores(i)[m] \in Nat
         /\ MetricScores(i)[m] <= 100 * MetricWeights(i)[m]
<1>1. MetricWeights(i)[m] = IF i \in Measured(m) THEN MetricWeight(m) ELSE 0 BY DEF MetricWeights
<1>2. MetricScores(i)[m] = IF i \in Measured(m) THEN MetricWeights(i)[m] * NormalErrors(m)[i] ELSE 0
  BY DEF MetricScores
<1>3. MetricWeights(i)[m] \in Nat BY <1>1, MetricWeightIs
<1>4. CASE i \in Measured(m)
  <2> DEFINE w == MetricWeights(i)[m]
             p == NormalErrors(m)[i]
  <2>1. p \in 0 .. 100 BY <1>4, NormalErrorsAre
  <2>2. MetricScores(i)[m] = w * p BY <1>2, <1>4
  <2>3. w \in Nat BY <1>3
  <2> HIDE DEF w, p
  <2>4. w * p \in Nat /\ w * p <= 100 * w BY <2>1, <2>3
  <2> QED BY <2>2, <2>3, <2>4 DEF w
<1>5. CASE i \notin Measured(m) BY <1>1, <1>2, <1>5
<1> QED BY <1>4, <1>5

LEMMA FullScoreIs == FullScore \in Nat /\ FullScore = 100 * 100
BY SMT DEF FullScore

LEMMA ScoreIs == \A x \in 0 .. FullScore : x \in Nat /\ x <= 100 * 100
BY FullScoreIs

LEMMA BacktestScoreWithin ==
  ASSUME evaluation \in Seq(Results), NEW i
  PROVE  BacktestScore(i) \in 0 .. FullScore
<1> DEFINE w == OverMetrics(MetricWeights(i))
           x == OverMetrics(MetricScores(i))
<1>1. \A m \in Metrics : /\ MetricWeights(i)[m] \in Nat
                         /\ MetricScores(i)[m] \in Nat
                         /\ MetricScores(i)[m] <= 100 * MetricWeights(i)[m]
  BY MetricScoresAre
<1>2. w \in Nat /\ x \in Nat BY <1>1, OverMetricsIs
<1>3. x <= 100 * w
  <2>1. 100 \in Nat OBVIOUS
  <2> QED BY <1>1, <2>1, OverMetricsKeepsOrder
<1>4. BacktestScore(i) = IF w = 0 THEN 0 ELSE (100 * x) \div w BY BacktestScoreIs
<1> HIDE DEF w, x
<1>5. ASSUME w # 0 PROVE (100 * x) \div w \in 0 .. FullScore
  <2> DEFINE a == 100 * x
  <2>1. w > 0 /\ a \in Int /\ 0 <= a /\ a <= FullScore * w
    <3>1. a \in Int /\ 0 <= a BY <1>2
    <3>2. a <= (100 * 100) * w BY <1>2, <1>3
    <3>3. w > 0 BY <1>2, <1>5
    <3> QED BY <3>1, <3>2, <3>3, FullScoreIs
  <2> HIDE DEF a
  <2>2. FullScore \in Nat /\ w \in Nat BY <1>2, FullScoreIs
  <2>3. a \div w \in 0 .. FullScore BY <2>1, <2>2, QuotientWithin
  <2> QED BY <2>3 DEF a
<1>6. 0 \in 0 .. FullScore BY FullScoreIs
<1> DEFINE q == (100 * x) \div w
<1>7. (w # 0 => q \in 0 .. FullScore) /\ BacktestScore(i) = IF w = 0 THEN 0 ELSE q BY <1>4, <1>5
<1> HIDE DEF q
<1> QED BY <1>6, <1>7, Zenon

\* One model's backtest is no worse than another's in anything either measured.
NoWorseErrors(i, j) ==
  \A m \in Metrics :
    /\ Survivors[i].errors[m] <= Survivors[j].errors[m]
    /\ Survivors[i].errors[m] = None <=> Survivors[j].errors[m] = None

LEMMA BacktestKeepsOrder ==
  ASSUME evaluation \in Seq(Results), NEW i \in DOMAIN Survivors, NEW j \in DOMAIN Survivors,
         NoWorseErrors(i, j)
  PROVE  BacktestScore(i) >= BacktestScore(j)
<1>1. \A m \in Metrics : i \in Measured(m) <=> j \in Measured(m) BY DEF NoWorseErrors, Measured
<1>2. MetricWeights(i) = MetricWeights(j) BY <1>1 DEF MetricWeights
<1>3. \A m \in Metrics : MetricScores(j)[m] <= MetricScores(i)[m]
  <2> SUFFICES ASSUME NEW m \in Metrics PROVE MetricScores(j)[m] <= MetricScores(i)[m]
    OBVIOUS
  <2>1. /\ MetricScores(i)[m] = IF i \in Measured(m) THEN MetricWeights(i)[m] * NormalErrors(m)[i] ELSE 0
        /\ MetricScores(j)[m] = IF j \in Measured(m) THEN MetricWeights(j)[m] * NormalErrors(m)[j] ELSE 0
    BY DEF MetricScores
  <2>2. CASE i \in Measured(m)
    <3> DEFINE w == MetricWeights(i)[m]
               p == NormalErrors(m)[i]
               q == NormalErrors(m)[j]
    <3>1. j \in Measured(m) BY <1>1, <2>2
    <3>2. Survivors[i].errors[m] <= Survivors[j].errors[m] BY DEF NoWorseErrors
    <3>3. p \in 0 .. 100 /\ q \in 0 .. 100 /\ p >= q BY <2>2, <3>1, <3>2, NormalErrorsAre
    <3>4. w \in Nat BY MetricScoresAre
    <3>5. MetricScores(i)[m] = w * p /\ MetricScores(j)[m] = w * q BY <1>2, <2>1, <2>2, <3>1
    <3> HIDE DEF w, p, q
    <3>6. w * q <= w * p BY <3>3, <3>4
    <3> QED BY <3>5, <3>6
  <2>3. CASE i \notin Measured(m)
    <3>1. j \notin Measured(m) BY <1>1, <2>3
    <3> QED BY <2>1, <2>3, <3>1
  <2> QED BY <2>2, <2>3
<1> DEFINE w == OverMetrics(MetricWeights(i))
           x == OverMetrics(MetricScores(i))
           y == OverMetrics(MetricScores(j))
<1>4. \A m \in Metrics : MetricScores(i)[m] \in Nat /\ MetricScores(j)[m] \in Nat /\ MetricWeights(i)[m] \in Nat
  BY MetricScoresAre
<1>5. w \in Nat /\ x \in Nat /\ y \in Nat BY <1>4, OverMetricsIs
<1>6. y <= x
  <2>1. \A m \in Metrics : MetricScores(j)[m] <= 1 * MetricScores(i)[m] BY <1>3, <1>4
  <2>2. y <= 1 * x BY <1>4, <2>1, OverMetricsKeepsOrder
  <2> QED BY <1>5, <2>2
<1>7. /\ BacktestScore(i) = IF w = 0 THEN 0 ELSE (100 * x) \div w
      /\ BacktestScore(j) = IF w = 0 THEN 0 ELSE (100 * y) \div w
  <2>1. BacktestScore(i) = IF w = 0 THEN 0 ELSE (100 * x) \div w BY BacktestScoreIs
  <2>2. BacktestScore(j) = IF OverMetrics(MetricWeights(j)) = 0 THEN 0
                           ELSE (100 * y) \div OverMetrics(MetricWeights(j)) BY BacktestScoreIs
  <2> QED BY <1>2, <2>1, <2>2
<1> HIDE DEF w, x, y
<1>8. CASE w = 0
  <2>1. BacktestScore(i) = 0 /\ BacktestScore(j) = 0 BY <1>7, <1>8
  <2> QED BY <2>1
<1>9. CASE w # 0
  <2>1. w > 0 /\ 100 * x \in Int /\ 100 * y \in Int /\ 100 * y <= 100 * x BY <1>5, <1>6, <1>9
  <2>2. (100 * y) \div w <= (100 * x) \div w BY <1>5, <2>1, QuotientKeepsOrder
  <2>3. BacktestScore(i) \in 0 .. FullScore /\ BacktestScore(j) \in 0 .. FullScore
    BY BacktestScoreWithin
  <2>4. BacktestScore(i) \in Int /\ BacktestScore(j) \in Int BY <2>3, ScoreIs
  <2> QED BY <1>7, <1>9, <2>2, <2>4
<1> QED BY <1>8, <1>9

\* What score_group() combines for one model.
Dispersions == [j \in DOMAIN Survivors |-> Dispersion(Survivors[j].forecast)]
Jaggednesses == [j \in DOMAIN Survivors |-> Jaggedness(Survivors[j].forecast)]
Widened == {j \in DOMAIN Survivors : Survivors[j].width # None}
IntervalWidth == [j \in Widened |-> Survivors[j].width]
IntervalScore(i) == IF i \in Widened THEN InverseNormalize(IntervalWidth)[i] ELSE 50

LEMMA StabilityScoreIs ==
  ASSUME NEW i
  PROVE  StabilityScore(i) = 40 * InverseNormalize(Dispersions)[i]
                             + 35 * InverseNormalize(Jaggednesses)[i] + 25 * IntervalScore(i)
BY DEF StabilityScore, Dispersions, Jaggednesses, IntervalScore, IntervalWidth, Widened

LEMMA StabilityPartsAre ==
  ASSUME evaluation \in Seq(Results)
  PROVE  /\ Dispersions \in [DOMAIN Survivors -> Int]
         /\ Jaggednesses \in [DOMAIN Survivors -> Int]
         /\ IntervalWidth \in [Widened -> Int]
         /\ IsFiniteSet(DOMAIN Survivors) /\ IsFiniteSet(Widened)
<1>1. Survivors \in Seq(Results) BY SurvivorsAre
<1>2. \A j \in DOMAIN Survivors : Survivors[j] \in Results BY <1>1
<1>3. \A j \in DOMAIN Survivors : Survivors[j].forecast \in Seq(Int \cup {NaN}) BY <1>2, ErrorsAre
<1>4. \A j \in DOMAIN Survivors :
         Dispersion(Survivors[j].forecast) \in Int /\ Jaggedness(Survivors[j].forecast) \in Int
  BY <1>3, MeasuresAre
<1>5. \A j \in DOMAIN Survivors : Survivors[j].width \in Int
  <2> SUFFICES ASSUME NEW j \in DOMAIN Survivors PROVE Survivors[j].width \in Int
    OBVIOUS
  <2>1. Survivors[j].width \in Nat \cup {None} /\ None \in Int BY <1>2, ErrorsAre
  <2> QED BY <2>1
<1>6. Widened \in SUBSET DOMAIN Survivors BY DEF Widened
<1>7. IsFiniteSet(DOMAIN Survivors) /\ IsFiniteSet(Widened) BY <1>1, <1>6, PositionsAreFinite
<1>8. IntervalWidth \in [Widened -> Int] BY <1>5, <1>6 DEF IntervalWidth
<1> QED BY <1>4, <1>7, <1>8 DEF Dispersions, Jaggednesses

LEMMA StabilityWithin ==
  ASSUME evaluation \in Seq(Results), NEW i \in DOMAIN Survivors
  PROVE  /\ StabilityScore(i) \in 0 .. FullScore
         /\ InverseNormalize(Dispersions)[i] \in 0 .. 100
         /\ InverseNormalize(Jaggednesses)[i] \in 0 .. 100
         /\ IntervalScore(i) \in 0 .. 100
<1>1. InverseNormalize(Dispersions)[i] \in 0 .. 100 BY StabilityPartsAre, NormalIs
<1>2. InverseNormalize(Jaggednesses)[i] \in 0 .. 100 BY StabilityPartsAre, NormalIs
<1>3. IntervalScore(i) \in 0 .. 100
  <2>1. CASE i \in Widened
    <3>1. InverseNormalize(IntervalWidth)[i] \in 0 .. 100 BY <2>1, StabilityPartsAre, NormalIs
    <3> QED BY <2>1, <3>1 DEF IntervalScore
  <2>2. CASE i \notin Widened BY <2>2 DEF IntervalScore
  <2> QED BY <2>1, <2>2
<1>4. ASSUME NEW a \in 0 .. 100, NEW b \in 0 .. 100, NEW c \in 0 .. 100
      PROVE  40 * a + 35 * b + 25 * c \in 0 .. FullScore
  BY FullScoreIs
<1>5. 40 * InverseNormalize(Dispersions)[i] + 35 * InverseNormalize(Jaggednesses)[i]
        + 25 * IntervalScore(i) \in 0 .. FullScore
  BY <1>1, <1>2, <1>3, <1>4
<1> QED BY <1>1, <1>2, <1>3, <1>5, StabilityScoreIs

\* One model's forecast is no rougher than another's, and no wider where both have
\* intervals or neither.
NoRougher(i, j) ==
  /\ Survivors[i].width <= Survivors[j].width
  /\ Survivors[i].width = None <=> Survivors[j].width = None
  /\ Dispersion(Survivors[i].forecast) <= Dispersion(Survivors[j].forecast)
  /\ Jaggedness(Survivors[i].forecast) <= Jaggedness(Survivors[j].forecast)

LEMMA StabilityKeepsOrder ==
  ASSUME evaluation \in Seq(Results), NEW i \in DOMAIN Survivors, NEW j \in DOMAIN Survivors,
         NoRougher(i, j)
  PROVE  StabilityScore(i) >= StabilityScore(j)
<1>1. InverseNormalize(Dispersions)[i] >= InverseNormalize(Dispersions)[j]
  <2>1. Dispersions[i] <= Dispersions[j] BY DEF Dispersions, NoRougher
  <2> QED BY <2>1, StabilityPartsAre, NormalIs
<1>2. InverseNormalize(Jaggednesses)[i] >= InverseNormalize(Jaggednesses)[j]
  <2>1. Jaggednesses[i] <= Jaggednesses[j] BY DEF Jaggednesses, NoRougher
  <2> QED BY <2>1, StabilityPartsAre, NormalIs
<1>3. IntervalScore(i) >= IntervalScore(j)
  <2>1. i \in Widened <=> j \in Widened BY DEF Widened, NoRougher
  <2>2. CASE i \in Widened
    <3>1. IntervalWidth[i] <= IntervalWidth[j] BY <2>1, <2>2 DEF IntervalWidth, NoRougher
    <3>2. InverseNormalize(IntervalWidth)[i] >= InverseNormalize(IntervalWidth)[j]
      BY <2>1, <2>2, <3>1, StabilityPartsAre, NormalIs
    <3> QED BY <2>1, <2>2, <3>2 DEF IntervalScore
  <2>3. CASE i \notin Widened BY <2>1, <2>3 DEF IntervalScore
  <2> QED BY <2>2, <2>3
<1>4. ASSUME NEW a \in 0 .. 100, NEW b \in 0 .. 100, NEW c \in 0 .. 100,
             NEW d \in 0 .. 100, NEW e \in 0 .. 100, NEW f \in 0 .. 100, a >= d, b >= e, c >= f
      PROVE  40 * a + 35 * b + 25 * c >= 40 * d + 35 * e + 25 * f
  BY <1>4
<1>5. /\ StabilityScore(i) = 40 * InverseNormalize(Dispersions)[i]
                             + 35 * InverseNormalize(Jaggednesses)[i] + 25 * IntervalScore(i)
      /\ StabilityScore(j) = 40 * InverseNormalize(Dispersions)[j]
                             + 35 * InverseNormalize(Jaggednesses)[j] + 25 * IntervalScore(j)
  BY StabilityScoreIs
<1>6. /\ InverseNormalize(Dispersions)[i] \in 0 .. 100 /\ InverseNormalize(Dispersions)[j] \in 0 .. 100
      /\ InverseNormalize(Jaggednesses)[i] \in 0 .. 100 /\ InverseNormalize(Jaggednesses)[j] \in 0 .. 100
      /\ IntervalScore(i) \in 0 .. 100 /\ IntervalScore(j) \in 0 .. 100
  BY StabilityWithin
<1>7. 40 * InverseNormalize(Dispersions)[i] + 35 * InverseNormalize(Jaggednesses)[i]
        + 25 * IntervalScore(i)
      >= 40 * InverseNormalize(Dispersions)[j] + 35 * InverseNormalize(Jaggednesses)[j]
           + 25 * IntervalScore(j)
  BY <1>1, <1>2, <1>3, <1>4, <1>6
<1> QED BY <1>5, <1>7

\* The scores of one key's models: what was explained and evaluated is typed.
ScoresReady ==
  /\ evaluation \in Seq(Results)
  /\ explanations \in Seq(Explanations)
  /\ Len(explanations) = Len(Survivors)

LEMMA RankOneIs ==
  ASSUME ScoresReady, NEW i \in DOMAIN Survivors
  PROVE  RankOne(i) \in Ranked
<1>1. Survivors \in Seq(Results) /\ explanations \in Seq(Explanations) /\ DOMAIN explanations = DOMAIN Survivors
  BY SurvivorsAre DEF ScoresReady
<1>2. BacktestScore(i) \in 0 .. FullScore BY BacktestScoreWithin DEF ScoresReady
<1>3. StabilityScore(i) \in 0 .. FullScore BY StabilityWithin DEF ScoresReady
<1>4. explanations[i].score \in 0 .. 100
  <2>1. explanations[i] \in Explanations BY <1>1
  <2> QED BY <2>1 DEF Explanations
<1>5. Survivors[i].model \in Names /\ Survivors[i].forecast \in Seq(Int \cup {NaN})
  <2>1. Survivors[i] \in Results BY <1>1
  <2> QED BY <2>1 DEF Results
<1> DEFINE b == BacktestScore(i)
           s == StabilityScore(i)
           h == 100 * explanations[i].score
<1>6. b \in 0 .. FullScore /\ s \in 0 .. FullScore /\ h \in 0 .. FullScore
  <2>1. h \in 0 .. FullScore
    <3> DEFINE e == explanations[i].score
    <3>1. e \in 0 .. 100 BY <1>4
    <3> HIDE DEF e
    <3>2. 100 * e \in 0 .. 100 * 100 BY <3>1
    <3> QED BY <3>2, FullScoreIs DEF e
  <2> QED BY <1>2, <1>3, <2>1
<1>7. RankOne(i) = [model |-> Survivors[i].model, backtest |-> b, stability |-> s, shap |-> h,
                    composite |-> (50 * b + 25 * s + 25 * h) \div 100,
                    forecast |-> Survivors[i].forecast]
  BY DEF RankOne
<1> HIDE DEF b, s, h
<1>8. (50 * b + 25 * s + 25 * h) \div 100 \in 0 .. FullScore
  <2>1. FullScore \in Nat /\ 100 \in Nat /\ 100 > 0 BY FullScoreIs
  <2>2. /\ b \in Nat /\ s \in Nat /\ h \in Nat
        /\ b <= FullScore /\ s <= FullScore /\ h <= FullScore
    BY <1>6, <2>1
  <2>3. /\ 50 * b + 25 * s + 25 * h \in Int /\ 0 <= 50 * b + 25 * s + 25 * h
        /\ 50 * b + 25 * s + 25 * h <= FullScore * 100
    BY <2>1, <2>2
  <2> QED BY <2>1, <2>3, QuotientWithin
<1> QED BY <1>5, <1>6, <1>7, <1>8 DEF Ranked

LEMMA CompositeKeepsOrder ==
  ASSUME ScoresReady, NEW i \in DOMAIN Survivors, NEW j \in DOMAIN Survivors,
         NoWorseErrors(i, j), NoRougher(i, j), RankOne(i).shap >= RankOne(j).shap
  PROVE  RankOne(i).composite >= RankOne(j).composite
<1> DEFINE a == RankOne(i)
           b == RankOne(j)
           x == 50 * a.backtest + 25 * a.stability + 25 * a.shap
           y == 50 * b.backtest + 25 * b.stability + 25 * b.shap
<1>1. a \in Ranked /\ b \in Ranked BY RankOneIs
<1>2. a.backtest = BacktestScore(i) /\ b.backtest = BacktestScore(j)
      /\ a.stability = StabilityScore(i) /\ b.stability = StabilityScore(j)
  BY DEF RankOne
<1>3. a.backtest >= b.backtest /\ a.stability >= b.stability
  BY <1>2, BacktestKeepsOrder, StabilityKeepsOrder DEF ScoresReady
<1>4. a.composite = x \div 100 /\ b.composite = y \div 100 BY DEF RankOne
<1>5. a.shap >= b.shap OBVIOUS
<1> HIDE DEF a, b
<1>6. /\ a.backtest \in Nat /\ a.stability \in Nat /\ a.shap \in Nat /\ a.composite \in Nat
      /\ b.backtest \in Nat /\ b.stability \in Nat /\ b.shap \in Nat /\ b.composite \in Nat
  BY <1>1, ScoreIs DEF Ranked
<1>7. x \in Int /\ y \in Int /\ y <= x /\ 100 \in Nat /\ 100 > 0 BY <1>3, <1>5, <1>6
<1> HIDE DEF x, y
<1>8. y \div 100 <= x \div 100 BY <1>7, QuotientKeepsOrder
<1>9. a.composite >= b.composite BY <1>4, <1>6, <1>8
<1> QED BY <1>9 DEF a, b
--------------------------------------------------------------------------------
(* The ranking. *)

Ranks == [i \in DOMAIN Survivors |-> RankOne(i)]
Composites == [i \in DOMAIN Survivors |-> RankOne(i).composite]
AheadOf == [i \in DOMAIN Survivors |-> Ahead(Composites, i)]
Place(r) == CHOOSE i \in DOMAIN Survivors : Cardinality(AheadOf[i]) = r - 1

LEMMA RankingIs ==
  Ranking = [r \in DOMAIN Survivors |-> Ranks[Place(r)]]
<1> DEFINE all == Ranks
           scores == [i \in DOMAIN all |-> all[i].composite]
           place(r) == CHOOSE i \in DOMAIN all : Cardinality(Ahead(scores, i)) = r - 1
<1>1. scores = Composites BY DEF Composites, Ranks
<1>2. DOMAIN all = DOMAIN Survivors BY DEF Ranks
<1>3. \A i \in DOMAIN Survivors : Ahead(scores, i) = AheadOf[i] BY <1>1 DEF AheadOf
<1>4. \A r : place(r) = Place(r) BY <1>2, <1>3 DEF Place
<1>5. Ranking = [r \in DOMAIN all |-> all[place(r)]] BY DEF Ranking, Ranks
<1> HIDE DEF place
<1>6. Ranking = [r \in DOMAIN Survivors |-> all[Place(r)]] BY <1>2, <1>4, <1>5
<1> QED BY <1>6

\* Every position among the survivors has one in the ranking, and the ranking goes
\* from the highest composite score to the lowest.
LEMMA RankingIsAPermutation ==
  ASSUME ScoresReady
  PROVE  /\ Ranking \in Seq(Ranked) /\ Len(Ranking) = Len(Survivors)
         /\ \A r \in DOMAIN Ranking : Place(r) \in DOMAIN Survivors /\ Ranking[r] = RankOne(Place(r))
         /\ \A i \in DOMAIN Survivors : \E r \in DOMAIN Ranking : Place(r) = i
         /\ \A q, r \in DOMAIN Ranking :
              Ranking[q].composite > Ranking[r].composite => q < r
<1>1. PICK m \in Nat : m = Len(Survivors)
  <2>1. Survivors \in Seq(Results) BY SurvivorsAre DEF ScoresReady
  <2> QED BY <2>1
<1>2. DOMAIN Survivors = 1 .. m
  <2>1. Survivors \in Seq(Results) BY SurvivorsAre DEF ScoresReady
  <2> QED BY <1>1, <2>1
<1>3. \A i \in 1 .. m : Composites[i] \in Int /\ Composites[i] = RankOne(i).composite /\ RankOne(i) \in Ranked
  <2> SUFFICES ASSUME NEW i \in 1 .. m
               PROVE  Composites[i] \in Int /\ Composites[i] = RankOne(i).composite /\ RankOne(i) \in Ranked
    OBVIOUS
  <2>1. RankOne(i) \in Ranked BY <1>2, RankOneIs
  <2>2. RankOne(i).composite \in Int BY <2>1, ScoreIs DEF Ranked
  <2> QED BY <1>2, <2>1, <2>2 DEF Composites
<1> DEFINE c == Composites
           before == AheadOf
<1>4. DOMAIN c = 1 .. m BY <1>2 DEF Composites
<1>5. /\ DOMAIN before = 1 .. m
      /\ \A i \in 1 .. m : before[i] = {j \in 1 .. m : c[j] > c[i] \/ (c[j] = c[i] /\ j < i)}
  BY <1>2, <1>4 DEF AheadOf, Ahead
<1>6. before \in [1 .. m -> SUBSET (1 .. m)] BY <1>2, <1>4 DEF AheadOf, Ahead
<1>7. \A i \in 1 .. m : c[i] \in Int BY <1>3
<1> HIDE DEF c, before
<1>8. Orders(before, m)
  <2>1. \A i \in 1 .. m : i \notin before[i] BY <1>5, <1>7
  <2>2. \A i, j \in 1 .. m : i # j => i \in before[j] \/ j \in before[i] BY <1>5, <1>7
  <2>3. \A i, j, k \in 1 .. m : j \in before[i] /\ k \in before[j] => k \in before[i]
    BY <1>5, <1>7
  <2> QED BY <1>6, <2>1, <2>2, <2>3 DEF Orders
<1>9. /\ \A i \in 1 .. m : Cardinality(before[i]) \in 0 .. m - 1
      /\ \A i, j \in 1 .. m : j \in before[i] => Cardinality(before[j]) < Cardinality(before[i])
      /\ \A r \in 1 .. m : \E i \in 1 .. m : Cardinality(before[i]) = r - 1
  <2>1. EachHasARank(before, m) BY <1>8, RanksAreTaken
  <2> QED BY <2>1 DEF EachHasARank
<1>10. ASSUME NEW r \in 1 .. m PROVE Place(r) \in 1 .. m /\ Cardinality(before[Place(r)]) = r - 1
  BY <1>2, <1>9 DEF Place, before
<1>11. Ranking = [r \in 1 .. m |-> Ranks[Place(r)]] BY <1>2, RankingIs
<1>12. \A r \in 1 .. m : Ranking[r] = RankOne(Place(r)) /\ Ranking[r] \in Ranked
  BY <1>2, <1>3, <1>10, <1>11 DEF Ranks
<1>13. Ranking \in Seq(Ranked) /\ DOMAIN Ranking = 1 .. m /\ Len(Ranking) = m
  <2>1. DOMAIN Ranking = 1 .. m BY <1>11
  <2> QED BY <1>11, <1>12, <2>1
<1>14. ASSUME NEW i \in 1 .. m PROVE \E r \in 1 .. m : Place(r) = i
  <2> DEFINE r == Cardinality(before[i]) + 1
  <2>1. r \in 1 .. m /\ r - 1 = Cardinality(before[i]) BY <1>9
  <2> HIDE DEF r
  <2>2. Cardinality(before[Place(r)]) = Cardinality(before[i]) /\ Place(r) \in 1 .. m BY <1>10, <2>1
  <2>3. ASSUME Place(r) # i PROVE FALSE
    <3> DEFINE j == Place(r)
    <3>1. j \in 1 .. m /\ j # i /\ Cardinality(before[j]) = Cardinality(before[i]) BY <2>2, <2>3
    <3> HIDE DEF j
    <3>2. Cardinality(before[i]) \in Int /\ Cardinality(before[j]) \in Int BY <1>9, <3>1
    <3>3. j \in before[i] \/ i \in before[j] BY <1>8, <3>1 DEF Orders
    <3>4. Cardinality(before[j]) < Cardinality(before[i]) \/ Cardinality(before[i]) < Cardinality(before[j])
      BY <1>9, <3>1, <3>3
    <3> QED BY <3>1, <3>2, <3>4
  <2> QED BY <2>1, <2>3
<1>15. ASSUME NEW q \in 1 .. m, NEW r \in 1 .. m, Ranking[q].composite > Ranking[r].composite PROVE q < r
  <2> DEFINE i == Place(q)
             j == Place(r)
  <2>1. /\ i \in 1 .. m /\ j \in 1 .. m
        /\ Cardinality(before[i]) = q - 1 /\ Cardinality(before[j]) = r - 1
    BY <1>10
  <2>2. Ranking[q] = RankOne(i) /\ Ranking[r] = RankOne(j) BY <1>12
  <2> HIDE DEF i, j
  <2>3. c[i] > c[j] BY <1>3, <1>15, <2>1, <2>2 DEF c
  <2>4. i \in before[j] BY <1>5, <2>1, <2>3
  <2>5. q - 1 < r - 1 BY <1>9, <2>1, <2>4
  <2> QED BY <2>5
<1> QED BY <1>1, <1>2, <1>12, <1>10, <1>13, <1>14, <1>15
--------------------------------------------------------------------------------
(* What preparation makes of an upload. *)

LEMMA SeqIs ==
  ASSUME NEW S, NEW s \in Seq(S)
  PROVE  Len(s) \in Nat /\ DOMAIN s = 1 .. Len(s) /\ \A i \in 1 .. Len(s) : s[i] \in S
OBVIOUS

LEMMA SeqRetyped ==
  ASSUME NEW S, NEW s \in Seq(S), NEW T, \A i \in 1 .. Len(s) : s[i] \in T
  PROVE  s \in Seq(T)
OBVIOUS

LEMMA AtOf ==
  ASSUME NEW S, NEW s \in Seq(S), NEW places \in SUBSET (1 .. Len(s)), NEW T,
         \A p \in places : s[p] \in T
  PROVE  At(s, places) \in Seq(T)
<1> DEFINE r == At(s, places)
<1>1. r \in Seq(S) BY AtTakes
<1>2. Range(r) = {s[p] : p \in places} BY AtRange
<1> HIDE DEF r
<1>3. \A i \in 1 .. Len(r) : r[i] \in T
  <2> SUFFICES ASSUME NEW i \in 1 .. Len(r) PROVE r[i] \in T
    OBVIOUS
  <2>1. i \in DOMAIN r BY <1>1
  <2>2. r[i] \in Range(r) BY <2>1 DEF Range
  <2> QED BY <1>2, <2>2
<1>4. r \in Seq(T) BY <1>1, <1>3
<1> QED BY <1>4 DEF r

Keys(u) == {r.key : r \in Range(u.rows)}
AnyRows == [key: Nat \cup {Null}, date: Unreadable .. LastDay - 1, target: Cells]
RawRows(u) == [key: Keys(u), date: Unreadable .. LastDay - 1, target: Cells]
MonthRows(u) == [key: Keys(u), date: 0 .. LastDay - 1, target: Nat]
DatedRows(u) == [key: Keys(u), date: Null .. LastDay - 1, target: Cells]
PreparedRows(u) == [key: Keys(u), date: Null .. LastDay - 1, target: Nat]

LEMMA CellsAre ==
  /\ Cells = Nat \cup {-1, -2}
  /\ Null = -1 /\ Unreadable = -2
  /\ \A c \in Cells : c \in Int /\ (c >= 0 => c \in Nat)
<1>1. Cells = Nat \cup {-1, -2} BY DEF Cells, Null, Unreadable
<1> QED BY <1>1 DEF Null, Unreadable

LEMMA DatesAre ==
  /\ LastDay \in Nat
  /\ \A d \in Unreadable .. LastDay - 1 :
       /\ d \in Int
       /\ d # Unreadable => d \in Null .. LastDay - 1
       /\ d >= 0 => d \in 0 .. LastDay - 1
  /\ \A d \in Null .. LastDay - 1 : d \in Int /\ (d # Null => d \in 0 .. LastDay - 1)
  /\ \A d \in 0 .. LastDay - 1 : d \in Nat /\ d \in Null .. LastDay - 1
<1>1. LastDay \in Nat BY SMT DEF LastDay
<1> QED BY <1>1 DEF Null, Unreadable

LEMMA UploadIs ==
  ASSUME NEW u \in Range(Uploads)
  PROVE  /\ u.rows \in Seq(RawRows(u))
         /\ u.horizon \in Nat \ {0} /\ u.method \in {"sum", "mean", "last"}
         /\ u.features \in BOOLEAN /\ u.correlated \in SUBSET STRING
         /\ Keys(u) \subseteq Nat \cup {Null}
         /\ u.dates = "datetime" => \A i \in 1 .. Len(u.rows) : u.rows[i].date # Unreadable
<1>1. /\ {u.readable, u.keyed, u.columns, u.cloud, u.stored, u.features} \subseteq BOOLEAN
      /\ u.method \in {"sum", "mean", "last"} /\ u.horizon \in Nat \ {0}
      /\ u.rows \in Seq(AnyRows)
      /\ u.correlated \in SUBSET STRING
      /\ u.dates = "datetime" => \A r \in Range(u.rows) : r.date # Unreadable
  BY UploadsAssumption DEF AnyRows
<1>2. \A i \in 1 .. Len(u.rows) : u.rows[i] \in Range(u.rows) BY <1>1 DEF Range
<1>3. \A i \in 1 .. Len(u.rows) : u.rows[i] \in AnyRows BY <1>1, SeqIs
<1>4. \A i \in 1 .. Len(u.rows) : u.rows[i].key \in Keys(u) BY <1>2 DEF Keys
<1>5. \A i \in 1 .. Len(u.rows) : u.rows[i] \in RawRows(u) BY <1>3, <1>4 DEF AnyRows, RawRows
<1>6. u.rows \in Seq(RawRows(u)) BY <1>1, <1>5, SeqRetyped
<1>7. Keys(u) \subseteq Nat \cup {Null}
  <2> SUFFICES ASSUME NEW r \in Range(u.rows) PROVE r.key \in Nat \cup {Null}
    BY DEF Keys
  <2>1. PICK i \in 1 .. Len(u.rows) : r = u.rows[i] BY <1>1 DEF Range
  <2> QED BY <1>3, <2>1 DEF AnyRows
<1> QED BY <1>1, <1>2, <1>6, <1>7

LEMMA DatedIs ==
  ASSUME NEW u \in Range(Uploads)
  PROVE  Dated(u) \in Seq(DatedRows(u))
<1> DEFINE rows == u.rows
<1>1. rows \in Seq(RawRows(u)) BY UploadIs
<1>2a. \A i \in 1 .. Len(rows) : rows[i] \in RawRows(u) BY <1>1, SeqIs
<1>2. CASE u.dates = "datetime"
  <2>1. \A i \in 1 .. Len(rows) : rows[i].date # Unreadable BY <1>2, UploadIs
  <2> HIDE DEF rows
  <2>2. \A i \in 1 .. Len(rows) : rows[i] \in DatedRows(u)
    BY <1>2a, <2>1, CellsAre, DatesAre DEF DatedRows, RawRows
  <2>3. rows \in Seq(DatedRows(u)) BY <1>1, <2>2, SeqRetyped
  <2> QED BY <1>2, <2>3 DEF Dated, rows
<1>3. CASE u.dates # "datetime"
  <2> DEFINE places == {i \in DOMAIN rows : rows[i].date >= 0}
  <2>1. Dated(u) = At(rows, places) BY <1>3 DEF Dated
  <2> HIDE DEF rows
  <2>2. places \in SUBSET (1 .. Len(rows)) BY <1>1
  <2>3. \A p \in places : rows[p] \in DatedRows(u)
    BY <1>2a, <2>2, CellsAre, DatesAre DEF DatedRows, RawRows
  <2> HIDE DEF places
  <2> QED BY <1>1, <2>1, <2>2, <2>3, AtOf
<1> QED BY <1>2, <1>3

LEMMA CleanIs ==
  ASSUME NEW u \in Range(Uploads)
  PROVE  Clean(u) \in Seq(PreparedRows(u))
<1> DEFINE d == Dated(u)
           e == Distinct(d)
           firsts == Firsts(d)
           places == {i \in DOMAIN e : e[i].target >= 0}
<1>1. d \in Seq(DatedRows(u)) BY DatedIs
<1> HIDE DEF d
<1>2. firsts \in SUBSET (1 .. Len(d)) BY <1>1 DEF Firsts
<1>3. e = At(d, firsts) BY DEF Distinct
<1> HIDE DEF firsts, e
<1>4. e \in Seq(DatedRows(u)) BY <1>1, <1>2, <1>3, AtTakes
<1>5. Clean(u) = At(e, places) BY DEF Clean, WithTarget, e, d
<1>6. places \in SUBSET (1 .. Len(e)) BY <1>4
<1>7. \A p \in places : e[p] \in PreparedRows(u)
  <2>1. \A p \in 1 .. Len(e) : e[p] \in DatedRows(u) BY <1>4, SeqIs
  <2> QED BY <1>6, <2>1, CellsAre DEF DatedRows, PreparedRows
<1> HIDE DEF places
<1> QED BY <1>4, <1>5, <1>6, <1>7, AtOf

LEMMA ColumnIs ==
  ASSUME NEW S, NEW s \in Seq(S), NEW field
  PROVE  /\ Column(s, field) \in Seq({s[i][field] : i \in 1 .. Len(s)})
         /\ Len(Column(s, field)) = Len(s)
         /\ \A i \in 1 .. Len(s) : Column(s, field)[i] = s[i][field]
<1>1. DOMAIN s = 1 .. Len(s) /\ Len(s) \in Nat OBVIOUS
<1>2. Column(s, field) = [i \in 1 .. Len(s) |-> s[i][field]] BY <1>1 DEF Column
<1> QED BY <1>1, <1>2

LEMMA TargetsAre ==
  ASSUME NEW S, NEW s \in Seq(S), \A x \in S : x.target \in Nat
  PROVE  /\ Column(s, "target") \in Seq(Nat) /\ Len(Column(s, "target")) = Len(s)
         /\ \A i \in 1 .. Len(s) : Column(s, "target")[i] = s[i].target
<1> DEFINE c == Column(s, "target")
           all == {s[i]["target"] : i \in 1 .. Len(s)}
<1>1. c \in Seq(all) /\ Len(c) = Len(s) /\ \A i \in 1 .. Len(s) : c[i] = s[i].target
  <2>1. c \in Seq(all) /\ Len(c) = Len(s) /\ \A i \in 1 .. Len(s) : c[i] = s[i]["target"]
    BY ColumnIs
  <2> QED BY <2>1
<1> HIDE DEF c, all
<1>2. \A i \in 1 .. Len(c) : c[i] \in Nat BY <1>1, SeqIs
<1>3. c \in Seq(Nat) BY <1>1, <1>2, SeqRetyped
<1> QED BY <1>1, <1>3 DEF c

\* The months of a key, and what each is worth.
DatedOnly(rows) == At(rows, {i \in DOMAIN rows : rows[i].key # Null /\ rows[i].date # Null})
MonthCells(dated) == [i \in DOMAIN dated |-> <<dated[i].key, MonthStart(dated[i].date)>>]
OfMonth(dated, c) ==
  Column(At(dated, {i \in DOMAIN MonthCells(dated) : MonthCells(dated)[i] = c}), "target")
MonthValue(s, method) ==
  CASE method = "sum" -> Total(s)
    [] method = "mean" -> Total(s) \div Len(s)
    [] OTHER -> s[Len(s)]
Months(dated) == At(MonthCells(dated), Firsts(MonthCells(dated)))

LEMMA MonthlyIs ==
  ASSUME NEW rows, NEW method
  PROVE  Monthly(rows, method) =
           [i \in DOMAIN Months(DatedOnly(rows)) |->
              [key |-> Months(DatedOnly(rows))[i][1], date |-> Months(DatedOnly(rows))[i][2],
               target |-> MonthValue(OfMonth(DatedOnly(rows), Months(DatedOnly(rows))[i]), method)]]
BY DEF Monthly, Months, MonthValue, OfMonth, MonthCells, DatedOnly

LEMMA MonthValueIs ==
  ASSUME NEW s \in Seq(Nat), s # <<>>, NEW method
  PROVE  MonthValue(s, method) \in Nat
<1>1. PICK l \in Nat : l = Len(s) OBVIOUS
<1>2. l > 0 BY <1>1
<1>3. Total(s) \in Nat BY TotalOfNats
<1>4. Total(s) \div l \in Nat
  <2> DEFINE q == Total(s) \div l
  <2>1. q \in Int /\ Total(s) < l * q + l
    <3>1. Total(s) \in Int BY <1>3
    <3> QED BY <1>2, <3>1, QuotientIs
  <2> HIDE DEF q
  <2>2. ASSUME q <= -1 PROVE FALSE
    <3>1. l * q <= l * (-1) BY <1>2, <2>1, <2>2
    <3> QED BY <1>3, <2>1, <3>1
  <2>3. q \in Nat BY <2>1, <2>2
  <2> QED BY <2>3 DEF q
<1>5. s[Len(s)] \in Nat BY <1>1, <1>2
<1> QED BY <1>1, <1>3, <1>4, <1>5 DEF MonthValue

LEMMA MonthCellsAre ==
  ASSUME NEW u \in Range(Uploads), NEW rows \in Seq(PreparedRows(u))
  PROVE  /\ DatedOnly(rows) \in Seq(MonthRows(u))
         /\ MonthCells(DatedOnly(rows)) \in Seq(Keys(u) \X (0 .. LastDay - 1))
         /\ Len(MonthCells(DatedOnly(rows))) = Len(DatedOnly(rows))
<1> DEFINE here == {i \in DOMAIN rows : rows[i].key # Null /\ rows[i].date # Null}
           dated == DatedOnly(rows)
           D == MonthRows(u)
<1>1. here \in SUBSET (1 .. Len(rows)) OBVIOUS
<1>2. \A p \in here : rows[p] \in D
  <2>1. \A p \in 1 .. Len(rows) : rows[p] \in PreparedRows(u) BY SeqIs
  <2> QED BY <1>1, <2>1, DatesAre DEF PreparedRows, MonthRows
<1>3. dated = At(rows, here) BY DEF DatedOnly
<1> HIDE DEF here
<1>4. dated \in Seq(D) BY <1>1, <1>2, <1>3, AtOf
<1> HIDE DEF dated
<1> DEFINE cells == MonthCells(dated)
           C == Keys(u) \X (0 .. LastDay - 1)
<1>5. cells \in Seq(C) /\ Len(cells) = Len(dated)
  <2>1. \A i \in 1 .. Len(dated) : dated[i] \in D BY <1>4, SeqIs
  <2>2. \A i \in 1 .. Len(dated) : dated[i].key \in Keys(u) /\ dated[i].date \in 0 .. LastDay - 1
    BY <2>1 DEF MonthRows
  <2>3. \A d \in 0 .. LastDay - 1 : MonthStart(d) \in 0 .. LastDay - 1 BY DatesAre DEF MonthStart
  <2>4. \A i \in 1 .. Len(dated) : <<dated[i].key, MonthStart(dated[i].date)>> \in C BY <2>2, <2>3
  <2>5. cells = [i \in 1 .. Len(dated) |-> <<dated[i].key, MonthStart(dated[i].date)>>]
    BY <1>4 DEF MonthCells
  <2>6. Len(dated) \in Nat BY <1>4
  <2> HIDE DEF cells
  <2> QED BY <2>4, <2>5, <2>6
<1> QED BY <1>4, <1>5 DEF dated, cells, C, D

LEMMA MonthlyTyped ==
  ASSUME NEW u \in Range(Uploads), NEW rows \in Seq(PreparedRows(u)), NEW method
  PROVE  Monthly(rows, method) \in Seq(PreparedRows(u))
<1> DEFINE P == PreparedRows(u)
           dated == DatedOnly(rows)
           D == MonthRows(u)
<1>4. dated \in Seq(D) BY MonthCellsAre
<1> DEFINE cells == MonthCells(dated)
           C == Keys(u) \X (0 .. LastDay - 1)
           months == Months(dated)
<1>5. cells \in Seq(C) /\ Len(cells) = Len(dated) BY MonthCellsAre
<1> HIDE DEF dated
<1> DEFINE firsts == Firsts(cells)
<1>6. months = At(cells, firsts) BY DEF Months
<1> HIDE DEF cells
<1>7. firsts \in SUBSET (1 .. Len(cells)) BY <1>5 DEF Firsts
<1> HIDE DEF firsts, months
<1>8. months \in Seq(C) /\ Range(months) = {cells[p] : p \in firsts}
  BY <1>5, <1>6, <1>7, AtTakes, AtRange
<1>9. ASSUME NEW i \in 1 .. Len(months) PROVE MonthValue(OfMonth(dated, months[i]), method) \in Nat
  <2>1. months[i] \in Range(months) BY <1>8 DEF Range
  <2>2. PICK p \in firsts : months[i] = cells[p] BY <1>8, <2>1
  <2> DEFINE those == {j \in DOMAIN cells : cells[j] = months[i]}
             taken == At(dated, those)
  <2>3. those \in SUBSET (1 .. Len(dated)) /\ p \in those BY <1>5, <1>7, <2>2
  <2> HIDE DEF those
  <2>4. taken \in Seq(D) /\ Range(taken) = {dated[q] : q \in those} BY <1>4, <2>3, AtTakes, AtRange
  <2> HIDE DEF taken
  <2>5. taken # <<>>
    <3>1. dated[p] \in Range(taken) BY <2>3, <2>4
    <3>2. PICK k \in DOMAIN taken : dated[p] = taken[k] BY <3>1 DEF Range
    <3>3. DOMAIN <<>> = {} OBVIOUS
    <3> QED BY <3>2, <3>3
  <2>6. \A x \in D : x.target \in Nat BY DEF MonthRows
  <2>7. Column(taken, "target") \in Seq(Nat) /\ Len(Column(taken, "target")) = Len(taken)
    BY <2>4, <2>6, TargetsAre
  <2>8. Column(taken, "target") # <<>>
    <3>1. Len(<<>>) = 0 /\ Len(taken) # 0 BY <2>4, <2>5
    <3> QED BY <2>7, <3>1, Zenon
  <2>9. OfMonth(dated, months[i]) = Column(taken, "target") BY DEF OfMonth, taken, those, cells
  <2> QED BY <2>7, <2>8, <2>9, MonthValueIs
<1> DEFINE row(i) == [key |-> months[i][1], date |-> months[i][2],
                      target |-> MonthValue(OfMonth(dated, months[i]), method)]
<1>10. Monthly(rows, method) = [i \in DOMAIN months |-> row(i)]
  BY MonthlyIs DEF months, dated
<1>11. \A i \in 1 .. Len(months) : row(i) \in P
  <2> SUFFICES ASSUME NEW i \in 1 .. Len(months) PROVE row(i) \in P
    OBVIOUS
  <2>1. months[i] \in C BY <1>8
  <2>2. months[i][1] \in Keys(u) /\ months[i][2] \in 0 .. LastDay - 1 BY <2>1
  <2> QED BY <1>9, <2>2, DatesAre DEF PreparedRows
<1>12. DOMAIN months = 1 .. Len(months) /\ Len(months) \in Nat BY <1>8
<1> HIDE DEF row, P
<1>13. Monthly(rows, method) \in Seq(P) BY <1>10, <1>11, <1>12
<1> QED BY <1>13 DEF P

\* Sorting by rank: positions in the order of their ranks.
LEMMA PlacesAre ==
  ASSUME NEW m \in Nat, NEW before, Orders(before, m), NEW place,
         \A r \in 1 .. m : place[r] = CHOOSE i \in 1 .. m : Cardinality(before[i]) = r - 1
  PROVE  /\ \A r \in 1 .. m : place[r] \in 1 .. m
         /\ \A i \in 1 .. m : \E r \in 1 .. m : place[r] = i
         /\ \A q, r \in 1 .. m : q < r => place[q] \in before[place[r]]
<1>1. /\ \A i \in 1 .. m : Cardinality(before[i]) \in 0 .. m - 1
      /\ \A i, j \in 1 .. m : j \in before[i] => Cardinality(before[j]) < Cardinality(before[i])
      /\ \A r \in 1 .. m : \E i \in 1 .. m : Cardinality(before[i]) = r - 1
  <2>1. EachHasARank(before, m) BY RanksAreTaken
  <2> QED BY <2>1 DEF EachHasARank
<1>2. ASSUME NEW r \in 1 .. m PROVE place[r] \in 1 .. m /\ Cardinality(before[place[r]]) = r - 1
  BY <1>1
<1>3. ASSUME NEW i \in 1 .. m, NEW j \in 1 .. m, Cardinality(before[i]) = Cardinality(before[j])
      PROVE  i = j
  <2>1. Cardinality(before[i]) \in Int BY <1>1
  <2>2. i # j => i \in before[j] \/ j \in before[i] BY DEF Orders
  <2>3. ~(i \in before[j]) /\ ~(j \in before[i])
    <3>1. i \in before[j] => Cardinality(before[i]) < Cardinality(before[j]) BY <1>1
    <3>2. j \in before[i] => Cardinality(before[j]) < Cardinality(before[i]) BY <1>1
    <3> QED BY <1>3, <2>1, <3>1, <3>2
  <2> QED BY <2>2, <2>3
<1>4. ASSUME NEW i \in 1 .. m PROVE \E r \in 1 .. m : place[r] = i
  <2> DEFINE r == Cardinality(before[i]) + 1
  <2>1. r \in 1 .. m /\ r - 1 = Cardinality(before[i]) BY <1>1
  <2> HIDE DEF r
  <2>2. place[r] \in 1 .. m /\ Cardinality(before[place[r]]) = Cardinality(before[i]) BY <1>2, <2>1
  <2>3. place[r] = i BY <1>3, <2>2
  <2> QED BY <2>1, <2>3
<1>5. ASSUME NEW q \in 1 .. m, NEW r \in 1 .. m, q < r PROVE place[q] \in before[place[r]]
  <2> DEFINE i == place[q]
             j == place[r]
  <2>1. /\ i \in 1 .. m /\ Cardinality(before[i]) = q - 1
        /\ j \in 1 .. m /\ Cardinality(before[j]) = r - 1
    BY <1>2
  <2> HIDE DEF i, j
  <2>2. i # j BY <1>5, <2>1
  <2>3. i \in before[j] \/ j \in before[i] BY <2>1, <2>2 DEF Orders
  <2>4. ASSUME j \in before[i] PROVE FALSE
    <3>1. r - 1 < q - 1 BY <1>1, <2>1, <2>4
    <3> QED BY <1>5, <3>1
  <2>5. i \in before[j] BY <2>3, <2>4
  <2> QED BY <2>5 DEF i, j
<1> QED BY <1>2, <1>4, <1>5

\* What comes before a row, and where the rows go.
RowsBefore(rows) ==
  [i \in DOMAIN rows |->
     {j \in DOMAIN rows :
        \/ rows[j].key < rows[i].key
        \/ rows[j].key = rows[i].key /\ Day(rows[j].date) < Day(rows[i].date)
        \/ rows[j].key = rows[i].key /\ Day(rows[j].date) = Day(rows[i].date) /\ j < i}]
RowPlaces(rows) ==
  [r \in DOMAIN rows |-> CHOOSE i \in DOMAIN rows : Cardinality(RowsBefore(rows)[i]) = r - 1]

InOrder(x, y) ==
  \/ x.key < y.key
  \/ x.key = y.key /\ Day(x.date) <= Day(y.date)

LEMMA SortedIs ==
  ASSUME NEW S, NEW rows \in Seq(S), \A x \in S : x.key \in Int /\ Day(x.date) \in Int
  PROVE  /\ Sorted(rows) \in Seq(S) /\ Len(Sorted(rows)) = Len(rows)
         /\ \A r \in 1 .. Len(rows) : RowPlaces(rows)[r] \in 1 .. Len(rows)
                                      /\ Sorted(rows)[r] = rows[RowPlaces(rows)[r]]
         /\ \A i \in 1 .. Len(rows) : \E r \in 1 .. Len(rows) : RowPlaces(rows)[r] = i
         /\ \A q, r \in 1 .. Len(rows) :
              q < r => RowPlaces(rows)[q] # RowPlaces(rows)[r] /\ InOrder(Sorted(rows)[q], Sorted(rows)[r])
<1>1. PICK m \in Nat : m = Len(rows) OBVIOUS
<1>2. DOMAIN rows = 1 .. m /\ \A i \in 1 .. m : rows[i] \in S BY <1>1
<1> DEFINE before == RowsBefore(rows)
           place == RowPlaces(rows)
           k == [i \in 1 .. m |-> rows[i].key]
           d == [i \in 1 .. m |-> Day(rows[i].date)]
<1>3. \A i \in 1 .. m : k[i] \in Int /\ d[i] \in Int /\ k[i] = rows[i].key /\ d[i] = Day(rows[i].date)
  BY <1>2
<1>4. /\ before \in [1 .. m -> SUBSET (1 .. m)]
      /\ \A i, j \in 1 .. m :
           j \in before[i] <=> \/ k[j] < k[i]
                               \/ k[j] = k[i] /\ d[j] < d[i]
                               \/ k[j] = k[i] /\ d[j] = d[i] /\ j < i
  BY <1>2 DEF RowsBefore
<1>5. \A r \in 1 .. m : place[r] = CHOOSE i \in 1 .. m : Cardinality(before[i]) = r - 1
  BY <1>2 DEF RowPlaces
<1>6. Sorted(rows) = [r \in 1 .. m |-> rows[CHOOSE i \in 1 .. m : Cardinality(before[i]) = r - 1]]
  <2> DEFINE b(i) ==
        {j \in DOMAIN rows :
           \/ rows[j].key < rows[i].key
           \/ rows[j].key = rows[i].key /\ Day(rows[j].date) < Day(rows[i].date)
           \/ rows[j].key = rows[i].key /\ Day(rows[j].date) = Day(rows[i].date) /\ j < i}
  <2>1. \A i \in 1 .. m : before[i] = b(i) BY <1>2 DEF RowsBefore
  <2>2. Sorted(rows) = [r \in DOMAIN rows |-> rows[CHOOSE i \in DOMAIN rows : Cardinality(b(i)) = r - 1]]
    BY DEF Sorted
  <2> HIDE DEF b, before
  <2>3. \A r : (CHOOSE i \in 1 .. m : Cardinality(before[i]) = r - 1)
               = (CHOOSE i \in 1 .. m : Cardinality(b(i)) = r - 1)
    BY <2>1
  <2> QED BY <1>2, <2>2, <2>3
<1> HIDE DEF before, place, k, d
<1>7. \A r \in 1 .. m : Sorted(rows)[r] = rows[place[r]] BY <1>5, <1>6
<1>8. Orders(before, m)
  <2>1. ASSUME NEW i \in 1 .. m, i \in before[i] PROVE FALSE
    <3>1. k[i] < k[i] \/ d[i] < d[i] \/ i < i BY <1>4, <2>1
    <3>2. k[i] \in Int /\ d[i] \in Int /\ i \in Int BY <1>3
    <3> QED BY <3>1, <3>2
  <2>2. \A i, j \in 1 .. m : i # j => i \in before[j] \/ j \in before[i] BY <1>3, <1>4
  <2>3. ASSUME NEW i \in 1 .. m, NEW j \in 1 .. m, NEW l \in 1 .. m, j \in before[i], l \in before[j]
        PROVE  l \in before[i]
    <3>1. /\ k[i] \in Int /\ k[j] \in Int /\ k[l] \in Int
          /\ d[i] \in Int /\ d[j] \in Int /\ d[l] \in Int
      BY <1>3, <2>3
    <3>2. k[j] < k[i] \/ (k[j] = k[i] /\ (d[j] < d[i] \/ (d[j] = d[i] /\ j < i))) BY <1>4, <2>3
    <3>3. k[l] < k[j] \/ (k[l] = k[j] /\ (d[l] < d[j] \/ (d[l] = d[j] /\ l < j))) BY <1>4, <2>3
    <3>4. k[l] < k[i] \/ (k[l] = k[i] /\ (d[l] < d[i] \/ (d[l] = d[i] /\ l < i)))
      BY <3>1, <3>2, <3>3
    <3> QED BY <1>4, <3>4
  <2> QED BY <1>4, <2>1, <2>2, <2>3 DEF Orders
<1>9. /\ \A r \in 1 .. m : place[r] \in 1 .. m
      /\ \A i \in 1 .. m : \E r \in 1 .. m : place[r] = i
      /\ \A q, r \in 1 .. m : q < r => place[q] \in before[place[r]]
  BY <1>5, <1>8, PlacesAre
<1>10. Sorted(rows) \in Seq(S) /\ Len(Sorted(rows)) = m
  <2>1. \A r \in 1 .. m : Sorted(rows)[r] \in S BY <1>2, <1>7, <1>9
  <2> DEFINE s == Sorted(rows)
  <2>2. s = [r \in 1 .. m |-> s[r]] BY <1>6
  <2> HIDE DEF s
  <2>3. s \in Seq(S) /\ Len(s) = m BY <2>1, <2>2 DEF s
  <2> QED BY <2>3 DEF s
<1>11. ASSUME NEW q \in 1 .. m, NEW r \in 1 .. m, q < r
       PROVE  place[q] # place[r] /\ InOrder(Sorted(rows)[q], Sorted(rows)[r])
  <2> DEFINE i == place[q]
             j == place[r]
  <2>1. i \in 1 .. m /\ j \in 1 .. m /\ i \in before[j] BY <1>9, <1>11
  <2>2. Sorted(rows)[q] = rows[i] /\ Sorted(rows)[r] = rows[j] BY <1>7
  <2> HIDE DEF i, j
  <2>3. i # j BY <1>8, <2>1 DEF Orders
  <2>4. \/ k[i] < k[j]
        \/ k[i] = k[j] /\ d[i] <= d[j]
    BY <1>3, <1>4, <2>1
  <2>5. InOrder(rows[i], rows[j]) BY <1>3, <2>1, <2>4 DEF InOrder
  <2> QED BY <2>2, <2>3, <2>5 DEF i, j
<1> QED BY <1>1, <1>7, <1>9, <1>10, <1>11 DEF place

LEMMA RowsCompare ==
  ASSUME NEW u \in Range(Uploads)
  PROVE  \A x \in PreparedRows(u) : x.key \in Int /\ Day(x.date) \in Int
<1>1. Keys(u) \subseteq Nat \cup {Null} /\ Null \in Int BY UploadIs, CellsAre
<1> QED BY <1>1, DatesAre DEF PreparedRows, Day

LEMMA CuratedIs ==
  ASSUME NEW u \in Range(Uploads), NEW grain
  PROVE  Curated(u, grain) \in Seq(PreparedRows(u))
<1> DEFINE rows == IF grain \in {"Daily", "Weekly"} THEN Monthly(Clean(u), u.method) ELSE Clean(u)
<1>1. rows \in Seq(PreparedRows(u)) BY CleanIs, MonthlyTyped
<1>2. Curated(u, grain) = Sorted(rows) BY DEF Curated
<1> HIDE DEF rows
<1> QED BY <1>1, <1>2, SortedIs, RowsCompare

LEMMA DetectedIs == ASSUME NEW u PROVE DetectedFrequency(u) \in Frequencies
<1>1. \A x : Band(x) \in Frequencies BY DEF Band, Frequencies
<1> HIDE DEF Band
<1> QED BY <1>1 DEF DetectedFrequency, Frequencies
--------------------------------------------------------------------------------
(* What the models answer. *)

SeriesOf ==
  {s \in [key: Nat \cup {Null}, values: Seq(Nat), frequency: Frequencies, horizon: Nat \ {0},
          regressors: BOOLEAN, correlated: SUBSET STRING] : s.values # <<>>}

\* A library answers sequences of numbers, a tree's predicted changes are finite.
LibrariesAnswer ==
  \A s \in SeriesOf :
    /\ Decoded(s) \in SUBSET Seq(Int \cup {NaN})
    /\ Changes(s) \in SUBSET Seq(Int)

LEMMA TreeForecastIs ==
  ASSUME NEW values \in Seq(Nat), values # <<>>, NEW changes \in Seq(Int)
  PROVE  TreeForecast(values, changes) \in Seq(Int)
<1> DEFINE last == values[Len(values)]
<1>1. last \in Int
  <2>1. PICK l \in Nat : l = Len(values) OBVIOUS
  <2>2. l # 0 BY <2>1
  <2> QED BY <2>1, <2>2
<1>2. PICK m \in Nat : m = Len(changes) OBVIOUS
<1> DEFINE level == CHOOSE f : Sums(f, last, changes, m)
<1>3. Sums(level, last, changes, m) BY SumsExist
<1>4. TreeForecast(values, changes) = [i \in 1 .. m |-> level[i]] BY <1>2 DEF TreeForecast, Sums
<1> HIDE DEF level, last
<1>5. level[0] = last /\ \A i \in 1 .. m : level[i] = level[i - 1] + changes[i] BY <1>3, SumStep
<1> DEFINE N == {i \in Nat : i <= m => level[i] \in Int}
<1>6. 0 \in N BY <1>1, <1>5
<1>7. ASSUME NEW i \in Nat, i \in N PROVE i + 1 \in N
  <2> SUFFICES ASSUME i + 1 <= m PROVE level[i + 1] \in Int
    OBVIOUS
  <2>1. i + 1 \in 1 .. m /\ (i + 1) - 1 = i /\ level[i] \in Int BY <1>7
  <2>2. changes[i + 1] \in Int BY <1>2, <2>1
  <2>3. level[i + 1] = level[i] + changes[i + 1] BY <1>5, <2>1
  <2> QED BY <2>1, <2>2, <2>3
<1> HIDE DEF N
<1>8. Nat \subseteq N BY <1>6, <1>7, SetInduction, Zenon
<1>9. \A i \in 1 .. m : level[i] \in Int
  <2> SUFFICES ASSUME NEW i \in 1 .. m PROVE level[i] \in Int
    OBVIOUS
  <2>1. i \in N /\ i <= m BY <1>8
  <2> QED BY <2>1 DEF N
<1> QED BY <1>4, <1>9

LEMMA TftForecastIs ==
  ASSUME NEW decoded \in Seq(Int \cup {NaN}), NEW horizon \in Nat
  PROVE  TftForecast(decoded, horizon) \in Seq(Int \cup {NaN})
<1> DEFINE at(i) == IF decoded = <<>> THEN 0 ELSE decoded[Min({i, Len(decoded)})]
<1>1. TftForecast(decoded, horizon) = [i \in 1 .. horizon |-> at(i)] BY DEF TftForecast
<1>2. ASSUME NEW i \in 1 .. horizon PROVE at(i) \in Int \cup {NaN}
  <2>1. CASE decoded = <<>> BY <2>1
  <2>2. CASE decoded # <<>>
    <3>1. PICK l \in Nat : l = Len(decoded) OBVIOUS
    <3>2. l # 0 BY <2>2, <3>1
    <3>3. Min({i, l}) \in 1 .. l
      <4>1. Min({i, l}) = IF i <= l THEN i ELSE l BY MinOfTwo
      <4> QED BY <3>2, <4>1
    <3>4. decoded[Min({i, l})] \in Int \cup {NaN} BY <3>1, <3>3
    <3> QED BY <2>2, <3>1, <3>4
  <2> QED BY <2>1, <2>2
<1> HIDE DEF at
<1> QED BY <1>1, <1>2

LEMMA LatestIs ==
  ASSUME NEW S, NEW s \in Seq(S), NEW k \in 0 .. Len(s)
  PROVE  /\ Latest(s, k) \in Seq(S) /\ Len(Latest(s, k)) = k
         /\ \A i \in 1 .. k : Latest(s, k)[i] = s[Len(s) - k + i]
<1>1. PICK l \in Nat : l = Len(s) OBVIOUS
<1>2. Latest(s, k) = SubSeq(s, l - k + 1, l) BY <1>1 DEF Latest
<1>3. l - k + 1 \in 1 .. l + 1 /\ k \in Nat BY <1>1
<1> DEFINE r == SubSeq(s, l - k + 1, l)
<1>4. r \in Seq(S) /\ Len(r) = k /\ \A i \in 1 .. k : r[i] = s[l - k + 1 + i - 1]
  BY <1>1, <1>3
<1>5. \A i \in 1 .. k : l - k + 1 + i - 1 = l - k + i BY <1>1
<1> QED BY <1>1, <1>2, <1>4, <1>5

LEMMA SeasonalNaiveIs ==
  ASSUME NEW values \in Seq(Nat), values # <<>>, NEW horizon \in Nat
  PROVE  /\ SeasonalNaive(values, horizon) \in Seq(Nat)
         /\ Len(SeasonalNaive(values, horizon)) = horizon
<1>1. PICK l \in Nat : l = Len(values) OBVIOUS
<1>2. l # 0 BY <1>1
<1> DEFINE k == IF Len(values) >= SeasonalLag THEN SeasonalLag ELSE 1
           cycle == Latest(values, k)
<1>3. k \in 0 .. l /\ k > 0 /\ k \in Nat BY <1>1, <1>2 DEF SeasonalLag
<1>4. cycle \in Seq(Nat) /\ Len(cycle) = k
  <2> HIDE DEF k
  <2> QED BY <1>1, <1>3, LatestIs
<1>5. SeasonalNaive(values, horizon) = [i \in 1 .. horizon |-> cycle[((i - 1) % Len(cycle)) + 1]]
  BY DEF SeasonalNaive
<1> HIDE DEF cycle, k
<1>6. ASSUME NEW i \in 1 .. horizon PROVE cycle[((i - 1) % Len(cycle)) + 1] \in Nat
  <2>1. (i - 1) % k \in 0 .. k - 1 BY <1>3
  <2>2. ((i - 1) % k) + 1 \in 1 .. k BY <1>3, <2>1
  <2> QED BY <1>4, <2>2
<1> QED BY <1>5, <1>6

LEMMA AnswersAre ==
  ASSUME LibrariesAnswer, series \in SeriesOf, NEW spec
  PROVE  /\ Answers(spec) \in SUBSET Seq(Int \cup {NaN})
         /\ spec.family = "naive" => Answers(spec) = {SeasonalNaive(series.values, series.horizon)}
<1>1. series.values \in Seq(Nat) /\ series.values # <<>> /\ series.horizon \in Nat BY DEF SeriesOf
<1>2. Decoded(series) \in SUBSET Seq(Int \cup {NaN}) /\ Changes(series) \in SUBSET Seq(Int)
  BY DEF LibrariesAnswer
<1>3. \A s : s \in Seq(Int) => s \in Seq(Int \cup {NaN}) OBVIOUS
<1>4. \A s : s \in Seq(Nat) => s \in Seq(Int \cup {NaN}) OBVIOUS
<1>5. CASE spec.family = "tree"
  <2>1. Answers(spec) = {TreeForecast(series.values, c) : c \in Changes(series)} BY <1>5 DEF Answers
  <2>2. \A c \in Changes(series) : TreeForecast(series.values, c) \in Seq(Int)
    BY <1>1, <1>2, TreeForecastIs
  <2> QED BY <1>3, <1>5, <2>1, <2>2
<1>6. CASE spec.family = "tft"
  <2>1. Answers(spec) = {TftForecast(d, series.horizon) : d \in Decoded(series)} BY <1>6 DEF Answers
  <2>2. \A d \in Decoded(series) : TftForecast(d, series.horizon) \in Seq(Int \cup {NaN})
    BY <1>1, <1>2, TftForecastIs
  <2> QED BY <1>6, <2>1, <2>2
<1>7. CASE spec.family = "naive"
  <2>1. Answers(spec) = {SeasonalNaive(series.values, series.horizon)} BY <1>7 DEF Answers
  <2>2. SeasonalNaive(series.values, series.horizon) \in Seq(Nat)
        /\ Len(SeasonalNaive(series.values, series.horizon)) = series.horizon
    BY <1>1, SeasonalNaiveIs
  <2> QED BY <1>4, <1>7, <2>1, <2>2
<1>8. CASE spec.family \notin {"tree", "tft", "naive"}
  <2>1. Answers(spec) = Decoded(series) BY <1>8 DEF Answers
  <2> QED BY <1>2, <1>8, <2>1
<1> QED BY <1>5, <1>6, <1>7, <1>8
--------------------------------------------------------------------------------
(* What a step leaves alone. *)

LEMMA SurvivorsStay == ASSUME evaluation' = evaluation PROVE Survivors' = Survivors
BY DEF Survivors

LEMMA RankingStays ==
  ASSUME evaluation' = evaluation, explanations' = explanations
  PROVE  Ranking' = Ranking
<1>1. Survivors' = Survivors BY SurvivorsStay
<1>2. \A i : BacktestScore(i)' = BacktestScore(i) BY <1>1 DEF BacktestScore
<1>3. \A i : StabilityScore(i)' = StabilityScore(i) BY <1>1 DEF StabilityScore
<1>4. \A i : RankOne(i)' = RankOne(i) BY <1>1, <1>2, <1>3 DEF RankOne
<1> DEFINE body(all) ==
      LET scores == [i \in DOMAIN all |-> all[i].composite]
      IN  [r \in DOMAIN all |-> all[CHOOSE i \in DOMAIN all : Cardinality(Ahead(scores, i)) = r - 1]]
<1>5. Ranks' = Ranks BY <1>1, <1>4 DEF Ranks
<1>6. Ranking = body(Ranks) BY DEF Ranking, Ranks
<1>7. Ranking' = body(Ranks') BY DEF Ranking, Ranks
<1> HIDE DEF body
<1> QED BY <1>5, <1>6, <1>7
--------------------------------------------------------------------------------
(* Preparation. *)

Verdicts == {"none", "READY", "WARNINGS", "NOT_SUITABLE"}
KeysOf(frame) == {frame[i].key : i \in 1 .. Len(frame)}

\* What preparation has made so far is well formed, and a series is built of a group
\* that has rows.
Intake ==
  /\ upload \in DOMAIN Uploads
  /\ stage \in IntakeStages \cup Stages
  /\ verdict \in Verdicts
  /\ frequency \in Frequencies
  /\ prepared \in Seq(PreparedRows(File))
  /\ groups \subseteq Keys(File)
  /\ failure \in Refusals \cup {"none"}
  /\ stage = "failed" <=> failure # "none"
  /\ stage = "build" => groups \subseteq KeysOf(prepared)
  /\ stage \in Stages => series \in SeriesOf
  /\ series \in SeriesOf \cup {NoSeries}

LEMMA FileIs == ASSUME upload \in DOMAIN Uploads PROVE File \in Range(Uploads)
BY DEF File, Range

LEMMA IntakeInit == Init => Intake
<1> SUFFICES ASSUME Init PROVE Intake
  OBVIOUS
<1>1. PreparationInit BY DEF Init
<1>2. prepared \in Seq(PreparedRows(File)) BY <1>1 DEF PreparationInit, NoFrame
<1>3. "Irregular" \in Frequencies BY DEF Frequencies
<1> QED BY <1>1, <1>2, <1>3
     DEF PreparationInit, Intake, IntakeStages, Stages, Verdicts

LEMMA SuitabilityIs == \A u : Suitability(u) \in {"NOT_SUITABLE", "WARNINGS", "READY"}
BY DEF Suitability

LEMMA KeysOfIs ==
  ASSUME NEW u, NEW frame \in Seq(PreparedRows(u))
  PROVE  /\ {r.key : r \in Range(frame)} = KeysOf(frame)
         /\ KeysOf(frame) \subseteq Keys(u)
         /\ GroupKeys(frame) \subseteq KeysOf(frame)
<1>1. DOMAIN frame = 1 .. Len(frame) /\ \A i \in 1 .. Len(frame) : frame[i] \in PreparedRows(u)
  BY SeqIs
<1>2. {r.key : r \in Range(frame)} = KeysOf(frame) BY <1>1 DEF Range, KeysOf
<1>3. KeysOf(frame) \subseteq Keys(u) BY <1>1 DEF KeysOf, PreparedRows
<1>4. GroupKeys(frame) \subseteq KeysOf(frame) BY <1>2 DEF GroupKeys
<1> QED BY <1>2, <1>3, <1>4

LEMMA BuiltIs ==
  ASSUME Intake, NEW key \in KeysOf(prepared)
  PROVE  Built(key) \in SeriesOf
<1> DEFINE P == PreparedRows(File)
           those == {i \in DOMAIN prepared : prepared[i].key = key}
           taken == At(prepared, those)
           values == Column(taken, "target")
<1>1. prepared \in Seq(P) /\ File \in Range(Uploads) /\ frequency \in Frequencies
  BY FileIs DEF Intake
<1>2. those \in SUBSET (1 .. Len(prepared)) BY <1>1
<1>3. PICK p \in 1 .. Len(prepared) : prepared[p].key = key BY DEF KeysOf
<1>4. p \in those BY <1>1, <1>3
<1> HIDE DEF those
<1>5. taken \in Seq(P) /\ Range(taken) = {prepared[q] : q \in those} BY <1>1, <1>2, AtTakes, AtRange
<1> HIDE DEF taken
<1>6. taken # <<>>
  <2>1. prepared[p] \in Range(taken) BY <1>4, <1>5
  <2>2. PICK k \in DOMAIN taken : prepared[p] = taken[k] BY <2>1 DEF Range
  <2>3. DOMAIN <<>> = {} OBVIOUS
  <2> QED BY <2>2, <2>3
<1>7. \A x \in P : x.target \in Nat BY DEF PreparedRows
<1>8. values \in Seq(Nat) /\ Len(values) = Len(taken)
  <2> HIDE DEF P
  <2> QED BY <1>5, <1>7, TargetsAre
<1>9. values # <<>>
  <2>1. Len(<<>>) = 0 /\ Len(taken) # 0 BY <1>5, <1>6
  <2> QED BY <1>8, <2>1, Zenon
<1>10. key \in Nat \cup {Null}
  <2>1. key \in Keys(File) BY <1>1, KeysOfIs
  <2> QED BY <1>1, <2>1, UploadIs
<1>11. /\ File.horizon \in Nat \ {0} /\ File.features \in BOOLEAN /\ File.correlated \in SUBSET STRING
  BY <1>1, UploadIs
<1>12. Built(key) = [key |-> key, values |-> values, frequency |-> frequency, horizon |-> File.horizon,
                     regressors |-> File.features, correlated |-> File.correlated]
  BY DEF Built, taken, those
<1> HIDE DEF values
<1> QED BY <1>1, <1>8, <1>9, <1>10, <1>11, <1>12 DEF SeriesOf

\* The steps after preparation leave its state alone.
LEMMA IntakeStays ==
  ASSUME Intake, UNCHANGED <<intakeVars, series>>,
         stage' = stage \/ {stage, stage'} \subseteq Stages
  PROVE  Intake'
<1>1. File' = File BY DEF File, intakeVars
<1>2. upload' = upload /\ verdict' = verdict /\ frequency' = frequency /\ prepared' = prepared
      /\ groups' = groups /\ failure' = failure /\ series' = series
  BY DEF intakeVars
<1>3. stage' = "failed" <=> failure' # "none"
  <2>1. \A s \in Stages : s # "failed" BY DEF Stages
  <2> QED BY <1>2, <2>1 DEF Intake
<1>4. stage' = "build" => groups' \subseteq KeysOf(prepared')
  <2>1. \A s \in Stages : s # "build" BY DEF Stages
  <2> QED BY <1>2, <2>1 DEF Intake
<1> QED BY <1>1, <1>2, <1>3, <1>4 DEF Intake

LEMMA IntakeSteps == ASSUME Intake, PreparationNext PROVE Intake'
<1>1. ASSUME upload' = upload PROVE File' = File BY <1>1 DEF File
<1>2. \A s \in IntakeStages \cup Stages : s = "failed" => s \notin Stages BY DEF Stages
<1>3. CASE Validate_metadata
  <2>1. File' = File BY <1>1, <1>3 DEF Validate_metadata
  <2>2. verdict' \in Verdicts BY <1>3, SuitabilityIs DEF Validate_metadata, Verdicts
  <2> QED BY <1>3, <2>1, <2>2 DEF Intake, Validate_metadata, Advance, IntakeStages, Stages
<1>4. CASE LoadDataset
  <2>1. File' = File BY <1>1, <1>4 DEF LoadDataset
  <2> QED BY <1>4, <2>1 DEF Intake, LoadDataset, Advance, Refuse, IntakeStages, Stages, Refusals
<1>5. CASE DetectFrequency
  <2>1. File' = File BY <1>1, <1>5 DEF DetectFrequency
  <2>2. frequency' \in Frequencies BY <1>5, DetectedIs DEF DetectFrequency, Intake
  <2> QED BY <1>5, <2>1, <2>2
       DEF Intake, DetectFrequency, Advance, Refuse, IntakeStages, Stages, Refusals
<1>6. CASE AssessQuality
  <2>1. File' = File BY <1>1, <1>6 DEF AssessQuality
  <2> QED BY <1>6, <2>1 DEF Intake, AssessQuality, Advance, Refuse, IntakeStages, Stages, Refusals
<1>7. CASE Preprocess
  <2>1. File' = File BY <1>1, <1>7 DEF Preprocess
  <2>2. \A f, c : Objection(f, c) \in Refusals \cup {"none"} BY DEF Objection, Refusals
  <2>3. Curated(File, frequency) \in Seq(PreparedRows(File)) BY CuratedIs, FileIs DEF Intake
  <2> DEFINE curated == Curated(File, frequency)
             objection == Objection(File, curated)
  <2>4. \/ objection = "none" /\ prepared' = curated /\ stage' = "persist" /\ failure' = failure
        \/ objection # "none" /\ prepared' = prepared /\ stage' = "failed" /\ failure' = objection
    BY <1>7 DEF Preprocess, Advance, Refuse
  <2>5. /\ stage = "preprocess"
        /\ UNCHANGED <<upload, verdict, frequency, groups, series>>
    BY <1>7 DEF Preprocess
  <2>6. objection \in Refusals \cup {"none"} BY <2>2
  <2> HIDE DEF objection, curated
  <2>7. prepared' \in Seq(PreparedRows(File)) BY <2>3, <2>4 DEF Intake, curated
  <2> QED BY <2>1, <2>4, <2>5, <2>6, <2>7 DEF Intake, IntakeStages, Stages
<1>8. CASE PersistCurated
  <2>1. File' = File BY <1>1, <1>8 DEF PersistCurated
  <2> QED BY <1>8, <2>1 DEF Intake, PersistCurated, Advance, Refuse, IntakeStages, Stages, Refusals
<1>9. CASE VerifyCurated
  <2>1. File' = File BY <1>1, <1>9 DEF VerifyCurated
  <2>2. prepared' \in Seq(PreparedRows(File)) BY <1>9 DEF VerifyCurated, Intake, NoFrame
  <2> QED BY <1>9, <2>1, <2>2
       DEF Intake, VerifyCurated, Advance, Refuse, IntakeStages, Stages, Refusals
<1>10. CASE GenerateGroups
  <2>1. File' = File BY <1>1, <1>10 DEF GenerateGroups
  <2> DEFINE frame == IF prepared = NoFrame THEN Curated(File, frequency) ELSE prepared
  <2>2. frame \in Seq(PreparedRows(File)) BY CuratedIs, FileIs DEF Intake
  <2>3. /\ stage = "generate"
        /\ UNCHANGED <<upload, verdict, frequency, series>>
        /\ \/ /\ stage' = "failed" /\ failure' = "no file" /\ prepared' = prepared /\ groups' = groups
           \/ /\ prepared' = frame /\ groups' = GroupKeys(frame)
              /\ \/ stage' = "failed" /\ failure' = "no group"
                 \/ stage' = "build" /\ failure' = failure
    BY <1>10 DEF GenerateGroups, Advance, Refuse
  <2> HIDE DEF frame
  <2>4. GroupKeys(frame) \subseteq KeysOf(frame) /\ KeysOf(frame) \subseteq Keys(File)
    BY <2>2, KeysOfIs
  <2>5. prepared' \in Seq(PreparedRows(File)) /\ groups' \subseteq Keys(File)
    BY <2>2, <2>3, <2>4 DEF Intake
  <2>6. stage' = "build" => groups' \subseteq KeysOf(prepared') BY <2>3, <2>4
  <2> QED BY <2>1, <2>3, <2>5, <2>6 DEF Intake, IntakeStages, Stages, Refusals
<1>11. CASE BuildSeries
  <2>1. File' = File BY <1>1, <1>11 DEF BuildSeries
  <2>2. PICK key \in groups : series' = Built(key) BY <1>11 DEF BuildSeries
  <2>3. key \in KeysOf(prepared) BY <1>11, <2>2 DEF BuildSeries, Intake
  <2>4. series' \in SeriesOf BY <2>2, <2>3, BuiltIs
  <2>5. prepared' \in Seq(PreparedRows(File)) BY <1>11 DEF BuildSeries, NoFrame
  <2> QED BY <1>11, <2>1, <2>4, <2>5 DEF Intake, BuildSeries, Advance, IntakeStages, Stages
<1> QED BY <1>3, <1>4, <1>5, <1>6, <1>7, <1>8, <1>9, <1>10, <1>11 DEF PreparationNext

\* Every other step leaves preparation's state alone, and stays among the later stages.
LEMMA LaterSteps ==
  ASSUME [Next]_vars, ~PreparationNext
  PROVE  UNCHANGED <<intakeVars, series>> /\ (stage' = stage \/ {stage, stage'} \subseteq Stages)
<1>1. CASE TrainNext BY <1>1 DEF TrainNext, preparationVars
<1>2. CASE EndTraining BY <1>2 DEF EndTraining, Stages
<1>3. CASE EvaluateNext BY <1>3 DEF EvaluateNext, preparationVars
<1>4. CASE EndEvaluation BY <1>4 DEF EndEvaluation, Stages
<1>5. CASE ExplainNext BY <1>5 DEF ExplainNext, preparationVars
<1>6. CASE EndExplanation BY <1>6 DEF EndExplanation, Stages
<1>7. CASE Rank BY <1>7 DEF Rank, Stages
<1>8. CASE JudgeCandidate
  <2>1. UNCHANGED <<intakeVars, series>> /\ stage = "select" /\ stage' \in {"select", "done"}
    BY <1>8 DEF JudgeCandidate, Reject, Conclude
  <2> QED BY <2>1 DEF Stages
<1>9. CASE UseFallback
  <2>1. UNCHANGED <<intakeVars, series>> /\ stage = "select" /\ stage' = "done"
    BY <1>9 DEF UseFallback, Conclude
  <2> QED BY <2>1 DEF Stages
<1>10. CASE Done BY <1>10 DEF Done, vars, preparationVars
<1>11. CASE UNCHANGED vars BY <1>11 DEF vars, preparationVars
<1> QED BY <1>1, <1>2, <1>3, <1>4, <1>5, <1>6, <1>7, <1>8, <1>9, <1>10, <1>11 DEF Next

LEMMA IntakeNext == ASSUME Intake, [Next]_vars PROVE Intake'
<1>1. CASE PreparationNext BY <1>1, IntakeSteps
<1>2. CASE UNCHANGED <<intakeVars, series>> /\ (stage' = stage \/ {stage, stage'} \subseteq Stages)
  BY <1>2, IntakeStays
<1> QED BY <1>1, <1>2, LaterSteps
--------------------------------------------------------------------------------
(* What each step may change. *)

LEMMA StepsTouch ==
  ASSUME [Next]_vars
  PROVE  /\ request' = request
         /\ PreparationNext \/ (series' = series /\ upload' = upload)
         /\ TrainNext \/ training' = training
         /\ EvaluateNext \/ evaluation' = evaluation
         /\ ExplainNext \/ explanations' = explanations
         /\ Rank \/ ranking' = ranking
         /\ JudgeCandidate \/ rejected' = rejected
         /\ JudgeCandidate \/ UseFallback \/ selection' = selection
<1>1. CASE PreparationNext /\ UNCHANGED <<evaluationVars, decisionVars>>
  BY <1>1 DEF evaluationVars, decisionVars
<1>2. CASE TrainNext /\ UNCHANGED decisionVars
  BY <1>2 DEF TrainNext, decisionVars, preparationVars, intakeVars
<1>3. CASE EndTraining /\ UNCHANGED decisionVars
  BY <1>3 DEF EndTraining, evaluationVars, decisionVars, intakeVars
<1>4. CASE EvaluateNext /\ UNCHANGED decisionVars
  BY <1>4 DEF EvaluateNext, decisionVars, preparationVars, intakeVars
<1>5. CASE EndEvaluation /\ UNCHANGED decisionVars
  BY <1>5 DEF EndEvaluation, evaluationVars, decisionVars, intakeVars
<1>6. CASE ExplainNext BY <1>6 DEF ExplainNext, evaluationVars, preparationVars, intakeVars
<1>7. CASE EndExplanation BY <1>7 DEF EndExplanation, evaluationVars, decisionVars, intakeVars
<1>8. CASE Rank BY <1>8 DEF Rank, evaluationVars, intakeVars
<1>9. CASE JudgeCandidate BY <1>9 DEF JudgeCandidate, evaluationVars, intakeVars
<1>10. CASE UseFallback BY <1>10 DEF UseFallback, Conclude, evaluationVars, intakeVars
<1>11. CASE Done \/ UNCHANGED vars
  BY <1>11 DEF Done, vars, evaluationVars, decisionVars, preparationVars, intakeVars
<1> QED BY <1>1, <1>2, <1>3, <1>4, <1>5, <1>6, <1>7, <1>8, <1>9, <1>10, <1>11 DEF Next

\* The stages follow each other.
LEMMA StagesFollow ==
  ASSUME Intake, [Next]_vars
  PROVE  \/ stage' = stage
         \/ PreparationNext /\ stage \in IntakeStages
         \/ EndTraining /\ stage = "train" /\ stage' = "evaluate"
         \/ EndEvaluation /\ stage = "evaluate" /\ stage' = "explain"
         \/ EndExplanation /\ stage = "explain" /\ stage' = "rank"
         \/ Rank /\ stage = "rank" /\ stage' = "select"
         \/ (JudgeCandidate \/ UseFallback) /\ stage = "select" /\ stage' = "done"
<1>1. CASE PreparationNext
  BY <1>1 DEF PreparationNext, Validate_metadata, LoadDataset, DetectFrequency, AssessQuality,
       Preprocess, PersistCurated, VerifyCurated, GenerateGroups, BuildSeries, IntakeStages
<1>2. CASE TrainNext BY <1>2 DEF TrainNext, preparationVars
<1>3. CASE EndTraining BY <1>3 DEF EndTraining
<1>4. CASE EvaluateNext BY <1>4 DEF EvaluateNext, preparationVars
<1>5. CASE EndEvaluation BY <1>5 DEF EndEvaluation
<1>6. CASE ExplainNext BY <1>6 DEF ExplainNext, preparationVars
<1>7. CASE EndExplanation BY <1>7 DEF EndExplanation
<1>8. CASE Rank BY <1>8 DEF Rank
<1>9. CASE JudgeCandidate BY <1>9 DEF JudgeCandidate, Reject, Conclude
<1>10. CASE UseFallback BY <1>10 DEF UseFallback, Conclude
<1>11. CASE Done \/ UNCHANGED vars BY <1>11 DEF Done, vars, preparationVars
<1> QED BY <1>1, <1>2, <1>3, <1>4, <1>5, <1>6, <1>7, <1>8, <1>9, <1>10, <1>11 DEF Next

LEMMA PreparationIsFirst ==
  ASSUME PreparationNext
  PROVE  stage \in IntakeStages \ {"failed"} /\ stage' \in IntakeStages \cup {"train"}
BY DEF PreparationNext, Validate_metadata, LoadDataset, DetectFrequency, AssessQuality,
     Preprocess, PersistCurated, VerifyCurated, GenerateGroups, BuildSeries, IntakeStages,
     Advance, Refuse

LEMMA StagesAreApart ==
  /\ \A s \in Stages : s \notin IntakeStages
  /\ Stages = {"train", "evaluate", "explain", "rank", "select", "done"}
BY DEF Stages, IntakeStages

--------------------------------------------------------------------------------
(* The registry. *)

LEMMA SpecOfIs ==
  /\ \A i \in 1 .. Len(Registry) : Registry[i] \in Specs /\ SpecOf(Registry[i].name) = Registry[i]
  /\ \A name \in Names : SpecOf(name) \in Range(Registry) /\ SpecOf(name).name = name
  /\ \A i, j \in 1 .. Len(Registry) : Registry[i].name = Registry[j].name => i = j
<1>1. Registry \in Seq(Specs) /\ DOMAIN Registry = 1 .. Len(Registry) BY ModelsAssumption
<1>2. ASSUME NEW i \in 1 .. Len(Registry), NEW j \in 1 .. Len(Registry),
             Registry[i].name = Registry[j].name
      PROVE  i = j
  <2> DEFINE names == [k \in DOMAIN Registry |-> Registry[k].name]
  <2>1. names[i] = names[j] BY <1>1, <1>2
  <2>2. DOMAIN names = 1 .. Len(Registry) BY <1>1
  <2>3. IsInjective(names) BY ModelsAssumption
  <2> HIDE DEF names
  <2> QED BY <2>1, <2>2, <2>3 DEF IsInjective
<1>3. ASSUME NEW i \in 1 .. Len(Registry) PROVE SpecOf(Registry[i].name) = Registry[i]
  <2>1. Registry[i] \in Range(Registry) BY <1>1 DEF Range
  <2>2. \A spec \in Range(Registry) : spec.name = Registry[i].name => spec = Registry[i]
    BY <1>1, <1>2 DEF Range
  <2> QED BY <2>1, <2>2 DEF SpecOf
<1>4. ASSUME NEW name \in Names
      PROVE  SpecOf(name) \in Range(Registry) /\ SpecOf(name).name = name
  <2>1. \E spec \in Range(Registry) : spec.name = name BY DEF Names, Range
  <2> QED BY <2>1 DEF SpecOf
<1>5. \A i \in 1 .. Len(Registry) : Registry[i] \in Specs BY <1>1, SeqIs
<1> QED BY <1>2, <1>3, <1>4, <1>5

\* Where the elements of an At come from.
LEMMA AtPositions ==
  ASSUME NEW S, NEW s \in Seq(S), NEW places \in SUBSET (1 .. Len(s))
  PROVE  \E pos :
           /\ \A i \in 1 .. Len(At(s, places)) : pos[i] \in places /\ At(s, places)[i] = s[pos[i]]
           /\ \A i, j \in 1 .. Len(At(s, places)) : pos[i] = pos[j] => i = j
<1> DEFINE r == At(s, places)
<1>1. r \in Seq(S) BY AtTakes
<1>2. PICK pos : Taken(r, s, places, pos) BY AtTakes
<1> HIDE DEF r
<1>3. PICK l \in Nat : l = Len(r) BY <1>1
<1>4. /\ pos \in [1 .. l -> places]
      /\ \A i \in 1 .. l : r[i] = s[pos[i]]
      /\ \A i, j \in 1 .. l : i < j => pos[i] < pos[j]
  BY <1>2, <1>3 DEF Taken
<1>5. \A i \in 1 .. l : pos[i] \in Int
  <2>1. places \subseteq Int OBVIOUS
  <2> QED BY <1>4, <2>1
<1>6. ASSUME NEW i \in 1 .. l, NEW j \in 1 .. l, pos[i] = pos[j] PROVE i = j
  <2>1. ~(i < j) /\ ~(j < i) BY <1>4, <1>5, <1>6
  <2> QED BY <2>1
<1>7. \A i \in 1 .. Len(r) : pos[i] \in places /\ r[i] = s[pos[i]] BY <1>3, <1>4
<1>8. \A i, j \in 1 .. Len(r) : pos[i] = pos[j] => i = j BY <1>3, <1>6
<1> QED BY <1>7, <1>8 DEF r

LEMMA CandidatesAre ==
  /\ Candidates \in Seq(Specs)
  /\ \A i \in 1 .. Len(Candidates) :
       /\ Candidates[i].enabled /\ Candidates[i].name \in Names
       /\ Candidates[i] \in Range(Registry) /\ SpecOf(Candidates[i].name) = Candidates[i]
  /\ \A i, j \in 1 .. Len(Candidates) : Candidates[i].name = Candidates[j].name => i = j
<1> DEFINE those == {i \in DOMAIN Registry : Registry[i].enabled /\ Registry[i].name \in request.models}
<1>1. Registry \in Seq(Specs) BY ModelsAssumption
<1>2. Candidates = At(Registry, those) BY DEF Candidates, EnabledModels
<1>3. those \in SUBSET (1 .. Len(Registry)) /\ \A p \in those : Registry[p].enabled BY <1>1
<1> HIDE DEF those
<1>4. Candidates \in Seq(Specs) BY <1>1, <1>2, <1>3, AtTakes
<1>5. PICK pos : /\ \A i \in 1 .. Len(Candidates) : pos[i] \in those /\ Candidates[i] = Registry[pos[i]]
                 /\ \A i, j \in 1 .. Len(Candidates) : pos[i] = pos[j] => i = j
  BY <1>1, <1>2, <1>3, AtPositions
<1>6. \A p \in 1 .. Len(Registry) : Registry[p] \in Range(Registry) /\ Registry[p].name \in Names
  BY <1>1 DEF Range, Names
<1>7. ASSUME NEW i \in 1 .. Len(Candidates)
      PROVE  /\ Candidates[i].enabled /\ Candidates[i].name \in Names
             /\ Candidates[i] \in Range(Registry) /\ SpecOf(Candidates[i].name) = Candidates[i]
  <2>1. pos[i] \in 1 .. Len(Registry) /\ Candidates[i] = Registry[pos[i]] /\ Registry[pos[i]].enabled
    BY <1>3, <1>5
  <2> QED BY <1>6, <2>1, SpecOfIs
<1>8. ASSUME NEW i \in 1 .. Len(Candidates), NEW j \in 1 .. Len(Candidates),
             Candidates[i].name = Candidates[j].name
      PROVE  i = j
  <2>1. /\ pos[i] \in 1 .. Len(Registry) /\ Candidates[i] = Registry[pos[i]]
        /\ pos[j] \in 1 .. Len(Registry) /\ Candidates[j] = Registry[pos[j]]
    BY <1>3, <1>5
  <2>2. pos[i] = pos[j] BY <1>8, <2>1, SpecOfIs
  <2> QED BY <1>5, <2>2
<1> QED BY <1>4, <1>7, <1>8
--------------------------------------------------------------------------------
(* Training. *)

\* What is trained are the candidates, in their order, on histories long enough.
Trained ==
  /\ request \in Requests
  /\ training \in Seq(TrainedRecords)
  /\ Len(training) <= Len(Candidates)
  /\ \A i \in 1 .. Len(training) :
       /\ training[i].model = Candidates[i].name
       /\ training[i].status = "trained" => n >= Candidates[i].least
  /\ stage \in IntakeStages => training = <<>>

LEMMA SeriesIs ==
  ASSUME series \in SeriesOf
  PROVE  /\ series.values \in Seq(Nat) /\ series.values # <<>> /\ n \in Nat
         /\ series.horizon \in Nat \ {0} /\ series.frequency \in Frequencies
         /\ series.correlated \in SUBSET STRING
BY DEF SeriesOf, n

LEMMA AppendIs ==
  ASSUME NEW S, NEW s \in Seq(S), NEW x \in S, NEW r, r = Append(s, x)
  PROVE  /\ r \in Seq(S) /\ Len(r) = Len(s) + 1 /\ r[Len(s) + 1] = x
         /\ \A i \in 1 .. Len(s) : r[i] = s[i]
         /\ \A i \in 1 .. Len(r) : i \in 1 .. Len(s) \/ i = Len(s) + 1
OBVIOUS

LEMMA TrainOneIs ==
  ASSUME NEW spec, spec.name \in Names, series \in SeriesOf, spec.least \in Nat, TrainOne(spec)
  PROVE  \E t \in TrainedRecords :
           /\ training' = Append(training, t)
           /\ t.model = spec.name
           /\ t.status = "trained" => n >= spec.least
<1>1. n \in Nat BY SeriesIs
<1>2. PICK outcome \in {"trained", "failed", "skipped", "unavailable"}, tuned \in BOOLEAN :
        /\ outcome = "skipped" <=> outcome # "unavailable" /\ n < spec.least
        /\ training' = Append(training, [model |-> spec.name, status |-> outcome, tuned |-> tuned])
  BY DEF TrainOne
<1> DEFINE t == [model |-> spec.name, status |-> outcome, tuned |-> tuned]
<1>3. t \in TrainedRecords BY DEF TrainedRecords
<1>4. t.status = "trained" => n >= spec.least BY <1>1, <1>2
<1> QED BY <1>2, <1>3, <1>4

LEMMA TrainedNext == ASSUME Intake, Trained, [Next]_vars PROVE Trained'
<1>1. request' = request BY StepsTouch
<1>2. Candidates' = Candidates BY <1>1 DEF Candidates
<1>3. CASE PreparationNext
  <2>1. stage \in IntakeStages BY <1>3, PreparationIsFirst
  <2>2. training = <<>> /\ training' = training
    <3>1. ~TrainNext
      <4>1. stage # "train" BY <2>1 DEF IntakeStages
      <4> QED BY <4>1 DEF TrainNext
    <3> QED BY <2>1, <3>1, StepsTouch DEF Trained
  <2>3. <<>> \in Seq(TrainedRecords) /\ Len(<<>>) = 0 /\ \A i \in 1 .. 0 : FALSE OBVIOUS
  <2>4. Len(Candidates) \in Nat BY CandidatesAre
  <2>5. training' = <<>> BY <2>2
  <2> QED BY <1>1, <1>2, <2>3, <2>4, <2>5 DEF Trained
<1>4. CASE ~PreparationNext
  <2>1. series' = series BY <1>4, StepsTouch
  <2>2. n' = n BY <2>1 DEF n
  <2>3. stage' \in IntakeStages => stage \in IntakeStages
    <3>1. "evaluate" \notin IntakeStages /\ "explain" \notin IntakeStages /\ "rank" \notin IntakeStages
          /\ "select" \notin IntakeStages /\ "done" \notin IntakeStages
      BY DEF IntakeStages
    <3> QED BY <1>4, <3>1, StagesFollow
  <2>4. CASE TrainNext
    <3> DEFINE l == Len(training)
               spec == Candidates[l + 1]
    <3>1. stage = "train" /\ stage' = stage /\ l < Len(Candidates) /\ TrainOne(spec)
      BY <2>4 DEF TrainNext, preparationVars
    <3>2. l \in Nat /\ Len(Candidates) \in Nat BY CandidatesAre DEF Trained
    <3>3. l + 1 \in 1 .. Len(Candidates) BY <3>1, <3>2
    <3>4. spec \in Specs /\ spec.name \in Names BY <3>3, CandidatesAre, SeqIs
    <3>5. spec.least \in Nat BY <3>4 DEF Specs
    <3>6. series \in SeriesOf BY <3>1, StagesAreApart DEF Intake
    <3> HIDE DEF spec
    <3>7. PICK t \in TrainedRecords :
            /\ training' = Append(training, t)
            /\ t.model = spec.name
            /\ t.status = "trained" => n >= spec.least
      BY <3>1, <3>4, <3>5, <3>6, TrainOneIs
    <3>8. training \in Seq(TrainedRecords) BY DEF Trained
    <3>9. /\ training' \in Seq(TrainedRecords) /\ Len(training') = l + 1 /\ training'[l + 1] = t
          /\ \A i \in 1 .. l : training'[i] = training[i]
          /\ \A i \in 1 .. l + 1 : i \in 1 .. l \/ i = l + 1
      BY <3>7, <3>8, AppendIs
    <3>10. Len(training') <= Len(Candidates) BY <3>1, <3>2, <3>9
    <3> HIDE DEF l
    <3>11. ASSUME NEW i \in 1 .. Len(training')
           PROVE  /\ training'[i].model = Candidates[i].name
                  /\ training'[i].status = "trained" => n >= Candidates[i].least
      <4>1. CASE i \in 1 .. l BY <3>9, <4>1 DEF Trained, l
      <4>2. CASE i = l + 1 BY <3>7, <3>9, <4>2 DEF spec
      <4> QED BY <3>9, <3>11, <4>1, <4>2
    <3>12. stage' \notin IntakeStages BY <3>1 DEF IntakeStages
    <3> QED BY <1>1, <1>2, <2>2, <3>9, <3>10, <3>11, <3>12 DEF Trained
  <2>5. CASE ~TrainNext
    <3>1. training' = training BY <2>5, StepsTouch
    <3> QED BY <1>1, <1>2, <2>2, <2>3, <3>1 DEF Trained
  <2> QED BY <2>4, <2>5
<1> QED BY <1>3, <1>4

LEMMA TrainedInit == Init => Trained
<1> SUFFICES ASSUME Init PROVE Trained
  OBVIOUS
<1>1. training = <<>> /\ request \in Requests BY DEF Init, EvaluationInit
<1>2. Len(Candidates) \in Nat BY CandidatesAre
<1>3. <<>> \in Seq(TrainedRecords) /\ Len(<<>>) = 0 /\ \A i \in 1 .. 0 : FALSE OBVIOUS
<1> QED BY <1>1, <1>2, <1>3 DEF Trained

LEMMA EvaluableIs ==
  ASSUME Trained
  PROVE  /\ Evaluable \in Seq(TrainedRecords)
         /\ \A i \in 1 .. Len(Evaluable) :
              /\ Evaluable[i].status = "trained" /\ Evaluable[i].model \in Names
              /\ Evaluable[i] \in Range(training)
              /\ SpecOf(Evaluable[i].model).enabled /\ n >= SpecOf(Evaluable[i].model).least
         /\ \A i, j \in 1 .. Len(Evaluable) : Evaluable[i].model = Evaluable[j].model => i = j
<1> DEFINE those == {i \in DOMAIN training : training[i].status = "trained"}
<1>1. training \in Seq(TrainedRecords) /\ DOMAIN training = 1 .. Len(training) BY SeqIs DEF Trained
<1>2. Evaluable = At(training, those) BY DEF Evaluable
<1>3. those \in SUBSET (1 .. Len(training)) /\ \A p \in those : training[p].status = "trained"
  BY <1>1
<1> HIDE DEF those
<1>4. Evaluable \in Seq(TrainedRecords) BY <1>1, <1>2, <1>3, AtTakes
<1>5. PICK pos : /\ \A i \in 1 .. Len(Evaluable) : pos[i] \in those /\ Evaluable[i] = training[pos[i]]
                 /\ \A i, j \in 1 .. Len(Evaluable) : pos[i] = pos[j] => i = j
  BY <1>1, <1>2, <1>3, AtPositions
<1>6. \A p \in 1 .. Len(training) : p \in 1 .. Len(Candidates)
  <2>1. Len(training) \in Nat /\ Len(Candidates) \in Nat /\ Len(training) <= Len(Candidates)
    BY <1>1, CandidatesAre DEF Trained
  <2> QED BY <2>1
<1>7. \A p \in those : /\ p \in 1 .. Len(Candidates) /\ training[p].model = Candidates[p].name
                       /\ training[p].status = "trained" /\ n >= Candidates[p].least
                       /\ training[p] \in Range(training)
  BY <1>1, <1>3, <1>6 DEF Trained, Range
<1>8. ASSUME NEW i \in 1 .. Len(Evaluable)
      PROVE  /\ Evaluable[i].status = "trained" /\ Evaluable[i].model \in Names
             /\ Evaluable[i] \in Range(training)
             /\ SpecOf(Evaluable[i].model).enabled /\ n >= SpecOf(Evaluable[i].model).least
  BY <1>5, <1>7, CandidatesAre
<1>9. ASSUME NEW i \in 1 .. Len(Evaluable), NEW j \in 1 .. Len(Evaluable),
             Evaluable[i].model = Evaluable[j].model
      PROVE  i = j
  <2>1. /\ pos[i] \in 1 .. Len(Candidates) /\ Evaluable[i].model = Candidates[pos[i]].name
        /\ pos[j] \in 1 .. Len(Candidates) /\ Evaluable[j].model = Candidates[pos[j]].name
    BY <1>5, <1>7
  <2>2. pos[i] = pos[j] BY <1>9, <2>1, CandidatesAre
  <2> QED BY <1>5, <2>2
<1> QED BY <1>4, <1>8, <1>9
--------------------------------------------------------------------------------
(* Evaluation. *)

\* What a surviving forecast went through.
Passed(e) ==
  e.status = "survived" =>
    /\ Len(e.forecast) = series.horizon
    /\ Validate(series, e.forecast).failed = {}
    /\ e.judged = Validate(series, e.forecast).judged

\* What is evaluated are the models that were trained, in their order.
Evaluated ==
  /\ evaluation \in Seq(Results)
  /\ Len(evaluation) <= Len(Evaluable)
  /\ \A i \in 1 .. Len(evaluation) :
       evaluation[i].model = Evaluable[i].model /\ Passed(evaluation[i])
  /\ stage \in IntakeStages \cup {"train"} => evaluation = <<>>

LEMMA ValidateIs ==
  \A s, f : /\ Validate(s, f).judged \in BOOLEAN
            /\ Validate(s, f).failed \in SUBSET Rules
BY DEF Validate

LEMMA KeptIs ==
  ASSUME NEW S, NEW s \in Seq(S), NEW v
  PROVE  At(s, {i \in DOMAIN s : s[i].status = v}) \in Seq(S)
<1> DEFINE those == {i \in DOMAIN s : s[i].status = v}
<1>1. those \in SUBSET (1 .. Len(s)) OBVIOUS
<1> HIDE DEF those
<1>2. At(s, those) \in Seq(S) BY <1>1, AtTakes
<1> QED BY <1>2 DEF those

LEMMA FoldsAre == ASSUME n \in Nat PROVE Len(Folds) \in Nat
<1> DEFINE x == (n - MinTrain) \div FoldHorizon
           y == Max({0, x})
           z == Min({MaxFolds, y})
<1>1. x \in Int BY DEF MinTrain, FoldHorizon
<1> HIDE DEF x
<1>2. y \in Nat BY <1>1, MaxOfTwo
<1> HIDE DEF y
<1>3. z \in Nat BY <1>2, MinOfTwo DEF MaxFolds
<1>4. Folds = [i \in 1 .. z |-> <<(i - 1) * FoldHorizon + 1, (i - 1) * FoldHorizon + MinTrain>>]
  BY DEF Folds, x, y
<1> HIDE DEF z
<1>5. Len(Folds) = z BY <1>3, <1>4
<1> QED BY <1>3, <1>5

LEMMA OutcomesAre ==
  ASSUME LibrariesAnswer, series \in SeriesOf, NEW spec, NEW outcome \in Outcomes(spec)
  PROVE  /\ outcome.status \in {"survived", "eliminated", "failed"}
         /\ outcome.forecast \in Seq(Int \cup {NaN})
         /\ outcome.judged \in BOOLEAN /\ outcome.failed \in SUBSET Rules
         /\ Passed(outcome)
<1>1. series.horizon \in Nat BY SeriesIs
<1>2. Answers(spec) \in SUBSET Seq(Int \cup {NaN}) BY AnswersAre
<1>3. CASE \E answer \in {a \in Answers(spec) : Len(a) >= series.horizon} : outcome = Judged(answer)
  <2>1. PICK answer \in Answers(spec) : Len(answer) >= series.horizon /\ outcome = Judged(answer)
    BY <1>3
  <2> DEFINE f == SubSeq(answer, 1, series.horizon)
  <2>2. f \in Seq(Int \cup {NaN}) /\ Len(f) = series.horizon
    <3>1. answer \in Seq(Int \cup {NaN}) BY <1>2
    <3>2. PICK l \in Nat : l = Len(answer) BY <3>1
    <3>3. PICK h \in Nat : h = series.horizon /\ h <= l BY <1>1, <2>1, <3>2
    <3>4. SubSeq(answer, 1, h) \in Seq(Int \cup {NaN}) /\ Len(SubSeq(answer, 1, h)) = h
      BY <3>1, <3>2, <3>3
    <3> QED BY <3>3, <3>4
  <2>3. /\ outcome.status = IF Validate(series, f).failed = {} THEN "survived" ELSE "eliminated"
        /\ outcome.forecast = f /\ outcome.judged = Validate(series, f).judged
        /\ outcome.failed = Validate(series, f).failed
    BY <2>1 DEF Judged
  <2> HIDE DEF f
  <2>4. Validate(series, f).judged \in BOOLEAN /\ Validate(series, f).failed \in SUBSET Rules
    BY ValidateIs
  <2>5. outcome.status = "survived" => Validate(series, f).failed = {} BY <2>3
  <2>6. Passed(outcome) BY <2>2, <2>3, <2>5 DEF Passed
  <2> QED BY <2>2, <2>3, <2>4, <2>6
<1>4. CASE outcome = [status |-> "failed", forecast |-> <<>>, judged |-> FALSE, failed |-> {}]
  BY <1>4 DEF Passed
<1> QED BY <1>3, <1>4 DEF Outcomes

LEMMA EvaluateOneIs ==
  ASSUME LibrariesAnswer, series \in SeriesOf, NEW spec, spec.name \in Names, EvaluateOne(spec)
  PROVE  \E e \in Results : /\ evaluation' = Append(evaluation, e)
                            /\ e.model = spec.name /\ Passed(e)
<1>1. PICK outcome \in Outcomes(spec), k \in {0, Len(Folds)},
           errors \in FoldErrors \cup {NothingMeasured}, width \in IntervalWidths(spec) \cup {None} :
        evaluation' = Append(evaluation,
          [model |-> spec.name, status |-> outcome.status, folds |-> k, errors |-> errors,
           forecast |-> outcome.forecast, width |-> width, judged |-> outcome.judged,
           failed |-> outcome.failed])
  BY DEF EvaluateOne
<1> DEFINE e == [model |-> spec.name, status |-> outcome.status, folds |-> k, errors |-> errors,
                 forecast |-> outcome.forecast, width |-> width, judged |-> outcome.judged,
                 failed |-> outcome.failed]
<1>2. k \in Nat BY FoldsAre, SeriesIs
<1>3. width \in Widths \cup {None} BY DEF IntervalWidths
<1>4. /\ outcome.status \in {"survived", "eliminated", "failed"}
      /\ outcome.forecast \in Seq(Int \cup {NaN})
      /\ outcome.judged \in BOOLEAN /\ outcome.failed \in SUBSET Rules
      /\ Passed(outcome)
  BY OutcomesAre
<1>5. e \in Results BY <1>2, <1>3, <1>4 DEF Results
<1>6. Passed(e) BY <1>4 DEF Passed
<1> QED BY <1>1, <1>5, <1>6

LEMMA EvaluatedNext ==
  ASSUME LibrariesAnswer, Intake, Trained, Evaluated, [Next]_vars
  PROVE  Evaluated'
<1>1. CASE PreparationNext \/ TrainNext
  <2>1. stage \in IntakeStages \cup {"train"} BY <1>1, PreparationIsFirst DEF TrainNext
  <2>2. evaluation' = <<>>
    <3>1. stage # "evaluate" BY <2>1 DEF IntakeStages
    <3>2. ~EvaluateNext BY <3>1 DEF EvaluateNext
    <3> QED BY <2>1, <3>2, StepsTouch DEF Evaluated
  <2>3. Trained' BY TrainedNext
  <2>4. Len(Evaluable') \in Nat
    <3>1. training' \in Seq(TrainedRecords) BY <2>3 DEF Trained
    <3>2. Evaluable' \in Seq(TrainedRecords) BY <3>1, KeptIs DEF Evaluable
    <3> QED BY <3>2
  <2>5. <<>> \in Seq(Results) /\ Len(<<>>) = 0 /\ \A i \in 1 .. 0 : FALSE OBVIOUS
  <2> QED BY <2>2, <2>4, <2>5 DEF Evaluated
<1>2. CASE ~PreparationNext /\ ~TrainNext
  <2>1. series' = series /\ training' = training BY <1>2, StepsTouch
  <2>2. Evaluable' = Evaluable BY <2>1 DEF Evaluable
  <2>3. stage' \in IntakeStages \cup {"train"} => stage \in IntakeStages \cup {"train"}
    <3>1. \A s \in {"evaluate", "explain", "rank", "select", "done"} : s \notin IntakeStages \cup {"train"}
      BY DEF IntakeStages
    <3> QED BY <1>2, <3>1, StagesFollow
  <2>4. CASE EvaluateNext
    <3> DEFINE l == Len(evaluation)
               spec == SpecOf(Evaluable[l + 1].model)
    <3>1. stage = "evaluate" /\ stage' = stage /\ l < Len(Evaluable) /\ EvaluateOne(spec)
      BY <2>4 DEF EvaluateNext, preparationVars
    <3>2. l \in Nat /\ Len(Evaluable) \in Nat BY EvaluableIs DEF Evaluated
    <3>3. l + 1 \in 1 .. Len(Evaluable) BY <3>1, <3>2
    <3>4. Evaluable[l + 1].model \in Names BY <3>3, EvaluableIs
    <3>5. spec.name = Evaluable[l + 1].model BY <3>4, SpecOfIs
    <3>6. series \in SeriesOf BY <3>1, StagesAreApart DEF Intake
    <3> HIDE DEF spec
    <3>7. PICK e \in Results : /\ evaluation' = Append(evaluation, e)
                               /\ e.model = spec.name /\ Passed(e)
      BY <3>1, <3>4, <3>5, <3>6, EvaluateOneIs
    <3>8. evaluation \in Seq(Results) BY DEF Evaluated
    <3>9. /\ evaluation' \in Seq(Results) /\ Len(evaluation') = l + 1 /\ evaluation'[l + 1] = e
          /\ \A i \in 1 .. l : evaluation'[i] = evaluation[i]
          /\ \A i \in 1 .. l + 1 : i \in 1 .. l \/ i = l + 1
      BY <3>7, <3>8, AppendIs
    <3>10. Len(evaluation') <= Len(Evaluable) BY <3>1, <3>2, <3>9
    <3> HIDE DEF l
    <3>11. ASSUME NEW i \in 1 .. Len(evaluation')
           PROVE  evaluation'[i].model = Evaluable[i].model /\ Passed(evaluation'[i])
      <4>1. CASE i \in 1 .. l BY <3>9, <4>1 DEF Evaluated, l
      <4>2. CASE i = l + 1 BY <3>5, <3>7, <3>9, <4>2
      <4> QED BY <3>9, <3>11, <4>1, <4>2
    <3>12. \A i \in 1 .. Len(evaluation') : Passed(evaluation[i])' BY <2>1, <3>11 DEF Passed
    <3>13. stage' \notin IntakeStages \cup {"train"} BY <3>1 DEF IntakeStages
    <3> QED BY <2>2, <3>9, <3>10, <3>11, <3>12, <3>13 DEF Evaluated
  <2>5. CASE ~EvaluateNext
    <3>1. evaluation' = evaluation BY <2>5, StepsTouch
    <3>2. \A i \in 1 .. Len(evaluation) : Passed(evaluation[i])' BY <2>1, <3>1 DEF Passed, Evaluated
    <3> QED BY <2>2, <2>3, <3>1, <3>2 DEF Evaluated
  <2> QED BY <2>4, <2>5
<1> QED BY <1>1, <1>2

LEMMA EvaluatedInit == Init => Evaluated
<1> SUFFICES ASSUME Init PROVE Evaluated
  OBVIOUS
<1>1. evaluation = <<>> BY DEF Init, EvaluationInit
<1>2. Len(Evaluable) \in Nat BY TrainedInit, EvaluableIs
<1>3. <<>> \in Seq(Results) /\ Len(<<>>) = 0 /\ \A i \in 1 .. 0 : FALSE OBVIOUS
<1> QED BY <1>1, <1>2, <1>3 DEF Evaluated

\* The survivors are among what was evaluated, and no two are of one model.
LEMMA SurvivorsPassed ==
  ASSUME Trained, Evaluated
  PROVE  /\ Survivors \in Seq(Results)
         /\ \A i \in 1 .. Len(Survivors) :
              /\ Survivors[i].status = "survived" /\ Passed(Survivors[i])
              /\ Survivors[i].model \in Names
              /\ \E t \in Range(training) : t.model = Survivors[i].model /\ t.status = "trained"
              /\ SpecOf(Survivors[i].model).enabled /\ n >= SpecOf(Survivors[i].model).least
         /\ \A i, j \in 1 .. Len(Survivors) : Survivors[i].model = Survivors[j].model => i = j
<1> DEFINE those == {i \in DOMAIN evaluation : evaluation[i].status = "survived"}
<1>1. evaluation \in Seq(Results) /\ DOMAIN evaluation = 1 .. Len(evaluation) BY SeqIs DEF Evaluated
<1>2. Survivors = At(evaluation, those) BY DEF Survivors
<1>3. those \in SUBSET (1 .. Len(evaluation)) /\ \A p \in those : evaluation[p].status = "survived"
  BY <1>1
<1> HIDE DEF those
<1>4. Survivors \in Seq(Results) BY <1>1, <1>2, <1>3, AtTakes
<1>5. PICK pos : /\ \A i \in 1 .. Len(Survivors) : pos[i] \in those /\ Survivors[i] = evaluation[pos[i]]
                 /\ \A i, j \in 1 .. Len(Survivors) : pos[i] = pos[j] => i = j
  BY <1>1, <1>2, <1>3, AtPositions
<1>6. \A p \in 1 .. Len(evaluation) : p \in 1 .. Len(Evaluable)
  <2>1. Len(evaluation) \in Nat /\ Len(Evaluable) \in Nat /\ Len(evaluation) <= Len(Evaluable)
    BY <1>1, EvaluableIs DEF Evaluated
  <2> QED BY <2>1
<1>7. \A p \in those : /\ p \in 1 .. Len(Evaluable) /\ evaluation[p].model = Evaluable[p].model
                       /\ evaluation[p].status = "survived" /\ Passed(evaluation[p])
  BY <1>1, <1>3, <1>6 DEF Evaluated
<1>8. ASSUME NEW i \in 1 .. Len(Survivors)
      PROVE  /\ Survivors[i].status = "survived" /\ Passed(Survivors[i])
             /\ Survivors[i].model \in Names
             /\ \E t \in Range(training) : t.model = Survivors[i].model /\ t.status = "trained"
             /\ SpecOf(Survivors[i].model).enabled /\ n >= SpecOf(Survivors[i].model).least
  <2> DEFINE p == pos[i]
  <2>1. p \in 1 .. Len(Evaluable) /\ Survivors[i] = evaluation[p]
        /\ evaluation[p].model = Evaluable[p].model /\ evaluation[p].status = "survived"
        /\ Passed(evaluation[p])
    BY <1>5, <1>7
  <2> HIDE DEF p
  <2>2. /\ Evaluable[p].status = "trained" /\ Evaluable[p].model \in Names
        /\ Evaluable[p] \in Range(training)
        /\ SpecOf(Evaluable[p].model).enabled /\ n >= SpecOf(Evaluable[p].model).least
    BY <2>1, EvaluableIs
  <2>3. Survivors[i].model = Evaluable[p].model BY <2>1
  <2> QED BY <2>1, <2>2, <2>3
<1>9. ASSUME NEW i \in 1 .. Len(Survivors), NEW j \in 1 .. Len(Survivors),
             Survivors[i].model = Survivors[j].model
      PROVE  i = j
  <2>1. /\ pos[i] \in 1 .. Len(Evaluable) /\ Survivors[i].model = Evaluable[pos[i]].model
        /\ pos[j] \in 1 .. Len(Evaluable) /\ Survivors[j].model = Evaluable[pos[j]].model
    BY <1>5, <1>7
  <2>2. pos[i] = pos[j] BY <1>9, <2>1, EvaluableIs
  <2> QED BY <1>5, <2>2
<1> QED BY <1>4, <1>8, <1>9
--------------------------------------------------------------------------------
(* Explanation. *)

\* What is explained are the survivors.
Explained ==
  /\ explanations \in Seq(Explanations)
  /\ Len(explanations) <= Len(Survivors)
  /\ stage \in {"rank", "select", "done"} => Len(explanations) = Len(Survivors)
  /\ stage \in IntakeStages \cup {"train", "evaluate"} => explanations = <<>>

LEMMA SharesAre ==
  ASSUME NEW S, NEW s \in Seq(S), \A x \in S : x.share \in Nat
  PROVE  Column(s, "share") \in Seq(Nat) /\ Len(Column(s, "share")) = Len(s)
<1> DEFINE c == Column(s, "share")
           all == {s[i]["share"] : i \in 1 .. Len(s)}
<1>1. c \in Seq(all) /\ Len(c) = Len(s) /\ \A i \in 1 .. Len(s) : c[i] = s[i].share
  <2>1. c \in Seq(all) /\ Len(c) = Len(s) /\ \A i \in 1 .. Len(s) : c[i] = s[i]["share"]
    BY ColumnIs
  <2> QED BY <2>1
<1> HIDE DEF c, all
<1>2. \A i \in 1 .. Len(c) : c[i] \in Nat BY <1>1, SeqIs
<1>3. c \in Seq(Nat) BY <1>1, <1>2, SeqRetyped
<1> QED BY <1>1, <1>3 DEF c

LEMMA PlausibilityIs ==
  ASSUME NEW point \in Importances, NEW rows
  PROVE  Plausibility(point, rows) \in 0 .. 100
<1> DEFINE S == [feature: STRING, share: Nat]
           shares == Column(point, "share")
           plausible == {i \in DOMAIN point : rows = n /\ point[i].feature \in series.correlated}
<1>1. point \in Seq(S) BY SelectionAssumption
<1>2. \A x \in S : x.share \in Nat OBVIOUS
<1> HIDE DEF S
<1>3. shares \in Seq(Nat) /\ Len(shares) = Len(point) BY <1>1, <1>2, SharesAre
<1>4. plausible \in SUBSET (1 .. Len(shares)) BY <1>1, <1>3
<1>5. Plausibility(point, rows) =
        IF Total(shares) = 0 THEN 100 ELSE (100 * Total(At(shares, plausible))) \div Total(shares)
  BY DEF Plausibility
<1> HIDE DEF shares, plausible
<1> DEFINE a == Total(At(shares, plausible))
           w == Total(shares)
<1>6. a \in Nat /\ a <= w /\ w \in Nat BY <1>3, <1>4, TotalOfPart, TotalOfNats
<1> HIDE DEF a, w
<1>7. ASSUME w # 0 PROVE (100 * a) \div w \in 0 .. 100
  <2>1. w > 0 /\ 100 * a \in Int /\ 0 <= 100 * a /\ 100 * a <= 100 * w /\ 100 \in Nat BY <1>6, <1>7
  <2> QED BY <1>6, <2>1, QuotientWithin
<1> QED BY <1>5, <1>7 DEF a, w

LEMMA ExplanationScoreIs ==
  ASSUME NEW plausibility \in 0 .. 100, NEW window \in Agreements, NEW horizon \in Agreements
  PROVE  ExplanationScore(plausibility, window, horizon) \in 0 .. 100
<1> DEFINE weight == 30 + (IF window = None THEN 0 ELSE 40) + (IF horizon = None THEN 0 ELSE 30)
           sum == 30 * plausibility + (IF window = None THEN 0 ELSE 40 * window)
                                    + (IF horizon = None THEN 0 ELSE 30 * horizon)
<1>1. window \in 0 .. 100 \cup {None} /\ horizon \in 0 .. 100 \cup {None} BY SelectionAssumption
<1>2. weight \in Nat /\ weight > 0 /\ sum \in Int /\ 0 <= sum /\ sum <= 100 * weight BY <1>1
<1>3. ExplanationScore(plausibility, window, horizon) = sum \div weight BY DEF ExplanationScore
<1> HIDE DEF weight, sum
<1>4. 100 \in Nat OBVIOUS
<1> QED BY <1>2, <1>3, <1>4, QuotientWithin

LEMMA ExplainIs ==
  ASSUME NEW spec, spec.name \in Names, Explain(spec)
  PROVE  \E x \in Explanations : explanations' = Append(explanations, x)
<1>1. PICK point \in Importances, window \in Agreements, horizon \in Agreements :
        LET tree == spec.family = "tree"
            rows == IF tree THEN n - DroppedRows(n) ELSE n
            record == [model |-> spec.name,
                       method |-> IF tree THEN "importance" ELSE "permutation",
                       point |-> point, plausibility |-> Plausibility(point, rows),
                       score |-> ExplanationScore(Plausibility(point, rows), window, horizon)]
        IN  \/ explanations' = Append(explanations, record)
            \/ explanations' = Append(explanations, NoExplanation(spec.name))
  BY DEF Explain
<1> DEFINE rows == IF spec.family = "tree" THEN n - DroppedRows(n) ELSE n
           p == Plausibility(point, rows)
           score == ExplanationScore(p, window, horizon)
           record == [model |-> spec.name,
                      method |-> IF spec.family = "tree" THEN "importance" ELSE "permutation",
                      point |-> point, plausibility |-> p, score |-> score]
<1>2. p \in 0 .. 100 BY PlausibilityIs
<1>3. score \in 0 .. 100 BY <1>2, ExplanationScoreIs
<1>4. record \in Explanations
  <2> HIDE DEF p, score
  <2> QED BY <1>2, <1>3 DEF Explanations
<1>5. NoExplanation(spec.name) \in Explanations BY DEF NoExplanation, Explanations
<1>6. \/ explanations' = Append(explanations, record)
      \/ explanations' = Append(explanations, NoExplanation(spec.name))
  BY <1>1
<1> HIDE DEF record
<1> QED BY <1>4, <1>5, <1>6

LEMMA ExplainedNext ==
  ASSUME LibrariesAnswer, Intake, Trained, Evaluated, Explained, [Next]_vars
  PROVE  Explained'
<1>1. CASE stage \in IntakeStages \cup {"train", "evaluate"}
  <2>1. stage \notin {"explain", "rank", "select", "done"} BY <1>1 DEF IntakeStages
  <2>2. explanations' = <<>> BY <1>1, <2>1, StepsTouch DEF Explained, ExplainNext
  <2>3. stage' \notin {"rank", "select", "done"}
    <3>1. stage' = stage \/ PreparationNext \/ stage' \in {"evaluate", "explain"}
      BY <2>1, StagesFollow
    <3>2. PreparationNext => stage' \notin {"rank", "select", "done"}
      BY PreparationIsFirst DEF IntakeStages
    <3> QED BY <2>1, <3>1, <3>2
  <2>4. Len(Survivors') \in Nat
    <3>1. evaluation' \in Seq(Results) BY EvaluatedNext DEF Evaluated
    <3>2. Survivors' \in Seq(Results) BY <3>1, KeptIs DEF Survivors
    <3> QED BY <3>2
  <2>5. <<>> \in Seq(Explanations) /\ Len(<<>>) = 0 OBVIOUS
  <2> QED BY <2>2, <2>3, <2>4, <2>5 DEF Explained
<1>2. CASE stage \in {"explain", "rank", "select", "done"}
  <2>1. /\ stage \notin IntakeStages \cup {"train", "evaluate"}
        /\ \A s \in {"explain", "rank", "select", "done"} : s \notin IntakeStages \cup {"train", "evaluate"}
    BY <1>2 DEF IntakeStages
  <2>2. stage' \in {"explain", "rank", "select", "done"} BY <1>2, <2>1, StagesFollow
  <2>3. evaluation' = evaluation
    <3>1. ~EvaluateNext BY <1>2 DEF EvaluateNext
    <3> QED BY <3>1, StepsTouch
  <2>4. Survivors' = Survivors BY <2>3, SurvivorsStay
  <2>5. CASE ExplainNext
    <3> DEFINE l == Len(explanations)
               spec == SpecOf(Survivors[l + 1].model)
    <3>1. stage = "explain" /\ stage' = stage /\ l < Len(Survivors) /\ Explain(spec)
      BY <2>5 DEF ExplainNext, preparationVars
    <3>2. l \in Nat /\ Len(Survivors) \in Nat BY SurvivorsPassed DEF Explained
    <3>3. l + 1 \in 1 .. Len(Survivors) BY <3>1, <3>2
    <3>4. spec.name \in Names BY <3>3, SurvivorsPassed, SpecOfIs
    <3> HIDE DEF spec
    <3>5. PICK x \in Explanations : explanations' = Append(explanations, x) BY <3>1, <3>4, ExplainIs
    <3>6. explanations' \in Seq(Explanations) /\ Len(explanations') = l + 1
      <4>1. explanations \in Seq(Explanations) BY DEF Explained
      <4> QED BY <3>5, <4>1, AppendIs
    <3>7. Len(explanations') <= Len(Survivors) BY <3>1, <3>2, <3>6
    <3> QED BY <2>1, <2>4, <3>1, <3>6, <3>7 DEF Explained
  <2>6. CASE EndExplanation
    <3>1. explanations' = explanations /\ Len(explanations) = Len(Survivors)
      BY <2>6 DEF EndExplanation, decisionVars
    <3> QED BY <2>1, <2>2, <2>4, <3>1 DEF Explained
  <2>7. CASE ~ExplainNext /\ ~EndExplanation
    <3>1. explanations' = explanations BY <2>7, StepsTouch
    <3>2. stage' \in {"rank", "select", "done"} => stage \in {"rank", "select", "done"}
      BY <1>2, <2>1, <2>7, StagesFollow
    <3> QED BY <2>1, <2>2, <2>4, <3>1, <3>2 DEF Explained
  <2> QED BY <2>5, <2>6, <2>7
<1> QED BY <1>1, <1>2, StagesAreApart DEF Intake

LEMMA ExplainedInit == Init => Explained
<1> SUFFICES ASSUME Init PROVE Explained
  OBVIOUS
<1>1. explanations = <<>> /\ stage = "validate" BY DEF Init, PreparationInit
<1>2. Len(Survivors) \in Nat BY EvaluatedInit, SurvivorsAre DEF Evaluated
<1>3. <<>> \in Seq(Explanations) /\ Len(<<>>) = 0 OBVIOUS
<1> QED BY <1>1, <1>2, <1>3 DEF Explained
--------------------------------------------------------------------------------
(* Selection. *)

\* What a decision rests on.
Justified ==
  /\ selection \in Selections
  /\ selection.status = "selected" =>
       /\ Len(rejected) < Len(ranking)
       /\ selection.model = ranking[Len(rejected) + 1].model
       /\ selection.forecast = ranking[Len(rejected) + 1].forecast
  /\ selection.status # "selected" => Len(rejected) = Len(ranking)
  /\ selection.status = "fallback" /\ SpecOf(selection.model).family = "naive" =>
       selection.forecast = SeasonalNaive(series.values, series.horizon)

\* The ranking is walked best first.
Walked ==
  /\ stage \notin {"select", "done"} => ranking = <<>> /\ rejected = <<>>
  /\ stage \in {"select", "done"} => ranking = Ranking
  /\ rejected \in Seq(Rejections)
  /\ Len(rejected) <= Len(ranking)
  /\ \A k \in 1 .. Len(rejected) : rejected[k].model = ranking[k].model
  /\ stage # "done" => selection = NoSelection
  /\ stage = "done" => Justified

LEMMA AlgorithmsAre == \A h : PossibleAlgorithms(h) \in SUBSET Algorithms
BY DEF PossibleAlgorithms, Algorithms

LEMMA RankingTyped ==
  ASSUME Evaluated, Explained, Walked
  PROVE  ranking \in Seq(Ranked)
<1>1. CASE stage \in {"select", "done"}
  <2>1. ScoresReady BY <1>1 DEF ScoresReady, Evaluated, Explained
  <2> QED BY <1>1, <2>1, RankingIsAPermutation DEF Walked
<1>2. CASE stage \notin {"select", "done"} BY <1>2 DEF Walked
<1> QED BY <1>1, <1>2

LEMMA RejectIs ==
  ASSUME Evaluated, Explained, Walked, stage = "select", Len(rejected) < Len(ranking),
         NEW algorithm \in Algorithms \cup {"none"}, Reject(algorithm),
         UNCHANGED <<evaluation, explanations, ranking>>
  PROVE  Walked'
<1> DEFINE l == Len(rejected)
           x == [model |-> Candidate.model, algorithm |-> algorithm]
<1>1. ranking \in Seq(Ranked) /\ rejected \in Seq(Rejections) BY RankingTyped DEF Walked
<1>2. l \in Nat /\ Len(ranking) \in Nat /\ l < Len(ranking) BY <1>1
<1>3. l + 1 \in 1 .. Len(ranking) BY <1>2
<1>4. x \in Rejections
  <2>1. Candidate \in Ranked BY <1>1, <1>3, SeqIs DEF Candidate
  <2> QED BY <2>1 DEF Ranked, Rejections
<1>5. x.model = ranking[l + 1].model BY DEF Candidate
<1>6. rejected' = Append(rejected, x) /\ stage' = stage /\ selection' = selection BY DEF Reject
<1> HIDE DEF x
<1>7. /\ rejected' \in Seq(Rejections) /\ Len(rejected') = l + 1 /\ rejected'[l + 1] = x
      /\ \A i \in 1 .. l : rejected'[i] = rejected[i]
      /\ \A i \in 1 .. l + 1 : i \in 1 .. l \/ i = l + 1
  BY <1>1, <1>4, <1>6, AppendIs
<1>8. Len(rejected') <= Len(ranking') BY <1>2, <1>7
<1> HIDE DEF l
<1>9. ASSUME NEW k \in 1 .. Len(rejected') PROVE rejected'[k].model = ranking'[k].model
  <2>1. CASE k \in 1 .. l BY <1>7, <2>1 DEF Walked, l
  <2>2. CASE k = l + 1 BY <1>5, <1>7, <2>2
  <2> QED BY <1>7, <1>9, <2>1, <2>2
<1>10. Ranking' = Ranking BY RankingStays
<1> QED BY <1>6, <1>7, <1>8, <1>9, <1>10 DEF Walked

LEMMA ConcludeIs ==
  ASSUME Evaluated, Explained, Walked, stage = "select",
         NEW status, NEW model, NEW algorithm, NEW forecast,
         Conclude(status, model, algorithm, forecast), UNCHANGED <<evaluation, explanations, ranking>>,
         Justified'
  PROVE  Walked'
<1>1. rejected' = rejected /\ stage' = "done" BY DEF Conclude
<1>2. Ranking' = Ranking BY RankingStays
<1> QED BY <1>1, <1>2 DEF Walked

LEMMA WalkedNext ==
  ASSUME LibrariesAnswer, Intake, Trained, Evaluated, Explained, Walked, [Next]_vars
  PROVE  Walked'
<1>1. CASE stage \notin {"rank", "select", "done"}
  <2>1. ranking' = ranking /\ rejected' = rejected /\ selection' = selection
    BY <1>1, StepsTouch DEF Rank, JudgeCandidate, UseFallback
  <2>2. stage' \notin {"select", "done"}
    <3>1. PreparationNext => stage' \notin {"select", "done"} BY PreparationIsFirst DEF IntakeStages
    <3> QED BY <1>1, <3>1, StagesFollow
  <2> QED BY <1>1, <2>1, <2>2 DEF Walked
<1>2. CASE stage = "rank"
  <2>1. rejected' = rejected /\ selection' = selection
    BY <1>2, StepsTouch DEF JudgeCandidate, UseFallback
  <2>2. rejected = <<>> /\ ranking = <<>> /\ selection = NoSelection BY <1>2 DEF Walked
  <2>3. CASE Rank
    <3>1. ranking' = Ranking /\ stage' = "select" /\ evaluation' = evaluation /\ explanations' = explanations
      BY <2>3 DEF Rank, evaluationVars
    <3>2. Ranking' = Ranking BY <3>1, RankingStays
    <3>3. ScoresReady BY <1>2 DEF ScoresReady, Evaluated, Explained
    <3>4. Len(Ranking) \in Nat BY <3>3, RankingIsAPermutation
    <3>5. <<>> \in Seq(Rejections) /\ Len(<<>>) = 0 /\ \A i \in 1 .. 0 : FALSE OBVIOUS
    <3>6. rejected' = <<>> /\ ranking' = Ranking' /\ selection' = NoSelection
      BY <2>1, <2>2, <3>1, <3>2
    <3> QED BY <3>1, <3>2, <3>4, <3>5, <3>6 DEF Walked
  <2>4. CASE ~Rank
    <3>1. ranking' = ranking BY <2>4, StepsTouch
    <3>2. stage' = stage
      <4>1. ~PreparationNext BY <1>2, PreparationIsFirst DEF IntakeStages
      <4> QED BY <1>2, <2>4, <4>1, StagesFollow
    <3> QED BY <1>2, <2>1, <3>1, <3>2 DEF Walked
  <2> QED BY <2>3, <2>4
<1>3. CASE stage = "select"
  <2>1. ~PreparationNext /\ ~EvaluateNext /\ ~ExplainNext /\ ~Rank
    <3>1. ~PreparationNext BY <1>3, PreparationIsFirst DEF IntakeStages
    <3> QED BY <1>3, <3>1 DEF EvaluateNext, ExplainNext, Rank
  <2>2. UNCHANGED <<series, evaluation, explanations, ranking>> BY <2>1, StepsTouch
  <2>3. ranking \in Seq(Ranked) /\ rejected \in Seq(Rejections) BY RankingTyped DEF Walked
  <2>4. CASE JudgeCandidate
    <3>1. Len(rejected) < Len(ranking) BY <2>4 DEF JudgeCandidate
    <3> DEFINE history == DriftWindow(Candidate.forecast)
    <3>2. \/ Reject("none")
          \/ \E algorithm \in PossibleAlgorithms(history) :
               \/ Reject(algorithm)
               \/ Conclude("selected", Candidate.model, algorithm, Candidate.forecast)
      BY <2>4 DEF JudgeCandidate
    <3> HIDE DEF history
    <3>3. CASE Reject("none") BY <1>3, <2>2, <3>1, <3>3, RejectIs
    <3>4. ASSUME NEW algorithm \in PossibleAlgorithms(history), Reject(algorithm) PROVE Walked'
      <4>1. algorithm \in Algorithms BY AlgorithmsAre
      <4> QED BY <1>3, <2>2, <3>1, <3>4, <4>1, RejectIs
    <3>5. ASSUME NEW algorithm \in PossibleAlgorithms(history),
                 Conclude("selected", Candidate.model, algorithm, Candidate.forecast)
          PROVE  Walked'
      <4>1. algorithm \in Algorithms BY AlgorithmsAre
      <4>2. Candidate \in Ranked
        <5>1. Len(rejected) + 1 \in 1 .. Len(ranking) BY <2>3, <3>1
        <5> QED BY <2>3, <5>1, SeqIs DEF Candidate
      <4>3. /\ selection' = [status |-> "selected", model |-> Candidate.model, algorithm |-> algorithm,
                             forecast |-> Candidate.forecast]
            /\ rejected' = rejected
        BY <3>5 DEF Conclude
      <4>4. selection' \in Selections BY <4>1, <4>2, <4>3 DEF Ranked, Selections
      <4>5. Justified'
        BY <2>2, <3>1, <4>3, <4>4 DEF Justified, Candidate
      <4> QED BY <1>3, <2>2, <3>5, <4>5, ConcludeIs
    <3> QED BY <3>2, <3>3, <3>4, <3>5
  <2>5. CASE UseFallback
    <3>1. Len(rejected) = Len(ranking) BY <2>5 DEF UseFallback
    <3>2. series \in SeriesOf BY <1>3, StagesAreApart DEF Intake
    <3>3. \/ /\ Fallback \in Names
             /\ \E forecast \in Answers(SpecOf(Fallback)) :
                  Conclude("fallback", Fallback, "none", forecast)
          \/ Conclude("no_model", "none", "none", <<>>)
      BY <2>5 DEF UseFallback
    <3>4. ASSUME Fallback \in Names, NEW forecast \in Answers(SpecOf(Fallback)),
                 Conclude("fallback", Fallback, "none", forecast)
          PROVE  Walked'
      <4>1. forecast \in Seq(Int \cup {NaN}) BY <3>2, AnswersAre
      <4>2. SpecOf(Fallback).family = "naive" =>
              forecast = SeasonalNaive(series.values, series.horizon)
        BY <3>2, AnswersAre
      <4>3. /\ selection' = [status |-> "fallback", model |-> Fallback, algorithm |-> "none",
                             forecast |-> forecast]
            /\ rejected' = rejected
        BY <3>4 DEF Conclude
      <4>4. selection' \in Selections BY <3>4, <4>1, <4>3 DEF Selections
      <4>5. Justified' BY <2>2, <3>1, <4>2, <4>3, <4>4 DEF Justified
      <4> QED BY <1>3, <2>2, <3>4, <4>5, ConcludeIs
    <3>5. ASSUME Conclude("no_model", "none", "none", <<>>) PROVE Walked'
      <4>1. /\ selection' = [status |-> "no_model", model |-> "none", algorithm |-> "none",
                             forecast |-> <<>>]
            /\ rejected' = rejected
        BY <3>5 DEF Conclude
      <4>2. selection' \in Selections
        <5>1. <<>> \in Seq(Int \cup {NaN}) OBVIOUS
        <5> QED BY <4>1, <5>1 DEF Selections
      <4>3. Justified' BY <2>2, <3>1, <4>1, <4>2 DEF Justified
      <4> QED BY <1>3, <2>2, <3>5, <4>3, ConcludeIs
    <3> QED BY <3>3, <3>4, <3>5
  <2>6. CASE ~JudgeCandidate /\ ~UseFallback
    <3>1. rejected' = rejected /\ selection' = selection BY <2>6, StepsTouch
    <3>2. stage' = stage BY <1>3, <2>1, <2>6, StagesFollow
    <3>3. Ranking' = Ranking BY <2>2, RankingStays
    <3> QED BY <1>3, <2>2, <3>1, <3>2, <3>3 DEF Walked
  <2> QED BY <2>4, <2>5, <2>6
<1>4. CASE stage = "done"
  <2>1. /\ ~PreparationNext /\ ~EvaluateNext /\ ~ExplainNext /\ ~Rank
        /\ ~JudgeCandidate /\ ~UseFallback /\ stage' = stage
    <3>1. ~PreparationNext BY <1>4, PreparationIsFirst DEF IntakeStages
    <3> QED
      BY <1>4, <3>1, StagesFollow DEF EvaluateNext, ExplainNext, Rank, JudgeCandidate, UseFallback
  <2>2. UNCHANGED <<series, evaluation, explanations, ranking, rejected, selection>>
    BY <2>1, StepsTouch
  <2>3. Ranking' = Ranking BY <2>2, RankingStays
  <2>4. Justified' BY <1>4, <2>2 DEF Walked, Justified
  <2> QED BY <1>4, <2>1, <2>2, <2>3, <2>4 DEF Walked
<1> QED BY <1>1, <1>2, <1>3, <1>4

LEMMA WalkedInit == Init => Walked
<1> SUFFICES ASSUME Init PROVE Walked
  OBVIOUS
<1>1. /\ stage = "validate" /\ ranking = <<>> /\ rejected = <<>> /\ selection = NoSelection
  BY DEF Init, PreparationInit
<1>2. <<>> \in Seq(Rejections) /\ Len(<<>>) = 0 /\ \A i \in 1 .. 0 : FALSE OBVIOUS
<1> QED BY <1>1, <1>2 DEF Walked

\* What holds throughout.
Inv == Intake /\ Trained /\ Evaluated /\ Explained /\ Walked

\* The inductive invariant, whatever sequences the libraries answer: what each stage of the
\* engine has made of one key so far (key_workflow.py).
THEOREM Invariance == ASSUME LibrariesAnswer PROVE Spec => []Inv
<1>1. Init => Inv
  BY IntakeInit, TrainedInit, EvaluatedInit, ExplainedInit, WalkedInit DEF Inv
<1>2. Inv /\ [Next]_vars => Inv'
  BY IntakeNext, TrainedNext, EvaluatedNext, ExplainedNext, WalkedNext DEF Inv
<1> QED BY <1>1, <1>2, PTL DEF Spec
--------------------------------------------------------------------------------
(* What the decision promises. *)

\* The ranking, position by position.
LEMMA RankedIs ==
  ASSUME Inv, stage \in {"select", "done"}
  PROVE  /\ ranking \in Seq(Ranked) /\ Len(ranking) = Len(Survivors)
         /\ \A r \in 1 .. Len(ranking) :
              /\ Place(r) \in 1 .. Len(Survivors) /\ ranking[r] = RankOne(Place(r))
              /\ ranking[r].model = Survivors[Place(r)].model
              /\ ranking[r].forecast = Survivors[Place(r)].forecast
              /\ Evidence(r) = Survivors[Place(r)]
         /\ \A i \in 1 .. Len(Survivors) : \E r \in 1 .. Len(ranking) : Place(r) = i
         /\ \A q, r \in 1 .. Len(ranking) : ranking[q].composite > ranking[r].composite => q < r
         /\ ScoresReady
<1>1. ScoresReady BY DEF Inv, ScoresReady, Evaluated, Explained
<1>2. ranking = Ranking BY DEF Inv, Walked
<1>3. Survivors \in Seq(Results) BY <1>1, SurvivorsAre DEF ScoresReady
<1>4. ranking \in Seq(Ranked) /\ Len(ranking) = Len(Survivors) BY <1>1, <1>2, RankingIsAPermutation
<1>5. DOMAIN ranking = 1 .. Len(ranking) /\ DOMAIN Survivors = 1 .. Len(Survivors)
  BY <1>3, <1>4, SeqIs
<1>6. /\ \A r \in 1 .. Len(ranking) : Place(r) \in 1 .. Len(Survivors) /\ ranking[r] = RankOne(Place(r))
      /\ \A i \in 1 .. Len(Survivors) : \E r \in 1 .. Len(ranking) : Place(r) = i
      /\ \A q, r \in 1 .. Len(ranking) : ranking[q].composite > ranking[r].composite => q < r
  BY <1>1, <1>2, <1>5, RankingIsAPermutation
<1>7. ASSUME NEW r \in 1 .. Len(ranking)
      PROVE  /\ ranking[r].model = Survivors[Place(r)].model
             /\ ranking[r].forecast = Survivors[Place(r)].forecast
             /\ Evidence(r) = Survivors[Place(r)]
  <2> DEFINE p == Place(r)
  <2>1. p \in 1 .. Len(Survivors) /\ ranking[r] = RankOne(p) BY <1>6
  <2> HIDE DEF p
  <2>2. ranking[r].model = Survivors[p].model /\ ranking[r].forecast = Survivors[p].forecast
    BY <2>1 DEF RankOne
  <2>3. Survivors[p] \in Range(Survivors) BY <1>5, <2>1 DEF Range
  <2>4. ASSUME NEW e \in Range(Survivors), e.model = ranking[r].model PROVE e = Survivors[p]
    <3>1. PICK j \in 1 .. Len(Survivors) : e = Survivors[j] BY <1>5 DEF Range
    <3>2. j = p BY <2>1, <2>2, <2>4, <3>1, SurvivorsPassed DEF Inv
    <3> QED BY <3>1, <3>2
  <2>5. Evidence(r) = Survivors[p] BY <2>2, <2>3, <2>4 DEF Evidence
  <2> QED BY <2>2, <2>5 DEF p
<1> QED BY <1>1, <1>4, <1>6, <1>7

LEMMA DecidedIs ==
  ASSUME Inv, Decided
  PROVE  stage = "done" /\ Justified
BY DEF Inv, Walked, Decided

\* Types, for whatever the libraries answer.
THEOREM TypeOKHolds == ASSUME LibrariesAnswer PROVE Spec => []TypeOK
<1>1. ASSUME Inv PROVE TypeOK
  <2>1. PreparationTypeOK
    <3>1. prepared \in Seq(PreparedRows(File)) BY <1>1 DEF Inv, Intake
    <3>2. Range(prepared) \subseteq [key: {r.key : r \in Range(Rows)}, date: Null .. LastDay - 1, target: Nat]
      <4>1. Range(prepared) \subseteq PreparedRows(File) BY <3>1, SeqIs DEF Range
      <4> QED BY <4>1 DEF PreparedRows, Keys, Rows
    <3>3. groups \subseteq {r.key : r \in Range(Rows)} BY <1>1 DEF Inv, Intake, Keys, Rows
    <3>4. series.frequency \in Frequencies /\ Range(series.values) \subseteq Nat
      <4>1. CASE series \in SeriesOf
        <5>1. series.values \in Seq(Nat) BY <4>1, SeriesIs
        <5>2. Range(series.values) \subseteq Nat BY <5>1, SeqIs DEF Range
        <5> QED BY <4>1, <5>2, SeriesIs
      <4>2. CASE series = NoSeries
        <5>1. series.values = <<>> /\ series.frequency = "Irregular" BY <4>2 DEF NoSeries
        <5>2. Range(<<>>) = {} BY DEF Range
        <5> QED BY <5>1, <5>2 DEF Frequencies
      <4> QED BY <1>1, <4>1, <4>2 DEF Inv, Intake
    <3> QED BY <1>1, <3>2, <3>3, <3>4 DEF Inv, Intake, PreparationTypeOK, Verdicts
  <2>2. EvaluationTypeOK
    <3>1. Range(training) \subseteq TrainedRecords
      <4>1. training \in Seq(TrainedRecords) BY <1>1 DEF Inv, Trained
      <4> QED BY <4>1, SeqIs DEF Range
    <3>2. Range(evaluation) \subseteq Results
      <4>1. evaluation \in Seq(Results) BY <1>1 DEF Inv, Evaluated
      <4> QED BY <4>1, SeqIs DEF Range
    <3> QED BY <1>1, <3>1, <3>2 DEF Inv, Trained, Intake, EvaluationTypeOK
  <2>3. Range(explanations) \subseteq Explanations
    <3>1. explanations \in Seq(Explanations) BY <1>1 DEF Inv, Explained
    <3> QED BY <3>1, SeqIs DEF Range
  <2>4. Range(ranking) \subseteq Ranked
    <3>1. ranking \in Seq(Ranked) BY <1>1, RankingTyped DEF Inv
    <3> QED BY <3>1, SeqIs DEF Range
  <2>5. Range(rejected) \subseteq Rejections
    <3>1. rejected \in Seq(Rejections) BY <1>1 DEF Inv, Walked
    <3> QED BY <3>1, SeqIs DEF Range
  <2>6. selection \in Selections \cup {NoSelection} BY <1>1 DEF Inv, Walked, Justified
  <2> QED BY <2>1, <2>2, <2>3, <2>4, <2>5, <2>6 DEF TypeOK
<1>2. Spec => []Inv BY Invariance
<1> QED BY <1>1, <1>2, PTL

\* Every survivor is ranked, once, and none is passed over on the way to the fallback
\* (model_ranker.py, production_selector.py).
THEOREM NoSurvivorIsLostHolds == ASSUME LibrariesAnswer PROVE Spec => []NoSurvivorIsLost
<1>1. ASSUME Inv PROVE NoSurvivorIsLost
  <2> DEFINE survivors == {r.model : r \in Range(Survivors)}
  <2>1. ASSUME stage \in {"select", "done"}
        PROVE  /\ Len(ranking) = Len(Survivors)
               /\ {r.model : r \in Range(ranking)} = survivors
               /\ {ranking[r].model : r \in 1 .. Len(ranking)} = survivors
    <3>1. /\ ranking \in Seq(Ranked) /\ Len(ranking) = Len(Survivors)
          /\ \A r \in 1 .. Len(ranking) :
               Place(r) \in 1 .. Len(Survivors) /\ ranking[r].model = Survivors[Place(r)].model
          /\ \A i \in 1 .. Len(Survivors) : \E r \in 1 .. Len(ranking) : Place(r) = i
      BY <1>1, <2>1, RankedIs
    <3>2. DOMAIN ranking = 1 .. Len(ranking) BY <3>1
    <3>3. DOMAIN Survivors = 1 .. Len(Survivors)
      <4>1. Survivors \in Seq(Results) BY <1>1, SurvivorsPassed DEF Inv
      <4> QED BY <4>1
    <3>4. survivors = {Survivors[i].model : i \in 1 .. Len(Survivors)} BY <3>3 DEF Range
    <3>5. {r.model : r \in Range(ranking)} = {ranking[r].model : r \in 1 .. Len(ranking)}
      BY <3>2 DEF Range
    <3>6. ASSUME NEW i \in 1 .. Len(Survivors)
          PROVE  \E r \in 1 .. Len(ranking) : ranking[r].model = Survivors[i].model
      <4>1. PICK r \in 1 .. Len(ranking) : Place(r) = i BY <3>1
      <4> QED BY <3>1, <4>1
    <3>7. \A r \in 1 .. Len(ranking) :
             \E i \in 1 .. Len(Survivors) : ranking[r].model = Survivors[i].model
      BY <3>1
    <3>8. {ranking[r].model : r \in 1 .. Len(ranking)} = {Survivors[i].model : i \in 1 .. Len(Survivors)}
      <4> DEFINE A == {ranking[r].model : r \in 1 .. Len(ranking)}
                 B == {Survivors[i].model : i \in 1 .. Len(Survivors)}
      <4>1. ASSUME NEW x \in A PROVE x \in B
        <5>1. PICK r \in 1 .. Len(ranking) : x = ranking[r].model OBVIOUS
        <5>2. PICK i \in 1 .. Len(Survivors) : ranking[r].model = Survivors[i].model BY <3>7
        <5> QED BY <5>1, <5>2
      <4>2. ASSUME NEW x \in B PROVE x \in A
        <5>1. PICK i \in 1 .. Len(Survivors) : x = Survivors[i].model OBVIOUS
        <5>2. PICK r \in 1 .. Len(ranking) : ranking[r].model = Survivors[i].model BY <3>6
        <5> QED BY <5>1, <5>2
      <4> HIDE DEF A, B
      <4>3. A = B BY <4>1, <4>2
      <4> QED BY <4>3 DEF A, B
    <3> QED BY <3>1, <3>4, <3>5, <3>8
  <2>2. ASSUME Decided, selection.status # "selected"
        PROVE  {r.model : r \in Range(rejected)} = survivors
    <3>1. stage = "done" /\ Len(rejected) = Len(ranking) BY <1>1, <2>2, DecidedIs DEF Justified
    <3>2. rejected \in Seq(Rejections) /\ \A k \in 1 .. Len(rejected) : rejected[k].model = ranking[k].model
      BY <1>1 DEF Inv, Walked
    <3>3. DOMAIN rejected = 1 .. Len(rejected) BY <3>2
    <3>4. {r.model : r \in Range(rejected)} = {rejected[k].model : k \in 1 .. Len(rejected)}
      BY <3>3 DEF Range
    <3>5. {rejected[k].model : k \in 1 .. Len(rejected)} = {ranking[r].model : r \in 1 .. Len(ranking)}
      BY <3>1, <3>2
    <3> QED BY <2>1, <3>1, <3>4, <3>5
  <2> QED BY <2>1, <2>2 DEF NoSurvivorIsLost
<1>2. Spec => []Inv BY Invariance
<1> QED BY <1>1, <1>2, PTL

\* Better evidence of the same kinds never lowers a composite score (model_ranker.py,
\* stability_scorer.py).
THEOREM BetterIsRankedNoLowerHolds == ASSUME LibrariesAnswer PROVE Spec => []BetterIsRankedNoLower
<1>1. ASSUME Inv PROVE BetterIsRankedNoLower
  <2> SUFFICES ASSUME stage \in {"select", "done"}, NEW q \in DOMAIN ranking, NEW r \in DOMAIN ranking,
                      \A m \in Metrics : /\ Evidence(q).errors[m] <= Evidence(r).errors[m]
                                         /\ Evidence(q).errors[m] = None <=> Evidence(r).errors[m] = None,
                      Evidence(q).width <= Evidence(r).width,
                      Evidence(q).width = None <=> Evidence(r).width = None,
                      Dispersion(Evidence(q).forecast) <= Dispersion(Evidence(r).forecast),
                      Jaggedness(Evidence(q).forecast) <= Jaggedness(Evidence(r).forecast),
                      ranking[q].shap >= ranking[r].shap
               PROVE  ranking[q].composite >= ranking[r].composite
    BY DEF BetterIsRankedNoLower
  <2>1. ranking \in Seq(Ranked) /\ ScoresReady BY <1>1, RankedIs
  <2>2. q \in 1 .. Len(ranking) /\ r \in 1 .. Len(ranking) BY <2>1
  <2> DEFINE i == Place(q)
             j == Place(r)
  <2>3. /\ i \in 1 .. Len(Survivors) /\ ranking[q] = RankOne(i) /\ Evidence(q) = Survivors[i]
        /\ j \in 1 .. Len(Survivors) /\ ranking[r] = RankOne(j) /\ Evidence(r) = Survivors[j]
    BY <1>1, <2>2, RankedIs
  <2> HIDE DEF i, j
  <2>4. i \in DOMAIN Survivors /\ j \in DOMAIN Survivors
    <3>1. Survivors \in Seq(Results) BY <1>1, SurvivorsPassed DEF Inv
    <3> QED BY <2>3, <3>1
  <2>5. NoWorseErrors(i, j) BY <2>3 DEF NoWorseErrors
  <2>6. NoRougher(i, j) BY <2>3 DEF NoRougher
  <2>7. RankOne(i).shap >= RankOne(j).shap BY <2>3
  <2>8. RankOne(i).composite >= RankOne(j).composite
    BY <2>1, <2>4, <2>5, <2>6, <2>7, CompositeKeepsOrder
  <2> QED BY <2>3, <2>8
<1>2. Spec => []Inv BY Invariance
<1> QED BY <1>1, <1>2, PTL

LEMMA NumbersAreFinite ==
  ASSUME NEW s \in Seq(Nat)
  PROVE  IsFinite(s) /\ Finite(s) = s
<1>1. s \in Seq(Int \cup {NaN}) OBVIOUS
<1>2. \A k \in DOMAIN s : s[k] \in Nat OBVIOUS
<1>3. NaN \notin Nat BY NaNAssumption
<1>4. IsFinite(s) BY <1>2, <1>3 DEF IsFinite, Range
<1> QED BY <1>1, <1>4, FiniteIs

\* A survivor of a history long enough to judge was judged, on the forecast it has.
LEMMA SurvivorsAreJudged ==
  ASSUME Inv, HistoryIsJudged, series \in SeriesOf, NEW i \in 1 .. Len(Survivors)
  PROVE  /\ Survivors[i].judged /\ Validate(series, Survivors[i].forecast).judged
         /\ Validate(series, Survivors[i].forecast).failed = {}
         /\ Len(Survivors[i].forecast) = series.horizon
         /\ IsFinite(Survivors[i].forecast)
         /\ Finite(Survivors[i].forecast) = Survivors[i].forecast
         /\ Survivors[i].forecast # <<>>
<1> DEFINE e == Survivors[i]
           f == e.forecast
           name == e.model
<1>1. Trained /\ Evaluated BY DEF Inv
<1>2. /\ e.status = "survived" /\ Passed(e) /\ name \in Names
      /\ SpecOf(name).enabled /\ n >= SpecOf(name).least
  BY <1>1, SurvivorsPassed
<1>3. e \in Results BY <1>1, SurvivorsPassed, SeqIs
<1>4. f \in Seq(Int \cup {NaN}) BY <1>3 DEF Results
<1> HIDE DEF e
<1>5. Len(f) = series.horizon /\ Validate(series, f).failed = {} /\ e.judged = Validate(series, f).judged
  BY <1>2 DEF Passed
<1>6. n >= MinHistory
  <2>1. SpecOf(name) \in Range(Registry) BY <1>2, SpecOfIs
  <2>2. SpecOf(name) \in Specs
    <3>1. Registry \in Seq(Specs) BY ModelsAssumption
    <3> QED BY <2>1, <3>1, SeqIs DEF Range
  <2>3. SpecOf(name).least \in Nat BY <2>2 DEF Specs
  <2>4. SpecOf(name).least >= MinHistory BY <1>2, <2>1 DEF HistoryIsJudged
  <2>5. n \in Nat BY SeriesIs
  <2> QED BY <1>2, <2>3, <2>4, <2>5 DEF MinHistory
<1> HIDE DEF f, name
<1>7. f # <<>>
  <2>1. Len(f) # 0 BY <1>5, SeriesIs
  <2>2. Len(<<>>) = 0 OBVIOUS
  <2> QED BY <2>1, <2>2, Zenon
<1>8. Finite(series.values) = series.values BY NumbersAreFinite, SeriesIs
<1>9. ~(Len(Finite(series.values)) < MinHistory \/ f = <<>>)
  <2>1. Len(series.values) >= MinHistory /\ Len(series.values) \in Nat BY <1>6, SeriesIs DEF n
  <2> QED BY <1>7, <1>8, <2>1 DEF MinHistory
<1>10. Validate(series, f).judged /\ "non_finite" \notin Validate(series, f).failed => IsFinite(f)
  <2> SUFFICES ASSUME ~IsFinite(f)
               PROVE  "non_finite" \in Validate(series, f).failed
    OBVIOUS
  <2> DEFINE history == Finite(series.values)
             recent == RecentReference(history, series.frequency, Len(f), MinHistory)
             failed == {r \in Rules : Rejects(r, IF r \in WindowedRules THEN recent ELSE history, f)}
  <2>1. "non_finite" \in Rules BY DEF Rules
  <2>2. \A h : Rejects("non_finite", h, f) BY DEF Rejects, NonFiniteForecast
  <2>3. Validate(series, f) = [judged |-> TRUE, failed |-> failed] BY <1>9 DEF Validate
  <2> HIDE DEF recent, history
  <2>4. "non_finite" \in failed BY <2>1, <2>2
  <2> QED BY <2>3, <2>4
<1>11. Validate(series, f).judged BY <1>9 DEF Validate
<1>12. IsFinite(f) BY <1>5, <1>10, <1>11
<1>13. Finite(f) = f BY <1>4, <1>12, FiniteIs
<1> QED BY <1>5, <1>7, <1>11, <1>12, <1>13 DEF e, f

\* What is selected is the first of the ranking that was not rejected.
LEMMA SelectedIs ==
  ASSUME Inv, Decided, selection.status = "selected"
  PROVE  LET r == Len(rejected) + 1 IN
         /\ r \in 1 .. Len(ranking) /\ Place(r) \in 1 .. Len(Survivors)
         /\ selection.model = ranking[r].model /\ selection.model = Survivors[Place(r)].model
         /\ selection.forecast = Survivors[Place(r)].forecast
         /\ Evidence(r) = Survivors[Place(r)]
<1>1. stage = "done" /\ Justified BY DecidedIs
<1>2. ranking \in Seq(Ranked) /\ rejected \in Seq(Rejections) BY <1>1, RankedIs DEF Inv, Walked
<1>3. /\ Len(rejected) < Len(ranking)
      /\ selection.model = ranking[Len(rejected) + 1].model
      /\ selection.forecast = ranking[Len(rejected) + 1].forecast
  BY <1>1 DEF Justified
<1>4. Len(rejected) + 1 \in 1 .. Len(ranking) BY <1>2, <1>3
<1> QED BY <1>1, <1>3, <1>4, RankedIs

\* The selected model is the best of the ranking that its drift validation did not
\* reject, and it was trained and judged on what it ships (production_selector.py),
\* where every model a run may ask for wants as much history as the rules do.
THEOREM WinnerIsTheBestThatHeldHolds ==
  ASSUME LibrariesAnswer, HistoryIsJudged
  PROVE  Spec => []WinnerIsTheBestThatHeld
<1>1. ASSUME Inv PROVE WinnerIsTheBestThatHeld
  <2> SUFFICES ASSUME Decided, selection.status = "selected"
               PROVE  /\ DriftWindow(selection.forecast) =
                           RecentReference(Finite(series.values), series.frequency, series.horizon, MinHistory)
                      /\ \E r \in DOMAIN ranking :
                           /\ ranking[r].model = selection.model
                           /\ Evidence(r).judged
                           /\ Validate(series, selection.forecast).failed = {}
                           /\ \E t \in Range(training) : t.model = selection.model /\ t.status = "trained"
                           /\ \A q \in DOMAIN ranking :
                                ranking[q].composite > ranking[r].composite =>
                                  ranking[q].model \in {x.model : x \in Range(rejected)}
    BY DEF WinnerIsTheBestThatHeld
  <2>1. stage = "done" BY <1>1, DecidedIs
  <2>2. series \in SeriesOf BY <1>1, <2>1, StagesAreApart DEF Inv, Intake
  <2> DEFINE l == Len(rejected)
             r == l + 1
             i == Place(r)
  <2>3. /\ r \in 1 .. Len(ranking) /\ i \in 1 .. Len(Survivors)
        /\ selection.model = ranking[r].model /\ selection.model = Survivors[i].model
        /\ selection.forecast = Survivors[i].forecast
        /\ Evidence(r) = Survivors[i]
    BY <1>1, SelectedIs
  <2>4. rejected \in Seq(Rejections) /\ \A k \in 1 .. l : rejected[k].model = ranking[k].model
    BY <1>1 DEF Inv, Walked
  <2>5. l \in Nat BY <2>4
  <2>6. ranking \in Seq(Ranked)
        /\ \A q, s \in 1 .. Len(ranking) : ranking[q].composite > ranking[s].composite => q < s
    BY <1>1, <2>1, RankedIs
  <2> HIDE DEF i
  <2>7. /\ Survivors[i].judged /\ Validate(series, Survivors[i].forecast).failed = {}
        /\ Len(Survivors[i].forecast) = series.horizon
        /\ Finite(Survivors[i].forecast) = Survivors[i].forecast
    BY <1>1, <2>2, <2>3, SurvivorsAreJudged
  <2>8. \E t \in Range(training) : t.model = selection.model /\ t.status = "trained"
    BY <1>1, <2>3, SurvivorsPassed DEF Inv
  <2>9. DriftWindow(selection.forecast) =
          RecentReference(Finite(series.values), series.frequency, series.horizon, MinHistory)
    BY <2>3, <2>7 DEF DriftWindow
  <2>10. DOMAIN ranking = 1 .. Len(ranking) /\ Len(ranking) \in Nat BY <2>6
  <2>11. ASSUME NEW q \in DOMAIN ranking, ranking[q].composite > ranking[r].composite
         PROVE  ranking[q].model \in {x.model : x \in Range(rejected)}
    <3>1. q \in 1 .. Len(ranking) BY <2>10
    <3>2. q < r BY <2>3, <2>6, <2>11, <3>1
    <3>3. q \in 1 .. l BY <2>5, <3>1, <3>2
    <3>4. rejected[q] \in Range(rejected) /\ rejected[q].model = ranking[q].model
      <4>1. DOMAIN rejected = 1 .. l BY <2>4
      <4> QED BY <2>4, <3>3, <4>1 DEF Range
    <3> QED BY <3>4
  <2> HIDE DEF r
  <2> QED BY <2>3, <2>7, <2>8, <2>9, <2>10, <2>11
<1>2. Spec => []Inv BY Invariance
<1> QED BY <1>1, <1>2, PTL

\* What a selected model or the seasonal baseline ships covers the horizon with numbers
\* (forward_validator.py, production_selector.py), whatever the run falls back on.
THEOREM AnswerIsUsableHolds ==
  ASSUME LibrariesAnswer, HistoryIsJudged
  PROVE  Spec => []AnswerIsUsable
<1>1. ASSUME Inv PROVE AnswerIsUsable
  <2> SUFFICES ASSUME Decided, selection.status \in {"selected", "fallback"},
                      selection.status = "selected" \/ SpecOf(selection.model).family = "naive"
               PROVE  Len(selection.forecast) = series.horizon /\ IsFinite(selection.forecast)
    BY DEF AnswerIsUsable, Vouched, Answered
  <2>1. stage = "done" /\ Justified BY <1>1, DecidedIs
  <2>2. series \in SeriesOf BY <1>1, <2>1, StagesAreApart DEF Inv, Intake
  <2>3. CASE selection.status = "selected"
    <3> DEFINE i == Place(Len(rejected) + 1)
    <3>1. i \in 1 .. Len(Survivors) /\ selection.forecast = Survivors[i].forecast
      BY <1>1, <2>3, SelectedIs
    <3> HIDE DEF i
    <3> QED BY <1>1, <2>2, <3>1, SurvivorsAreJudged
  <2>4. CASE selection.status = "fallback"
    <3>1. selection.forecast = SeasonalNaive(series.values, series.horizon)
      BY <2>1, <2>4 DEF Justified
    <3>2. selection.forecast \in Seq(Nat) /\ Len(selection.forecast) = series.horizon
      BY <2>2, <3>1, SeriesIs, SeasonalNaiveIs
    <3> QED BY <3>2, NumbersAreFinite
  <2> QED BY <2>3, <2>4
<1>2. Spec => []Inv BY Invariance
<1> QED BY <1>1, <1>2, PTL
--------------------------------------------------------------------------------
(* What the metadata screen foresees. *)

LEMMA AtNoLonger ==
  ASSUME NEW S, NEW s \in Seq(S), NEW places \in SUBSET (1 .. Len(s))
  PROVE  At(s, places) \in Seq(S) /\ Len(At(s, places)) \in Nat /\ Len(At(s, places)) <= Len(s)
<1>1. PICK l \in Nat : l = Len(s) OBVIOUS
<1>2. Len(At(s, places)) = Cardinality(places) /\ At(s, places) \in Seq(S) BY AtLength, AtTakes
<1>3. IsFiniteSet(1 .. l) /\ Cardinality(1 .. l) = l
  <2>1. 1 \in Int /\ l \in Int /\ (1 > l => l = 0) /\ l - 1 + 1 = l OBVIOUS
  <2> QED BY <2>1, FS_Interval
<1>4. Cardinality(places) <= Cardinality(1 .. l) BY <1>1, <1>3, FS_Subset
<1> DEFINE r == At(s, places)
<1>5. r \in Seq(S) BY <1>2
<1> HIDE DEF r
<1>6. Len(r) \in Nat BY <1>5
<1> QED BY <1>1, <1>2, <1>3, <1>4, <1>6 DEF r

\* To leave out the missing cells twice is to leave them out once.
LEMMA PresentIs ==
  ASSUME NEW c \in Seq(Int)
  PROVE  /\ Present(c) \in Seq(Int) /\ Len(Present(c)) \in Nat /\ Len(Present(c)) <= Len(c)
         /\ Present(Present(c)) = Present(c)
         /\ Len(Legible(Present(c))) = Len(Legible(c))
<1> DEFINE there == {i \in DOMAIN c : c[i] # Null}
           legible == {i \in DOMAIN c : c[i] >= 0}
           r == Present(c)
           seen == {k \in DOMAIN r : r[k] >= 0}
<1>1. PICK l \in Nat : l = Len(c) /\ DOMAIN c = 1 .. l /\ \A i \in 1 .. l : c[i] \in Int OBVIOUS
<1>2. there \in SUBSET (1 .. Len(c)) /\ legible \in SUBSET (1 .. Len(c)) BY <1>1
<1>3. r = At(c, there) BY DEF Present
<1>4. legible \subseteq there /\ \A i \in there : c[i] # Null /\ i \in 1 .. l BY <1>1 DEF Null
<1>4a. \A i \in there : i \in legible <=> c[i] >= 0 BY <1>1, <1>4
<1>5. Len(Legible(c)) = Cardinality(legible) /\ IsFiniteSet(legible)
  <2>1. Legible(c) = At(c, legible) BY DEF Legible
  <2> HIDE DEF legible
  <2> QED BY <1>2, <2>1, AtLength
<1> HIDE DEF there, legible, r
<1>6. r \in Seq(Int) /\ Len(r) \in Nat /\ Len(r) <= Len(c) BY <1>2, <1>3, AtNoLonger
<1>7. PICK pos : Taken(r, c, there, pos) BY <1>2, <1>3, AtTakes
<1>8. PICK m \in Nat : m = Len(r) /\ DOMAIN r = 1 .. m /\ \A k \in 1 .. m : r[k] \in Int BY <1>6
<1>9. /\ \A k \in 1 .. m : pos[k] \in there /\ pos[k] \in Int /\ r[k] = c[pos[k]]
      /\ \A j, k \in 1 .. m : j < k => pos[j] < pos[k]
      /\ \A p \in there : \E k \in 1 .. m : pos[k] = p
  <2>1. /\ pos \in [1 .. m -> there]
        /\ \A k \in 1 .. m : r[k] = c[pos[k]]
        /\ \A j, k \in 1 .. m : j < k => pos[j] < pos[k]
        /\ \A p \in there : \E k \in 1 .. m : pos[k] = p
    BY <1>7, <1>8 DEF Taken
  <2>2. \A p \in there : p \in Int BY <1>1, <1>2
  <2> QED BY <2>1, <2>2
<1>10. Present(r) = r
  <2> DEFINE all == {k \in DOMAIN r : r[k] # Null}
  <2>1. Present(r) = At(r, all) BY DEF Present
  <2>2. 1 .. Len(r) \subseteq all BY <1>4, <1>8, <1>9
  <2> HIDE DEF all
  <2> QED BY <1>6, <2>1, <2>2, AtEverywhere
<1>11. Len(Legible(r)) = Cardinality(seen) /\ seen \in SUBSET (1 .. m)
  <2>1. Legible(r) = At(r, seen) BY DEF Legible
  <2>2. seen \in SUBSET (1 .. m) BY <1>8
  <2> HIDE DEF seen
  <2> QED BY <1>6, <1>8, <2>1, <2>2, AtLength
<1>12. \A k \in 1 .. m : k \in seen <=> pos[k] \in legible BY <1>4, <1>4a, <1>8, <1>9
<1> HIDE DEF seen
<1> DEFINE f == [k \in seen |-> pos[k]]
<1>13. f \in [seen -> legible] BY <1>11, <1>12
<1>14. ASSUME NEW j \in seen, NEW k \in seen, f[j] = f[k] PROVE j = k
  <2>1. j \in 1 .. m /\ k \in 1 .. m /\ pos[j] = pos[k] BY <1>11, <1>14
  <2>2. ~(j < k) /\ ~(k < j) BY <1>9, <2>1
  <2> QED BY <2>1, <2>2
<1>15. \A p \in legible : \E k \in seen : f[k] = p
  <2> SUFFICES ASSUME NEW p \in legible PROVE \E k \in seen : f[k] = p
    OBVIOUS
  <2>1. PICK k \in 1 .. m : pos[k] = p BY <1>4, <1>9
  <2> QED BY <1>12, <2>1
<1>16. f \in Bijection(seen, legible)
  BY <1>13, <1>14, <1>15 DEF Bijection, Injection, Surjection, IsInjective
<1>17. IsFiniteSet(seen)
  <2>1. IsFiniteSet(1 .. m)
    <3>1. 1 \in Int /\ m \in Int OBVIOUS
    <3> QED BY <3>1, FS_Interval
  <2> QED BY <1>11, <2>1, FS_Subset
<1>18. Cardinality(seen) = Cardinality(legible)
  <2>1. ExistsBijection(seen, legible) BY <1>16 DEF ExistsBijection
  <2> QED BY <1>17, <2>1, FS_Bijection
<1> QED BY <1>5, <1>6, <1>10, <1>11, <1>18 DEF r

\* A column short enough is judged whole, and by its cells that are there.
LEMMA SampleTells ==
  ASSUME NEW c \in Seq(Int), Len(c) <= SampleSize, NEW threshold
  PROVE  /\ Sample(c) = Present(c)
         /\ Converts(Sample(c), threshold) <=> Converts(c, threshold)
<1> DEFINE r == Present(c)
<1>1. /\ r \in Seq(Int) /\ Len(r) \in Nat /\ Len(r) <= Len(c) /\ Present(r) = r
      /\ Len(Legible(r)) = Len(Legible(c))
  BY PresentIs
<1>2. Len(c) \in Nat /\ SampleSize \in Nat BY SampleSizeAssumption
<1> HIDE DEF r
<1>3. Len(r) <= SampleSize BY <1>1, <1>2
<1>4. Sample(c) = r BY <1>3 DEF Sample, r
<1>5. Converts(r, threshold) <=> r # <<>> /\ 100 * Len(Legible(c)) >= threshold * Len(r)
  BY <1>1 DEF Converts
<1>6. Converts(c, threshold) <=> r # <<>> /\ 100 * Len(Legible(c)) >= threshold * Len(r)
  BY DEF Converts, r
<1>7. Converts(r, threshold) <=> Converts(c, threshold) BY <1>5, <1>6
<1> QED BY <1>4, <1>7 DEF r

LEMMA RawColumnsAre ==
  ASSUME NEW u \in Range(Uploads)
  PROVE  /\ Column(u.rows, "date") \in Seq(Int) /\ Column(u.rows, "target") \in Seq(Int)
         /\ Len(Column(u.rows, "date")) = Len(u.rows) /\ Len(Column(u.rows, "target")) = Len(u.rows)
<1> DEFINE rows == u.rows
           dates == Column(rows, "date")
           targets == Column(rows, "target")
           D == {rows[i]["date"] : i \in 1 .. Len(rows)}
           T == {rows[i]["target"] : i \in 1 .. Len(rows)}
<1>1. rows \in Seq(RawRows(u)) BY UploadIs
<1>2. \A i \in 1 .. Len(rows) : rows[i] \in RawRows(u) BY <1>1, SeqIs
<1>3. \A i \in 1 .. Len(rows) : rows[i].date \in Int /\ rows[i].target \in Int
  BY <1>2, CellsAre, DatesAre DEF RawRows
<1> HIDE DEF rows
<1>4. dates \in Seq(D) /\ Len(dates) = Len(rows) BY <1>1, ColumnIs
<1>5. targets \in Seq(T) /\ Len(targets) = Len(rows) BY <1>1, ColumnIs
<1>6. D \subseteq Int /\ T \subseteq Int BY <1>3
<1> HIDE DEF D, T, dates, targets
<1>7. dates \in Seq(Int) /\ targets \in Seq(Int)
  <2>1. \A i \in 1 .. Len(dates) : dates[i] \in Int BY <1>4, <1>6, SeqIs
  <2>2. \A i \in 1 .. Len(targets) : targets[i] \in Int BY <1>5, <1>6, SeqIs
  <2> QED BY <1>4, <1>5, <2>1, <2>2, SeqRetyped
<1> QED BY <1>4, <1>5, <1>7 DEF dates, targets, rows

\* A conversion the engine refuses is one the screen found, of a column it saw whole.
LEMMA ScreenSees ==
  ASSUME NEW u \in Range(Uploads), Len(u.rows) <= SampleSize, NEW curated,
         \/ Objection(u, curated) = "dates"
         \/ Objection(u, curated) = "target" /\ Dated(u) = u.rows
  PROVE  Suitability(u) = "NOT_SUITABLE"
<1> DEFINE dates == Column(u.rows, "date")
           targets == Column(u.rows, "target")
<1>1. /\ dates \in Seq(Int) /\ Len(dates) <= SampleSize
      /\ targets \in Seq(Int) /\ Len(targets) <= SampleSize
  BY RawColumnsAre
<1> HIDE DEF dates, targets
<1>2. /\ Converts(Sample(dates), CONVERSION_THRESHOLD) <=> Converts(dates, minimum_success_ratio)
      /\ Converts(Sample(targets), CONVERSION_THRESHOLD) <=> Converts(targets, minimum_success_ratio)
  <2>1. CONVERSION_THRESHOLD = minimum_success_ratio
    BY DEF CONVERSION_THRESHOLD, minimum_success_ratio
  <2> QED BY <1>1, <2>1, SampleTells
<1>3. CASE Objection(u, curated) = "dates"
  <2>1. u.dates # "datetime" /\ ~(u.dates = "text" /\ Converts(dates, minimum_success_ratio))
    BY <1>3 DEF Objection, dates
  <2>2. DateCheck(u) = "INVALID" BY <1>2, <2>1 DEF DateCheck, dates
  <2> QED BY <2>2 DEF Suitability
<1>4. CASE Objection(u, curated) = "target" /\ Dated(u) = u.rows
  <2>1. ~Numeric(targets) /\ ~Converts(targets, minimum_success_ratio)
    BY <1>4 DEF Objection, targets
  <2>2. TargetCheck(u) = "INVALID" BY <1>2, <2>1 DEF TargetCheck, targets
  <2> QED BY <2>2 DEF Suitability
<1> QED BY <1>3, <1>4
--------------------------------------------------------------------------------
(* One observation per key and date. *)

Unrepeated(rows) ==
  \A i, j \in 1 .. Len(rows) : rows[i].key = rows[j].key /\ rows[i].date = rows[j].date => i = j

LEMMA RepeatsAre ==
  ASSUME NEW S, NEW rows \in Seq(S)
  PROVE  Repeats(rows) = {} <=> Unrepeated(rows)
<1>1. PICK l \in Nat : l = Len(rows) /\ DOMAIN rows = 1 .. l OBVIOUS
<1> DEFINE k == [i \in 1 .. l |-> <<rows[i].key, rows[i].date>>]
<1>2. Repeats(rows) = (1 .. l) \ Firsts(k) BY <1>1 DEF Repeats
<1>3. Firsts(k) = {i \in 1 .. l : \A j \in 1 .. i - 1 : k[j] # k[i]} BY DEF Firsts
<1>4. \A i, j \in 1 .. l :
        k[i] = k[j] <=> rows[i].key = rows[j].key /\ rows[i].date = rows[j].date
  OBVIOUS
<1> HIDE DEF k
<1>5. ASSUME Repeats(rows) = {}, NEW i \in 1 .. l, NEW j \in 1 .. l, k[i] = k[j] PROVE i = j
  <2>1. i \in Firsts(k) /\ j \in Firsts(k) BY <1>2, <1>5
  <2>2. ~(i < j)
    <3>1. i < j => i \in 1 .. j - 1 OBVIOUS
    <3> QED BY <1>3, <1>5, <2>1, <3>1
  <2>3. ~(j < i)
    <3>1. j < i => j \in 1 .. i - 1 OBVIOUS
    <3> QED BY <1>3, <1>5, <2>1, <3>1
  <2> QED BY <2>2, <2>3
<1>6. ASSUME Unrepeated(rows) PROVE Repeats(rows) = {}
  <2>1. ASSUME NEW i \in 1 .. l, NEW j \in 1 .. i - 1 PROVE k[j] # k[i]
    <3>1. j \in 1 .. l /\ j # i OBVIOUS
    <3> QED BY <1>1, <1>4, <1>6, <3>1 DEF Unrepeated
  <2>2. Firsts(k) = 1 .. l BY <1>3, <2>1
  <2> QED BY <1>2, <2>2
<1>7. ASSUME Repeats(rows) = {} PROVE Unrepeated(rows)
  BY <1>1, <1>4, <1>5, <1>7 DEF Unrepeated
<1> QED BY <1>6, <1>7

\* A part of rows without a repetition has none.
LEMMA AtUnrepeated ==
  ASSUME NEW S, NEW rows \in Seq(S), NEW places \in SUBSET (1 .. Len(rows)), Unrepeated(rows)
  PROVE  Unrepeated(At(rows, places))
<1> DEFINE r == At(rows, places)
<1>1. r \in Seq(S) /\ \E pos : Taken(r, rows, places, pos) BY AtTakes
<1>2. PICK pos : Taken(r, rows, places, pos) BY <1>1
<1> HIDE DEF r
<1>3. PICK m \in Nat : m = Len(r) BY <1>1
<1>4. /\ \A i \in 1 .. m : pos[i] \in 1 .. Len(rows) /\ r[i] = rows[pos[i]]
      /\ \A i, j \in 1 .. m : i < j => pos[i] < pos[j]
  <2>1. /\ pos \in [1 .. m -> places]
        /\ \A i \in 1 .. m : r[i] = rows[pos[i]]
        /\ \A i, j \in 1 .. m : i < j => pos[i] < pos[j]
    BY <1>2, <1>3 DEF Taken
  <2> QED BY <2>1
<1>5. ASSUME NEW i \in 1 .. m, NEW j \in 1 .. m, r[i].key = r[j].key, r[i].date = r[j].date PROVE i = j
  <2>1. pos[i] = pos[j] /\ pos[i] \in Int BY <1>4, <1>5 DEF Unrepeated
  <2>2. ~(i < j) /\ ~(j < i) BY <1>4, <2>1
  <2> QED BY <2>2
<1>6. Unrepeated(r) BY <1>3, <1>5 DEF Unrepeated
<1> QED BY <1>6 DEF r

\* Sorting neither makes nor removes one.
LEMMA SortedUnrepeated ==
  ASSUME NEW u \in Range(Uploads), NEW rows \in Seq(PreparedRows(u)), Unrepeated(rows)
  PROVE  Unrepeated(Sorted(rows))
<1> DEFINE s == Sorted(rows)
           place == RowPlaces(rows)
<1>1. PICK m \in Nat : m = Len(rows) OBVIOUS
<1>2. \A x \in PreparedRows(u) : x.key \in Int /\ Day(x.date) \in Int BY RowsCompare
<1>3. /\ Len(s) = m
      /\ \A r \in 1 .. m : place[r] \in 1 .. m /\ s[r] = rows[place[r]]
      /\ \A q, r \in 1 .. m : q < r => place[q] # place[r]
  <2>1. /\ Sorted(rows) \in Seq(PreparedRows(u)) /\ Len(Sorted(rows)) = Len(rows)
        /\ \A r \in 1 .. Len(rows) : RowPlaces(rows)[r] \in 1 .. Len(rows)
                                     /\ Sorted(rows)[r] = rows[RowPlaces(rows)[r]]
        /\ \A q, r \in 1 .. Len(rows) : q < r => RowPlaces(rows)[q] # RowPlaces(rows)[r]
    BY <1>2, SortedIs
  <2> QED BY <1>1, <2>1
<1> HIDE DEF s, place
<1>4. ASSUME NEW q \in 1 .. m, NEW r \in 1 .. m, s[q].key = s[r].key, s[q].date = s[r].date PROVE q = r
  <2>1. place[q] = place[r]
    <3>1. place[q] \in 1 .. Len(rows) /\ place[r] \in 1 .. Len(rows) BY <1>1, <1>3
    <3>2. rows[place[q]].key = rows[place[r]].key /\ rows[place[q]].date = rows[place[r]].date
      BY <1>3, <1>4
    <3> QED BY <3>1, <3>2, Zenon DEF Unrepeated
  <2>2. ~(q < r) /\ ~(r < q) BY <1>3, <2>1
  <2> QED BY <2>2
<1>5. Unrepeated(s) BY <1>3, <1>4 DEF Unrepeated
<1> QED BY <1>5 DEF s

\* Months are told apart.
LEMMA MonthlyUnrepeated ==
  ASSUME NEW u \in Range(Uploads), NEW rows \in Seq(PreparedRows(u)), NEW method
  PROVE  Unrepeated(Monthly(rows, method))
<1> DEFINE dated == DatedOnly(rows)
           cells == MonthCells(dated)
           C == Keys(u) \X (0 .. LastDay - 1)
           firsts == Firsts(cells)
           months == Months(dated)
           all == Monthly(rows, method)
<1>1. cells \in Seq(C) BY MonthCellsAre
<1>2. months = At(cells, firsts) BY DEF Months
<1>3. /\ DOMAIN all = DOMAIN months
      /\ \A i \in DOMAIN months : all[i].key = months[i][1] /\ all[i].date = months[i][2]
  <2>1. all = [i \in DOMAIN months |->
                 [key |-> months[i][1], date |-> months[i][2],
                  target |-> MonthValue(OfMonth(dated, months[i]), method)]]
    BY MonthlyIs
  <2> HIDE DEF all, months
  <2> QED BY <2>1
<1>4. all \in Seq(PreparedRows(u)) BY MonthlyTyped
<1> HIDE DEF cells, months, all, C
<1>5. firsts \in SUBSET (1 .. Len(cells)) /\ \A p \in firsts : \A q \in 1 .. p - 1 : cells[q] # cells[p]
  BY <1>1 DEF Firsts
<1> HIDE DEF firsts
<1>6. months \in Seq(C) /\ \E pos : Taken(months, cells, firsts, pos) BY <1>1, <1>2, <1>5, AtTakes
<1>7. PICK pos : Taken(months, cells, firsts, pos) BY <1>6
<1>8. PICK m \in Nat : m = Len(months) /\ DOMAIN months = 1 .. m /\ m = Len(all)
  <2>1. DOMAIN all = 1 .. Len(all) /\ Len(all) \in Nat BY <1>4
  <2>2. DOMAIN months = 1 .. Len(months) /\ Len(months) \in Nat BY <1>6
  <2>3. \A a, b \in Nat : 1 .. a = 1 .. b => a = b OBVIOUS
  <2> QED BY <1>3, <2>1, <2>2, <2>3
<1>9. /\ \A i \in 1 .. m : pos[i] \in firsts /\ months[i] = cells[pos[i]] /\ pos[i] \in Nat \ {0}
      /\ \A i, j \in 1 .. m : i < j => pos[i] < pos[j]
  <2>1. /\ pos \in [1 .. m -> firsts]
        /\ \A i \in 1 .. m : months[i] = cells[pos[i]]
        /\ \A i, j \in 1 .. m : i < j => pos[i] < pos[j]
    BY <1>7, <1>8 DEF Taken
  <2>2. \A p \in firsts : p \in Nat \ {0}
    <3>1. Len(cells) \in Nat BY <1>1
    <3> QED BY <1>5, <3>1
  <2> QED BY <2>1, <2>2
<1>10. ASSUME NEW i \in 1 .. m, NEW j \in 1 .. m, i < j PROVE months[i] # months[j]
  <2>1. pos[i] \in 1 .. pos[j] - 1 BY <1>9, <1>10
  <2> QED BY <1>5, <1>9, <2>1
<1>11. ASSUME NEW i \in 1 .. m, NEW j \in 1 .. m, all[i].key = all[j].key, all[i].date = all[j].date
       PROVE  i = j
  <2>1. months[i] \in C /\ months[j] \in C BY <1>6, <1>8
  <2>2. months[i][1] = months[j][1] /\ months[i][2] = months[j][2] BY <1>3, <1>8, <1>11
  <2>3. months[i] = months[j] BY <2>1, <2>2 DEF C
  <2>4. ~(i < j) /\ ~(j < i) BY <1>10, <2>3
  <2> QED BY <2>4
<1>12. Unrepeated(all) BY <1>8, <1>11 DEF Unrepeated
<1> QED BY <1>12 DEF all

\* Where the upload repeats no key and date, what is made of it repeats none.
LEMMA CuratedUnrepeated ==
  ASSUME NEW u \in Range(Uploads), NEW grain, Repeats(u.rows) = {}
  PROVE  Repeats(Curated(u, grain)) = {}
<1> DEFINE rows == u.rows
           d == Dated(u)
           e == Distinct(d)
           c == Clean(u)
<1>1. rows \in Seq(RawRows(u)) /\ Unrepeated(rows) BY UploadIs, RepeatsAre
<1>2. d \in Seq(DatedRows(u)) BY DatedIs
<1>3. Unrepeated(d)
  <2>1. CASE u.dates = "datetime" BY <1>1, <2>1 DEF Dated
  <2>2. CASE u.dates # "datetime"
    <3> DEFINE places == {i \in DOMAIN rows : rows[i].date >= 0}
    <3>1. d = At(rows, places) BY <2>2 DEF Dated
    <3> HIDE DEF rows, d
    <3>2. places \in SUBSET (1 .. Len(rows)) BY <1>1
    <3> HIDE DEF places
    <3> QED BY <1>1, <3>1, <3>2, AtUnrepeated
  <2> QED BY <2>1, <2>2
<1> HIDE DEF rows, d
<1>4. e \in Seq(DatedRows(u)) /\ Unrepeated(e)
  <2> DEFINE firsts == Firsts(d)
  <2>1. e = At(d, firsts) BY DEF Distinct
  <2>2. firsts \in SUBSET (1 .. Len(d)) BY <1>2 DEF Firsts
  <2> HIDE DEF firsts
  <2> QED BY <1>2, <1>3, <2>1, <2>2, AtTakes, AtUnrepeated
<1> HIDE DEF e
<1>5. c \in Seq(PreparedRows(u)) /\ Unrepeated(c)
  <2> DEFINE places == {i \in DOMAIN e : e[i].target >= 0}
  <2>1. c = At(e, places) BY DEF Clean, WithTarget, e, d
  <2>2. places \in SUBSET (1 .. Len(e)) BY <1>4
  <2> HIDE DEF places, c
  <2>3. Unrepeated(c) BY <1>4, <2>1, <2>2, AtUnrepeated
  <2> QED BY <2>3, CleanIs DEF c
<1> HIDE DEF c
<1> DEFINE f == IF grain \in {"Daily", "Weekly"} THEN Monthly(c, u.method) ELSE c
<1>6. f \in Seq(PreparedRows(u)) /\ Unrepeated(f) BY <1>5, MonthlyTyped, MonthlyUnrepeated
<1>7. Curated(u, grain) = Sorted(f) BY DEF Curated, c
<1> HIDE DEF f
<1>8. Unrepeated(Sorted(f)) BY <1>6, SortedUnrepeated
<1>9. Sorted(f) \in Seq(PreparedRows(u)) BY <1>7, CuratedIs
<1> QED BY <1>7, <1>8, <1>9, RepeatsAre
--------------------------------------------------------------------------------
(* What was foreseen when an upload is refused, and what reaches training. *)

Made == Curated(File, frequency)
Repeated == Repeats(Made) # {}
Objected == Objection(File, Made)
Told == IF ~File.readable THEN "none" ELSE IF ~File.columns THEN "NOT_SUITABLE" ELSE Suitability(File)

\* Why an upload was refused, what its verdict was, and what is on its way to training.
Foreseen ==
  /\ stage # "validate" => verdict = Told
  /\ stage \notin {"validate", "load", "failed"} => File.readable
  /\ stage \notin {"validate", "load", "detect", "failed"} => File.columns
  /\ stage \in {"persist", "verify"} => prepared = Made
  /\ stage = "generate" => ~Repeated /\ prepared \in {NoFrame, Made}
  /\ stage = "build" => ~Repeated /\ prepared = Made
  /\ failure = "columns" => File.readable /\ ~File.columns
  /\ failure \in {"dates", "target"} => File.readable /\ File.columns /\ Objected = failure
  /\ failure = "repeated" => Repeated

LEMMA ForeseenInit == Init => Foreseen
BY DEF Init, PreparationInit, Foreseen

LEMMA SameFile ==
  ASSUME upload' = upload
  PROVE  File' = File /\ Told' = Told /\ (frequency' = frequency => UNCHANGED <<Made, Repeated, Objected>>)
<1>1. File' = File BY DEF File
<1>2. Told' = Told BY <1>1 DEF Told
<1>3. ASSUME frequency' = frequency PROVE UNCHANGED <<Made, Repeated, Objected>>
  <2>1. Made' = Made BY <1>1, <1>3 DEF Made
  <2> QED BY <1>1, <2>1 DEF Repeated, Objected
<1> QED BY <1>1, <1>2, <1>3

LEMMA ForeseenStays ==
  ASSUME Foreseen, Intake, UNCHANGED <<intakeVars, series>>,
         stage' = stage \/ {stage, stage'} \subseteq Stages
  PROVE  Foreseen'
<1>1. upload' = upload /\ verdict' = verdict /\ frequency' = frequency /\ prepared' = prepared
      /\ failure' = failure
  BY DEF intakeVars
<1>2. File' = File /\ Told' = Told /\ UNCHANGED <<Made, Repeated, Objected>> BY <1>1, SameFile
<1>3. \A s \in Stages : s \notin IntakeStages BY DEF Stages, IntakeStages
<1>4. {"validate", "load", "detect", "persist", "verify", "generate", "build", "failed"} \subseteq IntakeStages
  BY DEF IntakeStages
<1>5. CASE stage' = stage BY <1>1, <1>2, <1>5 DEF Foreseen
<1>6. CASE {stage, stage'} \subseteq Stages BY <1>1, <1>2, <1>3, <1>4, <1>6 DEF Foreseen
<1> QED BY <1>5, <1>6

LEMMA ForeseenSteps == ASSUME Foreseen, Intake, PreparationNext PROVE Foreseen'
<1>1. ASSUME upload' = upload, frequency' = frequency
      PROVE  File' = File /\ Told' = Told /\ Made' = Made /\ Repeated' = Repeated /\ Objected' = Objected
  BY <1>1, SameFile
<1>2. stage # "failed" => failure = "none" BY DEF Intake
<1>3. CASE Validate_metadata
  <2>1. upload' = upload /\ frequency' = frequency BY <1>3 DEF Validate_metadata
  <2>2. verdict' = Told BY <1>3 DEF Validate_metadata, Told
  <2> QED BY <1>1, <1>2, <1>3, <2>1, <2>2 DEF Foreseen, Validate_metadata, Advance
<1>4. CASE LoadDataset
  <2>1. upload' = upload /\ frequency' = frequency BY <1>4 DEF LoadDataset
  <2> QED BY <1>1, <1>2, <1>4, <2>1 DEF Foreseen, LoadDataset, Advance, Refuse
<1>5. CASE DetectFrequency
  <2>1. File' = File /\ Told' = Told BY <1>5, SameFile DEF DetectFrequency
  <2> QED BY <1>2, <1>5, <2>1 DEF Foreseen, DetectFrequency, Advance, Refuse
<1>6. CASE AssessQuality
  <2>1. upload' = upload /\ frequency' = frequency BY <1>6 DEF AssessQuality
  <2> QED BY <1>1, <1>2, <1>6, <2>1 DEF Foreseen, AssessQuality, Advance, Refuse
<1>7. CASE Preprocess
  <2>1. upload' = upload /\ frequency' = frequency /\ verdict' = verdict /\ stage = "preprocess"
    BY <1>7 DEF Preprocess
  <2>2. \/ prepared' = Made /\ stage' = "persist" /\ failure' = failure
        \/ stage' = "failed" /\ failure' = Objected /\ Objected # "none"
    BY <1>7 DEF Preprocess, Advance, Refuse, Made, Objected
  <2>3. Objected \notin {"columns", "repeated"} BY DEF Objected, Objection
  <2> QED BY <1>1, <1>2, <2>1, <2>2, <2>3 DEF Foreseen
<1>8. CASE PersistCurated
  <2>1. upload' = upload /\ frequency' = frequency BY <1>8 DEF PersistCurated
  <2> QED BY <1>1, <1>2, <1>8, <2>1 DEF Foreseen, PersistCurated, Advance, Refuse
<1>9. CASE VerifyCurated
  <2>1. upload' = upload /\ frequency' = frequency /\ verdict' = verdict /\ stage = "verify"
    BY <1>9 DEF VerifyCurated
  <2>2. prepared = Made BY <2>1 DEF Foreseen
  <2>3. \/ ~Repeated /\ stage' = "generate" /\ failure' = failure
        \/ Repeated /\ stage' = "failed" /\ failure' = "repeated"
    BY <1>9, <2>2 DEF VerifyCurated, Advance, Refuse, Repeated
  <2>4. prepared' \in {NoFrame, Made} BY <1>9, <2>2 DEF VerifyCurated
  <2> QED BY <1>1, <1>2, <2>1, <2>3, <2>4 DEF Foreseen
<1>10. CASE GenerateGroups
  <2>1. upload' = upload /\ frequency' = frequency /\ verdict' = verdict /\ stage = "generate"
    BY <1>10 DEF GenerateGroups
  <2>2. ~Repeated /\ prepared \in {NoFrame, Made} BY <2>1 DEF Foreseen
  <2> DEFINE frame == IF prepared = NoFrame THEN Curated(File, frequency) ELSE prepared
  <2>3. frame = Made BY <2>2 DEF Made
  <2>4. \/ stage' = "failed" /\ failure' \in {"no file", "no group"}
        \/ prepared' = frame /\ stage' = "build" /\ failure' = failure
    BY <1>10 DEF GenerateGroups, Advance, Refuse
  <2> HIDE DEF frame
  <2>5. /\ File' = File /\ Told' = Told /\ Made' = Made /\ Repeated' = Repeated
        /\ verdict = Told /\ File.readable /\ File.columns /\ failure = "none"
    BY <1>1, <1>2, <2>1 DEF Foreseen
  <2>6. CASE stage' = "failed" /\ failure' \in {"no file", "no group"}
    BY <2>1, <2>5, <2>6 DEF Foreseen
  <2>7. CASE prepared' = Made /\ stage' = "build" /\ failure' = failure
    BY <2>1, <2>2, <2>5, <2>7 DEF Foreseen
  <2> QED BY <2>3, <2>4, <2>6, <2>7
<1>11. CASE BuildSeries
  <2>1. upload' = upload /\ frequency' = frequency BY <1>11 DEF BuildSeries
  <2> QED BY <1>1, <1>2, <1>11, <2>1 DEF Foreseen, BuildSeries, Advance
<1> QED BY <1>3, <1>4, <1>5, <1>6, <1>7, <1>8, <1>9, <1>10, <1>11 DEF PreparationNext

LEMMA ForeseenNext == ASSUME Foreseen, Intake, [Next]_vars PROVE Foreseen'
<1>1. CASE PreparationNext BY <1>1, ForeseenSteps
<1>2. CASE UNCHANGED <<intakeVars, series>> /\ (stage' = stage \/ {stage, stage'} \subseteq Stages)
  BY <1>2, ForeseenStays
<1> QED BY <1>1, <1>2, LaterSteps

\* Whatever the upload, a refusal of its columns was announced by the metadata screen, one
\* before training by the quality report (validation_engine.py, data_preprocessor.py,
\* curated_validator.py).
THEOREM RefusalsAreForeseenHolds == Spec => []RefusalsAreForeseen
<1>1. ASSUME Intake, Foreseen PROVE RefusalsAreForeseen
  <2>1. File \in Range(Uploads) BY <1>1, FileIs DEF Intake
  <2>2. ASSUME failure \in {"dates", "target", "columns"}, Len(Rows) <= SampleSize
        PROVE  verdict = "NOT_SUITABLE" \/ (failure = "target" /\ Dated(File) # Rows)
    <3>1. stage = "failed" BY <1>1, <2>2 DEF Intake
    <3>2. verdict = Told BY <1>1, <3>1 DEF Foreseen
    <3>3. CASE failure = "columns" BY <1>1, <3>2, <3>3 DEF Foreseen, Told
    <3>4. CASE failure \in {"dates", "target"}
      <4>1. verdict = Suitability(File) /\ Objection(File, Made) = failure
        BY <1>1, <3>2, <3>4 DEF Foreseen, Told, Objected
      <4> QED BY <2>1, <2>2, <3>4, <4>1, ScreenSees DEF Rows
    <3> QED BY <2>2, <3>3, <3>4
  <2>3. ASSUME failure = "repeated" PROVE Repeats(Rows) # {}
    <3>1. Repeats(Curated(File, frequency)) # {} BY <1>1, <2>3 DEF Foreseen, Repeated, Made
    <3> QED BY <2>1, <3>1, CuratedUnrepeated DEF Rows
  <2> QED BY <2>2, <2>3 DEF RefusalsAreForeseen
<1>2. Init => Intake /\ Foreseen BY IntakeInit, ForeseenInit
<1>3. Intake /\ Foreseen /\ [Next]_vars => (Intake /\ Foreseen)' BY IntakeNext, ForeseenNext
<1> QED BY <1>1, <1>2, <1>3, PTL DEF Spec

\* Whatever the upload, a key's observations reach training in order, one per date
\* (data_preprocessor.py, curated_validator.py).
THEOREM TrainingIsInOrderHolds == Spec => []TrainingIsInOrder
<1>1. ASSUME Intake, Foreseen PROVE TrainingIsInOrder
  <2> SUFFICES ASSUME stage = "build", NEW i \in DOMAIN prepared, NEW j \in DOMAIN prepared,
                      i < j, prepared[i].key = prepared[j].key
               PROVE  Day(prepared[i].date) < Day(prepared[j].date)
    BY DEF TrainingIsInOrder
  <2> DEFINE u == File
             f == IF frequency \in {"Daily", "Weekly"} THEN Monthly(Clean(u), u.method) ELSE Clean(u)
             P == PreparedRows(u)
  <2>1. u \in Range(Uploads) BY <1>1, FileIs DEF Intake
  <2>2. prepared = Curated(u, frequency) /\ Repeats(prepared) = {}
    BY <1>1 DEF Foreseen, Repeated, Made
  <2>3. Curated(u, frequency) = Sorted(f) BY DEF Curated
  <2> HIDE DEF u
  <2>4. f \in Seq(P) BY <2>1, CleanIs, MonthlyTyped
  <2> HIDE DEF f
  <2>5. \A x \in P : x.key \in Int /\ Day(x.date) \in Int BY <2>1, RowsCompare
  <2>6. \A x \in P : x.date \in Null .. LastDay - 1 BY DEF PreparedRows
  <2> HIDE DEF P
  <2>7. /\ Sorted(f) \in Seq(P) /\ Len(Sorted(f)) = Len(f)
        /\ \A q, r \in 1 .. Len(f) : q < r => InOrder(Sorted(f)[q], Sorted(f)[r])
    BY <2>4, <2>5, SortedIs
  <2>8. prepared \in Seq(P) /\ \A q, r \in 1 .. Len(prepared) : q < r => InOrder(prepared[q], prepared[r])
    BY <2>2, <2>3, <2>7
  <2>9. i \in 1 .. Len(prepared) /\ j \in 1 .. Len(prepared) /\ i # j BY <2>8
  <2>10. prepared[i] \in P /\ prepared[j] \in P /\ InOrder(prepared[i], prepared[j])
    BY <2>8, <2>9, SeqIs
  <2>11. Day(prepared[i].date) <= Day(prepared[j].date)
    <3>1. prepared[i].key \in Int BY <2>5, <2>10
    <3> QED BY <2>10, <3>1 DEF InOrder
  <2>12. prepared[i].date # prepared[j].date
    BY <2>2, <2>8, <2>9, RepeatsAre DEF Unrepeated
  <2>13. Day(prepared[i].date) # Day(prepared[j].date)
    <3>1. \A d \in Null .. LastDay - 1 : d \in Int /\ d # LastDay BY DatesAre
    <3>2. prepared[i].date # LastDay /\ prepared[j].date # LastDay BY <2>6, <2>10, <3>1
    <3> QED BY <2>12, <3>2 DEF Day
  <2> QED BY <2>5, <2>10, <2>11, <2>13
<1>2. Init => Intake /\ Foreseen BY IntakeInit, ForeseenInit
<1>3. Intake /\ Foreseen /\ [Next]_vars => (Intake /\ Foreseen)' BY IntakeNext, ForeseenNext
<1> QED BY <1>1, <1>2, <1>3, PTL DEF Spec
--------------------------------------------------------------------------------
(* A history that is flat over its recent window. *)

Flat(s, v) == \A i \in 1 .. Len(s) : s[i] = v

LEMMA FlatIs ==
  ASSUME NEW s \in Seq(Int), s # <<>>, NEW v, Flat(s, v)
  PROVE  Range(s) = {v} /\ v \in Int
<1>1. PICK l \in Nat : l = Len(s) /\ DOMAIN s = 1 .. l OBVIOUS
<1>2. l # 0 BY <1>1
<1>3. 1 \in 1 .. l /\ s[1] = v /\ s[1] \in Int BY <1>1, <1>2 DEF Flat
<1>4. \A i \in DOMAIN s : s[i] = v BY <1>1 DEF Flat
<1>5. 1 \in DOMAIN s BY <1>1, <1>3
<1> QED BY <1>3, <1>4, <1>5 DEF Range

LEMMA OneValueIsFlat ==
  ASSUME NEW s \in Seq(Int), Cardinality(Range(s)) = 1
  PROVE  s # <<>> /\ \E v \in Int : Range(s) = {v} /\ Flat(s, v)
<1>1. PICK l \in Nat : l = Len(s) /\ DOMAIN s = 1 .. l OBVIOUS
<1>2. IsFiniteSet(1 .. l)
  <2>1. 1 \in Int /\ l \in Int OBVIOUS
  <2> QED BY <2>1, FS_Interval
<1>3. Range(s) = {s[i] : i \in 1 .. l} BY <1>1 DEF Range
<1>4. IsFiniteSet(Range(s))
  <2>1. s \in Surjection(1 .. l, Range(s)) BY <1>1, <1>3 DEF Surjection
  <2> QED BY <1>2, <2>1, FS_Surjection
<1>5. PICK v : Range(s) = {v} BY <1>4, FS_Singleton
<1>6. Flat(s, v) BY <1>1, <1>3, <1>5 DEF Flat
<1>7. s # <<>>
  <2>1. Range(<<>>) = {} BY DEF Range
  <2> QED BY <1>5, <2>1
<1>8. v \in Int BY <1>6, <1>7, FlatIs
<1> QED BY <1>5, <1>6, <1>7, <1>8

LEMMA SmallestOfFlat ==
  ASSUME NEW s \in Seq(Int), s # <<>>, NEW v, Flat(s, v), NEW k \in 1 .. Len(s)
  PROVE  Smallest(s, k) = v
<1>1. PICK l \in Nat : l = Len(s) /\ DOMAIN s = 1 .. l OBVIOUS
<1>2. Range(s) = {v} /\ v \in Int BY FlatIs
<1>3. {i \in DOMAIN s : s[i] < v} = {}
  <2>1. \A i \in 1 .. l : ~(s[i] < v) BY <1>1, <1>2 DEF Flat
  <2> QED BY <1>1, <2>1
<1>4. {i \in DOMAIN s : s[i] <= v} = 1 .. l
  <2>1. \A i \in 1 .. l : s[i] <= v BY <1>1, <1>2 DEF Flat
  <2> QED BY <1>1, <2>1
<1>5. Cardinality({}) = 0 BY FS_EmptySet
<1>6. Cardinality(1 .. l) = l
  <2>1. 1 \in Int /\ l \in Int /\ (1 > l => l = 0) /\ l - 1 + 1 = l OBVIOUS
  <2> QED BY <2>1, FS_Interval
<1> DEFINE Fits(x) == /\ Cardinality({i \in DOMAIN s : s[i] < x}) < k
                      /\ k <= Cardinality({i \in DOMAIN s : s[i] <= x})
<1>7. Fits(v)
  <2>1. 0 < k /\ k <= l BY <1>1
  <2> QED BY <1>3, <1>4, <1>5, <1>6, <2>1
<1>8. Smallest(s, k) = CHOOSE x \in Range(s) : Fits(x) BY DEF Smallest
<1> HIDE DEF Fits
<1>9. (CHOOSE x \in Range(s) : Fits(x)) \in Range(s)
  <2>1. \E x \in Range(s) : Fits(x) BY <1>2, <1>7
  <2> QED BY <2>1
<1> QED BY <1>2, <1>8, <1>9

LEMMA PercentileOfFlat ==
  ASSUME NEW s \in Seq(Int), s # <<>>, NEW v, Flat(s, v), NEW p \in {1, 99}
  PROVE  Percentile(s, p) = 100 * v
<1>1. PICK l \in Nat : l = Len(s) OBVIOUS
<1>2. l # 0 BY <1>1
<1>3. v \in Int BY FlatIs
<1> DEFINE at == (l - 1) * p
           i == at \div 100
           rest == at % 100
<1>4. at \in Nat /\ (p = 1 => at = l - 1) /\ (p = 99 => at = 99 * (l - 1)) BY <1>2
<1>5. i \in Nat /\ rest \in 0 .. 99 /\ at = 100 * i + rest BY <1>4
<1> HIDE DEF at
<1> HIDE DEF i, rest
<1>6. i + 1 \in 1 .. l /\ (rest # 0 => i + 2 \in 1 .. l) BY <1>2, <1>4, <1>5
<1>7. Smallest(s, i + 1) = v BY <1>1, <1>6, SmallestOfFlat
<1>8. rest # 0 => Smallest(s, i + 2) = v BY <1>1, <1>6, SmallestOfFlat
<1>9. Percentile(s, p) = Smallest(s, i + 1) * (100 - rest)
                           + (IF rest = 0 THEN 0 ELSE Smallest(s, i + 2) * rest)
  BY <1>1 DEF Percentile, i, rest, at
<1>10. CASE rest = 0
  <2>1. Percentile(s, p) = v * (100 - 0) + 0 BY <1>7, <1>9, <1>10
  <2> QED BY <1>3, <2>1
<1>11. CASE rest # 0
  <2>1. Percentile(s, p) = v * (100 - rest) + v * rest BY <1>7, <1>8, <1>9, <1>11
  <2>2. rest \in Int BY <1>5
  <2> QED BY <1>3, <2>1, <2>2
<1> QED BY <1>10, <1>11

\* No other level gets past the rule on spikes.
LEMMA FlatLeavesNoSpike ==
  ASSUME NEW s \in Seq(Int), s # <<>>, NEW v, Flat(s, v),
         NEW f \in Seq(Int), Finite(f) = f, ~PercentileSpike(s, f)
  PROVE  Flat(f, v)
<1>1. Percentile(s, 1) = 100 * v /\ Percentile(s, 99) = 100 * v BY PercentileOfFlat
<1>2. v \in Int BY FlatIs
<1> DEFINE p == 100 * v
<1>3. ~\E x \in Range(f) : 400 * x < 4 * p - (p - p) \/ 400 * x > 4 * p + (p - p)
  BY <1>1 DEF PercentileSpike
<1>4. ASSUME NEW i \in 1 .. Len(f) PROVE f[i] = v
  <2>1. f[i] \in Range(f) /\ f[i] \in Int BY DEF Range
  <2>2. ~(400 * f[i] < 4 * p - (p - p)) /\ ~(400 * f[i] > 4 * p + (p - p)) BY <1>3, <2>1
  <2> QED BY <1>2, <2>1, <2>2
<1> QED BY <1>4 DEF Flat

\* The recent window is the whole of a short history, and otherwise a year or more.
LEMMA WindowIsLong ==
  ASSUME NEW l \in Nat, NEW h \in Int, NEW frequency_
  PROVE  ReferenceWindowLength(l, frequency_, h, MinHistory) \in 0 .. l
         /\ (\/ ReferenceWindowLength(l, frequency_, h, MinHistory) = l
             \/ ReferenceWindowLength(l, frequency_, h, MinHistory) >= MinHistory)
<1> DEFINE a == 2 * SeasonalPeriod(frequency_)
           b == 3 * Max({h, 0})
           m == Max({a, b, MinHistory})
<1>1. a \in Nat BY DEF SeasonalPeriod
<1>2. Max({h, 0}) \in Int BY MaxOfTwo
<1>3. b \in Int /\ MinHistory \in Nat BY <1>2 DEF MinHistory
<1> HIDE DEF a, b
<1>4. m \in Int /\ m >= MinHistory
  <2>1. \E x \in {a, b, MinHistory} : \A y \in {a, b, MinHistory} : x >= y BY <1>1, <1>3
  <2>2. m \in {a, b, MinHistory} /\ \A y \in {a, b, MinHistory} : m >= y BY <2>1 DEF Max
  <2> QED BY <1>1, <1>3, <2>2
<1>5. ReferenceWindowLength(l, frequency_, h, MinHistory) = Min({l, m})
  BY DEF ReferenceWindowLength, a, b
<1> HIDE DEF m
<1>6. Min({l, m}) = IF l <= m THEN l ELSE m BY <1>4, MinOfTwo
<1> QED BY <1>3, <1>4, <1>5, <1>6

\* The fallback repeats what the window holds.
LEMMA NaiveStaysFlat ==
  ASSUME NEW values \in Seq(Nat), values # <<>>, NEW horizon \in Nat, NEW h \in Int,
         NEW frequency_, NEW v, Flat(RecentReference(values, frequency_, h, MinHistory), v)
  PROVE  Flat(SeasonalNaive(values, horizon), v)
<1>1. PICK l \in Nat : l = Len(values) OBVIOUS
<1>2. l # 0 BY <1>1
<1> DEFINE len == ReferenceWindowLength(l, frequency_, h, MinHistory)
           k == IF l >= SeasonalLag THEN SeasonalLag ELSE 1
           window == Latest(values, len)
           cycle == Latest(values, k)
<1>3. len \in 0 .. l /\ (len = l \/ len >= MinHistory) BY WindowIsLong
<1>4. Flat(window, v) BY <1>1 DEF RecentReference
<1> HIDE DEF len
<1>5. k \in 1 .. len /\ k \in 0 .. l BY <1>2, <1>3 DEF SeasonalLag, MinHistory
<1>6. Len(window) = len /\ \A i \in 1 .. len : window[i] = values[l - len + i]
  BY <1>1, <1>3, LatestIs
<1>7. SeasonalNaive(values, horizon) = [i \in 1 .. horizon |-> cycle[((i - 1) % Len(cycle)) + 1]]
  BY <1>1 DEF SeasonalNaive
<1> HIDE DEF k
<1>8. Len(cycle) = k /\ \A i \in 1 .. k : cycle[i] = values[l - k + i] BY <1>1, <1>5, LatestIs
<1> HIDE DEF window, cycle
<1>9. ASSUME NEW i \in 1 .. k PROVE cycle[i] = v
  <2>1. len - k + i \in 1 .. len /\ l - len + (len - k + i) = l - k + i BY <1>3, <1>5
  <2>2. window[len - k + i] = values[l - k + i] BY <1>6, <2>1
  <2>3. window[len - k + i] = v BY <1>4, <1>6, <2>1 DEF Flat
  <2> QED BY <1>8, <2>2, <2>3
<1>10. ASSUME NEW i \in 1 .. horizon PROVE SeasonalNaive(values, horizon)[i] = v
  <2>1. k \in Nat /\ k > 0 BY <1>5
  <2>2. (i - 1) % k \in 0 .. k - 1 BY <2>1
  <2>3. ((i - 1) % k) + 1 \in 1 .. k BY <2>1, <2>2
  <2> QED BY <1>7, <1>8, <1>9, <2>3
<1>11. Len(SeasonalNaive(values, horizon)) = horizon BY SeasonalNaiveIs
<1> QED BY <1>10, <1>11 DEF Flat

\* Where the history is flat over its recent window, what a selected model or the
\* seasonal baseline ships stays on its level (validation_rules.py, drift_validator.py,
\* production_selector.py).
THEOREM FlatHistoryIsProtectedHolds ==
  ASSUME LibrariesAnswer, HistoryIsJudged
  PROVE  Spec => []FlatHistoryIsProtected
<1>1. ASSUME Inv PROVE FlatHistoryIsProtected
  <2> DEFINE f == selection.forecast
             s == DriftWindow(f)
  <2> SUFFICES ASSUME Decided, selection.status \in {"selected", "fallback"},
                      selection.status = "selected" \/ SpecOf(selection.model).family = "naive",
                      Cardinality(Range(s)) = 1
               PROVE  Range(f) = Range(s)
    BY DEF FlatHistoryIsProtected, Vouched, Answered
  <2>1. stage = "done" /\ Justified BY <1>1, DecidedIs
  <2>2. series \in SeriesOf BY <1>1, <2>1, StagesAreApart DEF Inv, Intake
  <2> DEFINE values == series.values
             horizon == series.horizon
             grain == series.frequency
  <2>3. values \in Seq(Nat) /\ values # <<>> /\ horizon \in Nat \ {0} /\ Finite(values) = values
    BY <2>2, SeriesIs, NumbersAreFinite
  <2>4. /\ f \in Seq(Int) /\ Len(f) = horizon /\ Finite(f) = f
        /\ \A v : Flat(s, v) /\ s \in Seq(Int) /\ s # <<>> => Flat(f, v)
    <3>1. CASE selection.status = "selected"
      <4> DEFINE i == Place(Len(rejected) + 1)
      <4>1. i \in 1 .. Len(Survivors) /\ f = Survivors[i].forecast BY <1>1, <3>1, SelectedIs
      <4> HIDE DEF i, f
      <4>2. /\ Validate(series, f).judged /\ Validate(series, f).failed = {} /\ Len(f) = horizon
            /\ Finite(f) = f /\ f # <<>>
        BY <1>1, <2>2, <4>1, SurvivorsAreJudged
      <4>3. f \in Seq(Int)
        <5>1. Survivors \in Seq(Results) BY <1>1, SurvivorsPassed DEF Inv
        <5>2. Survivors[i] \in Results BY <4>1, <5>1, SeqIs
        <5>3. f \in Seq(Int \cup {NaN}) BY <4>1, <5>2 DEF Results
        <5> QED BY <4>2, <5>3, FiniteIs
      <4>4. ~PercentileSpike(s, f)
        <5> DEFINE failed == {r \in Rules : Rejects(r, IF r \in WindowedRules THEN s ELSE values, f)}
        <5>1. s = RecentReference(Finite(values), grain, Len(f), MinHistory)
          BY <4>2 DEF DriftWindow, f
        <5>3. Validate(series, f) = [judged |-> TRUE, failed |-> failed]
          BY <2>3, <4>2, <5>1 DEF Validate
        <5>4. "spikes" \notin failed BY <4>2, <5>3
        <5>5. "spikes" \in Rules /\ "spikes" \in WindowedRules BY DEF Rules, WindowedRules
        <5>6. ~Rejects("spikes", s, f) BY <5>4, <5>5
        <5> QED BY <5>6 DEF Rejects
      <4> HIDE DEF s
      <4> QED BY <4>2, <4>3, <4>4, FlatLeavesNoSpike
    <3>2. CASE selection.status = "fallback"
      <4>1. f = SeasonalNaive(values, horizon) BY <2>1, <3>2 DEF Justified
      <4> HIDE DEF f
      <4>2. f \in Seq(Nat) /\ Len(f) = horizon BY <2>3, <4>1, SeasonalNaiveIs
      <4>3. f \in Seq(Int) /\ Finite(f) = f BY <4>2, NumbersAreFinite
      <4>4. s = RecentReference(values, grain, horizon, MinHistory)
        BY <2>3, <4>2, <4>3 DEF DriftWindow, f
      <4> QED BY <2>3, <4>1, <4>2, <4>3, <4>4, NaiveStaysFlat
    <3> QED BY <3>1, <3>2
  <2>5. s \in Seq(Int)
    <3> DEFINE len == ReferenceWindowLength(Len(values), grain, Len(f), MinHistory)
    <3>1. s = Latest(values, len) BY <2>3, <2>4 DEF DriftWindow, RecentReference
    <3>2. Len(values) \in Nat /\ Len(f) \in Int BY <2>3, <2>4
    <3> HIDE DEF f, s
    <3>3. len \in 0 .. Len(values) BY <3>2, WindowIsLong
    <3> HIDE DEF len
    <3>4. s \in Seq(Nat) BY <2>3, <3>1, <3>3, LatestIs
    <3> QED BY <3>4
  <2>6. f # <<>>
    <3>1. Len(<<>>) = 0 /\ Len(f) # 0 BY <2>3, <2>4
    <3> QED BY <3>1, Zenon
  <2> HIDE DEF f, s
  <2>7. PICK v \in Int : s # <<>> /\ Range(s) = {v} /\ Flat(s, v) BY <2>5, OneValueIsFlat
  <2>8. Flat(f, v) BY <2>4, <2>5, <2>7
  <2>9. Range(f) = {v} BY <2>4, <2>6, <2>8, FlatIs
  <2> QED BY <2>7, <2>9
<1>2. Spec => []Inv BY Invariance
<1> QED BY <1>1, <1>2, PTL
--------------------------------------------------------------------------------
(* The targets of a set of rows added up, and how a series comes to them. *)

Weight(S) == FoldSet(LAMBDA r, sum : sum + r.target, 0, S)
Chosen(T) == CHOOSE x \in T : TRUE

\* A row added to what the others weigh.
Heavier(f, T) == IF T = {} THEN 0 ELSE f[T \ {Chosen(T)}] + Chosen(T).target
Weighs(f, S) == f = [T \in SUBSET S |-> Heavier(f, T)]
Counted(S) == IsFiniteSet(S) /\ \A x \in S : x.target \in Nat

\* The fold is a function on the parts of the set, one chosen row at a time.
LEMMA WeightFolds ==
  ASSUME NEW S
  PROVE  Weight(S) = (CHOOSE f : Weighs(f, S))[S]
BY DEF Weight, FoldSet, MapThenFoldSet, Weighs, Heavier, Chosen

LEMMA PartsAreCounted ==
  ASSUME NEW S, Counted(S), NEW T \in SUBSET S
  PROVE  /\ Counted(T)
         /\ Cardinality(T) \in Nat /\ Cardinality(S) \in Nat /\ Cardinality(T) <= Cardinality(S)
         /\ T # {} => /\ Chosen(T) \in T /\ Chosen(T).target \in Nat
                      /\ Cardinality(T \ {Chosen(T)}) = Cardinality(T) - 1
<1>1. IsFiniteSet(T) /\ Cardinality(T) <= Cardinality(S) BY FS_Subset DEF Counted
<1>2. Cardinality(T) \in Nat /\ Cardinality(S) \in Nat BY <1>1, FS_CardinalityType DEF Counted
<1>3. ASSUME T # {}
      PROVE  Chosen(T) \in T /\ Cardinality(T \ {Chosen(T)}) = Cardinality(T) - 1
  <2>1. Chosen(T) \in T BY <1>3 DEF Chosen
  <2> QED BY <1>1, <2>1, FS_RemoveElement
<1>4. T # {} => Chosen(T).target \in Nat BY <1>3 DEF Counted
<1> QED BY <1>1, <1>2, <1>3, <1>4 DEF Counted

LEMMA WeighsExists ==
  ASSUME NEW S, Counted(S)
  PROVE  \E f \in [SUBSET S -> Nat] : Weighs(f, S)
<1> DEFINE upTo(f, k) == \A T \in SUBSET S : Cardinality(T) <= k => f[T] = Heavier(f, T)
           N == {k \in Nat : \E f \in [SUBSET S -> Nat] : upTo(f, k)}
<1>1. 0 \in N
  <2> DEFINE f == [T \in SUBSET S |-> 0]
  <2>1. ASSUME NEW T \in SUBSET S, Cardinality(T) <= 0 PROVE f[T] = Heavier(f, T)
    <3>1. Cardinality(T) \in Nat BY PartsAreCounted
    <3>2. IsFiniteSet(T) BY FS_Subset DEF Counted
    <3>3. Cardinality(T) = 0 BY <2>1, <3>1
    <3>4. T = {} BY <3>2, <3>3, FS_EmptySet
    <3> QED BY <3>4 DEF Heavier
  <2>2. f \in [SUBSET S -> Nat] OBVIOUS
  <2> QED BY <2>1, <2>2
<1>2. ASSUME NEW k \in Nat, k \in N PROVE k + 1 \in N
  <2>1. PICK f \in [SUBSET S -> Nat] : upTo(f, k) BY <1>2
  <2> DEFINE g == [T \in SUBSET S |-> IF Cardinality(T) = k + 1 THEN Heavier(f, T) ELSE f[T]]
  <2>2. ASSUME NEW T \in SUBSET S PROVE Heavier(f, T) \in Nat
    <3>1. CASE T = {} BY <3>1 DEF Heavier
    <3>2. CASE T # {}
      <4>1. f[T \ {Chosen(T)}] \in Nat OBVIOUS
      <4>2. Chosen(T).target \in Nat BY <3>2, PartsAreCounted
      <4> QED BY <3>2, <4>1, <4>2 DEF Heavier
    <3> QED BY <3>1, <3>2
  <2>3. g \in [SUBSET S -> Nat] BY <2>2
  <2>4. ASSUME NEW T \in SUBSET S, Cardinality(T) <= k + 1 PROVE Heavier(g, T) = Heavier(f, T)
    <3>1. CASE T = {} BY <3>1 DEF Heavier
    <3>2. CASE T # {}
      <4> DEFINE R == T \ {Chosen(T)}
      <4>1. R \in SUBSET S /\ Cardinality(T) \in Nat /\ Cardinality(R) = Cardinality(T) - 1
        BY <3>2, PartsAreCounted
      <4>2. Cardinality(R) # k + 1 BY <2>4, <4>1
      <4>3. g[R] = f[R] BY <4>1, <4>2
      <4> QED BY <4>3 DEF Heavier
    <3> QED BY <3>1, <3>2
  <2>5. ASSUME NEW T \in SUBSET S, Cardinality(T) <= k + 1 PROVE g[T] = Heavier(g, T)
    <3>1. Cardinality(T) \in Nat BY PartsAreCounted
    <3>2. CASE Cardinality(T) = k + 1 BY <2>4, <2>5, <3>2
    <3>3. CASE Cardinality(T) # k + 1
      <4>1. Cardinality(T) <= k BY <2>5, <3>1, <3>3
      <4>2. g[T] = f[T] BY <3>3
      <4>3. f[T] = Heavier(f, T) BY <2>1, <4>1
      <4> QED BY <2>4, <2>5, <4>2, <4>3
    <3> QED BY <3>2, <3>3
  <2> HIDE DEF g
  <2> QED BY <2>3, <2>5
<1> HIDE DEF N
<1>3. Nat \subseteq N BY <1>1, <1>2, SetInduction
<1>4. Cardinality(S) \in Nat BY PartsAreCounted
<1>5. PICK f \in [SUBSET S -> Nat] : upTo(f, Cardinality(S)) BY <1>3, <1>4 DEF N
<1>6. \A T \in SUBSET S : f[T] = Heavier(f, T)
  <2>1. \A T \in SUBSET S : Cardinality(T) <= Cardinality(S)
    BY <1>4, PartsAreCounted
  <2> QED BY <1>5, <2>1
<1>7. Weighs(f, S)
  <2> DEFINE h == [T \in SUBSET S |-> Heavier(f, T)]
  <2>1. DOMAIN f = SUBSET S /\ DOMAIN h = SUBSET S OBVIOUS
  <2>2. \A T \in SUBSET S : f[T] = h[T] BY <1>6
  <2>3. f = h
    <3>1. f = [T \in SUBSET S |-> f[T]] /\ h = [T \in SUBSET S |-> h[T]] OBVIOUS
    <3> HIDE DEF h
    <3> QED BY <2>2, <3>1
  <2> QED BY <2>3 DEF Weighs
<1> QED BY <1>7

\* Two such functions agree where both are defined, so that a part weighs the same
\* whichever set it is a part of.
LEMMA WeighsAgree ==
  ASSUME NEW S, Counted(S), NEW f, Weighs(f, S), NEW R, Counted(R), NEW g, Weighs(g, R)
  PROVE  \A T \in SUBSET (S \cap R) : f[T] = g[T]
<1> DEFINE N == {k \in Nat : \A T \in SUBSET (S \cap R) : Cardinality(T) = k => f[T] = g[T]}
<1>1. ASSUME NEW T \in SUBSET (S \cap R) PROVE f[T] = Heavier(f, T) /\ g[T] = Heavier(g, T)
  <2>1. T \in SUBSET S /\ T \in SUBSET R OBVIOUS
  <2>2. f = [X \in SUBSET S |-> Heavier(f, X)] BY DEF Weighs
  <2>3. g = [X \in SUBSET R |-> Heavier(g, X)] BY DEF Weighs
  <2>4. f[T] = Heavier(f, T) BY <2>1, <2>2, Zenon
  <2>5. g[T] = Heavier(g, T) BY <2>1, <2>3, Zenon
  <2> QED BY <2>4, <2>5
<1>2. 0 \in N
  <2> SUFFICES ASSUME NEW T \in SUBSET (S \cap R), Cardinality(T) = 0 PROVE f[T] = g[T]
    OBVIOUS
  <2>1. IsFiniteSet(T)
    <3>1. T \in SUBSET S OBVIOUS
    <3> QED BY <3>1, FS_Subset DEF Counted
  <2>2. T = {} BY <2>1, FS_EmptySet
  <2> QED BY <1>1, <2>2 DEF Heavier
<1>3. ASSUME NEW k \in Nat, k \in N PROVE k + 1 \in N
  <2> SUFFICES ASSUME NEW T \in SUBSET (S \cap R), Cardinality(T) = k + 1 PROVE f[T] = g[T]
    OBVIOUS
  <2> DEFINE Q == T \ {Chosen(T)}
  <2>1. T # {} BY FS_EmptySet
  <2>2. Q \in SUBSET (S \cap R) OBVIOUS
  <2>3. Cardinality(Q) = k
    <3>1. T \in SUBSET S /\ Cardinality(Q) = Cardinality(T) - 1 BY <2>1, PartsAreCounted
    <3> QED BY <3>1
  <2>4. f[Q] = g[Q] BY <1>3, <2>2, <2>3
  <2> QED BY <1>1, <2>1, <2>4 DEF Heavier
<1> HIDE DEF N
<1>4. Nat \subseteq N BY <1>2, <1>3, SetInduction
<1> SUFFICES ASSUME NEW T \in SUBSET (S \cap R) PROVE f[T] = g[T]
  OBVIOUS
<1>5. Cardinality(T) \in Nat BY PartsAreCounted
<1> QED BY <1>4, <1>5 DEF N

LEMMA WeightStep ==
  ASSUME NEW S, Counted(S)
  PROVE  /\ Weight(S) \in Nat
         /\ S = {} => Weight(S) = 0
         /\ S # {} => Weight(S) = Weight(S \ {Chosen(S)}) + Chosen(S).target
<1> DEFINE R == S \ {Chosen(S)}
           f == CHOOSE f : Weighs(f, S)
           g == CHOOSE g : Weighs(g, R)
<1>1. Counted(R) BY PartsAreCounted
<1>2. Weighs(f, S) /\ Weighs(g, R)
  <2>1. Weighs(f, S) BY WeighsExists
  <2>2. Weighs(g, R) BY <1>1, WeighsExists
  <2> QED BY <2>1, <2>2
<1>3. Weight(S) = f[S] /\ Weight(R) = g[R] BY WeightFolds
<1> HIDE DEF f, g
<1>4. f[R] = g[R]
  <2>1. R \in SUBSET (S \cap R) OBVIOUS
  <2> HIDE DEF R
  <2> QED BY <1>1, <1>2, <2>1, WeighsAgree
<1>5. f[S] = Heavier(f, S)
  <2>1. f = [X \in SUBSET S |-> Heavier(f, X)] BY <1>2 DEF Weighs
  <2>2. S \in SUBSET S OBVIOUS
  <2> QED BY <2>1, <2>2, Zenon
<1>6. f[S] \in Nat
  <2>1. PICK h \in [SUBSET S -> Nat] : Weighs(h, S) BY WeighsExists
  <2>2. S \in SUBSET (S \cap S) OBVIOUS
  <2>3. f[S] = h[S] BY <1>2, <2>1, <2>2, WeighsAgree
  <2> QED BY <2>1, <2>3
<1> QED BY <1>3, <1>4, <1>5, <1>6 DEF Heavier
\* The rows of S one at a time, in any order: each adds its target.
LEMMA WeightAdd ==
  ASSUME NEW S, Counted(S)
  PROVE  \A T \in SUBSET S : \A x \in S \ T : Weight(T \cup {x}) = Weight(T) + x.target
<1> DEFINE N == {k \in Nat : \A T \in SUBSET S : \A x \in S \ T :
                               Cardinality(T) = k => Weight(T \cup {x}) = Weight(T) + x.target}
<1>1. \A T \in SUBSET S : Counted(T) /\ Weight(T) \in Nat /\ Cardinality(T) \in Nat
  BY PartsAreCounted, WeightStep
<1>2. \A x \in S : x.target \in Nat BY DEF Counted
<1>3. ASSUME NEW k \in Nat, k = 0 \/ k - 1 \in N, NEW T \in SUBSET S, NEW x \in S \ T,
             Cardinality(T) = k
      PROVE  Weight(T \cup {x}) = Weight(T) + x.target
  <2> DEFINE U == T \cup {x}
             c == Chosen(U)
  <2>1. c \in U /\ U # {} /\ U \in SUBSET S BY DEF Chosen
  <2>2. Weight(U) = Weight(U \ {c}) + c.target BY <1>1, <2>1, WeightStep
  <2>3. CASE c = x
    <3>1. U \ {c} = T BY <2>3
    <3> QED BY <2>2, <2>3, <3>1
  <2>4. CASE c # x
    <3> DEFINE R == T \ {c}
    <3> HIDE DEF c
    <3>1. c \in T BY <2>1, <2>4
    <3>2. IsFiniteSet(T) BY <1>1 DEF Counted
    <3>3. Cardinality(R) = k - 1 /\ k # 0
      <4>1. Cardinality(R) = Cardinality(T) - 1 BY <3>1, <3>2, FS_RemoveElement
      <4>2. T # {} BY <3>1
      <4>3. Cardinality(T) # 0 BY <3>2, <4>2, FS_EmptySet
      <4> QED BY <1>3, <4>1, <4>3
    <3>4. R \in SUBSET S /\ x \in S \ R /\ c \in S \ R /\ R \cup {c} = T /\ R \cup {x} = U \ {c}
      BY <2>1, <2>4, <3>1
    <3> HIDE DEF R, U
    <3>5. Weight(R \cup {x}) = Weight(R) + x.target BY <1>3, <3>3, <3>4
    <3>6. Weight(R \cup {c}) = Weight(R) + c.target BY <1>3, <3>3, <3>4
    <3>7. Weight(R) \in Nat /\ x.target \in Nat /\ c.target \in Nat BY <1>1, <1>2, <3>4
    <3>8. Weight(U) = Weight(R) + x.target + c.target BY <2>2, <3>4, <3>5
    <3>9. Weight(T) = Weight(R) + c.target BY <3>4, <3>6
    <3>10. Weight(U) = Weight(T) + x.target BY <3>7, <3>8, <3>9
    <3> QED BY <3>10 DEF U
  <2> QED BY <2>3, <2>4
<1>4. 0 \in N BY <1>3
<1>5. ASSUME NEW k \in Nat, k \in N PROVE k + 1 \in N
  <2> DEFINE next == k + 1
  <2>1. next \in Nat /\ next - 1 \in N BY <1>5
  <2> HIDE DEF next
  <2>2. next \in N
    <3> SUFFICES ASSUME NEW T \in SUBSET S, NEW x \in S \ T, Cardinality(T) = next
                 PROVE  Weight(T \cup {x}) = Weight(T) + x.target
      BY <2>1
    <3> HIDE DEF N
    <3> QED BY <1>3, <2>1
  <2> QED BY <2>2 DEF next
<1> HIDE DEF N
<1>6. Nat \subseteq N BY <1>4, <1>5, SetInduction
<1> QED BY <1>1, <1>6 DEF N

\* Two sets of rows with none in common.
LEMMA WeightOfUnion ==
  ASSUME NEW S, Counted(S), NEW T \in SUBSET S
  PROVE  \A R \in SUBSET (S \ T) : Weight(T \cup R) = Weight(T) + Weight(R)
<1> DEFINE N == {k \in Nat : \A R \in SUBSET (S \ T) :
                               Cardinality(R) = k => Weight(T \cup R) = Weight(T) + Weight(R)}
<1>1. \A X \in SUBSET S : Counted(X) /\ Weight(X) \in Nat /\ Cardinality(X) \in Nat
  BY PartsAreCounted, WeightStep
<1>2. 0 \in N
  <2> SUFFICES ASSUME NEW R \in SUBSET (S \ T), Cardinality(R) = 0
               PROVE  Weight(T \cup R) = Weight(T) + Weight(R)
    OBVIOUS
  <2>1. Counted(R) BY <1>1
  <2>2. R = {}
    <3>1. IsFiniteSet(R) BY <2>1 DEF Counted
    <3> QED BY <3>1, FS_EmptySet
  <2>3. Weight(R) = 0 BY <2>1, <2>2, WeightStep
  <2>4. T \cup R = T BY <2>2
  <2>5. Weight(T) \in Nat BY <1>1
  <2> QED BY <2>3, <2>4, <2>5
<1>3. ASSUME NEW k \in Nat, k \in N PROVE k + 1 \in N
  <2> SUFFICES ASSUME NEW R \in SUBSET (S \ T), Cardinality(R) = k + 1
               PROVE  Weight(T \cup R) = Weight(T) + Weight(R)
    OBVIOUS
  <2>1. Counted(R) /\ Cardinality(R) # 0 BY <1>1
  <2>2. R # {} BY <2>1, FS_EmptySet
  <2>3. PICK x : x \in R BY <2>2
  <2> DEFINE Q == R \ {x}
  <2>4. Cardinality(Q) = k
    <3>1. IsFiniteSet(R) BY <2>1 DEF Counted
    <3>2. Cardinality(Q) = Cardinality(R) - 1 BY <2>3, <3>1, FS_RemoveElement
    <3> QED BY <3>2
  <2>5. /\ Q \in SUBSET (S \ T) /\ Q \in SUBSET S /\ x \in S \ Q /\ Q \cup {x} = R
        /\ T \cup Q \in SUBSET S /\ x \in S \ (T \cup Q) /\ (T \cup Q) \cup {x} = T \cup R
    BY <2>3
  <2> HIDE DEF Q
  <2>6. Weight(T \cup Q) = Weight(T) + Weight(Q) BY <1>3, <2>4, <2>5
  <2>7. Weight(R) = Weight(Q) + x.target BY <2>5, WeightAdd
  <2>8. Weight(T \cup R) = Weight(T \cup Q) + x.target BY <2>5, WeightAdd
  <2>9. Weight(T) \in Nat /\ Weight(Q) \in Nat /\ x.target \in Nat BY <1>1, <2>5 DEF Counted
  <2> QED BY <2>6, <2>7, <2>8, <2>9
<1> HIDE DEF N
<1>4. Nat \subseteq N BY <1>2, <1>3, SetInduction
<1> SUFFICES ASSUME NEW R \in SUBSET (S \ T) PROVE Weight(T \cup R) = Weight(T) + Weight(R)
  OBVIOUS
<1>5. Cardinality(R) \in Nat BY <1>1
<1> QED BY <1>4, <1>5 DEF N

\* No row comes twice.
Injective(s) == \A i, j \in 1 .. Len(s) : i < j => s[i] # s[j]

\* Then a sequence of rows adds up to what its rows weigh.
LEMMA WeightOfRows ==
  ASSUME NEW S, NEW s \in Seq(S), \A x \in S : x.target \in Nat, Injective(s)
  PROVE  Counted(Range(s)) /\ Total(Column(s, "target")) = Weight(Range(s))
<1> DEFINE c == Column(s, "target")
           upTo(k) == {s[i] : i \in 1 .. k}
<1>1. PICK l \in Nat : l = Len(s) OBVIOUS
<1>2. Len(c) = l /\ \A i \in 1 .. l : c[i] = s[i].target BY <1>1, TargetsAre
<1> HIDE DEF c
<1>3. PICK f : Sums(f, 0, c, l) /\ Total(c) = f[l] BY <1>1, <1>2, TotalIs
<1>4. f = [i \in 0 .. l |-> IF i = 0 THEN 0 ELSE f[i - 1] + c[i]] BY <1>3 DEF Sums
<1> DEFINE N == {k \in Nat : k <= l => Counted(upTo(k)) /\ f[k] = Weight(upTo(k))}
<1>5. 0 \in N
  <2>1. upTo(0) = {} OBVIOUS
  <2>2. Counted({}) BY FS_EmptySet DEF Counted
  <2>3. Weight({}) = 0 BY <2>2, WeightStep
  <2>4. f[0] = 0 BY <1>1, <1>4
  <2> QED BY <2>1, <2>2, <2>3, <2>4
<1>6. ASSUME NEW k \in Nat, k \in N PROVE k + 1 \in N
  <2> SUFFICES ASSUME k + 1 <= l PROVE Counted(upTo(k + 1)) /\ f[k + 1] = Weight(upTo(k + 1))
    OBVIOUS
  <2> DEFINE A == upTo(k)
             x == s[k + 1]
  <2>1. Counted(A) /\ f[k] = Weight(A) BY <1>1, <1>6
  <2>2. upTo(k + 1) = A \cup {x}
    <3>1. 1 .. k + 1 = (1 .. k) \cup {k + 1} OBVIOUS
    <3> QED BY <3>1
  <2>3. x \notin A
    <3>1. \A i \in 1 .. k : s[i] # x BY <1>1 DEF Injective
    <3> QED BY <3>1
  <2>4. x.target \in Nat /\ c[k + 1] = x.target BY <1>1, <1>2
  <2>5. f[k + 1] = f[k] + c[k + 1] BY <1>1, <1>4
  <2> HIDE DEF A, x, upTo
  <2>6. Counted(A \cup {x})
    <3>1. IsFiniteSet(A \cup {x}) BY <2>1, FS_AddElement DEF Counted
    <3> QED BY <2>1, <2>4, <3>1 DEF Counted
  <2>7. Weight(A \cup {x}) = Weight(A) + x.target
    <3>1. A \in SUBSET (A \cup {x}) /\ x \in (A \cup {x}) \ A BY <2>3
    <3> QED BY <2>6, <3>1, WeightAdd
  <2> QED BY <2>1, <2>2, <2>4, <2>5, <2>6, <2>7
<1>8. Counted(upTo(l)) /\ f[l] = Weight(upTo(l))
  <2> HIDE DEF N
  <2>1. Nat \subseteq N BY <1>5, <1>6, SetInduction
  <2>2. l \in N BY <1>1, <2>1
  <2> HIDE DEF upTo
  <2> QED BY <1>1, <2>2 DEF N
<1>7. Range(s) = upTo(l) BY <1>1 DEF Range
<1> QED BY <1>3, <1>7, <1>8 DEF c

\* The first occurrences in a sequence: each element once, and none left out.
LEMMA FirstsAre ==
  ASSUME NEW S, NEW s \in Seq(S)
  PROVE  /\ At(s, Firsts(s)) \in Seq(S) /\ Injective(At(s, Firsts(s)))
         /\ Range(At(s, Firsts(s))) = Range(s)
<1> DEFINE firsts == Firsts(s)
           r == At(s, firsts)
<1>1. PICK l \in Nat : l = Len(s) /\ DOMAIN s = 1 .. l OBVIOUS
<1>2. firsts = {i \in 1 .. l : \A j \in 1 .. i - 1 : s[j] # s[i]} BY <1>1 DEF Firsts
<1> HIDE DEF firsts
<1>3. firsts \in SUBSET (1 .. l) BY <1>2
<1>4. r \in Seq(S) /\ Range(r) = {s[p] : p \in firsts} /\ \E pos : Taken(r, s, firsts, pos)
  BY <1>1, <1>3, AtTakes, AtRange
<1> HIDE DEF r
<1>5. Injective(r)
  <2>1. PICK pos : Taken(r, s, firsts, pos) BY <1>4
  <2> SUFFICES ASSUME NEW i \in 1 .. Len(r), NEW j \in 1 .. Len(r), i < j PROVE r[i] # r[j]
    BY DEF Injective
  <2>2. /\ r[i] = s[pos[i]] /\ r[j] = s[pos[j]] /\ pos[i] < pos[j]
        /\ pos[i] \in firsts /\ pos[j] \in firsts
    BY <2>1 DEF Taken
  <2>3. pos[i] \in 1 .. pos[j] - 1
    <3>1. pos[i] \in 1 .. l /\ pos[j] \in 1 .. l BY <1>3, <2>2
    <3> QED BY <1>1, <2>2, <3>1
  <2> QED BY <1>2, <2>2, <2>3
<1>6. \A i \in 1 .. l : \E p \in firsts : s[p] = s[i]
  <2> DEFINE N == {k \in Nat : \A i \in 1 .. l : i <= k => \E p \in firsts : s[p] = s[i]}
  <2>1. 0 \in N OBVIOUS
  <2>2. ASSUME NEW k \in Nat, k \in N PROVE k + 1 \in N
    <3>1. ASSUME NEW i \in 1 .. l, i <= k + 1 PROVE \E p \in firsts : s[p] = s[i]
      <4>1. CASE i \in firsts BY <4>1
      <4>2. CASE i \notin firsts
        <5>1. PICK j \in 1 .. i - 1 : s[j] = s[i] BY <1>2, <4>2
        <5>2. j \in 1 .. l /\ j <= k BY <3>1, <5>1
        <5>3. \E p \in firsts : s[p] = s[j] BY <2>2, <5>2
        <5> QED BY <5>1, <5>3
      <4> QED BY <4>1, <4>2
    <3> QED BY <3>1
  <2> HIDE DEF N
  <2>3. Nat \subseteq N BY <2>1, <2>2, SetInduction
  <2>4. l \in N BY <2>3
  <2> QED BY <2>4 DEF N
<1>7. Range(r) = Range(s) BY <1>1, <1>3, <1>4, <1>6 DEF Range
<1> QED BY <1>4, <1>5, <1>7 DEF r, firsts

\* What is taken of a sequence without a repeated element has none either.
LEMMA AtInjective ==
  ASSUME NEW S, NEW s \in Seq(S), NEW places \in SUBSET (1 .. Len(s)), Injective(s)
  PROVE  Injective(At(s, places))
<1> DEFINE r == At(s, places)
<1>1. PICK pos : Taken(r, s, places, pos) BY AtTakes
<1> HIDE DEF r
<1> SUFFICES ASSUME NEW i \in 1 .. Len(r), NEW j \in 1 .. Len(r), i < j PROVE r[i] # r[j]
  BY DEF Injective, r
<1>2. /\ r[i] = s[pos[i]] /\ r[j] = s[pos[j]] /\ pos[i] < pos[j]
      /\ pos[i] \in places /\ pos[j] \in places
  BY <1>1 DEF Taken
<1> QED BY <1>2 DEF Injective

LEMMA UnrepeatedIsInjective == ASSUME NEW rows, Unrepeated(rows) PROVE Injective(rows)
BY DEF Unrepeated, Injective

\* Cleaning keeps each distinct row that has a number and, unless the dates came as
\* such, a date; each once.
LEMMA CleanHas ==
  ASSUME NEW u \in Range(Uploads)
  PROVE  /\ Injective(Clean(u))
         /\ Range(Clean(u)) =
              {r \in Range(u.rows) : r.target >= 0 /\ (u.dates = "datetime" \/ r.date >= 0)}
<1> DEFINE rows == u.rows
           d == Dated(u)
           e == Distinct(d)
           c == Clean(u)
           places == {i \in DOMAIN e : e[i].target >= 0}
<1>1. rows \in Seq(RawRows(u)) BY UploadIs
<1>2. d \in Seq(DatedRows(u)) BY DatedIs
<1>3. Range(d) = {r \in Range(rows) : u.dates = "datetime" \/ r.date >= 0}
  <2>1. CASE u.dates = "datetime" BY <2>1 DEF Dated
  <2>2. CASE u.dates # "datetime"
    <3> DEFINE there == {i \in DOMAIN rows : rows[i].date >= 0}
    <3>1. d = At(rows, there) BY <2>2 DEF Dated
    <3> HIDE DEF rows, d
    <3>2. there \in SUBSET (1 .. Len(rows)) BY <1>1
    <3>3. Range(d) = {rows[p] : p \in there} BY <1>1, <3>1, <3>2, AtRange
    <3> QED BY <2>2, <3>3 DEF Range
  <2> QED BY <2>1, <2>2
<1> HIDE DEF rows, d
<1>4. e \in Seq(DatedRows(u)) /\ Injective(e) /\ Range(e) = Range(d) BY <1>2, FirstsAre DEF Distinct
<1> HIDE DEF e
<1>5. c = At(e, places) BY DEF Clean, WithTarget, e, d
<1>6. places \in SUBSET (1 .. Len(e)) BY <1>4
<1> HIDE DEF places, c
<1>7. Injective(c) /\ Range(c) = {e[p] : p \in places} BY <1>4, <1>5, <1>6, AtInjective, AtRange
<1>8. Range(c) = {r \in Range(e) : r.target >= 0} BY <1>7 DEF Range, places
<1> QED BY <1>3, <1>4, <1>7, <1>8 DEF c, rows

\* Sorting loses no row and adds none.
LEMMA SortedHas ==
  ASSUME NEW S, NEW rows \in Seq(S), \A x \in S : x.key \in Int /\ Day(x.date) \in Int
  PROVE  Range(Sorted(rows)) = Range(rows)
<1> DEFINE s == Sorted(rows)
           place == RowPlaces(rows)
<1>1. PICK m \in Nat : m = Len(rows) /\ DOMAIN rows = 1 .. m OBVIOUS
<1>2. /\ s \in Seq(S) /\ Len(s) = m
      /\ \A r \in 1 .. m : place[r] \in 1 .. m /\ s[r] = rows[place[r]]
      /\ \A i \in 1 .. m : \E r \in 1 .. m : place[r] = i
  BY <1>1, SortedIs
<1> HIDE DEF s, place
<1>3. DOMAIN s = 1 .. m BY <1>2
<1>4. ASSUME NEW x PROVE x \in Range(s) <=> x \in Range(rows)
  <2>1. ASSUME x \in Range(s) PROVE x \in Range(rows)
    <3>1. PICK r \in 1 .. m : x = s[r] BY <1>3, <2>1 DEF Range
    <3>2. place[r] \in 1 .. m /\ x = rows[place[r]] BY <1>2, <3>1
    <3> QED BY <1>1, <3>2 DEF Range
  <2>2. ASSUME x \in Range(rows) PROVE x \in Range(s)
    <3>1. PICK i \in 1 .. m : x = rows[i] BY <1>1, <2>2 DEF Range
    <3>2. PICK r \in 1 .. m : place[r] = i BY <1>2
    <3>3. s[r] = x BY <1>2, <3>1, <3>2
    <3> QED BY <1>3, <3>3 DEF Range
  <2> QED BY <2>1, <2>2
<1>5. Range(s) = Range(rows) BY <1>4
<1> QED BY <1>5 DEF s

\* What a key's rows add up to.
LEMMA ValuesWeigh ==
  ASSUME NEW u, NEW rows \in Seq(PreparedRows(u)), Injective(rows), NEW key
  PROVE  /\ Counted(Range(rows))
         /\ Total(Column(At(rows, {i \in DOMAIN rows : rows[i].key = key}), "target"))
              = Weight({r \in Range(rows) : r.key = key})
<1> DEFINE P == PreparedRows(u)
           those == {i \in DOMAIN rows : rows[i].key = key}
           taken == At(rows, those)
<1>1. \A x \in P : x.target \in Nat BY DEF PreparedRows
<1> HIDE DEF P
<1>2. rows \in Seq(P) BY DEF P
<1>3. those \in SUBSET (1 .. Len(rows)) BY <1>2
<1> HIDE DEF taken
<1>4. taken \in Seq(P) /\ Injective(taken) /\ Range(taken) = {rows[p] : p \in those}
  <2> HIDE DEF those
  <2> QED BY <1>2, <1>3, AtTakes, AtInjective, AtRange DEF taken
<1>5. Range(taken) = {r \in Range(rows) : r.key = key} BY <1>4 DEF Range
<1>6. Total(Column(taken, "target")) = Weight(Range(taken)) BY <1>1, <1>4, WeightOfRows
<1>7. Counted(Range(rows)) BY <1>1, <1>2, WeightOfRows
<1> QED BY <1>5, <1>6, <1>7 DEF taken, those

\* Rows that are parted over the months of M: they weigh what the months are worth.
LEMMA MonthsWeigh ==
  ASSUME NEW S, Counted(S), NEW M, Counted(M),
         \A m \in M : m.target = Weight({r \in S : MonthStart(r.date) = m.date}),
         \A m, o \in M : m.date = o.date => m = o,
         \A r \in S : \E m \in M : MonthStart(r.date) = m.date
  PROVE  Weight(M) = Weight(S)
<1> DEFINE of(Q) == {r \in S : \E m \in Q : MonthStart(r.date) = m.date}
           N == {k \in Nat : \A Q \in SUBSET M : Cardinality(Q) = k => Weight(Q) = Weight(of(Q))}
<1>1. \A Q \in SUBSET M : Counted(Q) /\ Cardinality(Q) \in Nat BY PartsAreCounted
<1>2. \A R \in SUBSET S : Weight(R) \in Nat BY PartsAreCounted, WeightStep
<1>3. 0 \in N
  <2> SUFFICES ASSUME NEW Q \in SUBSET M, Cardinality(Q) = 0 PROVE Weight(Q) = Weight(of(Q))
    OBVIOUS
  <2>1. IsFiniteSet(Q) BY <1>1 DEF Counted
  <2>2. Q = {} BY <2>1, FS_EmptySet
  <2>3. of(Q) = Q BY <2>2
  <2> QED BY <2>3
<1>4. ASSUME NEW k \in Nat, k \in N PROVE k + 1 \in N
  <2> SUFFICES ASSUME NEW Q \in SUBSET M, Cardinality(Q) = k + 1 PROVE Weight(Q) = Weight(of(Q))
    OBVIOUS
  <2>1. IsFiniteSet(Q) /\ Cardinality(Q) # 0 BY <1>1 DEF Counted
  <2>2. Q # {} BY <2>1, FS_EmptySet
  <2>3. PICK m : m \in Q BY <2>2
  <2> DEFINE R == Q \ {m}
             here == {r \in S : MonthStart(r.date) = m.date}
  <2>4. Cardinality(R) = k
    <3>1. Cardinality(R) = Cardinality(Q) - 1 BY <2>1, <2>3, FS_RemoveElement
    <3> QED BY <3>1
  <2>5. R \in SUBSET M /\ m \in M \ R /\ R \cup {m} = Q BY <2>3
  <2>6. of(Q) = of(R) \cup here BY <2>5
  <2>7. \A o \in R : o.date # m.date BY <2>5
  <2>8. of(R) \in SUBSET S /\ here \in SUBSET (S \ of(R)) BY <2>7
  <2>9. m.target = Weight(here) BY <2>5
  <2>10. Weight(R) = Weight(of(R)) BY <1>4, <2>4, <2>5
  <2> HIDE DEF R, here, of
  <2>11. Weight(Q) = Weight(R) + m.target BY <2>5, WeightAdd
  <2>12. Weight(of(Q)) = Weight(of(R)) + Weight(here) BY <2>6, <2>8, WeightOfUnion
  <2> QED BY <2>9, <2>10, <2>11, <2>12
<1> HIDE DEF N
<1>5. Nat \subseteq N BY <1>3, <1>4, SetInduction
<1>6. M \in SUBSET M /\ Cardinality(M) \in Nat BY <1>1
<1>7. Weight(M) = Weight(of(M))
  <2> HIDE DEF of
  <2> QED BY <1>5, <1>6 DEF N
<1>8. of(M) = S OBVIOUS
<1> QED BY <1>7, <1>8

\* A key's rows with a date, and its months.
DatedOf(rows, key) == {r \in Range(rows) : r.key = key /\ r.date # Null}
MonthsOf(rows, key) == {m \in Range(Monthly(rows, "sum")) : m.key = key}

\* Each month of a key has the rows of the month behind it, and each of the key's rows
\* has a month.
LEMMA MonthlyHas ==
  ASSUME NEW u \in Range(Uploads), NEW rows \in Seq(PreparedRows(u)), Injective(rows),
         NEW key, key # Null
  PROVE  /\ Counted(DatedOf(rows, key))
         /\ \A m \in MonthsOf(rows, key) :
              m.target = Weight({r \in DatedOf(rows, key) : MonthStart(r.date) = m.date})
         /\ \A r \in DatedOf(rows, key) :
              \E m \in MonthsOf(rows, key) : MonthStart(r.date) = m.date
<1> DEFINE here == {i \in DOMAIN rows : rows[i].key # Null /\ rows[i].date # Null}
           dated == DatedOnly(rows)
           cells == MonthCells(dated)
           all == Monthly(rows, "sum")
           D == MonthRows(u)
           C == Keys(u) \X (0 .. LastDay - 1)
           those == {r \in Range(rows) : r.key = key /\ r.date # Null}
           months == {m \in Range(all) : m.key = key}
<1>1. dated \in Seq(D) /\ cells \in Seq(C) /\ Len(cells) = Len(dated) BY MonthCellsAre
<1>2. Injective(dated) /\ Range(dated) = {rows[p] : p \in here}
  <2>1. dated = At(rows, here) BY DEF DatedOnly
  <2>2. here \in SUBSET (1 .. Len(rows)) OBVIOUS
  <2> HIDE DEF here, dated
  <2> QED BY <2>1, <2>2, AtInjective, AtRange
<1>3. Range(dated) = {r \in Range(rows) : r.key # Null /\ r.date # Null} BY <1>2 DEF Range
<1>4. those = {r \in Range(dated) : r.key = key} BY <1>3
<1> HIDE DEF those, here
<1>5. \A x \in D : x.target \in Nat BY DEF MonthRows
<1>6. PICK l \in Nat : /\ l = Len(dated) /\ DOMAIN dated = 1 .. l
                       /\ l = Len(cells) /\ DOMAIN cells = 1 .. l
  <2> HIDE DEF dated, cells, D, C
  <2> QED BY <1>1
<1>7. \A i \in 1 .. l : cells[i] = <<dated[i].key, MonthStart(dated[i].date)>>
  BY <1>6 DEF MonthCells
<1>8. Months(dated) \in Seq(C) /\ Range(Months(dated)) = Range(cells)
  <2> HIDE DEF cells, dated, C
  <2> QED BY <1>1, FirstsAre DEF Months, cells
<1>9. Range(all) =
        {[key |-> c[1], date |-> c[2], target |-> Total(OfMonth(dated, c))] : c \in Range(cells)}
  <2> DEFINE ms == Months(dated)
             worth(c) == [key |-> c[1], date |-> c[2], target |-> Total(OfMonth(dated, c))]
  <2>1. \A s : MonthValue(s, "sum") = Total(s) BY DEF MonthValue
  <2>2. all = [i \in DOMAIN ms |-> [key |-> ms[i][1], date |-> ms[i][2],
                                    target |-> MonthValue(OfMonth(dated, ms[i]), "sum")]]
    BY MonthlyIs
  <2> HIDE DEF all, ms, dated, cells
  <2>3. all = [i \in DOMAIN ms |-> worth(ms[i])] BY <2>1, <2>2
  <2> HIDE DEF worth
  <2>4. Range(all) = {worth(c) : c \in Range(ms)} BY <2>3 DEF Range
  <2> QED BY <1>8, <2>4 DEF ms, worth
<1> HIDE DEF all
<1>10. ASSUME NEW c \in Range(cells)
       PROVE  Total(OfMonth(dated, c)) =
                Weight({r \in Range(dated) : r.key = c[1] /\ MonthStart(r.date) = c[2]})
  <2> DEFINE cell == {i \in DOMAIN cells : cells[i] = c}
             taken == At(dated, cell)
  <2>1. cell \in SUBSET (1 .. l) /\ OfMonth(dated, c) = Column(taken, "target")
    BY <1>6 DEF OfMonth
  <2>2. taken \in Seq(D) /\ Injective(taken) /\ Range(taken) = {dated[p] : p \in cell}
    <3> HIDE DEF cell, dated, D
    <3> QED BY <1>1, <1>2, <1>6, <2>1, AtTakes, AtInjective, AtRange
  <2>3. c = <<c[1], c[2]>>
    <3>1. c \in C
      <4> HIDE DEF cells, C
      <4> QED BY <1>1, <1>6 DEF Range
    <3> QED BY <3>1
  <2>4. Range(taken) = {r \in Range(dated) : r.key = c[1] /\ MonthStart(r.date) = c[2]}
    <3> DEFINE p(r) == r.key = c[1] /\ MonthStart(r.date) = c[2]
    <3>1. \A i \in 1 .. l : cells[i] = c <=> p(dated[i]) BY <1>7, <2>3
    <3>2. cell = {i \in 1 .. l : p(dated[i])} BY <1>6, <3>1
    <3> HIDE DEF p, cell, dated, taken
    <3>3. Range(dated) = {dated[i] : i \in 1 .. l} BY <1>6 DEF Range
    <3>4. Range(taken) = {r \in Range(dated) : p(r)} BY <2>2, <3>2, <3>3
    <3> QED BY <3>4 DEF p
  <2> HIDE DEF taken, D
  <2>5. Total(Column(taken, "target")) = Weight(Range(taken)) BY <1>5, <2>2, WeightOfRows
  <2> QED BY <2>1, <2>4, <2>5
<1>11. Counted(those)
  <2> HIDE DEF D, dated
  <2>1. Counted(Range(dated)) BY <1>1, <1>2, <1>5, WeightOfRows
  <2>2. those \in SUBSET Range(dated) BY <1>4
  <2> QED BY <2>1, <2>2, PartsAreCounted
<1>12. ASSUME NEW m \in months PROVE m.target = Weight({r \in those : MonthStart(r.date) = m.date})
  <2>1. PICK c \in Range(cells) :
          m = [key |-> c[1], date |-> c[2], target |-> Total(OfMonth(dated, c))]
    BY <1>9
  <2>2. m.key = c[1] /\ m.date = c[2] /\ m.target = Total(OfMonth(dated, c)) /\ m.key = key BY <2>1
  <2>3. {r \in those : MonthStart(r.date) = m.date} =
          {r \in Range(dated) : r.key = c[1] /\ MonthStart(r.date) = c[2]}
    BY <1>4, <2>2
  <2> QED BY <1>10, <2>2, <2>3
<1>13. ASSUME NEW r \in those PROVE \E m \in months : MonthStart(r.date) = m.date
  <2>1. r \in Range(dated) /\ r.key = key BY <1>4
  <2>2. PICK i \in 1 .. l : r = dated[i] BY <1>6, <2>1 DEF Range
  <2> DEFINE c == cells[i]
             m == [key |-> c[1], date |-> c[2], target |-> Total(OfMonth(dated, c))]
  <2>3. c = <<r.key, MonthStart(r.date)>> BY <1>7, <2>2
  <2>4. c \in Range(cells) BY <1>6 DEF Range
  <2> HIDE DEF c
  <2>5. m \in Range(all) BY <1>9, <2>4
  <2>6. m.key = key /\ m.date = MonthStart(r.date) BY <2>1, <2>3
  <2> QED BY <2>5, <2>6
<1> HIDE DEF those, months
<1>14. those = DatedOf(rows, key) /\ months = MonthsOf(rows, key)
  BY DEF those, months, all, DatedOf, MonthsOf
<1> QED BY <1>11, <1>12, <1>13, <1>14

\* groupby leaves out the rows without a key.
LEMMA MonthlyKeysAre ==
  ASSUME NEW u \in Range(Uploads), NEW rows \in Seq(PreparedRows(u))
  PROVE  \A m \in Range(Monthly(rows, "sum")) : m.key # Null
<1> DEFINE here == {i \in DOMAIN rows : rows[i].key # Null /\ rows[i].date # Null}
           dated == DatedOnly(rows)
           cells == MonthCells(dated)
           ms == Months(dated)
           C == Keys(u) \X (0 .. LastDay - 1)
<1>1. dated \in Seq(MonthRows(u)) /\ cells \in Seq(C) /\ Len(cells) = Len(dated) BY MonthCellsAre
<1>2. Range(dated) = {rows[p] : p \in here}
  <2>1. dated = At(rows, here) BY DEF DatedOnly
  <2>2. here \in SUBSET (1 .. Len(rows)) OBVIOUS
  <2> HIDE DEF here, dated
  <2> QED BY <2>1, <2>2, AtRange
<1>3. \A r \in Range(dated) : r.key # Null BY <1>2
<1> HIDE DEF dated
<1>4. \A c \in Range(cells) : c[1] # Null
  <2>1. cells = [i \in DOMAIN dated |-> <<dated[i].key, MonthStart(dated[i].date)>>]
    BY DEF MonthCells
  <2> HIDE DEF cells
  <2>2. \A c \in Range(cells) :
          \E i \in DOMAIN dated : c = <<dated[i].key, MonthStart(dated[i].date)>>
    BY <2>1 DEF Range
  <2> QED BY <1>3, <2>2 DEF Range
<1>5. Range(ms) = Range(cells)
  <2> HIDE DEF cells, C
  <2> QED BY <1>1, FirstsAre DEF Months, cells
<1> HIDE DEF cells, ms
<1>6. \A i \in DOMAIN ms : ms[i][1] # Null BY <1>4, <1>5 DEF Range
<1>7. /\ DOMAIN Monthly(rows, "sum") = DOMAIN ms
      /\ \A i \in DOMAIN ms : Monthly(rows, "sum")[i].key = ms[i][1]
  BY MonthlyIs DEF ms, dated
<1> QED BY <1>6, <1>7 DEF Range

\* What counts in the series of a key: with the dates of a real datetime column that are
\* empty, where nothing is aggregated.
Kept(u, grain, key) ==
  LET usable == {r \in Range(u.rows) : r.key = key /\ r.target >= 0 /\ r.date >= 0}
      undated == {r \in Range(u.rows) : r.key = key /\ r.target >= 0 /\ r.date = Null}
  IN  IF u.dates = "datetime" /\ grain \notin {"Daily", "Weekly"}
      THEN usable \cup undated ELSE usable

ByMonth(grain) == grain \in {"Daily", "Weekly"}

LEMMA KeptRowsAre ==
  ASSUME NEW u \in Range(Uploads), NEW grain, NEW key
  PROVE  /\ ~ByMonth(grain) => Kept(u, grain, key) = {r \in Range(Clean(u)) : r.key = key}
         /\ ByMonth(grain) =>
              Kept(u, grain, key) = {r \in Range(Clean(u)) : r.key = key /\ r.date # Null}
<1> DEFINE rows == u.rows
           all == Range(rows)
           clean == Range(Clean(u))
<1>1. clean = {r \in all : r.target >= 0 /\ (u.dates = "datetime" \/ r.date >= 0)} BY CleanHas
<1>2. \A r \in all : /\ r.date \in Unreadable .. LastDay - 1
                     /\ u.dates = "datetime" => r.date # Unreadable
  <2>1. /\ rows \in Seq(RawRows(u))
        /\ u.dates = "datetime" => \A i \in 1 .. Len(rows) : rows[i].date # Unreadable
    BY UploadIs
  <2> HIDE DEF rows
  <2>2. DOMAIN rows = 1 .. Len(rows) /\ \A i \in 1 .. Len(rows) : rows[i] \in RawRows(u)
    BY <2>1, SeqIs
  <2> QED BY <2>1, <2>2 DEF Range, RawRows
<1>3. ASSUME NEW r \in all PROVE r.date \in Int /\ r.date >= Unreadable
  BY <1>2, DatesAre DEF Unreadable
<1>4. \A r \in all : /\ u.dates = "datetime" => (r.date >= 0 \/ r.date = Null)
                     /\ r.date >= 0 => r.date # Null
  <2> SUFFICES ASSUME NEW r \in all
               PROVE  /\ u.dates = "datetime" => (r.date >= 0 \/ r.date = Null)
                      /\ r.date >= 0 => r.date # Null
    OBVIOUS
  <2>1. u.dates = "datetime" => r.date # Unreadable BY <1>2
  <2>2. r.date \in Int /\ r.date >= Unreadable BY <1>3
  <2> QED BY <2>1, <2>2 DEF Null, Unreadable
<1> DEFINE usable == {r \in all : r.key = key /\ r.target >= 0 /\ r.date >= 0}
           undated == {r \in all : r.key = key /\ r.target >= 0 /\ r.date = Null}
<1>5. Kept(u, grain, key) =
        IF u.dates = "datetime" /\ ~ByMonth(grain) THEN usable \cup undated ELSE usable
  BY DEF Kept, ByMonth
<1> HIDE DEF clean, all
<1>6. {r \in clean : r.key = key} = IF u.dates = "datetime" THEN usable \cup undated ELSE usable
  <2>1. CASE u.dates = "datetime"
    <3>1. clean = {r \in all : r.target >= 0} BY <1>1, <2>1
    <3>2. \A r \in all : r.date >= 0 \/ r.date = Null BY <1>4, <2>1
    <3> QED BY <2>1, <3>1, <3>2
  <2>2. CASE u.dates # "datetime"
    <3>1. clean = {r \in all : r.target >= 0 /\ r.date >= 0} BY <1>1, <2>2
    <3> QED BY <2>2, <3>1
  <2> QED BY <2>1, <2>2
<1>7. {r \in clean : r.key = key /\ r.date # Null} = usable
  <2>1. \A r \in all : (u.dates = "datetime" \/ r.date >= 0) /\ r.date # Null <=> r.date >= 0
    BY <1>4
  <2> QED BY <1>1, <2>1
<1> HIDE DEF usable, undated
<1> QED BY <1>5, <1>6, <1>7 DEF clean

\* What a frame in which no key and date comes twice gives a key.
LEMMA CuratedWeighs ==
  ASSUME NEW u \in Range(Uploads), NEW grain, Repeats(Curated(u, grain)) = {},
         ByMonth(grain) => u.method = "sum",
         NEW key \in KeysOf(Curated(u, grain))
  PROVE  LET made == Curated(u, grain)
         IN  Total(Column(At(made, {i \in DOMAIN made : made[i].key = key}), "target"))
               = Weight(Kept(u, grain, key))
<1> DEFINE made == Curated(u, grain)
           c == Clean(u)
           f == IF grain \in {"Daily", "Weekly"} THEN Monthly(c, u.method) ELSE c
           P == PreparedRows(u)
<1>1. c \in Seq(P) /\ f \in Seq(P) /\ made \in Seq(P) BY CleanIs, MonthlyTyped, CuratedIs
<1>2. \A x \in P : x.key \in Int /\ Day(x.date) \in Int BY RowsCompare
<1>3. made = Sorted(f) BY DEF Curated
<1>4. Injective(c) BY CleanHas
<1> HIDE DEF P, made
<1>5. Injective(made) /\ Unrepeated(made) BY <1>1, RepeatsAre, UnrepeatedIsInjective DEF made
<1>6. Range(made) = Range(f)
  <2> HIDE DEF f
  <2> QED BY <1>1, <1>2, <1>3, SortedHas
<1>7. /\ Counted(Range(made))
      /\ Total(Column(At(made, {i \in DOMAIN made : made[i].key = key}), "target"))
           = Weight({r \in Range(made) : r.key = key})
  BY <1>1, <1>5, ValuesWeigh DEF P
<1>8. CASE ~ByMonth(grain)
  <2>1. Range(made) = Range(c) BY <1>6, <1>8 DEF ByMonth
  <2>2. Kept(u, grain, key) = {r \in Range(c) : r.key = key} BY <1>8, KeptRowsAre
  <2> QED BY <1>7, <2>1, <2>2 DEF made
<1>9. CASE ByMonth(grain)
  <2> DEFINE those == DatedOf(c, key)
             months == MonthsOf(c, key)
  <2>1. f = Monthly(c, "sum") BY <1>9 DEF ByMonth
  <2>2. key # Null
    <3>1. PICK i \in 1 .. Len(made) : made[i].key = key BY DEF KeysOf, made
    <3>2. made[i] \in Range(made) BY <1>1 DEF Range
    <3>3. made[i] \in Range(f) BY <1>6, <3>2
    <3>4. \A m \in Range(Monthly(c, "sum")) : m.key # Null
      BY <1>1, MonthlyKeysAre DEF P
    <3> QED BY <2>1, <3>1, <3>3, <3>4
  <2>3. /\ Counted(those)
        /\ \A m \in months : m.target = Weight({r \in those : MonthStart(r.date) = m.date})
        /\ \A r \in those : \E m \in months : MonthStart(r.date) = m.date
    <3>1. c \in Seq(PreparedRows(u)) BY <1>1 DEF P
    <3> HIDE DEF c
    <3> QED BY <1>4, <2>2, <3>1, MonthlyHas
  <2>4. months = {r \in Range(made) : r.key = key} BY <1>6, <2>1 DEF MonthsOf
  <2>5. Counted(months)
    <3> HIDE DEF months
    <3>1. months \in SUBSET Range(made) BY <2>4
    <3> QED BY <1>7, <3>1, PartsAreCounted
  <2>6. \A m, o \in months : m.date = o.date => m = o
    <3>1. \A m, o \in Range(made) : m.key = o.key /\ m.date = o.date => m = o
      <4>1. DOMAIN made = 1 .. Len(made) BY <1>1
      <4> QED BY <1>5, <4>1 DEF Range, Unrepeated
    <3> QED BY <2>4, <3>1
  <2> HIDE DEF those, months
  <2>7. Weight(months) = Weight(those) BY <2>3, <2>5, <2>6, MonthsWeigh
  <2>8. Kept(u, grain, key) = those BY <1>9, KeptRowsAre DEF those, DatedOf
  <2> QED BY <1>7, <2>4, <2>7, <2>8 DEF made
<1> QED BY <1>8, <1>9

\* A series adds up to what counts in it; the property's sum is Weight.
CountsOnce(u, grain, s) ==
  u.method = "sum" \/ ~ByMonth(grain) => Total(s.values) = Weight(Kept(u, grain, s.key))
CountedOnce == stage = "train" => CountsOnce(File, frequency, series)

LEMMA CountedOnceIs == EveryObservationCountsOnce <=> CountedOnce
BY DEF EveryObservationCountsOnce, CountedOnce, CountsOnce, Weight, Kept, ByMonth, Rows

LEMMA CountedOnceInit == Init => CountedOnce
BY DEF Init, PreparationInit, CountedOnce

LEMMA CountedOnceNext ==
  ASSUME Intake, Foreseen, CountedOnce, [Next]_vars
  PROVE  CountedOnce'
<1>1. CASE stage' # "train" BY <1>1 DEF CountedOnce
<1>2. CASE PreparationNext /\ stage' = "train"
  <2>1. BuildSeries
    BY <1>2 DEF PreparationNext, Validate_metadata, LoadDataset, DetectFrequency, AssessQuality,
         Preprocess, PersistCurated, VerifyCurated, GenerateGroups, Advance, Refuse
  <2>2. upload' = upload /\ frequency' = frequency /\ stage = "build" BY <2>1 DEF BuildSeries
  <2>3. PICK key \in groups : series' = Built(key) BY <2>1 DEF BuildSeries
  <2>4. File' = File BY <2>2, SameFile
  <2>5. prepared = Curated(File, frequency) /\ Repeats(prepared) = {}
    BY <2>2 DEF Foreseen, Repeated, Made
  <2>6. key \in KeysOf(prepared) /\ File \in Range(Uploads) BY <2>2, <2>3, FileIs DEF Intake
  <2> DEFINE those == {i \in DOMAIN prepared : prepared[i].key = key}
             values == Column(At(prepared, those), "target")
  <2>7. ASSUME ByMonth(frequency) => File.method = "sum"
        PROVE  Total(values) = Weight(Kept(File, frequency, key))
    BY <2>5, <2>6, <2>7, CuratedWeighs
  <2>8. Built(key).key = key /\ Built(key).values = values BY DEF Built
  <2> HIDE DEF values
  <2>9. CountsOnce(File, frequency, Built(key)) BY <2>7, <2>8 DEF CountsOnce
  <2> QED BY <2>2, <2>3, <2>4, <2>9 DEF CountedOnce
<1>3. CASE ~PreparationNext /\ stage' = "train"
  <2>1. UNCHANGED <<intakeVars, series>> BY <1>3, LaterSteps
  <2>2. stage = "train" BY <1>3, StagesFollow DEF EndTraining
  <2>3. File' = File /\ frequency' = frequency /\ series' = series BY <2>1, SameFile DEF intakeVars
  <2> QED BY <2>2, <2>3 DEF CountedOnce
<1> QED BY <1>1, <1>2, <1>3

\* Whatever the upload, under a sum and where nothing is aggregated, each distinct usable
\* row of a key counts in its series once (data_preprocessor.py:72, series_builder.py).
THEOREM EveryObservationCountsOnceHolds == Spec => []EveryObservationCountsOnce
<1>1. Init => Intake /\ Foreseen /\ CountedOnce BY IntakeInit, ForeseenInit, CountedOnceInit
<1>2. Intake /\ Foreseen /\ CountedOnce /\ [Next]_vars => (Intake /\ Foreseen /\ CountedOnce)'
  BY IntakeNext, ForeseenNext, CountedOnceNext
<1> QED BY <1>1, <1>2, CountedOnceIs, PTL DEF Spec
================================================================================
