------------------------------ MODULE CtlProofs ------------------------------
(***************************************************************************)
(* What the operator sees, for any size of a page, limits and log.         *)
(***************************************************************************)
EXTENDS Ctl, SequenceTheorems, WellFoundedInduction, TLAPS

-----------------------------------------------------------------------------
(***************************************************************************)
(* The members of a sequence that are in a set                             *)
(***************************************************************************)

\* Induction, as sets have it: the least counterexample has no predecessor.
LEMMA Upwards ==
  ASSUME NEW n \in Nat, NEW X, 0 \in X, \A i \in 0 .. n - 1 : i \in X => i + 1 \in X
  PROVE  \A i \in 0 .. n : i \in X
<1> DEFINE T == {i \in 0 .. n : i \notin X}
<1> SUFFICES ASSUME T # {} PROVE FALSE
  OBVIOUS
<1>1. T \subseteq Nat
  OBVIOUS
<1> HIDE DEF T
<1>2. PICK m \in T : \A y \in T : ~ (<<y, m>> \in OpToRel(<, Nat))
  BY <1>1, WFMin, NatLessThanWellFounded, Zenon
<1>3. m \in 0 .. n /\ m \notin X /\ m # 0
  BY DEF T
<1>4. m - 1 \in 0 .. n - 1 /\ (m - 1) + 1 = m /\ m - 1 \in Nat /\ m \in Nat
  BY <1>3
<1>5. m - 1 \notin X
  BY <1>3, <1>4
<1>6. m - 1 \in T
  BY <1>4, <1>5 DEF T
<1>7. <<m - 1, m>> \in OpToRel(<, Nat)
  BY <1>4 DEF OpToRel
<1>8. QED
  BY <1>2, <1>6, <1>7

\* The equation of Only, up to a place.
Kept(k, s, S, m) ==
  k = [n \in 0 .. m |->
         IF n = 0 THEN <<>>
         ELSE IF s[n] \in S THEN Append(k[n - 1], s[n]) ELSE k[n - 1]]

\* It has a solution, since each value depends on the one before.
LEMMA KeptExists == ASSUME NEW s, NEW S, NEW m \in Nat PROVE \E k : Kept(k, s, S, m)
<1> DEFINE X == {i \in 0 .. m : \E k : Kept(k, s, S, i)}
<1>1. 0 \in X
  <2> DEFINE k == [n \in {0} |-> <<>>]
  <2>1. Kept(k, s, S, 0)
    BY DEF Kept
  <2>2. QED
    BY <2>1
<1>2. ASSUME NEW i \in 0 .. m - 1, i \in X PROVE i + 1 \in X
  <2>1. PICK k : Kept(k, s, S, i)
    BY <1>2
  <2> DEFINE g == [n \in 0 .. i + 1 |->
                     IF n <= i THEN k[n]
                     ELSE IF s[n] \in S THEN Append(k[i], s[n]) ELSE k[i]]
  <2>2. \A n \in 0 .. i : k[n] = IF n = 0 THEN <<>>
                                 ELSE IF s[n] \in S THEN Append(k[n - 1], s[n])
                                 ELSE k[n - 1]
    BY <2>1 DEF Kept
  <2>3. \A n \in 0 .. i + 1 : g[n] = IF n = 0 THEN <<>>
                                     ELSE IF s[n] \in S THEN Append(g[n - 1], s[n])
                                     ELSE g[n - 1]
    BY <2>2
  <2>4. Kept(g, s, S, i + 1)
    BY <2>3 DEF Kept
  <2>5. QED
    BY <2>4
<1> HIDE DEF X
<1>3. m \in X
  BY <1>1, <1>2, Upwards
<1>4. QED
  BY <1>3 DEF X

\* Only, step by step.
Steps(k, s, S) ==
  /\ k[0] = <<>>
  /\ \A n \in 1 .. Len(s) :
       k[n] = IF s[n] \in S THEN Append(k[n - 1], s[n]) ELSE k[n - 1]
  /\ Only(s, S) = k[Len(s)]

LEMMA OnlySteps ==
  ASSUME NEW T, NEW s \in Seq(T), NEW S
  PROVE  \E k : Steps(k, s, S) /\ \A n \in 0 .. Len(s) : k[n] \in Seq(T)
<1>0. Len(s) \in Nat
  BY LenProperties
<1>1. \E k : Kept(k, s, S, Len(s)) /\ Only(s, S) = k[Len(s)]
  <2> DEFINE k == CHOOSE k : Kept(k, s, S, Len(s))
  <2>1. Kept(k, s, S, Len(s))
    BY <1>0, KeptExists
  <2>2. Only(s, S) = k[Len(s)]
    BY DEF Only, Kept
  <2> HIDE DEF k
  <2>3. QED
    BY <2>1, <2>2
<1>2. PICK k : Kept(k, s, S, Len(s)) /\ Only(s, S) = k[Len(s)]
  BY <1>1
<1>3. Steps(k, s, S)
  <2>1. \A n \in 0 .. Len(s) : k[n] = IF n = 0 THEN <<>>
                                   ELSE IF s[n] \in S THEN Append(k[n - 1], s[n])
                                   ELSE k[n - 1]
    BY <1>2 DEF Kept
  <2>2. QED
    BY <1>0, <1>2, <2>1 DEF Steps
<1> DEFINE X == {n \in 0 .. Len(s) : k[n] \in Seq(T)}
<1>4. 0 \in X
  <2>1. k[0] \in Seq(T)
    BY <1>3, EmptySeq DEF Steps
  <2>2. QED
    BY <1>0, <2>1
<1>5. ASSUME NEW i \in 0 .. Len(s) - 1, i \in X PROVE i + 1 \in X
  <2>1. i + 1 \in 1 .. Len(s) /\ (i + 1) - 1 = i /\ s[i + 1] \in T /\ k[i] \in Seq(T)
    BY <1>0, <1>5, ElementOfSeq
  <2>2. Append(k[i], s[i + 1]) \in Seq(T)
    BY <2>1, AppendProperties
  <2>3. k[i + 1] \in {Append(k[i], s[i + 1]), k[i]}
    BY <1>3, <2>1 DEF Steps
  <2>4. k[i + 1] \in Seq(T)
    BY <2>1, <2>2, <2>3
  <2>5. QED
    BY <1>0, <2>1, <2>4
<1> HIDE DEF X
<1>6. \A n \in 0 .. Len(s) : n \in X
  BY <1>0, <1>4, <1>5, Upwards
<1>7. QED
  BY <1>3, <1>6 DEF X

LEMMA OnlyTypes == ASSUME NEW T, NEW s \in Seq(T), NEW S PROVE Only(s, S) \in Seq(T)
<1>1. PICK k : Steps(k, s, S) /\ \A n \in 0 .. Len(s) : k[n] \in Seq(T)
  BY OnlySteps
<1>2. Len(s) \in 0 .. Len(s)
  BY LenProperties
<1>3. QED
  BY <1>1, <1>2 DEF Steps

\* Sets that agree on the members of a sequence keep the same ones.
LEMMA OnlyAgrees ==
  ASSUME NEW T, NEW s \in Seq(T), NEW S, NEW R, \A i \in 1 .. Len(s) : s[i] \in S <=> s[i] \in R
  PROVE  Only(s, S) = Only(s, R)
<1>0. Len(s) \in Nat
  BY LenProperties
<1>1. PICK k : Steps(k, s, S)
  BY OnlySteps
<1>2. PICK l : Steps(l, s, R)
  BY OnlySteps
<1> DEFINE X == {n \in 0 .. Len(s) : k[n] = l[n]}
<1>3. 0 \in X
  <2>1. k[0] = <<>> /\ l[0] = <<>>
    BY <1>1, <1>2 DEF Steps
  <2>2. QED
    BY <1>0, <2>1
<1>4. ASSUME NEW i \in 0 .. Len(s) - 1, i \in X PROVE i + 1 \in X
  <2>1. i + 1 \in 1 .. Len(s) /\ (i + 1) - 1 = i /\ k[i] = l[i]
    BY <1>0, <1>4
  <2>2. k[i + 1] = l[i + 1]
    BY <1>1, <1>2, <2>1 DEF Steps
  <2>3. QED
    BY <1>0, <2>1, <2>2
<1> HIDE DEF X
<1>5. \A n \in 0 .. Len(s) : n \in X
  BY <1>0, <1>3, <1>4, Upwards
<1>6. Len(s) \in X
  BY <1>0, <1>5
<1>7. QED
  BY <1>1, <1>2, <1>6 DEF X, Steps

\* What is kept of two pages is what is kept of each.
LEMMA OnlyOfBoth ==
  ASSUME NEW T, NEW s \in Seq(T), NEW t \in Seq(T), NEW S
  PROVE  Only(s \o t, S) = Only(s, S) \o Only(t, S)
<1> DEFINE a == Len(s)
           b == Len(t)
<1>0. /\ a \in Nat /\ b \in Nat /\ s \o t \in Seq(T) /\ Len(s \o t) = a + b
      /\ \A i \in 1 .. a + b : (s \o t)[i] = IF i <= a THEN s[i] ELSE t[i - a]
  BY LenProperties, ConcatProperties
<1>n. a \in Nat /\ b \in Nat /\ a + b \in Nat
  BY <1>0
<1>1. PICK k : Steps(k, s, S) /\ \A n \in 0 .. a : k[n] \in Seq(T)
  BY OnlySteps
<1>2. PICK l : Steps(l, t, S) /\ \A n \in 0 .. b : l[n] \in Seq(T)
  BY OnlySteps
<1>3. PICK c : Steps(c, s \o t, S)
  BY <1>0, OnlySteps
<1>4. /\ \A n \in 1 .. a : k[n] = IF s[n] \in S THEN Append(k[n - 1], s[n]) ELSE k[n - 1]
      /\ \A n \in 1 .. b : l[n] = IF t[n] \in S THEN Append(l[n - 1], t[n]) ELSE l[n - 1]
      /\ \A n \in 1 .. a + b :
           c[n] = IF (s \o t)[n] \in S THEN Append(c[n - 1], (s \o t)[n]) ELSE c[n - 1]
      /\ k[0] = <<>> /\ l[0] = <<>> /\ c[0] = <<>>
      /\ Only(s, S) = k[a] /\ Only(t, S) = l[b] /\ Only(s \o t, S) = c[a + b]
  BY <1>0, <1>1, <1>2, <1>3 DEF Steps
<1> HIDE DEF a, b
<1> DEFINE X == {n \in 0 .. a : c[n] = k[n]}
           both(n) == c[a + n] = k[a] \o l[n]
           Y == {n \in 0 .. b : both(n)}
<1>5. 0 \in X
  BY <1>0, <1>4
<1>6. ASSUME NEW i \in 0 .. a - 1, i \in X PROVE i + 1 \in X
  <2>1. i + 1 \in 1 .. a /\ i + 1 \in 1 .. a + b /\ (i + 1) - 1 = i /\ c[i] = k[i]
    BY <1>0, <1>6
  <2>2. (s \o t)[i + 1] = s[i + 1]
    BY <1>0, <2>1
  <2>3. c[i + 1] = k[i + 1]
    BY <1>4, <2>1, <2>2
  <2>4. QED
    BY <1>0, <2>1, <2>3
<1> HIDE DEF X
<1>7. a \in X
  <2>1. \A n \in 0 .. a : n \in X
    BY <1>n, <1>5, <1>6, Upwards
  <2>2. QED
    BY <1>n, <2>1
<1>8. 0 \in Y
  <2>1. k[a] \o <<>> = k[a]
    BY <1>0, <1>1, ConcatEmptySeq DEF a
  <2>2. c[a + 0] = k[a]
    BY <1>0, <1>7 DEF X
  <2>3. c[a + 0] = k[a] \o l[0]
    BY <1>4, <2>1, <2>2
  <2>4. both(0)
    BY <2>3
  <2> HIDE DEF both
  <2>5. QED
    BY <1>n, <2>4
<1>9. ASSUME NEW i \in 0 .. b - 1, i \in Y PROVE i + 1 \in Y
  <2>1. /\ i + 1 \in 1 .. b /\ a + i + 1 \in 1 .. a + b /\ (i + 1) - 1 = i
        /\ (a + i + 1) - 1 = a + i /\ a + (i + 1) = a + i + 1
        /\ (a + i + 1) - a = i + 1 /\ ~ (a + i + 1 <= a) /\ i \in 0 .. b
    BY <1>n
  <2>c. c[a + i] = k[a] \o l[i]
    BY <1>9
  <2>2. (s \o t)[a + i + 1] = t[i + 1]
    <3>1. (s \o t)[a + i + 1] = t[(a + i + 1) - a]
      BY <1>0, <2>1
    <3>2. QED
      BY <2>1, <3>1
  <2>3. k[a] \in Seq(T) /\ l[i] \in Seq(T) /\ t[i + 1] \in T
    BY <1>n, <1>1, <1>2, <2>1, ElementOfSeq DEF a, b
  <2>4. Append(k[a] \o l[i], t[i + 1]) = k[a] \o Append(l[i], t[i + 1])
    <3> DEFINE x == k[a]
               y == l[i]
               e == t[i + 1]
    <3>1. x \in Seq(T) /\ y \in Seq(T) /\ e \in T
      BY <2>3
    <3> HIDE DEF x, y, e
    <3>2. Append(x \o y, e) = x \o Append(y, e)
      BY <3>1, SMTT(120)
    <3>3. QED
      BY <3>2 DEF x, y, e
  <2>5. CASE t[i + 1] \in S
    <3>1. c[a + i + 1] = Append(c[a + i], t[i + 1])
      BY <1>4, <2>1, <2>2, <2>5
    <3>2. l[i + 1] = Append(l[i], t[i + 1])
      BY <1>4, <2>1, <2>5
    <3>3. c[a + (i + 1)] = k[a] \o l[i + 1]
      BY <2>1, <2>c, <2>4, <3>1, <3>2
    <3>4. both(i + 1)
      BY <3>3
    <3> HIDE DEF both
    <3>5. QED
      BY <1>n, <2>1, <3>4
  <2>6. CASE t[i + 1] \notin S
    <3>1. c[a + i + 1] = c[a + i]
      BY <1>4, <2>1, <2>2, <2>6
    <3>2. l[i + 1] = l[i]
      BY <1>4, <2>1, <2>6
    <3>3. c[a + (i + 1)] = k[a] \o l[i + 1]
      BY <2>1, <2>c, <3>1, <3>2
    <3>4. both(i + 1)
      BY <3>3
    <3> HIDE DEF both
    <3>5. QED
      BY <1>n, <2>1, <3>4
  <2>7. QED
    BY <2>5, <2>6
<1> HIDE DEF Y
<1>10. b \in Y
  <2>1. \A n \in 0 .. b : n \in Y
    BY <1>n, <1>8, <1>9, Upwards
  <2>2. QED
    BY <1>n, <2>1
<1>11. QED
  BY <1>4, <1>10 DEF Y

\* r is what S has of the first n of s: where its members stand.
Places(r, s, S, n) ==
  \E p \in [1 .. Len(r) -> 1 .. n] :
    /\ \A i, j \in 1 .. Len(r) : i < j => p[i] < p[j]
    /\ \A i \in 1 .. Len(r) : r[i] = s[p[i]] /\ s[p[i]] \in S
    /\ \A m \in 1 .. n : s[m] \in S => \E i \in 1 .. Len(r) : p[i] = m

\* One more place, whose member is kept.
LEMMA PlaceKept ==
  ASSUME NEW T, NEW s, NEW S, NEW r \in Seq(T), NEW n \in Nat, Places(r, s, S, n),
         s[n + 1] \in S, s[n + 1] \in T
  PROVE  Places(Append(r, s[n + 1]), s, S, n + 1)
<1> DEFINE a == Len(r)
           q == Append(r, s[n + 1])
<1>1. /\ a \in Nat /\ Len(q) = a + 1
      /\ \A i \in 1 .. a : q[i] = r[i]
      /\ q[a + 1] = s[n + 1]
  BY LenProperties, AppendProperties
<1>2. PICK p \in [1 .. a -> 1 .. n] :
        /\ \A i, j \in 1 .. a : i < j => p[i] < p[j]
        /\ \A i \in 1 .. a : r[i] = s[p[i]] /\ s[p[i]] \in S
        /\ \A m \in 1 .. n : s[m] \in S => \E i \in 1 .. a : p[i] = m
  BY DEF Places
<1> HIDE DEF q, a
<1> DEFINE t == [i \in 1 .. a + 1 |-> IF i <= a THEN p[i] ELSE n + 1]
<1>3. \A i \in 1 .. a : t[i] = p[i] /\ p[i] \in 1 .. n /\ i \in 1 .. a + 1
  BY <1>1, <1>2
<1>4. t[a + 1] = n + 1 /\ a + 1 \in 1 .. a + 1
  BY <1>1
<1>5. t \in [1 .. a + 1 -> 1 .. n + 1]
  BY <1>1, <1>2
<1> HIDE DEF t
<1>6. \A i, j \in 1 .. a + 1 : i < j => t[i] < t[j]
  BY <1>1, <1>2, <1>3, <1>4
<1>7. \A i \in 1 .. a + 1 : q[i] = s[t[i]] /\ s[t[i]] \in S
  BY <1>1, <1>2, <1>3, <1>4
<1>8. \A m \in 1 .. n + 1 : s[m] \in S => \E i \in 1 .. a + 1 : t[i] = m
  <2> SUFFICES ASSUME NEW m \in 1 .. n + 1, s[m] \in S
               PROVE  \E i \in 1 .. a + 1 : t[i] = m
    OBVIOUS
  <2>1. CASE m = n + 1
    BY <1>4, <2>1
  <2>2. CASE m \in 1 .. n
    <3>1. PICK i \in 1 .. a : p[i] = m
      BY <1>2, <2>2
    <3>2. QED
      BY <1>3, <3>1
  <2>3. QED
    BY <2>1, <2>2
<1>9. Places(q, s, S, n + 1)
  <2>1. Len(q) = a + 1
    BY <1>1
  <2>2. QED
    BY <2>1, <1>5, <1>6, <1>7, <1>8 DEF Places
<1>10. QED
  BY <1>9 DEF q

\* And one whose member is not.
LEMMA PlaceDropped ==
  ASSUME NEW s, NEW S, NEW r, NEW n \in Nat, Places(r, s, S, n), s[n + 1] \notin S
  PROVE  Places(r, s, S, n + 1)
<1>1. PICK p \in [1 .. Len(r) -> 1 .. n] :
        /\ \A i, j \in 1 .. Len(r) : i < j => p[i] < p[j]
        /\ \A i \in 1 .. Len(r) : r[i] = s[p[i]] /\ s[p[i]] \in S
        /\ \A m \in 1 .. n : s[m] \in S => \E i \in 1 .. Len(r) : p[i] = m
  BY DEF Places
<1>2. p \in [1 .. Len(r) -> 1 .. n + 1]
  BY <1>1
<1>3. \A m \in 1 .. n + 1 : s[m] \in S => m \in 1 .. n
  OBVIOUS
<1>4. QED
  BY <1>1, <1>2, <1>3 DEF Places

LEMMA OnlyPlaces ==
  ASSUME NEW T, NEW s \in Seq(T), NEW S
  PROVE  Places(Only(s, S), s, S, Len(s))
<1>0. Len(s) \in Nat
  BY LenProperties
<1>1. PICK k : Steps(k, s, S) /\ \A n \in 0 .. Len(s) : k[n] \in Seq(T)
  BY OnlySteps
<1> DEFINE ok(n) == Places(k[n], s, S, n)
           X == {n \in 0 .. Len(s) : ok(n)}
<1>2. 0 \in X
  <2>1. k[0] = <<>>
    BY <1>1 DEF Steps
  <2>2. Len(k[0]) = 0 /\ 1 .. 0 = {}
    BY <2>1
  <2>3. \E p : p \in [{} -> {}]
    <3>1. [i \in {} |-> i] \in [{} -> {}]
      OBVIOUS
    <3>2. QED
      BY <3>1
  <2>4. ok(0)
    BY <2>2, <2>3 DEF Places
  <2> HIDE DEF ok
  <2>5. QED
    BY <1>0, <2>4
<1>3. ASSUME NEW i \in 0 .. Len(s) - 1, i \in X PROVE i + 1 \in X
  <2>1. /\ i + 1 \in 1 .. Len(s) /\ i \in 0 .. Len(s) /\ (i + 1) - 1 = i /\ i \in Nat
        /\ i + 1 \in 0 .. Len(s)
    BY <1>0
  <2>2. s[i + 1] \in T /\ k[i] \in Seq(T) /\ Places(k[i], s, S, i)
    BY <1>1, <1>3, <2>1, ElementOfSeq
  <2>3. CASE s[i + 1] \in S
    <3>1. k[i + 1] = Append(k[i], s[i + 1])
      BY <1>1, <2>1, <2>3 DEF Steps
    <3>2. Places(Append(k[i], s[i + 1]), s, S, i + 1)
      BY <2>1, <2>2, <2>3, PlaceKept
    <3>3. QED
      BY <2>1, <3>1, <3>2
  <2>4. CASE s[i + 1] \notin S
    <3>1. k[i + 1] = k[i]
      BY <1>1, <2>1, <2>4 DEF Steps
    <3>2. Places(k[i], s, S, i + 1)
      BY <2>1, <2>2, <2>4, PlaceDropped
    <3>3. QED
      BY <2>1, <3>1, <3>2
  <2>5. QED
    BY <2>3, <2>4
<1> HIDE DEF X
<1>4. \A n \in 0 .. Len(s) : n \in X
  BY <1>0, <1>2, <1>3, Upwards
<1>5. Len(s) \in X
  BY <1>0, <1>4
<1>6. QED
  BY <1>1, <1>5 DEF X, Steps

\* What it holds, each member as often as the sequence has it.
LEMMA OnlyMembers ==
  ASSUME NEW T, NEW s \in Seq(T), NEW S
  PROVE  /\ ToSet(Only(s, S)) = ToSet(s) \cap S
         /\ IsInjective(s) => IsInjective(Only(s, S))
<1> DEFINE r == Only(s, S)
<1>1. /\ r \in Seq(T) /\ Len(s) \in Nat /\ Len(r) \in Nat
      /\ DOMAIN s = 1 .. Len(s) /\ DOMAIN r = 1 .. Len(r)
  BY OnlyTypes, LenProperties
<1>2. PICK p \in [1 .. Len(r) -> 1 .. Len(s)] :
        /\ \A i, j \in 1 .. Len(r) : i < j => p[i] < p[j]
        /\ \A i \in 1 .. Len(r) : r[i] = s[p[i]] /\ s[p[i]] \in S
        /\ \A m \in 1 .. Len(s) : s[m] \in S => \E i \in 1 .. Len(r) : p[i] = m
  BY OnlyPlaces DEF Places
<1> HIDE DEF r
<1>3. ToSet(r) \subseteq ToSet(s) \cap S
  BY <1>1, <1>2 DEF ToSet
<1>4. ASSUME NEW x \in ToSet(s) \cap S PROVE x \in ToSet(r)
  <2>1. PICK m \in 1 .. Len(s) : s[m] = x /\ x \in S
    BY <1>1 DEF ToSet
  <2>2. PICK i \in 1 .. Len(r) : p[i] = m
    BY <1>2, <2>1
  <2>3. r[i] = x
    BY <1>2, <2>1, <2>2
  <2>4. QED
    BY <1>1, <2>3 DEF ToSet
<1>5. ASSUME IsInjective(s) PROVE IsInjective(r)
  <2> SUFFICES ASSUME NEW i \in 1 .. Len(r), NEW j \in 1 .. Len(r), r[i] = r[j]
               PROVE  i = j
    BY <1>1 DEF IsInjective
  <2>1. p[i] \in 1 .. Len(s) /\ p[j] \in 1 .. Len(s) /\ s[p[i]] = s[p[j]]
    BY <1>2
  <2>2. p[i] = p[j]
    BY <1>1, <1>5, <2>1 DEF IsInjective
  <2>3. ~ (i < j) /\ ~ (j < i)
    BY <1>2, <2>1, <2>2
  <2>4. i \in Int /\ j \in Int
    OBVIOUS
  <2>5. QED
    BY <2>3, <2>4
<1>6. QED
  BY <1>3, <1>4, <1>5 DEF r

\* Its head is the first member that is in the set, if there is any.
LEMMA OnlyHead ==
  ASSUME NEW T, NEW s \in Seq(T), NEW S
  PROVE  IF Only(s, S) = <<>> THEN \A i \in 1 .. Len(s) : s[i] \notin S
         ELSE \E m \in 1 .. Len(s) : /\ Head(Only(s, S)) = s[m] /\ s[m] \in S
                                     /\ \A i \in 1 .. m - 1 : s[i] \notin S
<1> DEFINE r == Only(s, S)
<1>1. r \in Seq(T) /\ Len(s) \in Nat /\ Len(r) \in Nat
  BY OnlyTypes, LenProperties
<1>2. PICK p \in [1 .. Len(r) -> 1 .. Len(s)] :
        /\ \A i, j \in 1 .. Len(r) : i < j => p[i] < p[j]
        /\ \A i \in 1 .. Len(r) : r[i] = s[p[i]] /\ s[p[i]] \in S
        /\ \A m \in 1 .. Len(s) : s[m] \in S => \E i \in 1 .. Len(r) : p[i] = m
  BY OnlyPlaces DEF Places
<1> HIDE DEF r
<1>3. CASE r = <<>>
  <2>1. Len(r) = 0
    BY <1>3
  <2>2. \A i \in 1 .. Len(s) : s[i] \notin S
    BY <1>2, <2>1
  <2>3. QED
    BY <1>3, <2>2 DEF r
<1>4. CASE r # <<>>
  <2>1. Len(r) \in Nat \ {0} /\ Head(r) = r[1]
    BY <1>1, <1>4, EmptySeq
  <2>2. 1 \in 1 .. Len(r) /\ p[1] \in 1 .. Len(s)
    BY <1>2, <2>1
  <2>3. Head(r) = s[p[1]] /\ s[p[1]] \in S
    BY <1>2, <2>1, <2>2
  <2>4. ASSUME NEW i \in 1 .. p[1] - 1, s[i] \in S PROVE FALSE
    <3>1. i \in 1 .. Len(s) /\ i < p[1] /\ i \in Int /\ p[1] \in Int
      BY <1>1, <2>2
    <3>2. PICK j \in 1 .. Len(r) : p[j] = i
      BY <1>2, <2>4, <3>1
    <3>3. j = 1 \/ 1 < j
      OBVIOUS
    <3>4. QED
      BY <1>2, <2>2, <3>1, <3>2, <3>3
  <2>5. \E m \in 1 .. Len(s) : /\ Head(r) = s[m] /\ s[m] \in S
                               /\ \A i \in 1 .. m - 1 : s[i] \notin S
    BY <2>2, <2>3, <2>4
  <2>6. QED
    BY <1>4, <2>5 DEF r
<1>5. QED
  BY <1>3, <1>4

-----------------------------------------------------------------------------
(***************************************************************************)
(* Pages                                                                   *)
(***************************************************************************)

\* The sequence numbers above b up to a, newest first.
Fall(a, b) == [i \in 1 .. a - b |-> a + 1 - i]

\* Where the page below n + 1 ends.
Foot(n) == IF n < Page THEN 0 ELSE n - Page

LEMMA FallTypes ==
  ASSUME NEW a \in Nat, NEW b \in 0 .. a
  PROVE  /\ Fall(a, b) \in Seq(1 .. a)
         /\ Len(Fall(a, b)) = a - b
         /\ \A i \in 1 .. a - b : Fall(a, b)[i] = a + 1 - i
<1>1. a - b \in Nat
  OBVIOUS
<1>2. \A i \in 1 .. a - b : a + 1 - i \in 1 .. a
  OBVIOUS
<1>3. QED
  BY <1>1, <1>2 DEF Fall

LEMMA FallJoin ==
  ASSUME NEW a \in Nat, NEW b \in 0 .. a, NEW c \in 0 .. b
  PROVE  Fall(a, b) \o Fall(b, c) = Fall(a, c)
<1> DEFINE s == Fall(a, b)
           t == Fall(b, c)
           u == Fall(a, c)
<1>0. b \in Nat /\ c \in 0 .. a /\ a - b \in Nat /\ b - c \in Nat /\ a - c = (a - b) + (b - c)
  OBVIOUS
<1>1. /\ s \in Seq(Nat) /\ Len(s) = a - b /\ \A i \in 1 .. a - b : s[i] = a + 1 - i
      /\ t \in Seq(Nat) /\ Len(t) = b - c /\ \A i \in 1 .. b - c : t[i] = b + 1 - i
      /\ u \in Seq(Nat) /\ Len(u) = a - c /\ \A i \in 1 .. a - c : u[i] = a + 1 - i
  BY <1>0, FallTypes, SeqMonotonic DEF Fall
<1> HIDE DEF s, t, u
<1>2. /\ s \o t \in Seq(Nat) /\ Len(s \o t) = a - c
      /\ \A i \in 1 .. a - c : (s \o t)[i] = IF i <= a - b THEN s[i] ELSE t[i - (a - b)]
  <2>1. /\ s \o t \in Seq(Nat) /\ Len(s \o t) = Len(s) + Len(t)
        /\ \A i \in 1 .. Len(s) + Len(t) :
             (s \o t)[i] = IF i <= Len(s) THEN s[i] ELSE t[i - Len(s)]
    BY <1>1, ConcatProperties
  <2>2. Len(s) = a - b /\ Len(s) + Len(t) = a - c
    BY <1>0, <1>1
  <2>3. QED
    BY <2>1, <2>2
<1>3. ASSUME NEW i \in 1 .. a - c PROVE (s \o t)[i] = u[i]
  <2>1. CASE i <= a - b
    BY <1>1, <1>2, <2>1
  <2>2. CASE ~ (i <= a - b)
    <3>1. i - (a - b) \in 1 .. b - c
      BY <2>2
    <3>2. t[i - (a - b)] = b + 1 - (i - (a - b))
      BY <1>1, <3>1
    <3>3. b + 1 - (i - (a - b)) = a + 1 - i
      OBVIOUS
    <3>4. QED
      BY <1>1, <1>2, <2>2, <3>2, <3>3
  <2>3. QED
    BY <2>1, <2>2
<1>4. s \o t = u
  BY <1>1, <1>2, <1>3, SeqEqual
<1>5. QED
  BY <1>4 DEF s, t, u

\* A page of the walk downwards, and where the next one starts.
LEMMA DownFalls ==
  ASSUME NEW n \in Nat
  PROVE  /\ Foot(n) \in 0 .. n
         /\ Down(n) = Fall(n, Foot(n))
         /\ Len(Down(n)) < Page <=> n < Page
         /\ n < Page => Foot(n) = 0
         /\ ~ (n < Page) => Last(Down(n)) = Foot(n) + 1
<1>1. Foot(n) \in 0 .. n /\ (IF n < Page THEN n ELSE Page) = n - Foot(n)
  BY CtlAssumption DEF Foot
<1>2. Down(n) = Fall(n, Foot(n))
  BY <1>1 DEF Down, Fall
<1>3. /\ Len(Down(n)) = n - Foot(n)
      /\ \A i \in 1 .. n - Foot(n) : Down(n)[i] = n + 1 - i
  BY <1>1, <1>2, FallTypes
<1>4. ASSUME ~ (n < Page) PROVE Last(Down(n)) = Foot(n) + 1
  <2>1. Foot(n) = n - Page /\ Len(Down(n)) = Page /\ Page \in 1 .. n - Foot(n)
    BY <1>3, <1>4, CtlAssumption DEF Foot
  <2>2. Down(n)[Page] = n + 1 - Page
    BY <1>3, <2>1
  <2>3. QED
    BY <2>1, <2>2, CtlAssumption DEF Last
<1>5. QED
  BY <1>1, <1>2, <1>3, <1>4, CtlAssumption DEF Foot

\* The first m of a sequence, all of it if m is 0.
CutTo(s, m) == IF m = 0 \/ Len(s) <= m THEN s ELSE SubSeq(s, 1, m)

LEMMA CutTypes ==
  ASSUME NEW T, NEW s \in Seq(T), NEW m \in Nat
  PROVE  /\ CutTo(s, m) \in Seq(T)
         /\ m > 0 => Len(CutTo(s, m)) <= m
         /\ ~ (m > 0 /\ Len(CutTo(s, m)) >= m) => CutTo(s, m) = s
         /\ m > 0 /\ Len(CutTo(s, m)) >= m => Len(s) >= m
<1>1. Len(s) \in Nat
  BY LenProperties
<1>2. CASE m = 0 \/ Len(s) <= m
  BY <1>1, <1>2 DEF CutTo
<1>3. CASE ~ (m = 0 \/ Len(s) <= m)
  <2>1. CutTo(s, m) = SubSeq(s, 1, m) /\ 1 \in 1 .. Len(s) /\ m \in 1 .. Len(s)
    BY <1>1, <1>3 DEF CutTo
  <2>2. SubSeq(s, 1, m) \in Seq(T) /\ Len(SubSeq(s, 1, m)) = m
    BY <1>1, <2>1, SubSeqProperties
  <2>3. QED
    BY <1>1, <1>3, <2>1, <2>2
<1>4. QED
  BY <1>2, <1>3

\* Once the limit is reached, nothing that follows is seen.
LEMMA CutStops ==
  ASSUME NEW T, NEW s \in Seq(T), NEW t \in Seq(T), NEW m \in Nat \ {0}, Len(s) >= m
  PROVE  CutTo(s \o t, m) = CutTo(s, m)
<1>1. /\ Len(s) \in Nat /\ Len(t) \in Nat /\ s \o t \in Seq(T) /\ Len(s \o t) = Len(s) + Len(t)
      /\ \A i \in 1 .. Len(s) + Len(t) : (s \o t)[i] = IF i <= Len(s) THEN s[i] ELSE t[i - Len(s)]
  BY LenProperties, ConcatProperties
<1> DEFINE u == s \o t
<1>u. u \in Seq(T) /\ Len(u) \in Nat /\ Len(u) >= Len(s) /\ \A i \in 1 .. m : u[i] = s[i]
  BY <1>1
<1> HIDE DEF u
<1>2. ASSUME NEW v \in Seq(T), Len(v) \in Nat, Len(v) >= m
      PROVE  /\ CutTo(v, m) \in Seq(T) /\ Len(CutTo(v, m)) = m
             /\ \A i \in 1 .. m : CutTo(v, m)[i] = v[i]
  <2>1. CASE Len(v) = m
    BY <1>2, <2>1 DEF CutTo
  <2>2. CASE Len(v) > m
    <3>1. CutTo(v, m) = SubSeq(v, 1, m) /\ 1 \in 1 .. Len(v) /\ m \in 1 .. Len(v)
      BY <1>2, <2>2 DEF CutTo
    <3>2. /\ SubSeq(v, 1, m) \in Seq(T) /\ Len(SubSeq(v, 1, m)) = m
          /\ \A i \in 1 .. m : SubSeq(v, 1, m)[i] = v[1 + i - 1]
      BY <1>2, <3>1, SubSeqProperties
    <3>3. QED
      BY <3>1, <3>2
  <2>3. QED
    BY <1>2, <2>1, <2>2
<1>3. CutTo(u, m) \in Seq(T) /\ Len(CutTo(u, m)) = m /\ \A i \in 1 .. m : CutTo(u, m)[i] = u[i]
  BY <1>1, <1>2, <1>u
<1>4. CutTo(s, m) \in Seq(T) /\ Len(CutTo(s, m)) = m /\ \A i \in 1 .. m : CutTo(s, m)[i] = s[i]
  BY <1>1, <1>2
<1>5. CutTo(u, m) = CutTo(s, m)
  BY <1>3, <1>4, <1>u, SeqEqual
<1>6. QED
  BY <1>5 DEF u

-----------------------------------------------------------------------------
(***************************************************************************)
(* What holds between two pages                                            *)
(***************************************************************************)

\* Closings count upwards to kernel.cycle.
LogInv ==
  /\ \A i \in DOMAIN log : log[i] <= count
  /\ \A i, j \in DOMAIN log : i < j /\ log[j] # 0 => log[i] <= log[j]
  /\ count > 0 => \E i \in DOMAIN log : log[i] = count

\* What has been printed is what passes of the log of the first query, down to
\* the cursor.
TimelineInv ==
  cmd = "timeline" /\ after = 0 =>
    IF cursor = 0 THEN shown = <<>>
    ELSE /\ cursor <= first /\ first <= Len(log)
         /\ shown = Wanted(Fall(first, cursor - 1))
         /\ limit > 0 => Len(shown) < limit

\* Everything between --after and the cursor has been printed once.
AfterInv ==
  cmd = "timeline" /\ after > 0 =>
    /\ after <= cursor
    /\ cursor = after \/ cursor <= Len(log)
    /\ limit = 0 => /\ ToSet(shown) = (after + 1 .. cursor) \cap Passing
                    /\ IsInjective(shown)

\* The cycle the counter was at is closed below the cursor.
InspectInv ==
  cmd = "inspect" =>
    /\ last = 0 /\ first <= Len(log)
    /\ cycles > 0 => \E i \in 1 .. first : log[i] = cycles
    /\ cursor # 0 => \A i \in cursor .. first : log[i] = 0

CtlInv == TypeOK /\ LogInv /\ TimelineInv /\ AfterInv /\ InspectInv

\* What the set of the members of a page is, and that it repeats none.
LEMMA FallMembers ==
  ASSUME NEW a \in Nat, NEW b \in 0 .. a
  PROVE  ToSet(Fall(a, b)) = b + 1 .. a /\ IsInjective(Fall(a, b))
<1>1. /\ DOMAIN Fall(a, b) = 1 .. a - b
      /\ \A i \in 1 .. a - b : Fall(a, b)[i] = a + 1 - i
  BY DEF Fall
<1>2. ASSUME NEW x \in b + 1 .. a PROVE x \in ToSet(Fall(a, b))
  <2>1. a + 1 - x \in 1 .. a - b /\ a + 1 - (a + 1 - x) = x
    OBVIOUS
  <2>2. QED
    BY <1>1, <2>1 DEF ToSet
<1>3. ASSUME NEW x \in ToSet(Fall(a, b)) PROVE x \in b + 1 .. a
  <2>1. PICK i \in 1 .. a - b : x = a + 1 - i
    BY <1>1, <1>3 DEF ToSet
  <2>2. QED
    BY <2>1
<1>4. IsInjective(Fall(a, b))
  BY <1>1 DEF IsInjective
<1>5. QED
  BY <1>2, <1>3, <1>4

\* A page of the walk upwards, as it is shown: the events above the cursor, newest first.
LEMMA AfterRises ==
  ASSUME TypeOK
  PROVE  /\ After(cursor) = <<>> <=> Len(log) <= cursor
         /\ After(cursor) # <<>> =>
              /\ Last(After(cursor)) \in cursor + 1 .. Len(log)
              /\ Reverse(After(cursor)) = Fall(Last(After(cursor)), cursor)
<1> DEFINE m == IF Len(log) - cursor < Page THEN Len(log) - cursor ELSE Page
<1>1. Len(log) \in Nat /\ cursor \in Nat /\ m \in Int /\ m <= Len(log) - cursor
      /\ (m > 0 <=> Len(log) > cursor)
  BY CtlAssumption DEF TypeOK
<1>2. After(cursor) = [i \in 1 .. m |-> cursor + i]
  BY DEF After
<1> HIDE DEF m
<1>3. CASE ~ (m > 0)
  <2>1. 1 .. m = {}
    BY <1>1, <1>3
  <2>2. After(cursor) = <<>>
    BY <1>2, <2>1
  <2>3. QED
    BY <1>1, <1>3, <2>2
<1>4. CASE m > 0
  <2>1. m \in Nat \ {0} /\ m \in 1 .. m
    BY <1>1, <1>4
  <2>2. After(cursor) \in Seq(Nat) /\ Len(After(cursor)) = m
    BY <1>1, <1>2, <2>1
  <2>3. After(cursor) # <<>>
    BY <2>1, <2>2
  <2>4. Last(After(cursor)) = cursor + m
    BY <1>1, <1>2, <2>1, <2>2 DEF Last
  <2>5. Reverse(After(cursor)) = Fall(cursor + m, cursor)
    <3>1. \A i \in 1 .. m : m - i + 1 \in 1 .. m /\ cursor + (m - i + 1) = cursor + m + 1 - i
      BY <1>1, <2>1
    <3>2. Reverse(After(cursor)) = [i \in 1 .. m |-> cursor + m + 1 - i]
      BY <1>2, <2>2, <3>1 DEF Reverse
    <3>3. (cursor + m) - cursor = m
      BY <1>1
    <3>4. QED
      BY <3>2, <3>3 DEF Fall
  <2>6. QED
    BY <1>1, <2>1, <2>3, <2>4, <2>5
<1>5. QED
  BY <1>3, <1>4

\* What passes of a page is of the page.
LEMMA WantedTypes ==
  ASSUME TypeOK, NEW a \in 0 .. Len(log), NEW b \in 0 .. a
  PROVE  Fall(a, b) \in Seq(1 .. MaxLog) /\ Wanted(Fall(a, b)) \in Seq(1 .. MaxLog)
<1>1. a \in Nat /\ b \in 0 .. a /\ 1 .. a \subseteq 1 .. MaxLog
  BY CtlAssumption DEF TypeOK
<1>2. Fall(a, b) \in Seq(1 .. MaxLog)
  BY <1>1, FallTypes, SeqMonotonic
<1>3. QED
  BY <1>2, OnlyTypes DEF Wanted

\* What passes of the log above a place, and of the log above another one.
LEMMA WantedJoin ==
  ASSUME TypeOK, NEW a \in 0 .. Len(log), NEW b \in 0 .. a, NEW c \in 0 .. b
  PROVE  Wanted(Fall(a, c)) = Wanted(Fall(a, b)) \o Wanted(Fall(b, c))
<1>1. a \in Nat /\ b \in 0 .. Len(log) /\ b \in Nat
  BY DEF TypeOK
<1>2. Fall(a, b) \in Seq(1 .. MaxLog) /\ Fall(b, c) \in Seq(1 .. MaxLog)
  BY <1>1, WantedTypes
<1>3. Fall(a, b) \o Fall(b, c) = Fall(a, c)
  BY <1>1, FallJoin
<1>4. Only(Fall(a, b) \o Fall(b, c), Passing) = Only(Fall(a, b), Passing) \o Only(Fall(b, c), Passing)
  BY <1>2, OnlyOfBoth
<1>5. QED
  BY <1>3, <1>4 DEF Wanted

-----------------------------------------------------------------------------
(***************************************************************************)
(* A page shown                                                            *)
(***************************************************************************)

LEMMA ShowTypes ==
  ASSUME TypeOK, NEW page \in Seq(1 .. MaxLog), Show(page)
  PROVE  /\ Wanted(page) \in Seq(1 .. MaxLog)
         /\ shown \o Wanted(page) \in Seq(1 .. MaxLog)
         /\ shown' = CutTo(shown \o Wanted(page), limit)
         /\ shown' \in Seq(1 .. MaxLog)
         /\ limit > 0 => Len(shown') <= limit
         /\ ~ Stops => shown' = shown \o Wanted(page)
         /\ Stops => limit > 0 /\ Len(shown \o Wanted(page)) >= limit
<1>1. shown \in Seq(1 .. MaxLog) /\ limit \in Nat
  BY CtlAssumption DEF TypeOK
<1>2. Wanted(page) \in Seq(1 .. MaxLog)
  BY OnlyTypes DEF Wanted
<1>3. shown \o Wanted(page) \in Seq(1 .. MaxLog)
  BY <1>1, <1>2, ConcatProperties
<1>4. shown' = CutTo(shown \o Wanted(page), limit)
  BY DEF Show, Cut, CutTo
<1> DEFINE s == shown \o Wanted(page)
<1> HIDE DEF s
<1>5. /\ CutTo(s, limit) \in Seq(1 .. MaxLog)
      /\ limit > 0 => Len(CutTo(s, limit)) <= limit
      /\ ~ (limit > 0 /\ Len(CutTo(s, limit)) >= limit) => CutTo(s, limit) = s
      /\ limit > 0 /\ Len(CutTo(s, limit)) >= limit => Len(s) >= limit
  BY <1>1, <1>3, CutTypes DEF s
<1>6. shown' = CutTo(s, limit)
  BY <1>4 DEF s
<1>7. /\ shown' \in Seq(1 .. MaxLog)
      /\ limit > 0 => Len(shown') <= limit
      /\ ~ Stops => shown' = s
      /\ Stops => limit > 0 /\ Len(s) >= limit
  BY <1>5, <1>6 DEF Stops
<1>8. QED
  BY <1>2, <1>3, <1>4, <1>7 DEF s

-----------------------------------------------------------------------------
(***************************************************************************)
(* The kernel appends                                                      *)
(***************************************************************************)

LEMMA LogGrows ==
  ASSUME TypeOK, AppendEvent \/ CloseCycle
  PROVE  /\ Len(log) \in Nat /\ DOMAIN log = 1 .. Len(log) /\ DOMAIN log' = 1 .. Len(log) + 1
         /\ log' \in Seq(Nat) /\ Len(log') = Len(log) + 1 /\ Len(log') <= MaxLog
         /\ \A i \in 1 .. Len(log) : log'[i] = log[i]
         /\ UNCHANGED <<args, cursor, first, screen>>
<1> DEFINE ev == IF AppendEvent THEN 0 ELSE count + 1
<1>1. ev \in Nat /\ log' = Append(log, ev) /\ Len(log) < MaxLog
  BY DEF AppendEvent, CloseCycle, TypeOK
<1> HIDE DEF ev
<1>2. log \in Seq(Nat) /\ Len(log) \in Nat /\ DOMAIN log = 1 .. Len(log)
  BY LenProperties DEF TypeOK
<1>3. /\ log' \in Seq(Nat) /\ Len(log') = Len(log) + 1
      /\ \A i \in 1 .. Len(log) : log'[i] = log[i]
  BY <1>1, <1>2, AppendProperties
<1>4. DOMAIN log' = 1 .. Len(log) + 1
  BY <1>3, LenProperties
<1>5. UNCHANGED <<args, cursor, first, screen>>
  BY DEF AppendEvent, CloseCycle
<1>6. QED
  BY <1>1, <1>2, <1>3, <1>4, <1>5, CtlAssumption

\* Whether an event passes does not change.
LEMMA PassingStays ==
  ASSUME TypeOK, AppendEvent \/ CloseCycle
  PROVE  \A i \in 1 .. Len(log) : i \in Passing <=> i \in Passing'
<1>1. /\ DOMAIN log = 1 .. Len(log) /\ 1 .. Len(log) \subseteq DOMAIN log'
      /\ \A i \in 1 .. Len(log) : log'[i] = log[i]
      /\ task' = task
  BY LogGrows DEF args
<1>2. QED
  BY <1>1 DEF Passing

LEMMA WantedStays ==
  ASSUME TypeOK, AppendEvent \/ CloseCycle, NEW a \in 0 .. Len(log), NEW b \in 0 .. a
  PROVE  Only(Fall(a, b), Passing') = Wanted(Fall(a, b))
<1>1. a \in Nat /\ Fall(a, b) \in Seq(1 .. a)
  BY FallTypes DEF TypeOK
<1>2. \A i \in 1 .. Len(Fall(a, b)) : Fall(a, b)[i] \in 1 .. Len(log)
  <2>1. \A i \in 1 .. Len(Fall(a, b)) : Fall(a, b)[i] \in 1 .. a
    BY <1>1, ElementOfSeq
  <2>2. 1 .. a \subseteq 1 .. Len(log)
    BY LenProperties DEF TypeOK
  <2>3. QED
    BY <2>1, <2>2
<1>3. \A i \in 1 .. Len(Fall(a, b)) : Fall(a, b)[i] \in Passing <=> Fall(a, b)[i] \in Passing'
  BY <1>2, PassingStays
<1>4. Only(Fall(a, b), Passing) = Only(Fall(a, b), Passing')
  BY <1>1, <1>3, OnlyAgrees
<1>5. QED
  BY <1>4 DEF Wanted

-----------------------------------------------------------------------------
(***************************************************************************)
(* Types                                                                   *)
(***************************************************************************)

\* Where the next page of a walk downwards starts.
Top == IF cursor = 0 THEN Len(log) ELSE cursor - 1

LEMMA PageTypes ==
  ASSUME TypeOK
  PROVE  /\ Top \in 0 .. MaxLog
         /\ (IF cursor = 0 THEN Latest ELSE Before(cursor)) = Down(Top)
         /\ Down(Top) \in Seq(1 .. MaxLog)
         /\ ~ (Len(Down(Top)) < Page) => Last(Down(Top)) \in 1 .. MaxLog
<1>1. Top \in 0 .. MaxLog /\ MaxLog \in Nat
  BY CtlAssumption, LenProperties DEF TypeOK, Top
<1>2. (IF cursor = 0 THEN Latest ELSE Before(cursor)) = Down(Top)
  BY DEF Latest, Before, Top
<1> HIDE DEF Top
<1>3. Top \in Nat /\ 1 .. Top \subseteq 1 .. MaxLog
  BY <1>1
<1>4. Foot(Top) \in 0 .. Top /\ Down(Top) = Fall(Top, Foot(Top))
  BY <1>3, DownFalls
<1>5. Down(Top) \in Seq(1 .. MaxLog)
  BY <1>3, <1>4, FallTypes, SeqMonotonic
<1>6. ASSUME ~ (Len(Down(Top)) < Page) PROVE Last(Down(Top)) \in 1 .. MaxLog
  <2>1. ~ (Top < Page) /\ Last(Down(Top)) = Foot(Top) + 1 /\ Foot(Top) = Top - Page
    BY <1>3, <1>6, DownFalls DEF Foot
  <2>2. QED
    BY <1>1, <1>3, <2>1, CtlAssumption
<1>7. QED
  BY <1>1, <1>2, <1>5, <1>6

LEMMA TypeInit == Init => TypeOK
<1> SUFFICES ASSUME Init PROVE TypeOK
  OBVIOUS
<1>1. /\ log = <<>> /\ count = 0 /\ cmd = "none" /\ after = 0 /\ limit = 0 /\ task = FALSE
      /\ cursor = 0 /\ first = 0 /\ shown = <<>> /\ cycles = 0 /\ last = 0
  BY DEF Init
<1>2. log \in Seq(Nat) /\ shown \in Seq(1 .. MaxLog) /\ Len(log) = 0 /\ Len(shown) = 0
  BY <1>1
<1>3. /\ count = 0 /\ cmd = "none" /\ after = 0 /\ limit = 0 /\ task = FALSE
      /\ cursor = 0 /\ first = 0 /\ cycles = 0 /\ last = 0
  BY <1>1
<1>4. task \in BOOLEAN /\ {cursor, first, last} \subseteq 0 .. MaxLog
  <2>1. task \in BOOLEAN
    BY <1>3
  <2>2. cursor = 0 /\ first = 0 /\ last = 0
    BY <1>3
  <2>3. {cursor, first, last} \subseteq 0 .. MaxLog
    BY <2>2, CtlAssumption
  <2>4. QED
    BY <2>1, <2>3
<1>5. count \in Nat /\ cycles \in Nat /\ after \in 0 .. MaxLog /\ limit \in Limits \cup {0}
      /\ cmd \in {"none", "timeline", "inspect"} /\ ~ (limit > 0) /\ Len(log) <= MaxLog
  BY <1>2, <1>3, CtlAssumption
<1>6. QED
  BY <1>2, <1>4, <1>5 DEF TypeOK

LEMMA TypeStep == TypeOK /\ [Next]_vars => TypeOK'
<1> SUFFICES ASSUME TypeOK, [Next]_vars PROVE TypeOK'
  OBVIOUS
<1> USE CtlAssumption
<1>1. CASE AppendEvent \/ CloseCycle
  <2>1. log' \in Seq(Nat) /\ Len(log') <= MaxLog /\ UNCHANGED <<args, cursor, first, screen>>
    BY <1>1, LogGrows
  <2>2. count' \in Nat
    BY <1>1 DEF AppendEvent, CloseCycle, TypeOK
  <2>3. QED
    BY <2>1, <2>2 DEF TypeOK, args, screen
<1>2. CASE Timeline
  <2>1. shown' \in Seq(1 .. MaxLog) /\ Len(shown') = 0
    BY <1>2 DEF Timeline
  <2>2. QED
    BY <1>2, <2>1 DEF Timeline, TypeOK, kernel
<1>3. CASE TimelineAfter
  <2>1. shown' \in Seq(1 .. MaxLog) /\ Len(shown') = 0
    BY <1>3 DEF TimelineAfter
  <2>2. first' \in 0 .. MaxLog
    BY <1>3, LenProperties DEF TimelineAfter, TypeOK
  <2>3. QED
    BY <1>3, <2>1, <2>2 DEF TimelineAfter, TypeOK, kernel
<1>4. CASE TimelinePage
  <2> DEFINE page == Down(Top)
  <2>1. /\ page \in Seq(1 .. MaxLog)
        /\ ~ (Len(page) < Page) => Last(page) \in 1 .. MaxLog
        /\ (IF cursor = 0 THEN Latest ELSE Before(cursor)) = page
    BY PageTypes
  <2>2. /\ Show(page)
        /\ first' \in {first, Len(log)}
        /\ IF Stops \/ Len(page) < Page THEN Finish /\ UNCHANGED cursor
           ELSE cursor' = Last(page) /\ UNCHANGED args
        /\ UNCHANGED <<kernel, cycles, last>>
    BY <1>4, <2>1 DEF TimelinePage
  <2> HIDE DEF page
  <2>3. shown' \in Seq(1 .. MaxLog) /\ (limit > 0 => Len(shown') <= limit)
    BY <2>1, <2>2, ShowTypes
  <2>4. first' \in 0 .. MaxLog
    BY <2>2, LenProperties DEF TypeOK
  <2>5. cursor' \in 0 .. MaxLog /\ cmd' \in {"none", "timeline", "inspect"}
        /\ UNCHANGED <<after, limit, task>>
    BY <2>1, <2>2 DEF TypeOK, Finish, args
  <2>6. QED
    BY <2>2, <2>3, <2>4, <2>5 DEF TypeOK, kernel
<1>5. CASE AfterPage
  <2>1. CASE After(cursor) = <<>>
    BY <1>5, <2>1 DEF AfterPage, Finish, TypeOK, kernel
  <2>2. CASE After(cursor) # <<>>
    <3> DEFINE page == Reverse(After(cursor))
    <3>1. cursor' \in 0 .. MaxLog /\ page \in Seq(1 .. MaxLog)
      <4>1. Last(After(cursor)) \in cursor + 1 .. Len(log)
            /\ page = Fall(Last(After(cursor)), cursor)
        BY <2>2, AfterRises
      <4>2. Last(After(cursor)) \in 0 .. Len(log) /\ cursor \in 0 .. Last(After(cursor))
        BY <4>1, LenProperties DEF TypeOK
      <4>3. cursor' = Last(After(cursor))
        BY <1>5, <2>2 DEF AfterPage
      <4>4. page \in Seq(1 .. MaxLog)
        BY <4>1, <4>2, WantedTypes
      <4>5. QED
        BY <4>2, <4>3, <4>4, LenProperties DEF TypeOK
    <3>2. Show(page) /\ UNCHANGED <<kernel, first, cycles, last>>
          /\ (Finish \/ UNCHANGED args)
      BY <1>5, <2>2 DEF AfterPage
    <3> HIDE DEF page
    <3>3. shown' \in Seq(1 .. MaxLog) /\ (limit > 0 => Len(shown') <= limit)
      BY <3>1, <3>2, ShowTypes
    <3>4. cmd' \in {"none", "timeline", "inspect"} /\ UNCHANGED <<after, limit, task>>
      BY <3>2 DEF Finish, args, TypeOK
    <3>5. QED
      BY <3>1, <3>2, <3>3, <3>4 DEF TypeOK, kernel
  <2>3. QED
    BY <2>1, <2>2
<1>6. CASE Inspect
  <2>1. first' \in 0 .. MaxLog
    BY <1>6, LenProperties DEF Inspect, TypeOK
  <2>2. QED
    BY <1>6, <2>1 DEF Inspect, TypeOK, kernel
<1>7. CASE InspectPage
  <2> DEFINE page == Down(Top)
             closing == Only(page, {i \in DOMAIN log : log[i] # 0})
  <2>1. /\ page \in Seq(1 .. MaxLog)
        /\ ~ (Len(page) < Page) => Last(page) \in 1 .. MaxLog
        /\ (IF cursor = 0 THEN Latest ELSE Before(cursor)) = page
    BY PageTypes
  <2>2. /\ IF closing # <<>> THEN last' = Head(closing) /\ Finish /\ UNCHANGED cursor
           ELSE IF Len(page) < Page THEN Finish /\ UNCHANGED <<cursor, last>>
           ELSE cursor' = Last(page) /\ UNCHANGED <<args, last>>
        /\ UNCHANGED <<kernel, first, shown, cycles>>
    BY <1>7, <2>1 DEF InspectPage
  <2> HIDE DEF page
  <2>3. closing \in Seq(1 .. MaxLog)
    BY <2>1, OnlyTypes
  <2> HIDE DEF closing
  <2>4. closing # <<>> => Head(closing) \in 1 .. MaxLog
    BY <2>3, HeadTailProperties
  <2>5. {cursor', last'} \subseteq 0 .. MaxLog /\ cmd' \in {"none", "timeline", "inspect"}
        /\ UNCHANGED <<after, limit, task>>
    BY <2>1, <2>2, <2>4 DEF TypeOK, Finish, args
  <2>6. QED
    BY <2>2, <2>5 DEF TypeOK, kernel
<1>8. CASE UNCHANGED vars
  BY <1>8 DEF TypeOK, vars, kernel, args, screen
<1>9. QED
  BY <1>1, <1>2, <1>3, <1>4, <1>5, <1>6, <1>7, <1>8 DEF Next

\* Every variable keeps its type, for any size of a page, log and limit.
THEOREM CtlTypes == Spec => []TypeOK
<1>1. QED
  BY TypeInit, TypeStep, PTL DEF Spec

-----------------------------------------------------------------------------
(***************************************************************************)
(* Each part of CtlInv, step by step                                       *)
(***************************************************************************)

LEMMA CtlInit == Init => CtlInv
<1> SUFFICES ASSUME Init PROVE CtlInv
  OBVIOUS
<1>1. TypeOK
  BY TypeInit
<1>2. log = <<>> /\ count = 0 /\ cmd = "none"
  BY DEF Init
<1>3. DOMAIN log = {}
  BY <1>2
<1>4. LogInv
  BY <1>2, <1>3 DEF LogInv
<1>5. TimelineInv /\ AfterInv /\ InspectInv
  BY <1>2 DEF TimelineInv, AfterInv, InspectInv
<1>6. QED
  BY <1>1, <1>4, <1>5 DEF CtlInv

LEMMA LogStep == TypeOK /\ LogInv /\ [Next]_vars => LogInv'
<1> SUFFICES ASSUME TypeOK, LogInv, [Next]_vars PROVE LogInv'
  OBVIOUS
<1>1. CASE AppendEvent \/ CloseCycle
  <2> DEFINE n == Len(log) + 1
             ev == log'[n]
  <2>1. /\ Len(log) \in Nat /\ DOMAIN log = 1 .. Len(log) /\ DOMAIN log' = 1 .. n
        /\ \A i \in 1 .. Len(log) : log'[i] = log[i]
    BY <1>1, LogGrows
  <2>2. /\ \/ ev = 0 /\ count' = count
           \/ ev = count + 1 /\ count' = count + 1
    BY <1>1, AppendProperties DEF AppendEvent, CloseCycle, TypeOK
  <2>3. /\ count \in Nat /\ \A i \in 1 .. Len(log) : log[i] \in Nat /\ log[i] <= count
        /\ \A i, j \in 1 .. Len(log) : i < j /\ log[j] # 0 => log[i] <= log[j]
        /\ count > 0 => \E i \in 1 .. Len(log) : log[i] = count
    BY <2>1, ElementOfSeq DEF TypeOK, LogInv
  <2>4. n \in 1 .. n /\ n \in Nat /\ \A i \in 1 .. n : i = n \/ i \in 1 .. Len(log)
    BY <2>1
  <2> HIDE DEF n, ev
  <2>5. \A i \in 1 .. n : log'[i] <= count'
    BY <2>1, <2>2, <2>3, <2>4 DEF ev
  <2>6. \A i, j \in 1 .. n : i < j /\ log'[j] # 0 => log'[i] <= log'[j]
    <3> SUFFICES ASSUME NEW i \in 1 .. n, NEW j \in 1 .. n, i < j, log'[j] # 0
                 PROVE  log'[i] <= log'[j]
      OBVIOUS
    <3>1. i \in 1 .. Len(log)
      BY <2>4
    <3>2. CASE j = n
      BY <2>1, <2>2, <2>3, <3>1, <3>2 DEF ev
    <3>3. CASE j \in 1 .. Len(log)
      BY <2>1, <2>3, <3>1, <3>3
    <3>4. QED
      BY <2>4, <3>2, <3>3
  <2>7. count' > 0 => \E i \in 1 .. n : log'[i] = count'
    <3>1. CASE ev = 0 /\ count' = count
      <4>1. 1 .. Len(log) \subseteq 1 .. n
        BY <2>1 DEF n
      <4>2. QED
        BY <2>1, <2>3, <3>1, <4>1
    <3>2. CASE ev = count + 1 /\ count' = count + 1
      BY <2>4, <3>2 DEF ev
    <3>3. QED
      BY <2>2, <3>1, <3>2
  <2>8. QED
    BY <2>1, <2>5, <2>6, <2>7 DEF LogInv
<1>2. CASE UNCHANGED kernel
  BY <1>2 DEF LogInv, kernel
<1>3. QED
  BY <1>1, <1>2 DEF Next, vars, Timeline, TimelinePage, TimelineAfter, AfterPage, Inspect,
     InspectPage

\* A command that did not start and did not move, under a log that may have grown.
LEMMA Idles ==
  ASSUME TypeOK, [Next]_vars, ~ Timeline, ~ TimelinePage, ~ TimelineAfter, ~ AfterPage,
         ~ Inspect, ~ InspectPage
  PROVE  /\ UNCHANGED <<args, cursor, first, screen>>
         /\ AppendEvent \/ CloseCycle \/ UNCHANGED kernel
  BY LogGrows DEF Next, vars

\* What one page adds to the walk down from the first query.
LEMMA PageAdds ==
  ASSUME TypeOK, TimelineInv, TimelinePage
  PROVE  LET low == Foot(Top)
         IN  /\ first' \in 0 .. Len(log) /\ low \in 0 .. first'
             /\ shown' = CutTo(Wanted(Fall(first', low)), limit)
             /\ ~ Stops => shown' = Wanted(Fall(first', low))
             /\ Stops => limit > 0 /\ Len(Wanted(Fall(first', low))) >= limit
             /\ cmd' = "none" => UNCHANGED <<limit, task>> /\ (Stops \/ low = 0)
             /\ cmd' # "none" => /\ UNCHANGED args /\ ~ Stops
                                 /\ cursor' = low + 1 /\ low + 1 <= first'
             /\ UNCHANGED kernel
<1> DEFINE low == Foot(Top)
           page == Down(Top)
<1>1. /\ page \in Seq(1 .. MaxLog) /\ Top \in 0 .. MaxLog
      /\ (IF cursor = 0 THEN Latest ELSE Before(cursor)) = page
  BY PageTypes
<1>2. /\ Show(page) /\ cmd = "timeline" /\ after = 0
      /\ first' = IF cursor = 0 THEN Len(log) ELSE first
      /\ IF Stops \/ Len(page) < Page THEN Finish /\ UNCHANGED cursor
         ELSE cursor' = Last(page) /\ UNCHANGED args
      /\ UNCHANGED kernel
  BY <1>1 DEF TimelinePage
<1>3. Len(log) \in Nat /\ cursor \in Nat /\ first \in Nat /\ MaxLog \in Nat /\ Page \in Nat \ {0}
  BY CtlAssumption, LenProperties DEF TypeOK
<1>4. /\ first' \in 0 .. Len(log) /\ Top \in 0 .. first'
      /\ cursor = 0 => Top = first' /\ shown = <<>>
      /\ cursor # 0 => shown = Wanted(Fall(first', Top))
  BY <1>2, <1>3 DEF TimelineInv, Top
<1>5. Top \in Nat
  BY <1>1
<1>6. /\ low \in 0 .. Top /\ page = Fall(Top, low)
      /\ Len(page) < Page <=> Top < Page
      /\ Top < Page => low = 0
      /\ ~ (Top < Page) => Last(page) = low + 1 /\ low + 1 <= Top
  <2>1. /\ low \in 0 .. Top /\ page = Fall(Top, low)
        /\ Len(page) < Page <=> Top < Page
        /\ Top < Page => low = 0
        /\ ~ (Top < Page) => Last(page) = low + 1
    BY <1>5, DownFalls
  <2>2. ~ (Top < Page) => low + 1 <= Top
    BY <1>3, <1>5 DEF Foot
  <2>3. QED
    BY <2>1, <2>2
<1> HIDE DEF low, page
<1>7. shown \o Wanted(page) = Wanted(Fall(first', low))
  <2>1. CASE cursor = 0
    <3>1. Top \in 0 .. Len(log) /\ Wanted(Fall(Top, low)) \in Seq(1 .. MaxLog)
      BY <1>4, <1>6, <2>1, WantedTypes
    <3>2. <<>> \o Wanted(Fall(Top, low)) = Wanted(Fall(Top, low))
      BY <3>1, ConcatEmptySeq
    <3>3. QED
      BY <1>4, <1>6, <2>1, <3>2
  <2>2. CASE cursor # 0
    <3>1. Wanted(Fall(first', low)) = Wanted(Fall(first', Top)) \o Wanted(Fall(Top, low))
      BY <1>4, <1>6, WantedJoin
    <3>2. QED
      BY <1>4, <1>6, <2>2, <3>1
  <2>3. QED
    BY <2>1, <2>2
<1>8. /\ shown' = CutTo(Wanted(Fall(first', low)), limit)
      /\ ~ Stops => shown' = Wanted(Fall(first', low))
      /\ Stops => limit > 0 /\ Len(Wanted(Fall(first', low))) >= limit
  BY <1>1, <1>2, <1>7, ShowTypes
<1>9. first' \in Nat /\ low \in 0 .. first'
  BY <1>3, <1>4, <1>5, <1>6
<1>10. cmd' = "none" => UNCHANGED <<limit, task>> /\ (Stops \/ low = 0)
  BY <1>2, <1>6 DEF Finish, args
<1>11. cmd' # "none" => /\ UNCHANGED args /\ ~ Stops
                        /\ cursor' = low + 1 /\ low + 1 <= first'
  <2>1. ASSUME cmd' # "none"
        PROVE  UNCHANGED args /\ ~ Stops /\ ~ (Len(page) < Page) /\ cursor' = Last(page)
    BY <1>2, <2>1 DEF Finish
  <2>2. QED
    BY <1>4, <1>5, <1>6, <1>9, <2>1
<1>12. QED
  BY <1>2, <1>4, <1>8, <1>9, <1>10, <1>11 DEF low

LEMMA TimelineStep == TypeOK /\ TimelineInv /\ [Next]_vars => TimelineInv'
<1> SUFFICES ASSUME TypeOK, TimelineInv, [Next]_vars, (cmd = "timeline" /\ after = 0)'
             PROVE  IF cursor' = 0 THEN shown' = <<>>
                    ELSE /\ cursor' <= first' /\ first' <= Len(log')
                         /\ shown' = Only(Fall(first', cursor' - 1), Passing')
                         /\ limit' > 0 => Len(shown') < limit'
  BY DEF TimelineInv, Wanted
<1>1. CASE Timeline
  BY <1>1 DEF Timeline
<1>2. CASE TimelinePage
  <2> DEFINE low == Foot(Top)
  <2>1. /\ first' \in 0 .. Len(log) /\ low \in 0 .. first' /\ low + 1 <= first'
        /\ shown' = Wanted(Fall(first', low)) /\ cursor' = low + 1
        /\ UNCHANGED args /\ UNCHANGED kernel /\ ~ Stops
    BY <1>2, PageAdds
  <2>2. first' \in Nat /\ low \in Nat /\ Len(log) \in Nat
    BY <2>1, LenProperties DEF TypeOK
  <2> HIDE DEF low
  <2>3. cursor' # 0 /\ cursor' <= first' /\ first' <= Len(log') /\ cursor' - 1 = low
    BY <2>1, <2>2 DEF kernel
  <2>4. Passing' = Passing /\ limit' = limit
    BY <2>1 DEF Passing, kernel, args
  <2>5. TypeOK'
    BY TypeStep
  <2>6. limit' > 0 => Len(shown') < limit'
    BY <2>1, <2>4, <2>5, LenProperties, CtlAssumption DEF Stops, TypeOK
  <2>7. QED
    BY <2>1, <2>3, <2>4, <2>6 DEF Wanted
<1>3. CASE TimelineAfter
  BY <1>3 DEF TimelineAfter
<1>4. CASE AfterPage
  BY <1>4 DEF AfterPage, args, Finish
<1>5. CASE Inspect \/ InspectPage
  BY <1>5 DEF Inspect, InspectPage, args, Finish
<1>6. CASE ~ (Timeline \/ TimelinePage \/ TimelineAfter \/ AfterPage \/ Inspect \/ InspectPage)
  <2>1. /\ UNCHANGED <<args, cursor, first, screen>>
        /\ AppendEvent \/ CloseCycle \/ UNCHANGED kernel
    BY <1>6, Idles
  <2>2. /\ cmd = "timeline" /\ after = 0 /\ cursor' = cursor /\ first' = first
        /\ shown' = shown /\ limit' = limit /\ task' = task
    BY <2>1 DEF args, screen
  <2>3. CASE cursor = 0
    BY <2>2, <2>3 DEF TimelineInv
  <2>4. CASE cursor # 0
    <3>1. /\ cursor <= first /\ first <= Len(log)
          /\ shown = Wanted(Fall(first, cursor - 1))
          /\ limit > 0 => Len(shown) < limit
      BY <2>2, <2>4 DEF TimelineInv
    <3>2. first \in 0 .. Len(log) /\ cursor - 1 \in 0 .. first
      BY <2>4, <3>1, LenProperties DEF TypeOK
    <3>3. CASE AppendEvent \/ CloseCycle
      <4>1. Only(Fall(first, cursor - 1), Passing') = Wanted(Fall(first, cursor - 1))
        BY <3>2, <3>3, WantedStays
      <4>2. first <= Len(log')
        BY <3>2, <3>3, LogGrows
      <4>3. QED
        BY <2>2, <2>4, <3>1, <4>1, <4>2
    <3>4. CASE UNCHANGED kernel
      <4>1. Passing' = Passing /\ log' = log
        BY <2>2, <3>4 DEF Passing, kernel
      <4>2. QED
        BY <2>2, <2>4, <3>1, <4>1 DEF Wanted
    <3>5. QED
      BY <2>1, <3>3, <3>4
  <2>5. QED
    BY <2>3, <2>4
<1>7. QED
  BY <1>1, <1>2, <1>3, <1>4, <1>5, <1>6

\* Two sequences that share no member.
LEMMA InjectiveJoin ==
  ASSUME NEW T, NEW s \in Seq(T), NEW t \in Seq(T)
  PROVE  /\ ToSet(s \o t) = ToSet(s) \cup ToSet(t)
         /\ IsInjective(s) /\ IsInjective(t) /\ ToSet(s) \cap ToSet(t) = {} => IsInjective(s \o t)
<1> DEFINE u == s \o t
           a == Len(s)
           b == Len(t)
<1>1. /\ a \in Nat /\ b \in Nat /\ DOMAIN s = 1 .. a /\ DOMAIN t = 1 .. b
      /\ DOMAIN u = 1 .. a + b
      /\ \A i \in 1 .. a + b : u[i] = IF i <= a THEN s[i] ELSE t[i - a]
  BY LenProperties, ConcatProperties
<1> HIDE DEF u, a, b
<1>2. ASSUME NEW i \in 1 .. a + b
      PROVE  \/ i \in 1 .. a /\ u[i] = s[i]
             \/ i - a \in 1 .. b /\ u[i] = t[i - a]
  BY <1>1
<1>3. \A i \in 1 .. a : i \in 1 .. a + b /\ u[i] = s[i]
  BY <1>1
<1>4. \A i \in 1 .. b : a + i \in 1 .. a + b /\ u[a + i] = t[i]
  <2> SUFFICES ASSUME NEW i \in 1 .. b PROVE a + i \in 1 .. a + b /\ u[a + i] = t[i]
    OBVIOUS
  <2>1. a + i \in 1 .. a + b /\ ~ (a + i <= a) /\ (a + i) - a = i
    BY <1>1
  <2>2. u[a + i] = t[(a + i) - a]
    BY <1>1, <2>1
  <2>3. QED
    BY <2>1, <2>2
<1>5. ToSet(u) = ToSet(s) \cup ToSet(t)
  <2>1. ToSet(u) \subseteq ToSet(s) \cup ToSet(t)
    BY <1>1, <1>2 DEF ToSet
  <2>2. ToSet(s) \subseteq ToSet(u)
    BY <1>1, <1>3 DEF ToSet
  <2>3. ToSet(t) \subseteq ToSet(u)
    BY <1>1, <1>4 DEF ToSet
  <2>4. QED
    BY <2>1, <2>2, <2>3
<1>6. ASSUME IsInjective(s), IsInjective(t), ToSet(s) \cap ToSet(t) = {} PROVE IsInjective(u)
  <2> SUFFICES ASSUME NEW i \in 1 .. a + b, NEW j \in 1 .. a + b, u[i] = u[j] PROVE i = j
    BY <1>1 DEF IsInjective
  <2>1. \A m \in 1 .. a, n \in 1 .. b : s[m] # t[n]
    BY <1>1, <1>6 DEF ToSet
  <2>2. CASE i \in 1 .. a /\ u[i] = s[i] /\ j \in 1 .. a /\ u[j] = s[j]
    BY <1>1, <1>6, <2>2 DEF IsInjective
  <2>3. CASE i - a \in 1 .. b /\ u[i] = t[i - a] /\ j - a \in 1 .. b /\ u[j] = t[j - a]
    <3>1. i - a = j - a
      BY <1>1, <1>6, <2>3 DEF IsInjective
    <3>2. QED
      BY <1>1, <3>1
  <2>4. QED
    BY <1>2, <2>1, <2>2, <2>3
<1>7. QED
  BY <1>5, <1>6 DEF u

\* What one page adds to the walk up from --after.
LEMMA PageRises ==
  ASSUME TypeOK, AfterPage, After(cursor) # <<>>
  PROVE  /\ cursor' \in cursor + 1 .. Len(log)
         /\ UNCHANGED kernel
         /\ ~ Stops => /\ shown' = shown \o Wanted(Fall(cursor', cursor))
                       /\ UNCHANGED args
         /\ Wanted(Fall(cursor', cursor)) \in Seq(1 .. MaxLog)
         /\ ToSet(Wanted(Fall(cursor', cursor))) = (cursor + 1 .. cursor') \cap Passing
         /\ IsInjective(Wanted(Fall(cursor', cursor)))
<1>1. /\ cursor' = Last(After(cursor)) /\ UNCHANGED kernel
      /\ Show(Reverse(After(cursor)))
      /\ ~ Stops => UNCHANGED args
  BY DEF AfterPage
<1>2. cursor' \in cursor + 1 .. Len(log) /\ Reverse(After(cursor)) = Fall(cursor', cursor)
  BY <1>1, AfterRises
<1>3. cursor' \in 0 .. Len(log) /\ cursor \in 0 .. cursor' /\ cursor' \in Nat
  BY <1>2, LenProperties DEF TypeOK
<1>4. Fall(cursor', cursor) \in Seq(1 .. MaxLog)
      /\ Wanted(Fall(cursor', cursor)) \in Seq(1 .. MaxLog)
  BY <1>3, WantedTypes
<1>5. ~ Stops => shown' = shown \o Wanted(Fall(cursor', cursor))
  BY <1>1, <1>2, <1>4, ShowTypes
<1>6. ToSet(Fall(cursor', cursor)) = cursor + 1 .. cursor' /\ IsInjective(Fall(cursor', cursor))
  BY <1>3, FallMembers
<1>7. /\ ToSet(Wanted(Fall(cursor', cursor))) = (cursor + 1 .. cursor') \cap Passing
      /\ IsInjective(Wanted(Fall(cursor', cursor)))
  BY <1>4, <1>6, OnlyMembers DEF Wanted
<1>8. QED
  BY <1>1, <1>2, <1>4, <1>5, <1>7

LEMMA AfterStep == TypeOK /\ AfterInv /\ [Next]_vars => AfterInv'
<1> SUFFICES ASSUME TypeOK, AfterInv, [Next]_vars, (cmd = "timeline" /\ after > 0)'
             PROVE  /\ after' <= cursor'
                    /\ cursor' = after' \/ cursor' <= Len(log')
                    /\ limit' = 0 => /\ ToSet(shown') = (after' + 1 .. cursor') \cap Passing'
                                     /\ IsInjective(shown')
  BY DEF AfterInv
<1>0. Len(log) \in Nat /\ after \in Nat /\ cursor \in Nat /\ limit \in Nat
      /\ shown \in Seq(1 .. MaxLog)
  BY LenProperties, CtlAssumption DEF TypeOK
<1>1. CASE Timeline \/ TimelinePage
  BY <1>1 DEF Timeline, TimelinePage, args, Finish
<1>2. CASE TimelineAfter
  <2>1. shown' = <<>> /\ cursor' = after' /\ after' \in Nat
    BY <1>2 DEF TimelineAfter
  <2>2. ToSet(shown') = {} /\ IsInjective(shown')
    BY <2>1 DEF ToSet, IsInjective
  <2>3. after' + 1 .. cursor' = {}
    <3>1. cursor' = after' /\ after' \in Nat
      BY <2>1
    <3>2. \A n \in Nat : n + 1 .. n = {}
      OBVIOUS
    <3>3. QED
      BY <3>1, <3>2
  <2>4. QED
    BY <2>1, <2>2, <2>3
<1>3. CASE AfterPage
  <2>1. cmd = "timeline" /\ after > 0 /\ After(cursor) # <<>> /\ ~ Stops
    BY <1>3 DEF AfterPage, Finish
  <2> DEFINE more == Wanted(Fall(cursor', cursor))
  <2>2. /\ cursor' \in cursor + 1 .. Len(log)
        /\ UNCHANGED kernel /\ UNCHANGED args
        /\ shown' = shown \o more
        /\ more \in Seq(1 .. MaxLog)
        /\ ToSet(more) = (cursor + 1 .. cursor') \cap Passing
        /\ IsInjective(more)
    BY <1>3, <2>1, PageRises
  <2> HIDE DEF more
  <2>3. after' = after /\ limit' = limit /\ task' = task /\ log' = log
    BY <2>2 DEF args, kernel
  <2>4. Passing' = Passing
    BY <2>3 DEF Passing
  <2>5. after <= cursor
    BY <2>1 DEF AfterInv
  <2>6. ASSUME limit = 0
        PROVE  ToSet(shown') = (after + 1 .. cursor') \cap Passing /\ IsInjective(shown')
    <3>1. ToSet(shown) = (after + 1 .. cursor) \cap Passing /\ IsInjective(shown)
      BY <2>1, <2>6 DEF AfterInv
    <3>2. /\ ToSet(shown \o more) = ToSet(shown) \cup ToSet(more)
          /\ ToSet(shown) \cap ToSet(more) = {} => IsInjective(shown \o more)
      BY <1>0, <2>2, <3>1, InjectiveJoin
    <3>3. /\ (after + 1 .. cursor) \cup (cursor + 1 .. cursor') = after + 1 .. cursor'
          /\ (after + 1 .. cursor) \cap (cursor + 1 .. cursor') = {}
      BY <1>0, <2>2, <2>5
    <3>4. QED
      BY <2>2, <3>1, <3>2, <3>3
  <2>7. QED
    BY <1>0, <2>2, <2>3, <2>4, <2>5, <2>6
<1>4. CASE Inspect \/ InspectPage
  BY <1>4 DEF Inspect, InspectPage, args, Finish
<1>5. CASE ~ (Timeline \/ TimelinePage \/ TimelineAfter \/ AfterPage \/ Inspect \/ InspectPage)
  <2>1. /\ UNCHANGED <<args, cursor, first, screen>>
        /\ AppendEvent \/ CloseCycle \/ UNCHANGED kernel
    BY <1>5, Idles
  <2>2. /\ cmd = "timeline" /\ after > 0 /\ after' = after /\ cursor' = cursor
        /\ shown' = shown /\ limit' = limit /\ task' = task
    BY <2>1 DEF args, screen
  <2>3. /\ after <= cursor
        /\ cursor = after \/ cursor <= Len(log)
        /\ limit = 0 => ToSet(shown) = (after + 1 .. cursor) \cap Passing /\ IsInjective(shown)
    BY <2>2 DEF AfterInv
  <2>4. CASE AppendEvent \/ CloseCycle
    <3>1. Len(log') = Len(log) + 1
      BY <2>4, LogGrows
    <3>2. \A i \in after + 1 .. cursor : i \in 1 .. Len(log)
      BY <1>0, <2>3
    <3>3. (after + 1 .. cursor) \cap Passing = (after + 1 .. cursor) \cap Passing'
      BY <2>4, <3>2, PassingStays
    <3>4. QED
      BY <1>0, <2>2, <2>3, <3>1, <3>3
  <2>5. CASE UNCHANGED kernel
    <3>1. Passing' = Passing /\ log' = log
      BY <2>2, <2>5 DEF Passing, kernel
    <3>2. QED
      BY <2>2, <2>3, <3>1
  <2>6. QED
    BY <2>1, <2>4, <2>5
<1>6. QED
  BY <1>1, <1>2, <1>3, <1>4, <1>5

\* The first closing that a walk downwards meets is the last one there is.
LEMMA HeadOfFall ==
  ASSUME NEW a \in Nat, NEW b \in 0 .. a, NEW S
  PROVE  LET r == Only(Fall(a, b), S)
         IN  IF r = <<>> THEN \A i \in b + 1 .. a : i \notin S
             ELSE Head(r) \in (b + 1 .. a) \cap S /\ \A i \in Head(r) + 1 .. a : i \notin S
<1> DEFINE s == Fall(a, b)
           r == Only(s, S)
<1>1. s \in Seq(1 .. a) /\ Len(s) = a - b /\ \A i \in 1 .. a - b : s[i] = a + 1 - i
  BY FallTypes
<1> HIDE DEF s
<1>2. IF r = <<>> THEN \A i \in 1 .. Len(s) : s[i] \notin S
      ELSE \E m \in 1 .. Len(s) : /\ Head(r) = s[m] /\ s[m] \in S
                                  /\ \A i \in 1 .. m - 1 : s[i] \notin S
  BY <1>1, OnlyHead
<1> HIDE DEF r
<1>3. \A i \in b + 1 .. a : a + 1 - i \in 1 .. a - b /\ a + 1 - (a + 1 - i) = i
  OBVIOUS
<1>4. \A i \in b + 1 .. a : s[a + 1 - i] = i
  BY <1>1, <1>3
<1>5. CASE r = <<>>
  <2>1. \A i \in b + 1 .. a : i \notin S
    BY <1>1, <1>2, <1>3, <1>4, <1>5
  <2>2. QED
    BY <1>5, <2>1 DEF r, s
<1>6. CASE r # <<>>
  <2>1. PICK m \in 1 .. a - b : /\ Head(r) = s[m] /\ s[m] \in S
                                /\ \A i \in 1 .. m - 1 : s[i] \notin S
    BY <1>1, <1>2, <1>6
  <2>2. Head(r) = a + 1 - m /\ Head(r) \in b + 1 .. a /\ Head(r) \in S
    BY <1>1, <2>1
  <2>3. ASSUME NEW i \in Head(r) + 1 .. a PROVE i \notin S
    <3>1. i \in b + 1 .. a /\ a + 1 - i \in 1 .. m - 1
      BY <2>2
    <3>2. QED
      BY <1>4, <2>1, <3>1
  <2>4. QED
    BY <1>6, <2>2, <2>3 DEF r, s
<1>7. QED
  BY <1>5, <1>6

\* The closings of the log.
Closing == {i \in DOMAIN log : log[i] # 0}

\* What a page of Inspect finds out.
LEMMA InspectReads ==
  ASSUME TypeOK, InspectInv, InspectPage
  PROVE  /\ \A i \in 1 .. first : i > Top => log[i] = 0
         /\ \/ /\ last' \in Closing /\ cmd' = "none"
               /\ \A i \in last' + 1 .. Top : i \notin Closing
            \/ /\ last' = 0 /\ cmd' = "none"
               /\ \A i \in 1 .. Top : i \notin Closing
            \/ /\ last' = 0 /\ cmd' = cmd /\ cursor' \in Nat \ {0}
               /\ \A i \in cursor' .. Top : i \notin Closing
         /\ UNCHANGED <<kernel, first, cycles>>
<1> DEFINE low == Foot(Top)
           page == Down(Top)
           r == Only(page, Closing)
<1>1. Top \in 0 .. MaxLog /\ (IF cursor = 0 THEN Latest ELSE Before(cursor)) = page
  BY PageTypes
<1>2. /\ cmd = "inspect"
      /\ IF r # <<>> THEN last' = Head(r) /\ Finish /\ UNCHANGED cursor
         ELSE IF Len(page) < Page THEN Finish /\ UNCHANGED <<cursor, last>>
         ELSE cursor' = Last(page) /\ UNCHANGED <<args, last>>
      /\ UNCHANGED <<kernel, first, cycles>>
  BY <1>1 DEF InspectPage, Closing
<1>3. Top \in Nat
  BY <1>1
<1>4. /\ low \in 0 .. Top /\ page = Fall(Top, low)
      /\ Len(page) < Page <=> Top < Page
      /\ Top < Page => low = 0
      /\ ~ (Top < Page) => Last(page) = low + 1
  BY <1>3, DownFalls
<1> HIDE DEF low, page
<1>5. IF r = <<>> THEN \A i \in low + 1 .. Top : i \notin Closing
      ELSE Head(r) \in (low + 1 .. Top) \cap Closing
           /\ \A i \in Head(r) + 1 .. Top : i \notin Closing
  BY <1>3, <1>4, HeadOfFall
<1> HIDE DEF r
<1>6. last = 0 /\ first <= Len(log) /\ (cursor # 0 => \A i \in cursor .. first : log[i] = 0)
  BY <1>2 DEF InspectInv
<1>7. \A i \in 1 .. first : i > Top => log[i] = 0
  <2>1. Len(log) \in Nat /\ first \in Nat /\ cursor \in Nat
    BY LenProperties, CtlAssumption DEF TypeOK
  <2>2. QED
    BY <1>6, <2>1 DEF Top
<1>8. \/ /\ last' \in Closing /\ cmd' = "none"
         /\ \A i \in last' + 1 .. Top : i \notin Closing
      \/ /\ last' = 0 /\ cmd' = "none"
         /\ \A i \in 1 .. Top : i \notin Closing
      \/ /\ last' = 0 /\ cmd' = cmd /\ cursor' \in Nat \ {0}
         /\ \A i \in cursor' .. Top : i \notin Closing
  <2>1. CASE r # <<>>
    BY <1>2, <1>5, <2>1 DEF Finish
  <2>2. CASE r = <<>> /\ Len(page) < Page
    BY <1>2, <1>4, <1>5, <1>6, <2>2 DEF Finish
  <2>3. CASE r = <<>> /\ ~ (Len(page) < Page)
    <3>1. cursor' = low + 1 /\ last' = 0 /\ cmd' = cmd /\ low \in Nat
      BY <1>2, <1>4, <1>6, <2>3 DEF args
    <3>2. QED
      BY <1>5, <2>3, <3>1
  <2>4. QED
    BY <2>1, <2>2, <2>3
<1>9. QED
  BY <1>2, <1>7, <1>8

LEMMA InspectStep == TypeOK /\ LogInv /\ InspectInv /\ [Next]_vars => InspectInv'
<1> SUFFICES ASSUME TypeOK, LogInv, InspectInv, [Next]_vars, cmd' = "inspect"
             PROVE  /\ last' = 0 /\ first' <= Len(log')
                    /\ cycles' > 0 => \E i \in 1 .. first' : log'[i] = cycles'
                    /\ cursor' # 0 => \A i \in cursor' .. first' : log'[i] = 0
  BY DEF InspectInv
<1>0. Len(log) \in Nat /\ DOMAIN log = 1 .. Len(log) /\ first \in Nat /\ cursor \in Nat
  BY LenProperties, CtlAssumption DEF TypeOK
<1>1. CASE Timeline \/ TimelinePage \/ TimelineAfter \/ AfterPage
  BY <1>1 DEF Timeline, TimelinePage, TimelineAfter, AfterPage, args, Finish
<1>2. CASE Inspect
  BY <1>0, <1>2 DEF Inspect, LogInv, kernel
<1>3. CASE InspectPage
  <2>1. /\ \A i \in 1 .. first : i > Top => log[i] = 0
        /\ last' = 0 /\ cursor' \in Nat \ {0}
        /\ \A i \in cursor' .. Top : i \notin Closing
        /\ UNCHANGED <<kernel, first, cycles>> /\ cmd = "inspect"
    BY <1>3, InspectReads DEF InspectPage
  <2>2. first <= Len(log) /\ (cycles > 0 => \E i \in 1 .. first : log[i] = cycles)
    BY <2>1 DEF InspectInv
  <2>3. ASSUME NEW i \in cursor' .. first PROVE log[i] = 0
    <3>1. Top \in Int
      BY PageTypes
    <3>2. i \in 1 .. first /\ i \in DOMAIN log /\ (i > Top \/ i \in cursor' .. Top)
      BY <1>0, <2>1, <2>2, <3>1
    <3>3. QED
      BY <2>1, <3>2 DEF Closing
  <2>4. QED
    BY <2>1, <2>2, <2>3 DEF kernel
<1>4. CASE ~ (Timeline \/ TimelinePage \/ TimelineAfter \/ AfterPage \/ Inspect \/ InspectPage)
  <2>1. /\ UNCHANGED <<args, cursor, first, screen>>
        /\ AppendEvent \/ CloseCycle \/ UNCHANGED kernel
    BY <1>4, Idles
  <2>2. /\ cmd = "inspect" /\ cursor' = cursor /\ first' = first /\ last' = last
        /\ cycles' = cycles
    BY <2>1 DEF args, screen
  <2>3. /\ last = 0 /\ first <= Len(log)
        /\ cycles > 0 => \E i \in 1 .. first : log[i] = cycles
        /\ cursor # 0 => \A i \in cursor .. first : log[i] = 0
    BY <2>2 DEF InspectInv
  <2>4. Len(log) <= Len(log') /\ \A i \in 1 .. Len(log) : log'[i] = log[i]
    <3>1. CASE AppendEvent \/ CloseCycle
      BY <1>0, <3>1, LogGrows
    <3>2. CASE UNCHANGED kernel
      BY <1>0, <3>2 DEF kernel
    <3>3. QED
      BY <2>1, <3>1, <3>2
  <2>5. Len(log') \in Nat
    BY TypeStep, LenProperties DEF TypeOK
  <2>6. \A i \in 1 .. first : log'[i] = log[i]
    BY <1>0, <2>3, <2>4
  <2>7. cursor # 0 => \A i \in cursor .. first : i \in 1 .. first
    BY <1>0
  <2>8. QED
    BY <1>0, <2>2, <2>3, <2>4, <2>5, <2>6, <2>7
<1>5. QED
  BY <1>1, <1>2, <1>3, <1>4

LEMMA CtlStep == CtlInv /\ [Next]_vars => CtlInv'
  BY TypeStep, LogStep, TimelineStep, AfterStep, InspectStep DEF CtlInv

LEMMA CtlInvHolds == Spec => []CtlInv
  BY CtlInit, CtlStep, PTL DEF Spec

-----------------------------------------------------------------------------
(***************************************************************************)
(* What the operator sees                                                  *)
(***************************************************************************)

LEMMA TimelineEnds ==
  CtlInv /\ [Next]_vars => (cmd = "timeline" /\ after = 0 /\ cmd' = "none" => (shown = Whole)')
<1> SUFFICES ASSUME CtlInv, [Next]_vars, cmd = "timeline", after = 0, cmd' = "none"
             PROVE  (shown = Whole)'
  OBVIOUS
<1> DEFINE low == Foot(Top)
           s == Wanted(Fall(first', low))
           t == Wanted(Fall(low, 0))
<1>0. TypeOK /\ TimelineInv
  BY DEF CtlInv
<1>1. TimelinePage
  BY DEF Next, AppendEvent, CloseCycle, Timeline, TimelineAfter, AfterPage, Inspect,
     InspectPage, vars, args
<1>2. /\ first' \in 0 .. Len(log) /\ low \in 0 .. first'
      /\ shown' = CutTo(s, limit)
      /\ Stops => limit > 0 /\ Len(s) >= limit
      /\ UNCHANGED <<limit, task>> /\ (Stops \/ low = 0)
      /\ UNCHANGED kernel
  BY <1>0, <1>1, PageAdds
<1>3. (Whole)' = CutTo(Wanted(Fall(first', 0)), limit)
  <2>1. first' - 0 = first'
    <3>1. first' \in Int
      BY <1>2
    <3>2. \A n \in Int : n - 0 = n
      OBVIOUS
    <3>3. QED
      BY <3>1, <3>2
  <2>2. Fall(first', 0) = [i \in 1 .. first' |-> first' + 1 - i]
    BY <2>1 DEF Fall
  <2>3. Passing' = Passing /\ limit' = limit
    BY <1>2 DEF Passing, kernel
  <2>4. (Whole)' = CutTo(Only(Fall(first', 0), Passing'), limit')
    BY <2>2 DEF Whole, Cut, CutTo, Wanted
  <2>5. QED
    BY <2>3, <2>4 DEF Wanted
<1> HIDE DEF low
<1>4. low \in Nat /\ low \in 0 .. Len(log) /\ 0 \in 0 .. low /\ limit \in Nat
  BY <1>0, <1>2, LenProperties, CtlAssumption DEF TypeOK
<1>5. s \in Seq(1 .. MaxLog) /\ t \in Seq(1 .. MaxLog) /\ Wanted(Fall(first', 0)) = s \o t
  BY <1>0, <1>2, <1>4, WantedTypes, WantedJoin
<1> HIDE DEF s, t
<1>6. CASE low = 0
  BY <1>2, <1>3, <1>6 DEF s
<1>7. CASE Stops
  <2>1. CutTo(s \o t, limit) = CutTo(s, limit)
    BY <1>2, <1>4, <1>5, <1>7, CutStops
  <2>2. QED
    BY <1>2, <1>3, <1>5, <2>1
<1>8. QED
  BY <1>2, <1>6, <1>7

\* Without --after the pages add up to the log of the first query, newest first
\* and cut to the limit, however the kernel appends between them.
THEOREM TimelineIsExact == Spec => TimelineExact
<1>1. CtlInv /\ [Next]_vars =>
        [cmd = "timeline" /\ after = 0 /\ cmd' = "none" => (shown = Whole)']_vars
  BY TimelineEnds
<1>2. QED
  BY <1>1, CtlInvHolds, PTL DEF Spec, TimelineExact

LEMMA AfterEnds ==
  CtlInv /\ [Next]_vars =>
    (cmd = "timeline" /\ after > 0 /\ limit = 0 /\ cmd' = "none" =>
       /\ ToSet(shown') = {i \in after + 1 .. Len(log) : ~task \/ log[i] = 0}
       /\ IsInjective(shown'))
<1> SUFFICES ASSUME CtlInv, [Next]_vars, cmd = "timeline", after > 0, limit = 0, cmd' = "none"
             PROVE  /\ ToSet(shown') = {i \in after + 1 .. Len(log) : ~task \/ log[i] = 0}
                    /\ IsInjective(shown')
  OBVIOUS
<1>0. /\ TypeOK /\ AfterInv /\ Len(log) \in Nat /\ DOMAIN log = 1 .. Len(log)
      /\ after \in Nat /\ cursor \in Nat
  BY LenProperties, CtlAssumption DEF CtlInv, TypeOK
<1>1. AfterPage
  BY <1>0 DEF Next, AppendEvent, CloseCycle, Timeline, TimelinePage, TimelineAfter, Inspect,
     InspectPage, vars, args
<1>2. ~ Stops
  BY <1>0 DEF Stops
<1>3. After(cursor) = <<>> /\ shown' = shown
  BY <1>1, <1>2 DEF AfterPage, args
<1>4. Len(log) <= cursor
  BY <1>0, <1>3, AfterRises
<1>5. /\ after <= cursor /\ (cursor = after \/ cursor <= Len(log))
      /\ ToSet(shown) = (after + 1 .. cursor) \cap Passing
      /\ IsInjective(shown)
  BY <1>0 DEF AfterInv
<1>6. (after + 1 .. cursor) \cap Passing = {i \in after + 1 .. Len(log) : ~task \/ log[i] = 0}
  <2>1. (after + 1 .. cursor) \cap (1 .. Len(log)) = after + 1 .. Len(log)
    BY <1>0, <1>4, <1>5
  <2>2. QED
    BY <1>0, <2>1 DEF Passing
<1>7. QED
  BY <1>3, <1>5, <1>6

\* With --after and no limit, everything behind it is printed once, up to the end
\* the log has when the last page comes back empty.
THEOREM AfterIsComplete == Spec => AfterComplete
<1>1. CtlInv /\ [Next]_vars =>
        [cmd = "timeline" /\ after > 0 /\ limit = 0 /\ cmd' = "none" =>
           /\ ToSet(shown') = {i \in after + 1 .. Len(log) : ~task \/ log[i] = 0}
           /\ IsInjective(shown')]_vars
  BY AfterEnds
<1>2. QED
  BY <1>1, CtlInvHolds, PTL DEF Spec, AfterComplete

LEMMA InspectEnds ==
  CtlInv /\ [Next]_vars =>
    (cmd = "inspect" /\ cmd' = "none" => cycles <= (IF last' = 0 THEN 0 ELSE log[last']))
<1> SUFFICES ASSUME CtlInv, [Next]_vars, cmd = "inspect", cmd' = "none"
             PROVE  cycles <= (IF last' = 0 THEN 0 ELSE log[last'])
  OBVIOUS
<1>0. /\ TypeOK /\ LogInv /\ InspectInv /\ Len(log) \in Nat /\ DOMAIN log = 1 .. Len(log)
      /\ first \in Nat /\ cycles \in Nat /\ \A i \in 1 .. Len(log) : log[i] \in Nat
  BY LenProperties, ElementOfSeq, CtlAssumption DEF CtlInv, TypeOK
<1>1. InspectPage
  BY DEF Next, AppendEvent, CloseCycle, Timeline, TimelinePage, TimelineAfter, AfterPage,
     Inspect, vars, args
<1>2. /\ \A i \in 1 .. first : i > Top => log[i] = 0
      /\ \/ last' \in Closing /\ \A i \in last' + 1 .. Top : i \notin Closing
         \/ last' = 0 /\ \A i \in 1 .. Top : i \notin Closing
  BY <1>0, <1>1, InspectReads
<1>3. first <= Len(log) /\ (cycles > 0 => \E i \in 1 .. first : log[i] = cycles)
  BY <1>0 DEF InspectInv
<1>4. CASE cycles = 0
  <2>1. last' # 0 => last' \in 1 .. Len(log)
    BY <1>0, <1>2 DEF Closing
  <2>2. QED
    BY <1>0, <1>4, <2>1
<1>5. CASE cycles # 0
  <2>1. PICK c \in 1 .. first : log[c] = cycles
    BY <1>0, <1>3, <1>5
  <2>2. Top \in Int /\ c \in 1 .. Top /\ c \in 1 .. Len(log) /\ c \in Closing
    <3>1. Top \in Int
      BY <1>0, PageTypes
    <3>2. QED
      BY <1>0, <1>2, <1>3, <1>5, <2>1, <3>1 DEF Closing
  <2>3. last' \in Closing /\ \A i \in last' + 1 .. Top : i \notin Closing
    BY <1>2, <2>2
  <2>4. last' \in 1 .. Len(log) /\ log[last'] # 0
    BY <1>0, <2>3 DEF Closing
  <2>5. c <= last'
    <3>1. last' \in Int /\ c \in Int /\ Top \in Int /\ c <= Top
      BY <1>0, <2>2, <2>4
    <3>2. last' < c => c \in last' + 1 .. Top
      <4>1. \A i, j, k \in Int : i < j /\ j <= k => j \in i + 1 .. k
        OBVIOUS
      <4>2. QED
        BY <3>1, <4>1
    <3>3. ~ (last' < c)
      BY <2>2, <2>3, <3>2
    <3>4. QED
      BY <3>1, <3>3
  <2>6. log[c] <= log[last']
    BY <1>0, <2>2, <2>4, <2>5 DEF LogInv
  <2>7. QED
    BY <2>1, <2>4, <2>6
<1>6. QED
  BY <1>4, <1>5

\* The cycle Inspect shows as the last one is never older than the counter it
\* shows, though no snapshot covers the two reads.
THEOREM InspectKeepsUp == Spec => InspectNotBehind
<1>1. CtlInv /\ [Next]_vars =>
        [cmd = "inspect" /\ cmd' = "none" =>
           cycles <= (IF last' = 0 THEN 0 ELSE log[last'])]_vars
  BY InspectEnds
<1>2. QED
  BY <1>1, CtlInvHolds, PTL DEF Spec, InspectNotBehind
=============================================================================
