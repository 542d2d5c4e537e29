----------------------------- MODULE SearchProofs -----------------------------
(***************************************************************************)
(* What the two commands that search with several providers guarantee, for *)
(* any providers, sub-queries, answers and suppliers, any number of science *)
(* commands and any retry policy.  First the lists both make their plans   *)
(* from; then the fused list and the hits it accounts for; then what       *)
(* science commands show, disclose and leave in the journal; then what a   *)
(* search tells its journal hook.                                          *)
(***************************************************************************)
EXTENDS SearchCommand, ScienceCommand, FiniteSetTheorems, WellFoundedInduction, TLAPS

-----------------------------------------------------------------------------
\* Lists, by induction over the naturals.

Less == {pair \in Nat \X Nat : pair[1] < pair[2]}

\* The order of the naturals has no infinite descent.
LEMMA LessWellFounded == IsWellFoundedOn(Less, Nat)
  BY NatLessThanWellFounded DEF OpToRel, Less

\* Induction, over a set: a set with 0 and the successors of its members.
LEMMA Induction ==
  ASSUME NEW S, 0 \in S, \A n \in Nat : n \in S => n + 1 \in S
  PROVE  \A n \in Nat : n \in S
  <1> SUFFICES ASSUME NEW k \in Nat, k \notin S PROVE FALSE
    OBVIOUS
  <1> DEFINE U == {n \in Nat : n \notin S}
  <1>1. U \subseteq Nat /\ U # {}
    OBVIOUS
  <1>2. PICK n \in U : \A m \in U : <<m, n>> \notin Less
    <2> HIDE DEF U
    <2> QED BY <1>1, LessWellFounded, WFMin
  <1>3. n \in Nat /\ n # 0
    OBVIOUS
  <1>4. n - 1 \in Nat /\ <<n - 1, n>> \in Less
    BY <1>3 DEF Less
  <1>5. n - 1 \in S
    BY <1>2, <1>4
  <1> QED
    BY <1>3, <1>4, <1>5

\* A set of positions of a sequence that is not empty has a last one.
LEMMA LastPosition ==
  ASSUME NEW N \in Nat, NEW P \in SUBSET (1..N), P # {}
  PROVE  \E n \in P : \A m \in P : m <= n
  <1> DEFINE S == {k \in Nat : \A T \in SUBSET (1..k) : T # {} => \E n \in T : \A m \in T : m <= n}
  <1>1. 0 \in S
    <2>1. 1..0 = {}
      OBVIOUS
    <2> QED
      BY <2>1
  <1>2. ASSUME NEW k \in Nat, k \in S PROVE k + 1 \in S
    <2> SUFFICES ASSUME NEW T \in SUBSET (1..(k + 1)), T # {}
                 PROVE  \E n \in T : \A m \in T : m <= n
      OBVIOUS
    <2>1. CASE k + 1 \in T
      BY <2>1
    <2>2. CASE k + 1 \notin T
      <3>1. T \in SUBSET (1..k)
        BY <2>2
      <3> QED
        BY <3>1, <1>2
    <2> QED
      BY <2>1, <2>2
  <1>3. N \in S
    <2> HIDE DEF S
    <2> QED BY <1>1, <1>2, Induction
  <1> QED
    BY <1>3

\* The recursion of Among is a function, whose last value Among is.
LEMMA AmongRecursion ==
  ASSUME NEW X, NEW s \in Seq(X), NEW S
  PROVE  \E upTo :
           /\ upTo[0] = <<>>
           /\ \A n \in 1..Len(s) :
                upTo[n] = IF s[n] \in S THEN Append(upTo[n - 1], s[n]) ELSE upTo[n - 1]
           /\ Among(s, S) = upTo[Len(s)]
  <1> DEFINE N == Len(s)
             Added(v, n) == IF s[n] \in S THEN Append(v, s[n]) ELSE v
             Good(f, k) == /\ f \in [0..k -> Seq(X)] /\ f[0] = <<>>
                           /\ \A n \in 1..k : f[n] = Added(f[n - 1], n)
             T == {k \in Nat : k <= N => \E f : Good(f, k)}
  <1>1. \A n \in 1..N, v \in Seq(X) : Added(v, n) \in Seq(X)
    OBVIOUS
  <1>2. 0 \in T
    <2>1. Good([n \in 0..0 |-> <<>>], 0)
      OBVIOUS
    <2> QED
      BY <2>1
  <1> HIDE DEF Added
  <1>3. ASSUME NEW k \in Nat, k \in T PROVE k + 1 \in T
    <2> SUFFICES ASSUME k + 1 <= N PROVE \E f : Good(f, k + 1)
      <3> HIDE DEF Good
      <3> QED OBVIOUS
    <2>1. PICK f : Good(f, k)
      <3> HIDE DEF Good
      <3> QED BY <1>3
    <2> DEFINE v == Added(f[k], k + 1)
               g == [n \in 0..(k + 1) |-> IF n = k + 1 THEN v ELSE f[n]]
    <2>2. v \in Seq(X)
      BY <2>1, <1>1
    <2>3. g \in [0..(k + 1) -> Seq(X)] /\ g[0] = <<>>
      <3> HIDE DEF v
      <3> QED BY <2>1, <2>2
    <2>4. g[k + 1] = v /\ \A n \in 0..k : g[n] = f[n]
      BY <2>1
    <2>5. \A n \in 1..(k + 1) : g[n] = Added(g[n - 1], n)
      <3> HIDE DEF g
      <3>1. ASSUME NEW n \in 1..k PROVE g[n] = Added(g[n - 1], n)
        BY <2>1, <2>4
      <3> QED
        BY <2>4, <3>1
    <2> QED
      BY <2>3, <2>5
  <1>4. \E f : Good(f, N)
    <2> HIDE DEF Good
    <2>1. \A k \in Nat : k \in T
      <3> HIDE DEF T
      <3> QED BY <1>2, <1>3, Induction
    <2> QED
      BY <2>1
  <1>5. PICK f : Good(f, N)
    BY <1>4
  <1> DEFINE Step(h, n) ==
               IF n = 0 THEN <<>>
               ELSE IF s[n] \in S THEN Append(h[n - 1], s[n])
               ELSE h[n - 1]
             G == CHOOSE h : h = [n \in 0..N |-> Step(h, n)]
  <1>6. f = [n \in 0..N |-> Step(f, n)]
    <2>1. ASSUME NEW n \in 0..N PROVE f[n] = Step(f, n)
      <3>1. CASE n = 0
        BY <1>5, <3>1
      <3>2. CASE n # 0
        <4>1. n \in 1..N
          BY <3>2
        <4>2. f[n] = Added(f[n - 1], n)
          BY <1>5, <4>1
        <4> QED
          BY <3>2, <4>2 DEF Added
      <3> QED
        BY <3>1, <3>2
    <2> HIDE DEF Step
    <2> QED
      BY <1>5, <2>1
  <1>7. G = [n \in 0..N |-> Step(G, n)]
    <2> HIDE DEF Step
    <2> QED BY <1>6
  <1>8. Among(s, S) = G[N]
    BY DEF Among
  <1>9. \A n \in 0..N : G[n] = Step(G, n)
    <2> HIDE DEF G, Step
    <2> QED BY <1>7
  <1> HIDE DEF G
  <1>10. G[0] = <<>>
    BY <1>9
  <1>11. \A n \in 1..N : G[n] = IF s[n] \in S THEN Append(G[n - 1], s[n])
                                ELSE G[n - 1]
    BY <1>9
  <1> QED
    BY <1>8, <1>10, <1>11

\* Among keeps exactly the members of S.
LEMMA AmongFacts ==
  ASSUME NEW X, NEW s \in Seq(X), NEW S
  PROVE  /\ Among(s, S) \in Seq(X)
         /\ ToSet(Among(s, S)) = ToSet(s) \cap S
  <1> DEFINE N == Len(s)
             Upto(k) == {s[n] : n \in 1..k}
             Of(k) == Upto(k) \cap S
  <1>1. PICK f : /\ f[0] = <<>>
                 /\ \A n \in 1..N :
                      f[n] = IF s[n] \in S THEN Append(f[n - 1], s[n]) ELSE f[n - 1]
                 /\ Among(s, S) = f[N]
    BY AmongRecursion
  <1> DEFINE T == {k \in Nat : k <= N => f[k] \in Seq(X) /\ ToSet(f[k]) = Of(k)}
  <1>2. 0 \in T
    <2>1. f[0] \in Seq(X) /\ ToSet(f[0]) = {} /\ Upto(0) = {}
      BY <1>1 DEF ToSet
    <2> HIDE DEF Upto
    <2> QED
      BY <2>1
  <1>3. ASSUME NEW k \in Nat, k \in T PROVE k + 1 \in T
    <2> SUFFICES ASSUME k + 1 <= N
                 PROVE  f[k + 1] \in Seq(X) /\ ToSet(f[k + 1]) = Of(k + 1)
      <3> HIDE DEF Of
      <3> QED OBVIOUS
    <2>1. f[k] \in Seq(X) /\ ToSet(f[k]) = Of(k)
      <3> HIDE DEF Of
      <3> QED BY <1>3
    <2>2. Upto(k + 1) = Upto(k) \cup {s[k + 1]}
      OBVIOUS
    <2>3. k + 1 \in 1..N /\ s[k + 1] \in X /\ (k + 1) - 1 = k
      OBVIOUS
    <2>4. CASE s[k + 1] \in S
      <3>1. f[k + 1] = Append(f[k], s[k + 1])
        <4>1. f[k + 1] = Append(f[(k + 1) - 1], s[k + 1])
          BY <1>1, <2>3, <2>4
        <4> QED
          BY <4>1, <2>3
      <3>2. f[k + 1] \in Seq(X)
        BY <2>1, <2>3, <3>1
      <3>3. ToSet(f[k + 1]) = ToSet(f[k]) \cup {s[k + 1]}
        <4> DEFINE r == f[k]
        <4>1. r \in Seq(X) /\ f[k + 1] = Append(r, s[k + 1])
          BY <2>1, <3>1
        <4> HIDE DEF r
        <4>2. /\ DOMAIN f[k + 1] = DOMAIN r \cup {Len(r) + 1}
              /\ f[k + 1][Len(r) + 1] = s[k + 1]
              /\ \A n \in DOMAIN r : f[k + 1][n] = r[n]
          BY <2>3, <4>1
        <4> QED
          BY <4>2 DEF ToSet, r
      <3>4. Of(k + 1) = Of(k) \cup {s[k + 1]}
        <4> HIDE DEF Upto
        <4> QED BY <2>2, <2>4
      <3> QED
        BY <2>1, <3>2, <3>3, <3>4
    <2>5. CASE s[k + 1] \notin S
      <3>1. f[k + 1] = f[k]
        <4>1. f[k + 1] = f[(k + 1) - 1]
          BY <1>1, <2>3, <2>5
        <4> QED
          BY <4>1, <2>3
      <3>2. Of(k + 1) = Of(k)
        <4> HIDE DEF Upto
        <4> QED BY <2>2, <2>5
      <3> HIDE DEF Of
      <3> QED
        BY <2>1, <3>1, <3>2
    <2> QED
      BY <2>4, <2>5
  <1>4. N \in T
    <2> HIDE DEF T
    <2> QED BY <1>2, <1>3, Induction
  <1>5. Upto(N) = ToSet(s)
    BY DEF ToSet
  <1> HIDE DEF Upto
  <1> QED
    BY <1>1, <1>4, <1>5

\* The steps of a recursion over 1..N with values in V.
StepsOn(V, N) == [V \X (1..N) -> V]

\* A recursion over 1..N has a function.
LEMMA Recursion ==
  ASSUME NEW V, NEW e \in V, NEW N \in Nat, NEW steps \in StepsOn(V, N)
  PROVE  \E f \in [0..N -> V] : f[0] = e /\ \A n \in 1..N : f[n] = steps[<<f[n - 1], n>>]
  <1> DEFINE Good(f, k) == /\ f \in [0..k -> V] /\ f[0] = e
                           /\ \A n \in 1..k : f[n] = steps[<<f[n - 1], n>>]
             T == {k \in Nat : k <= N => \E f : Good(f, k)}
  <1>1. 0 \in T
    <2>1. Good([n \in 0..0 |-> e], 0)
      OBVIOUS
    <2> QED
      BY <2>1
  <1>2. ASSUME NEW k \in Nat, k \in T PROVE k + 1 \in T
    <2> SUFFICES ASSUME k + 1 <= N PROVE \E f : Good(f, k + 1)
      <3> HIDE DEF Good
      <3> QED OBVIOUS
    <2>1. PICK f : Good(f, k)
      <3> HIDE DEF Good
      <3> QED BY <1>2
    <2> DEFINE v == steps[<<f[k], k + 1>>]
               g == [n \in 0..(k + 1) |-> IF n = k + 1 THEN v ELSE f[n]]
    <2>2. v \in V
      <3>1. <<f[k], k + 1>> \in V \X (1..N)
        BY <2>1
      <3> QED BY <3>1 DEF StepsOn
    <2>3. g \in [0..(k + 1) -> V] /\ g[0] = e
      <3> HIDE DEF v
      <3> QED BY <2>1, <2>2
    <2>4. g[k + 1] = v /\ \A n \in 0..k : g[n] = f[n]
      BY <2>1
    <2>5. \A n \in 1..(k + 1) : g[n] = steps[<<g[n - 1], n>>]
      <3> HIDE DEF g
      <3>1. ASSUME NEW n \in 1..k PROVE g[n] = steps[<<g[n - 1], n>>]
        BY <2>1, <2>4
      <3> QED
        BY <2>4, <3>1
    <2> QED
      BY <2>3, <2>5
  <1>3. \E f : Good(f, N)
    <2> HIDE DEF Good
    <2>1. \A k \in Nat : k \in T
      <3> HIDE DEF T
      <3> QED BY <1>1, <1>2, Induction
    <2> QED
      BY <2>1
  <1> QED
    BY <1>3

\* A filter repeats nothing that its list does not.
LEMMA AmongInjective ==
  ASSUME NEW X, NEW s \in Seq(X), IsInjective(s), NEW S
  PROVE  IsInjective(Among(s, S))
  <1> DEFINE N == Len(s)
             Upto(k) == {s[n] : n \in 1..k}
             Fine(r, k) == r \in Seq(X) /\ IsInjective(r) /\ ToSet(r) \subseteq Upto(k)
  <1>1. PICK f : /\ f[0] = <<>>
                 /\ \A n \in 1..N :
                      f[n] = IF s[n] \in S THEN Append(f[n - 1], s[n]) ELSE f[n - 1]
                 /\ Among(s, S) = f[N]
    BY AmongRecursion
  <1> DEFINE T == {k \in Nat : k <= N => Fine(f[k], k)}
  <1>2. 0 \in T
    <2>1. f[0] \in Seq(X) /\ DOMAIN f[0] = {}
      BY <1>1
    <2> QED
      BY <2>1 DEF ToSet, IsInjective
  <1>3. ASSUME NEW k \in Nat, k \in T PROVE k + 1 \in T
    <2> SUFFICES ASSUME k + 1 <= N PROVE Fine(f[k + 1], k + 1)
      <3> HIDE DEF Fine
      <3> QED OBVIOUS
    <2>1. Fine(f[k], k)
      <3> HIDE DEF Fine
      <3> QED BY <1>3
    <2>2. Upto(k) \subseteq Upto(k + 1) /\ s[k + 1] \in Upto(k + 1) /\ s[k + 1] \in X
      OBVIOUS
    <2>3. s[k + 1] \notin Upto(k)
      BY DEF IsInjective
    <2>4. f[k + 1] = IF s[k + 1] \in S THEN Append(f[k], s[k + 1]) ELSE f[k]
      <3>1. k + 1 \in 1..N /\ (k + 1) - 1 = k
        OBVIOUS
      <3> QED
        BY <1>1, <3>1
    <2> DEFINE r == f[k]
               x == s[k + 1]
    <2>5. r \in Seq(X) /\ IsInjective(r) /\ ToSet(r) \subseteq Upto(k)
      BY <2>1
    <2>6. (f[k + 1] = Append(r, x) \/ f[k + 1] = r) /\ x \in X /\ x \notin Upto(k) /\ x \in Upto(k + 1)
      BY <2>2, <2>3, <2>4
    <2> HIDE DEF r, x, Upto
    <2>7. x \notin ToSet(r)
      BY <2>5, <2>6
    <2>8. Append(r, x) \in Seq(X) /\ IsInjective(Append(r, x)) /\ ToSet(Append(r, x)) = ToSet(r) \cup {x}
      <3>1. /\ DOMAIN Append(r, x) = DOMAIN r \cup {Len(r) + 1}
            /\ Append(r, x)[Len(r) + 1] = x
            /\ \A n \in DOMAIN r : Append(r, x)[n] = r[n]
            /\ Append(r, x) \in Seq(X)
        BY <2>5, <2>6
      <3> QED
        BY <2>5, <2>7, <3>1 DEF ToSet, IsInjective
    <2> QED
      BY <2>2, <2>5, <2>6, <2>8
  <1>4. N \in T
    <2> HIDE DEF T
    <2> QED BY <1>2, <1>3, Induction
  <1> QED
    BY <1>1, <1>4

\* Lists joined to one list.
LEMMA FlattenType ==
  ASSUME NEW X, NEW s \in Seq(Seq(X))
  PROVE  FlattenSeq(s) \in Seq(X)
  <1>1. CASE Len(s) = 0
    <2>1. s = <<>>
      BY <1>1
    <2> QED
      BY <1>1, <2>1 DEF FlattenSeq
  <1>2. CASE Len(s) # 0
    <2> DEFINE N == Len(s)
               V == Seq(X)
               steps == [p \in V \X (1..N) |-> IF p[2] = 1 THEN s[1] ELSE p[1] \o s[p[2]]]
    <2>1. steps \in StepsOn(V, N)
      BY DEF StepsOn
    <2>2. <<>> \in V
      OBVIOUS
    <2>3. PICK f \in [0..N -> V] : \A n \in 1..N : f[n] = steps[<<f[n - 1], n>>]
      <3>1. N \in Nat
        OBVIOUS
      <3> DEFINE e == <<>>
      <3>2. e \in V
        BY <2>2
      <3> HIDE DEF steps, V, N, e
      <3>3. \E f \in [0..N -> V] : f[0] = e /\ \A n \in 1..N : f[n] = steps[<<f[n - 1], n>>]
        BY <2>1, <3>1, <3>2, Recursion
      <3> QED BY <3>3
    <2> DEFINE g == [n \in 1..N |-> f[n]]
               Body(h, n) == IF n = 1 THEN s[n] ELSE h[n - 1] \o s[n]
               G == CHOOSE h : h = [n \in 1..N |-> Body(h, n)]
    <2>4. \A n \in 1..N : f[n] = IF n = 1 THEN s[1] ELSE f[n - 1] \o s[n]
      <3> TAKE n \in 1..N
      <3>1. n - 1 \in 0..N
        OBVIOUS
      <3>2. f[n - 1] \in V
        BY <3>1
      <3>3. steps[<<f[n - 1], n>>] = IF n = 1 THEN s[1] ELSE f[n - 1] \o s[n]
        <4> HIDE DEF V
        <4> QED BY <3>2
      <3> HIDE DEF steps
      <3> QED BY <2>3, <3>3
    <2>5. g = [n \in 1..N |-> Body(g, n)]
      <3>1. ASSUME NEW n \in 1..N PROVE g[n] = Body(g, n)
        BY <2>4
      <3> HIDE DEF Body
      <3> QED BY <3>1
    <2>6. G = [n \in 1..N |-> Body(G, n)]
      <3> HIDE DEF Body, g
      <3> QED BY <2>5
    <2>7. FlattenSeq(s) = G[N]
      BY <1>2 DEF FlattenSeq
    <2>8. \A n \in 1..N : G[n] = Body(G, n)
      <3> HIDE DEF G, Body
      <3> QED BY <2>6
    <2> HIDE DEF G
    <2> DEFINE T == {k \in Nat : k \in 1..N => G[k] \in Seq(X)}
    <2>9. 0 \in T
      OBVIOUS
    <2>10. ASSUME NEW k \in Nat, k \in T PROVE k + 1 \in T
      <3> SUFFICES ASSUME k + 1 \in 1..N PROVE G[k + 1] \in Seq(X)
        OBVIOUS
      <3>1. CASE k = 0
        BY <2>8, <3>1
      <3>2. CASE k # 0
        <4>1. G[k] \in Seq(X) /\ s[k + 1] \in Seq(X) /\ (k + 1) - 1 = k
          BY <2>10, <3>2
        <4> DEFINE m == k + 1
        <4>2. G[m] = G[m - 1] \o s[m]
          <5>1. m \in 1..N /\ m # 1
            BY <3>2
          <5> HIDE DEF m
          <5> QED BY <2>8, <5>1
        <4>3. G[k + 1] = G[k] \o s[k + 1]
          BY <4>1, <4>2
        <4> QED BY <4>1, <4>3
      <3> QED BY <3>1, <3>2
    <2>11. N \in T
      <3>1. N \in Nat
        OBVIOUS
      <3> HIDE DEF T, N
      <3> QED BY <2>9, <2>10, <3>1, Induction
    <2> QED
      BY <1>2, <2>7, <2>11
  <1> QED
    BY <1>1, <1>2

-----------------------------------------------------------------------------
\* The fused list: the rows that the hits are counted into.

HitsBy(P) == [url : Url, rank : 1..MaxRank, provider : P]
RowsOf(P) == [url : Url, occurrences : Nat, bestPos : Nat, also : Seq(Url), score : Nat,
              mergedFrom : Seq(P)]

\* A row's canonical URL, and those among the first n hits that have it.
KeyOf(row) == Canonical[row.url]
HitsWith(hits, n, k) == {m \in 1..n : Canonical[hits[m].url] = k}

\* What a row says after n hits.
RowIsTrue(row, hits, n) ==
    /\ row.also = <<>>
    /\ \E m \in 1..n : row.url = hits[m].url /\ IsFirst(hits, m)
    /\ row.occurrences = Cardinality(HitsWith(hits, n, KeyOf(row)))
    /\ ToSet(row.mergedFrom) = {hits[m].provider : m \in HitsWith(hits, n, KeyOf(row))}
    /\ IsInjective(row.mergedFrom)

\* One row for every canonical URL.
RowsAreTrue(P, rows, hits, n) ==
    /\ rows \in Seq(RowsOf(P))
    /\ \A a, b \in DOMAIN rows : KeyOf(rows[a]) = KeyOf(rows[b]) => a = b
    /\ \A m \in 1..n : \E a \in DOMAIN rows : KeyOf(rows[a]) = Canonical[hits[m].url]
    /\ \A a \in DOMAIN rows : RowIsTrue(rows[a], hits, n)

\* A score is a natural number.
LEMMA WeightType == \A rank \in 1..MaxRank : Weight(rank) \in Nat
  <1> TAKE rank \in 1..MaxRank
  <1> DEFINE d == 60 + rank
  <1>1. Scale \in Nat /\ d \in Nat \ {0}
    BY FusionAssumption DEF FusionAssumption
  <1>2. Weight(rank) = Scale \div d
    BY DEF Weight
  <1> HIDE DEF d
  <1> QED
    BY <1>1, <1>2

\* The hits with a key are finitely many, and the next is one more of its own.
LEMMA OneMoreHit ==
  ASSUME NEW hits, NEW n \in Nat, NEW k
  PROVE  /\ IsFiniteSet(HitsWith(hits, n, k)) /\ Cardinality(HitsWith(hits, n, k)) \in Nat
         /\ Canonical[hits[n + 1].url] # k => HitsWith(hits, n + 1, k) = HitsWith(hits, n, k)
         /\ Canonical[hits[n + 1].url] = k =>
              /\ HitsWith(hits, n + 1, k) = HitsWith(hits, n, k) \cup {n + 1}
              /\ Cardinality(HitsWith(hits, n + 1, k)) = Cardinality(HitsWith(hits, n, k)) + 1
  <1> DEFINE H == HitsWith(hits, n, k)
  <1>1. H \in SUBSET (1..n) /\ IsFiniteSet(1..n)
    BY FS_Interval DEF HitsWith
  <1>2. IsFiniteSet(H) /\ Cardinality(H) \in Nat
    <2> HIDE DEF H
    <2> QED BY <1>1, FS_Subset, FS_CardinalityType
  <1>3. 1..(n + 1) = (1..n) \cup {n + 1} /\ n + 1 \notin 1..n
    OBVIOUS
  <1>4. Canonical[hits[n + 1].url] # k => HitsWith(hits, n + 1, k) = H
    BY <1>3 DEF HitsWith
  <1>5. Canonical[hits[n + 1].url] = k => HitsWith(hits, n + 1, k) = H \cup {n + 1}
    BY <1>3 DEF HitsWith
  <1>6. Cardinality(H \cup {n + 1}) = Cardinality(H) + 1
    <2>1. n + 1 \notin H
      BY <1>1, <1>3
    <2> HIDE DEF H
    <2> QED BY <1>2, <2>1, FS_AddElement
  <1> QED
    BY <1>2, <1>4, <1>5, <1>6

\* A hit with another key leaves a row as it is.
LEMMA RowOfAnother ==
  ASSUME NEW hits, NEW n \in Nat, NEW row, RowIsTrue(row, hits, n),
         KeyOf(row) # Canonical[hits[n + 1].url]
  PROVE  RowIsTrue(row, hits, n + 1)
  <1>1. HitsWith(hits, n + 1, KeyOf(row)) = HitsWith(hits, n, KeyOf(row))
    BY OneMoreHit
  <1> QED
    BY <1>1 DEF RowIsTrue

\* A hit with its key is counted by a row, and its provider named.
LEMMA RowOfTheSame ==
  ASSUME NEW P, NEW hits \in Seq(HitsBy(P)), NEW n \in Nat, n + 1 <= Len(hits),
         NEW row \in RowsOf(P), RowIsTrue(row, hits, n), KeyOf(row) = Canonical[hits[n + 1].url]
  PROVE  LET h == hits[n + 1]
             new == [row EXCEPT
                       !.occurrences = @ + 1,
                       !.bestPos = IF h.rank < @ THEN h.rank ELSE @,
                       !.score = @ + Weight(h.rank),
                       !.mergedFrom = IF h.provider \in ToSet(@) THEN @ ELSE Append(@, h.provider)]
         IN  new \in RowsOf(P) /\ new.url = row.url /\ RowIsTrue(new, hits, n + 1)
  <1> DEFINE h == hits[n + 1]
             names == IF h.provider \in ToSet(row.mergedFrom) THEN row.mergedFrom
                     ELSE Append(row.mergedFrom, h.provider)
             new == [row EXCEPT
                       !.occurrences = @ + 1,
                       !.bestPos = IF h.rank < @ THEN h.rank ELSE @,
                       !.score = @ + Weight(h.rank),
                       !.mergedFrom = names]
             H == HitsWith(hits, n, KeyOf(row))
             Hn == HitsWith(hits, n + 1, KeyOf(row))
  <1>1. h \in HitsBy(P)
    OBVIOUS
  <1>2. h.rank \in Nat /\ h.provider \in P /\ Weight(h.rank) \in Nat
    BY <1>1, WeightType, FusionAssumption DEF HitsBy, FusionAssumption
  <1>3. Hn = H \cup {n + 1} /\ Cardinality(Hn) = Cardinality(H) + 1
    BY OneMoreHit
  <1>4. row.mergedFrom \in Seq(P) /\ IsInjective(row.mergedFrom)
        /\ ToSet(row.mergedFrom) = {hits[m].provider : m \in H}
    BY DEF RowsOf, RowIsTrue
  <1>5. names \in Seq(P) /\ IsInjective(names) /\ ToSet(names) = ToSet(row.mergedFrom) \cup {h.provider}
    <2> DEFINE f == row.mergedFrom
               p == h.provider
    <2>1. f \in Seq(P) /\ IsInjective(f) /\ p \in P
      BY <1>2, <1>4
    <2> HIDE DEF f, p, h
    <2>2. /\ DOMAIN Append(f, p) = DOMAIN f \cup {Len(f) + 1}
          /\ Append(f, p)[Len(f) + 1] = p
          /\ \A m \in DOMAIN f : Append(f, p)[m] = f[m]
          /\ Append(f, p) \in Seq(P)
      BY <2>1
    <2>3. CASE p \in ToSet(f)
      BY <2>1, <2>3 DEF f, p
    <2>4. CASE p \notin ToSet(f)
      <3>1. names = Append(f, p)
        BY <2>4 DEF f, p
      <3>2. IsInjective(Append(f, p)) /\ ToSet(Append(f, p)) = ToSet(f) \cup {p}
        BY <2>1, <2>2, <2>4 DEF ToSet, IsInjective
      <3> QED BY <2>2, <3>1, <3>2 DEF f, p
    <2> QED BY <2>3, <2>4
  <1> HIDE DEF names, h, H, Hn
  <1>6. /\ new.url = row.url /\ new.also = row.also /\ new.occurrences = row.occurrences + 1
        /\ new.mergedFrom = names /\ new \in RowsOf(P)
    <2> DEFINE o == row.occurrences + 1
               b == IF h.rank < row.bestPos THEN h.rank ELSE row.bestPos
               s == row.score + Weight(h.rank)
    <2>1. /\ row = [url |-> row.url, occurrences |-> row.occurrences, bestPos |-> row.bestPos,
                    also |-> row.also, score |-> row.score, mergedFrom |-> row.mergedFrom]
          /\ row.url \in Url /\ row.occurrences \in Nat /\ row.bestPos \in Nat
          /\ row.also \in Seq(Url) /\ row.score \in Nat
      BY DEF RowsOf
    <2>2. o \in Nat /\ b \in Nat /\ s \in Nat
      BY <1>2, <2>1
    <2>3. new = [row EXCEPT !.occurrences = o, !.bestPos = b, !.score = s, !.mergedFrom = names]
      OBVIOUS
    <2> HIDE DEF o, b, s, new
    <2>4. new = [url |-> row.url, occurrences |-> o, bestPos |-> b, also |-> row.also, score |-> s,
                 mergedFrom |-> names]
      BY <2>1, <2>3
    <2> QED
      BY <1>5, <2>1, <2>2, <2>4 DEF RowsOf, o
  <1>7. new.occurrences = Cardinality(Hn)
    BY <1>3, <1>6 DEF RowIsTrue, H
  <1>8. ToSet(names) = {hits[m].provider : m \in Hn}
    BY <1>3, <1>4, <1>5 DEF h
  <1>9. KeyOf(new) = KeyOf(row)
    BY <1>6 DEF KeyOf
  <1>10. RowIsTrue(new, hits, n + 1)
    <2>1. \E m \in 1..(n + 1) : row.url = hits[m].url /\ IsFirst(hits, m)
      BY DEF RowIsTrue
    <2>2. row.also = <<>>
      BY DEF RowIsTrue
    <2> HIDE DEF new
    <2> QED BY <1>5, <1>6, <1>7, <1>8, <1>9, <2>1, <2>2 DEF RowIsTrue, Hn
  <1> QED
    BY <1>6, <1>10 DEF names, h

\* A hit with a key of its own makes a row.
LEMMA RowOfItsOwn ==
  ASSUME NEW P, NEW hits \in Seq(HitsBy(P)), NEW n \in Nat, n + 1 <= Len(hits),
         \A m \in 1..n : Canonical[hits[m].url] # Canonical[hits[n + 1].url]
  PROVE  LET h == hits[n + 1]
             new == [url |-> h.url, occurrences |-> 1, bestPos |-> h.rank, also |-> <<>>,
                     score |-> Weight(h.rank), mergedFrom |-> <<h.provider>>]
         IN  new \in RowsOf(P) /\ RowIsTrue(new, hits, n + 1)
  <1> DEFINE h == hits[n + 1]
             new == [url |-> h.url, occurrences |-> 1, bestPos |-> h.rank, also |-> <<>>,
                     score |-> Weight(h.rank), mergedFrom |-> <<h.provider>>]
             k == Canonical[h.url]
  <1>1. h \in HitsBy(P)
    OBVIOUS
  <1>2. h.rank \in Nat /\ h.provider \in P /\ h.url \in Url /\ Weight(h.rank) \in Nat
    <2> HIDE DEF h
    <2>1. h.rank \in 1..MaxRank /\ h.provider \in P /\ h.url \in Url
      BY <1>1 DEF HitsBy
    <2>2. MaxRank \in Nat
      BY FusionAssumption DEF FusionAssumption
    <2> QED BY <2>1, <2>2, WeightType
  <1>3. HitsWith(hits, n, k) = {}
    BY DEF HitsWith
  <1>4. HitsWith(hits, n + 1, k) = {n + 1} /\ Cardinality(HitsWith(hits, n + 1, k)) = 1
    <2>1. /\ HitsWith(hits, n + 1, k) = HitsWith(hits, n, k) \cup {n + 1}
          /\ Cardinality(HitsWith(hits, n + 1, k)) = Cardinality(HitsWith(hits, n, k)) + 1
      BY OneMoreHit
    <2>2. Cardinality({}) = 0
      BY FS_EmptySet
    <2> QED BY <1>3, <2>1, <2>2
  <1>5. IsFirst(hits, n + 1)
    BY DEF IsFirst
  <1>6. new \in RowsOf(P)
    <2> HIDE DEF h
    <2> QED BY <1>2 DEF RowsOf
  <1>7. ToSet(<<h.provider>>) = {h.provider} /\ IsInjective(<<h.provider>>)
    BY DEF ToSet, IsInjective
  <1>8. RowIsTrue(new, hits, n + 1)
    <2>1. KeyOf(new) = k /\ n + 1 \in 1..(n + 1)
      BY DEF KeyOf
    <2>2. {hits[m].provider : m \in HitsWith(hits, n + 1, k)} = {h.provider}
      BY <1>4
    <2>3. \E m \in 1..(n + 1) : new.url = hits[m].url /\ IsFirst(hits, m)
      BY <1>5, <2>1
    <2> QED BY <1>4, <1>7, <2>1, <2>2, <2>3 DEF RowIsTrue
  <1> QED
    BY <1>6, <1>8

\* One more hit, one more truth.
LEMMA TallyKeeps ==
  ASSUME NEW P, NEW hits \in Seq(HitsBy(P)), NEW n \in Nat, n + 1 <= Len(hits),
         NEW rows, RowsAreTrue(P, rows, hits, n)
  PROVE  RowsAreTrue(P, Tally(rows, hits[n + 1]), hits, n + 1)
  <1> DEFINE h == hits[n + 1]
             k == Canonical[h.url]
             next == Tally(rows, h)
  <1>1. rows \in Seq(RowsOf(P)) /\ 1..(n + 1) = (1..n) \cup {n + 1}
    BY DEF RowsAreTrue
  <1>2. CASE \E a \in DOMAIN rows : KeyOf(rows[a]) = k
    <2> DEFINE Count(row) ==
                 [row EXCEPT
                    !.occurrences = @ + 1,
                    !.bestPos = IF h.rank < @ THEN h.rank ELSE @,
                    !.score = @ + Weight(h.rank),
                    !.mergedFrom = IF h.provider \in ToSet(@) THEN @ ELSE Append(@, h.provider)]
    <2>1. next = [a \in DOMAIN rows |-> IF KeyOf(rows[a]) # k THEN rows[a] ELSE Count(rows[a])]
      BY <1>2 DEF Tally, KeyOf
    <2>2. ASSUME NEW a \in DOMAIN rows
          PROVE  next[a] \in RowsOf(P) /\ next[a].url = rows[a].url /\ RowIsTrue(next[a], hits, n + 1)
      <3>1. rows[a] \in RowsOf(P) /\ RowIsTrue(rows[a], hits, n)
        BY DEF RowsAreTrue
      <3>2. CASE KeyOf(rows[a]) # k
        <4>1. next[a] = rows[a]
          <5> HIDE DEF Count, next
          <5> QED BY <2>1, <3>2
        <4> HIDE DEF next
        <4> QED BY <3>1, <3>2, <4>1, RowOfAnother
      <3>3. CASE KeyOf(rows[a]) = k
        <4>1. next[a] = Count(rows[a])
          <5> HIDE DEF Count, next
          <5> QED BY <2>1, <3>3
        <4>2. /\ Count(rows[a]) \in RowsOf(P) /\ Count(rows[a]).url = rows[a].url
              /\ RowIsTrue(Count(rows[a]), hits, n + 1)
          BY <3>1, <3>3, RowOfTheSame
        <4> HIDE DEF Count, next
        <4> QED BY <4>1, <4>2
      <3> QED BY <3>2, <3>3
    <2>3. DOMAIN next = DOMAIN rows
      <3> HIDE DEF Count, next
      <3> QED BY <2>1
    <2>4. next \in Seq(RowsOf(P))
      <3>1. DOMAIN rows = 1..Len(rows) /\ Len(rows) \in Nat
        BY <1>1
      <3>2. next = [a \in 1..Len(rows) |-> next[a]]
        <4> HIDE DEF Count
        <4> QED BY <2>1, <3>1
      <3> HIDE DEF next
      <3>3. next \in [1..Len(rows) -> RowsOf(P)]
        BY <2>2, <3>1, <3>2
      <3> QED BY <3>1, <3>3
    <2> HIDE DEF next, Count
    <2>5. \A a \in DOMAIN next : KeyOf(next[a]) = KeyOf(rows[a])
      BY <2>2, <2>3 DEF KeyOf
    <2>6. \A a, b \in DOMAIN next : KeyOf(next[a]) = KeyOf(next[b]) => a = b
      BY <2>3, <2>5 DEF RowsAreTrue
    <2>7. \A m \in 1..(n + 1) : \E a \in DOMAIN next : KeyOf(next[a]) = Canonical[hits[m].url]
      BY <1>1, <1>2, <2>3, <2>5 DEF RowsAreTrue
    <2> QED BY <2>2, <2>3, <2>4, <2>6, <2>7 DEF RowsAreTrue, next
  <1>3. CASE ~\E a \in DOMAIN rows : KeyOf(rows[a]) = k
    <2> DEFINE new == [url |-> h.url, occurrences |-> 1, bestPos |-> h.rank, also |-> <<>>,
                       score |-> Weight(h.rank), mergedFrom |-> <<h.provider>>]
    <2>1. next = Append(rows, new)
      BY <1>3 DEF Tally, KeyOf
    <2>2. \A m \in 1..n : Canonical[hits[m].url] # k
      BY <1>3 DEF RowsAreTrue
    <2>3. new \in RowsOf(P) /\ RowIsTrue(new, hits, n + 1)
      BY <2>2, RowOfItsOwn
    <2>4. KeyOf(new) = k
      BY DEF KeyOf
    <2> HIDE DEF new, next
    <2>5. /\ DOMAIN next = DOMAIN rows \cup {Len(rows) + 1}
          /\ next[Len(rows) + 1] = new
          /\ \A a \in DOMAIN rows : next[a] = rows[a]
          /\ next \in Seq(RowsOf(P))
      BY <1>1, <2>1, <2>3
    <2>6. \A a \in DOMAIN rows : RowIsTrue(rows[a], hits, n + 1)
      BY <1>3, RowOfAnother DEF RowsAreTrue
    <2>7. \A a \in DOMAIN next : RowIsTrue(next[a], hits, n + 1)
      BY <2>3, <2>5, <2>6
    <2>8. \A a, b \in DOMAIN next : KeyOf(next[a]) = KeyOf(next[b]) => a = b
      <3>1. \A a \in DOMAIN rows : KeyOf(next[a]) # KeyOf(next[Len(rows) + 1])
        BY <1>3, <2>4, <2>5
      <3>2. \A a, b \in DOMAIN rows : KeyOf(next[a]) = KeyOf(next[b]) => a = b
        BY <2>5 DEF RowsAreTrue
      <3> QED BY <2>5, <3>1, <3>2
    <2>9. \A m \in 1..(n + 1) : \E a \in DOMAIN next : KeyOf(next[a]) = Canonical[hits[m].url]
      <3>1. \A m \in 1..n : \E a \in DOMAIN rows : KeyOf(rows[a]) = Canonical[hits[m].url]
        BY DEF RowsAreTrue
      <3>2. Len(rows) + 1 \in DOMAIN next /\ KeyOf(next[Len(rows) + 1]) = Canonical[hits[n + 1].url]
        BY <2>4, <2>5
      <3> QED BY <1>1, <2>5, <3>1, <3>2
    <2> QED BY <2>5, <2>7, <2>8, <2>9 DEF RowsAreTrue, next
  <1> QED
    BY <1>2, <1>3

\* Counted in order, the hits make one true row for every canonical URL.
LEMMA TalliedFacts ==
  ASSUME NEW P, NEW hits \in Seq(HitsBy(P))
  PROVE  RowsAreTrue(P, Tallied(hits), hits, Len(hits))
  <1> DEFINE N == Len(hits)
             Body(f, n) == IF n = 0 THEN <<>> ELSE Tally(f[n - 1], hits[n])
  <1>1. N \in Nat /\ RowsAreTrue(P, <<>>, hits, 0)
    BY DEF RowsAreTrue
  <1>2. \E f : f = [n \in 0..N |-> Body(f, n)]
    <2> DEFINE Good(f, k) == f = [n \in 0..k |-> Body(f, n)]
               T == {k \in Nat : \E f : Good(f, k)}
    <2>1. 0 \in T
      <3> DEFINE f == [n \in 0..0 |-> <<>>]
      <3>1. \A n \in 0..0 : f[n] = Body(f, n)
        OBVIOUS
      <3>2. Good(f, 0)
        <4> HIDE DEF Body
        <4> QED BY <3>1
      <3> HIDE DEF Good
      <3> QED BY <3>2
    <2>2. ASSUME NEW k \in Nat, k \in T PROVE k + 1 \in T
      <3>1. PICK f : Good(f, k)
        <4> HIDE DEF Good
        <4> QED BY <2>2
      <3> DEFINE g == [n \in 0..(k + 1) |-> IF n = k + 1 THEN Tally(f[k], hits[n]) ELSE f[n]]
      <3>2. \A n \in 0..k : f[n] = Body(f, n)
        <4> HIDE DEF Body
        <4> QED BY <3>1
      <3>3. g[k + 1] = Tally(f[k], hits[k + 1]) /\ \A n \in 0..k : g[n] = f[n]
        OBVIOUS
      <3>4. \A n \in 0..(k + 1) : g[n] = Body(g, n)
        <4> HIDE DEF g
        <4>1. ASSUME NEW n \in 0..k PROVE g[n] = Body(g, n)
          <5>1. n # 0 => n - 1 \in 0..k
            OBVIOUS
          <5> QED BY <3>2, <3>3, <5>1
        <4>2. g[k + 1] = Body(g, k + 1)
          <5>1. (k + 1) - 1 = k /\ k + 1 # 0 /\ k \in 0..k
            OBVIOUS
          <5> QED BY <3>3, <5>1
        <4> HIDE DEF Body
        <4> QED BY <4>1, <4>2
      <3>5. Good(g, k + 1)
        <4>1. g = [n \in 0..(k + 1) |-> g[n]]
          OBVIOUS
        <4> HIDE DEF Body, g
        <4> QED BY <3>4, <4>1
      <3> HIDE DEF Good
      <3> QED BY <3>5
    <2> HIDE DEF T
    <2>3. N \in T
      BY <1>1, <2>1, <2>2, Induction
    <2> QED
      BY <2>3 DEF T
  <1> DEFINE G == CHOOSE f : f = [n \in 0..N |-> Body(f, n)]
  <1>3. G = [n \in 0..N |-> Body(G, n)]
    <2> HIDE DEF Body
    <2> QED BY <1>2
  <1>4. Tallied(hits) = G[N]
    BY DEF Tallied
  <1>5. \A n \in 0..N : G[n] = Body(G, n)
    <2> HIDE DEF G, Body
    <2> QED BY <1>3
  <1> HIDE DEF G
  <1> DEFINE T == {n \in Nat : n <= N => RowsAreTrue(P, G[n], hits, n)}
  <1>6. 0 \in T
    BY <1>1, <1>5
  <1>7. ASSUME NEW n \in Nat, n \in T PROVE n + 1 \in T
    <2> SUFFICES ASSUME n + 1 <= N PROVE RowsAreTrue(P, G[n + 1], hits, n + 1)
      OBVIOUS
    <2> DEFINE m == n + 1
    <2>1. m \in 0..N /\ m # 0 /\ m - 1 = n
      OBVIOUS
    <2>2. G[m] = Tally(G[m - 1], hits[m])
      <3> HIDE DEF m
      <3> QED BY <1>5, <2>1
    <2>3. G[n + 1] = Tally(G[n], hits[n + 1])
      BY <2>1, <2>2
    <2> QED
      BY <1>7, <2>3, TallyKeeps
  <1>8. N \in T
    <2> HIDE DEF T
    <2> QED BY <1>1, <1>6, <1>7, Induction
  <1> QED
    BY <1>4, <1>8

-----------------------------------------------------------------------------
\* The clusters: union-find finds the rows that near-duplicates connect.

IsNear(rows, u, v) == {rows[u].url, rows[v].url} \in Near

\* Sets of rows that no near-duplicate leads out of.
NearClosed(rows, I) == \A u \in I, v \in DOMAIN rows : IsNear(rows, u, v) => v \in I

\* A root is its own, and shares with its row every set that is closed.
RootsAreTrue(rows, root) ==
    /\ root \in [DOMAIN rows -> DOMAIN rows]
    /\ \A n \in DOMAIN rows : root[root[n]] = root[n]
    /\ \A I \in SUBSET DOMAIN rows :
         NearClosed(rows, I) => \A n \in DOMAIN rows : n \in I <=> root[n] \in I

\* Rows once together stay together.
StayTogether(rows, old, new) == \A a, b \in DOMAIN rows : old[a] = old[b] => new[a] = new[b]

\* One union.
LEMMA UniteFacts ==
  ASSUME NEW X, NEW rows \in Seq(X), NEW root, RootsAreTrue(rows, root),
         NEW u \in DOMAIN rows, NEW v \in DOMAIN rows
  PROVE  /\ RootsAreTrue(rows, Unite(rows, root, u, v))
         /\ StayTogether(rows, root, Unite(rows, root, u, v))
         /\ IsNear(rows, u, v) => Unite(rows, root, u, v)[u] = Unite(rows, root, u, v)[v]
  <1>1. CASE ~IsNear(rows, u, v)
    BY <1>1 DEF Unite, IsNear, StayTogether
  <1>2. CASE IsNear(rows, u, v)
    <2> DEFINE D == DOMAIN rows
               low == IF root[u] < root[v] THEN root[u] ELSE root[v]
               new == Unite(rows, root, u, v)
    <2>1. root \in [D -> D] /\ low \in {root[u], root[v]} /\ root[low] = low /\ low \in D
      BY DEF RootsAreTrue
    <2>2. new = [n \in D |-> IF root[n] \in {root[u], root[v]} THEN low ELSE root[n]]
      BY <1>2, <2>1 DEF Unite, IsNear, Union
    <2> HIDE DEF low, new, D
    <2>3. new \in [D -> D]
      BY <2>1, <2>2
    <2>4. \A n \in D : new[n] = IF root[n] \in {root[u], root[v]} THEN low ELSE root[n]
      BY <2>2
    <2>5. \A n \in D : new[new[n]] = new[n]
      <3> TAKE n \in D
      <3>1. new[low] = low
        BY <2>1, <2>4
      <3>2. root[n] \in D /\ root[root[n]] = root[n]
        BY <2>1 DEF RootsAreTrue, D
      <3> QED BY <2>4, <3>1, <3>2
    <2>6. ASSUME NEW I \in SUBSET D, NearClosed(rows, I), NEW n \in D
          PROVE  n \in I <=> new[n] \in I
      <3>1. \A m \in D : m \in I <=> root[m] \in I
        BY <2>6 DEF RootsAreTrue, D
      <3>2. IsNear(rows, v, u)
        BY <1>2 DEF IsNear
      <3>3. u \in I <=> v \in I
        BY <1>2, <2>6, <3>2 DEF NearClosed
      <3>4. root[u] \in I <=> root[v] \in I
        BY <3>1, <3>3 DEF D
      <3> QED BY <2>1, <2>4, <3>1, <3>4
    <2>7. RootsAreTrue(rows, new)
      BY <2>3, <2>5, <2>6 DEF RootsAreTrue, D
    <2>8. StayTogether(rows, root, new) /\ new[u] = new[v]
      BY <2>4 DEF StayTogether, D
    <2> QED BY <2>7, <2>8 DEF new
  <1> QED
    BY <1>1, <1>2

\* One row is put together with all later ones that are near.
LEMMA ScanFacts ==
  ASSUME NEW X, NEW rows \in Seq(X), NEW root, RootsAreTrue(rows, root), NEW u \in DOMAIN rows
  PROVE  /\ RootsAreTrue(rows, Scan(rows, root, u))
         /\ StayTogether(rows, root, Scan(rows, root, u))
         /\ \A v \in (u + 1)..Len(rows) :
              IsNear(rows, u, v) => Scan(rows, root, u)[u] = Scan(rows, root, u)[v]
  <1> DEFINE D == DOMAIN rows
             N == Len(rows) - u
             V == {r \in [D -> D] : RootsAreTrue(rows, r)}
             steps == [p \in V \X (1..N) |-> Unite(rows, p[1], u, u + p[2])]
             Body(h, k) == IF k = 0 THEN root ELSE Unite(rows, h[k - 1], u, u + k)
  <1>1. N \in Nat /\ \A k \in 1..N : u + k \in D
    OBVIOUS
  <1>2. root \in V
    BY DEF RootsAreTrue
  <1>3. \A r \in V, k \in 1..N : Unite(rows, r, u, u + k) \in V
    <2> TAKE r \in V, k \in 1..N
    <2>1. RootsAreTrue(rows, Unite(rows, r, u, u + k))
      BY <1>1, UniteFacts
    <2> QED BY <2>1 DEF RootsAreTrue
  <1>4. steps \in StepsOn(V, N) /\ \A r \in V, k \in 1..N : steps[<<r, k>>] = Unite(rows, r, u, u + k)
    <2> HIDE DEF V, N
    <2> QED BY <1>3 DEF StepsOn
  <1>5. PICK f \in [0..N -> V] : f[0] = root /\ \A k \in 1..N : f[k] = steps[<<f[k - 1], k>>]
    <2>1. N \in Nat /\ root \in V /\ steps \in StepsOn(V, N)
      BY <1>1, <1>2, <1>4
    <2> HIDE DEF steps, V, N
    <2> QED BY ONLY <2>1, Recursion
  <1>6. \A k \in 1..N : f[k - 1] \in V /\ f[k] = Unite(rows, f[k - 1], u, u + k)
    <2> HIDE DEF steps, V, N
    <2> TAKE k \in 1..N
    <2>1. k - 1 \in 0..N
      BY <1>1
    <2>2. f[k - 1] \in V
      BY <2>1
    <2> QED BY <1>4, <1>5, <2>2
  <1>7. f = [k \in 0..N |-> Body(f, k)]
    <2>1. ASSUME NEW k \in 0..N PROVE f[k] = Body(f, k)
      BY <1>1, <1>5, <1>6
    <2> HIDE DEF Body, V
    <2> QED BY <2>1
  <1> DEFINE G == CHOOSE h : h = [k \in 0..N |-> Body(h, k)]
  <1>8. G = [k \in 0..N |-> Body(G, k)]
    <2> HIDE DEF Body
    <2> QED BY <1>7
  <1>9. Scan(rows, root, u) = G[N]
    BY DEF Scan
  <1>10. \A k \in 0..N : G[k] = Body(G, k)
    <2> HIDE DEF G, Body
    <2> QED BY <1>8
  <1> HIDE DEF G
  <1> DEFINE Fine(r, k) == /\ RootsAreTrue(rows, r) /\ StayTogether(rows, root, r)
                           /\ \A v \in (u + 1)..(u + k) : IsNear(rows, u, v) => r[u] = r[v]
             T == {k \in Nat : k <= N => Fine(G[k], k)}
  <1>11. 0 \in T
    <2>1. G[0] = root
      BY <1>1, <1>10
    <2> QED BY <2>1 DEF StayTogether
  <1>12. ASSUME NEW k \in Nat, k \in T PROVE k + 1 \in T
    <2> SUFFICES ASSUME k + 1 <= N PROVE Fine(G[k + 1], k + 1)
      <3> HIDE DEF Fine
      <3> QED OBVIOUS
    <2>1. Fine(G[k], k)
      <3> HIDE DEF Fine
      <3> QED BY <1>1, <1>12
    <2> DEFINE m == k + 1
               new == G[m]
               old == G[k]
    <2>2. m \in 0..N /\ m # 0 /\ m - 1 = k /\ u + m \in D
      BY <1>1
    <2>3. G[m] = Unite(rows, G[m - 1], u, u + m)
      <3> HIDE DEF m
      <3> QED BY <1>10, <2>2
    <2>4. new = Unite(rows, old, u, u + m)
      BY <2>2, <2>3
    <2> HIDE DEF new, old
    <2>5. /\ RootsAreTrue(rows, new) /\ StayTogether(rows, old, new)
          /\ IsNear(rows, u, u + m) => new[u] = new[u + m]
      <3>1. RootsAreTrue(rows, old)
        BY <2>1 DEF old
      <3> HIDE DEF m
      <3> QED BY <2>2, <2>4, <3>1, UniteFacts
    <2>6. StayTogether(rows, root, new)
      BY <2>1, <2>5 DEF StayTogether, old
    <2>7. ASSUME NEW v \in (u + 1)..(u + m), IsNear(rows, u, v) PROVE new[u] = new[v]
      <3>1. CASE v = u + m
        BY <2>5, <2>7, <3>1
      <3>2. CASE v # u + m
        <4>1. v \in (u + 1)..(u + k) /\ v \in D
          BY <2>2, <3>2
        <4>2. old[u] = old[v]
          BY <2>1, <2>7, <4>1 DEF old
        <4> QED BY <2>5, <4>1, <4>2 DEF StayTogether
      <3> QED BY <3>1, <3>2
    <2> QED BY <2>5, <2>6, <2>7 DEF new
  <1>13. N \in T
    <2> HIDE DEF T, N
    <2> QED BY <1>1, <1>11, <1>12, Induction
  <1>14. Fine(G[N], N)
    <2> HIDE DEF Fine
    <2> QED BY <1>1, <1>13
  <1>15. u + N = Len(rows)
    OBVIOUS
  <1> QED
    BY <1>9, <1>14, <1>15

\* The roots: near rows have the same, and rows with the same root are in the
\* same closed sets.
LEMMA RootsFacts ==
  ASSUME NEW X, NEW rows \in Seq(X)
  PROVE  /\ RootsAreTrue(rows, Roots(rows))
         /\ \A u, v \in DOMAIN rows : IsNear(rows, u, v) => Roots(rows)[u] = Roots(rows)[v]
  <1> DEFINE D == DOMAIN rows
             N == Len(rows)
             own == [n \in D |-> n]
             V == {r \in [D -> D] : RootsAreTrue(rows, r)}
             steps == [p \in V \X (1..N) |-> Scan(rows, p[1], p[2])]
             Body(h, k) == IF k = 0 THEN own ELSE Scan(rows, h[k - 1], k)
  <1>1. N \in Nat /\ D = 1..N
    OBVIOUS
  <1>2. own \in V
    BY DEF RootsAreTrue
  <1>3. \A r \in V, k \in 1..N : Scan(rows, r, k) \in V
    <2> TAKE r \in V, k \in 1..N
    <2>1. RootsAreTrue(rows, Scan(rows, r, k))
      BY <1>1, ScanFacts
    <2> QED BY <2>1 DEF RootsAreTrue
  <1>4. steps \in StepsOn(V, N) /\ \A r \in V, k \in 1..N : steps[<<r, k>>] = Scan(rows, r, k)
    <2> HIDE DEF V, N
    <2> QED BY <1>3 DEF StepsOn
  <1>5. PICK f \in [0..N -> V] : f[0] = own /\ \A k \in 1..N : f[k] = steps[<<f[k - 1], k>>]
    <2> HIDE DEF steps, V, N, Body, D, own
    <2> QED BY <1>1, <1>2, <1>4, Recursion
  <1>6. \A k \in 1..N : f[k - 1] \in V /\ f[k] = Scan(rows, f[k - 1], k)
    <2> HIDE DEF steps, V, N
    <2> TAKE k \in 1..N
    <2>1. k - 1 \in 0..N
      BY <1>1
    <2>2. f[k - 1] \in V
      BY <2>1
    <2> QED BY <1>4, <1>5, <2>2
  <1>7. f = [k \in 0..N |-> Body(f, k)]
    <2>1. ASSUME NEW k \in 0..N PROVE f[k] = Body(f, k)
      BY <1>1, <1>5, <1>6
    <2> HIDE DEF Body, V
    <2> QED BY <2>1
  <1> DEFINE G == CHOOSE h : h = [k \in 0..N |-> Body(h, k)]
  <1>8. G = [k \in 0..N |-> Body(G, k)]
    <2> HIDE DEF Body
    <2> QED BY <1>7
  <1>9. Roots(rows) = G[N]
    BY DEF Roots
  <1>10. \A k \in 0..N : G[k] = Body(G, k)
    <2> HIDE DEF G, Body
    <2> QED BY <1>8
  <1> HIDE DEF G
  <1> DEFINE Fine(r, k) == /\ RootsAreTrue(rows, r)
                           /\ \A u \in 1..k : \A v \in (u + 1)..N : IsNear(rows, u, v) => r[u] = r[v]
             T == {k \in Nat : k <= N => Fine(G[k], k)}
  <1>11. 0 \in T
    <2>1. G[0] = own
      BY <1>1, <1>10
    <2>2. RootsAreTrue(rows, G[0])
      BY <1>2, <2>1
    <2> QED BY <2>2
  <1>12. ASSUME NEW k \in Nat, k \in T PROVE k + 1 \in T
    <2> SUFFICES ASSUME k + 1 <= N PROVE Fine(G[k + 1], k + 1)
      <3> HIDE DEF Fine
      <3> QED OBVIOUS
    <2>1. Fine(G[k], k)
      <3> HIDE DEF Fine
      <3> QED BY <1>1, <1>12
    <2> DEFINE m == k + 1
               new == G[m]
               old == G[k]
    <2>2. m \in 0..N /\ m # 0 /\ m - 1 = k /\ m \in D
      BY <1>1
    <2>3. G[m] = Scan(rows, G[m - 1], m)
      <3> HIDE DEF m
      <3> QED BY <1>10, <2>2
    <2>4. new = Scan(rows, old, m)
      BY <2>2, <2>3
    <2> HIDE DEF new, old
    <2>5. /\ RootsAreTrue(rows, new) /\ StayTogether(rows, old, new)
          /\ \A v \in (m + 1)..N : IsNear(rows, m, v) => new[m] = new[v]
      <3>1. RootsAreTrue(rows, old)
        BY <2>1 DEF old
      <3> HIDE DEF m
      <3> QED BY <2>2, <2>4, <3>1, ScanFacts
    <2>6. ASSUME NEW u \in 1..m, NEW v \in (u + 1)..N, IsNear(rows, u, v) PROVE new[u] = new[v]
      <3>1. CASE u = m
        BY <2>5, <2>6, <3>1
      <3>2. CASE u # m
        <4>1. u \in 1..k /\ u \in D /\ v \in D
          BY <1>1, <2>2, <3>2
        <4>2. old[u] = old[v]
          BY <2>1, <2>6, <4>1 DEF old
        <4> QED BY <2>5, <4>1, <4>2 DEF StayTogether
      <3> QED BY <3>1, <3>2
    <2> QED BY <2>5, <2>6 DEF new
  <1>13. Fine(G[N], N)
    <2>1. N \in T
      <3> HIDE DEF T, N
      <3> QED BY <1>1, <1>11, <1>12, Induction
    <2> HIDE DEF Fine
    <2> QED BY <1>1, <2>1
  <1> DEFINE root == Roots(rows)
  <1>14. ASSUME NEW u \in D, NEW v \in D, IsNear(rows, u, v) PROVE root[u] = root[v]
    <2>1. IsNear(rows, v, u)
      BY <1>14 DEF IsNear
    <2>2. u = v \/ (u \in 1..N /\ v \in (u + 1)..N) \/ (v \in 1..N /\ u \in (v + 1)..N)
      BY <1>1
    <2> QED BY <1>9, <1>13, <1>14, <2>1, <2>2
  <1> QED
    BY <1>9, <1>13, <1>14

-----------------------------------------------------------------------------
\* A cluster becomes one row.

\* A list without repeats is as long as it has members.
LEMMA InjectiveLength ==
  ASSUME NEW X, NEW s \in Seq(X), IsInjective(s)
  PROVE  Cardinality(ToSet(s)) = Len(s)
  <1>1. Len(s) \in Nat /\ DOMAIN s = 1..Len(s)
    OBVIOUS
  <1>2. s \in Bijection(1..Len(s), ToSet(s))
    <2>1. s \in [1..Len(s) -> ToSet(s)]
      BY <1>1 DEF ToSet
    <2>2. \A y \in ToSet(s) : \E x \in 1..Len(s) : s[x] = y
      BY <1>1 DEF ToSet
    <2> QED BY <1>1, <2>1, <2>2 DEF Bijection, Injection, Surjection, IsInjective
  <1>3. ExistsBijection(1..Len(s), ToSet(s))
    BY <1>2 DEF ExistsBijection
  <1> QED
    BY <1>1, <1>3, FS_CountingElements

\* Two lists united: what the second adds to the first.
LEMMA UnitedFacts ==
  ASSUME NEW X, NEW s \in Seq(X), IsInjective(s), NEW t \in Seq(X), IsInjective(t)
  PROVE  LET u == s \o Among(t, ToSet(t) \ ToSet(s))
         IN  u \in Seq(X) /\ IsInjective(u) /\ ToSet(u) = ToSet(s) \cup ToSet(t)
  <1> DEFINE r == Among(t, ToSet(t) \ ToSet(s))
             u == s \o r
  <1>1. r \in Seq(X) /\ IsInjective(r) /\ ToSet(r) = ToSet(t) \ ToSet(s)
    BY AmongFacts, AmongInjective
  <1> HIDE DEF r
  <1>2. /\ u \in Seq(X) /\ Len(u) = Len(s) + Len(r)
        /\ \A n \in DOMAIN s : u[n] = s[n]
        /\ \A n \in DOMAIN r : u[Len(s) + n] = r[n]
    BY <1>1
  <1>3. /\ DOMAIN u = 1..(Len(s) + Len(r)) /\ DOMAIN s = 1..Len(s) /\ DOMAIN r = 1..Len(r)
        /\ Len(s) \in Nat /\ Len(r) \in Nat
    BY <1>1, <1>2
  <1> HIDE DEF u
  <1>4. \A n \in DOMAIN u : \/ n \in DOMAIN s /\ u[n] = s[n] /\ u[n] \in ToSet(s)
                            \/ n - Len(s) \in DOMAIN r /\ u[n] = r[n - Len(s)] /\ u[n] \notin ToSet(s)
    <2> TAKE n \in DOMAIN u
    <2>1. CASE n \in DOMAIN s
      BY <1>2, <2>1 DEF ToSet
    <2>2. CASE n \notin DOMAIN s
      <3> DEFINE m == n - Len(s)
      <3>1. m \in DOMAIN r /\ n = Len(s) + m
        BY <1>3, <2>2
      <3> HIDE DEF m
      <3>2. u[n] = r[m] /\ r[m] \in ToSet(r)
        BY <1>2, <3>1 DEF ToSet
      <3> QED BY <1>1, <3>1, <3>2 DEF m
    <2> QED BY <2>1, <2>2
  <1>5. IsInjective(u)
    <2> SUFFICES ASSUME NEW a \in DOMAIN u, NEW b \in DOMAIN u, u[a] = u[b] PROVE a = b
      BY DEF IsInjective
    <2>1. CASE u[a] \in ToSet(s)
      BY <1>4, <2>1 DEF IsInjective
    <2>2. CASE u[a] \notin ToSet(s)
      <3>1. a - Len(s) \in DOMAIN r /\ b - Len(s) \in DOMAIN r /\ r[a - Len(s)] = r[b - Len(s)]
        BY <1>4, <2>2
      <3>2. a - Len(s) = b - Len(s)
        BY <1>1, <3>1 DEF IsInjective
      <3> QED BY <1>3, <3>2
    <2> QED BY <2>1, <2>2
  <1>6. ToSet(u) \subseteq ToSet(s) \cup ToSet(r)
    BY <1>4 DEF ToSet
  <1>7. ToSet(s) \subseteq ToSet(u)
    BY <1>2, <1>3 DEF ToSet
  <1>8. ToSet(r) \subseteq ToSet(u)
    <2> SUFFICES ASSUME NEW n \in DOMAIN r PROVE r[n] \in ToSet(u)
      BY DEF ToSet
    <2>1. Len(s) + n \in DOMAIN u
      BY <1>3
    <2> QED BY <1>2, <2>1 DEF ToSet
  <1>9. ToSet(u) = ToSet(s) \cup ToSet(t)
    BY <1>1, <1>6, <1>7, <1>8
  <1> QED
    BY <1>2, <1>5, <1>9 DEF u, r

\* The canonical URLs of the first k rows, and the hits that have them.
KeysUpTo(rows, k) == {KeyOf(rows[a]) : a \in 1..k}
HitsOfKeys(hits, K) == {m \in DOMAIN hits : Canonical[hits[m].url] \in K}

\* What a cluster has gathered from its first k members.
Gathering(P) == [best : RowsOf(P), occurrences : Nat, mergedFrom : Seq(P)]
GatheringIsTrue(P, c, members, hits, k) ==
    /\ c \in Gathering(P) /\ c.best \in ToSet(members)
    /\ c.occurrences = Cardinality(HitsOfKeys(hits, KeysUpTo(members, k)))
    /\ ToSet(c.mergedFrom) = {hits[m].provider : m \in HitsOfKeys(hits, KeysUpTo(members, k))}
    /\ IsInjective(c.mergedFrom)

\* Rows that say the truth about different keys.
RowsAgree(P, rows, hits) ==
    /\ rows \in Seq(RowsOf(P))
    /\ \A a, b \in DOMAIN rows : KeyOf(rows[a]) = KeyOf(rows[b]) => a = b
    /\ \A a \in DOMAIN rows : RowIsTrue(rows[a], hits, Len(hits))

\* One more member adds its hits and its providers.
LEMMA AbsorbKeeps ==
  ASSUME NEW P, NEW hits \in Seq(HitsBy(P)), NEW members, RowsAgree(P, members, hits),
         NEW k \in Nat, k + 1 <= Len(members), NEW c, GatheringIsTrue(P, c, members, hits, k)
  PROVE  GatheringIsTrue(P, Absorb(c, members[k + 1]), members, hits, k + 1)
  <1> DEFINE m == members[k + 1]
             new == Absorb(c, m)
             Old == HitsOfKeys(hits, KeysUpTo(members, k))
             Own == HitsWith(hits, Len(hits), KeyOf(m))
             New == HitsOfKeys(hits, KeysUpTo(members, k + 1))
  <1>1. /\ members \in Seq(RowsOf(P)) /\ k + 1 \in DOMAIN members /\ m \in RowsOf(P)
        /\ RowIsTrue(m, hits, Len(hits)) /\ m \in ToSet(members)
        /\ Len(hits) \in Nat /\ DOMAIN hits = 1..Len(hits)
    BY DEF RowsAgree, ToSet
  <1>2. /\ c.best \in RowsOf(P) /\ c.occurrences \in Nat /\ c.mergedFrom \in Seq(P)
        /\ m.occurrences \in Nat /\ m.mergedFrom \in Seq(P)
    BY <1>1 DEF GatheringIsTrue, Gathering, RowsOf
  <1>3. KeysUpTo(members, k + 1) = KeysUpTo(members, k) \cup {KeyOf(m)}
    <2>1. 1..(k + 1) = (1..k) \cup {k + 1}
      OBVIOUS
    <2> QED BY <2>1 DEF KeysUpTo
  <1>4. KeyOf(m) \notin KeysUpTo(members, k)
    <2>1. \A a \in 1..k : a \in DOMAIN members /\ a # k + 1
      BY <1>1
    <2> QED BY <1>1, <2>1 DEF RowsAgree, KeysUpTo
  <1>5. New = Old \cup Own /\ Old \cap Own = {}
    BY <1>1, <1>3, <1>4 DEF HitsOfKeys, HitsWith
  <1>6. Old \in SUBSET (1..Len(hits)) /\ IsFiniteSet(1..Len(hits))
    BY <1>1, FS_Interval DEF HitsOfKeys
  <1>7. IsFiniteSet(Old) /\ IsFiniteSet(Own) /\ Cardinality(Old) \in Nat /\ Cardinality(Own) \in Nat
    <2>1. IsFiniteSet(Own)
      BY <1>1, OneMoreHit
    <2> HIDE DEF Old, Own
    <2> QED BY <1>6, <2>1, FS_Subset, FS_CardinalityType
  <1>8. Cardinality(New) = Cardinality(Old) + Cardinality(Own)
    <2> HIDE DEF Old, Own, New
    <2>1. Cardinality(Old \cup Own) = Cardinality(Old) + Cardinality(Own) - Cardinality(Old \cap Own)
      BY <1>7, FS_Union
    <2>2. Cardinality(Old \cap Own) = 0
      BY <1>5, FS_EmptySet
    <2> QED BY <1>5, <1>7, <2>1, <2>2
  <1>9. c.occurrences = Cardinality(Old) /\ m.occurrences = Cardinality(Own)
    BY <1>1 DEF GatheringIsTrue, RowIsTrue
  <1> DEFINE names == c.mergedFrom \o Among(m.mergedFrom, ToSet(m.mergedFrom) \ ToSet(c.mergedFrom))
             best == IF Better(m, c.best) THEN m ELSE c.best
             sum == c.occurrences + m.occurrences
  <1>10. new = [best |-> best, occurrences |-> sum, mergedFrom |-> names]
    BY DEF Absorb
  <1>11. /\ names \in Seq(P) /\ IsInjective(names)
         /\ ToSet(names) = ToSet(c.mergedFrom) \cup ToSet(m.mergedFrom)
    <2>1. IsInjective(c.mergedFrom) /\ IsInjective(m.mergedFrom)
      BY <1>1 DEF GatheringIsTrue, RowIsTrue
    <2> QED BY <1>2, <2>1, UnitedFacts
  <1>12. /\ ToSet(c.mergedFrom) = {hits[x].provider : x \in Old}
         /\ ToSet(m.mergedFrom) = {hits[x].provider : x \in Own}
    BY <1>1 DEF GatheringIsTrue, RowIsTrue
  <1>13. ToSet(names) = {hits[x].provider : x \in New}
    <2> HIDE DEF Old, Own, New, names
    <2> QED BY <1>5, <1>11, <1>12
  <1>14. sum = Cardinality(New) /\ sum \in Nat
    BY <1>2, <1>8, <1>9
  <1>15. best \in RowsOf(P) /\ best \in ToSet(members)
    BY <1>1, <1>2 DEF GatheringIsTrue
  <1> HIDE DEF names, best, sum, new, m
  <1>16. /\ new \in Gathering(P) /\ new.best = best /\ new.occurrences = sum /\ new.mergedFrom = names
    BY <1>10, <1>11, <1>14, <1>15 DEF Gathering
  <1>17. GatheringIsTrue(P, new, members, hits, k + 1)
    BY <1>11, <1>13, <1>14, <1>15, <1>16 DEF GatheringIsTrue
  <1> QED
    BY <1>17 DEF new, m

\* All members are gathered.
LEMMA GatheredFacts ==
  ASSUME NEW P, NEW hits \in Seq(HitsBy(P)), NEW members, RowsAgree(P, members, hits), members # <<>>
  PROVE  GatheringIsTrue(P, Gathered(members), members, hits, Len(members))
  <1> DEFINE N == Len(members)
             none == [best |-> members[1], occurrences |-> 0, mergedFrom |-> <<>>]
             Body(h, n) == IF n = 0 THEN none ELSE Absorb(h[n - 1], members[n])
  <1>1. members \in Seq(RowsOf(P)) /\ N \in Nat /\ DOMAIN members = 1..N /\ 1 \in DOMAIN members
    BY DEF RowsAgree
  <1>2. GatheringIsTrue(P, none, members, hits, 0)
    <2>1. members[1] \in RowsOf(P) /\ members[1] \in ToSet(members)
      BY <1>1 DEF ToSet
    <2>2. none \in Gathering(P)
      BY <2>1 DEF Gathering
    <2>3. HitsOfKeys(hits, KeysUpTo(members, 0)) = {}
      BY DEF HitsOfKeys, KeysUpTo
    <2>4. Cardinality({}) = 0 /\ ToSet(<<>>) = {} /\ IsInjective(<<>>)
      BY FS_EmptySet DEF ToSet, IsInjective
    <2> QED BY <2>1, <2>2, <2>3, <2>4 DEF GatheringIsTrue
  <1>3. \E f : f = [n \in 0..N |-> Body(f, n)]
    <2> DEFINE Good(f, k) == f = [n \in 0..k |-> Body(f, n)]
               T == {k \in Nat : \E f : Good(f, k)}
    <2>1. 0 \in T
      <3> DEFINE f == [n \in 0..0 |-> none]
      <3>1. \A n \in 0..0 : f[n] = Body(f, n)
        OBVIOUS
      <3>2. Good(f, 0)
        <4> HIDE DEF Body
        <4> QED BY <3>1
      <3> HIDE DEF Good
      <3> QED BY <3>2
    <2>2. ASSUME NEW k \in Nat, k \in T PROVE k + 1 \in T
      <3>1. PICK f : Good(f, k)
        <4> HIDE DEF Good
        <4> QED BY <2>2
      <3> DEFINE g == [n \in 0..(k + 1) |-> IF n = k + 1 THEN Absorb(f[k], members[n]) ELSE f[n]]
      <3>2. \A n \in 0..k : f[n] = Body(f, n)
        <4> HIDE DEF Body
        <4> QED BY <3>1
      <3>3. g[k + 1] = Absorb(f[k], members[k + 1]) /\ \A n \in 0..k : g[n] = f[n]
        OBVIOUS
      <3>4. \A n \in 0..(k + 1) : g[n] = Body(g, n)
        <4> HIDE DEF g, none
        <4>1. ASSUME NEW n \in 0..k PROVE g[n] = Body(g, n)
          <5>1. n # 0 => n - 1 \in 0..k
            OBVIOUS
          <5> QED BY <3>2, <3>3, <5>1
        <4>2. g[k + 1] = Body(g, k + 1)
          <5>1. (k + 1) - 1 = k /\ k + 1 # 0 /\ k \in 0..k
            OBVIOUS
          <5> QED BY <3>3, <5>1
        <4> HIDE DEF Body
        <4> QED BY <4>1, <4>2
      <3>5. Good(g, k + 1)
        <4>1. g = [n \in 0..(k + 1) |-> g[n]]
          OBVIOUS
        <4> HIDE DEF Body, g
        <4> QED BY <3>4, <4>1
      <3> HIDE DEF Good
      <3> QED BY <3>5
    <2> HIDE DEF T
    <2>3. N \in T
      BY <1>1, <2>1, <2>2, Induction
    <2> QED
      BY <2>3 DEF T
  <1> DEFINE G == CHOOSE f : f = [n \in 0..N |-> Body(f, n)]
  <1>4. G = [n \in 0..N |-> Body(G, n)]
    <2> HIDE DEF Body
    <2> QED BY <1>3
  <1>5. Gathered(members) = G[N]
    BY DEF Gathered
  <1>6. \A n \in 0..N : G[n] = Body(G, n)
    <2> HIDE DEF G, Body
    <2> QED BY <1>4
  <1> HIDE DEF G
  <1> DEFINE T == {n \in Nat : n <= N => GatheringIsTrue(P, G[n], members, hits, n)}
  <1>7. 0 \in T
    <2>1. G[0] = none
      BY <1>1, <1>6
    <2> HIDE DEF none
    <2> QED BY <1>2, <2>1
  <1>8. ASSUME NEW n \in Nat, n \in T PROVE n + 1 \in T
    <2> SUFFICES ASSUME n + 1 <= N PROVE GatheringIsTrue(P, G[n + 1], members, hits, n + 1)
      OBVIOUS
    <2> DEFINE m == n + 1
    <2>1. m \in 0..N /\ m # 0 /\ m - 1 = n
      BY <1>1
    <2>2. G[m] = Absorb(G[m - 1], members[m])
      <3> HIDE DEF m
      <3> QED BY <1>6, <2>1
    <2>3. G[n + 1] = Absorb(G[n], members[n + 1])
      BY <2>1, <2>2
    <2>4. GatheringIsTrue(P, G[n], members, hits, n)
      BY <1>1, <1>8
    <2> QED
      BY <2>3, <2>4, AbsorbKeeps
  <1>9. N \in T
    <2> HIDE DEF T
    <2> QED BY <1>1, <1>7, <1>8, Induction
  <1> QED
    BY <1>5, <1>9

\* What a row of the list says of its canonical URLs.
ClusterIsTrue(P, row, hits, K) ==
    /\ row \in RowsOf(P) /\ KeysOf(row) = K
    /\ row.occurrences = Cardinality(HitsOfKeys(hits, K))
    /\ ToSet(row.mergedFrom) = {hits[m].provider : m \in HitsOfKeys(hits, K)}
    /\ IsInjective(row.mergedFrom)

\* The row of a cluster stands for the canonical URLs of its members.
LEMMA MergeClusterFacts ==
  ASSUME NEW P, NEW hits \in Seq(HitsBy(P)), NEW members, RowsAgree(P, members, hits), members # <<>>
  PROVE  ClusterIsTrue(P, MergeCluster(members), hits, {KeyOf(m) : m \in ToSet(members)})
  <1> DEFINE c == Gathered(members)
             different == {m \in ToSet(members) : m.url # c.best.url}
             others == Among(members, different)
             also == [n \in DOMAIN others |-> others[n].url]
             row == MergeCluster(members)
             K == {KeyOf(m) : m \in ToSet(members)}
  <1>1. GatheringIsTrue(P, c, members, hits, Len(members))
    BY GatheredFacts
  <1>2. members \in Seq(RowsOf(P))
    BY DEF RowsAgree
  <1>3. KeysUpTo(members, Len(members)) = K
    BY <1>2 DEF KeysUpTo, ToSet
  <1>4. others \in Seq(RowsOf(P)) /\ ToSet(others) = different
    BY <1>2, AmongFacts
  <1>5. row = [c.best EXCEPT !.occurrences = c.occurrences, !.mergedFrom = c.mergedFrom, !.also = also]
    BY DEF MergeCluster
  <1> HIDE DEF c, others, row
  <1>6. /\ c.best \in RowsOf(P) /\ c.best \in ToSet(members) /\ c.occurrences \in Nat
        /\ c.mergedFrom \in Seq(P)
    BY <1>1 DEF GatheringIsTrue, Gathering
  <1>7. also \in Seq(Url)
    <2>1. Len(others) \in Nat /\ DOMAIN others = 1..Len(others)
          /\ \A n \in 1..Len(others) : others[n] \in RowsOf(P)
      BY <1>4
    <2>2. also = [n \in 1..Len(others) |-> others[n].url]
      BY <2>1
    <2>3. also \in [1..Len(others) -> Url]
      BY <2>1, <2>2 DEF RowsOf
    <2> HIDE DEF also
    <2> QED BY <2>1, <2>3
  <1>8. ToSet(also) = {m.url : m \in different}
    <2>1. ToSet(also) = {others[n].url : n \in DOMAIN others}
      BY DEF ToSet
    <2>2. ToSet(others) = {others[n] : n \in DOMAIN others}
      BY DEF ToSet
    <2> HIDE DEF also, different
    <2> QED BY <1>4, <2>1, <2>2
  <1> HIDE DEF also
  <1>9. /\ row \in RowsOf(P) /\ row.url = c.best.url /\ row.also = also
        /\ row.occurrences = c.occurrences /\ row.mergedFrom = c.mergedFrom
    <2> DEFINE b == c.best
    <2>1. /\ b = [url |-> b.url, occurrences |-> b.occurrences, bestPos |-> b.bestPos,
                  also |-> b.also, score |-> b.score, mergedFrom |-> b.mergedFrom]
          /\ b.url \in Url /\ b.bestPos \in Nat /\ b.score \in Nat
      BY <1>6 DEF RowsOf
    <2>2. row = [b EXCEPT !.occurrences = c.occurrences, !.mergedFrom = c.mergedFrom, !.also = also]
      BY <1>5
    <2> HIDE DEF b
    <2>3. row = [url |-> b.url, occurrences |-> c.occurrences, bestPos |-> b.bestPos, also |-> also,
                 score |-> b.score, mergedFrom |-> c.mergedFrom]
      BY <2>1, <2>2
    <2> QED BY <1>6, <1>7, <2>1, <2>3 DEF RowsOf, b
  <1>10. KeysOf(row) = K
    <2>1. KeysOf(row) = {Canonical[u] : u \in {c.best.url} \cup {m.url : m \in different}}
      BY <1>8, <1>9 DEF KeysOf
    <2> QED BY <1>6, <2>1 DEF KeyOf
  <1>11. /\ row.occurrences = Cardinality(HitsOfKeys(hits, K))
         /\ ToSet(row.mergedFrom) = {hits[m].provider : m \in HitsOfKeys(hits, K)}
         /\ IsInjective(row.mergedFrom)
    <2> HIDE DEF K
    <2> QED BY <1>1, <1>3, <1>9 DEF GatheringIsTrue
  <1> HIDE DEF K
  <1>12. ClusterIsTrue(P, row, hits, K)
    BY <1>9, <1>10, <1>11 DEF ClusterIsTrue
  <1> QED
    BY <1>12 DEF row, K

-----------------------------------------------------------------------------
\* The clusters are the connected sets of canonical URLs.

\* Rows taken at some positions, in order.
Selected(rows, S) ==
    LET in == Among([n \in DOMAIN rows |-> n], S) IN [n \in DOMAIN in |-> rows[in[n]]]

KeysAmong(rows, S) == {KeyOf(rows[n]) : n \in S}

\* They say the truth as the rows they are taken from.
LEMMA SelectedFacts ==
  ASSUME NEW P, NEW hits, NEW rows, RowsAgree(P, rows, hits),
         NEW S \in SUBSET DOMAIN rows, S # {}
  PROVE  /\ RowsAgree(P, Selected(rows, S), hits) /\ Selected(rows, S) # <<>>
         /\ {KeyOf(m) : m \in ToSet(Selected(rows, S))} = KeysAmong(rows, S)
  <1> DEFINE D == DOMAIN rows
             indexes == [n \in D |-> n]
             in == Among(indexes, S)
             members == [n \in DOMAIN in |-> rows[in[n]]]
  <1>1. rows \in Seq(RowsOf(P)) /\ Len(rows) \in Nat /\ D = 1..Len(rows)
    BY DEF RowsAgree
  <1>2. indexes \in Seq(D) /\ IsInjective(indexes) /\ ToSet(indexes) = D
    <2>1. indexes \in [1..Len(rows) -> D]
      BY <1>1
    <2>2. DOMAIN indexes = D /\ \A n \in D : indexes[n] = n
      OBVIOUS
    <2> HIDE DEF indexes
    <2> QED BY <1>1, <2>1, <2>2 DEF IsInjective, ToSet
  <1> HIDE DEF indexes
  <1>3. in \in Seq(D) /\ IsInjective(in) /\ ToSet(in) = S
    <2>1. ToSet(indexes) \cap S = S
      BY <1>2
    <2> HIDE DEF D
    <2> QED BY <1>2, <2>1, AmongFacts, AmongInjective
  <1> HIDE DEF in
  <1>4. Len(in) \in Nat /\ DOMAIN in = 1..Len(in) /\ \A n \in DOMAIN in : in[n] \in D
    BY <1>3
  <1>5. DOMAIN members = DOMAIN in /\ \A n \in DOMAIN in : members[n] = rows[in[n]]
    OBVIOUS
  <1>6. members \in Seq(RowsOf(P))
    <2>1. members \in [1..Len(in) -> RowsOf(P)]
      BY <1>1, <1>4
    <2> HIDE DEF members
    <2> QED BY <1>4, <2>1
  <1> HIDE DEF members
  <1>7. \A a, b \in DOMAIN members : KeyOf(members[a]) = KeyOf(members[b]) => a = b
    BY <1>3, <1>4, <1>5 DEF RowsAgree, IsInjective
  <1>8. \A a \in DOMAIN members : RowIsTrue(members[a], hits, Len(hits))
    BY <1>4, <1>5 DEF RowsAgree
  <1>9. S = {in[n] : n \in DOMAIN in}
    BY <1>3 DEF ToSet
  <1>10. members # <<>>
    <2>1. DOMAIN in # {}
      BY <1>9
    <2> QED BY <1>5, <2>1
  <1>11. {KeyOf(m) : m \in ToSet(members)} = {KeyOf(rows[n]) : n \in S}
    BY <1>5, <1>9 DEF ToSet
  <1>12. RowsAgree(P, members, hits)
    BY <1>6, <1>7, <1>8 DEF RowsAgree
  <1> QED
    BY <1>10, <1>11, <1>12 DEF members, in, indexes, Selected, KeysAmong

\* The keys are those of the rows, each spelled as in its row.
LEMMA SpellingFacts ==
  ASSUME NEW P, NEW hits \in Seq(HitsBy(P)), NEW rows, RowsAreTrue(P, rows, hits, Len(hits))
  PROVE  /\ KeysIn(hits) = {KeyOf(rows[n]) : n \in DOMAIN rows}
         /\ \A n \in DOMAIN rows : FirstSpelling(hits, KeyOf(rows[n])) = rows[n].url
  <1>1. Len(hits) \in Nat /\ DOMAIN hits = 1..Len(hits)
    OBVIOUS
  <1>2. ASSUME NEW n \in DOMAIN rows
        PROVE  /\ KeyOf(rows[n]) \in KeysIn(hits)
               /\ FirstSpelling(hits, KeyOf(rows[n])) = rows[n].url
    <2> DEFINE k == KeyOf(rows[n])
               Is(m) == IsFirst(hits, m) /\ Canonical[hits[m].url] = k
               c == CHOOSE m \in DOMAIN hits : Is(m)
    <2>1. PICK m \in DOMAIN hits : rows[n].url = hits[m].url /\ IsFirst(hits, m)
      BY <1>1 DEF RowsAreTrue, RowIsTrue
    <2>2. Is(m)
      BY <2>1 DEF KeyOf
    <2>3. c \in DOMAIN hits /\ Is(c)
      <3> HIDE DEF Is
      <3> QED BY <2>2
    <2>4. ~(c < m) /\ ~(m < c)
      <3> HIDE DEF c
      <3>1. c < m => c \in 1..(m - 1)
        BY <1>1, <2>3
      <3>2. m < c => m \in 1..(c - 1)
        BY <1>1, <2>3
      <3> QED BY <2>2, <2>3, <3>1, <3>2 DEF IsFirst
    <2>5. c = m
      <3> HIDE DEF c
      <3> QED BY <1>1, <2>3, <2>4
    <2>6. FirstSpelling(hits, k) = hits[c].url
      BY DEF FirstSpelling
    <2> QED BY <2>1, <2>2, <2>5, <2>6 DEF KeysIn
  <1>3. \A k \in KeysIn(hits) : \E n \in DOMAIN rows : KeyOf(rows[n]) = k
    BY <1>1 DEF KeysIn, RowsAreTrue
  <1> QED
    BY <1>2, <1>3

\* The rows with one of the keys.
RowsWith(rows, K) == {n \in DOMAIN rows : KeyOf(rows[n]) \in K}

\* Keys are closed if their rows are.
LEMMA ClosedAlike ==
  ASSUME NEW P, NEW hits \in Seq(HitsBy(P)), NEW rows, RowsAreTrue(P, rows, hits, Len(hits)),
         NEW K \in SUBSET KeysIn(hits)
  PROVE  ClosedUnderNear(hits, K) <=> NearClosed(rows, RowsWith(rows, K))
  <1>1. /\ KeysIn(hits) = {KeyOf(rows[n]) : n \in DOMAIN rows}
        /\ \A n \in DOMAIN rows : FirstSpelling(hits, KeyOf(rows[n])) = rows[n].url
    BY SpellingFacts
  <1>2. ASSUME ClosedUnderNear(hits, K), NEW a \in RowsWith(rows, K), NEW b \in DOMAIN rows,
               IsNear(rows, a, b)
        PROVE  b \in RowsWith(rows, K)
    BY <1>1, <1>2 DEF ClosedUnderNear, RowsWith, IsNear
  <1>3. ASSUME NearClosed(rows, RowsWith(rows, K)), NEW k \in K, NEW l \in KeysIn(hits),
               {FirstSpelling(hits, k), FirstSpelling(hits, l)} \in Near
        PROVE  l \in K
    <2>1. PICK a \in DOMAIN rows : k = KeyOf(rows[a])
      BY <1>1
    <2>2. PICK b \in DOMAIN rows : l = KeyOf(rows[b])
      BY <1>1
    <2>3. a \in RowsWith(rows, K) /\ IsNear(rows, a, b)
      BY <1>1, <1>3, <2>1, <2>2 DEF RowsWith, IsNear
    <2> QED BY <1>3, <2>2, <2>3 DEF NearClosed, RowsWith
  <1> QED
    BY <1>2, <1>3 DEF NearClosed, ClosedUnderNear

\* The keys of the rows with a root, and the rows that are their own.
KeysAt(rows, r) == KeysAmong(rows, {n \in DOMAIN rows : Roots(rows)[n] = r})
OwnRoots(rows) == {n \in DOMAIN rows : Roots(rows)[n] = n}

\* What the roots separate is what no chain of near-duplicates connects.
LEMMA RootsConnect ==
  ASSUME NEW P, NEW hits \in Seq(HitsBy(P)), NEW rows, RowsAreTrue(P, rows, hits, Len(hits))
  PROVE  /\ Connected(hits) = {KeysAt(rows, r) : r \in OwnRoots(rows)}
         /\ \A r, q \in OwnRoots(rows) : KeysAt(rows, r) = KeysAt(rows, q) => r = q
  <1> DEFINE D == DOMAIN rows
             root == Roots(rows)
             Of(r) == {n \in D : root[n] = r}
  <1>1. KeysIn(hits) = {KeyOf(rows[n]) : n \in D}
    BY SpellingFacts
  <1>2. RootsAreTrue(rows, root) /\ \A a, b \in D : IsNear(rows, a, b) => root[a] = root[b]
    BY RootsFacts DEF RowsAreTrue
  <1>3. root \in [D -> D] /\ \A n \in D : root[n] \in OwnRoots(rows)
    BY <1>2 DEF RootsAreTrue, OwnRoots
  <1>4. \A a, b \in D : KeyOf(rows[a]) = KeyOf(rows[b]) => a = b
    BY DEF RowsAreTrue
  <1>5. \A r : KeysAt(rows, r) = {KeyOf(rows[n]) : n \in Of(r)}
    BY DEF KeysAt, KeysAmong
  <1>6. \A r : KeysAt(rows, r) \in SUBSET KeysIn(hits) /\ RowsWith(rows, KeysAt(rows, r)) = Of(r)
    BY <1>1, <1>4, <1>5 DEF RowsWith
  <1>7. \A r \in OwnRoots(rows) : r \in Of(r) /\ KeyOf(rows[r]) \in KeysAt(rows, r)
    BY <1>5 DEF OwnRoots
  <1>8. \A r : ClosedUnderNear(hits, KeysAt(rows, r))
    <2> TAKE r
    <2>1. NearClosed(rows, Of(r))
      BY <1>2 DEF NearClosed
    <2> HIDE DEF Of
    <2> QED BY <1>6, <2>1, ClosedAlike
  <1>9. ASSUME NEW J \in SUBSET KeysIn(hits), ClosedUnderNear(hits, J), NEW n \in D,
               KeyOf(rows[n]) \in J
        PROVE  KeysAt(rows, root[n]) \subseteq J
    <2> DEFINE I == RowsWith(rows, J)
    <2>1. NearClosed(rows, I) /\ I \in SUBSET D /\ n \in I
      BY <1>9, ClosedAlike DEF RowsWith
    <2>2. \A m \in D : m \in I <=> root[m] \in I
      BY <1>2, <2>1 DEF RootsAreTrue
    <2>3. Of(root[n]) \subseteq I
      BY <2>1, <2>2
    <2> HIDE DEF root, Of
    <2> QED BY <1>5, <2>3 DEF RowsWith
  <1> HIDE DEF root, Of
  <1>10. ASSUME NEW r \in OwnRoots(rows) PROVE KeysAt(rows, r) \in Connected(hits)
    <2> SUFFICES ASSUME NEW J \in SUBSET KeysAt(rows, r), J # {}, ClosedUnderNear(hits, J)
                 PROVE  J = KeysAt(rows, r)
      BY <1>6, <1>7, <1>8 DEF Connected
    <2>1. PICK n \in Of(r) : KeyOf(rows[n]) \in J
      BY <1>5
    <2>2. n \in D /\ root[n] = r
      BY DEF Of
    <2>3. J \in SUBSET KeysIn(hits)
      BY <1>6
    <2> QED BY <1>9, <2>1, <2>2, <2>3
  <1>11. ASSUME NEW K \in Connected(hits) PROVE \E r \in OwnRoots(rows) : K = KeysAt(rows, r)
    <2>1. /\ K \in SUBSET KeysIn(hits) /\ K # {} /\ ClosedUnderNear(hits, K)
          /\ \A J \in SUBSET K : J # {} /\ ClosedUnderNear(hits, J) => J = K
      BY DEF Connected
    <2>2. PICK n \in D : KeyOf(rows[n]) \in K
      BY <1>1, <2>1
    <2>3. KeysAt(rows, root[n]) \subseteq K
      BY <1>9, <2>1, <2>2
    <2>4. root[n] \in OwnRoots(rows) /\ KeysAt(rows, root[n]) # {}
      BY <1>3, <1>7
    <2> QED BY <1>8, <2>1, <2>3, <2>4
  <1>12. ASSUME NEW r \in OwnRoots(rows), NEW q \in OwnRoots(rows),
                KeysAt(rows, r) = KeysAt(rows, q)
         PROVE  r = q
    <2>1. Of(r) = Of(q)
      BY <1>6, <1>12
    <2>2. r \in Of(q)
      BY <1>7, <2>1
    <2>3. root[r] = q
      BY <2>2 DEF Of
    <2>4. root[r] = r
      BY DEF root, OwnRoots
    <2> QED BY <2>3, <2>4
  <1> QED
    BY <1>10, <1>11, <1>12

\* One true row for every connected set.
ListIsTrue(P, list, hits) ==
    /\ list \in Seq(RowsOf(P))
    /\ \A a \in DOMAIN list : ClusterIsTrue(P, list[a], hits, KeysOf(list[a]))
    /\ \A a, b \in DOMAIN list : KeysOf(list[a]) = KeysOf(list[b]) => a = b
    /\ {KeysOf(list[a]) : a \in DOMAIN list} = Connected(hits)

\* Clustering gives such a list.
LEMMA ClusteredFacts ==
  ASSUME NEW P, NEW hits \in Seq(HitsBy(P)), NEW rows, RowsAreTrue(P, rows, hits, Len(hits))
  PROVE  ListIsTrue(P, Clustered(rows), hits)
  <1> DEFINE D == DOMAIN rows
             root == Roots(rows)
             indexes == [n \in D |-> n]
             Of(r) == {n \in D : root[n] = r}
             in(r) == Among(indexes, Of(r))
             cluster(r) == MergeCluster([n \in DOMAIN in(r) |-> rows[in(r)[n]]])
             survivors == Among(indexes, {n \in D : root[n] = n})
             list == Clustered(rows)
  <1>1. list = [n \in DOMAIN survivors |-> cluster(survivors[n])]
    BY DEF Clustered
  <1>2. RowsAgree(P, rows, hits)
    BY DEF RowsAreTrue, RowsAgree
  <1>3. \A r \in OwnRoots(rows) : ClusterIsTrue(P, cluster(r), hits, KeysAt(rows, r))
    <2> TAKE r \in OwnRoots(rows)
    <2> DEFINE members == [n \in DOMAIN in(r) |-> rows[in(r)[n]]]
    <2>1. r \in Of(r) /\ Of(r) \in SUBSET D
      BY DEF OwnRoots
    <2>2. /\ RowsAgree(P, members, hits) /\ members # <<>>
          /\ {KeyOf(m) : m \in ToSet(members)} = KeysAmong(rows, Of(r))
      <3>1. Of(r) # {}
        BY <2>1
      <3>2. members = Selected(rows, Of(r))
        BY DEF Selected
      <3> HIDE DEF Of, members
      <3> QED BY <1>2, <2>1, <3>1, <3>2, SelectedFacts
    <2>3. KeysAmong(rows, Of(r)) = KeysAt(rows, r)
      BY DEF KeysAt
    <2> HIDE DEF members, Of
    <2>4. ClusterIsTrue(P, MergeCluster(members), hits, KeysAt(rows, r))
      <3>1. ClusterIsTrue(P, MergeCluster(members), hits, {KeyOf(m) : m \in ToSet(members)})
        BY <2>2, MergeClusterFacts
      <3> QED BY <2>2, <2>3, <3>1
    <2> QED BY <2>4 DEF members
  <1>4. survivors \in Seq(D) /\ IsInjective(survivors) /\ ToSet(survivors) = OwnRoots(rows)
    <2>1. indexes \in Seq(D) /\ IsInjective(indexes) /\ ToSet(indexes) = D
      <3>1. rows \in Seq(RowsOf(P)) /\ Len(rows) \in Nat /\ D = 1..Len(rows)
        BY <1>2 DEF RowsAgree
      <3>2. indexes \in [1..Len(rows) -> D]
        BY <3>1
      <3>3. DOMAIN indexes = D /\ \A n \in D : indexes[n] = n
        OBVIOUS
      <3> HIDE DEF indexes
      <3> QED BY <3>1, <3>2, <3>3 DEF IsInjective, ToSet
    <2>2. survivors = Among(indexes, OwnRoots(rows)) /\ D \cap OwnRoots(rows) = OwnRoots(rows)
      BY DEF OwnRoots
    <2> HIDE DEF survivors, indexes, D
    <2> QED BY <2>1, <2>2, AmongFacts, AmongInjective
  <1> HIDE DEF survivors, cluster, list
  <1>5. /\ Len(survivors) \in Nat /\ DOMAIN survivors = 1..Len(survivors)
        /\ DOMAIN list = DOMAIN survivors
        /\ \A a \in DOMAIN survivors : list[a] = cluster(survivors[a]) /\ survivors[a] \in OwnRoots(rows)
    BY <1>1, <1>4 DEF ToSet
  <1>6. \A a \in DOMAIN list : ClusterIsTrue(P, list[a], hits, KeysAt(rows, survivors[a]))
    BY <1>3, <1>5
  <1>7. \A a \in DOMAIN list : list[a] \in RowsOf(P) /\ KeysOf(list[a]) = KeysAt(rows, survivors[a])
    BY <1>6 DEF ClusterIsTrue
  <1>8. list \in Seq(RowsOf(P))
    <2>1. list = [a \in 1..Len(survivors) |-> list[a]]
      BY <1>1, <1>5
    <2>2. list \in [1..Len(survivors) -> RowsOf(P)]
      BY <1>5, <1>7, <2>1
    <2> QED BY <1>5, <2>2
  <1>9. \A a, b \in DOMAIN list : KeysOf(list[a]) = KeysOf(list[b]) => a = b
    BY <1>4, <1>5, <1>7, RootsConnect DEF IsInjective
  <1>10. {KeysOf(list[a]) : a \in DOMAIN list} = Connected(hits)
    <2>1. Connected(hits) = {KeysAt(rows, r) : r \in OwnRoots(rows)}
      BY RootsConnect
    <2>2. OwnRoots(rows) = {survivors[a] : a \in DOMAIN survivors}
      BY <1>4 DEF ToSet
    <2> QED BY <1>5, <1>7, <2>1, <2>2
  <1>11. \A a \in DOMAIN list : ClusterIsTrue(P, list[a], hits, KeysOf(list[a]))
    BY <1>6, <1>7
  <1>12. ListIsTrue(P, list, hits)
    BY <1>8, <1>9, <1>10, <1>11 DEF ListIsTrue
  <1> QED
    BY <1>12 DEF list

-----------------------------------------------------------------------------
\* The stable sort permutes the rows.

\* Better orders rows, up to equal merit.
LEMMA BetterOrders ==
  ASSUME NEW P, NEW x \in RowsOf(P), NEW y \in RowsOf(P), NEW z \in RowsOf(P)
  PROVE  /\ ~Better(x, x)
         /\ Better(x, y) => ~Better(y, x)
         /\ ~Better(x, y) /\ ~Better(y, z) => ~Better(x, z)
  <1>1. \A r \in {x, y, z} : r.score \in Nat /\ r.occurrences \in Nat /\ r.bestPos \in Nat
    BY DEF RowsOf
  <1> QED
    BY <1>1 DEF Better

\* Whether the sort puts row m before row n, and how many it puts before n.
Ahead(rows, m, n) == Better(rows[m], rows[n]) \/ (m < n /\ ~Better(rows[n], rows[m]))
Place(rows, n) == Cardinality({m \in DOMAIN rows : Ahead(rows, m, n)})

\* Of any two rows one is before the other.
LEMMA AheadOrders ==
  ASSUME NEW P, NEW rows \in Seq(RowsOf(P)),
         NEW a \in DOMAIN rows, NEW b \in DOMAIN rows, NEW c \in DOMAIN rows
  PROVE  /\ ~Ahead(rows, a, a)
         /\ a # b => Ahead(rows, a, b) \/ Ahead(rows, b, a)
         /\ Ahead(rows, a, b) => ~Better(rows[b], rows[a])
         /\ Ahead(rows, a, b) /\ Ahead(rows, b, c) => Ahead(rows, a, c)
  <1> DEFINE B(m, n) == Better(rows[m], rows[n])
  <1>1. a \in Nat /\ b \in Nat /\ c \in Nat
    OBVIOUS
  <1>2. \A m, n, o \in {a, b, c} :
          ~B(m, m) /\ (B(m, n) => ~B(n, m)) /\ (~B(m, n) /\ ~B(n, o) => ~B(m, o))
    <2> TAKE m, n, o \in {a, b, c}
    <2>1. rows[m] \in RowsOf(P) /\ rows[n] \in RowsOf(P) /\ rows[o] \in RowsOf(P)
      OBVIOUS
    <2> QED BY <2>1, BetterOrders
  <1>3. \A m, n \in {a, b, c} : Ahead(rows, m, n) <=> B(m, n) \/ (m < n /\ ~B(n, m))
    BY DEF Ahead
  <1> HIDE DEF B
  <1>4. Ahead(rows, a, b) /\ Ahead(rows, b, c) => Ahead(rows, a, c)
    <2> SUFFICES ASSUME Ahead(rows, a, b), Ahead(rows, b, c) PROVE Ahead(rows, a, c)
      OBVIOUS
    <2>1. ~B(b, a) /\ ~B(c, b)
      BY <1>2, <1>3
    <2>2. ~B(c, a)
      BY <1>2, <2>1
    <2>3. CASE a < b /\ b < c
      BY <1>1, <1>3, <2>2, <2>3
    <2>4. CASE B(a, b) \/ B(b, c)
      BY <1>2, <1>3, <2>1, <2>4
    <2> QED BY <1>3, <2>3, <2>4
  <1>5. Ahead(rows, a, b) => ~Better(rows[b], rows[a])
    BY <1>2, <1>3 DEF B
  <1> QED
    BY <1>1, <1>2, <1>3, <1>4, <1>5

\* So every row has a place of its own, and they are 0..(Len(rows) - 1).
LEMMA PlaceFacts ==
  ASSUME NEW P, NEW rows \in Seq(RowsOf(P))
  PROVE  /\ \A m, n \in DOMAIN rows : Place(rows, m) = Place(rows, n) => m = n
         /\ \A m, n \in DOMAIN rows : Place(rows, m) < Place(rows, n) => Ahead(rows, m, n)
         /\ \A n \in DOMAIN rows : Place(rows, n) \in 0..(Len(rows) - 1)
         /\ \A k \in 0..(Len(rows) - 1) : \E n \in DOMAIN rows : Place(rows, n) = k
  <1> DEFINE D == DOMAIN rows
             N == Len(rows)
             Before(n) == {m \in D : Ahead(rows, m, n)}
  <1>1. N \in Nat /\ D = 1..N
    OBVIOUS
  <1>2. IsFiniteSet(D) /\ Cardinality(D) = N
    <2> HIDE DEF D, N
    <2>1. IsFiniteSet(1..N) /\ Cardinality(1..N) = IF 1 > N THEN 0 ELSE N - 1 + 1
      BY <1>1, FS_Interval
    <2> QED BY <1>1, <2>1
  <1>3. \A n \in D : Before(n) \in SUBSET D /\ n \notin Before(n)
    BY AheadOrders
  <1>4. \A n : Place(rows, n) = Cardinality(Before(n))
    BY DEF Place
  <1>5. \A a, b \in D : Ahead(rows, a, b) => Before(a) \subseteq Before(b) /\ a \in Before(b)
    BY AheadOrders
  <1>6. \A a, b \in D : a # b => Ahead(rows, a, b) \/ Ahead(rows, b, a)
    BY AheadOrders
  <1> HIDE DEF Before, D, N
  <1>7. \A n \in D : IsFiniteSet(Before(n)) /\ Place(rows, n) \in 0..(N - 1)
    <2> TAKE n \in D
    <2>1. /\ IsFiniteSet(Before(n)) /\ Cardinality(Before(n)) <= Cardinality(D)
          /\ (Cardinality(D) = Cardinality(Before(n)) => D = Before(n))
      BY <1>2, <1>3, FS_Subset
    <2>2. Cardinality(Before(n)) \in Nat /\ Cardinality(Before(n)) # N
      BY <1>2, <1>3, <2>1, FS_CardinalityType
    <2> QED BY <1>1, <1>2, <1>4, <2>1, <2>2
  <1>8. \A a, b \in D : Ahead(rows, a, b) => Place(rows, a) < Place(rows, b)
    <2> SUFFICES ASSUME NEW a \in D, NEW b \in D, Ahead(rows, a, b)
                 PROVE  Place(rows, a) < Place(rows, b)
      OBVIOUS
    <2>1. Before(a) \in SUBSET Before(b) /\ Before(a) # Before(b)
      BY <1>3, <1>5
    <2>2. /\ Cardinality(Before(a)) <= Cardinality(Before(b))
          /\ (Cardinality(Before(b)) = Cardinality(Before(a)) => Before(b) = Before(a))
      BY <1>7, <2>1, FS_Subset
    <2>3. Place(rows, a) \in Nat /\ Place(rows, b) \in Nat
      BY <1>7
    <2> QED BY <1>4, <2>1, <2>2, <2>3
  <1>9. \A a, b \in D : Place(rows, a) \in Int /\ Place(rows, b) \in Int
    BY <1>7
  <1>10. \A a, b \in D : Place(rows, a) = Place(rows, b) => a = b
    BY <1>6, <1>8, <1>9
  <1>11. \A a, b \in D : Place(rows, a) < Place(rows, b) => Ahead(rows, a, b)
    <2> SUFFICES ASSUME NEW a \in D, NEW b \in D, Place(rows, a) < Place(rows, b)
                 PROVE  Ahead(rows, a, b)
      OBVIOUS
    <2>1. a # b /\ ~Ahead(rows, b, a)
      BY <1>8, <1>9
    <2> QED BY <1>6, <2>1
  <1>12. \A k \in 0..(N - 1) : \E n \in D : Place(rows, n) = k
    <2> DEFINE R == 0..(N - 1)
               position == [n \in D |-> Place(rows, n)]
    <2>1. position \in Injection(D, R)
      BY <1>7, <1>10 DEF Injection, IsInjective
    <2>2. IsFiniteSet(R) /\ Cardinality(R) = N
      <3>1. 0 \in Int /\ N - 1 \in Int
        BY <1>1
      <3>2. IsFiniteSet(R) /\ Cardinality(R) = IF 0 > N - 1 THEN 0 ELSE (N - 1) - 0 + 1
        BY <3>1, FS_Interval
      <3> QED BY <1>1, <3>2
    <2>3. position \in Surjection(D, R)
      <3> HIDE DEF position, R
      <3> QED BY <1>2, <2>1, <2>2, FS_Injection
    <2>4. \A k \in R : \E n \in D : position[n] = k
      <3> HIDE DEF position, R
      <3> QED BY <2>3 DEF Surjection
    <2> QED BY <2>4
  <1> QED
    BY <1>7, <1>10, <1>11, <1>12 DEF D, N

\* The list is the rows in another order, none better than one before it.
LEMMA RankedFacts ==
  ASSUME NEW P, NEW rows \in Seq(RowsOf(P))
  PROVE  /\ \E to \in [DOMAIN rows -> DOMAIN rows] :
              /\ \A a, b \in DOMAIN rows : to[a] = to[b] => a = b
              /\ \A n \in DOMAIN rows : \E a \in DOMAIN rows : to[a] = n
              /\ Ranked(rows) = [a \in DOMAIN rows |-> rows[to[a]]]
         /\ \A a, b \in DOMAIN rows : a < b => ~Better(Ranked(rows)[b], Ranked(rows)[a])
  <1> DEFINE D == DOMAIN rows
             N == Len(rows)
             At(k) == CHOOSE n \in D : Place(rows, n) = k - 1
             to == [k \in D |-> At(k)]
  <1>1. N \in Nat /\ D = 1..N
    OBVIOUS
  <1>2. /\ \A m, n \in D : Place(rows, m) = Place(rows, n) => m = n
        /\ \A m, n \in D : Place(rows, m) < Place(rows, n) => Ahead(rows, m, n)
        /\ \A n \in D : Place(rows, n) \in 0..(N - 1)
        /\ \A k \in 0..(N - 1) : \E n \in D : Place(rows, n) = k
    BY PlaceFacts
  <1>3. Ranked(rows) = [k \in D |-> rows[At(k)]]
    BY DEF Ranked, Place, Ahead
  <1>4. \A k \in D : At(k) \in D /\ Place(rows, At(k)) = k - 1
    <2> TAKE k \in D
    <2>1. k - 1 \in 0..(N - 1)
      BY <1>1
    <2>2. \E n \in D : Place(rows, n) = k - 1
      BY <1>2, <2>1
    <2> QED BY <2>2
  <1> HIDE DEF At, D, N
  <1>5. to \in [D -> D] /\ \A k \in D : to[k] \in D /\ Place(rows, to[k]) = k - 1
    BY <1>4
  <1>6. Ranked(rows) = [k \in D |-> rows[to[k]]]
    BY <1>3
  <1> HIDE DEF to
  <1>7. \A a, b \in D : to[a] = to[b] => a = b
    <2> SUFFICES ASSUME NEW a \in D, NEW b \in D, to[a] = to[b] PROVE a = b
      OBVIOUS
    <2>1. a - 1 = b - 1 /\ a \in Int /\ b \in Int
      BY <1>1, <1>5
    <2> QED BY <2>1
  <1>8. \A n \in D : \E a \in D : to[a] = n
    <2> TAKE n \in D
    <2> DEFINE a == Place(rows, n) + 1
    <2>1. Place(rows, n) \in 0..(N - 1)
      BY <1>2
    <2>2. a \in D /\ a - 1 = Place(rows, n)
      BY <1>1, <2>1
    <2> HIDE DEF a
    <2>3. to[a] = n
      BY <1>2, <1>5, <2>2
    <2> QED BY <2>2, <2>3
  <1>9. \A a, b \in D : a < b => ~Better(Ranked(rows)[b], Ranked(rows)[a])
    <2> SUFFICES ASSUME NEW a \in D, NEW b \in D, a < b
                 PROVE  ~Better(Ranked(rows)[b], Ranked(rows)[a])
      OBVIOUS
    <2>1. Place(rows, to[a]) < Place(rows, to[b])
      BY <1>1, <1>5
    <2>2. Ahead(rows, to[a], to[b])
      BY <1>2, <1>5, <2>1
    <2>3. ~Better(rows[to[b]], rows[to[a]])
      BY <1>5, <2>2, AheadOrders DEF D
    <2> QED BY <1>6, <2>3
  <1> QED
    BY <1>5, <1>6, <1>7, <1>8, <1>9 DEF D

\* What is true of the clusters is true of the list.
LEMMA RankedIsTrue ==
  ASSUME NEW P, NEW hits, NEW rows, ListIsTrue(P, rows, hits)
  PROVE  ListIsTrue(P, Ranked(rows), hits)
  <1> DEFINE D == DOMAIN rows
             list == Ranked(rows)
  <1>1. rows \in Seq(RowsOf(P)) /\ Len(rows) \in Nat /\ D = 1..Len(rows)
    BY DEF ListIsTrue
  <1>2. PICK to \in [D -> D] :
          /\ \A a, b \in D : to[a] = to[b] => a = b
          /\ \A n \in D : \E a \in D : to[a] = n
          /\ list = [a \in D |-> rows[to[a]]]
    BY <1>1, RankedFacts
  <1> HIDE DEF list
  <1>3. DOMAIN list = D /\ \A a \in D : list[a] = rows[to[a]] /\ to[a] \in D
    BY <1>2
  <1>4. list \in Seq(RowsOf(P))
    <2>1. list \in [1..Len(rows) -> RowsOf(P)]
      BY <1>1, <1>2
    <2> QED BY <1>1, <2>1
  <1>5. \A a \in D : ClusterIsTrue(P, list[a], hits, KeysOf(list[a]))
    BY <1>3 DEF ListIsTrue
  <1>6. \A a, b \in D : KeysOf(list[a]) = KeysOf(list[b]) => a = b
    BY <1>2, <1>3 DEF ListIsTrue
  <1>7. {KeysOf(list[a]) : a \in D} = Connected(hits)
    <2>1. \A n \in D : \E a \in D : list[a] = rows[n]
      BY <1>2, <1>3
    <2>2. {KeysOf(list[a]) : a \in D} = {KeysOf(rows[n]) : n \in D}
      BY <1>3, <2>1
    <2> QED BY <2>2 DEF ListIsTrue
  <1>8. ListIsTrue(P, list, hits)
    BY <1>3, <1>4, <1>5, <1>6, <1>7 DEF ListIsTrue
  <1> QED
    BY <1>8 DEF list

\* The grids of the providers P are sequences of these.
ArmsOf(P) == [provider : P, lists : Seq({l \in Seq(Url) : Len(l) <= MaxRank})]

\* The hits of a grid, in encounter order.
LEMMA HitsType ==
  ASSUME NEW P, NEW grid \in Seq(ArmsOf(P))
  PROVE  Hits(grid) \in Seq(HitsBy(P))
  <1>1. \A arm \in ArmsOf(P) : HitsOf(arm) \in Seq(HitsBy(P))
    <2> TAKE arm \in ArmsOf(P)
    <2> DEFINE ls == arm.lists
               row(q) == [n \in DOMAIN ls[q] |->
                            [url |-> ls[q][n], rank |-> n, provider |-> arm.provider]]
               s == [q \in DOMAIN ls |-> row(q)]
    <2>1. /\ Len(ls) \in Nat /\ DOMAIN ls = 1..Len(ls) /\ arm.provider \in P
          /\ \A q \in DOMAIN ls : ls[q] \in Seq(Url) /\ Len(ls[q]) <= MaxRank
      BY DEF ArmsOf
    <2>2. \A q \in DOMAIN ls : row(q) \in Seq(HitsBy(P))
      <3> TAKE q \in DOMAIN ls
      <3> DEFINE l == ls[q]
                 r == [n \in DOMAIN l |-> [url |-> l[n], rank |-> n, provider |-> arm.provider]]
      <3>1. l \in Seq(Url) /\ Len(l) \in Nat /\ DOMAIN l = 1..Len(l) /\ Len(l) <= MaxRank
        BY <2>1
      <3>2. MaxRank \in Nat
        BY FusionAssumption DEF FusionAssumption
      <3> HIDE DEF l, ls
      <3>3. \A n \in DOMAIN l : n \in 1..MaxRank /\ l[n] \in Url
        BY <3>1, <3>2
      <3>4. r \in [1..Len(l) -> HitsBy(P)]
        BY <2>1, <3>1, <3>3 DEF HitsBy
      <3>5. r \in Seq(HitsBy(P))
        <4> HIDE DEF r
        <4> QED BY <3>1, <3>4
      <3> QED BY <3>5 DEF l
    <2> HIDE DEF row, ls
    <2>3. s \in [1..Len(ls) -> Seq(HitsBy(P))]
      BY <2>1, <2>2
    <2>4. s \in Seq(Seq(HitsBy(P)))
      <3> HIDE DEF s
      <3> QED BY <2>1, <2>3
    <2>5. HitsOf(arm) = FlattenSeq(s)
      BY DEF HitsOf, row, ls
    <2> HIDE DEF s
    <2> QED BY <2>4, <2>5, FlattenType
  <1> DEFINE s == [a \in DOMAIN grid |-> HitsOf(grid[a])]
  <1>2. Len(grid) \in Nat /\ DOMAIN grid = 1..Len(grid) /\ \A a \in DOMAIN grid : grid[a] \in ArmsOf(P)
    OBVIOUS
  <1>3. s \in [1..Len(grid) -> Seq(HitsBy(P))]
    BY <1>1, <1>2
  <1>4. s \in Seq(Seq(HitsBy(P)))
    <2> HIDE DEF s
    <2> QED BY <1>2, <1>3
  <1>5. Hits(grid) = FlattenSeq(s)
    BY DEF Hits
  <1> HIDE DEF s
  <1> QED
    BY <1>4, <1>5, FlattenType

\* The merged list of a grid accounts for all its hits, whatever the grid.
LEMMA MergeAccounts ==
  ASSUME NEW P, NEW grid \in Seq(ArmsOf(P))
  PROVE  Accounts(mergeResults(grid), grid)
  <1> DEFINE hits == Hits(grid)
             list == mergeResults(grid)
             keys == [a \in DOMAIN list |-> KeysOf(list[a])]
  <1>1. hits \in Seq(HitsBy(P))
    BY HitsType
  <1>2. ListIsTrue(P, list, hits)
    <2>1. RowsAreTrue(P, Tallied(hits), hits, Len(hits))
      BY <1>1, TalliedFacts
    <2>2. ListIsTrue(P, Clustered(Tallied(hits)), hits)
      BY <1>1, <2>1, ClusteredFacts
    <2> QED BY <2>2, RankedIsTrue DEF mergeResults
  <1> HIDE DEF hits, list
  <1>3. list \in Seq(RowsOf(P)) /\ Len(list) \in Nat /\ DOMAIN list = 1..Len(list)
    BY <1>2 DEF ListIsTrue
  <1>4. {KeysOf(list[a]) : a \in DOMAIN list} = Connected(hits)
    BY <1>2 DEF ListIsTrue
  <1>5. Cardinality(Connected(hits)) = Len(list)
    <2>1. keys \in [1..Len(list) -> Connected(hits)] /\ DOMAIN keys = DOMAIN list
          /\ \A a \in DOMAIN list : keys[a] = KeysOf(list[a])
      BY <1>3, <1>4
    <2> HIDE DEF keys
    <2>2. keys \in Seq(Connected(hits)) /\ Len(keys) = Len(list)
      BY <1>3, <2>1
    <2>3. IsInjective(keys)
      BY <1>2, <2>1 DEF IsInjective, ListIsTrue
    <2>4. ToSet(keys) = Connected(hits)
      BY <1>4, <2>1 DEF ToSet
    <2> QED BY <2>2, <2>3, <2>4, InjectiveLength
  <1>6. \A a \in DOMAIN list :
          LET mine == {m \in DOMAIN hits : Canonical[hits[m].url] \in KeysOf(list[a])} IN
          /\ list[a].occurrences = Cardinality(mine)
          /\ ToSet(list[a].mergedFrom) = {hits[m].provider : m \in mine}
          /\ Len(list[a].mergedFrom) = Cardinality(ToSet(list[a].mergedFrom))
    <2> TAKE a \in DOMAIN list
    <2>1. ClusterIsTrue(P, list[a], hits, KeysOf(list[a]))
      BY <1>2 DEF ListIsTrue
    <2>2. list[a].mergedFrom \in Seq(P) /\ IsInjective(list[a].mergedFrom)
      BY <2>1 DEF ClusterIsTrue, RowsOf
    <2>3. Len(list[a].mergedFrom) = Cardinality(ToSet(list[a].mergedFrom))
      BY <2>2, InjectiveLength
    <2> QED BY <2>1, <2>3 DEF ClusterIsTrue, HitsOfKeys
  <1> QED
    BY <1>4, <1>5, <1>6 DEF Accounts, hits, list

\* And no row of it is better than one before it.
LEMMA MergeIsSorted ==
  ASSUME NEW P, NEW grid \in Seq(ArmsOf(P)),
         NEW a \in DOMAIN mergeResults(grid), NEW b \in DOMAIN mergeResults(grid), a < b
  PROVE  ~Better(mergeResults(grid)[b], mergeResults(grid)[a])
  <1> DEFINE hits == Hits(grid)
             rows == Clustered(Tallied(hits))
  <1>1. hits \in Seq(HitsBy(P))
    BY HitsType
  <1>2. rows \in Seq(RowsOf(P))
    <2>1. RowsAreTrue(P, Tallied(hits), hits, Len(hits))
      BY <1>1, TalliedFacts
    <2>2. ListIsTrue(P, rows, hits)
      BY <1>1, <2>1, ClusteredFacts
    <2> QED BY <2>2 DEF ListIsTrue
  <1>3. mergeResults(grid) = Ranked(rows)
    BY DEF mergeResults
  <1> HIDE DEF rows
  <1>4. DOMAIN Ranked(rows) = DOMAIN rows
    BY <1>2, RankedFacts
  <1>5. \A m, n \in DOMAIN rows : m < n => ~Better(Ranked(rows)[n], Ranked(rows)[m])
    BY <1>2, RankedFacts
  <1> QED
    BY <1>3, <1>4, <1>5

-----------------------------------------------------------------------------
\* Science: what is in the cache, and what the journal has of it.

Logged == UNION {e.arms : e \in log}
Covered == Logged \cup unjournaled

Serving == {"hit", "live"}

ScienceTypes ==
    /\ phase \in {"run", "hooks", "done"}
    /\ step \in [Supplier -> {"idle", "look", "call", "backoff", "store", "hit", "live", "failed"}]
    /\ shown \in [status : {"none", "ok", "failed", "aborted", "dead"}, arms : SUBSET Supplier,
                   late : BOOLEAN]
    /\ aborted \in BOOLEAN
    /\ cached \subseteq Supplier

\* Nothing of a walk has served while it runs; the arms of a fan-out are planned.
ServesInOrder ==
    /\ phase = "run" /\ ask.way.mode # "fanout" => \A s \in Supplier : step[s] \notin Serving
    /\ phase # "done" /\ ask.way.mode = "fanout" =>
         \A s \in Supplier : step[s] # "idle" => s \in InPlan

\* At the hooks, the result names exactly the suppliers that served.
AtHooks ==
    phase = "hooks" => /\ shown.status = "ok" /\ ask.journal
                    /\ \A s \in Supplier : step[s] \in Serving <=> s \in shown.arms

\* What came from the cache is still there, and in the journal or owed no entry.
HitsAreCovered ==
    phase # "done" => \A s \in Supplier : step[s] = "hit" => s \in Covered /\ s \in cached

\* And so is what the cache holds, but for what this command has just fetched.
CachedIsCovered ==
    \A s \in cached : s \in Covered \/ (phase # "done" /\ ask.journal /\ step[s] = "live")

\* A result given after the cancel has something fetched in it.
LateIsLive ==
    phase # "run" /\ shown.late => \/ shown.status \in {"aborted", "dead"}
                                 \/ \E s \in shown.arms : step[s] = "live"

\* What a journaled command showed is covered.
ShownIsCovered ==
    phase = "done" /\ shown.status = "ok" /\ ask.journal => shown.arms \subseteq Covered

ScienceInv ==
    /\ ScienceTypes /\ ServesInOrder /\ AtHooks /\ HitsAreCovered /\ CachedIsCovered /\ LateIsLive
    /\ ShownIsCovered

-----------------------------------------------------------------------------
\* The invariant holds before the first command.
LEMMA ScienceInvInit == ScienceInit => ScienceInv
  <1> SUFFICES ASSUME ScienceInit PROVE ScienceInv OBVIOUS
  <1>1. phase = "done" /\ cached = {} /\ shown = NoResult
    BY DEF ScienceInit
  <1>2. ScienceTypes
    BY DEF ScienceInit, ScienceTypes, NoResult
  <1>3. ServesInOrder /\ AtHooks /\ HitsAreCovered /\ CachedIsCovered
    BY <1>1 DEF ServesInOrder, AtHooks, HitsAreCovered, CachedIsCovered
  <1>4. LateIsLive /\ ShownIsCovered
    BY <1>1 DEF LateIsLive, ShownIsCovered, NoResult
  <1> QED
    BY <1>2, <1>3, <1>4 DEF ScienceInv

\* The next command starts with what is left of the cache.
LEMMA StartKeeps == ScienceInv /\ Start => ScienceInv'
  <1> SUFFICES ASSUME ScienceInv, Start PROVE ScienceInv' OBVIOUS
  <1> USE DEF ScienceInv
  <1>1. phase = "done" /\ phase' = "run" /\ aborted' = FALSE /\ shown' = NoResult /\ log' = log
    BY DEF Start
  <1>2. PICK way \in Plans(ask.verb), noCache \in BOOLEAN, journal \in BOOLEAN :
          /\ ask' = [verb |-> ask.verb, way |-> way, noCache |-> noCache, journal |-> journal]
          /\ step' = [s \in Supplier |->
                     IF s \in (IF way.mode = "fanout" THEN ToSet(way.plan) ELSE {Head(way.plan)})
                     THEN "look" ELSE "idle"]
    BY DEF Start
  <1>3. PICK S \in SUBSET cached : cached' = S /\ unjournaled' = unjournaled \cap S
    BY DEF Start
  <1>4. ask'.way = way /\ ask'.journal = journal
    BY <1>2
  <1>5. ScienceTypes'
    BY <1>1, <1>2, <1>3 DEF ScienceTypes, NoResult
  <1>6. ServesInOrder'
    BY <1>1, <1>2, <1>4 DEF ServesInOrder, Serving, InPlan
  <1>7. cached \subseteq Covered
    BY <1>1 DEF CachedIsCovered
  <1>8. CachedIsCovered'
    <2>1. Logged' = Logged
      BY <1>1 DEF Logged
    <2>2. S \cap Covered \subseteq Covered'
      BY <1>3, <2>1 DEF Covered
    <2> QED
      BY <1>3, <1>7, <2>2 DEF CachedIsCovered
  <1>9. AtHooks' /\ HitsAreCovered' /\ LateIsLive' /\ ShownIsCovered'
    BY <1>1, <1>2 DEF AtHooks, HitsAreCovered, LateIsLive, ShownIsCovered
  <1> QED
    BY <1>5, <1>6, <1>8, <1>9

\* A cancel changes nothing else.
LEMMA CancelKeeps == ScienceInv /\ Cancel => ScienceInv'
  BY DEF ScienceInv, Cancel, kept, stores, ScienceTypes, ServesInOrder, AtHooks, HitsAreCovered, CachedIsCovered,
         LateIsLive, ShownIsCovered, Covered, Logged, InPlan

\* An attempt that goes on, or fails, serves nobody.
LEMMA QuietKeeps ==
  ASSUME ScienceInv, NEW s \in Supplier, phase = "run", phase' = phase, ask' = ask, shown' = shown,
         aborted' = aborted, UNCHANGED stores,
         step[s] \notin {"idle", "hit", "live"},
         NEW l \in {"look", "call", "backoff", "store", "failed"}, step' = [step EXCEPT ![s] = l]
  PROVE  ScienceInv'
  <1> USE DEF ScienceInv, ScienceTypes
  <1>1. \A t \in Supplier : /\ step'[t] \in Serving <=> step[t] \in Serving
                            /\ step'[t] = "hit" <=> step[t] = "hit"
                            /\ step'[t] = "live" <=> step[t] = "live"
                            /\ step'[t] # "idle" <=> step[t] # "idle"
    BY DEF Serving
  <1>2. ServesInOrder' /\ AtHooks'
    BY <1>1 DEF ServesInOrder, AtHooks, InPlan
  <1>3. Covered' = Covered /\ cached' = cached
    BY DEF Covered, Logged, stores
  <1>4. HitsAreCovered' /\ CachedIsCovered'
    BY <1>1, <1>3 DEF HitsAreCovered, CachedIsCovered
  <1> QED
    BY <1>2, <1>4, <1>3 DEF LateIsLive, ShownIsCovered

\* An attempt from the cache: what it gives is covered.
LEMMA HitKeeps ==
  ASSUME ScienceInv, NEW s \in Supplier, Hit(s)
  PROVE  ScienceInv'
  <1> USE DEF ScienceInv, ScienceTypes
  <1>1. /\ phase = "run" /\ step[s] = "look" /\ s \in cached
        /\ UNCHANGED <<kept, aborted, stores>>
    BY DEF Hit
  <1>2. CASE aborted
    <2>1. step' = [step EXCEPT ![s] = "failed"] /\ UNCHANGED <<phase, shown>>
      BY <1>1, <1>2 DEF Hit, Fails, StepTo, Stays
    <2> QED
      BY <1>1, <2>1, QuietKeeps DEF kept
  <1>3. CASE ~aborted
    <2>1. step' = [step EXCEPT ![s] = "hit"]
      BY <1>1, <1>3 DEF Hit, StepTo
    <2>2. Covered' = Covered /\ cached' = cached /\ ask' = ask /\ aborted' = aborted
      BY <1>1 DEF Covered, Logged, stores, kept
    <2>3. s \in Covered
      BY <1>1 DEF CachedIsCovered
    <2>4. \A t \in Supplier : step'[t] = "hit" => t \in Covered /\ t \in cached
      BY <1>1, <2>1, <2>3 DEF HitsAreCovered
    <2>5. \A t \in cached : t \in Covered \/ (ask.journal /\ step'[t] = "live")
      BY <1>1, <2>1, <2>3 DEF CachedIsCovered
    <2>6. CASE ask.way.mode = "fanout"
      <3>1. UNCHANGED <<phase, shown>>
        BY <1>3, <2>6 DEF Hit, Stays
      <3>2. ServesInOrder' /\ AtHooks'
        BY <1>1, <2>1, <2>2, <2>6, <3>1 DEF ServesInOrder, AtHooks, InPlan
      <3>3. ScienceTypes' /\ HitsAreCovered' /\ CachedIsCovered' /\ LateIsLive' /\ ShownIsCovered'
        BY <1>1, <2>1, <2>2, <2>4, <2>5, <3>1
           DEF HitsAreCovered, CachedIsCovered, LateIsLive, ShownIsCovered
      <3> QED
        BY <3>2, <3>3
    <2>7. CASE ask.way.mode # "fanout"
      <3>1. /\ shown' = [status |-> "ok", arms |-> {s}, late |-> FALSE]
            /\ phase' = IF ask.journal THEN "hooks" ELSE "done"
        BY <1>3, <2>7 DEF Hit, Serve, End
      <3>2. \A t \in Supplier : step'[t] \in Serving <=> t = s
        BY <1>1, <2>1, <2>7 DEF ServesInOrder, Serving
      <3>3. ScienceTypes' /\ LateIsLive'
        BY <2>1, <2>2, <3>1 DEF LateIsLive
      <3>4. ServesInOrder' /\ AtHooks'
        BY <2>2, <2>7, <3>1, <3>2 DEF ServesInOrder, AtHooks
      <3>5. \A t \in Supplier : step'[t] # "live"
        BY <2>1, <1>1, <2>7 DEF ServesInOrder, Serving
      <3>6. HitsAreCovered' /\ CachedIsCovered'
        BY <2>2, <2>4, <2>5, <3>5 DEF HitsAreCovered, CachedIsCovered
      <3>7. ShownIsCovered'
        BY <2>2, <2>3, <3>1 DEF ShownIsCovered, Covered, Logged
      <3> QED
        BY <3>3, <3>4, <3>6, <3>7
    <2> QED
      BY <2>6, <2>7
  <1> QED
    BY <1>2, <1>3

\* An answer that was fetched goes to the cache; the journal owes it an entry, or
\* the command has opted out.
LEMMA StoreKeeps ==
  ASSUME ScienceInv, NEW s \in Supplier, StoreAnswer(s)
  PROVE  ScienceInv'
  <1> USE DEF ScienceInv, ScienceTypes
  <1>1. /\ phase = "run" /\ step[s] = "store" /\ step' = [step EXCEPT ![s] = "live"]
        /\ ask' = ask /\ aborted' = aborted /\ Logged' = Logged
    BY DEF StoreAnswer, StepTo, kept, Logged
  <1>2. cached' \subseteq cached \cup {s}
    BY DEF StoreAnswer
  <1>3. Covered \ {s} \subseteq Covered'
    BY <1>1 DEF StoreAnswer, Covered
  <1>4. s \in cached' => s \in Covered' \/ ask.journal
    BY <1>1, <1>3 DEF StoreAnswer, Covered, CachedIsCovered
  <1>5. \A t \in Supplier : step'[t] = "hit" => t \in Covered' /\ t \in cached'
    BY <1>1, <1>3 DEF HitsAreCovered, StoreAnswer
  <1>6. \A t \in cached' : t \in Covered' \/ (ask.journal /\ step'[t] = "live")
    BY <1>1, <1>2, <1>3, <1>4 DEF CachedIsCovered
  <1>7. CASE ask.way.mode = "fanout"
    <2>1. UNCHANGED <<phase, shown>>
      BY <1>7 DEF StoreAnswer, Stays
    <2>2. ServesInOrder' /\ AtHooks'
      BY <1>1, <1>7, <2>1 DEF ServesInOrder, AtHooks, InPlan
    <2>3. ScienceTypes' /\ HitsAreCovered' /\ CachedIsCovered' /\ LateIsLive' /\ ShownIsCovered'
      BY <1>1, <1>2, <1>5, <1>6, <2>1
         DEF HitsAreCovered, CachedIsCovered, LateIsLive, ShownIsCovered
    <2> QED
      BY <2>2, <2>3
  <1>8. CASE ask.way.mode # "fanout"
    <2>1. /\ shown' = [status |-> "ok", arms |-> {s}, late |-> aborted]
          /\ phase' = IF ask.journal THEN "hooks" ELSE "done"
      BY <1>8 DEF StoreAnswer, Serve, End
    <2>2. \A t \in Supplier : step'[t] \in Serving <=> t = s
      BY <1>1, <1>8 DEF ServesInOrder, Serving
    <2>3. ScienceTypes' /\ LateIsLive'
      BY <1>1, <1>2, <2>1 DEF LateIsLive
    <2>4. ServesInOrder' /\ AtHooks'
      BY <1>1, <1>8, <2>1, <2>2 DEF ServesInOrder, AtHooks
    <2>5. HitsAreCovered' /\ CachedIsCovered'
      BY <1>1, <1>5, <1>6, <2>1 DEF HitsAreCovered, CachedIsCovered
    <2>6. ShownIsCovered'
      BY <1>1, <2>1 DEF ShownIsCovered
    <2> QED
      BY <2>3, <2>4, <2>5, <2>6
  <1> QED
    BY <1>7, <1>8

\* Whatever a supplier's attempt does.
LEMMA AttemptKeeps ==
  ASSUME ScienceInv, NEW s \in Supplier, Attempt(s)
  PROVE  ScienceInv'
  <1>1. CASE Hit(s)
    BY <1>1, HitKeeps
  <1>2. CASE StoreAnswer(s)
    BY <1>2, StoreKeeps
  <1>3. CASE Miss(s)
    <2>1. /\ phase = "run" /\ step[s] = "look" /\ UNCHANGED <<phase, shown, kept, aborted, stores>>
          /\ \E l \in {"call", "failed"} : step' = [step EXCEPT ![s] = l]
      BY <1>3 DEF Miss, Stays, Fails, StepTo
    <2> QED
      BY <2>1, QuietKeeps DEF kept
  <1>4. CASE Answer(s)
    <2>1. /\ phase = "run" /\ step[s] = "call" /\ UNCHANGED <<phase, shown, kept, aborted, stores>>
          /\ step' = [step EXCEPT ![s] = "store"]
      BY <1>4 DEF Answer, Stays, StepTo
    <2> QED
      BY <2>1, QuietKeeps DEF kept
  <1>5. CASE CallFails(s)
    <2>1. /\ phase = "run" /\ step[s] = "call" /\ UNCHANGED <<phase, shown, kept, aborted, stores>>
          /\ \E l \in {"backoff", "failed"} : step' = [step EXCEPT ![s] = l]
      BY <1>5 DEF CallFails, Stays, Fails, StepTo
    <2> QED
      BY <2>1, QuietKeeps DEF kept
  <1>6. CASE Wake(s)
    <2>1. /\ phase = "run" /\ step[s] = "backoff" /\ UNCHANGED <<phase, shown, kept, aborted, stores>>
          /\ \E l \in {"call", "failed"} : step' = [step EXCEPT ![s] = l]
      BY <1>6 DEF Wake, Stays, Fails, StepTo
    <2> QED
      BY <2>1, QuietKeeps DEF kept
  <1> QED
    BY <1>1, <1>2, <1>3, <1>4, <1>5, <1>6 DEF Attempt

-----------------------------------------------------------------------------
\* The end of a fan-out: what it gives is live in part, or the caller is there.
LEMMA JoinKeeps == ScienceInv /\ Join => ScienceInv'
  <1> SUFFICES ASSUME ScienceInv, Join PROVE ScienceInv' OBVIOUS
  <1> USE DEF ScienceInv, ScienceTypes
  <1>1. phase = "run" /\ ask.way.mode = "fanout" /\ UNCHANGED <<kept, step, aborted, stores>>
    BY DEF Join
  <1>2. Covered' = Covered /\ cached' = cached /\ ask' = ask
    BY <1>1 DEF Covered, Logged, stores, kept
  <1>3. ASSUME NEW status \in {"ok", "failed", "aborted"}, NEW who \in SUBSET Supplier,
               End(status, who),
               status = "ok" => who = Surviving,
               status # "ok" => \A s \in Supplier : step[s] # "live",
               aborted => status = "aborted" \/ \E s \in Supplier : step[s] = "live"
        PROVE  ScienceInv'
    <2>1. /\ shown' = [status |-> status, arms |-> who, late |-> aborted]
          /\ phase' = IF status = "ok" /\ ask.journal THEN "hooks" ELSE "done"
      BY <1>3 DEF End
    <2>2. ScienceTypes' /\ ServesInOrder'
      BY <1>1, <1>2, <2>1 DEF ServesInOrder, InPlan
    <2>3. AtHooks' /\ HitsAreCovered'
      BY <1>1, <1>2, <1>3, <2>1 DEF AtHooks, HitsAreCovered, Surviving, Serving
    <2>4. CachedIsCovered'
      BY <1>1, <1>2, <1>3, <2>1 DEF CachedIsCovered
    <2>5. LateIsLive'
      BY <1>1, <1>2, <1>3, <2>1 DEF LateIsLive, Surviving
    <2>6. ShownIsCovered'
      BY <1>2, <2>1 DEF ShownIsCovered
    <2> QED
      BY <2>2, <2>3, <2>4, <2>5, <2>6
  <1>4. CASE aborted /\ \A s \in Surviving : step[s] = "hit"
    <2>1. End("aborted", {})
      BY <1>4 DEF Join
    <2> QED
      BY <1>3, <1>4, <2>1 DEF Surviving
  <1>5. CASE ~(aborted /\ \A s \in Surviving : step[s] = "hit") /\ Surviving = {}
    <2>1. End("failed", {})
      BY <1>5 DEF Join
    <2>2. \A s \in Supplier : step[s] # "live"
      BY <1>5 DEF Surviving
    <2>3. ~aborted
      BY <1>5
    <2> QED
      BY <1>3, <2>1, <2>2, <2>3
  <1>6. CASE ~(aborted /\ \A s \in Surviving : step[s] = "hit") /\ Surviving # {}
    <2>1. End("ok", Surviving)
      BY <1>6 DEF Join
    <2>2. Surviving \in SUBSET Supplier
      BY DEF Surviving
    <2>3. aborted => \E s \in Supplier : step[s] = "live"
      BY <1>6 DEF Surviving
    <2> QED
      BY <1>3, <2>1, <2>2, <2>3
  <1> QED
    BY <1>4, <1>5, <1>6

\* A walk goes on or ends; nobody has served.
LEMMA WalkOnKeeps == ScienceInv /\ WalkOn => ScienceInv'
  <1> SUFFICES ASSUME ScienceInv, WalkOn PROVE ScienceInv' OBVIOUS
  <1> USE DEF ScienceInv, ScienceTypes
  <1>1. phase = "run" /\ ask.way.mode # "fanout" /\ UNCHANGED <<kept, aborted, stores>>
    BY DEF WalkOn
  <1>2. Covered' = Covered /\ cached' = cached /\ ask' = ask
    BY <1>1 DEF Covered, Logged, stores, kept
  <1>3. \A s \in Supplier : step[s] \notin Serving
    BY <1>1 DEF ServesInOrder
  <1>4. ASSUME NEW status \in {"failed", "aborted"}, End(status, {}), step' = step,
               aborted => status = "aborted"
        PROVE  ScienceInv'
    <2>1. shown' = [status |-> status, arms |-> {}, late |-> aborted] /\ phase' = "done"
      BY <1>4 DEF End
    <2>2. ScienceTypes' /\ ServesInOrder' /\ AtHooks' /\ HitsAreCovered'
      BY <1>1, <1>2, <1>4, <2>1 DEF ServesInOrder, AtHooks, HitsAreCovered
    <2>3. CachedIsCovered'
      BY <1>2, <1>3, <1>4 DEF CachedIsCovered, Serving
    <2>4. LateIsLive' /\ ShownIsCovered'
      BY <1>4, <2>1 DEF LateIsLive, ShownIsCovered
    <2> QED
      BY <2>2, <2>3, <2>4
  <1>5. CASE aborted
    BY <1>4, <1>5 DEF WalkOn
  <1>6. CASE ~aborted /\ (place = Len(ask.way.plan) \/ ask.way.strict)
    BY <1>4, <1>6 DEF WalkOn
  <1>7. CASE ~aborted /\ ~(place = Len(ask.way.plan) \/ ask.way.strict)
    <2>1. step' = [step EXCEPT ![ask.way.plan[place + 1]] = "look"] /\ UNCHANGED <<phase, shown>>
      BY <1>7 DEF WalkOn, StepTo
    <2>2. \A s \in Supplier : step'[s] \notin Serving
      BY <1>3, <2>1 DEF Serving
    <2>3. ScienceTypes' /\ ServesInOrder' /\ AtHooks' /\ HitsAreCovered'
      BY <1>1, <1>2, <2>1, <2>2 DEF ServesInOrder, AtHooks, HitsAreCovered, Serving
    <2>4. CachedIsCovered'
      BY <1>2, <1>3 DEF CachedIsCovered, Serving
    <2>5. LateIsLive' /\ ShownIsCovered'
      BY <1>1, <2>1 DEF LateIsLive, ShownIsCovered
    <2> QED
      BY <2>3, <2>4, <2>5
  <1> QED
    BY <1>5, <1>6, <1>7

\* The journal gets an entry with what was shown, or has had one for all of it.
LEMMA JournalHookKeeps == ScienceInv /\ ScienceHook => ScienceInv'
  <1> SUFFICES ASSUME ScienceInv, ScienceHook PROVE ScienceInv' OBVIOUS
  <1> USE DEF ScienceInv, ScienceTypes
  <1>1. /\ phase = "hooks" /\ phase' = "done"
        /\ UNCHANGED <<ask, step, aborted, shown, cached>>
    BY DEF ScienceHook, kept
  <1>2. shown.status = "ok" /\ ask.journal
        /\ \A s \in Supplier : step[s] \in Serving <=> s \in shown.arms
    BY <1>1 DEF AtHooks
  <1>3. Covered \subseteq Covered' /\ shown.arms \subseteq Covered'
    <2>1. CASE /\ log' = log \cup {[key |-> JournalKey, arms |-> shown.arms]}
               /\ unjournaled \ shown.arms \subseteq unjournaled'
      <3> DEFINE new == [key |-> JournalKey, arms |-> shown.arms]
      <3>1. new.arms = shown.arms /\ log' = log \cup {new}
        BY <2>1
      <3> HIDE DEF new
      <3>2. Logged' = Logged \cup new.arms
        BY <3>1 DEF Logged
      <3> QED
        BY <2>1, <3>1, <3>2 DEF Covered
    <2>2. CASE log' = log /\ unjournaled' = unjournaled /\ FromCache
      <3>1. \A s \in shown.arms : step[s] = "hit"
        <4>1. CASE ask.way.mode = "fanout"
          BY <1>1, <1>2, <2>2, <4>1 DEF FromCache, ServesInOrder, Serving
        <4>2. CASE ask.way.mode # "fanout"
          BY <2>2, <4>2 DEF FromCache
        <4> QED
          BY <4>1, <4>2
      <3>2. shown.arms \subseteq Covered
        BY <1>1, <3>1 DEF HitsAreCovered
      <3>3. Covered' = Covered
        BY <1>1, <2>2 DEF Covered, Logged
      <3> QED
        BY <3>2, <3>3
    <2> QED
      BY <2>1, <2>2 DEF ScienceHook
  <1>4. CachedIsCovered'
    BY <1>1, <1>2, <1>3 DEF CachedIsCovered, Serving
  <1>5. ScienceTypes' /\ ServesInOrder' /\ AtHooks' /\ HitsAreCovered' /\ LateIsLive'
    BY <1>1 DEF ServesInOrder, AtHooks, HitsAreCovered, LateIsLive
  <1>6. ShownIsCovered'
    BY <1>1, <1>3 DEF ShownIsCovered
  <1> QED
    BY <1>4, <1>5, <1>6

\* A clear: the cache is owed no entry any more, nor what was shown before it.
LEMMA ClearKeeps == ScienceInv /\ ClearHistory => ScienceInv'
  <1> SUFFICES ASSUME ScienceInv, ClearHistory PROVE ScienceInv' OBVIOUS
  <1> USE DEF ScienceInv, ScienceTypes
  <1>1. UNCHANGED <<ask, phase, step, aborted, shown, cached>>
    BY DEF ClearHistory, kept
  <1>2. cached \subseteq Covered' /\ (phase = "done" => shown.arms \subseteq Covered')
    BY DEF ClearHistory, Covered
  <1>3. HitsAreCovered' /\ CachedIsCovered' /\ ShownIsCovered'
    BY <1>1, <1>2 DEF HitsAreCovered, CachedIsCovered, ShownIsCovered
  <1>4. ScienceTypes' /\ ServesInOrder' /\ AtHooks' /\ LateIsLive'
    BY <1>1 DEF ServesInOrder, AtHooks, LateIsLive, InPlan
  <1> QED
    BY <1>3, <1>4

\* A death: what was fetched is owed no entry.
LEMMA DieKeeps == ScienceInv /\ Die => ScienceInv'
  <1> SUFFICES ASSUME ScienceInv, Die PROVE ScienceInv' OBVIOUS
  <1> USE DEF ScienceInv, ScienceTypes
  <1>1. /\ phase' = "done" /\ shown' = [shown EXCEPT !.status = "dead"]
        /\ unjournaled' = unjournaled \cup {s \in cached : step[s] = "live"}
        /\ UNCHANGED <<ask, step, aborted, cached, log>>
    BY DEF Die, kept
  <1>2. Covered' = Covered \cup {s \in cached : step[s] = "live"}
    BY <1>1 DEF Covered, Logged
  <1>3. CachedIsCovered'
    BY <1>1, <1>2 DEF CachedIsCovered
  <1>4. ScienceTypes' /\ ServesInOrder' /\ AtHooks' /\ HitsAreCovered'
    BY <1>1 DEF ServesInOrder, AtHooks, HitsAreCovered
  <1>5. LateIsLive' /\ ShownIsCovered'
    BY <1>1 DEF LateIsLive, ShownIsCovered
  <1> QED
    BY <1>3, <1>4, <1>5

-----------------------------------------------------------------------------
\* The invariant holds in every reachable state.
THEOREM ScienceInductive == ScienceSpec => []ScienceInv
  <1>1. ScienceInv /\ [ScienceNext]_scienceVars => ScienceInv'
    <2> SUFFICES ASSUME ScienceInv, [ScienceNext]_scienceVars PROVE ScienceInv' OBVIOUS
    <2>1. CASE UNCHANGED scienceVars
      BY <2>1 DEF ScienceInv, scienceVars, kept, stores, ScienceTypes, ServesInOrder, AtHooks, HitsAreCovered,
             CachedIsCovered, LateIsLive, ShownIsCovered, Covered, Logged, InPlan
    <2>2. CASE ScienceNext
      BY <2>2, StartKeeps, CancelKeeps, JoinKeeps, WalkOnKeeps, JournalHookKeeps, ClearKeeps,
         DieKeeps, AttemptKeeps DEF ScienceNext
    <2> QED
      BY <2>1, <2>2
  <1> QED
    BY <1>1, ScienceInvInit, PTL DEF ScienceSpec

-----------------------------------------------------------------------------
\* Science: whom stderr names.

FailedBefore == {ask.way.plan[n] : n \in 1..(place - 1)}
Owns == {s \in Supplier : why[s] = "own"}

FailureTypes ==
    /\ step \in [Supplier -> {"idle", "look", "call", "backoff", "store", "hit", "live", "failed"}]
    /\ why \in [Supplier -> {"none", "own", "cancel"}]

\* A walk has one attempt under way, that of the supplier it is at.
WalkIsAtPlace ==
    phase = "run" /\ ask.way.mode # "fanout" =>
        /\ ask.way.mode \in {"walk", "get"}
        /\ ask.way.plan \in Seq(Supplier) /\ place \in 1..Len(ask.way.plan)
        /\ \A s \in Supplier : step[s] \notin {"idle", "failed"} => s = ask.way.plan[place]

\* Those before it failed of their own, or the walk would have ended; all are
\* named, but for a pin, which is when another supplier serves.
WalkNames ==
    phase = "run" /\ ask.way.mode # "fanout" =>
        /\ named = IF ask.way.mode = "walk" THEN {ask.way.plan[n] : n \in 2..(place - 1)}
                   ELSE FailedBefore
        /\ IF step[ask.way.plan[place]] = "failed"
           THEN aborted \/ Owns = FailedBefore \cup {ask.way.plan[place]}
           ELSE Owns = FailedBefore

NamedAtEnd ==
    phase # "run" /\ shown.status = "ok" => named = {s \in InPlan : why[s] = "own"}

Discloses == FailureTypes /\ WalkIsAtPlace /\ WalkNames /\ NamedAtEnd

\* A walk's plan has a supplier, and only suppliers.
LEMMA WalksPlanSuppliers ==
  ASSUME NEW verb, NEW way \in Plans(verb), way.mode # "fanout"
  PROVE  way.mode \in {"walk", "get"} /\ way.plan \in Seq(Supplier) /\ way.plan # <<>>
  <1>1. \A S \in SUBSET Supplier : Ordered(S) \in Seq(Supplier) /\ ToSet(Ordered(S)) = S
    <2> SUFFICES ASSUME NEW S \in SUBSET Supplier
                 PROVE  Ordered(S) \in Seq(Supplier) /\ ToSet(Ordered(S)) = S
      OBVIOUS
    <2>1. ArmOrder \in Seq(Supplier) /\ ToSet(ArmOrder) = Supplier
      BY SupplierAssumption
    <2>2. Among(ArmOrder, S) \in Seq(Supplier) /\ ToSet(Among(ArmOrder, S)) = Supplier \cap S
      BY <2>1, AmongFacts
    <2> QED
      BY <2>2 DEF Ordered
  <1>2. ASSUME NEW S \in SUBSET Supplier, S # {} PROVE Ordered(S) # <<>>
    <2>1. ToSet(Ordered(S)) = S
      BY <1>1
    <2>2. ToSet(<<>>) = {}
      BY DEF ToSet
    <2> QED
      BY <1>2, <2>1, <2>2
  <1>3. CASE verb = "get"
    <2>1. PICK S \in (SUBSET Supplier) \ {{}} : way.plan = Ordered(S) /\ way.mode = "get"
      BY <1>3 DEF Plans
    <2> QED
      BY <1>1, <1>2, <2>1
  <1>4. CASE verb # "get"
    <2>1. PICK s \in Supplier, S \in SUBSET Supplier :
            way.mode = "walk" /\ way.plan = PinFirst(s, S)
      BY <1>4 DEF Plans
    <2> DEFINE rest == Ordered(S \ {s})
    <2>2. rest \in Seq(Supplier) /\ PinFirst(s, S) = <<s>> \o rest
      BY <1>1 DEF PinFirst
    <2> HIDE DEF rest
    <2> QED
      BY <2>1, <2>2
  <1> QED
    BY <1>3, <1>4

\* No command has failed yet.
LEMMA DisclosesInit == ScienceInit => Discloses
  BY DEF ScienceInit, Discloses, FailureTypes, WalkIsAtPlace, WalkNames, NamedAtEnd, NoResult

\* A walk starts at the first of its plan.
LEMMA StartDiscloses == Discloses /\ Start => Discloses'
  <1> SUFFICES ASSUME Discloses, Start PROVE Discloses' OBVIOUS
  <1>1. /\ phase' = "run" /\ place' = 1 /\ named' = {}
        /\ why' = [s \in Supplier |-> "none"]
    BY DEF Start
  <1>2. PICK way \in Plans(ask.verb), noCache \in BOOLEAN, journal \in BOOLEAN :
          /\ ask' = [verb |-> ask.verb, way |-> way, noCache |-> noCache, journal |-> journal]
          /\ step' = [s \in Supplier |->
                        IF s \in (IF way.mode = "fanout" THEN ToSet(way.plan) ELSE {Head(way.plan)})
                        THEN "look" ELSE "idle"]
    BY DEF Start
  <1>3. ask'.way = way
    BY <1>2
  <1>4. FailureTypes'
    BY <1>1, <1>2 DEF FailureTypes
  <1>5. ASSUME way.mode # "fanout"
        PROVE  /\ way.mode \in {"walk", "get"}
               /\ way.plan \in Seq(Supplier) /\ Len(way.plan) \in Nat /\ Len(way.plan) >= 1
               /\ way.plan[1] \in Supplier /\ Head(way.plan) = way.plan[1]
    <2>1. way.mode \in {"walk", "get"} /\ way.plan \in Seq(Supplier) /\ way.plan # <<>>
      BY <1>5, WalksPlanSuppliers
    <2> QED
      BY <2>1
  <1>6. WalkIsAtPlace'
    BY <1>1, <1>2, <1>3, <1>5 DEF WalkIsAtPlace
  <1>7. WalkNames'
    BY <1>1, <1>2, <1>3, <1>5 DEF WalkNames, FailedBefore, Owns
  <1>8. NamedAtEnd'
    BY <1>1 DEF NamedAtEnd
  <1> QED
    BY <1>4, <1>6, <1>7, <1>8 DEF Discloses

\* A cancel comes between.
LEMMA CancelDiscloses == Discloses /\ Cancel => Discloses'
  BY DEF Discloses, Cancel, kept, stores, FailureTypes, WalkIsAtPlace, WalkNames, NamedAtEnd,
         FailedBefore, Owns, InPlan

\* An attempt goes on, and the command with it.
LEMMA AttemptGoesOnDiscloses ==
  ASSUME Discloses, NEW s \in Supplier, phase = "run", step[s] \notin {"idle", "failed"},
         Stays, ask' = ask, aborted' = aborted,
         NEW l \in {"call", "backoff", "store", "hit", "live", "failed"}, StepTo(s, l),
         IF l # "failed" THEN why' = why
         ELSE \E how \in {"own", "cancel"} : /\ why' = [why EXCEPT ![s] = how]
                                             /\ how = "cancel" => aborted
  PROVE  Discloses'
  <1> USE DEF Discloses
  <1>1. /\ step' = [step EXCEPT ![s] = l]
        /\ UNCHANGED <<phase, place, named, shown, ask, aborted>>
    BY DEF StepTo, Stays
  <1>2. FailureTypes'
    BY <1>1 DEF FailureTypes
  <1>3. WalkIsAtPlace'
    BY <1>1 DEF WalkIsAtPlace, FailureTypes
  <1>4. NamedAtEnd'
    BY <1>1 DEF NamedAtEnd
  <1>5. ASSUME ask.way.mode # "fanout" PROVE WalkNames'
    <2>1. s = ask.way.plan[place] /\ Owns = FailedBefore /\ FailedBefore' = FailedBefore
      BY <1>1, <1>5 DEF WalkIsAtPlace, WalkNames, FailedBefore
    <2>2. step'[s] = l
      BY <1>1 DEF FailureTypes
    <2>3. CASE l # "failed"
      BY <1>1, <2>1, <2>2, <2>3 DEF WalkNames, Owns
    <2>4. CASE l = "failed"
      <3>1. PICK how \in {"own", "cancel"} : /\ why' = [why EXCEPT ![s] = how]
                                             /\ how = "cancel" => aborted
        BY <2>4
      <3>2. how = "own" => Owns' = Owns \cup {s}
        BY <3>1 DEF Owns, FailureTypes
      <3> QED
        BY <1>1, <2>1, <2>2, <2>4, <3>1, <3>2 DEF WalkNames
    <2> QED
      BY <2>3, <2>4
  <1> QED
    BY <1>1, <1>2, <1>3, <1>4, <1>5 DEF WalkNames

\* The supplier that serves ends its walk, with those before it named.
LEMMA ServeDiscloses ==
  ASSUME Discloses, NEW s \in Supplier, phase = "run", step[s] \notin {"idle", "failed"},
         ask.way.mode # "fanout", Serve(s), ask' = ask, why' = why,
         NEW l \in {"hit", "live"}, StepTo(s, l)
  PROVE  Discloses'
  <1> USE DEF Discloses
  <1>1. /\ s = ask.way.plan[place] /\ place \in 1..Len(ask.way.plan)
        /\ ask.way.plan \in Seq(Supplier)
    BY DEF WalkIsAtPlace
  <1>2. Owns = FailedBefore
    BY <1>1 DEF WalkNames
  <1>3. phase' # "run" /\ place' = place
    BY DEF Serve, End
  <1>4. FailedBefore \subseteq InPlan
    <2>1. \A n \in 1..(place - 1) : n \in 1..Len(ask.way.plan)
      BY <1>1
    <2> QED
      BY <1>1, <2>1 DEF FailedBefore, InPlan, ToSet
  <1>5. named' = FailedBefore
    <2>1. CASE ask.way.mode = "walk" /\ place > 1
      <3>1. named' = {ask.way.plan[n] : n \in 2..(place - 1)} \cup {ask.way.plan[1]}
        BY <2>1 DEF Serve, WalkNames
      <3>2. 1..(place - 1) = (2..(place - 1)) \cup {1}
        BY <1>1, <2>1
      <3> QED
        BY <3>1, <3>2 DEF FailedBefore
    <2>2. CASE ask.way.mode = "walk" /\ ~(place > 1)
      <3>1. 1..(place - 1) = {} /\ 2..(place - 1) = {}
        BY <1>1, <2>2
      <3> QED
        BY <2>2, <3>1 DEF Serve, WalkNames, FailedBefore
    <2>3. CASE ask.way.mode # "walk"
      BY <2>3 DEF Serve, WalkNames
    <2> QED
      BY <2>1, <2>2, <2>3
  <1>6. {t \in InPlan : why[t] = "own"} = Owns
    <2>1. InPlan \subseteq Supplier
      BY <1>1 DEF InPlan, ToSet
    <2> QED
      BY <1>2, <1>4, <2>1 DEF Owns
  <1>7. InPlan' = InPlan
    BY DEF InPlan
  <1>8. FailureTypes'
    BY DEF FailureTypes, StepTo
  <1> QED
    BY <1>2, <1>3, <1>5, <1>6, <1>7, <1>8 DEF WalkIsAtPlace, WalkNames, NamedAtEnd

\* Whatever a supplier's attempt does.
LEMMA AttemptDiscloses ==
  ASSUME Discloses, NEW s \in Supplier, Attempt(s)
  PROVE  Discloses'
  <1>1. phase = "run" /\ step[s] \notin {"idle", "failed"} /\ ask' = ask /\ aborted' = aborted
    BY DEF Attempt, Hit, Miss, Answer, CallFails, Wake, StoreAnswer, kept
  <1>2. CASE Hit(s)
    BY <1>1, <1>2, AttemptGoesOnDiscloses, ServeDiscloses DEF Hit, Fails
  <1>3. CASE Miss(s)
    BY <1>1, <1>3, AttemptGoesOnDiscloses DEF Miss, Fails
  <1>4. CASE Answer(s)
    BY <1>1, <1>4, AttemptGoesOnDiscloses DEF Answer
  <1>5. CASE CallFails(s)
    BY <1>1, <1>5, AttemptGoesOnDiscloses DEF CallFails, Fails
  <1>6. CASE Wake(s)
    BY <1>1, <1>6, AttemptGoesOnDiscloses DEF Wake, Fails
  <1>7. CASE StoreAnswer(s)
    BY <1>1, <1>7, AttemptGoesOnDiscloses, ServeDiscloses DEF StoreAnswer
  <1> QED
    BY <1>2, <1>3, <1>4, <1>5, <1>6, <1>7 DEF Attempt

\* The join of a fan-out names those that failed of their own.
LEMMA JoinDiscloses == Discloses /\ Join => Discloses'
  <1> SUFFICES ASSUME Discloses, Join PROVE Discloses' OBVIOUS
  <1> USE DEF Discloses
  <1>1. UNCHANGED <<ask, step, why>> /\ phase' # "run" /\ InPlan' = InPlan
    BY DEF Join, End, kept, InPlan
  <1>2. shown'.status = "ok" => named' = {s \in InPlan : why[s] = "own"}
    BY DEF Join, End
  <1> QED
    BY <1>1, <1>2 DEF FailureTypes, WalkIsAtPlace, WalkNames, NamedAtEnd

\* A walk that goes on has named whom it leaves behind.
LEMMA WalkOnDiscloses == Discloses /\ WalkOn => Discloses'
  <1> SUFFICES ASSUME Discloses, WalkOn PROVE Discloses' OBVIOUS
  <1> USE DEF Discloses
  <1>1. /\ phase = "run" /\ ask.way.mode # "fanout" /\ UNCHANGED <<ask, why, aborted>>
        /\ step[ask.way.plan[place]] = "failed"
    BY DEF WalkOn, kept
  <1>2. ASSUME NEW status \in {"failed", "aborted"}, End(status, {}), step' = step
        PROVE  Discloses'
    BY <1>1, <1>2 DEF End, FailureTypes, WalkIsAtPlace, WalkNames, NamedAtEnd
  <1>3. CASE aborted
    BY <1>2, <1>3 DEF WalkOn
  <1>4. CASE ~aborted /\ (place = Len(ask.way.plan) \/ ask.way.strict)
    BY <1>2, <1>4 DEF WalkOn
  <1>5. CASE ~aborted /\ ~(place = Len(ask.way.plan) \/ ask.way.strict)
    <2> DEFINE P == ask.way.plan
    <2>1. /\ P \in Seq(Supplier) /\ place \in 1..Len(P) /\ place + 1 \in 1..Len(P)
          /\ ask.way.mode \in {"walk", "get"} /\ P[place + 1] \in Supplier /\ P[place] \in Supplier
      BY <1>1, <1>5 DEF WalkIsAtPlace
    <2>2. /\ step' = [step EXCEPT ![P[place + 1]] = "look"] /\ place' = place + 1
          /\ UNCHANGED <<phase, shown>>
      BY <1>5 DEF WalkOn, StepTo
    <2>3. named' = IF ask.way.mode = "get" \/ place > 1 THEN named \cup {P[place]} ELSE named
      BY <1>5 DEF WalkOn
    <2>4. FailureTypes'
      BY <1>1, <2>2 DEF FailureTypes
    <2>5. \A s \in Supplier : step[s] \in {"idle", "failed"}
      BY <1>1 DEF WalkIsAtPlace
    <2>6. WalkIsAtPlace'
      BY <1>1, <2>1, <2>2, <2>5 DEF WalkIsAtPlace, FailureTypes
    <2>7. FailedBefore' = FailedBefore \cup {P[place]}
      <3>1. 1..((place + 1) - 1) = (1..(place - 1)) \cup {place}
        BY <2>1
      <3> QED
        BY <1>1, <2>2, <3>1 DEF FailedBefore
    <2>8. Owns' = FailedBefore'
      BY <1>1, <1>5, <2>7 DEF WalkNames, Owns
    <2>9. step'[P[place + 1]] = "look"
      BY <2>1, <2>2 DEF FailureTypes
    <2>10. named' = IF ask.way.mode = "walk" THEN {P[n] : n \in 2..((place + 1) - 1)}
                    ELSE FailedBefore'
      <3>1. CASE ask.way.mode = "get"
        BY <1>1, <2>3, <2>7, <3>1 DEF WalkNames
      <3>2. CASE ask.way.mode = "walk" /\ place > 1
        <4>1. 2..((place + 1) - 1) = (2..(place - 1)) \cup {place}
          BY <2>1, <3>2
        <4> QED
          BY <1>1, <2>3, <3>2, <4>1 DEF WalkNames
      <3>3. CASE ask.way.mode = "walk" /\ ~(place > 1)
        <4>1. 2..((place + 1) - 1) = {} /\ 2..(place - 1) = {}
          BY <2>1, <3>3
        <4> QED
          BY <1>1, <2>3, <3>3, <4>1 DEF WalkNames
      <3> QED
        BY <2>1, <3>1, <3>2, <3>3
    <2>11. WalkNames'
      BY <1>1, <2>2, <2>8, <2>9, <2>10 DEF WalkNames
    <2>12. NamedAtEnd'
      BY <1>1, <2>2 DEF NamedAtEnd
    <2> QED
      BY <2>4, <2>6, <2>11, <2>12
  <1> QED
    BY <1>3, <1>4, <1>5

\* The hook and a death name nobody.
LEMMA EndDiscloses == ScienceTypes /\ Discloses /\ (ScienceHook \/ Die) => Discloses'
  <1> SUFFICES ASSUME ScienceTypes, Discloses, ScienceHook \/ Die PROVE Discloses' OBVIOUS
  <1>1. /\ UNCHANGED <<ask, step, why, named>> /\ phase' = "done" /\ InPlan' = InPlan
        /\ phase = "hooks" \/ shown'.status = "dead"
        /\ shown' = shown \/ shown'.status = "dead"
    BY DEF ScienceHook, Die, kept, InPlan, ScienceTypes
  <1> QED
    BY <1>1 DEF Discloses, FailureTypes, WalkIsAtPlace, WalkNames, NamedAtEnd

\* A clear of the history touches no command's names.
LEMMA ClearDiscloses == Discloses /\ ClearHistory => Discloses'
  BY DEF Discloses, ClearHistory, kept, FailureTypes, WalkIsAtPlace, WalkNames, NamedAtEnd,
         FailedBefore, Owns, InPlan

\* Every step keeps who is named.
LEMMA DisclosesKept == ScienceTypes /\ Discloses /\ [ScienceNext]_scienceVars => Discloses'
  <1> SUFFICES ASSUME ScienceTypes, Discloses, [ScienceNext]_scienceVars PROVE Discloses'
    OBVIOUS
  <1>1. CASE UNCHANGED scienceVars
    BY <1>1 DEF Discloses, scienceVars, kept, FailureTypes, WalkIsAtPlace, WalkNames, NamedAtEnd,
           FailedBefore, Owns, InPlan
  <1>2. CASE ScienceNext
    BY <1>2, StartDiscloses, CancelDiscloses, JoinDiscloses, WalkOnDiscloses, EndDiscloses,
       ClearDiscloses, AttemptDiscloses DEF ScienceNext
  <1> QED
    BY <1>1, <1>2

-----------------------------------------------------------------------------
\* Science: the theorems.

\* A cancelled caller of science gets the cancellation, or a result that has
\* something fetched for it (the re-check of handleScience, science.ts:1319).
THEOREM ACancelIsHonouredHolds == ScienceSpec => []ACancelIsHonoured
  <1>1. ScienceInv => ACancelIsHonoured
    BY DEF ScienceInv, LateIsLive, ACancelIsHonoured
  <1> QED
    BY <1>1, ScienceInductive, PTL

\* A science command that succeeds has named on stderr exactly the suppliers
\* that failed of their own (the join and the walks of handleScience).
THEOREM FailuresAreDisclosedHolds == ScienceSpec => []FailuresAreDisclosed
  <1>1. ScienceInv => ScienceTypes
    BY DEF ScienceInv
  <1>2. Discloses => FailuresAreDisclosed
    BY DEF Discloses, NamedAtEnd, FailuresAreDisclosed
  <1> QED
    BY <1>1, <1>2, DisclosesInit, DisclosesKept, ScienceInductive, PTL DEF ScienceSpec

\* A science command tells its caller how it went: a cancelled one that it was
\* cancelled, and one that succeeds who failed.
THEOREM EndsHonestlyHolds == ScienceSpec => []EndsHonestly
  <1>1. ACancelIsHonoured /\ FailuresAreDisclosed => EndsHonestly
    BY DEF EndsHonestly
  <1> QED
    BY <1>1, ACancelIsHonouredHolds, FailuresAreDisclosedHolds, PTL

\* In any sequence of commands and history clears, every work that a journaled
\* science command showed is in a full entry of the journal, a repeat's in those
\* of earlier commands (createScienceJournalHook).  Excepted are cached answers of
\* commands that were not to journal or died, and those cached before a clear,
\* until a full entry takes them up: a marker may then stand for what no entry has.
THEOREM WhatWasShownIsJournaledHolds == ScienceSpec => []WhatWasShownIsJournaled
  <1>1. ScienceInv => WhatWasShownIsJournaled
    BY DEF ScienceInv, ShownIsCovered, WhatWasShownIsJournaled, Covered, Logged
  <1> QED
    BY <1>1, ScienceInductive, PTL

-----------------------------------------------------------------------------
\* Search: what the capture tells the journal hook.

QuestionTypes ==
    /\ mode \in {"single", "fanout"}
    /\ plan \in Seq(Provider) /\ i \in 1..Len(plan)
    /\ asked \in Seq(Query) /\ asked # <<>>

CaptureTypes ==
    /\ pc \in {"dispatch", "await", "hooks", "done"}
    /\ at \in [Key -> {"idle", "look", "invoke", "store", "hit", "live", "failed"}]
    /\ cell \in [Provider -> {"unset", "live", "cache"}]

\* Only what was asked is under way; a fan-out has no stamp before its dispatch.
Fresh ==
    /\ \A k \in Key : at[k] # "idle" => k[2] \in Asked
    /\ mode = "fanout" /\ pc = "dispatch" =>
         /\ \A p \in Provider : cell[p] = "unset"
         /\ \A k \in Key : at[k] = "idle"
    /\ pc \in {"dispatch", "await"} => result.status = "none" /\ entry.kind = "none"
    /\ pc = "hooks" => result.status = "ok" /\ entry.kind = "none"

\* An arm's cell says "cache" only while none of its operations was answered live
\* or failed, but for those that validation refused.
CellIsTrue ==
    mode = "fanout" =>
        \A p \in Provider, q \in Asked : cell[p] = "cache" =>
            \/ at[<<p, q>>] \in {"look", "invoke", "hit"}
            \/ at[<<p, q>>] = "failed" /\ <<p, q>> \in Rejected

\* Without a fan-out, a live answer of the candidate is the capture's origin.
FromIsTrue ==
    mode = "single" /\ pc # "dispatch" =>
        \A q \in Asked : at[<<plan[i], q>>] \in {"store", "live"} => from = "live"

\* No candidate before this one was given up with sub-queries under way.
Alone == mode = "single" /\ (Len(asked) = 1 \/ i = 1)

OthersRest ==
    Alone => \A k \in Key : at[k] \notin {"idle", "failed"} => pc # "dispatch" /\ k[1] = plan[i]

StampIsTrue ==
    Alone /\ pc # "dispatch" /\ (\E q \in Asked : at[<<plan[i], q>>] # "failed") =>
        /\ served = plan[i]
        /\ from = IF \E q \in Asked : at[<<plan[i], q>>] \in {"store", "live"} THEN "live"
                  ELSE "cache"

\* The grid has the arms that served; every planned one has served or is broken.
ResultIsTrue ==
    result.status = "ok" =>
        /\ \A a \in DOMAIN result.grid : result.grid[a].provider \in {p \in Planned : Served(p)}
        /\ mode = "fanout" => \A p \in Planned : Broken(p) \/ Served(p)
        /\ mode = "single" => /\ result.by = plan[i] /\ Served(plan[i])
                              /\ \A a \in DOMAIN result.grid : result.grid[a].provider = plan[i]

EntryIsTrue ==
    entry.kind # "none" => /\ result.status = "ok"
                           /\ entry.served = served /\ entry.from = from
                           /\ entry.kind = "marker" => AllFromCache

SearchInv ==
    /\ QuestionTypes /\ CaptureTypes /\ Fresh
    /\ CellIsTrue /\ FromIsTrue /\ OthersRest /\ StampIsTrue
    /\ ResultIsTrue /\ EntryIsTrue

-----------------------------------------------------------------------------
\* A plan or a list of sub-queries is a sequence, and not empty.
LEMMA OrdersAreSequences ==
  ASSUME NEW S, NEW s \in Orders(S)
  PROVE  s \in Seq(S) /\ s # <<>> /\ 1 \in 1..Len(s)
  <1>1. PICK n \in 1..Cardinality(S) : s \in [1..n -> S]
    BY DEF Orders
  <1>2. n \in Nat /\ n >= 1
    BY <1>1
  <1> QED
    BY <1>1, <1>2

\* Nothing is under way before the dispatch.
LEMMA SearchInvInit == Init => SearchInv
  <1> SUFFICES ASSUME Init PROVE SearchInv OBVIOUS
  <1>1. QuestionTypes
    <2>1. plan \in Orders(Provider) /\ asked \in Orders(Query) /\ i = 1 /\ mode \in {"single", "fanout"}
      BY DEF Init
    <2> QED
      BY <2>1, OrdersAreSequences DEF QuestionTypes
  <1>2. /\ at = [k \in Key |-> "idle"] /\ cell = [p \in Provider |-> "unset"]
        /\ pc = "dispatch" /\ result.status = "none" /\ entry.kind = "none"
    BY DEF Init
  <1>3. CaptureTypes /\ Fresh
    BY <1>2 DEF CaptureTypes, Fresh
  <1>4. CellIsTrue /\ FromIsTrue /\ OthersRest /\ StampIsTrue
    BY <1>2 DEF CellIsTrue, FromIsTrue, OthersRest, StampIsTrue
  <1>5. ResultIsTrue /\ EntryIsTrue
    BY <1>2 DEF ResultIsTrue, EntryIsTrue
  <1> QED
    BY <1>1, <1>3, <1>4, <1>5 DEF SearchInv

\* The last call that validation accepts is one of those made.
LEMMA LastAcceptedIsAccepted ==
  ASSUME NEW ps \in Seq(Provider), asked \in Seq(Query), Len(ps) = 1, Accepted(ps) # {}
  PROVE  LastAccepted(ps)[1] = ps[1]
  <1> DEFINE R(c) == \A d \in Accepted(ps) : d[1] < c[1] \/ (d[1] = c[1] /\ d[2] <= c[2])
             last == CHOOSE c \in Accepted(ps) : R(c)
             P == {n \in 1..Len(asked) : <<1, n>> \in Accepted(ps)}
  <1>1. \A c \in Accepted(ps) : c[1] = 1 /\ c[2] \in P /\ c = <<1, c[2]>>
    BY DEF Accepted, Calls
  <1>2. PICK n \in P : \A m \in P : m <= n
    <2>1. P # {}
      <3> HIDE DEF P
      <3> QED BY <1>1
    <2>2. P \in SUBSET (1..Len(asked)) /\ Len(asked) \in Nat
      OBVIOUS
    <2> HIDE DEF P
    <2> QED
      BY <2>1, <2>2, LastPosition
  <1>3. <<1, n>> \in Accepted(ps) /\ R(<<1, n>>)
    BY <1>1, <1>2
  <1>4. last \in Accepted(ps)
    <2> HIDE DEF R
    <2> QED BY <1>3
  <1> HIDE DEF last
  <1>5. last[1] = 1
    BY <1>1, <1>4
  <1>6. LastAccepted(ps) = <<ps[last[1]], asked[last[2]]>>
    BY DEF LastAccepted, last
  <1> QED
    BY <1>5, <1>6

\* The dispatch stamps what it identifies, and nothing else.
LEMMA DispatchKeeps == SearchInv /\ Dispatch => SearchInv'
  <1> SUFFICES ASSUME SearchInv, Dispatch PROVE SearchInv' OBVIOUS
  <1> USE DEF SearchInv
  <1> DEFINE ps == IF mode = "fanout" THEN plan ELSE <<plan[i]>>
  <1>1. /\ pc = "dispatch" /\ pc' = "await" /\ Identify(ps)
        /\ UNCHANGED <<mode, plan, asked, answer, i, result, entry>>
    BY DEF Dispatch, question
  <1>2. ps \in Seq(Provider) /\ ToSet(ps) \subseteq Provider
    BY DEF QuestionTypes, ToSet
  <1>3. mode = "single" => ps = <<plan[i]>> /\ ToSet(ps) = {plan[i]} /\ plan[i] \in Provider
    BY DEF QuestionTypes, ToSet
  <1> HIDE DEF ps
  <1>4. /\ Asked' = Asked /\ Planned' = Planned /\ Alone' = Alone
        /\ result.status = "none" /\ entry.kind = "none"
    BY <1>1 DEF Asked, Planned, Alone, Fresh
  <1>5. at' = [k \in Key |-> IF k[1] \notin ToSet(ps) \/ k[2] \notin Asked THEN at[k]
                             ELSE IF k \in Rejected THEN "failed" ELSE "look"]
    BY <1>1 DEF Identify, Validate
  <1>6. \A p \in ToSet(ps), q \in Asked :
          <<p, q>> \in Key /\ at'[<<p, q>>] = IF <<p, q>> \in Rejected THEN "failed" ELSE "look"
    <2>1. \A p \in ToSet(ps), q \in Asked : <<p, q>> \in Key
      BY <1>2 DEF Key, Asked, QuestionTypes, ToSet
    <2> QED
      BY <1>5, <2>1
  <1>7. QuestionTypes' /\ Fresh' /\ ResultIsTrue' /\ EntryIsTrue'
    BY <1>1, <1>4, <1>5 DEF QuestionTypes, Fresh, ResultIsTrue, EntryIsTrue
  <1>8. \/ cell' = cell
        \/ cell' = [p \in Provider |->
                      IF /\ mode = "fanout" /\ cell[p] = "unset" /\ p \notin latched
                         /\ \E c \in Accepted(ps) : ps[c[1]] = p
                      THEN "cache" ELSE cell[p]]
    BY <1>1 DEF Identify, StampCells, capture
  <1>9. CaptureTypes'
    BY <1>1, <1>5, <1>8 DEF CaptureTypes
  <1>10. CellIsTrue'
    <2>1. \A c \in Accepted(ps) : ps[c[1]] \in ToSet(ps)
      BY DEF Accepted, Calls, ToSet
    <2>2. mode = "fanout" => \A p \in Provider : cell'[p] = "cache" => p \in ToSet(ps)
      BY <1>1, <1>8, <2>1 DEF Fresh, CaptureTypes
    <2> QED
      BY <1>1, <1>4, <1>6, <2>2 DEF CellIsTrue
  <1>11. FromIsTrue'
    BY <1>1, <1>3, <1>4, <1>6 DEF FromIsTrue
  <1>12. OthersRest'
    BY <1>1, <1>3, <1>4, <1>5 DEF OthersRest, Alone
  <1>13. StampIsTrue'
    <2> SUFFICES ASSUME Alone, \E q \in Asked : at'[<<plan[i], q>>] # "failed"
                 PROVE  served' = plan[i] /\ from' = "cache"
      <3>1. Alone => \A q \in Asked : at'[<<plan[i], q>>] \in {"failed", "look"}
        BY <1>3, <1>6 DEF Alone
      <3> QED
        BY <1>1, <1>4, <3>1 DEF StampIsTrue
    <2>1. mode = "single" /\ Len(ps) = 1 /\ ps[1] = plan[i]
      BY <1>3 DEF Alone
    <2>2. PICK q \in Asked : <<plan[i], q>> \notin Rejected
      BY <1>3, <1>6, <2>1
    <2>3. PICK n \in DOMAIN asked : asked[n] = q
      BY <2>2 DEF Asked, ToSet
    <2>4. <<1, n>> \in Accepted(ps)
      <3>1. 1 \in DOMAIN ps
        BY <1>2, <2>1
      <3> QED
        BY <2>1, <2>2, <2>3, <3>1 DEF Accepted, Calls
    <2>5. served' = LastAccepted(ps)[1] /\ from' = "cache"
      BY <1>1, <2>4 DEF Identify
    <2>6. LastAccepted(ps)[1] = ps[1]
      BY <1>2, <2>1, <2>4, LastAcceptedIsAccepted DEF QuestionTypes
    <2> QED
      BY <2>1, <2>5, <2>6
  <1> QED
    BY <1>7, <1>9, <1>10, <1>11, <1>12, <1>13

-----------------------------------------------------------------------------
\* The operations.  Each of their steps is one of four kinds.
Kinds(k) ==
    \/ /\ at[k] = "look" /\ UNCHANGED capture
       /\ \E l \in {"hit", "invoke"} : at' = [at EXCEPT ![k] = l]
    \/ /\ at[k] = "invoke" /\ at' = [at EXCEPT ![k] = "store"]
       /\ served' = k[1] /\ from' = "live"
       /\ cell' = IF mode = "fanout" THEN [cell EXCEPT ![k[1]] = "live"] ELSE cell
    \/ at[k] = "store" /\ at' = [at EXCEPT ![k] = "live"] /\ UNCHANGED capture
    \/ /\ at[k] = "invoke" /\ at' \in {at, [at EXCEPT ![k] = "failed"]}
       /\ UNCHANGED <<served, from>>
       /\ cell' = IF mode = "fanout" THEN [cell EXCEPT ![k[1]] = "unset"] ELSE cell

\* An operation's step is of these kinds.
LEMMA OperationKinds ==
  ASSUME NEW k \in Key, Operation(k)
  PROVE  /\ Kinds(k) /\ pc # "done"
         /\ UNCHANGED <<mode, plan, asked, answer, pc, i, result, entry>>
  <1>1. CASE Look(k)
    BY <1>1 DEF Look, Goto, Kinds, question, control
  <1>2. CASE Resolve(k)
    BY <1>2 DEF Resolve, Goto, Kinds, question, control
  <1>3. CASE Store(k)
    BY <1>3 DEF Store, Goto, Kinds, question, control
  <1>4. CASE Fail(k)
    BY <1>4 DEF Fail, Goto, Kinds, question, control
  <1> QED
    BY <1>1, <1>2, <1>3, <1>4 DEF Operation

\* An operation that stamps the capture stamps it with what it is.
LEMMA OperationKeeps ==
  ASSUME SearchInv, NEW k \in Key, Operation(k)
  PROVE  SearchInv'
  <1> USE DEF SearchInv
  <1>1. /\ Kinds(k) /\ pc # "done"
        /\ UNCHANGED <<mode, plan, asked, pc, i, result, entry>>
    BY OperationKinds
  <1>2. /\ Asked' = Asked /\ Planned' = Planned /\ Alone' = Alone
    BY <1>1 DEF Asked, Planned, Alone
  <1>3. k = <<k[1], k[2]>> /\ k[1] \in Provider /\ k[2] \in Query
    BY DEF Key
  <1>4. at[k] \in {"look", "invoke", "store"} /\ k[2] \in Asked
    BY <1>1 DEF Kinds, Fresh
  <1>5. \A j \in Key : j # k => at'[j] = at[j]
    BY <1>1 DEF Kinds, CaptureTypes
  <1>6. at'[k] \in {"hit", "invoke", "store", "live", "failed"}
    BY <1>1 DEF Kinds, CaptureTypes
  <1>7. \A p \in Provider, q \in Asked : <<p, q>> \in Key
    BY DEF Key, Asked, QuestionTypes, ToSet
  <1>8. Planned \subseteq Provider /\ plan[i] \in Provider
    BY DEF Planned, QuestionTypes, ToSet
  <1>9. QuestionTypes'
    BY <1>1 DEF QuestionTypes
  <1>10. CaptureTypes'
    BY <1>1, <1>3 DEF CaptureTypes, Kinds, capture
  <1>11. Fresh'
    <2>1. ~(mode = "fanout" /\ pc = "dispatch")
      BY <1>4 DEF Fresh
    <2>2. \A j \in Key : at'[j] # "idle" => j[2] \in Asked
      BY <1>4, <1>5 DEF Fresh
    <2> QED
      BY <1>1, <1>2, <2>1, <2>2 DEF Fresh
  <1>12. CellIsTrue'
    <2> SUFFICES ASSUME mode = "fanout", NEW p \in Provider, NEW q \in Asked, cell'[p] = "cache"
                 PROVE  \/ at'[<<p, q>>] \in {"look", "invoke", "hit"}
                        \/ at'[<<p, q>>] = "failed" /\ <<p, q>> \in Rejected
      BY <1>1, <1>2 DEF CellIsTrue
    <2>1. cell[p] = "cache"
      BY <1>1, <1>3 DEF Kinds, CaptureTypes, capture
    <2>2. \/ at[<<p, q>>] \in {"look", "invoke", "hit"}
          \/ at[<<p, q>>] = "failed" /\ <<p, q>> \in Rejected
      BY <2>1 DEF CellIsTrue
    <2>3. CASE <<p, q>> # k
      BY <1>5, <1>7, <2>2, <2>3
    <2>4. CASE <<p, q>> = k
      <3>1. p = k[1]
        BY <2>4
      <3> QED
        BY <1>1, <1>3, <2>2, <2>4, <3>1 DEF Kinds, CaptureTypes
    <2> QED
      BY <2>3, <2>4
  <1>13. from' \in {from, "live"} /\ (at'[k] = "store" => from' = "live")
    BY <1>1, <1>6 DEF Kinds, capture, CaptureTypes
  <1>14. FromIsTrue'
    <2> SUFFICES ASSUME mode = "single", pc # "dispatch", NEW q \in Asked,
                        at'[<<plan[i], q>>] \in {"store", "live"}
                 PROVE  from' = "live"
      BY <1>1, <1>2 DEF FromIsTrue
    <2>1. CASE <<plan[i], q>> # k
      <3>1. at[<<plan[i], q>>] \in {"store", "live"}
        BY <1>5, <1>7, <1>8, <2>1
      <3> QED
        BY <1>13, <3>1 DEF FromIsTrue
    <2>2. CASE <<plan[i], q>> = k
      <3>1. at'[k] = "live" => at[k] = "store"
        BY <1>1 DEF Kinds, CaptureTypes
      <3> QED
        BY <1>13, <2>2, <3>1 DEF FromIsTrue
    <2> QED
      BY <2>1, <2>2
  <1>15. OthersRest'
    <2>1. \A j \in Key : at'[j] \notin {"idle", "failed"} => at[j] \notin {"idle", "failed"}
      BY <1>4, <1>5
    <2> QED
      BY <1>1, <1>2, <2>1 DEF OthersRest
  <1>16. StampIsTrue'
    <2> SUFFICES ASSUME Alone, pc # "dispatch"
                 PROVE  /\ served' = plan[i]
                        /\ from' = IF \E q \in Asked : at'[<<plan[i], q>>] \in {"store", "live"}
                                   THEN "live" ELSE "cache"
      BY <1>1, <1>2 DEF StampIsTrue
    <2>1. k[1] = plan[i] /\ k = <<plan[i], k[2]>>
      BY <1>3, <1>4 DEF OthersRest
    <2>2. /\ served = plan[i]
          /\ from = IF \E q \in Asked : at[<<plan[i], q>>] \in {"store", "live"}
                    THEN "live" ELSE "cache"
      BY <1>4, <2>1 DEF StampIsTrue
    <2>3. \A q \in Asked : q # k[2] => at'[<<plan[i], q>>] = at[<<plan[i], q>>]
      BY <1>5, <1>7, <1>8, <2>1
    <2>4. CASE at[k] = "invoke" /\ at'[k] = "store"
      <3>1. served' = k[1] /\ from' = "live"
        BY <1>1, <2>4 DEF Kinds, CaptureTypes
      <3> QED
        BY <1>4, <2>1, <2>4, <3>1
    <2>5. CASE ~(at[k] = "invoke" /\ at'[k] = "store")
      <3>1. UNCHANGED <<served, from>>
            /\ (at'[k] \in {"store", "live"} <=> at[k] \in {"store", "live"})
        BY <1>1, <2>5 DEF Kinds, CaptureTypes, capture
      <3>2. (\E q \in Asked : at'[<<plan[i], q>>] \in {"store", "live"})
              <=> (\E q \in Asked : at[<<plan[i], q>>] \in {"store", "live"})
        BY <1>4, <2>1, <2>3, <3>1
      <3> QED
        BY <2>2, <3>1, <3>2
    <2> QED
      BY <2>4, <2>5
  <1>17. \A p \in Provider : /\ Served(p) => Served(p)'
                             /\ Broken(p) => Broken(p)'
    BY <1>2, <1>4, <1>5, <1>7 DEF Served, Broken
  <1>18. ResultIsTrue'
    BY <1>1, <1>2, <1>8, <1>17 DEF ResultIsTrue
  <1>19. EntryIsTrue'
    BY <1>1 DEF EntryIsTrue, Fresh, CaptureTypes
  <1> QED
    BY <1>9, <1>10, <1>11, <1>12, <1>14, <1>15, <1>16, <1>18, <1>19

-----------------------------------------------------------------------------
\* The command.

\* A fan-out ends with the arms that served.
LEMMA JoinArmsKeeps == SearchInv /\ JoinArms => SearchInv'
  <1> SUFFICES ASSUME SearchInv, JoinArms PROVE SearchInv' OBVIOUS
  <1> USE DEF SearchInv
  <1>1. /\ pc = "await" /\ mode = "fanout" /\ pc' \in {"hooks", "done"}
        /\ UNCHANGED <<mode, plan, asked, i, entry, at, capture>>
        /\ \A p \in Planned : Broken(p) \/ Served(p)
    BY DEF JoinArms, Ends, question
  <1>2. /\ Asked' = Asked /\ Planned' = Planned /\ Alone' = Alone /\ entry.kind = "none"
        /\ \A p : Served(p)' = Served(p) /\ Broken(p)' = Broken(p)
    BY <1>1 DEF Asked, Planned, Alone, Fresh, Served, Broken
  <1>3. QuestionTypes' /\ CaptureTypes' /\ CellIsTrue' /\ EntryIsTrue'
    BY <1>1, <1>2 DEF QuestionTypes, CaptureTypes, CellIsTrue, EntryIsTrue, capture
  <1>6. Fresh'
    <2>1. pc' = "hooks" => result'.status = "ok"
      BY DEF JoinArms, Ends
    <2> QED
      BY <1>1, <1>2, <2>1 DEF Fresh, capture
  <1>4. FromIsTrue' /\ OthersRest' /\ StampIsTrue'
    BY <1>1, <1>2 DEF FromIsTrue, OthersRest, StampIsTrue, Alone, capture
  <1>5. ResultIsTrue'
    <2> DEFINE serving == {p \in Planned : Served(p)}
               left == Among(plan, serving)
    <2>1. left \in Seq(Provider) /\ ToSet(left) = Planned \cap serving
      <3> HIDE DEF serving
      <3> QED BY AmongFacts DEF QuestionTypes, Planned
    <2>2. \A a \in DOMAIN left : left[a] \in serving
      <3> HIDE DEF serving, left
      <3> QED BY <2>1 DEF ToSet
    <2>3. result'.status = "ok" => result'.grid = [a \in DOMAIN left |-> ArmOf(left[a])]
      BY DEF JoinArms, Ends
    <2>4. result'.status = "ok" =>
            \A a \in DOMAIN result'.grid : result'.grid[a].provider \in serving
      <3> HIDE DEF serving, left
      <3> QED BY <2>2, <2>3 DEF ArmOf
    <2>5. serving' = serving
      BY <1>2
    <2> QED
      BY <1>1, <1>2, <2>4, <2>5 DEF ResultIsTrue
  <1> QED
    BY <1>3, <1>4, <1>5, <1>6

\* A candidate all of whose sub-queries are served ends the command.
LEMMA CandidateServesKeeps == SearchInv /\ CandidateServes => SearchInv'
  <1> SUFFICES ASSUME SearchInv, CandidateServes PROVE SearchInv' OBVIOUS
  <1> USE DEF SearchInv
  <1>1. /\ pc = "await" /\ mode = "single" /\ pc' = "hooks" /\ Served(plan[i])
        /\ UNCHANGED <<mode, plan, asked, i, entry, at, capture>>
        /\ result' = [status |-> "ok", grid |-> <<ArmOf(plan[i])>>, by |-> plan[i]]
    BY DEF CandidateServes, Ends, question
  <1>2. /\ Asked' = Asked /\ Planned' = Planned /\ Alone' = Alone /\ entry.kind = "none"
        /\ \A p : Served(p)' = Served(p) /\ Broken(p)' = Broken(p)
    BY <1>1 DEF Asked, Planned, Alone, Fresh, Served, Broken
  <1>3. QuestionTypes' /\ CaptureTypes' /\ CellIsTrue' /\ EntryIsTrue'
    BY <1>1, <1>2 DEF QuestionTypes, CaptureTypes, CellIsTrue, EntryIsTrue, capture
  <1>6. Fresh'
    <2>1. result'.status = "ok"
      BY <1>1
    <2> QED
      BY <1>1, <1>2, <2>1 DEF Fresh, capture
  <1>4. FromIsTrue' /\ OthersRest' /\ StampIsTrue'
    BY <1>1, <1>2 DEF FromIsTrue, OthersRest, StampIsTrue, capture
  <1>5. ResultIsTrue'
    <2>1. plan[i] \in Planned
      BY DEF QuestionTypes, Planned, ToSet
    <2>2. \A a \in DOMAIN <<ArmOf(plan[i])>> : <<ArmOf(plan[i])>>[a].provider = plan[i]
      BY DEF ArmOf
    <2> QED
      BY <1>1, <1>2, <2>1, <2>2 DEF ResultIsTrue
  <1> QED
    BY <1>3, <1>4, <1>5, <1>6

\* A candidate that fails hands on to the next one, with what it started under way.
LEMMA CandidateFailsKeeps == SearchInv /\ CandidateFails => SearchInv'
  <1> SUFFICES ASSUME SearchInv, CandidateFails PROVE SearchInv' OBVIOUS
  <1> USE DEF SearchInv
  <1>1. /\ pc = "await" /\ mode = "single"
        /\ UNCHANGED <<mode, plan, asked, entry, at, capture>>
        /\ \E q \in Asked : at[<<plan[i], q>>] = "failed"
    BY DEF CandidateFails, question
  <1>2. /\ Asked' = Asked /\ Planned' = Planned /\ entry.kind = "none" /\ result.status = "none"
    BY <1>1 DEF Asked, Planned, Fresh
  <1>3. CASE i' = i /\ pc' = "done" /\ result'.status = "failed"
    <2>1. QuestionTypes' /\ CaptureTypes' /\ Fresh' /\ CellIsTrue' /\ EntryIsTrue' /\ ResultIsTrue'
      BY <1>1, <1>2, <1>3 DEF QuestionTypes, CaptureTypes, Fresh, CellIsTrue, EntryIsTrue,
         ResultIsTrue, capture
    <2>2. FromIsTrue' /\ OthersRest' /\ StampIsTrue'
      BY <1>1, <1>2, <1>3 DEF FromIsTrue, OthersRest, StampIsTrue, Alone, capture
    <2> QED
      BY <2>1, <2>2
  <1>4. CASE i < Len(plan) /\ i' = i + 1 /\ pc' = "dispatch" /\ UNCHANGED result
    <2>1. QuestionTypes' /\ CaptureTypes' /\ Fresh' /\ CellIsTrue' /\ EntryIsTrue' /\ ResultIsTrue'
      BY <1>1, <1>2, <1>4 DEF QuestionTypes, CaptureTypes, Fresh, CellIsTrue, EntryIsTrue,
         ResultIsTrue, capture
    <2>2. FromIsTrue' /\ StampIsTrue'
      BY <1>4 DEF FromIsTrue, StampIsTrue
    <2>3. OthersRest'
      <3> SUFFICES ASSUME Alone', NEW k \in Key PROVE at[k] \in {"idle", "failed"}
        BY <1>1 DEF OthersRest
      <3>1. Len(asked) = 1 /\ Alone
        BY <1>1, <1>4 DEF Alone, QuestionTypes
      <3>2. \A q \in Asked : q = asked[1]
        BY <3>1 DEF Asked, ToSet, QuestionTypes
      <3>3. at[<<plan[i], asked[1]>>] = "failed"
        BY <1>1, <3>2
      <3>4. k = <<k[1], k[2]>>
        BY DEF Key
      <3>5. at[k] \notin {"idle", "failed"} => k[1] = plan[i] /\ k[2] = asked[1]
        BY <3>1, <3>2 DEF OthersRest, Fresh
      <3> QED
        BY <3>3, <3>4, <3>5
    <2> QED
      BY <2>1, <2>2, <2>3
  <1> QED
    BY <1>3, <1>4 DEF CandidateFails, Ends

\* The hook writes down what the capture says.
LEMMA JournalHookWrites == SearchInv /\ JournalHook => SearchInv'
  <1> SUFFICES ASSUME SearchInv, JournalHook PROVE SearchInv' OBVIOUS
  <1> USE DEF SearchInv
  <1>1. /\ pc = "hooks" /\ pc' = "done"
        /\ UNCHANGED <<mode, plan, asked, i, result, at, capture>>
    BY DEF JournalHook, question
  <1>2. /\ Asked' = Asked /\ Planned' = Planned /\ Alone' = Alone /\ AllFromCache' = AllFromCache
        /\ \A p : Served(p)' = Served(p) /\ Broken(p)' = Broken(p)
    BY <1>1 DEF Asked, Planned, Alone, Served, Broken, AllFromCache, capture
  <1>3. QuestionTypes' /\ CaptureTypes' /\ Fresh' /\ CellIsTrue' /\ ResultIsTrue'
    BY <1>1, <1>2 DEF QuestionTypes, CaptureTypes, Fresh, CellIsTrue, ResultIsTrue, capture
  <1>4. FromIsTrue' /\ OthersRest' /\ StampIsTrue'
    BY <1>1, <1>2 DEF FromIsTrue, OthersRest, StampIsTrue, capture
  <1>5. EntryIsTrue'
    <2>1. result.status = "ok"
      BY <1>1 DEF Fresh
    <2>2. PICK kind \in IF AllFromCache THEN {"marker", "full"} ELSE {"full"} :
            entry' = [kind |-> kind, served |-> served, from |-> from]
      BY DEF JournalHook
    <2>3. entry'.kind = kind /\ entry'.served = served /\ entry'.from = from
      BY <2>2
    <2>4. kind = "marker" => AllFromCache
      BY <2>2
    <2> QED
      BY <1>1, <1>2, <2>1, <2>3, <2>4 DEF EntryIsTrue, capture
  <1> QED
    BY <1>3, <1>4, <1>5

-----------------------------------------------------------------------------
\* Search: the theorems.

\* The invariant holds in every reachable state.
THEOREM SearchInductive == Spec => []SearchInv
  <1>1. SearchInv /\ [Next]_vars => SearchInv'
    <2> SUFFICES ASSUME SearchInv, [Next]_vars PROVE SearchInv' OBVIOUS
    <2>1. CASE UNCHANGED vars
      <3> USE <2>1 DEF SearchInv, vars, question, control, capture, Asked, Planned
      <3>1. QuestionTypes' /\ CaptureTypes' /\ Fresh' /\ CellIsTrue'
        BY DEF QuestionTypes, CaptureTypes, Fresh, CellIsTrue
      <3>2. FromIsTrue' /\ OthersRest' /\ StampIsTrue'
        BY DEF FromIsTrue, OthersRest, StampIsTrue, Alone
      <3>3. ResultIsTrue'
        BY DEF ResultIsTrue, Served, Broken
      <3>4. EntryIsTrue'
        BY DEF EntryIsTrue, AllFromCache
      <3> QED
        BY <3>1, <3>2, <3>3, <3>4
    <2>2. CASE Next
      BY <2>2, DispatchKeeps, JoinArmsKeeps, CandidateServesKeeps, CandidateFailsKeeps,
         JournalHookWrites, OperationKeeps DEF Next, Command
    <2> QED
      BY <2>1, <2>2
  <1> QED
    BY <1>1, SearchInvInit, PTL DEF Spec

\* A search that was served live in part, or lost an arm whose sub-queries were
\* all valid, is never journaled as a repeat (createJournalHook, index.ts:5837).
THEOREM RepeatsAreRepeatsHolds == Spec => []RepeatsAreRepeats
  <1>1. SearchInv => RepeatsAreRepeats
    <2> SUFFICES ASSUME SearchInv, entry.kind = "marker" PROVE
              /\ \A a \in DOMAIN result.grid, q \in Asked :
                   at[<<result.grid[a].provider, q>>] = "hit"
              /\ mode = "fanout" =>
                   \A p \in Planned : Served(p) \/ \E q \in Asked : <<p, q>> \in Rejected
      BY DEF RepeatsAreRepeats
    <2> USE DEF SearchInv
    <2>1. result.status = "ok" /\ AllFromCache /\ pc = "done"
      BY DEF EntryIsTrue, Fresh, CaptureTypes
    <2>2. \A a \in DOMAIN result.grid :
            result.grid[a].provider \in Planned /\ Served(result.grid[a].provider)
      BY <2>1 DEF ResultIsTrue
    <2>3. Planned \subseteq Provider
      BY DEF Planned, QuestionTypes, ToSet
    <2>4. CASE mode = "fanout"
      <3>1. \A p \in Planned : cell[p] = "cache"
        BY <2>1, <2>4 DEF AllFromCache
      <3>2. \A p \in Planned, q \in Asked : at[<<p, q>>] \in {"hit", "live"} => at[<<p, q>>] = "hit"
        BY <2>3, <2>4, <3>1 DEF CellIsTrue
      <3>3. \A p \in Planned, q \in Asked : at[<<p, q>>] = "failed" => <<p, q>> \in Rejected
        BY <2>3, <2>4, <3>1 DEF CellIsTrue
      <3>4. \A p \in Planned : Broken(p) \/ Served(p)
        BY <2>1, <2>4 DEF ResultIsTrue
      <3> QED
        BY <2>2, <3>2, <3>3, <3>4 DEF Served, Broken
    <2>5. CASE mode = "single"
      <3>1. \A a \in DOMAIN result.grid : result.grid[a].provider = plan[i]
        BY <2>1, <2>5 DEF ResultIsTrue
      <3>2. from = "cache"
        BY <2>1, <2>5 DEF AllFromCache
      <3>3. \A q \in Asked : at[<<plan[i], q>>] \notin {"store", "live"}
        BY <2>1, <2>5, <3>2 DEF FromIsTrue
      <3>4. Served(plan[i])
        BY <2>1, <2>5 DEF ResultIsTrue
      <3> QED
        BY <2>5, <3>1, <3>3, <3>4 DEF Served
    <2> QED
      BY <2>4, <2>5 DEF QuestionTypes
  <1> QED
    BY <1>1, SearchInductive, PTL

\* The journal names the provider that served and says truly whether all came
\* from the cache, for any number of candidates that failed before, unless
\* sub-queries of one may still be under way (withCaptureInvoke, index.ts:5442).
THEOREM TheServerIsNamedHolds == Spec => []TheServerIsNamed
  <1>1. SearchInv => TheServerIsNamed
    <2> SUFFICES ASSUME SearchInv, entry.kind # "none", Alone
                 PROVE  /\ entry.served = result.by
                        /\ entry.from = IF \A q \in Asked : at[<<result.by, q>>] = "hit"
                                        THEN "cache" ELSE "live"
      BY DEF TheServerIsNamed, Alone
    <2> USE DEF SearchInv
    <2>1. result.status = "ok" /\ entry.served = served /\ entry.from = from /\ pc = "done"
      BY DEF EntryIsTrue, Fresh, CaptureTypes
    <2>2. result.by = plan[i] /\ Served(plan[i])
      BY <2>1 DEF ResultIsTrue, Alone
    <2>3. \E q \in Asked : at[<<plan[i], q>>] # "failed"
      <3>1. asked[1] \in Asked
        BY DEF Asked, QuestionTypes, ToSet
      <3> QED
        BY <2>2, <3>1 DEF Served
    <2>4. /\ served = plan[i]
          /\ from = IF \E q \in Asked : at[<<plan[i], q>>] \in {"store", "live"} THEN "live"
                    ELSE "cache"
      BY <2>1, <2>3 DEF StampIsTrue
    <2>5. (\E q \in Asked : at[<<plan[i], q>>] \in {"store", "live"})
            <=> ~(\A q \in Asked : at[<<plan[i], q>>] = "hit")
      BY <2>2 DEF Served
    <2> QED
      BY <2>1, <2>2, <2>4, <2>5
  <1> QED
    BY <1>1, SearchInductive, PTL

-----------------------------------------------------------------------------
\* Search: the fused list.

\* The grid has lists of the providers of the plan, none longer than allowed.
GridInv == answer \in Answers /\ result.grid \in Seq(ArmsOf(Provider))

\* An arm has a list for every sub-query.
LEMMA ArmOfType ==
  ASSUME QuestionTypes, answer \in Answers, NEW p \in Provider
  PROVE  ArmOf(p) \in ArmsOf(Provider)
  <1> DEFINE L == {l \in Seq(Url) : Len(l) <= MaxRank}
             lists == [q \in DOMAIN asked |-> answer[p][asked[q]]]
  <1>1. Len(asked) \in Nat /\ DOMAIN asked = 1..Len(asked) /\ \A q \in DOMAIN asked : asked[q] \in Query
    BY DEF QuestionTypes
  <1>2. \A q \in Query : answer[p][q] \in L
    BY ConstantsAssumption DEF ConstantsAssumption
  <1> HIDE DEF L
  <1>3. lists \in [1..Len(asked) -> L]
    BY <1>1, <1>2
  <1>4. lists \in Seq(L)
    <2> HIDE DEF lists
    <2> QED BY <1>1, <1>3
  <1>5. ArmOf(p) = [provider |-> p, lists |-> lists]
    BY DEF ArmOf
  <1> HIDE DEF lists
  <1> QED
    BY <1>4, <1>5 DEF ArmsOf, L

\* Every end of the command makes such a grid.
LEMMA GridInvKept == SearchInv /\ GridInv /\ [Next]_vars => GridInv'
  <1> SUFFICES ASSUME SearchInv, GridInv, [Next]_vars PROVE GridInv' OBVIOUS
  <1>1. QuestionTypes /\ answer \in Answers
    BY DEF SearchInv, GridInv
  <1>2. \A p \in Provider : ArmOf(p) \in ArmsOf(Provider)
    BY <1>1, ArmOfType
  <1>3. <<>> \in Seq(ArmsOf(Provider))
    OBVIOUS
  <1>4. CASE JoinArms
    <2> DEFINE serving == {p \in Planned : Served(p)}
               left == Among(plan, serving)
               grid == [a \in DOMAIN left |-> ArmOf(left[a])]
    <2>1. left \in Seq(Provider)
      <3> HIDE DEF serving
      <3> QED BY <1>1, AmongFacts DEF QuestionTypes
    <2> HIDE DEF left
    <2>2. grid \in [1..Len(left) -> ArmsOf(Provider)] /\ Len(left) \in Nat
      BY <1>2, <2>1
    <2>3. grid \in Seq(ArmsOf(Provider))
      <3> HIDE DEF grid
      <3> QED BY <2>2
    <2>4. result'.grid = grid \/ result'.grid = <<>>
      BY <1>4 DEF JoinArms, Ends, left
    <2>5. answer' = answer
      BY <1>4 DEF JoinArms, question
    <2> HIDE DEF grid
    <2> QED BY <1>1, <1>3, <2>3, <2>4, <2>5 DEF GridInv
  <1>5. CASE CandidateServes
    <2>1. plan[i] \in Provider
      BY <1>1 DEF QuestionTypes
    <2> DEFINE arm == ArmOf(plan[i])
    <2>2. arm \in ArmsOf(Provider) /\ result'.grid = <<arm>> /\ answer' = answer
      BY <1>2, <1>5, <2>1 DEF CandidateServes, Ends, question
    <2> HIDE DEF arm
    <2>3. <<arm>> \in Seq(ArmsOf(Provider))
      BY <2>2
    <2> QED BY <1>1, <2>2, <2>3 DEF GridInv
  <1>6. CASE CandidateFails
    <2>1. answer' = answer /\ (result' = result \/ result'.grid = <<>>)
      BY <1>6 DEF CandidateFails, Ends, question
    <2> QED BY <1>1, <1>3, <2>1 DEF GridInv
  <1>7. CASE Dispatch \/ JournalHook
    BY <1>7 DEF Dispatch, JournalHook, question, GridInv
  <1>8. CASE \E k \in Key : Operation(k)
    BY <1>8 DEF Operation, Look, Resolve, Store, Fail, question, control, GridInv
  <1>9. CASE UNCHANGED vars
    BY <1>9 DEF vars, question, control, GridInv
  <1> QED
    BY <1>4, <1>5, <1>6, <1>7, <1>8, <1>9 DEF Next, Command

\* The fused list of a search has one row for each chain of near-duplicates among
\* what its providers gave, with the number of its hits and their providers, for
\* any answers, spellings and titles (mergeResults, commands/search.ts:422).
THEOREM ListAccountsForTheGridHolds == Spec => []ListAccountsForTheGrid
  <1>1. Init => GridInv
    BY DEF Init, GridInv
  <1>2. Spec => []GridInv
    BY <1>1, GridInvKept, SearchInductive, PTL DEF Spec
  <1>3. GridInv => ListAccountsForTheGrid
    BY MergeAccounts DEF GridInv, ListAccountsForTheGrid
  <1> QED
    BY <1>2, <1>3, PTL

=============================================================================
