--------------------------- MODULE SubtreeDiffProofs ---------------------------
(***************************************************************************)
(* What a diff of a subtree says, for every tree, ceiling and edit script. *)
(***************************************************************************)
EXTENDS SubtreeDiff, SubtreeWalkProofs, FunctionTheorems

-----------------------------------------------------------------------------
(* Selections *)

Selects(h, s, I) ==
  h = [n \in 0..Len(s) |->
         IF n = 0 THEN <<>> ELSE IF n \in I THEN Append(h[n - 1], s[n]) ELSE h[n - 1]]

LEMMA SelectionExists ==
  ASSUME NEW s, Len(s) \in Nat, NEW I
  PROVE  \E h : Selects(h, s, I) /\ Selected(s, I) = h[Len(s)]
<1> DEFINE Builds(h, m) ==
             h = [n \in 0..m |->
                    IF n = 0 THEN <<>> ELSE IF n \in I THEN Append(h[n - 1], s[n]) ELSE h[n - 1]]
           Bad == {m \in Nat : ~\E h : Builds(h, m)}
<1>1. Bad = {}
  <2> SUFFICES ASSUME Bad # {} PROVE FALSE
    OBVIOUS
  <2>1. PICK m \in Bad : \A k \in Bad : m <= k
    BY LeastOf
  <2>2. CASE m = 0
    <3>1. Builds([n \in 0..0 |-> <<>>], 0)
      OBVIOUS
    <3> QED BY <2>2, <3>1
  <2>3. CASE m # 0
    <3>1. m \in Nat /\ m - 1 \in Nat /\ m - 1 \notin Bad
      <4>1. m \in Nat /\ m - 1 \in Nat /\ ~(m <= m - 1)
        BY <2>1, <2>3
      <4> HIDE DEF Bad
      <4> QED BY <2>1, <4>1
    <3>2. PICK g : Builds(g, m - 1)
      BY <3>1
    <3> DEFINE h == [n \in 0..m |->
                       IF n = 0 THEN <<>>
                       ELSE IF n \in I THEN Append(g[n - 1], s[n]) ELSE g[n - 1]]
    <3>3. \A n \in 0..(m - 1) : h[n] = g[n]
      <4> TAKE n \in 0..(m - 1)
      <4>1. g[n] = IF n = 0 THEN <<>> ELSE IF n \in I THEN Append(g[n - 1], s[n]) ELSE g[n - 1]
        BY <3>2
      <4>2. n \in 0..m
        BY <3>1
      <4> QED BY <4>1, <4>2
    <3>4. Builds(h, m)
      <4> HIDE DEF h
      <4>1. h = [n \in 0..m |->
                       IF n = 0 THEN <<>>
                       ELSE IF n \in I THEN Append(g[n - 1], s[n]) ELSE g[n - 1]]
        BY DEF h
      <4>2. \A n \in 0..m : n # 0 => h[n - 1] = g[n - 1]
        BY <3>1, <3>3
      <4> QED BY <4>1, <4>2
    <3> QED BY <2>1, <3>4
  <2> QED BY <2>2, <2>3
<1>2. \E h : Selects(h, s, I)
  BY <1>1 DEF Selects
<1> DEFINE g == CHOOSE h : Selects(h, s, I)
<1>3. Selects(g, s, I)
  BY <1>2
<1>4. Selected(s, I) = g[Len(s)]
  BY DEF Selected, Selects
<1> QED BY <1>3, <1>4

LEMMA SelectedOfNone ==
  ASSUME NEW I
  PROVE  Selected(<<>>, I) = <<>>
<1>1. PICK h : Selects(h, <<>>, I) /\ Selected(<<>>, I) = h[Len(<<>>)]
  BY SelectionExists, EmptySeq
<1> QED BY <1>1 DEF Selects

LEMMA SelectedStep ==
  ASSUME NEW S, NEW s \in Seq(S), NEW x \in S, NEW I, NEW J,
         I \cap (1..Len(s)) = J \cap (1..Len(s))
  PROVE  Selected(Append(s, x), J) =
           IF Len(s) + 1 \in J THEN Append(Selected(s, I), x) ELSE Selected(s, I)
<1> DEFINE t == Append(s, x)
<1>1. /\ t \in Seq(S) /\ Len(s) \in Nat /\ Len(t) = Len(s) + 1
      /\ \A i \in 1..Len(s) : t[i] = s[i]
      /\ t[Len(s) + 1] = x
  BY AppendProperties, LenProperties
<1> HIDE DEF t
<1>2. PICK h : Selects(h, s, I) /\ Selected(s, I) = h[Len(s)]
  BY <1>1, SelectionExists
<1>3. PICK g : Selects(g, t, J) /\ Selected(t, J) = g[Len(t)]
  BY <1>1, SelectionExists
<1> DEFINE Bad == {n \in 0..Len(s) : h[n] # g[n]}
<1>4. Bad = {}
  <2> SUFFICES ASSUME Bad # {} PROVE FALSE
    OBVIOUS
  <2>1. Bad \in SUBSET Nat
    BY <1>1
  <2>2. PICK n \in Bad : \A k \in Bad : n <= k
    BY <2>1, LeastOf
  <2>3. n # 0
    BY <1>1, <1>2, <1>3 DEF Selects
  <2>4. n \in 0..Len(s) /\ n \in 1..Len(s) /\ n - 1 \in 0..Len(s) /\ n - 1 \notin Bad
    BY <1>1, <2>2, <2>3
  <2>5. h[n] = IF n \in I THEN Append(h[n - 1], s[n]) ELSE h[n - 1]
    BY <1>2, <2>3, <2>4 DEF Selects
  <2>6. g[n] = IF n \in J THEN Append(g[n - 1], t[n]) ELSE g[n - 1]
    <3>1. n \in 0..Len(t)
      BY <1>1, <2>4
    <3> QED BY <1>3, <2>3, <3>1 DEF Selects
  <2> QED BY <1>1, <2>2, <2>4, <2>5, <2>6
<1>5. h[Len(s)] = g[Len(s)]
  BY <1>1, <1>4
<1>6. g[Len(s) + 1] = IF Len(s) + 1 \in J THEN Append(g[Len(s)], x) ELSE g[Len(s)]
  <2>1. Len(s) + 1 \in 0..Len(t) /\ Len(s) + 1 # 0 /\ (Len(s) + 1) - 1 = Len(s)
    BY <1>1
  <2> QED BY <1>1, <1>3, <2>1 DEF Selects
<1> QED BY <1>1, <1>2, <1>3, <1>5, <1>6 DEF t

LEMMA SelectedType ==
  ASSUME NEW S, NEW s \in Seq(S), NEW I, NEW T, \A i \in 1..Len(s) : i \in I => s[i] \in T
  PROVE  Selected(s, I) \in Seq(T)
<1>1. Len(s) \in Nat
  OBVIOUS
<1>2. PICK h : Selects(h, s, I) /\ Selected(s, I) = h[Len(s)]
  BY <1>1, SelectionExists
<1> DEFINE Bad == {n \in 0..Len(s) : h[n] \notin Seq(T)}
<1>3. Bad = {}
  <2> SUFFICES ASSUME Bad # {} PROVE FALSE
    OBVIOUS
  <2>1. Bad \in SUBSET Nat
    BY <1>1
  <2>2. PICK n \in Bad : \A k \in Bad : n <= k
    BY <2>1, LeastOf
  <2>3. n # 0
    BY <1>1, <1>2 DEF Selects
  <2>4. n \in 0..Len(s) /\ n \in 1..Len(s) /\ n - 1 \in 0..Len(s) /\ n - 1 \notin Bad
    BY <1>1, <2>2, <2>3
  <2>5. h[n] = IF n \in I THEN Append(h[n - 1], s[n]) ELSE h[n - 1]
    BY <1>2, <2>3, <2>4 DEF Selects
  <2>6. h[n - 1] \in Seq(T) /\ (n \in I => s[n] \in T)
    BY <2>4
  <2>7. h[n] \in Seq(T)
    BY <2>5, <2>6, AppendProperties
  <2> QED BY <2>2, <2>7
<1> QED BY <1>1, <1>2, <1>3

-----------------------------------------------------------------------------
(* Concatenations *)

Flattens(h, ss) ==
  h = [i \in 1..Len(ss) |-> IF i = 1 THEN ss[i] ELSE h[i - 1] \o ss[i]]

LEMMA FlatteningExists ==
  ASSUME NEW ss, Len(ss) \in Nat, Len(ss) # 0
  PROVE  \E h : Flattens(h, ss) /\ FlattenSeq(ss) = h[Len(ss)]
<1> DEFINE Builds(h, m) ==
             h = [i \in 1..m |-> IF i = 1 THEN ss[i] ELSE h[i - 1] \o ss[i]]
           Bad == {m \in Nat \ {0} : ~\E h : Builds(h, m)}
<1>1. Bad = {}
  <2> SUFFICES ASSUME Bad # {} PROVE FALSE
    OBVIOUS
  <2>1. PICK m \in Bad : \A k \in Bad : m <= k
    BY LeastOf
  <2>2. CASE m = 1
    <3>1. Builds([i \in 1..1 |-> ss[i]], 1)
      OBVIOUS
    <3> QED BY <2>2, <3>1
  <2>3. CASE m # 1
    <3>1. m \in Nat /\ m - 1 \in Nat \ {0} /\ m - 1 \notin Bad
      <4>1. m \in Nat /\ m - 1 \in Nat \ {0} /\ ~(m <= m - 1)
        BY <2>1, <2>3
      <4> HIDE DEF Bad
      <4> QED BY <2>1, <4>1
    <3>2. PICK g : Builds(g, m - 1)
      BY <3>1
    <3> DEFINE h == [i \in 1..m |-> IF i = 1 THEN ss[i] ELSE g[i - 1] \o ss[i]]
    <3>3. \A i \in 1..(m - 1) : h[i] = g[i]
      <4> TAKE i \in 1..(m - 1)
      <4>1. g[i] = IF i = 1 THEN ss[i] ELSE g[i - 1] \o ss[i]
        BY <3>2
      <4>2. i \in 1..m
        BY <3>1
      <4> QED BY <4>1, <4>2
    <3>4. Builds(h, m)
      <4> HIDE DEF h
      <4>1. h = [i \in 1..m |-> IF i = 1 THEN ss[i] ELSE g[i - 1] \o ss[i]]
        BY DEF h
      <4>2. \A i \in 1..m : i # 1 => h[i - 1] = g[i - 1]
        BY <3>1, <3>3
      <4> QED BY <4>1, <4>2
    <3> QED BY <2>1, <3>4
  <2> QED BY <2>2, <2>3
<1>2. \E h : Flattens(h, ss)
  BY <1>1 DEF Flattens
<1> DEFINE g == CHOOSE h : Flattens(h, ss)
<1>3. Flattens(g, ss)
  BY <1>2
<1>4. FlattenSeq(ss) = g[Len(ss)]
  BY DEF FlattenSeq, Flattens
<1> QED BY <1>3, <1>4

LEMMA FlattenOfNone ==
  FlattenSeq(<<>>) = <<>>
BY DEF FlattenSeq

LEMMA FlattenStep ==
  ASSUME NEW S, NEW ss \in Seq(Seq(S)), NEW s \in Seq(S)
  PROVE  FlattenSeq(Append(ss, s)) = FlattenSeq(ss) \o s
<1> DEFINE tt == Append(ss, s)
<1>1. /\ tt \in Seq(Seq(S)) /\ Len(ss) \in Nat /\ Len(tt) = Len(ss) + 1
      /\ \A i \in 1..Len(ss) : tt[i] = ss[i]
      /\ tt[Len(ss) + 1] = s
  BY AppendProperties, LenProperties
<1> HIDE DEF tt
<1>2. PICK g : Flattens(g, tt) /\ FlattenSeq(tt) = g[Len(tt)]
  BY <1>1, FlatteningExists
<1>3. CASE Len(ss) = 0
  <2>1. ss = <<>>
    BY <1>3
  <2>2. FlattenSeq(tt) = s
    BY <1>1, <1>2, <1>3 DEF Flattens
  <2> QED BY <2>1, <2>2, FlattenOfNone, ConcatEmptySeq DEF tt
<1>4. CASE Len(ss) # 0
  <2>1. PICK h : Flattens(h, ss) /\ FlattenSeq(ss) = h[Len(ss)]
    BY <1>1, <1>4, FlatteningExists
  <2> DEFINE Bad == {n \in 1..Len(ss) : h[n] # g[n]}
  <2>2. Bad = {}
    <3> SUFFICES ASSUME Bad # {} PROVE FALSE
      OBVIOUS
    <3>1. Bad \in SUBSET Nat
      BY <1>1
    <3>2. PICK n \in Bad : \A k \in Bad : n <= k
      BY <3>1, LeastOf
    <3>3. n \in 1..Len(ss) /\ n \in 1..Len(tt)
      BY <1>1, <3>2
    <3>4. h[n] = IF n = 1 THEN ss[n] ELSE h[n - 1] \o ss[n]
      BY <2>1, <3>3 DEF Flattens
    <3>5. g[n] = IF n = 1 THEN tt[n] ELSE g[n - 1] \o tt[n]
      BY <1>2, <3>3 DEF Flattens
    <3>6. n # 1 /\ n - 1 \in 1..Len(ss)
      BY <1>1, <3>2, <3>3, <3>4, <3>5
    <3>7. n - 1 \notin Bad
      <4>1. ~(n <= n - 1)
        BY <3>3
      <4> HIDE DEF Bad
      <4> QED BY <3>2, <4>1
    <3> QED BY <1>1, <3>2, <3>3, <3>4, <3>5, <3>6, <3>7
  <2>3. h[Len(ss)] = g[Len(ss)]
    <3>1. Len(ss) \in 1..Len(ss)
      BY <1>1, <1>4
    <3> QED BY <2>2, <3>1
  <2>4. g[Len(ss) + 1] = g[Len(ss)] \o s
    <3>1. Len(ss) + 1 \in 1..Len(tt) /\ Len(ss) + 1 # 1 /\ (Len(ss) + 1) - 1 = Len(ss)
      BY <1>1, <1>4
    <3> QED BY <1>1, <1>2, <3>1 DEF Flattens
  <2> QED BY <1>1, <1>2, <2>1, <2>3, <2>4 DEF tt
<1> QED BY <1>3, <1>4

LEMMA FlattenType ==
  ASSUME NEW S, NEW ss \in Seq(Seq(S))
  PROVE  FlattenSeq(ss) \in Seq(S)
<1>1. CASE Len(ss) = 0
  <2>1. ss = <<>>
    BY <1>1
  <2> QED BY <2>1, FlattenOfNone, EmptySeq
<1>2. CASE Len(ss) # 0
  <2>1. Len(ss) \in Nat
    OBVIOUS
  <2>2. PICK h : Flattens(h, ss) /\ FlattenSeq(ss) = h[Len(ss)]
    BY <1>2, <2>1, FlatteningExists
  <2> DEFINE Bad == {n \in 1..Len(ss) : h[n] \notin Seq(S)}
  <2>3. Bad = {}
    <3> SUFFICES ASSUME Bad # {} PROVE FALSE
      OBVIOUS
    <3>1. Bad \in SUBSET Nat
      BY <2>1
    <3>2. PICK n \in Bad : \A k \in Bad : n <= k
      BY <3>1, LeastOf
    <3>3. n \in 1..Len(ss) /\ n \in Nat /\ ss[n] \in Seq(S)
      BY <3>2, <2>1, ElementOfSeq
    <3>4. h[n] = IF n = 1 THEN ss[n] ELSE h[n - 1] \o ss[n]
      BY <2>2, <3>3 DEF Flattens
    <3>5. n # 1 /\ n - 1 \in 1..Len(ss)
      BY <2>1, <3>2, <3>3, <3>4
    <3>6. n - 1 \notin Bad
      <4>1. ~(n <= n - 1)
        BY <3>3
      <4> HIDE DEF Bad
      <4> QED BY <3>2, <4>1
    <3>7. h[n - 1] \in Seq(S)
      BY <3>5, <3>6
    <3>8. h[n] \in Seq(S)
      BY <3>3, <3>4, <3>7, ConcatProperties
    <3> QED BY <3>2, <3>8
  <2>4. Len(ss) \in 1..Len(ss)
    BY <1>2, <2>1
  <2> QED BY <2>2, <2>3, <2>4
<1> QED BY <1>1, <1>2

-----------------------------------------------------------------------------
(* Orders *)

Orders(R, S) ==
  /\ \A x \in S : <<x, x>> \notin R
  /\ \A x, y, z \in S : <<x, y>> \in R /\ <<y, z>> \in R => <<x, z>> \in R
  /\ \A x, y \in S : x = y \/ <<x, y>> \in R \/ <<y, x>> \in R

Below(R, S, x) == {y \in S : <<y, x>> \in R}
Rank(R, S, x) == Cardinality(Below(R, S, x))

LEMMA RankGrows ==
  ASSUME NEW S, IsFiniteSet(S), NEW R, Orders(R, S), NEW x \in S, NEW y \in S,
         <<x, y>> \in R
  PROVE  Rank(R, S, x) < Rank(R, S, y)
<1>1. IsFiniteSet(Below(R, S, x)) /\ IsFiniteSet(Below(R, S, y))
  BY FS_Subset DEF Below
<1>2. x \notin Below(R, S, x) /\ x \in Below(R, S, y)
  BY DEF Below, Orders
<1>3. Below(R, S, x) \subseteq Below(R, S, y)
  BY DEF Below, Orders
<1>4. /\ Rank(R, S, x) <= Rank(R, S, y) /\ Rank(R, S, x) \in Nat /\ Rank(R, S, y) \in Nat
      /\ Rank(R, S, x) # Rank(R, S, y)
  BY <1>1, <1>2, <1>3, FS_Subset, FS_CardinalityType DEF Rank
<1> QED BY <1>4

LEMMA RankBounds ==
  ASSUME NEW S, IsFiniteSet(S), NEW R, Orders(R, S), NEW x \in S
  PROVE  /\ Rank(R, S, x) \in Nat /\ Cardinality(S) \in Nat
         /\ Rank(R, S, x) < Cardinality(S)
<1>1. Below(R, S, x) \in SUBSET S /\ x \notin Below(R, S, x)
  BY DEF Below, Orders
<1>2. /\ IsFiniteSet(Below(R, S, x)) /\ Rank(R, S, x) <= Cardinality(S)
      /\ Rank(R, S, x) # Cardinality(S)
  BY <1>1, FS_Subset DEF Rank
<1>3. Rank(R, S, x) \in Nat /\ Cardinality(S) \in Nat
  BY <1>2, FS_CardinalityType DEF Rank
<1> QED BY <1>2, <1>3

LEMMA RanksDiffer ==
  ASSUME NEW S, IsFiniteSet(S), NEW R, Orders(R, S), NEW x \in S, NEW y \in S,
         Rank(R, S, x) = Rank(R, S, y)
  PROVE  x = y
<1>1. Rank(R, S, x) \in Nat /\ Rank(R, S, y) \in Nat
  BY RankBounds
<1>2. <<x, y>> \notin R
  BY <1>1, RankGrows
<1>3. <<y, x>> \notin R
  BY <1>1, RankGrows
<1> QED BY <1>2, <1>3 DEF Orders

\* Every place below the number of elements is one's.
LEMMA RanksAreTaken ==
  ASSUME NEW S, IsFiniteSet(S), NEW R, Orders(R, S), NEW n \in 1..Cardinality(S)
  PROVE  \E x \in S : Rank(R, S, x) = n - 1
<1> DEFINE T == 1..Cardinality(S)
           f == [x \in S |-> Rank(R, S, x) + 1]
<1>1. Cardinality(S) \in Nat
  BY FS_CardinalityType
<1>2. IsFiniteSet(T) /\ Cardinality(T) = Cardinality(S)
  BY <1>1, FS_Interval
<1>3. f \in [S -> T]
  BY <1>1, RankBounds
<1>4. \A x, y \in S : f[x] = f[y] => x = y
  <2> TAKE x, y \in S
  <2>1. Rank(R, S, x) \in Nat /\ Rank(R, S, y) \in Nat
    BY RankBounds
  <2> QED BY <2>1, RanksDiffer
<1>5. f \in Injection(S, T)
  <2> HIDE DEF f, T
  <2> QED BY <1>3, <1>4, Fun_IsInj
<1>6. f \in Surjection(S, T)
  <2> HIDE DEF f, T
  <2> QED BY <1>2, <1>5, FS_Injection
<1>7. PICK x \in S : f[x] = n
  <2>1. n \in T
    OBVIOUS
  <2> HIDE DEF f, T
  <2> QED BY <1>6, <2>1, Fun_SurjectionProperties
<1>8. Rank(R, S, x) \in Nat
  BY RankBounds
<1> QED BY <1>7, <1>8

LEMMA InOrderIs ==
  ASSUME NEW S, IsFiniteSet(S), NEW R, Orders(R, S)
  PROVE  /\ InOrder(S, R) \in Seq(S) /\ Len(InOrder(S, R)) = Cardinality(S)
         /\ Cardinality(S) \in Nat
         /\ \A n \in 1..Cardinality(S) :
              InOrder(S, R)[n] \in S /\ Rank(R, S, InOrder(S, R)[n]) = n - 1
<1> DEFINE s == InOrder(S, R)
<1>1. Cardinality(S) \in Nat
  BY FS_CardinalityType
<1>2. s = [n \in 1..Cardinality(S) |-> CHOOSE x \in S : Rank(R, S, x) = n - 1]
  BY DEF InOrder, Rank, Below
<1>3. \A n \in 1..Cardinality(S) : s[n] \in S /\ Rank(R, S, s[n]) = n - 1
  <2> TAKE n \in 1..Cardinality(S)
  <2>1. s[n] = CHOOSE x \in S : Rank(R, S, x) = n - 1
    <3> HIDE DEF s
    <3> QED BY <1>2
  <2>2. \E x \in S : Rank(R, S, x) = n - 1
    BY RanksAreTaken
  <2> HIDE DEF s
  <2> QED BY <2>1, <2>2
<1>4. s \in Seq(S) /\ Len(s) = Cardinality(S)
  <2> HIDE DEF s
  <2>1. s \in [1..Cardinality(S) -> S]
    BY <1>2, <1>3
  <2> QED BY <1>1, <2>1
<1> QED BY <1>1, <1>3, <1>4

LEMMA InOrderHolds ==
  ASSUME NEW S, IsFiniteSet(S), NEW R, Orders(R, S), NEW x \in S
  PROVE  \E n \in 1..Cardinality(S) : InOrder(S, R)[n] = x
<1>1. /\ Rank(R, S, x) \in Nat /\ Cardinality(S) \in Nat
      /\ Rank(R, S, x) < Cardinality(S)
  BY RankBounds
<1>2. Rank(R, S, x) + 1 \in 1..Cardinality(S)
  BY <1>1
<1> DEFINE n == Rank(R, S, x) + 1
<1>3. InOrder(S, R)[n] \in S /\ Rank(R, S, InOrder(S, R)[n]) = n - 1
  <2> HIDE DEF n
  <2> QED BY <1>2, InOrderIs DEF n
<1>4. InOrder(S, R)[n] = x
  BY <1>1, <1>3, RanksDiffer
<1> QED BY <1>2, <1>4

\* The last in order is the greatest.
LEMMA LastInOrder ==
  ASSUME NEW S, IsFiniteSet(S), S # {}, NEW R, Orders(R, S)
  PROVE  \E x \in S : \A y \in S \ {x} : <<y, x>> \in R
<1>1. Cardinality(S) \in Nat /\ Cardinality(S) # 0
  BY FS_CardinalityType, FS_EmptySet
<1>2. Cardinality(S) \in 1..Cardinality(S)
  BY <1>1
<1>3. PICK x \in S : Rank(R, S, x) = Cardinality(S) - 1
  BY <1>2, RanksAreTaken
<1>4. \A y \in S \ {x} : <<y, x>> \in R
  <2> TAKE y \in S \ {x}
  <2>1. <<x, y>> \notin R
    <3> SUFFICES ASSUME <<x, y>> \in R PROVE FALSE
      OBVIOUS
    <3>1. Rank(R, S, x) < Rank(R, S, y)
      BY RankGrows
    <3>2. Rank(R, S, y) \in Nat /\ Rank(R, S, y) < Cardinality(S)
      BY RankBounds
    <3> QED BY <1>1, <1>3, <3>1, <3>2
  <2> QED BY <2>1 DEF Orders
<1> QED BY <1>4

\* Without its greatest, a set is in the same order.
LEMMA InOrderStep ==
  ASSUME NEW S, IsFiniteSet(S), NEW R, Orders(R, S), NEW x \in S,
         \A y \in S \ {x} : <<y, x>> \in R,
         NEW Q, \A y, z \in S \ {x} : <<y, z>> \in Q <=> <<y, z>> \in R
  PROVE  InOrder(S, R) = Append(InOrder(S \ {x}, Q), x)
<1> DEFINE T == S \ {x}
           s == InOrder(S, R)
           t == InOrder(T, Q)
<1>1. /\ IsFiniteSet(T) /\ Cardinality(S) \in Nat /\ Cardinality(T) \in Nat
      /\ Cardinality(T) = Cardinality(S) - 1
  BY FS_RemoveElement, FS_CardinalityType
<1>2. Orders(Q, T)
  BY DEF Orders
<1>3. \A y \in T : Below(Q, T, y) = Below(R, S, y)
  BY DEF Below, Orders
<1>4. \A y \in T : Rank(Q, T, y) = Rank(R, S, y)
  BY <1>3 DEF Rank
<1>5. Below(R, S, x) = T
  BY DEF Below, Orders
<1>6. Rank(R, S, x) = Cardinality(T)
  BY <1>5 DEF Rank
<1>7. /\ s \in Seq(S) /\ Len(s) = Cardinality(S)
      /\ \A n \in 1..Cardinality(S) : s[n] \in S /\ Rank(R, S, s[n]) = n - 1
  BY InOrderIs
<1>8. /\ t \in Seq(T) /\ Len(t) = Cardinality(T)
      /\ \A n \in 1..Cardinality(T) : t[n] \in T /\ Rank(Q, T, t[n]) = n - 1
  <2> HIDE DEF T
  <2> QED BY <1>1, <1>2, InOrderIs
<1>9. t \in Seq(S)
  BY <1>8, SeqMonotonic
<1> HIDE DEF s, t
<1>10. /\ Append(t, x) \in Seq(S) /\ Len(Append(t, x)) = Cardinality(S)
       /\ \A n \in 1..Cardinality(T) : Append(t, x)[n] = t[n]
       /\ Append(t, x)[Cardinality(S)] = x
  <2> HIDE DEF T
  <2> QED BY <1>1, <1>8, <1>9, AppendProperties
<1>11. \A n \in 1..Cardinality(S) : s[n] = Append(t, x)[n]
  <2> TAKE n \in 1..Cardinality(S)
  <2>1. CASE n = Cardinality(S)
    <3>1. s[n] \in S /\ Rank(R, S, s[n]) = Rank(R, S, x)
      BY <1>1, <1>6, <1>7, <2>1
    <3>2. s[n] = x
      BY <3>1, RanksDiffer
    <3> QED BY <1>10, <2>1, <3>2
  <2>2. CASE n # Cardinality(S)
    <3>1. n \in 1..Cardinality(T)
      <4> HIDE DEF T
      <4> QED BY <1>1, <2>2
    <3>2. t[n] \in T /\ Rank(R, S, t[n]) = n - 1
      BY <1>4, <1>8, <3>1
    <3>3. s[n] \in S /\ t[n] \in S /\ Rank(R, S, s[n]) = Rank(R, S, t[n])
      BY <1>7, <3>2
    <3>4. s[n] = t[n]
      BY <3>3, RanksDiffer
    <3> QED BY <1>10, <3>1, <3>4
  <2> QED BY <2>1, <2>2
<1> QED BY <1>7, <1>10, <1>11, SeqEqual DEF s, t

\* The order of sequences of which R orders the elements.
Lex(R, a, b) ==
  \/ \E i \in 1..Len(a) :
       /\ i <= Len(b) /\ <<a[i], b[i]>> \in R
       /\ \A j \in 1..(i - 1) : a[j] = b[j]
  \/ Len(a) < Len(b) /\ \A j \in 1..Len(a) : a[j] = b[j]

LEMMA LexIrreflexive ==
  ASSUME NEW S, NEW R, Orders(R, S), NEW a \in Seq(S)
  PROVE  ~Lex(R, a, a)
<1>1. \A i \in 1..Len(a) : <<a[i], a[i]>> \notin R
  BY ElementOfSeq DEF Orders
<1>2. ~(Len(a) < Len(a))
  <2>1. Len(a) \in Nat
    OBVIOUS
  <2> QED BY <2>1
<1> QED BY <1>1, <1>2 DEF Lex

LEMMA LexTotal ==
  ASSUME NEW S, NEW R, Orders(R, S), NEW a \in Seq(S), NEW b \in Seq(S)
  PROVE  a = b \/ Lex(R, a, b) \/ Lex(R, b, a)
<1>1. /\ Len(a) \in Nat /\ \A i \in 1..Len(a) : a[i] \in S
      /\ Len(b) \in Nat /\ \A i \in 1..Len(b) : b[i] \in S
  OBVIOUS
<1> DEFINE Differ == {i \in 1..Len(a) : i <= Len(b) /\ a[i] # b[i]}
<1>2. CASE Differ = {}
  <2>1. \A i \in 1..Len(a) : i <= Len(b) => a[i] = b[i]
    BY <1>2
  <2>2. CASE Len(a) = Len(b)
    <3>1. a = b
      BY <2>1, <2>2, SeqEqual
    <3> QED BY <3>1
  <2>3. CASE Len(a) < Len(b)
    BY <1>1, <2>1, <2>3 DEF Lex
  <2>4. CASE Len(b) < Len(a)
    <3>1. \A i \in 1..Len(b) : i \in 1..Len(a) /\ i <= Len(b)
      BY <1>1, <2>4
    <3>2. \A i \in 1..Len(b) : b[i] = a[i]
      BY <2>1, <3>1
    <3> QED BY <2>4, <3>2 DEF Lex
  <2> QED BY <1>1, <2>2, <2>3, <2>4
<1>3. CASE Differ # {}
  <2>1. Differ \in SUBSET Nat
    BY <1>1
  <2>2. PICK i \in Differ : \A j \in Differ : i <= j
    BY <1>3, <2>1, LeastOf
  <2>3. i \in 1..Len(a) /\ i \in 1..Len(b) /\ a[i] # b[i] /\ i <= Len(b) /\ i <= Len(a)
    BY <1>1, <2>2
  <2>4. \A j \in 1..(i - 1) : a[j] = b[j]
    <3> TAKE j \in 1..(i - 1)
    <3>1. ~(i <= j) /\ j \in 1..Len(a) /\ j <= Len(b)
      BY <1>1, <2>3
    <3>2. j \notin Differ
      <4> HIDE DEF Differ
      <4> QED BY <2>2, <3>1
    <3> QED BY <3>1, <3>2
  <2>5. <<a[i], b[i]>> \in R \/ <<b[i], a[i]>> \in R
    BY <1>1, <2>3 DEF Orders
  <2> QED BY <2>3, <2>4, <2>5 DEF Lex
<1> QED BY <1>2, <1>3

LEMMA LexTransitive ==
  ASSUME NEW S, NEW R, Orders(R, S),
         NEW a \in Seq(S), NEW b \in Seq(S), NEW c \in Seq(S), Lex(R, a, b), Lex(R, b, c)
  PROVE  Lex(R, a, c)
<1>1. /\ Len(a) \in Nat /\ \A i \in 1..Len(a) : a[i] \in S
      /\ Len(b) \in Nat /\ \A i \in 1..Len(b) : b[i] \in S
      /\ Len(c) \in Nat /\ \A i \in 1..Len(c) : c[i] \in S
  OBVIOUS
<1>2. CASE \E i \in 1..Len(a) :
             /\ i <= Len(b) /\ <<a[i], b[i]>> \in R
             /\ \A j \in 1..(i - 1) : a[j] = b[j]
  <2>1. PICK i \in 1..Len(a) :
             /\ i <= Len(b) /\ <<a[i], b[i]>> \in R
             /\ \A j \in 1..(i - 1) : a[j] = b[j]
    BY <1>2
  <2>2. CASE \E k \in 1..Len(b) :
               /\ k <= Len(c) /\ <<b[k], c[k]>> \in R
               /\ \A j \in 1..(k - 1) : b[j] = c[j]
    <3>1. PICK k \in 1..Len(b) :
               /\ k <= Len(c) /\ <<b[k], c[k]>> \in R
               /\ \A j \in 1..(k - 1) : b[j] = c[j]
      BY <2>2
    <3>2. CASE k < i
      <4>1. k \in 1..Len(a) /\ a[k] = b[k]
        BY <1>1, <2>1, <3>2
      <4>2. \A j \in 1..(k - 1) : a[j] = c[j]
        BY <1>1, <2>1, <3>1, <3>2
      <4> QED BY <3>1, <4>1, <4>2 DEF Lex
    <3>3. CASE i < k
      <4>1. i <= Len(c) /\ b[i] = c[i]
        BY <1>1, <2>1, <3>1, <3>3
      <4>2. \A j \in 1..(i - 1) : a[j] = c[j]
        BY <1>1, <2>1, <3>1, <3>3
      <4> QED BY <2>1, <4>1, <4>2 DEF Lex
    <3>4. CASE i = k
      <4>1. a[i] \in S /\ b[i] \in S /\ c[i] \in S
        BY <1>1, <2>1, <3>1, <3>4
      <4>2. <<a[i], c[i]>> \in R
        BY <2>1, <3>1, <3>4, <4>1 DEF Orders
      <4>3. \A j \in 1..(i - 1) : a[j] = c[j]
        BY <2>1, <3>1, <3>4
      <4> QED BY <2>1, <3>1, <3>4, <4>2, <4>3 DEF Lex
    <3> QED BY <3>2, <3>3, <3>4
  <2>3. CASE Len(b) < Len(c) /\ \A j \in 1..Len(b) : b[j] = c[j]
    <3>1. i <= Len(c) /\ b[i] = c[i]
      BY <1>1, <2>1, <2>3
    <3>2. \A j \in 1..(i - 1) : a[j] = c[j]
      BY <1>1, <2>1, <2>3
    <3> QED BY <2>1, <3>1, <3>2 DEF Lex
  <2> QED BY <2>2, <2>3 DEF Lex
<1>3. CASE Len(a) < Len(b) /\ \A j \in 1..Len(a) : a[j] = b[j]
  <2>1. CASE \E k \in 1..Len(b) :
               /\ k <= Len(c) /\ <<b[k], c[k]>> \in R
               /\ \A j \in 1..(k - 1) : b[j] = c[j]
    <3>1. PICK k \in 1..Len(b) :
               /\ k <= Len(c) /\ <<b[k], c[k]>> \in R
               /\ \A j \in 1..(k - 1) : b[j] = c[j]
      BY <2>1
    <3>2. CASE k <= Len(a)
      <4>1. k \in 1..Len(a) /\ a[k] = b[k]
        BY <1>1, <1>3, <3>1, <3>2
      <4>2. \A j \in 1..(k - 1) : a[j] = c[j]
        BY <1>1, <1>3, <3>1, <3>2
      <4> QED BY <3>1, <4>1, <4>2 DEF Lex
    <3>3. CASE Len(a) < k
      <4>1. Len(a) < Len(c) /\ \A j \in 1..Len(a) : a[j] = c[j]
        BY <1>1, <1>3, <3>1, <3>3
      <4> QED BY <4>1 DEF Lex
    <3> QED BY <1>1, <3>1, <3>2, <3>3
  <2>2. CASE Len(b) < Len(c) /\ \A j \in 1..Len(b) : b[j] = c[j]
    <3>1. Len(a) < Len(c) /\ \A j \in 1..Len(a) : a[j] = c[j]
      BY <1>1, <1>3, <2>2
    <3> QED BY <3>1 DEF Lex
  <2> QED BY <2>1, <2>2 DEF Lex
<1> QED BY <1>2, <1>3 DEF Lex

Less == {p \in Nat \X Nat : p[1] < p[2]}

LEMMA LessOrders ==
  ASSUME NEW S \in SUBSET Nat
  PROVE  Orders({p \in S \X S : p[1] < p[2]}, S)
BY DEF Orders

LEMMA BeforeIsLex ==
  ASSUME NEW a \in Names, NEW b \in Names
  PROVE  Before(a, b) <=> Lex(Less, a, b)
<1>1. /\ Len(a) \in Nat /\ \A i \in 1..Len(a) : a[i] \in Nat
      /\ Len(b) \in Nat /\ \A i \in 1..Len(b) : b[i] \in Nat
  BY DEF Names
<1>2. \A i \in 1..Len(a) : i <= Len(b) => (a[i] < b[i] <=> <<a[i], b[i]>> \in Less)
  BY <1>1 DEF Less
<1> QED BY <1>1, <1>2 DEF Before, Lex

LEMMA BeforeOrders ==
  ASSUME NEW S \in SUBSET Names
  PROVE  Orders({p \in S \X S : Before(p[1], p[2])}, S)
<1>1. Orders(Less, Nat)
  BY LessOrders DEF Less
<1>2. \A a \in S : ~Before(a, a)
  BY <1>1, BeforeIsLex, LexIrreflexive DEF Names
<1>3. \A a, b, c \in S : Before(a, b) /\ Before(b, c) => Before(a, c)
  <2> TAKE a, b, c \in S
  <2>1. a \in Names /\ b \in Names /\ c \in Names
    OBVIOUS
  <2> QED BY <1>1, <2>1, BeforeIsLex, LexTransitive DEF Names
<1>4. \A a, b \in S : a = b \/ Before(a, b) \/ Before(b, a)
  <2> TAKE a, b \in S
  <2>1. a \in Names /\ b \in Names
    OBVIOUS
  <2> QED BY <1>1, <2>1, BeforeIsLex, LexTotal DEF Names
<1> QED BY <1>2, <1>3, <1>4 DEF Orders

LEMMA SortedIs ==
  ASSUME NEW S \in SUBSET Names, IsFiniteSet(S)
  PROVE  /\ Sorted(S) \in Seq(S) /\ Len(Sorted(S)) = Cardinality(S)
         /\ Cardinality(S) \in Nat /\ DOMAIN Sorted(S) = 1..Cardinality(S)
         /\ \A n \in 1..Cardinality(S) : Sorted(S)[n] \in S
         /\ \A x \in S : \E n \in 1..Cardinality(S) : Sorted(S)[n] = x
<1> DEFINE R == {p \in S \X S : Before(p[1], p[2])}
<1>1. Orders(R, S) /\ Sorted(S) = InOrder(S, R)
  BY BeforeOrders DEF Sorted
<1> HIDE DEF R
<1>2. /\ Sorted(S) \in Seq(S) /\ Len(Sorted(S)) = Cardinality(S)
      /\ Cardinality(S) \in Nat
      /\ \A n \in 1..Cardinality(S) : Sorted(S)[n] \in S
  BY <1>1, InOrderIs
<1>3. \A x \in S : \E n \in 1..Cardinality(S) : Sorted(S)[n] = x
  BY <1>1, InOrderHolds
<1> QED BY <1>2, <1>3

LEMMA SortedGreatest ==
  ASSUME NEW S \in SUBSET Names, IsFiniteSet(S), S # {}
  PROVE  \E x \in S : \A y \in S \ {x} : Before(y, x)
<1> DEFINE R == {p \in S \X S : Before(p[1], p[2])}
<1>1. Orders(R, S)
  BY BeforeOrders
<1>2. PICK x \in S : \A y \in S \ {x} : <<y, x>> \in R
  <2> HIDE DEF R
  <2> QED BY <1>1, LastInOrder
<1> QED BY <1>2

LEMMA SortedStep ==
  ASSUME NEW S \in SUBSET Names, IsFiniteSet(S), NEW x \in S, \A y \in S \ {x} : Before(y, x)
  PROVE  Sorted(S) = Append(Sorted(S \ {x}), x)
<1> DEFINE R == {p \in S \X S : Before(p[1], p[2])}
           T == S \ {x}
           Q == {p \in T \X T : Before(p[1], p[2])}
<1>1. Orders(R, S)
  BY BeforeOrders
<1>2. \A y \in S \ {x} : <<y, x>> \in R
  OBVIOUS
<1>3. \A y, z \in S \ {x} : <<y, z>> \in Q <=> <<y, z>> \in R
  OBVIOUS
<1>4. InOrder(S, R) = Append(InOrder(S \ {x}, Q), x)
  <2> HIDE DEF R, Q
  <2> QED BY <1>1, <1>2, <1>3, InOrderStep
<1> QED BY <1>4 DEF Sorted

LEMMA SortedOfNone ==
  Sorted({}) = <<>>
<1>1. {} \in SUBSET Names /\ IsFiniteSet({}) /\ Cardinality({}) = 0
  BY FS_EmptySet
<1>2. Sorted({}) \in Seq({}) /\ Len(Sorted({})) = 0
  BY <1>1, SortedIs
<1> QED BY <1>2, EmptySeq

\* What f gives along a sorted set.
Along(f, S) == FlattenSeq([i \in DOMAIN Sorted(S) |-> f[Sorted(S)[i]]])

LEMMA AlongNone ==
  ASSUME NEW f
  PROVE  Along(f, {}) = <<>>
<1>1. [i \in DOMAIN Sorted({}) |-> f[Sorted({})[i]]] = <<>>
  BY SortedOfNone
<1> QED BY <1>1, FlattenOfNone DEF Along

LEMMA AlongType ==
  ASSUME NEW S \in SUBSET Names, IsFiniteSet(S), NEW L, NEW f, \A x \in S : f[x] \in Seq(L)
  PROVE  Along(f, S) \in Seq(L)
<1>1. /\ Cardinality(S) \in Nat /\ DOMAIN Sorted(S) = 1..Cardinality(S)
      /\ \A n \in 1..Cardinality(S) : Sorted(S)[n] \in S
  BY SortedIs
<1>2. [i \in DOMAIN Sorted(S) |-> f[Sorted(S)[i]]] \in Seq(Seq(L))
  BY <1>1
<1> QED BY <1>2, FlattenType DEF Along

LEMMA AlongAgrees ==
  ASSUME NEW S \in SUBSET Names, IsFiniteSet(S), NEW f, NEW g, \A x \in S : f[x] = g[x]
  PROVE  Along(f, S) = Along(g, S)
<1>1. \A i \in DOMAIN Sorted(S) : Sorted(S)[i] \in S
  BY SortedIs
<1>2. [i \in DOMAIN Sorted(S) |-> f[Sorted(S)[i]]] = [i \in DOMAIN Sorted(S) |-> g[Sorted(S)[i]]]
  BY <1>1
<1> QED BY <1>2 DEF Along

\* Along a set is along all but its greatest, and then that.
LEMMA AlongStep ==
  ASSUME NEW S \in SUBSET Names, IsFiniteSet(S), S # {}
  PROVE  \E x \in S :
           \A L : \A f : (\A y \in S : f[y] \in Seq(L)) =>
             /\ Along(f, S) = Along(f, S \ {x}) \o f[x]
             /\ \A T \in SUBSET S : x \in T => Along(f, T) = Along(f, T \ {x}) \o f[x]
<1>2. PICK x \in S : \A y \in S \ {x} : Before(y, x)
  BY SortedGreatest
<1>3. ASSUME NEW L, NEW f, \A y \in S : f[y] \in Seq(L), NEW T \in SUBSET S, x \in T
      PROVE  Along(f, T) = Along(f, T \ {x}) \o f[x]
  <2> DEFINE U == T \ {x}
             s == Sorted(T)
             t == Sorted(U)
  <2>1. /\ T \in SUBSET Names /\ U \in SUBSET Names /\ U \in SUBSET T
        /\ IsFiniteSet(T) /\ IsFiniteSet(U) /\ x \in T
    BY <1>3, FS_Subset
  <2>6. s = Append(t, x)
    BY <1>2, <2>1, SortedStep
  <2>7. t \in Seq(T) /\ Len(t) \in Nat /\ \A i \in 1..Len(t) : t[i] \in T
    <3>1. t \in Seq(U) /\ Len(t) \in Nat /\ \A i \in 1..Len(t) : t[i] \in U
      <4> HIDE DEF U
      <4> QED BY <2>1, SortedIs
    <3> QED BY <3>1, SeqMonotonic
  <2> HIDE DEF s, t
  <2> DEFINE ss == [i \in DOMAIN s |-> f[s[i]]]
             tt == [i \in DOMAIN t |-> f[t[i]]]
  <2>8. /\ s \in Seq(T) /\ Len(s) = Len(t) + 1 /\ s[Len(t) + 1] = x
        /\ \A i \in 1..Len(t) : s[i] = t[i]
    BY <1>3, <2>6, <2>7, AppendProperties
  <2>9. tt \in Seq(Seq(L)) /\ Len(tt) = Len(t) /\ f[x] \in Seq(L)
    BY <1>3, <2>7
  <2>10. ss \in Seq(Seq(L)) /\ Len(ss) = Len(t) + 1
    BY <1>3, <2>7, <2>8
  <2>11. /\ Append(tt, f[x]) \in Seq(Seq(L)) /\ Len(Append(tt, f[x])) = Len(t) + 1
         /\ \A i \in 1..Len(t) : Append(tt, f[x])[i] = tt[i]
         /\ Append(tt, f[x])[Len(t) + 1] = f[x]
    <3> HIDE DEF tt
    <3> QED BY <2>9, AppendProperties
  <2>12. \A i \in 1..(Len(t) + 1) : ss[i] = Append(tt, f[x])[i]
    BY <2>7, <2>8, <2>11
  <2>13. ss = Append(tt, f[x])
    <3> HIDE DEF ss, tt
    <3> QED BY <2>7, <2>10, <2>11, <2>12, SeqEqual
  <2>14. FlattenSeq(ss) = FlattenSeq(tt) \o f[x]
    <3> HIDE DEF ss, tt
    <3> QED BY <2>9, <2>13, FlattenStep
  <2>15. Along(f, T) = FlattenSeq(ss) /\ Along(f, U) = FlattenSeq(tt)
    BY DEF Along, s, t
  <2> QED BY <2>14, <2>15
<1>4. \A L : \A f : (\A y \in S : f[y] \in Seq(L)) =>
             /\ Along(f, S) = Along(f, S \ {x}) \o f[x]
             /\ \A T \in SUBSET S : x \in T => Along(f, T) = Along(f, T \ {x}) \o f[x]
  <2> SUFFICES ASSUME NEW L, NEW f, \A y \in S : f[y] \in Seq(L)
               PROVE  /\ Along(f, S) = Along(f, S \ {x}) \o f[x]
                      /\ \A T \in SUBSET S : x \in T => Along(f, T) = Along(f, T \ {x}) \o f[x]
    OBVIOUS
  <2>1. S \in SUBSET S /\ x \in S
    OBVIOUS
  <2> QED BY <1>3, <2>1
<1> QED BY <1>4

\* What gives nothing may be left out.
LEMMA AlongDrops ==
  ASSUME NEW S \in SUBSET Names, IsFiniteSet(S), NEW T \in SUBSET S,
         NEW L, NEW f, \A x \in S : f[x] \in Seq(L), \A x \in S \ T : f[x] = <<>>
  PROVE  Along(f, S) = Along(f, T)
<1> DEFINE Wrong(U) == Along(f, U) # Along(f, U \cap T)
           Bad == {Cardinality(U) : U \in {V \in SUBSET S : Wrong(V)}}
<1> SUFFICES ASSUME Wrong(S) PROVE FALSE
  BY S \cap T = T
<1>1. Bad \in SUBSET Nat /\ Bad # {}
  <2>1. \A U \in SUBSET S : Cardinality(U) \in Nat
    BY FS_Subset, FS_CardinalityType
  <2>2. S \in SUBSET S
    OBVIOUS
  <2> HIDE DEF Wrong
  <2> QED BY <2>1, <2>2
<1>2. PICK n \in Bad : \A k \in Bad : n <= k
  <2> HIDE DEF Bad
  <2> QED BY <1>1, LeastOf
<1>3. PICK U \in SUBSET S : Wrong(U) /\ n = Cardinality(U)
  BY <1>2
<1>4. IsFiniteSet(U) /\ U \in SUBSET Names
  BY FS_Subset
<1>5. U # {}
  BY <1>3
<1>6. PICK x \in U :
        \A M : \A g : (\A y \in U : g[y] \in Seq(M)) =>
          /\ Along(g, U) = Along(g, U \ {x}) \o g[x]
          /\ \A V \in SUBSET U : x \in V => Along(g, V) = Along(g, V \ {x}) \o g[x]
  BY <1>4, <1>5, AlongStep
<1>7. /\ Along(f, U) = Along(f, U \ {x}) \o f[x]
      /\ x \in T => Along(f, U \cap T) = Along(f, (U \cap T) \ {x}) \o f[x]
  <2>1. \A y \in U : f[y] \in Seq(L)
    OBVIOUS
  <2> QED BY <1>6, <2>1
<1>8. n \in Nat /\ Cardinality(U \ {x}) = n - 1 /\ IsFiniteSet(U \ {x})
  BY <1>1, <1>3, <1>4, FS_RemoveElement
<1>9. ~Wrong(U \ {x})
  <2>1. U \ {x} \in SUBSET S
    OBVIOUS
  <2>2. Wrong(U \ {x}) => Cardinality(U \ {x}) \in Bad
    BY <2>1
  <2> HIDE DEF Wrong, Bad
  <2> QED BY <1>2, <1>8, <2>2
<1>10. (U \ {x}) \cap T = (U \cap T) \ {x}
  OBVIOUS
<1>11. CASE x \in T
  BY <1>3, <1>7, <1>9, <1>10, <1>11
<1>12. CASE x \notin T
  <2>1. f[x] = <<>> /\ (U \cap T) \ {x} = U \cap T
    BY <1>12
  <2>2. Along(f, U \ {x}) \in Seq(L)
    BY <1>4, <1>8, AlongType
  <2>3. Along(f, U) = Along(f, U \ {x})
    BY <1>7, <2>1, <2>2, ConcatEmptySeq
  <2> QED BY <1>3, <1>9, <1>10, <2>1, <2>3
<1> QED BY <1>11, <1>12

-----------------------------------------------------------------------------
(* Scripts *)

\* The lines of a unified text.
Lined(L) == [op : Ops, line : L]

LEMMA CarryingNone ==
  ASSUME NEW ops
  PROVE  Carrying(<<>>, ops) = <<>>
<1>1. [i \in DOMAIN <<>> |-> <<>>[i].line] = <<>>
  OBVIOUS
<1> QED BY <1>1, SelectedOfNone DEF Carrying

LEMMA LinesType ==
  ASSUME NEW L, NEW u \in Seq(Lined(L))
  PROVE  /\ [i \in DOMAIN u |-> u[i].line] \in Seq(L)
         /\ Len([i \in DOMAIN u |-> u[i].line]) = Len(u)
         /\ \A i \in 1..Len(u) : u[i].op \in Ops
<1>1. Len(u) \in Nat /\ DOMAIN u = 1..Len(u)
  BY LenProperties
<1>2. \A i \in 1..Len(u) : u[i] \in Lined(L)
  BY ElementOfSeq
<1>3. \A i \in 1..Len(u) : u[i].line \in L /\ u[i].op \in Ops
  BY <1>2 DEF Lined
<1>4. [i \in 1..Len(u) |-> u[i].line] \in [1..Len(u) -> L]
  BY <1>3
<1> QED BY <1>1, <1>3, <1>4

LEMMA CarryingStep ==
  ASSUME NEW L, NEW u \in Seq(Lined(L)), NEW l \in Lined(L), NEW ops
  PROVE  Carrying(Append(u, l), ops) =
           IF l.op \in ops THEN Append(Carrying(u, ops), l.line) ELSE Carrying(u, ops)
<1> DEFINE v == Append(u, l)
           lines(w) == [i \in DOMAIN w |-> w[i].line]
           I(w) == {i \in DOMAIN w : w[i].op \in ops}
<1>1. /\ v \in Seq(Lined(L)) /\ Len(u) \in Nat /\ Len(v) = Len(u) + 1
      /\ \A i \in 1..Len(u) : v[i] = u[i]
      /\ v[Len(u) + 1] = l
  BY AppendProperties, LenProperties
<1> HIDE DEF v
<1>2. lines(u) \in Seq(L) /\ Len(lines(u)) = Len(u) /\ l.line \in L
  BY LinesType DEF Lined
<1>3. lines(v) \in Seq(L) /\ Len(lines(v)) = Len(u) + 1
  BY <1>1, LinesType
<1>4. lines(v) = Append(lines(u), l.line)
  <2>1. /\ Append(lines(u), l.line) \in Seq(L) /\ Len(Append(lines(u), l.line)) = Len(u) + 1
        /\ \A i \in 1..Len(u) : Append(lines(u), l.line)[i] = lines(u)[i]
        /\ Append(lines(u), l.line)[Len(u) + 1] = l.line
    <3> HIDE DEF lines
    <3> QED BY <1>2, AppendProperties
  <2>2. \A i \in 1..(Len(u) + 1) : lines(v)[i] = Append(lines(u), l.line)[i]
    <3>1. \A i \in 1..(Len(u) + 1) : lines(v)[i] = IF i = Len(u) + 1 THEN l.line ELSE u[i].line
      BY <1>1
    <3>2. \A i \in 1..Len(u) : lines(u)[i] = u[i].line
      OBVIOUS
    <3> HIDE DEF lines
    <3> QED BY <1>1, <2>1, <3>1, <3>2
  <2> HIDE DEF lines
  <2> QED BY <1>3, <2>1, <2>2, SeqEqual
<1>5. \A i \in 1..Len(lines(u)) : i \in I(u) <=> i \in I(v)
  BY <1>1, <1>2
<1>6. Len(u) + 1 \in I(v) <=> l.op \in ops
  BY <1>1
<1>7. Selected(Append(lines(u), l.line), I(v)) =
        IF Len(u) + 1 \in I(v) THEN Append(Selected(lines(u), I(u)), l.line)
        ELSE Selected(lines(u), I(u))
  <2> DEFINE p == lines(u)
             e == l.line
             J == I(u)
             K == I(v)
  <2>1. p \in Seq(L) /\ e \in L /\ Len(p) = Len(u)
    BY <1>2
  <2>2. J \cap (1..Len(p)) = K \cap (1..Len(p))
    <3>1. \A i \in 1..Len(p) : i \in J <=> i \in K
      BY <1>5
    <3> HIDE DEF p, J, K
    <3> QED BY <3>1
  <2> HIDE DEF p, e, J, K
  <2>3. Selected(Append(p, e), K) =
          IF Len(p) + 1 \in K THEN Append(Selected(p, J), e) ELSE Selected(p, J)
    BY <2>1, <2>2, SelectedStep
  <2> QED BY <2>1, <2>3 DEF p, e, J, K
<1>8. Carrying(u, ops) = Selected(lines(u), I(u)) /\ Carrying(v, ops) = Selected(lines(v), I(v))
  BY DEF Carrying
<1> HIDE DEF lines, I
<1> QED BY <1>4, <1>6, <1>7, <1>8 DEF v

LEMMA CarryingType ==
  ASSUME NEW L, NEW u \in Seq(Lined(L)), NEW ops
  PROVE  Carrying(u, ops) \in Seq(L)
<1> DEFINE lines == [i \in DOMAIN u |-> u[i].line]
           I == {i \in DOMAIN u : u[i].op \in ops}
<1>1. lines \in Seq(L)
  BY LinesType
<1>2. Selected(lines, I) \in Seq(L)
  <2> HIDE DEF lines, I
  <2> QED BY <1>1, SelectedType, ElementOfSeq
<1> QED BY <1>2 DEF Carrying

AppendsLast(p, q, e) == Append(p \o q, e) = p \o Append(q, e)

LEMMA AppendAfter ==
  ASSUME NEW L, NEW p \in Seq(L), NEW q \in Seq(L), NEW e \in L
  PROVE  AppendsLast(p, q, e)
BY DEF AppendsLast

\* What u and w carry, one after the other, both carry by themselves.
Splits(u, w, ops) == Carrying(u \o w, ops) = Carrying(u, ops) \o Carrying(w, ops)

LEMMA CarryingConcatStep ==
  ASSUME NEW L, NEW u \in Seq(Lined(L)), NEW x \in Seq(Lined(L)), NEW l \in Lined(L), NEW ops,
         Splits(u, x, ops)
  PROVE  Splits(u, Append(x, l), ops)
<1> DEFINE y == u \o x
           p == Carrying(u, ops)
           q == Carrying(x, ops)
           e == l.line
<1>1. y \in Seq(Lined(L)) /\ e \in L
  BY DEF Lined
<1>2. p \in Seq(L) /\ q \in Seq(L)
  BY CarryingType
<1>3. u \o Append(x, l) = Append(y, l)
  OBVIOUS
<1>4. Carrying(Append(x, l), ops) = IF l.op \in ops THEN Append(q, e) ELSE q
  BY CarryingStep
<1>5. \A z \in Seq(Lined(L)) :
        Carrying(Append(z, l), ops) =
          IF l.op \in ops THEN Append(Carrying(z, ops), e) ELSE Carrying(z, ops)
  BY CarryingStep
<1>6. Carrying(y, ops) = p \o q
  BY DEF Splits
<1> HIDE DEF y, p, q, e
<1>7. Carrying(Append(y, l), ops) = IF l.op \in ops THEN Append(p \o q, e) ELSE p \o q
  BY <1>1, <1>5, <1>6
<1>8. AppendsLast(p, q, e)
  BY <1>1, <1>2, AppendAfter
<1>9. Carrying(u \o Append(x, l), ops) = p \o Carrying(Append(x, l), ops)
  BY <1>3, <1>4, <1>7, <1>8 DEF AppendsLast
<1> QED BY <1>9 DEF p, Splits

LEMMA CarryingConcat ==
  ASSUME NEW L, NEW u \in Seq(Lined(L)), NEW v \in Seq(Lined(L)), NEW ops
  PROVE  Splits(u, v, ops)
<1> DEFINE Wrong(w) == ~Splits(u, w, ops)
           Bad == {Len(w) : w \in {x \in Seq(Lined(L)) : Wrong(x)}}
<1> SUFFICES ASSUME Wrong(v) PROVE FALSE
  OBVIOUS
<1>1. Bad \in SUBSET Nat /\ Bad # {}
  <2>1. \A w \in Seq(Lined(L)) : Len(w) \in Nat
    BY LenProperties
  <2> HIDE DEF Wrong
  <2> QED BY <2>1
<1>2. PICK n \in Bad : \A k \in Bad : n <= k
  <2> HIDE DEF Bad
  <2> QED BY <1>1, LeastOf
<1>3. PICK w \in Seq(Lined(L)) : Wrong(w) /\ n = Len(w)
  BY <1>2
<1>4. Carrying(u, ops) \in Seq(L)
  BY CarryingType
<1>5. w # <<>>
  <2> SUFFICES ASSUME w = <<>> PROVE FALSE
    OBVIOUS
  <2>1. u \o w = u /\ Carrying(w, ops) = <<>>
    BY ConcatEmptySeq, CarryingNone
  <2> QED BY <1>3, <1>4, <2>1, ConcatEmptySeq DEF Splits
<1>6. PICK x \in Seq(Lined(L)), l \in Lined(L) : w = Append(x, l)
  BY <1>5, SequenceEmptyOrAppend
<1>7. Len(w) = Len(x) + 1 /\ Len(x) \in Nat
  <2>1. Len(Append(x, l)) = Len(x) + 1
    BY AppendProperties
  <2>2. Len(x) \in Nat
    BY LenProperties
  <2> HIDE DEF Bad, Wrong
  <2> QED BY <1>6, <2>1, <2>2
<1>8. Splits(u, x, ops)
  <2>1. Wrong(x) => Len(x) \in Bad
    OBVIOUS
  <2>2. n = Len(x) + 1 /\ \A k \in Bad : n <= k
    BY <1>2, <1>3, <1>7
  <2>3. ~Wrong(x)
    <3> HIDE DEF Wrong, Bad
    <3> QED BY <1>7, <2>1, <2>2
  <2> QED BY <2>3
<1> HIDE DEF Bad
<1>9. Splits(u, Append(x, l), ops)
  BY <1>8, CarryingConcatStep
<1> QED BY <1>3, <1>6, <1>9

\* What a text along a set carries, its parts carry along the set.
LEMMA CarryingAlong ==
  ASSUME NEW S \in SUBSET Names, IsFiniteSet(S), NEW L, NEW ops,
         NEW f, \A x \in S : f[x] \in Seq(Lined(L)),
         NEW g, \A x \in S : g[x] = Carrying(f[x], ops)
  PROVE  Carrying(Along(f, S), ops) = Along(g, S)
<1> DEFINE Wrong(U) == Carrying(Along(f, U), ops) # Along(g, U)
           Bad == {Cardinality(U) : U \in {V \in SUBSET S : Wrong(V)}}
<1> SUFFICES ASSUME Wrong(S) PROVE FALSE
  OBVIOUS
<1>1. Bad \in SUBSET Nat /\ Bad # {}
  <2>1. \A U \in SUBSET S : Cardinality(U) \in Nat
    BY FS_Subset, FS_CardinalityType
  <2>2. S \in SUBSET S
    OBVIOUS
  <2> HIDE DEF Wrong
  <2> QED BY <2>1, <2>2
<1>2. PICK n \in Bad : \A k \in Bad : n <= k
  <2> HIDE DEF Bad
  <2> QED BY <1>1, LeastOf
<1>3. PICK U \in SUBSET S : Wrong(U) /\ n = Cardinality(U)
  BY <1>2
<1>4. IsFiniteSet(U) /\ U \in SUBSET Names
  BY FS_Subset
<1>5. U # {}
  BY <1>3, AlongNone, CarryingNone
<1>6. PICK x \in U :
        \A M : \A h : (\A y \in U : h[y] \in Seq(M)) =>
          /\ Along(h, U) = Along(h, U \ {x}) \o h[x]
          /\ \A V \in SUBSET U : x \in V => Along(h, V) = Along(h, V \ {x}) \o h[x]
  BY <1>4, <1>5, AlongStep
<1>7. Along(f, U) = Along(f, U \ {x}) \o f[x]
  <2>1. \A y \in U : f[y] \in Seq(Lined(L))
    OBVIOUS
  <2> QED BY <1>6, <2>1
<1>8. Along(g, U) = Along(g, U \ {x}) \o g[x]
  <2>1. \A y \in U : g[y] \in Seq(L)
    BY CarryingType
  <2> QED BY <1>6, <2>1
<1>9. n \in Nat /\ Cardinality(U \ {x}) = n - 1 /\ IsFiniteSet(U \ {x})
  BY <1>1, <1>3, <1>4, FS_RemoveElement
<1>10. ~Wrong(U \ {x})
  <2>1. U \ {x} \in SUBSET S
    OBVIOUS
  <2>2. Wrong(U \ {x}) => Cardinality(U \ {x}) \in Bad
    BY <2>1
  <2> HIDE DEF Wrong, Bad
  <2> QED BY <1>2, <1>9, <2>2
<1>11. Along(f, U \ {x}) \in Seq(Lined(L)) /\ f[x] \in Seq(Lined(L))
  BY <1>4, <1>9, AlongType
<1>12. Splits(Along(f, U \ {x}), f[x], ops)
  <2> DEFINE a == Along(f, U \ {x})
             b == f[x]
  <2>1. a \in Seq(Lined(L)) /\ b \in Seq(Lined(L))
    BY <1>11
  <2> HIDE DEF a, b
  <2>2. Splits(a, b, ops)
    BY <2>1, CarryingConcat
  <2> QED BY <2>2 DEF a, b
<1>13. g[x] = Carrying(f[x], ops)
  OBVIOUS
<1> QED BY <1>3, <1>7, <1>8, <1>10, <1>12, <1>13 DEF Splits

LEMMA CountedNone ==
  ASSUME NEW op
  PROVE  Counted(<<>>, op) = 0
<1>1. {i \in DOMAIN <<>> : <<>>[i].op = op} = {}
  OBVIOUS
<1> QED BY <1>1, FS_EmptySet DEF Counted

LEMMA CountedType ==
  ASSUME NEW T, NEW u \in Seq(T), NEW op
  PROVE  /\ Counted(u, op) \in Nat
         /\ IsFiniteSet({i \in DOMAIN u : u[i].op = op})
<1>1. Len(u) \in Nat /\ DOMAIN u = 1..Len(u)
  BY LenProperties
<1>2. IsFiniteSet(DOMAIN u)
  BY <1>1, FS_Interval
<1>3. IsFiniteSet({i \in DOMAIN u : u[i].op = op})
  BY <1>2, FS_Subset
<1> QED BY <1>3, FS_CardinalityType DEF Counted

LEMMA CountedStep ==
  ASSUME NEW T, NEW u \in Seq(T), NEW l \in T, NEW op
  PROVE  Counted(Append(u, l), op) = Counted(u, op) + IF l.op = op THEN 1 ELSE 0
<1> DEFINE v == Append(u, l)
           I == {i \in DOMAIN u : u[i].op = op}
           J == {i \in DOMAIN v : v[i].op = op}
<1>1. /\ v \in Seq(T) /\ Len(u) \in Nat /\ Len(v) = Len(u) + 1
      /\ DOMAIN u = 1..Len(u) /\ DOMAIN v = 1..(Len(u) + 1)
      /\ \A i \in 1..Len(u) : v[i] = u[i]
      /\ v[Len(u) + 1] = l
  BY AppendProperties, LenProperties
<1> HIDE DEF v
<1>2. J = IF l.op = op THEN I \cup {Len(u) + 1} ELSE I
  <2>1. CASE l.op = op
    BY <1>1, <2>1
  <2>2. CASE l.op # op
    BY <1>1, <2>2
  <2> QED BY <2>1, <2>2
<1>3. Len(u) + 1 \notin I
  BY <1>1
<1>4. IsFiniteSet(I) /\ Cardinality(I) \in Nat
  BY CountedType, FS_CardinalityType
<1>5. Counted(u, op) = Cardinality(I) /\ Counted(v, op) = Cardinality(J)
  BY DEF Counted
<1> HIDE DEF I, J
<1>6. CASE l.op = op
  <2>1. Cardinality(J) = Cardinality(I) + 1
    BY <1>2, <1>3, <1>4, <1>6, FS_AddElement
  <2> QED BY <1>5, <1>6, <2>1 DEF v
<1>7. CASE l.op # op
  BY <1>2, <1>4, <1>5, <1>7 DEF v
<1> QED BY <1>6, <1>7

\* What is carried is what is counted.
LEMMA CarriedIsCounted ==
  ASSUME NEW L, NEW u \in Seq(Lined(L)), NEW op \in {"added", "removed"}
  PROVE  Len(Carrying(u, {"kept", op})) = Counted(u, "kept") + Counted(u, op)
<1> DEFINE ops == {"kept", op}
           Wrong(w) == Len(Carrying(w, ops)) # Counted(w, "kept") + Counted(w, op)
           Bad == {Len(w) : w \in {x \in Seq(Lined(L)) : Wrong(x)}}
<1> SUFFICES ASSUME Wrong(u) PROVE FALSE
  OBVIOUS
<1>1. Bad \in SUBSET Nat /\ Bad # {}
  <2>1. \A w \in Seq(Lined(L)) : Len(w) \in Nat
    BY LenProperties
  <2> HIDE DEF Wrong
  <2> QED BY <2>1
<1>2. PICK n \in Bad : \A k \in Bad : n <= k
  <2> HIDE DEF Bad
  <2> QED BY <1>1, LeastOf
<1>3. PICK w \in Seq(Lined(L)) : Wrong(w) /\ n = Len(w)
  BY <1>2
<1>4. w # <<>>
  <2>1. Carrying(<<>>, ops) = <<>> /\ Counted(<<>>, "kept") = 0 /\ Counted(<<>>, op) = 0
    BY CarryingNone, CountedNone
  <2>2. Len(<<>>) = 0
    BY EmptySeq
  <2>3. ~Wrong(<<>>)
    BY <2>1, <2>2
  <2> HIDE DEF Wrong
  <2> QED BY <1>3, <2>3
<1>5. PICK x \in Seq(Lined(L)), l \in Lined(L) : w = Append(x, l)
  BY <1>4, SequenceEmptyOrAppend
<1>6. Len(w) = Len(x) + 1 /\ Len(x) \in Nat
  BY <1>5, AppendProperties, LenProperties
<1>7. ~Wrong(x)
  <2>1. Wrong(x) => Len(x) \in Bad
    OBVIOUS
  <2> HIDE DEF Wrong, Bad
  <2> QED BY <1>2, <1>3, <1>6, <2>1
<1>8. Carrying(w, ops) =
        IF l.op \in ops THEN Append(Carrying(x, ops), l.line) ELSE Carrying(x, ops)
  <2> HIDE DEF ops
  <2> QED BY <1>5, CarryingStep
<1>9. /\ Counted(w, "kept") = Counted(x, "kept") + IF l.op = "kept" THEN 1 ELSE 0
      /\ Counted(w, op) = Counted(x, op) + IF l.op = op THEN 1 ELSE 0
  BY <1>5, CountedStep
<1>10. Counted(x, "kept") \in Nat /\ Counted(x, op) \in Nat
  BY CountedType
<1>11. Carrying(x, ops) \in Seq(L) /\ l.line \in L
  BY CarryingType DEF Lined
<1>12. Len(Append(Carrying(x, ops), l.line)) = Len(Carrying(x, ops)) + 1
  <2> HIDE DEF ops
  <2> QED BY <1>11, AppendProperties
<1>13. Len(Carrying(x, ops)) = Counted(x, "kept") + Counted(x, op)
  BY <1>7
<1>14. Len(Carrying(w, ops)) = Counted(w, "kept") + Counted(w, op)
  <2>1. op # "kept" /\ op \in ops /\ "kept" \in ops
    OBVIOUS
  <2>2. CASE l.op \in ops
    <3>1. Len(Carrying(w, ops)) = Counted(x, "kept") + Counted(x, op) + 1
      BY <1>8, <1>12, <1>13, <2>2
    <3>2. Counted(w, "kept") + Counted(w, op) = Counted(x, "kept") + Counted(x, op) + 1
      <4>1. CASE l.op = "kept"
        <5>1. Counted(w, "kept") = Counted(x, "kept") + 1 /\ Counted(w, op) = Counted(x, op) + 0
          BY <1>9, <2>1, <4>1
        <5> QED BY <1>10, <5>1
      <4>2. CASE l.op = op
        <5>1. Counted(w, "kept") = Counted(x, "kept") + 0 /\ Counted(w, op) = Counted(x, op) + 1
          BY <1>9, <2>1, <4>2
        <5> QED BY <1>10, <5>1
      <4> QED BY <2>2, <4>1, <4>2
    <3> QED BY <3>1, <3>2
  <2>3. CASE l.op \notin ops
    <3>1. Counted(w, "kept") = Counted(x, "kept") + 0 /\ Counted(w, op) = Counted(x, op) + 0
      BY <1>9, <2>1, <2>3
    <3>2. Counted(w, "kept") + Counted(w, op) = Counted(x, "kept") + Counted(x, op)
      BY <1>10, <3>1
    <3>3. Carrying(w, ops) = Carrying(x, ops)
      BY <1>8, <2>3
    <3> QED BY <1>13, <3>2, <3>3
  <2> QED BY <2>2, <2>3
<1> QED BY <1>3, <1>14

\* One operation more reads a line more, or none.
LEMMA ReadStep ==
  ASSUME NEW ops, NEW n \in Nat, NEW skip
  PROVE  /\ Read(ops, n, skip) \in Nat
         /\ Read(ops, 0, skip) = 0
         /\ ops[n + 1] = skip => Read(ops, n + 1, skip) = Read(ops, n, skip)
         /\ ops[n + 1] # skip => Read(ops, n + 1, skip) = Read(ops, n, skip) + 1
<1> DEFINE I(k) == {m \in 1..k : ops[m] # skip}
<1>1. IsFiniteSet(I(n)) /\ I(n) \subseteq 1..n
  <2>1. IsFiniteSet(1..n) /\ I(n) \in SUBSET (1..n)
    BY FS_Interval
  <2> HIDE DEF I
  <2> QED BY <2>1, FS_Subset
<1>2. I(0) = {}
  OBVIOUS
<1>3. I(n + 1) = IF ops[n + 1] # skip THEN I(n) \cup {n + 1} ELSE I(n)
  <2>1. CASE ops[n + 1] # skip
    BY <2>1
  <2>2. CASE ops[n + 1] = skip
    BY <2>2
  <2> QED BY <2>1, <2>2
<1>4. n + 1 \notin I(n)
  BY <1>1
<1>5. \A k : Read(ops, k, skip) = Cardinality(I(k))
  BY DEF Read
<1> HIDE DEF I
<1>6. Cardinality(I(n)) \in Nat /\ Cardinality(I(n) \cup {n + 1}) = Cardinality(I(n)) + 1
  BY <1>1, <1>4, FS_AddElement, FS_CardinalityType
<1> QED BY <1>2, <1>3, <1>5, <1>6, FS_EmptySet

LEMMA ReadGrows ==
  ASSUME NEW ops, NEW m \in Nat, NEW n \in Nat, m <= n, NEW skip
  PROVE  Read(ops, m, skip) <= Read(ops, n, skip)
<1>1. IsFiniteSet({k \in 1..n : ops[k] # skip})
  <2>1. IsFiniteSet(1..n) /\ {k \in 1..n : ops[k] # skip} \in SUBSET (1..n)
    BY FS_Interval
  <2> QED BY <2>1, FS_Subset
<1>2. {k \in 1..m : ops[k] # skip} \in SUBSET {k \in 1..n : ops[k] # skip}
  OBVIOUS
<1> QED BY <1>1, <1>2, FS_Subset DEF Read

\* A line that an operation reads is one of the text.
LEMMA ReadWithin ==
  ASSUME NEW ops \in Seq(Ops), NEW skip, NEW n \in 1..Len(ops), ops[n] # skip,
         NEW k \in Nat, Read(ops, Len(ops), skip) = k
  PROVE  Read(ops, n, skip) \in 1..k /\ Read(ops, n, skip) = Read(ops, n - 1, skip) + 1
<1>1. Len(ops) \in Nat
  OBVIOUS
<1>2. n \in Nat /\ n - 1 \in Nat /\ (n - 1) + 1 = n /\ n <= Len(ops)
  BY <1>1
<1>3. /\ Read(ops, n - 1, skip) \in Nat
      /\ Read(ops, n, skip) = Read(ops, n - 1, skip) + 1
  <2> DEFINE m == n - 1
  <2>1. m \in Nat /\ m + 1 = n
    BY <1>2
  <2> HIDE DEF m
  <2>2. Read(ops, m, skip) \in Nat /\ Read(ops, m + 1, skip) = Read(ops, m, skip) + 1
    BY <2>1, ReadStep
  <2> QED BY <2>1, <2>2 DEF m
<1>4. Read(ops, n, skip) <= k
  BY <1>1, <1>2, ReadGrows
<1> QED BY <1>3, <1>4

LEMMA PrefixStep ==
  ASSUME NEW S, NEW s \in Seq(S), NEW q \in Nat, q + 1 \in 1..Len(s)
  PROVE  SubSeq(s, 1, q + 1) = Append(SubSeq(s, 1, q), s[q + 1])
<1>1. /\ SubSeq(s, 1, q + 1) \in Seq(S) /\ Len(SubSeq(s, 1, q + 1)) = q + 1
      /\ \A i \in 1..(q + 1) : SubSeq(s, 1, q + 1)[i] = s[i]
  OBVIOUS
<1>2. /\ SubSeq(s, 1, q) \in Seq(S) /\ Len(SubSeq(s, 1, q)) = q
      /\ \A i \in 1..q : SubSeq(s, 1, q)[i] = s[i]
  OBVIOUS
<1>3. s[q + 1] \in S
  OBVIOUS
<1> DEFINE a == SubSeq(s, 1, q + 1)
           b == SubSeq(s, 1, q)
           e == s[q + 1]
<1> HIDE DEF a, b, e
<1>4. /\ Append(b, e) \in Seq(S) /\ Len(Append(b, e)) = q + 1
      /\ \A i \in 1..q : Append(b, e)[i] = b[i]
      /\ Append(b, e)[q + 1] = e
  BY <1>2, <1>3, AppendProperties DEF b, e
<1>5. \A i \in 1..(q + 1) : a[i] = Append(b, e)[i]
  BY <1>1, <1>2, <1>4 DEF a, b, e
<1>6. a = Append(b, e)
  BY <1>1, <1>4, <1>5, SeqEqual DEF a
<1> QED BY <1>6 DEF a, b, e

\* All but the operations skip take the lines of a text as they come.
Takes(u, ops, text, skip) ==
  \A n \in 1..Len(ops) :
    /\ u[n].op = ops[n]
    /\ ops[n] # skip => u[n].line = text[Read(ops, n, skip)]

\* What a script carries of one of its texts is that text.
LEMMA CarriesText ==
  ASSUME NEW L, NEW text \in Seq(L), NEW ops \in Seq(Ops), NEW skip \in Ops,
         NEW u \in Seq(Lined(L)), Len(u) = Len(ops),
         Takes(u, ops, text, skip),
         Read(ops, Len(ops), skip) = Len(text)
  PROVE  Carrying(u, Ops \ {skip}) = text
<1> DEFINE taken == Ops \ {skip}
           Wrong(n) == Carrying(SubSeq(u, 1, n), taken) # SubSeq(text, 1, Read(ops, n, skip))
           Bad == {n \in 0..Len(ops) : Wrong(n)}
<1>1. Len(ops) \in Nat /\ Len(text) \in Nat
  OBVIOUS
<1>5. \A n \in 1..Len(ops) :
        /\ u[n].op = ops[n]
        /\ ops[n] # skip => u[n].line = text[Read(ops, n, skip)]
  BY DEF Takes
<1>2. Bad = {}
  <2> SUFFICES ASSUME Bad # {} PROVE FALSE
    OBVIOUS
  <2>1. Bad \in SUBSET Nat
    BY <1>1
  <2>2. PICK n \in Bad : \A k \in Bad : n <= k
    <3> HIDE DEF Bad
    <3> QED BY <2>1, LeastOf
  <2>3. n \in 0..Len(ops) /\ Wrong(n)
    BY <2>2
  <2>4. n # 0
    <3>1. SubSeq(u, 1, 0) = <<>> /\ SubSeq(text, 1, 0) = <<>>
      OBVIOUS
    <3>2. Read(ops, 0, skip) = 0
      BY ReadStep
    <3> QED BY <2>3, <3>1, <3>2, CarryingNone
  <2> DEFINE m == n - 1
  <2>5. m \in 0..Len(ops) /\ n \in 1..Len(ops) /\ m + 1 = n /\ m < n /\ m \in Nat
    BY <1>1, <2>3, <2>4
  <2>6. ~Wrong(m)
    <3>1. m \in 0..Len(ops) /\ ~(n <= m)
      BY <2>5
    <3>2. m \notin Bad
      <4> HIDE DEF Bad, m
      <4> QED BY <2>2, <3>1
    <3> QED BY <3>1, <3>2
  <2> DEFINE before == SubSeq(u, 1, m)
             l == u[n]
  <2>7. before \in Seq(Lined(L)) /\ l \in Lined(L)
    <3>1. \A i \in 1..m : u[i] \in Lined(L)
      BY <2>5, ElementOfSeq
    <3> QED BY <2>5, <3>1, SubSeqProperties, ElementOfSeq
  <2>8. SubSeq(u, 1, n) = Append(before, l)
    BY <2>5
  <2>9. Carrying(Append(before, l), taken) =
          IF l.op \in taken THEN Append(Carrying(before, taken), l.line)
          ELSE Carrying(before, taken)
    <3> HIDE DEF before, l, taken
    <3> QED BY <2>7, CarryingStep
  <2>10. Carrying(before, taken) = SubSeq(text, 1, Read(ops, m, skip))
    BY <2>6
  <2>11. l.op = ops[n] /\ ops[n] \in Ops
    BY <1>5, <2>5, ElementOfSeq
  <2>12. CASE ops[n] = skip
    <3>1. Read(ops, n, skip) = Read(ops, m, skip)
      <4> HIDE DEF m
      <4> QED BY <2>5, <2>12, ReadStep
    <3>2. Carrying(SubSeq(u, 1, n), taken) = Carrying(before, taken)
      BY <2>8, <2>9, <2>11, <2>12
    <3> QED BY <2>3, <2>10, <3>1, <3>2
  <2>13. CASE ops[n] # skip
    <3> DEFINE r == Read(ops, n, skip)
    <3>1. r \in 1..Len(text) /\ r = Read(ops, m, skip) + 1 /\ Read(ops, m, skip) \in Nat
      <4>1. Read(ops, m, skip) \in Nat
        <5> HIDE DEF m
        <5> QED BY <2>5, ReadStep
      <4> QED BY <1>1, <2>5, <2>13, <4>1, ReadWithin
    <3>2. l.line = text[r]
      BY <1>5, <2>5, <2>13
    <3>3. SubSeq(text, 1, r) = Append(SubSeq(text, 1, Read(ops, m, skip)), text[r])
      <4> DEFINE q == Read(ops, m, skip)
      <4>1. q \in Nat /\ r = q + 1 /\ r \in 1..Len(text)
        BY <3>1
      <4> HIDE DEF q, r
      <4>2. SubSeq(text, 1, q + 1) = Append(SubSeq(text, 1, q), text[q + 1])
        BY <4>1, PrefixStep
      <4>3. SubSeq(text, 1, r) = Append(SubSeq(text, 1, q), text[r])
        BY <4>1, <4>2
      <4> QED BY <4>3 DEF q
    <3>4. Carrying(SubSeq(u, 1, n), taken) = Append(Carrying(before, taken), l.line)
      BY <2>8, <2>9, <2>11, <2>13
    <3> HIDE DEF r, before, l
    <3> QED BY <2>3, <2>10, <3>2, <3>3, <3>4 DEF r
  <2> QED BY <2>12, <2>13
<1>3. ~Wrong(Len(ops))
  <2>1. Len(ops) \in 0..Len(ops)
    BY <1>1
  <2> HIDE DEF Wrong
  <2> QED BY <1>2, <2>1
<1>4. SubSeq(u, 1, Len(ops)) = u /\ SubSeq(text, 1, Len(text)) = text
  BY SubSeqFull
<1> QED BY <1>3, <1>4

LEMMA ScriptReads ==
  ASSUME NEW L, NEW a \in Seq(L), NEW b \in Seq(L), NEW u \in EditScripts(a, b)
  PROVE  /\ u \in Seq(Lined(L))
         /\ Carrying(u, {"kept", "removed"}) = a
         /\ Carrying(u, {"kept", "added"}) = b
<1>1. PICK ops \in {s \in BoundedSeq(Ops, Len(a) + Len(b)) : IsScript(s, a, b)} :
        u = [n \in DOMAIN ops |->
               [op |-> ops[n],
                line |-> IF ops[n] = "added" THEN b[Read(ops, n, "removed")]
                         ELSE a[Read(ops, n, "added")]]]
  BY DEF EditScripts
<1>2. ops \in Seq(Ops)
  <2>1. PICK k \in 0..(Len(a) + Len(b)) : ops \in [1..k -> Ops]
    BY <1>1 DEF BoundedSeq, SeqOf
  <2>2. k \in Nat
    OBVIOUS
  <2> QED BY <2>1, <2>2
<1>3. Len(ops) \in Nat /\ DOMAIN ops = 1..Len(ops) /\ \A n \in 1..Len(ops) : ops[n] \in Ops
  BY <1>2
<1>4. /\ Read(ops, Len(ops), "added") = Len(a) /\ Read(ops, Len(ops), "removed") = Len(b)
      /\ \A n \in DOMAIN ops :
           ops[n] = "kept" => a[Read(ops, n, "added")] = b[Read(ops, n, "removed")]
  BY <1>1 DEF IsScript
<1>5. \A n \in 1..Len(ops) :
        /\ ops[n] # "added" => a[Read(ops, n, "added")] \in L
        /\ ops[n] # "removed" => b[Read(ops, n, "removed")] \in L
  <2> TAKE n \in 1..Len(ops)
  <2>1. Len(a) \in Nat /\ Len(b) \in Nat
    OBVIOUS
  <2>2. ops[n] # "added" => Read(ops, n, "added") \in 1..Len(a)
    BY <1>2, <1>4, <2>1, ReadWithin
  <2>3. ops[n] # "removed" => Read(ops, n, "removed") \in 1..Len(b)
    BY <1>2, <1>4, <2>1, ReadWithin
  <2> QED BY <2>2, <2>3, ElementOfSeq
<1>6. \A n \in 1..Len(ops) :
        /\ u[n] = [op |-> ops[n],
                   line |-> IF ops[n] = "added" THEN b[Read(ops, n, "removed")]
                            ELSE a[Read(ops, n, "added")]]
        /\ u[n] \in Lined(L)
  <2> TAKE n \in 1..Len(ops)
  <2>1. u[n] = [op |-> ops[n],
                line |-> IF ops[n] = "added" THEN b[Read(ops, n, "removed")]
                         ELSE a[Read(ops, n, "added")]]
    BY <1>1, <1>3
  <2>2. (IF ops[n] = "added" THEN b[Read(ops, n, "removed")] ELSE a[Read(ops, n, "added")]) \in L
    BY <1>5
  <2> QED BY <1>3, <2>1, <2>2 DEF Lined
<1>7. u \in Seq(Lined(L)) /\ Len(u) = Len(ops)
  <2>1. u \in [1..Len(ops) -> Lined(L)]
    BY <1>1, <1>3, <1>6
  <2> QED BY <1>3, <2>1
<1>8. Ops \ {"added"} = {"kept", "removed"} /\ Ops \ {"removed"} = {"kept", "added"}
  BY DEF Ops
<1>9. Takes(u, ops, a, "added") /\ Takes(u, ops, b, "removed")
  <2> SUFFICES ASSUME NEW n \in 1..Len(ops)
               PROVE  /\ u[n].op = ops[n]
                      /\ ops[n] # "added" => u[n].line = a[Read(ops, n, "added")]
                      /\ ops[n] # "removed" => u[n].line = b[Read(ops, n, "removed")]
    BY DEF Takes
  <2> DEFINE op == ops[n]
             line == IF ops[n] = "added" THEN b[Read(ops, n, "removed")]
                     ELSE a[Read(ops, n, "added")]
  <2>5. u[n] = [op |-> op, line |-> line]
    BY <1>6
  <2>6. u[n].op = op /\ u[n].line = line
    <3> HIDE DEF op, line
    <3> QED BY <2>5
  <2>1. u[n].op = ops[n]
    BY <2>6
  <2>2. u[n].line = IF ops[n] = "added" THEN b[Read(ops, n, "removed")]
                    ELSE a[Read(ops, n, "added")]
    BY <2>6
  <2>3. ops[n] # "added" => u[n].line = a[Read(ops, n, "added")]
    BY <2>2
  <2>4. ops[n] # "removed" => u[n].line = b[Read(ops, n, "removed")]
    <3>1. CASE ops[n] = "added"
      BY <2>2, <3>1
    <3>2. CASE ops[n] = "kept"
      BY <1>3, <1>4, <2>3, <3>2
    <3> QED BY <1>3, <3>1, <3>2 DEF Ops
  <2> QED BY <2>1, <2>3, <2>4
<1>10. Carrying(u, Ops \ {"added"}) = a
  <2>1. "added" \in Ops
    BY DEF Ops
  <2> QED BY <1>2, <1>4, <1>7, <1>9, <2>1, CarriesText
<1>11. Carrying(u, Ops \ {"removed"}) = b
  <2>1. "removed" \in Ops
    BY DEF Ops
  <2> QED BY <1>2, <1>4, <1>7, <1>9, <2>1, CarriesText
<1> QED BY <1>7, <1>8, <1>10, <1>11

-----------------------------------------------------------------------------
(* The diff of two indexed sides *)

\* A side: finitely many identities, each with a text.
Indexed(texts, L) ==
  /\ DOMAIN texts \in SUBSET Names /\ IsFiniteSet(DOMAIN texts)
  /\ \A id \in DOMAIN texts : texts[id] \in Seq(L)

Differing(a, b) == {id \in DOMAIN a \cup DOMAIN b : LinesOf(a, id) # LinesOf(b, id)}

\* The text of side c of what differs between a and b.
TextOf(c, a, b) ==
  LET ids == Sorted(Differing(a, b))
  IN FlattenSeq([i \in DOMAIN ids |-> LinesOf(c, ids[i])])

LEMMA LinesOfType ==
  ASSUME NEW L, NEW a, Indexed(a, L), NEW id
  PROVE  LinesOf(a, id) \in Seq(L)
BY DEF LinesOf, Indexed

\* What two sides change is a finite set of names, and where their texts do not
\* differ there is no text.
LEMMA ChangedIs ==
  ASSUME NEW L, NEW a, NEW b, Indexed(a, L), Indexed(b, L)
  PROVE  /\ Changed(a, b) \in SUBSET Names /\ IsFiniteSet(Changed(a, b))
         /\ Differing(a, b) \in SUBSET Changed(a, b)
         /\ \A id \in Changed(a, b) \ Differing(a, b) :
              LinesOf(a, id) = <<>> /\ LinesOf(b, id) = <<>>
<1>1. Changed(a, b) \in SUBSET (DOMAIN a \cup DOMAIN b)
  BY DEF Changed
<1>2. IsFiniteSet(DOMAIN a \cup DOMAIN b)
  BY FS_Union DEF Indexed
<1>3. IsFiniteSet(Changed(a, b))
  BY <1>1, <1>2, FS_Subset
<1>4. Changed(a, b) \in SUBSET Names
  BY <1>1 DEF Indexed
<1>5. Differing(a, b) \in SUBSET Changed(a, b)
  BY DEF Differing, Changed, LinesOf
<1>6. ASSUME NEW id \in Changed(a, b) \ Differing(a, b)
      PROVE  LinesOf(a, id) = <<>> /\ LinesOf(b, id) = <<>>
  <2>1. id \in DOMAIN a \cup DOMAIN b /\ LinesOf(a, id) = LinesOf(b, id)
    BY <1>1 DEF Differing
  <2>2. ~(id \in DOMAIN a /\ id \in DOMAIN b)
    BY <2>1 DEF Changed, LinesOf
  <2> QED BY <2>1, <2>2 DEF LinesOf
<1> QED BY <1>3, <1>4, <1>5, <1>6

\* One side of what is changed, text by text, is the text of what differs.
LEMMA TextIs ==
  ASSUME NEW L, NEW a, NEW b, Indexed(a, L), Indexed(b, L), NEW c \in {a, b}
  PROVE  /\ TextOf(c, a, b) \in Seq(L)
         /\ Along([id \in Changed(a, b) |-> LinesOf(c, id)], Changed(a, b)) = TextOf(c, a, b)
<1> DEFINE C == Changed(a, b)
           D == Differing(a, b)
           f == [id \in C |-> LinesOf(c, id)]
<1>1. /\ C \in SUBSET Names /\ IsFiniteSet(C) /\ D \in SUBSET C
      /\ D \in SUBSET Names /\ IsFiniteSet(D)
  BY ChangedIs, FS_Subset
<1>2. \A id \in C : f[id] = LinesOf(c, id) /\ f[id] \in Seq(L)
  BY LinesOfType
<1>3. \A id \in C \ D : f[id] = <<>>
  BY <1>2, ChangedIs
<1>4. Along(f, D) = TextOf(c, a, b)
  <2>1. DOMAIN Sorted(D) = 1..Cardinality(D) /\ \A i \in 1..Cardinality(D) : Sorted(D)[i] \in D
    <3> HIDE DEF D
    <3> QED BY <1>1, SortedIs
  <2>2. [i \in DOMAIN Sorted(D) |-> f[Sorted(D)[i]]]
          = [i \in DOMAIN Sorted(D) |-> LinesOf(c, Sorted(D)[i])]
    BY <1>1, <1>2, <2>1
  <2> QED BY <2>2 DEF Along, TextOf
<1>5. Along(f, C) = Along(f, D) /\ Along(f, D) \in Seq(L)
  <2> HIDE DEF C, D, f
  <2>1. \A id \in C : f[id] \in Seq(L)
    BY <1>2
  <2>2. Along(f, C) = Along(f, D)
    BY <1>1, <1>3, <2>1, AlongDrops
  <2>3. \A id \in D : f[id] \in Seq(L)
    BY <1>1, <1>2
  <2> QED BY <1>1, <2>2, <2>3, AlongType
<1> QED BY <1>4, <1>5

\* The unified text holds both sides of what is changed, whatever the scripts.
LEMMA UnifiedIs ==
  ASSUME NEW L, NEW a, NEW b, Indexed(a, L), Indexed(b, L), NEW scripts \in LineDiffs(a, b)
  PROVE  /\ renderPairs(a, b, scripts) \in Seq(Lined(L))
         /\ Carrying(renderPairs(a, b, scripts), {"kept", "removed"}) = TextOf(a, a, b)
         /\ Carrying(renderPairs(a, b, scripts), {"kept", "added"}) = TextOf(b, a, b)
<1> DEFINE C == Changed(a, b)
           u == renderPairs(a, b, scripts)
<1>1. C \in SUBSET Names /\ IsFiniteSet(C)
  BY ChangedIs
<1>2. \A id \in C : scripts[id] \in EditScripts(LinesOf(a, id), LinesOf(b, id))
  BY DEF LineDiffs
<1>3. \A id \in C :
        /\ scripts[id] \in Seq(Lined(L))
        /\ Carrying(scripts[id], {"kept", "removed"}) = LinesOf(a, id)
        /\ Carrying(scripts[id], {"kept", "added"}) = LinesOf(b, id)
  <2> TAKE id \in C
  <2> DEFINE x == LinesOf(a, id)
             y == LinesOf(b, id)
             script == scripts[id]
  <2>1. x \in Seq(L) /\ y \in Seq(L) /\ script \in EditScripts(x, y)
    BY <1>2, LinesOfType
  <2> HIDE DEF x, y, script
  <2>2. /\ script \in Seq(Lined(L)) /\ Carrying(script, {"kept", "removed"}) = x
        /\ Carrying(script, {"kept", "added"}) = y
    BY <2>1, ScriptReads
  <2> QED BY <2>2 DEF x, y, script
<1>4. u = Along(scripts, C)
  <2>1. DOMAIN Sorted(C) = 1..Len(Sorted(C))
    <3> HIDE DEF C
    <3> QED BY <1>1, SortedIs
  <2> QED BY <2>1 DEF renderPairs, pairManifests, Along
<1>5. u \in Seq(Lined(L))
  <2> HIDE DEF C, u
  <2> QED BY <1>1, <1>3, <1>4, AlongType
<1> DEFINE Side(c) == [id \in C |-> LinesOf(c, id)]
<1>6. \A id \in C : /\ Side(a)[id] = Carrying(scripts[id], {"kept", "removed"})
                    /\ Side(b)[id] = Carrying(scripts[id], {"kept", "added"})
  BY <1>3
<1>7. Carrying(u, {"kept", "removed"}) = Along(Side(a), C)
  <2> HIDE DEF C, u, Side
  <2> QED BY <1>1, <1>3, <1>4, <1>6, CarryingAlong
<1>8. Carrying(u, {"kept", "added"}) = Along(Side(b), C)
  <2> HIDE DEF C, u, Side
  <2> QED BY <1>1, <1>3, <1>4, <1>6, CarryingAlong
<1>9. Along(Side(a), C) = TextOf(a, a, b)
  BY TextIs
<1>10. Along(Side(b), C) = TextOf(b, a, b)
  BY TextIs
<1> HIDE DEF C, Side
<1> QED BY <1>5, <1>7, <1>8, <1>9, <1>10

-----------------------------------------------------------------------------
(* What is shown of a diff *)

LEMMA SplitAt ==
  ASSUME NEW S, NEW s \in Seq(S), NEW m \in 0..Len(s)
  PROVE  /\ SubSeq(s, 1, m) \in Seq(S) /\ Len(SubSeq(s, 1, m)) = m
         /\ SubSeq(s, m + 1, Len(s)) \in Seq(S)
         /\ s = SubSeq(s, 1, m) \o SubSeq(s, m + 1, Len(s))
<1> DEFINE a == SubSeq(s, 1, m)
           b == SubSeq(s, m + 1, Len(s))
<1>1. Len(s) \in Nat /\ m \in Nat /\ m <= Len(s)
  OBVIOUS
<1>2. \A i \in 1..m : s[i] \in S
  BY <1>1
<1>3. a \in Seq(S) /\ Len(a) = m /\ \A i \in 1..m : a[i] = s[i]
  BY <1>1, <1>2
<1>4. \A i \in (m + 1)..Len(s) : s[i] \in S
  BY <1>1
<1>5. /\ b \in Seq(S) /\ Len(b) = Len(s) - m
      /\ \A i \in 1..(Len(s) - m) : b[i] = s[m + i]
  BY <1>1, <1>4
<1> HIDE DEF a, b
<1>6. /\ a \o b \in Seq(S) /\ Len(a \o b) = Len(s)
      /\ \A i \in 1..Len(s) : (a \o b)[i] = IF i <= m THEN a[i] ELSE b[i - m]
  BY <1>1, <1>3, <1>5, ConcatProperties
<1>7. \A i \in 1..Len(s) : (a \o b)[i] = s[i]
  BY <1>1, <1>3, <1>5, <1>6
<1>8. s = a \o b
  BY <1>6, <1>7, SeqEqual
<1> QED BY <1>3, <1>5, <1>8 DEF a, b

LEMMA PrefixOfConcat ==
  ASSUME NEW S, NEW s \in Seq(S), NEW t \in Seq(S)
  PROVE  IsPrefix(s, s \o t)
<1>1. SubSeq(s \o t, 1, Len(s)) = SubSeq(s, 1, Len(s))
  OBVIOUS
<1> QED BY <1>1 DEF IsPrefix

LEMMA CountedWithin ==
  ASSUME NEW T, NEW u \in Seq(T), NEW v \in Seq(T), NEW op
  PROVE  Counted(u, op) <= Counted(u \o v, op)
<1> DEFINE here == {i \in DOMAIN u : u[i].op = op}
           all == {i \in DOMAIN (u \o v) : (u \o v)[i].op = op}
<1>1. u \o v \in Seq(T)
  OBVIOUS
<1>2. here \subseteq all
  OBVIOUS
<1>3. IsFiniteSet(all)
  <2> HIDE DEF all
  <2> QED BY <1>1, CountedType DEF all
<1>4. Cardinality(here) <= Cardinality(all)
  BY <1>2, <1>3, FS_Subset, FS_CardinalityType
<1> QED BY <1>4 DEF Counted

\* The number of whole lines of which max bytes are room.
LEMMA RoomFor ==
  ASSUME NEW max \in Nat
  PROVE  LET m == max \div LineBytes
         IN /\ m \in Nat /\ LineBytes * m <= max /\ LineBytes * m + LineBytes > max
            /\ \A n \in Nat : LineBytes * n > max => m < n
<1> DEFINE m == max \div LineBytes
<1>1. LineBytes \in Nat \ {0}
  BY ManifestDiffAssumption
<1>2. m \in Nat /\ LineBytes * m <= max /\ LineBytes * m + LineBytes > max
  BY <1>1
<1>3. ASSUME NEW n \in Nat, LineBytes * n > max
      PROVE  m < n
  <2> HIDE DEF m
  <2> SUFFICES ASSUME n <= m PROVE FALSE
    BY <1>2
  <2>1. LineBytes * n <= LineBytes * m
    BY <1>1, <1>2
  <2> QED BY <1>1, <1>2, <1>3, <2>1
<1> QED BY <1>2, <1>3

\* The text shown holds both sides, or as much of them as fits, and the counts
\* are of all of it.
ReadsBack(d, a, b, max) ==
  LET shown == d.unified
      before == Carrying(shown, {"kept", "removed"})
      after == Carrying(shown, {"kept", "added"})
      bytes == LineBytes * Len(shown)
  IN /\ d.linesAdded + Len(TextOf(a, a, b)) = d.linesRemoved + Len(TextOf(b, a, b))
     /\ bytes <= max
     /\ IF d.truncated
          THEN /\ bytes + LineBytes > max
               /\ IsPrefix(before, TextOf(a, a, b)) /\ IsPrefix(after, TextOf(b, a, b))
               /\ Counted(shown, "added") <= d.linesAdded
               /\ Counted(shown, "removed") <= d.linesRemoved
          ELSE /\ before = TextOf(a, a, b) /\ after = TextOf(b, a, b)
               /\ Counted(shown, "added") = d.linesAdded

LEMMA DiffReadsBack ==
  ASSUME NEW L, NEW a, NEW b, Indexed(a, L), Indexed(b, L), NEW scripts \in LineDiffs(a, b),
         NEW max \in Nat
  PROVE  ReadsBack(Diff(a, b, scripts, max), a, b, max)
<1> DEFINE u == renderPairs(a, b, scripts)
           d == Diff(a, b, scripts, max)
           m == max \div LineBytes
           was == TextOf(a, a, b)
           is == TextOf(b, a, b)
<1>1. /\ u \in Seq(Lined(L)) /\ Carrying(u, {"kept", "removed"}) = was
      /\ Carrying(u, {"kept", "added"}) = is
  BY UnifiedIs
<1>2. /\ d.unified = IF LineBytes * Len(u) > max THEN SubSeq(u, 1, m) ELSE u
      /\ d.truncated = (LineBytes * Len(u) > max)
      /\ d.linesAdded = Counted(u, "added") /\ d.linesRemoved = Counted(u, "removed")
  BY DEF Diff, CountedInAll, truncateAtLineBoundary
<1>3. LineBytes \in Nat /\ Len(u) \in Nat /\ LineBytes * Len(u) \in Nat
  BY <1>1, ManifestDiffAssumption
<1>4. /\ m \in Nat /\ LineBytes * m <= max /\ LineBytes * m + LineBytes > max
      /\ LineBytes * Len(u) > max => m < Len(u)
  BY <1>3, RoomFor
<1> HIDE DEF u, d, m, was, is
<1>5. /\ Len(was) = Counted(u, "kept") + Counted(u, "removed")
      /\ Len(is) = Counted(u, "kept") + Counted(u, "added")
      /\ Counted(u, "kept") \in Nat /\ Counted(u, "added") \in Nat /\ Counted(u, "removed") \in Nat
  BY <1>1, CarriedIsCounted, CountedType
<1>6. d.linesAdded + Len(was) = d.linesRemoved + Len(is)
  BY <1>2, <1>5
<1>7. CASE LineBytes * Len(u) > max
  <2> DEFINE v == SubSeq(u, 1, m)
             rest == SubSeq(u, m + 1, Len(u))
  <2>1. m \in 0..Len(u)
    BY <1>3, <1>4, <1>7
  <2>2. v \in Seq(Lined(L)) /\ Len(v) = m /\ rest \in Seq(Lined(L)) /\ u = v \o rest
    BY <1>1, <2>1, SplitAt
  <2>3. d.unified = v /\ d.truncated
    BY <1>2, <1>7
  <2> HIDE DEF v, rest
  <2>4. LineBytes * Len(v) <= max /\ LineBytes * Len(v) + LineBytes > max
    BY <1>4, <2>2
  <2>5. ASSUME NEW ops
        PROVE  IsPrefix(Carrying(v, ops), Carrying(u, ops))
    <3>1. Splits(v, rest, ops)
      BY <2>2, CarryingConcat
    <3>2. Carrying(v, ops) \in Seq(L) /\ Carrying(rest, ops) \in Seq(L)
      BY <2>2, CarryingType
    <3>3. Carrying(u, ops) = Carrying(v, ops) \o Carrying(rest, ops)
      BY <2>2, <3>1 DEF Splits
    <3> QED BY <3>2, <3>3, PrefixOfConcat
  <2>6. /\ Counted(v, "added") <= Counted(u, "added")
        /\ Counted(v, "removed") <= Counted(u, "removed")
    BY <2>2, CountedWithin
  <2>7. IsPrefix(Carrying(v, {"kept", "removed"}), was) /\ IsPrefix(Carrying(v, {"kept", "added"}), is)
    BY <1>1, <2>5
  <2> QED BY <1>2, <1>6, <2>3, <2>4, <2>6, <2>7 DEF ReadsBack, d, was, is
<1>8. CASE ~(LineBytes * Len(u) > max)
  <2>1. d.unified = u /\ ~d.truncated
    BY <1>2, <1>8
  <2>2. LineBytes * Len(u) <= max
    BY <1>3, <1>8
  <2> QED BY <1>1, <1>2, <1>6, <2>1, <2>2 DEF ReadsBack, d, was, is
<1> QED BY <1>7, <1>8

-----------------------------------------------------------------------------
(* What the sides are made of *)

Manifest == [id : Names, lines : Seq(Names)]

LEMMA GreatestOf ==
  ASSUME NEW S \in SUBSET Nat, IsFiniteSet(S), S # {}
  PROVE  Max(S) \in S
<1> DEFINE R == {p \in S \X S : p[1] < p[2]}
<1>1. Orders(R, S)
  BY LessOrders
<1>2. PICK x \in S : \A y \in S \ {x} : <<y, x>> \in R
  <2> HIDE DEF R
  <2> QED BY <1>1, LastInOrder
<1>3. \A y \in S : x >= y
  <2> TAKE y \in S
  <2>1. CASE y = x
    BY <2>1
  <2>2. CASE y # x
    <3>1. <<y, x>> \in R
      BY <1>2, <2>2
    <3>2. y < x /\ y \in Nat /\ x \in Nat
      BY <3>1
    <3> QED BY <3>2
  <2> QED BY <2>1, <2>2
<1> QED BY <1>3 DEF Max

LEMMA LastOfIs ==
  ASSUME NEW ms, Len(ms) \in Nat, DOMAIN ms = 1..Len(ms), NEW i \in DOMAIN ms
  PROVE  LastOf(ms, ms[i].id) \in DOMAIN ms /\ ms[LastOf(ms, ms[i].id)].id = ms[i].id
<1> DEFINE S == {j \in DOMAIN ms : ms[j].id = ms[i].id}
<1>1. S \in SUBSET Nat /\ S # {} /\ S \in SUBSET (1..Len(ms))
  OBVIOUS
<1>2. IsFiniteSet(1..Len(ms))
  BY FS_Interval
<1>3. IsFiniteSet(S)
  BY <1>1, <1>2, FS_Subset
<1>4. Max(S) \in S
  <2> HIDE DEF S
  <2> QED BY <1>1, <1>3, GreatestOf
<1> QED BY <1>4 DEF LastOf

\* The identities of a sequence are finitely many.
LEMMA IdentitiesAreFinite ==
  ASSUME NEW ms, Len(ms) \in Nat, DOMAIN ms = 1..Len(ms)
  PROVE  IsFiniteSet({ms[i].id : i \in DOMAIN ms})
<1> DEFINE T == {ms[i].id : i \in DOMAIN ms}
           f == [i \in 1..Len(ms) |-> ms[i].id]
<1>1. f \in Surjection(1..Len(ms), T)
  BY DEF Surjection
<1>2. IsFiniteSet(1..Len(ms))
  BY FS_Interval
<1> QED BY <1>1, <1>2, FS_Surjection

LEMMA IndexedByIdentity ==
  ASSUME NEW ms \in Seq(Manifest)
  PROVE  Indexed(indexByIdentity(ms), Names)
<1> DEFINE T == {ms[i].id : i \in DOMAIN ms}
           f == indexByIdentity(ms)
<1>1. Len(ms) \in Nat /\ DOMAIN ms = 1..Len(ms)
  OBVIOUS
<1>2. \A i \in DOMAIN ms : ms[i].id \in Names /\ ms[i].lines \in Seq(Names)
  <2> TAKE i \in DOMAIN ms
  <2>1. ms[i] \in Manifest
    OBVIOUS
  <2> QED BY <2>1 DEF Manifest
<1>3. DOMAIN f = T /\ \A id \in T : f[id] = ms[LastOf(ms, id)].lines
  BY DEF indexByIdentity
<1>4. IsFiniteSet(T) /\ T \in SUBSET Names
  BY <1>1, <1>2, IdentitiesAreFinite
<1>5. \A id \in T : f[id] \in Seq(Names)
  <2> TAKE id \in T
  <2>1. PICK i \in DOMAIN ms : id = ms[i].id
    OBVIOUS
  <2>2. LastOf(ms, id) \in DOMAIN ms
    BY <1>1, <2>1, LastOfIs
  <2> QED BY <1>2, <1>3, <2>2
<1> QED BY <1>3, <1>4, <1>5 DEF Indexed

-----------------------------------------------------------------------------
(* The rendering of Terraform bodies *)

\* A line of a body: how deep it is, what begins it and what it says.
Line == {l \in Names : Len(l) = 3}

LEMMA LineIs ==
  ASSUME NEW l \in Line
  PROVE  /\ l \in [1..3 -> Nat] /\ l[1] \in Nat /\ l[2] \in Nat /\ l[3] \in Nat
         /\ l = <<l[1], l[2], l[3]>>
<1>1. l \in [1..3 -> Nat]
  BY DEF Line, Names
<1>2. l[1] \in Nat /\ l[2] \in Nat /\ l[3] \in Nat
  BY <1>1
<1>3. DOMAIN l = 1..3 /\ \A i : i \in 1..3 <=> i = 1 \/ i = 2 \/ i = 3
  BY <1>1
<1>4. l = <<l[1], l[2], l[3]>>
  BY DEF Line, Names
<1> QED BY <1>1, <1>2, <1>4

LEMMA TripleIsLine ==
  ASSUME NEW a \in Nat, NEW b \in Nat, NEW c \in Nat
  PROVE  <<a, b, c>> \in Line /\ <<a, b, c>> \in Names
BY DEF Line, Names

\* A line is indented by its depth alone.
LEMMA IndentIs ==
  ASSUME NEW lines \in Seq(Line)
  PROVE  /\ indent(lines) \in Seq(Line) /\ Len(indent(lines)) = Len(lines)
         /\ \A i \in 1..Len(lines) :
              indent(lines)[i] = <<lines[i][1] + 1, lines[i][2], lines[i][3]>>
<1>1. ASSUME NEW l \in Line
      PROVE  /\ [l EXCEPT ![1] = @ + 1] = <<l[1] + 1, l[2], l[3]>>
             /\ <<l[1] + 1, l[2], l[3]>> \in Line
  <2>1. l \in [1..3 -> Nat] /\ l[1] \in Nat /\ l[2] \in Nat /\ l[3] \in Nat
    BY LineIs
  <2> DEFINE k == <<l[1] + 1, l[2], l[3]>>
  <2>2. k \in Line
    BY <2>1, TripleIsLine
  <2>3. k[1] = l[1] + 1 /\ k[2] = l[2] /\ k[3] = l[3]
    OBVIOUS
  <2> HIDE DEF k
  <2>4. k \in [1..3 -> Nat]
    BY <2>2, LineIs
  <2>5. [l EXCEPT ![1] = @ + 1] = [i \in 1..3 |-> IF i = 1 THEN l[1] + 1 ELSE l[i]]
    BY <2>1
  <2>6. \A i \in 1..3 : k[i] = IF i = 1 THEN l[1] + 1 ELSE l[i]
    BY <2>3
  <2>7. [l EXCEPT ![1] = @ + 1] = k
    BY <2>4, <2>5, <2>6
  <2> QED BY <2>2, <2>7 DEF k
<1>2. \A i \in 1..Len(lines) : lines[i] \in Line
  OBVIOUS
<1>3. PICK n \in Nat : Len(lines) = n /\ DOMAIN lines = 1..n
  OBVIOUS
<1> DEFINE In(l) == <<l[1] + 1, l[2], l[3]>>
           Out(l) == [l EXCEPT ![1] = @ + 1]
<1>4. \A i \in 1..n : Out(lines[i]) = In(lines[i]) /\ In(lines[i]) \in Line
  BY <1>1, <1>2, <1>3
<1>5. indent(lines) = [i \in 1..n |-> Out(lines[i])]
  BY <1>3 DEF indent
<1> HIDE DEF In, Out
<1>6. indent(lines) = [i \in 1..n |-> In(lines[i])]
  BY <1>4, <1>5
<1>7. indent(lines) \in [1..n -> Line] /\ \A i \in 1..n : indent(lines)[i] = In(lines[i])
  BY <1>4, <1>6
<1>8. indent(lines) \in Seq(Line) /\ Len(indent(lines)) = n
  BY <1>7
<1> QED BY <1>3, <1>7, <1>8 DEF In

\* Nonempty names, sorted, each with its value.
LEMMA AttributeLinesAre ==
  ASSUME NEW b, DOMAIN b.attrs \in SUBSET (Nat \ {0}), IsFiniteSet(DOMAIN b.attrs),
         b.attrs \in [DOMAIN b.attrs -> Nat]
  PROVE  /\ AttributeLines(b) \in Seq(Line)
         /\ \A i \in 1..Len(AttributeLines(b)) :
              LET l == AttributeLines(b)[i]
              IN l[1] = 0 /\ l[2] \in DOMAIN b.attrs /\ l[3] = b.attrs[l[2]]
         /\ \A name \in DOMAIN b.attrs :
              \E i \in 1..Len(AttributeLines(b)) : AttributeLines(b)[i][2] = name
<1> DEFINE set == DOMAIN b.attrs
           R == {p \in set \X set : p[1] < p[2]}
           names == InOrder(set, R)
           lines == AttributeLines(b)
<1>1. Orders(R, set) /\ IsFiniteSet(set)
  BY LessOrders
<1>2. /\ names \in Seq(set) /\ Len(names) = Cardinality(set)
      /\ \A name \in set : \E i \in 1..Cardinality(set) : names[i] = name
  <2> HIDE DEF R, set
  <2> QED BY <1>1, InOrderIs, InOrderHolds
<1>3. lines = [i \in DOMAIN names |-> <<0, names[i], b.attrs[names[i]]>>]
  BY DEF AttributeLines
<1> HIDE DEF names, lines
<1>4. PICK n \in Nat : n = Len(names) /\ DOMAIN names = 1..n
  BY <1>2
<1>5. \A i \in 1..n : /\ names[i] \in set /\ lines[i] = <<0, names[i], b.attrs[names[i]]>>
                      /\ lines[i] \in Line
  <2> TAKE i \in 1..n
  <2>1. names[i] \in set
    BY <1>2, <1>4
  <2>2. names[i] \in Nat /\ b.attrs[names[i]] \in Nat
    BY <2>1
  <2> QED BY <1>3, <1>4, <2>1, <2>2, TripleIsLine
<1>6. lines \in Seq(Line) /\ Len(lines) = n
  BY <1>3, <1>4, <1>5
<1>7. \A i \in 1..n : /\ lines[i][1] = 0 /\ lines[i][2] = names[i]
                      /\ lines[i][3] = b.attrs[names[i]]
  BY <1>5
<1> QED BY <1>2, <1>4, <1>5, <1>6, <1>7 DEF lines

\* A line that begins a block.
Opens(l) == l[1] = 0 /\ l[2] = 0 /\ l[3] # 0

\* The lines of a block: the first begins it, and no other begins one.
BlockText ==
  {t \in Seq(Line) : Len(t) >= 1 /\ Opens(t[1]) /\ \A i \in 2..Len(t) : ~Opens(t[i])}

LEMMA BlockLinesAre ==
  ASSUME NEW block, block.header \in Nat \ {0}, NEW lines \in Seq(Line)
  PROVE  /\ BlockLines(block, lines) \in BlockText
         /\ Len(BlockLines(block, lines)) = Len(lines) + 2
         /\ BlockLines(block, lines)[1][3] = block.header
         /\ \A i \in 1..Len(lines) :
              BlockLines(block, lines)[i + 1]
                = <<lines[i][1] + 1, lines[i][2], lines[i][3]>>
<1> DEFINE first == <<0, 0, block.header>>
           last == <<0, 0, 0>>
           inner == indent(lines)
           all == <<first>> \o inner \o <<last>>
<1>1. /\ inner \in Seq(Line) /\ Len(inner) = Len(lines)
      /\ \A i \in 1..Len(lines) : inner[i] = <<lines[i][1] + 1, lines[i][2], lines[i][3]>>
  BY IndentIs
<1>2. first \in Line /\ last \in Line /\ Opens(first) /\ ~Opens(last) /\ first[3] = block.header
  BY TripleIsLine DEF Opens
<1>3. PICK n \in Nat : n = Len(lines)
  OBVIOUS
<1>4. \A i \in 1..n : ~Opens(inner[i])
  <2> TAKE i \in 1..n
  <2>1. lines[i] \in Line
    BY <1>3
  <2>2. lines[i][1] + 1 # 0
    BY <2>1, LineIs
  <2> QED BY <1>1, <1>3, <2>2 DEF Opens
<1> HIDE DEF first, last, inner
<1>5. /\ all \in Seq(Line) /\ Len(all) = n + 2
      /\ all[1] = first /\ all[n + 2] = last
      /\ \A i \in 1..n : all[i + 1] = inner[i]
  BY <1>1, <1>2, <1>3
<1>6. BlockLines(block, lines) = all
  BY DEF BlockLines, all, first, last, inner
<1> HIDE DEF all
<1>7. \A i \in 2..(n + 2) : ~Opens(all[i])
  <2> TAKE i \in 2..(n + 2)
  <2>1. CASE i = n + 2
    BY <1>2, <1>5, <2>1
  <2>2. CASE i # n + 2
    <3>1. i - 1 \in 1..n /\ (i - 1) + 1 = i
      BY <2>2
    <3> QED BY <1>4, <1>5, <3>1
  <2> QED BY <2>1, <2>2
<1>8. all \in BlockText
  BY <1>2, <1>5, <1>7 DEF BlockText
<1> QED BY <1>1, <1>2, <1>3, <1>5, <1>6, <1>8

\* The texts of the blocks of a body.
BlockTexts(b, nested) ==
  [i \in DOMAIN b.nested |-> BlockLines(b.nested[i], nested[b.nested[i]].lines)]

LEMMA BlockTextsType ==
  ASSUME NEW Bods, FitBodies(Bods), NEW b \in Bods, NEW nested,
         \A c \in Blocks(b) : nested[c].lines \in Seq(Line)
  PROVE  /\ BlockTexts(b, nested) \in Seq(BlockText)
         /\ BlockTexts(b, nested) \in Seq(Seq(Line))
         /\ Len(BlockTexts(b, nested)) = Len(b.nested)
         /\ FlattenSeq(BlockTexts(b, nested)) \in Seq(Line)
<1> DEFINE parts == BlockTexts(b, nested)
<1>1. /\ b.nested \in Seq(Bods)
      /\ \A i \in DOMAIN b.nested : b.nested[i].header \in Nat \ {0}
  BY DEF FitBodies
<1>2. \A i \in DOMAIN b.nested : BlockLines(b.nested[i], nested[b.nested[i]].lines) \in BlockText
  <2> TAKE i \in DOMAIN b.nested
  <2>1. nested[b.nested[i]].lines \in Seq(Line)
    BY DEF Blocks
  <2> QED BY <1>1, <2>1, BlockLinesAre
<1>3. Len(b.nested) \in Nat /\ DOMAIN b.nested = 1..Len(b.nested)
  BY <1>1
<1>4. parts \in Seq(BlockText) /\ Len(parts) = Len(b.nested)
  BY <1>2, <1>3 DEF BlockTexts
<1>5. parts \in Seq(Seq(Line))
  <2>1. BlockText \subseteq Seq(Line)
    BY DEF BlockText
  <2> HIDE DEF parts
  <2> QED BY <1>4, <2>1
<1>6. FlattenSeq(parts) \in Seq(Line)
  <2> HIDE DEF parts
  <2> QED BY <1>5, FlattenType
<1> QED BY <1>4, <1>5, <1>6

LEMMA BodyLinesType ==
  ASSUME NEW Bods, FitBodies(Bods), NEW b \in Bods, NEW nested,
         \A c \in Blocks(b) : nested[c].lines \in Seq(Line)
  PROVE  BodyLines(b, nested) \in Seq(Line)
<1>1. AttributeLines(b) \in Seq(Line)
  BY AttributeLinesAre DEF FitBodies
<1>2. FlattenSeq(BlockTexts(b, nested)) \in Seq(Line)
  BY BlockTextsType
<1>3. BodyLines(b, nested) = AttributeLines(b) \o FlattenSeq(BlockTexts(b, nested))
  BY DEF BodyLines, BlockTexts
<1> QED BY <1>1, <1>2, <1>3

Nests(h, body, m) ==
  h = [n \in 0..m |-> IF n = 0 THEN {body} ELSE UNION {Blocks(b) : b \in h[n - 1]}]

LEMMA NestingExists ==
  ASSUME NEW body
  PROVE  Nests(BodiesAt(body), body, MaxBlockDepth)
<1> DEFINE Bad == {m \in Nat : ~\E h : Nests(h, body, m)}
<1>1. Bad = {}
  <2> SUFFICES ASSUME Bad # {} PROVE FALSE
    OBVIOUS
  <2>1. PICK m \in Bad : \A k \in Bad : m <= k
    BY LeastOf
  <2>2. CASE m = 0
    <3>1. Nests([n \in 0..0 |-> {body}], body, 0)
      BY DEF Nests
    <3> QED BY <2>2, <3>1
  <2>3. CASE m # 0
    <3>1. m \in Nat /\ m - 1 \in Nat /\ m - 1 \notin Bad
      <4>1. m \in Nat /\ m - 1 \in Nat /\ ~(m <= m - 1)
        BY <2>1, <2>3
      <4> HIDE DEF Bad
      <4> QED BY <2>1, <4>1
    <3>2. PICK g : Nests(g, body, m - 1)
      BY <3>1
    <3> DEFINE h == [n \in 0..m |->
                       IF n = 0 THEN {body} ELSE UNION {Blocks(b) : b \in g[n - 1]}]
    <3>3. \A n \in 0..(m - 1) : h[n] = g[n]
      <4> TAKE n \in 0..(m - 1)
      <4>1. g[n] = IF n = 0 THEN {body} ELSE UNION {Blocks(b) : b \in g[n - 1]}
        BY <3>2 DEF Nests
      <4>2. n \in 0..m
        BY <3>1
      <4> QED BY <4>1, <4>2
    <3>4. Nests(h, body, m)
      <4> HIDE DEF h
      <4>1. h = [n \in 0..m |->
                   IF n = 0 THEN {body} ELSE UNION {Blocks(b) : b \in g[n - 1]}]
        BY DEF h
      <4>2. \A n \in 0..m : n # 0 => h[n - 1] = g[n - 1]
        BY <3>1, <3>3
      <4> QED BY <4>1, <4>2 DEF Nests
    <3> QED BY <2>1, <3>4
  <2> QED BY <2>2, <2>3
<1>2. \E h : Nests(h, body, MaxBlockDepth)
  BY <1>1, PlanDiffAssumption
<1> DEFINE g == CHOOSE h : Nests(h, body, MaxBlockDepth)
<1>3. Nests(g, body, MaxBlockDepth)
  BY <1>2
<1>4. BodiesAt(body) = g
  BY DEF BodiesAt, Nests
<1> QED BY <1>3, <1>4

\* At every depth of a body are bodies, and what they nest is one level deeper.
LEMMA BodiesAtIs ==
  ASSUME NEW Bods, FitBodies(Bods), NEW body \in Bods
  PROVE  /\ BodiesAt(body)[0] = {body}
         /\ \A n \in 1..MaxBlockDepth :
              BodiesAt(body)[n] = UNION {Blocks(b) : b \in BodiesAt(body)[n - 1]}
         /\ \A n \in 0..MaxBlockDepth : BodiesAt(body)[n] \in SUBSET Bods
<1> DEFINE at == BodiesAt(body)
<1>1. at = [n \in 0..MaxBlockDepth |->
              IF n = 0 THEN {body} ELSE UNION {Blocks(b) : b \in at[n - 1]}]
  BY NestingExists DEF Nests
<1> HIDE DEF at
<1>2. MaxBlockDepth \in Nat
  BY PlanDiffAssumption
<1>3. at[0] = {body}
  BY <1>1, <1>2
<1>4. \A n \in 1..MaxBlockDepth : at[n] = UNION {Blocks(b) : b \in at[n - 1]}
  BY <1>1, <1>2
<1>5. \A b \in Bods : Blocks(b) \in SUBSET Bods
  BY DEF FitBodies, Blocks
<1> DEFINE Bad == {n \in 0..MaxBlockDepth : at[n] \notin SUBSET Bods}
<1>6. Bad = {}
  <2> SUFFICES ASSUME Bad # {} PROVE FALSE
    OBVIOUS
  <2>1. Bad \in SUBSET Nat
    BY <1>2
  <2>2. PICK n \in Bad : \A k \in Bad : n <= k
    <3> HIDE DEF Bad
    <3> QED BY <2>1, LeastOf
  <2>3. n \in 1..MaxBlockDepth /\ n - 1 \in 0..MaxBlockDepth /\ ~(n <= n - 1)
    BY <1>2, <1>3, <2>2
  <2>4. n - 1 \notin Bad
    <3> HIDE DEF Bad
    <3> QED BY <2>2, <2>3
  <2>5. at[n - 1] \in SUBSET Bods
    BY <2>3, <2>4
  <2>6. at[n] \in SUBSET Bods
    BY <1>4, <1>5, <2>3, <2>5
  <2> QED BY <2>2, <2>6
<1> QED BY <1>3, <1>4, <1>6 DEF at

Renders(h, at, m) ==
  h = [n \in 0..m |->
         [b \in at[MaxBlockDepth - n] |->
            IF n = 0 \/ \E c \in Blocks(b) : h[n - 1][c].deep
              THEN TooDeep
              ELSE [deep |-> FALSE, lines |-> BodyLines(b, h[n - 1])]]]

LEMMA RenderingExists ==
  ASSUME NEW body
  PROVE  \E h : Renders(h, BodiesAt(body), MaxBlockDepth)
                 /\ renderBody(body) = h[MaxBlockDepth][body]
<1> DEFINE at == BodiesAt(body)
           Level(g, n) == [b \in at[MaxBlockDepth - n] |->
                             IF n = 0 \/ \E c \in Blocks(b) : g[n - 1][c].deep
                               THEN TooDeep
                               ELSE [deep |-> FALSE, lines |-> BodyLines(b, g[n - 1])]]
           Bad == {m \in Nat : ~\E h : Renders(h, at, m)}
<1>1. Bad = {}
  <2> SUFFICES ASSUME Bad # {} PROVE FALSE
    OBVIOUS
  <2>1. PICK m \in Bad : \A k \in Bad : m <= k
    BY LeastOf
  <2>2. CASE m = 0
    <3>1. Renders([n \in 0..0 |-> [b \in at[MaxBlockDepth - n] |-> TooDeep]], at, 0)
      BY DEF Renders
    <3> QED BY <2>2, <3>1
  <2>3. CASE m # 0
    <3>1. m \in Nat /\ m - 1 \in Nat /\ m - 1 \notin Bad
      <4>1. m \in Nat /\ m - 1 \in Nat /\ ~(m <= m - 1)
        BY <2>1, <2>3
      <4> HIDE DEF Bad
      <4> QED BY <2>1, <4>1
    <3>2. PICK g : Renders(g, at, m - 1)
      BY <3>1
    <3> DEFINE h == [n \in 0..m |-> Level(g, n)]
    <3>3. \A n \in 0..(m - 1) : h[n] = g[n]
      <4> TAKE n \in 0..(m - 1)
      <4>1. g = [k \in 0..(m - 1) |-> Level(g, k)]
        BY <3>2 DEF Renders
      <4>2. g[n] = Level(g, n)
        <5> HIDE DEF Level
        <5> QED BY <4>1
      <4>3. n \in 0..m
        BY <3>1
      <4>4. h[n] = Level(g, n)
        <5> HIDE DEF Level
        <5> QED BY <4>3
      <4> QED BY <4>2, <4>4
    <3>4. Renders(h, at, m)
      <4>1. h = [n \in 0..m |-> Level(g, n)]
        BY DEF h
      <4> HIDE DEF h
      <4>2. \A n \in 0..m : n # 0 => h[n - 1] = g[n - 1]
        BY <3>1, <3>3
      <4>3. \A n \in 0..m : Level(h, n) = Level(g, n)
        BY <4>2
      <4>4. h = [n \in 0..m |-> Level(h, n)]
        <5> HIDE DEF Level
        <5> QED BY <4>1, <4>3
      <4> QED BY <4>4 DEF Renders
    <3> QED BY <2>1, <3>4
  <2> QED BY <2>2, <2>3
<1>2. \E h : Renders(h, at, MaxBlockDepth)
  BY <1>1, PlanDiffAssumption
<1> DEFINE g == CHOOSE h : Renders(h, at, MaxBlockDepth)
<1>3. Renders(g, at, MaxBlockDepth)
  BY <1>2
<1>4. renderBody(body) = g[MaxBlockDepth][body]
  BY DEF renderBody, Renders
<1> QED BY <1>3, <1>4

\* At each level a body is too deep, or rendered from those of the level below.
RenderedFrom(h, n, b) ==
  h[n][b] = IF n = 0 \/ \E c \in Blocks(b) : h[n - 1][c].deep
              THEN TooDeep
              ELSE [deep |-> FALSE, lines |-> BodyLines(b, h[n - 1])]

LEMMA RenderedAt ==
  ASSUME NEW h, NEW at, Renders(h, at, MaxBlockDepth),
         NEW n \in 0..MaxBlockDepth, NEW b \in at[MaxBlockDepth - n]
  PROVE  RenderedFrom(h, n, b)
<1> DEFINE Of(k, c) == IF k = 0 \/ \E x \in Blocks(c) : h[k - 1][x].deep
                         THEN TooDeep
                         ELSE [deep |-> FALSE, lines |-> BodyLines(c, h[k - 1])]
<1>1. h = [k \in 0..MaxBlockDepth |-> [c \in at[MaxBlockDepth - k] |-> Of(k, c)]]
  BY DEF Renders
<1>2. h[n][b] = Of(n, b)
  <2> HIDE DEF Of
  <2> QED BY <1>1
<1> QED BY <1>2 DEF RenderedFrom

LEMMA RenderedLines ==
  ASSUME NEW Bods, FitBodies(Bods), NEW body \in Bods,
         NEW h, Renders(h, BodiesAt(body), MaxBlockDepth)
  PROVE  \A n \in 0..MaxBlockDepth : \A b \in BodiesAt(body)[MaxBlockDepth - n] :
           h[n][b].lines \in Seq(Line)
<1> DEFINE at == BodiesAt(body)
<1>2. MaxBlockDepth \in Nat
  BY PlanDiffAssumption
<1>3. /\ at[0] = {body}
      /\ \A n \in 1..MaxBlockDepth : at[n] = UNION {Blocks(b) : b \in at[n - 1]}
      /\ \A n \in 0..MaxBlockDepth : at[n] \in SUBSET Bods
  BY BodiesAtIs
<1> HIDE DEF at
<1> DEFINE LinesAt(n, b) == h[n][b].lines
           Wrong(n) == \E b \in at[MaxBlockDepth - n] : LinesAt(n, b) \notin Seq(Line)
           Bad == {n \in 0..MaxBlockDepth : Wrong(n)}
<1>4. Bad = {}
  <2> SUFFICES ASSUME Bad # {} PROVE FALSE
    OBVIOUS
  <2>1. Bad \in SUBSET Nat
    BY <1>2
  <2>2. PICK n \in Bad : \A k \in Bad : n <= k
    <3> HIDE DEF Bad
    <3> QED BY <2>1, LeastOf
  <2>3. n \in 0..MaxBlockDepth /\ MaxBlockDepth - n \in 0..MaxBlockDepth
    BY <1>2, <2>2
  <2>4. PICK b \in at[MaxBlockDepth - n] : LinesAt(n, b) \notin Seq(Line)
    BY <2>2
  <2>5. b \in Bods
    BY <1>3, <2>3
  <2>6. h[n][b] = IF n = 0 \/ \E c \in Blocks(b) : h[n - 1][c].deep
                    THEN TooDeep
                    ELSE [deep |-> FALSE, lines |-> BodyLines(b, h[n - 1])]
    <3>1. RenderedFrom(h, n, b)
      BY <2>3, <2>4, RenderedAt DEF at
    <3> HIDE DEF LinesAt, Wrong, Bad
    <3> QED BY <3>1 DEF RenderedFrom
  <2>7. n # 0 /\ LinesAt(n, b) = BodyLines(b, h[n - 1])
    <3>1. TooDeep.lines = <<>>
      BY DEF TooDeep
    <3>2. <<>> \in Seq(Line)
      OBVIOUS
    <3>3. h[n][b] # TooDeep
      BY <2>4, <3>1, <3>2
    <3> QED BY <2>6, <3>3
  <2>8. n - 1 \in 0..MaxBlockDepth /\ ~(n <= n - 1)
        /\ MaxBlockDepth - (n - 1) = (MaxBlockDepth - n) + 1
        /\ MaxBlockDepth - (n - 1) \in 1..MaxBlockDepth
        /\ (MaxBlockDepth - (n - 1)) - 1 = MaxBlockDepth - n
    BY <1>2, <2>3, <2>7
  <2>9. n - 1 \notin Bad
    <3> HIDE DEF Bad
    <3> QED BY <2>2, <2>8
  <2>10. \A c \in at[MaxBlockDepth - (n - 1)] : h[n - 1][c].lines \in Seq(Line)
    BY <2>8, <2>9
  <2>11. Blocks(b) \subseteq at[MaxBlockDepth - (n - 1)]
    BY <1>3, <2>4, <2>8
  <2>12. \A c \in Blocks(b) : h[n - 1][c].lines \in Seq(Line)
    BY <2>10, <2>11
  <2>13. BodyLines(b, h[n - 1]) \in Seq(Line)
    BY <2>5, <2>12, BodyLinesType
  <2> QED BY <2>4, <2>7, <2>13
<1> QED BY <1>4 DEF at

LEMMA LinesAreNames ==
  Seq(Line) \subseteq Seq(Names)
<1>1. Line \subseteq Names
  BY DEF Line
<1>2. \A A, B : A \subseteq B => Seq(A) \subseteq Seq(B)
  OBVIOUS
<1> QED BY <1>1, <1>2

LEMMA RenderedType ==
  ASSUME NEW Bods, FitBodies(Bods), NEW body \in Bods
  PROVE  renderBody(body).lines \in Seq(Names)
<1>1. PICK h : /\ Renders(h, BodiesAt(body), MaxBlockDepth)
               /\ renderBody(body) = h[MaxBlockDepth][body]
  BY RenderingExists
<1>2. MaxBlockDepth \in 0..MaxBlockDepth /\ MaxBlockDepth - MaxBlockDepth = 0
  BY PlanDiffAssumption
<1>3. body \in BodiesAt(body)[MaxBlockDepth - MaxBlockDepth]
  BY <1>2, BodiesAtIs
<1> QED BY <1>1, <1>2, <1>3, RenderedLines, LinesAreNames

-----------------------------------------------------------------------------
(* What is produced of a directory *)

ResourceOf(Bods) ==
  {r \in [id : Names, attrs : {b.attrs : b \in Bods}, body : Seq(Names)] : Len(r.id) = 2}

FitDirectory(Bods, dir) ==
  /\ DOMAIN dir \in SUBSET Names /\ IsFiniteSet(DOMAIN dir)
  /\ \A p \in DOMAIN dir : FitHolds(Bods, dir[p].holds)

LEMMA FileType ==
  ASSUME NEW Bods, FitBodies(Bods), NEW holds, FitHolds(Bods, holds), isTerraformFile(holds)
  PROVE  parseFile(holds).made \in Seq(ResourceOf(Bods))
<1> DEFINE I == {i \in DOMAIN holds.blocks : IsResource(holds.blocks[i])}
           T == {b \in BlockOf(Bods) : IsResource(b)}
           resources == Selected(holds.blocks, I)
<1>1. holds.blocks \in Seq(BlockOf(Bods))
  BY DEF FitHolds, isTerraformFile
<1>2. resources \in Seq(T)
  <2>1. \A i \in 1..Len(holds.blocks) : i \in I => holds.blocks[i] \in T
    BY <1>1
  <2> HIDE DEF I, T
  <2> QED BY <1>1, <2>1, SelectedType
<1>3. ASSUME NEW b \in T PROVE Resource(b) \in ResourceOf(Bods)
  <2>1. b.labels \in Names /\ Len(b.labels) = 2 /\ b.body \in Bods
    BY <1>3 DEF BlockOf, IsResource
  <2>2. renderBody(b.body).lines \in Seq(Names)
    BY <2>1, RenderedType
  <2> DEFINE id == b.labels
             attrs == b.body.attrs
             text == renderBody(b.body).lines
  <2>3. /\ id \in Names /\ Len(id) = 2 /\ text \in Seq(Names)
        /\ attrs \in {c.attrs : c \in Bods}
    BY <2>1, <2>2
  <2> HIDE DEF id, attrs, text
  <2>4. [id |-> id, attrs |-> attrs, body |-> text] \in ResourceOf(Bods)
    BY <2>3 DEF ResourceOf
  <2> QED BY <2>4 DEF Resource, id, attrs, text
<1>4. [i \in DOMAIN resources |-> Resource(resources[i])] \in Seq(ResourceOf(Bods))
  <2> HIDE DEF resources, T
  <2>1. Len(resources) \in Nat /\ DOMAIN resources = 1..Len(resources)
    BY <1>2
  <2>2. \A i \in 1..Len(resources) : Resource(resources[i]) \in ResourceOf(Bods)
    BY <1>2, <1>3, ElementOfSeq
  <2> QED BY <2>1, <2>2
<1>5. <<>> \in Seq(ResourceOf(Bods))
  OBVIOUS
<1>6. parseFile(holds).made \in {<<>>, [i \in DOMAIN resources |-> Resource(resources[i])]}
  BY DEF parseFile, Failed, Made
<1> QED BY <1>4, <1>5, <1>6

LEMMA ParsedType ==
  ASSUME NEW Bods, FitBodies(Bods), NEW dir, FitDirectory(Bods, dir), Parse(dir).error = "none"
  PROVE  Parse(dir).made \in Seq(ResourceOf(Bods))
<1> DEFINE P == {p \in DOMAIN dir : isTerraformFile(dir[p].holds)}
           files == Sorted(P)
           parsed == [i \in DOMAIN files |-> parseFile(dir[files[i]].holds)]
           failed == {i \in DOMAIN files : parsed[i].error # "none"}
           parts == [i \in DOMAIN files |-> parsed[i].made]
<1>1. P \in SUBSET Names /\ IsFiniteSet(P)
  BY FS_Subset DEF FitDirectory
<1>2. DOMAIN files = 1..Cardinality(P) /\ Cardinality(P) \in Nat /\ \A i \in DOMAIN files : files[i] \in P
  <2> HIDE DEF P
  <2> QED BY <1>1, SortedIs
<1>3. PICK n \in Nat : DOMAIN files = 1..n
  BY <1>2
<1>4. \A i \in 1..n : parsed[i].made \in Seq(ResourceOf(Bods))
  BY <1>2, <1>3, FileType DEF FitDirectory
<1> HIDE DEF files, parsed
<1>5. FlattenSeq(parts) \in Seq(ResourceOf(Bods))
  <2>1. parts \in [1..n -> Seq(ResourceOf(Bods))]
    BY <1>3, <1>4
  <2>2. parts \in Seq(Seq(ResourceOf(Bods)))
    <3> HIDE DEF parts
    <3> QED BY <1>3, <2>1
  <2> HIDE DEF parts
  <2> QED BY <2>2, FlattenType
<1>6. Parse(dir) = IF failed # {} THEN parsed[Min(failed)] ELSE Made(FlattenSeq(parts))
  BY Zenon DEF Parse, files, parsed
<1>7. CASE failed # {}
  <2>1. failed \in SUBSET Nat
    BY <1>3
  <2>2. Min(failed) \in failed
    <3> HIDE DEF failed
    <3> QED BY <1>7, <2>1, LeastOf DEF Min
  <2>3. parsed[Min(failed)].error # "none"
    BY <2>2
  <2> QED BY <1>6, <1>7, <2>3
<1>8. CASE failed = {}
  <2> HIDE DEF failed, parts
  <2>1. Parse(dir) = Made(FlattenSeq(parts))
    BY <1>6, <1>8
  <2> QED BY <1>5, <2>1 DEF Made
<1> QED BY <1>7, <1>8

LEMMA PlanManifestsType ==
  ASSUME NEW Bods, NEW made \in Seq(ResourceOf(Bods))
  PROVE  PlanManifests(made) \in Seq(Manifest)
<1>1. Len(made) \in Nat /\ DOMAIN made = 1..Len(made)
  OBVIOUS
<1>2. \A i \in 1..Len(made) :
        [id |-> <<made[i].id[1], 0, made[i].id[2]>>, lines |-> made[i].body] \in Manifest
  <2> TAKE i \in 1..Len(made)
  <2>1. made[i] \in ResourceOf(Bods)
    BY ElementOfSeq
  <2>2. made[i].id \in Names /\ Len(made[i].id) = 2 /\ made[i].body \in Seq(Names)
    BY <2>1 DEF ResourceOf
  <2>3. made[i].id[1] \in Nat /\ made[i].id[2] \in Nat
    BY <2>2 DEF Names
  <2>4. <<made[i].id[1], 0, made[i].id[2]>> \in Names
    BY <2>3, TripleIsLine
  <2> QED BY <2>2, <2>4 DEF Manifest
<1> QED BY <1>1, <1>2 DEF PlanManifests, toManifestdiffManifests

Object == [empty : {FALSE}, id : Names, lines : Seq(Names)]

Earlier == {p \in Names \X Names : Before(p[1], p[2])}

LEMMA EarlierOrders ==
  Orders(Earlier, Names)
BY BeforeOrders DEF Earlier

\* Manifests are in the order of their identities, and then of their texts.
LEMMA ManifestBeforeIs ==
  ASSUME NEW a \in Object, NEW b \in Object
  PROVE  ManifestBefore(a, b) <=>
           <<a.id, b.id>> \in Earlier \/ (a.id = b.id /\ Lex(Earlier, a.lines, b.lines))
<1> DEFINE s == a.lines
           t == b.lines
<1>1. a.id \in Names /\ b.id \in Names /\ s \in Seq(Names) /\ t \in Seq(Names)
  BY DEF Object
<1>2. Before(a.id, b.id) <=> <<a.id, b.id>> \in Earlier
  BY <1>1 DEF Earlier
<1> HIDE DEF s, t
<1>3. /\ Len(s) \in Nat /\ DOMAIN s = 1..Len(s) /\ \A i \in 1..Len(s) : s[i] \in Names
      /\ Len(t) \in Nat /\ \A i \in 1..Len(t) : t[i] \in Names
  BY <1>1
<1>4. Len(s) < Len(t) /\ IsPrefix(s, t) <=> Len(s) < Len(t) /\ \A j \in 1..Len(s) : s[j] = t[j]
  <2> SUFFICES ASSUME Len(s) < Len(t)
               PROVE  IsPrefix(s, t) <=> \A j \in 1..Len(s) : s[j] = t[j]
    OBVIOUS
  <2> DEFINE h == SubSeq(t, 1, Len(s))
  <2>1. /\ h \in Seq(Names) /\ Len(h) = Len(s) /\ \A j \in 1..Len(s) : h[j] = t[j]
    <3>1. Len(s) \in 0..Len(t)
      BY <1>3
    <3> QED BY <1>1, <1>3, <3>1
  <2>2. SubSeq(s, 1, Len(s)) = s
    BY <1>1, SubSeqFull
  <2>3. IsPrefix(s, t) <=> s = h
    BY <1>3, <2>2 DEF IsPrefix
  <2> HIDE DEF h
  <2>4. (\A j \in 1..Len(s) : s[j] = t[j]) => s = h
    <3> SUFFICES ASSUME \A j \in 1..Len(s) : s[j] = t[j] PROVE s = h
      OBVIOUS
    <3>1. \A j \in 1..Len(s) : s[j] = h[j]
      BY <2>1
    <3> QED BY <1>1, <2>1, <3>1, SeqEqual
  <2>5. s = h => \A j \in 1..Len(s) : s[j] = t[j]
    BY <2>1
  <2> QED BY <2>3, <2>4, <2>5
<1>5. (\E i \in DOMAIN s : /\ i <= Len(t) /\ Before(s[i], t[i])
                         /\ \A j \in 1..(i - 1) : s[j] = t[j])
        <=> \E i \in 1..Len(s) : /\ i <= Len(t) /\ <<s[i], t[i]>> \in Earlier
                                 /\ \A j \in 1..(i - 1) : s[j] = t[j]
  <2>1. \A i \in 1..Len(s) : i <= Len(t) => (Before(s[i], t[i]) <=> <<s[i], t[i]>> \in Earlier)
    <3> TAKE i \in 1..Len(s)
    <3>1. i <= Len(t) => i \in 1..Len(t)
      BY <1>3
    <3> QED BY <1>3, <3>1 DEF Earlier
  <2> QED BY <1>3, <2>1
<1>6. ManifestBefore(a, b) <=>
        \/ Before(a.id, b.id)
        \/ /\ a.id = b.id
           /\ \/ \E i \in DOMAIN s : /\ i <= Len(t) /\ Before(s[i], t[i])
                                     /\ \A j \in 1..(i - 1) : s[j] = t[j]
              \/ Len(s) < Len(t) /\ IsPrefix(s, t)
  BY DEF ManifestBefore, s, t
<1>7. Lex(Earlier, s, t) <=>
        \/ \E i \in 1..Len(s) : /\ i <= Len(t) /\ <<s[i], t[i]>> \in Earlier
                               /\ \A j \in 1..(i - 1) : s[j] = t[j]
        \/ Len(s) < Len(t) /\ \A j \in 1..Len(s) : s[j] = t[j]
  BY DEF Lex
<1>8. Lex(Earlier, a.lines, b.lines) <=> Lex(Earlier, s, t)
  BY DEF s, t
<1> QED BY <1>2, <1>4, <1>5, <1>6, <1>7, <1>8

LEMMA ObjectIs ==
  ASSUME NEW a \in Object
  PROVE  a = [empty |-> FALSE, id |-> a.id, lines |-> a.lines]
BY DEF Object

LEMMA ManifestsAreOrdered ==
  ASSUME NEW objects \in Seq(Object)
  PROVE  LET at == DOMAIN objects
         IN Orders({p \in at \X at :
                      \/ ManifestBefore(objects[p[1]], objects[p[2]])
                      \/ objects[p[1]] = objects[p[2]] /\ p[1] < p[2]}, at)
<1> DEFINE at == DOMAIN objects
           Named(i) == objects[i].id
           Worded(i) == objects[i].lines
           Comes(i, j) == \/ ManifestBefore(objects[i], objects[j])
                          \/ objects[i] = objects[j] /\ i < j
           R == {p \in at \X at : Comes(p[1], p[2])}
           IdsBefore(i, j) == <<Named(i), Named(j)>> \in Earlier
           TextsBefore(i, j) == Lex(Earlier, Worded(i), Worded(j))
<1>1. Orders(Earlier, Names)
  BY EarlierOrders
<1>2. \A i \in at : /\ objects[i] \in Object /\ Named(i) \in Names /\ Worded(i) \in Seq(Names)
                    /\ i \in Nat
  <2> TAKE i \in at
  <2>1. objects[i] \in Object /\ i \in Nat
    OBVIOUS
  <2> QED BY <2>1 DEF Object
<1>3. \A i, j \in at : Comes(i, j) <=> \/ IdsBefore(i, j)
                                       \/ Named(i) = Named(j) /\ TextsBefore(i, j)
                                       \/ objects[i] = objects[j] /\ i < j
  BY <1>2, ManifestBeforeIs
<1>4. \A i, j \in at : Named(i) = Named(j) /\ Worded(i) = Worded(j) => objects[i] = objects[j]
  <2> TAKE i, j \in at
  <2>1. /\ objects[i] = [empty |-> FALSE, id |-> Named(i), lines |-> Worded(i)]
        /\ objects[j] = [empty |-> FALSE, id |-> Named(j), lines |-> Worded(j)]
    BY <1>2, ObjectIs
  <2> HIDE DEF Named, Worded
  <2> QED BY <2>1
<1>5. \A i, j \in at : objects[i] = objects[j] => Named(i) = Named(j) /\ Worded(i) = Worded(j)
  OBVIOUS
<1>6. \A i \in at : ~IdsBefore(i, i) /\ ~TextsBefore(i, i)
  <2> TAKE i \in at
  <2> HIDE DEF Named, Worded
  <2> QED BY <1>1, <1>2, LexIrreflexive DEF Orders
<1>7. \A i, j \in at : Named(i) = Named(j) \/ IdsBefore(i, j) \/ IdsBefore(j, i)
  BY <1>1, <1>2 DEF Orders
<1>8. \A i, j \in at : Worded(i) = Worded(j) \/ TextsBefore(i, j) \/ TextsBefore(j, i)
  <2> TAKE i, j \in at
  <2> HIDE DEF Named, Worded
  <2> QED BY <1>1, <1>2, LexTotal
<1>9. \A i, j, k \in at : IdsBefore(i, j) /\ IdsBefore(j, k) => IdsBefore(i, k)
  <2> TAKE i, j, k \in at
  <2>1. Named(i) \in Names /\ Named(j) \in Names /\ Named(k) \in Names
    BY <1>2
  <2> HIDE DEF Named
  <2> QED BY <1>1, <2>1 DEF Orders
<1>10. \A i, j, k \in at : TextsBefore(i, j) /\ TextsBefore(j, k) => TextsBefore(i, k)
  <2> TAKE i, j, k \in at
  <2>1. Worded(i) \in Seq(Names) /\ Worded(j) \in Seq(Names) /\ Worded(k) \in Seq(Names)
    BY <1>2
  <2> HIDE DEF Worded
  <2> QED BY <1>1, <2>1, LexTransitive
<1>11. /\ \A i, j, k \in at : IdsBefore(i, j) /\ Named(j) = Named(k) => IdsBefore(i, k)
       /\ \A i, j, k \in at : Named(i) = Named(j) /\ IdsBefore(j, k) => IdsBefore(i, k)
       /\ \A i, j, k \in at : TextsBefore(i, j) /\ Worded(j) = Worded(k) => TextsBefore(i, k)
       /\ \A i, j, k \in at : Worded(i) = Worded(j) /\ TextsBefore(j, k) => TextsBefore(i, k)
  <2> HIDE DEF Named, Worded
  <2> QED OBVIOUS
<1> HIDE DEF IdsBefore, TextsBefore, Named, Worded, Comes
<1>12. \A i \in at : ~Comes(i, i)
  <2> TAKE i \in at
  <2>1. ~(i < i)
    BY <1>2
  <2> QED BY <1>3, <1>6, <2>1
<1>13. \A i, j, k \in at : Comes(i, j) /\ Comes(j, k) => Comes(i, k)
  <2> SUFFICES ASSUME NEW i \in at, NEW j \in at, NEW k \in at, Comes(i, j), Comes(j, k)
               PROVE  Comes(i, k)
    OBVIOUS
  <2>1. i < j /\ j < k => i < k
    BY <1>2
  <2>2. CASE IdsBefore(i, j)
    BY <1>3, <1>5, <1>9, <1>11, <2>2
  <2>3. CASE Named(i) = Named(j) /\ TextsBefore(i, j)
    <3>1. CASE IdsBefore(j, k)
      BY <1>3, <1>11, <2>3, <3>1
    <3>2. CASE Named(j) = Named(k) /\ TextsBefore(j, k)
      BY <1>3, <1>10, <2>3, <3>2
    <3>3. CASE objects[j] = objects[k] /\ j < k
      BY <1>3, <1>5, <1>11, <2>3, <3>3
    <3> QED BY <1>3, <3>1, <3>2, <3>3
  <2>4. CASE objects[i] = objects[j] /\ i < j
    <3>1. Named(i) = Named(j) /\ Worded(i) = Worded(j)
      BY <1>5, <2>4
    <3>2. CASE IdsBefore(j, k)
      BY <1>3, <1>11, <3>1, <3>2
    <3>3. CASE Named(j) = Named(k) /\ TextsBefore(j, k)
      BY <1>3, <1>11, <3>1, <3>3
    <3>4. CASE objects[j] = objects[k] /\ j < k
      BY <1>3, <2>1, <2>4, <3>4
    <3> QED BY <1>3, <3>2, <3>3, <3>4
  <2> QED BY <1>3, <2>2, <2>3, <2>4
<1>14. \A i, j \in at : i = j \/ Comes(i, j) \/ Comes(j, i)
  <2> TAKE i, j \in at
  <2>1. i = j \/ i < j \/ j < i
    BY <1>2
  <2>2. CASE Named(i) # Named(j)
    BY <1>3, <1>7, <2>2
  <2>3. CASE Named(i) = Named(j) /\ Worded(i) # Worded(j)
    BY <1>3, <1>8, <2>3
  <2>4. CASE Named(i) = Named(j) /\ Worded(i) = Worded(j)
    BY <1>3, <1>4, <2>1, <2>4
  <2> QED BY <2>2, <2>3, <2>4
<1>15. \A i, j \in at : <<i, j>> \in R <=> Comes(i, j)
  OBVIOUS
<1>16. Orders(R, at)
  <2> HIDE DEF R, at
  <2> QED BY <1>12, <1>13, <1>14, <1>15 DEF Orders
<1> QED BY <1>16 DEF Comes

LEMMA NormalizedType ==
  ASSUME NEW documents \in Seq(Document), normalize(documents).error = "none"
  PROVE  normalize(documents).made \in Seq(Manifest)
<1> DEFINE I == {i \in DOMAIN documents : IsObject(documents[i])}
           objects == Selected(documents, I)
           at == DOMAIN objects
           R == {p \in at \X at :
                   \/ ManifestBefore(objects[p[1]], objects[p[2]])
                   \/ objects[p[1]] = objects[p[2]] /\ p[1] < p[2]}
           order == InOrder(at, R)
           made == [i \in at |-> [id |-> objects[order[i]].id, lines |-> objects[order[i]].lines]]
<1>1. objects \in Seq(Object)
  <2>1. \A i \in 1..Len(documents) : i \in I => documents[i] \in Object
    <3> TAKE i \in 1..Len(documents)
    <3>1. documents[i] \in Document
      OBVIOUS
    <3>2. i \in I => ~documents[i].empty
      BY DEF IsObject
    <3> QED BY <3>1, <3>2 DEF Document, Object
  <2> HIDE DEF I
  <2> QED BY <2>1, SelectedType
<1> HIDE DEF objects
<1>2. PICK n \in Nat : n = Len(objects) /\ at = 1..n
  BY <1>1
<1>3. Orders(R, at)
  BY <1>1, ManifestsAreOrdered
<1>4. IsFiniteSet(at) /\ Cardinality(at) = n
  <2>1. IsFiniteSet(1..n) /\ Cardinality(1..n) = IF 1 > n THEN 0 ELSE n - 1 + 1
    BY FS_Interval
  <2>2. (IF 1 > n THEN 0 ELSE n - 1 + 1) = n
    OBVIOUS
  <2> HIDE DEF at
  <2> QED BY <1>2, <2>1, <2>2
<1>5. \A i \in at : order[i] \in at
  <2>1. at = 1..Cardinality(at)
    BY <1>2, <1>4
  <2> HIDE DEF at, R
  <2> QED BY <1>3, <1>4, <2>1, InOrderIs
<1> HIDE DEF order
<1>6. \A i \in at : [id |-> objects[order[i]].id, lines |-> objects[order[i]].lines] \in Manifest
  <2> TAKE i \in at
  <2> DEFINE o == objects[order[i]]
  <2>1. o \in Object
    BY <1>1, <1>5
  <2>2. o.id \in Names /\ o.lines \in Seq(Names)
    BY <2>1 DEF Object
  <2> HIDE DEF o
  <2>3. [id |-> o.id, lines |-> o.lines] \in Manifest
    BY <2>2 DEF Manifest
  <2> QED BY <2>3 DEF o
<1>7. made \in Seq(Manifest)
  <2> HIDE DEF at
  <2>1. made \in [1..n -> Manifest]
    BY <1>2, <1>6
  <2> HIDE DEF made
  <2> QED BY <2>1
<1>8. normalize(documents) = IF \E i \in DOMAIN objects : objects[i].id[1] = 0
                               THEN RenderFailed("malformed-chart") ELSE Rendered(made)
  BY Zenon DEF normalize, objects, order
<1> HIDE DEF made
<1>9. normalize(documents) = Rendered(made)
  <2>1. RenderFailed("malformed-chart").error # "none"
    BY DEF RenderFailed
  <2> QED BY <1>8, <2>1
<1> QED BY <1>7, <1>9 DEF Rendered

LEMMA RenderedChartType ==
  ASSUME NEW Bods, NEW dir, FitDirectory(Bods, dir), Render(dir).error = "none"
  PROVE  Render(dir).made \in Seq(Manifest)
<1> DEFINE P == Holding(dir, "template") \cup Holding(dir, "vendored")
           files == Sorted(P)
           parts == [i \in DOMAIN files |-> dir[files[i]].holds.documents]
<1>1. /\ P \in SUBSET Names /\ IsFiniteSet(P)
      /\ \A p \in P : dir[p].holds.documents \in Seq(Document)
  <2>1. P \in SUBSET DOMAIN dir /\ \A p \in P : dir[p].holds.what \in {"template", "vendored"}
    BY DEF Holding
  <2> QED BY <2>1, FS_Subset DEF FitDirectory, FitHolds
<1>2. DOMAIN files = 1..Cardinality(P) /\ Cardinality(P) \in Nat /\ \A i \in DOMAIN files : files[i] \in P
  <2> HIDE DEF P
  <2> QED BY <1>1, SortedIs
<1>3. PICK n \in Nat : DOMAIN files = 1..n
  BY <1>2
<1>4. \A i \in 1..n : dir[files[i]].holds.documents \in Seq(Document)
  BY <1>1, <1>2, <1>3
<1> HIDE DEF files
<1>5. FlattenSeq(parts) \in Seq(Document)
  <2>1. parts \in [1..n -> Seq(Document)]
    BY <1>3, <1>4
  <2> HIDE DEF parts
  <2>2. parts \in Seq(Seq(Document))
    BY <1>3, <2>1
  <2> QED BY <2>2, FlattenType
<1>6. Documents(dir) = FlattenSeq(parts)
  BY DEF Documents, files
<1> HIDE DEF parts
<1>7. Render(dir) = normalize(Documents(dir))
  <2>1. /\ RenderFailed("malformed-chart").error # "none"
        /\ RenderFailed("dependency-not-vendored").error # "none"
    BY DEF RenderFailed
  <2>2. Loads(dir) /\ missingDependencies(dir) = {}
    BY <2>1 DEF Render
  <2> QED BY <2>1, <2>2 DEF Render
<1> QED BY <1>5, <1>6, <1>7, NormalizedType

-----------------------------------------------------------------------------
(* The walks of a diff *)

\* No walk is on when a diff begins.
OffAtStart == job \in Jobs /\ (side = "start" => walk = "off")

LEMMA StepsWalk ==
  ASSUME OffAtStart, [Next]_vars
  PROVE  [WalkNext(Trees)]_walkVars
<1>1. job.parent.entries \in Trees /\ job.tree.entries \in Trees
  BY DEF OffAtStart, Trees
<1>2. CASE Start
  BY <1>1, <1>2 DEF Start, OffAtStart, Materialize, FailsWith, WalkNext
<1>3. CASE Walk
  BY <1>3 DEF Walk, WalkNext
<1>4. CASE ReadFails
  BY <1>4 DEF ReadFails, WalkNext
<1>5. CASE TimesOut \/ Breaks \/ NotMaterialized \/ CannotProduce
  BY <1>5 DEF TimesOut, Breaks, NotMaterialized, CannotProduce, FailsWith, WalkNext
<1>6. CASE ProduceOld
  <2>1. walk = "done"
    BY <1>6 DEF ProduceOld, Produces
  <2> QED BY <1>1, <1>6, <2>1 DEF ProduceOld, WalkNext
<1>7. CASE ProduceNew
  BY <1>7 DEF ProduceNew, WalkNext
<1>8. CASE UNCHANGED vars
  BY <1>8 DEF vars, walkVars
<1> QED BY <1>2, <1>3, <1>4, <1>5, <1>6, <1>7, <1>8 DEF Next, Over

LEMMA OffAtStartIsKept ==
  ASSUME OffAtStart, [Next]_vars
  PROVE  OffAtStart'
<1>1. job' = job
  BY DEF Next, Start, Materialize, Walk, ReadFails, TimesOut, Breaks, NotMaterialized,
         CannotProduce, ProduceOld, ProduceNew, Over, FailsWith, vars, diffVars
<1>2. side' = "start" => side = "start" /\ UNCHANGED walkVars
  BY DEF Next, Start, Materialize, Walk, ReadFails, TimesOut, Breaks, NotMaterialized,
         CannotProduce, ProduceOld, ProduceNew, Over, FailsWith, vars, diffVars, Working
<1> QED BY <1>1, <1>2 DEF OffAtStart, walkVars

\* A diff uses the directory of its walks as they do: each walk begins when the
\* last has ended, with the tree of a side, and nothing else writes
\* (materializeAndProduce and MaterializeSubtreeBounded).
THEOREM DiffWalks ==
  Spec => DirectoryIsWalked
<1>1. Init => OffAtStart /\ bounds \in Ceilings /\ WalkInit
  BY SubtreeDiffAssumption DEF Init, OffAtStart, WalkInit
<1>2. OffAtStart /\ [Next]_vars => OffAtStart'
  BY OffAtStartIsKept
<1>3. OffAtStart /\ [Next]_vars => [WalkNext(Trees)]_walkVars
  BY StepsWalk
<1> QED BY <1>1, <1>2, <1>3, PTL DEF Spec, DirectoryIsWalked

-----------------------------------------------------------------------------
(* What a diff says *)

\* What a side has produced.
FitMade(Bods, made) ==
  IF job.kind = "plan" THEN made \in Seq(ResourceOf(Bods)) ELSE made \in Seq(Manifest)

FitDisk(Bods) ==
  \A p \in DOMAIN disk : p \in Names /\ FitHolds(Bods, disk[p].holds)

\* A diff that is over says what some scripts make of what its sides produced.
Says(Bods) ==
  /\ side \in {"start", "old", "new", "over"}
  /\ side # "over" => outcome = NoOutcome
  /\ side = "new" => FitMade(Bods, old)
  /\ Succeeded =>
       /\ FitMade(Bods, old) /\ FitMade(Bods, new)
       /\ \E scripts \in LineDiffs(Old, New) :
            outcome.diff = Diff(Old, New, scripts, MaxUnifiedBytes)

DiffInv(Entries, Bods) ==
  OffAtStart /\ Within(Entries) /\ FitDisk(Bods) /\ Says(Bods)

LEMMA IndexedSides ==
  ASSUME NEW Bods, NEW made, FitMade(Bods, made)
  PROVE  Indexed(indexByIdentity(Manifests(made)), Names)
<1>1. Manifests(made) \in Seq(Manifest)
  BY PlanManifestsType DEF Manifests, FitMade
<1> QED BY <1>1, IndexedByIdentity

LEMMA FitDiskIsKept ==
  ASSUME NEW Entries, NEW Bods, FitTrees(Entries, Bods), Within(Entries), FitDisk(Bods),
         [WalkNext(Trees)]_walkVars
  PROVE  FitDisk(Bods)'
<1>1. CASE disk' = disk
  BY <1>1 DEF FitDisk
<1>2. CASE disk' = Nothing
  <2>1. DOMAIN disk' = {}
    BY <1>2, NothingWritten
  <2> QED BY <2>1 DEF FitDisk
<1>3. ASSUME NEW n, disk' = OnDisk(n), walk = "on", Top.entries # <<>>,
             Entry.mode \in isMaterializableFile
      PROVE  FitDisk(Bods)'
  <2>1. Entry \in Entries /\ Path \in Seq(NamesOf(Entries))
    BY <1>3, NextEntry
  <2>2. Path \in Names /\ FitHolds(Bods, Entry.holds)
    <3>1. \A A, B : A \subseteq B => Seq(A) \subseteq Seq(B)
      OBVIOUS
    <3> QED BY <1>3, <2>1, <3>1 DEF FitTrees, Names, NamesOf
  <2> DEFINE file == [bytes |-> n, holds |-> Entry.holds]
  <2>3. disk' = [p \in DOMAIN disk \cup {Path} |-> IF p = Path THEN file ELSE disk[p]]
    BY <1>3 DEF OnDisk
  <2>4. file.holds = Entry.holds
    OBVIOUS
  <2> HIDE DEF file
  <2>5. \A p \in DOMAIN disk' : p \in Names /\ FitHolds(Bods, disk'[p].holds)
    <3> TAKE p \in DOMAIN disk'
    <3>1. CASE p = Path
      <4>1. disk'[p] = file
        BY <2>3, <3>1
      <4> QED BY <2>2, <2>4, <3>1, <4>1
    <3>2. CASE p # Path
      <4>1. p \in DOMAIN disk /\ disk'[p] = disk[p]
        BY <2>3, <3>2
      <4> QED BY <4>1 DEF FitDisk
    <3> QED BY <3>1, <3>2
  <2> QED BY <2>5 DEF FitDisk, FitHolds, BlockOf, Names
<1>4. CASE WriteFile
  <2>1. /\ disk' = OnDisk(Copied) /\ walk = "on" /\ Top.entries # <<>>
        /\ Entry.mode \in isMaterializableFile
    BY <1>4 DEF WriteFile, Visits
  <2> QED BY <1>3, <2>1
<1>5. CASE WalkFails
  <2>1. CASE disk' = disk
    BY <1>1, <2>1
  <2>2. CASE disk' # disk
    <3>1. walk = "on" /\ Top.entries # <<>> /\ Entry.mode \in isMaterializableFile
      BY <1>5, <2>2 DEF WalkFails, Visits
    <3>2. PICK n \in {0, Copied} : disk' = OnDisk(n)
      BY <1>5, <2>2 DEF WalkFails
    <3> QED BY <1>3, <3>1, <3>2
  <2> QED BY <2>1, <2>2
<1> QED BY <1>1, <1>2, <1>4, <1>5
        DEF WalkNext, WalkStep, TooManyNodes, Descend, Skip, RefuseFile, Ascend, Begin,
            RemoveAll, walkVars

\* What is produced of the directory, when nothing fails, is fit.
LEMMA ProducedType ==
  ASSUME NEW Entries, NEW Bods, FitTrees(Entries, Bods), Within(Entries), FitDisk(Bods),
         Produce.error = "none"
  PROVE  FitMade(Bods, Produce.made)
<1>1. FitDirectory(Bods, disk)
  BY DEF FitDirectory, FitDisk, Within, Written
<1>2. FitBodies(Bods)
  BY DEF FitTrees
<1>3. CASE job.kind = "plan"
  <2>1. Produce = Parse(disk)
    BY <1>3 DEF Produce
  <2>2. Produce.made \in Seq(ResourceOf(Bods))
    BY <1>1, <1>2, <2>1, ParsedType
  <2> QED BY <1>3, <2>2 DEF FitMade
<1>4. CASE job.kind # "plan"
  <2>1. Produce = Render(disk)
    BY <1>4 DEF Produce
  <2>2. Produce.made \in Seq(Manifest)
    BY <1>1, <2>1, RenderedChartType
  <2> QED BY <1>4, <2>2 DEF FitMade
<1> QED BY <1>3, <1>4

\* No failure is classified as a success.
LEMMA FailingSays ==
  ASSUME NEW Bods, NEW failure, side' = "over", outcome' = [kind |-> Classify(failure)]
  PROVE  Says(Bods)'
<1>1. Classify(failure) # "ok"
  BY DEF Classify, PlanClassify, ChartClassify
<1>2. outcome'.kind # "ok"
  BY <1>1
<1> QED BY <1>2 DEF Says, Succeeded

LEMMA WaitingSays ==
  ASSUME NEW Bods, side' \in {"start", "old"}, outcome' = NoOutcome
  PROVE  Says(Bods)'
BY DEF Says, Succeeded, NoOutcome

LEMMA StayingSays ==
  ASSUME NEW Bods, Says(Bods), UNCHANGED <<job, side, old, new, outcome>>
  PROVE  Says(Bods)'
BY DEF Says, Succeeded, FitMade, Old, New, Manifests

LEMMA ProduceOldSays ==
  ASSUME NEW Entries, NEW Bods, FitTrees(Entries, Bods), DiffInv(Entries, Bods), ProduceOld
  PROVE  Says(Bods)'
<1>1. /\ job' = job /\ new' = new /\ old' = Produce.made /\ Produce.error = "none"
      /\ side = "old"
  BY DEF ProduceOld, Produces
<1>2. FitMade(Bods, Produce.made)
  BY <1>1, ProducedType DEF DiffInv
<1>3. CASE job.tree = NotThere
  <2>1. side' = "over" /\ outcome' = [kind |-> Classify("internal")]
    BY <1>3 DEF ProduceOld
  <2> QED BY <2>1, FailingSays
<1>4. CASE job.tree # NotThere
  <2>1. side' = "new" /\ outcome' = outcome
    BY <1>4 DEF ProduceOld
  <2>2. outcome' = NoOutcome
    BY <1>1, <2>1 DEF DiffInv, Says
  <2>3. FitMade(Bods, old)'
    BY <1>1, <1>2 DEF FitMade
  <2> QED BY <2>1, <2>2, <2>3 DEF Says, Succeeded, NoOutcome
<1> QED BY <1>3, <1>4

LEMMA ProduceNewSays ==
  ASSUME NEW Entries, NEW Bods, FitTrees(Entries, Bods), DiffInv(Entries, Bods), ProduceNew
  PROVE  Says(Bods)'
<1>1. /\ job' = job /\ old' = old /\ new' = Produce.made /\ Produce.error = "none"
      /\ side = "new" /\ side' = "over"
  BY DEF ProduceNew, Produces
<1>2. FitMade(Bods, old) /\ FitMade(Bods, Produce.made)
  BY <1>1, ProducedType DEF DiffInv, Says
<1>3. FitMade(Bods, old)' /\ FitMade(Bods, new)'
  BY <1>1, <1>2 DEF FitMade
<1>4. Old' = Old /\ New' = indexByIdentity(Manifests(Produce.made))
  BY <1>1 DEF Old, New, Manifests
<1>5. PICK scripts \in LineDiffs(Old, indexByIdentity(Manifests(Produce.made))) :
        outcome' = Combine(Produce.made, scripts)
  BY DEF ProduceNew
<1>6. outcome'.diff = Diff(Old, indexByIdentity(Manifests(Produce.made)), scripts, MaxUnifiedBytes)
  BY <1>5 DEF Combine
<1>7. /\ scripts \in LineDiffs(Old', New')
      /\ outcome'.diff = Diff(Old', New', scripts, MaxUnifiedBytes)
  BY <1>4, <1>5, <1>6
<1> QED BY <1>1, <1>3, <1>7 DEF Says

LEMMA SaysIsKept ==
  ASSUME NEW Entries, NEW Bods, FitTrees(Entries, Bods), DiffInv(Entries, Bods), [Next]_vars
  PROVE  Says(Bods)'
<1>1. CASE Start
  <2>1. outcome = NoOutcome
    BY <1>1 DEF Start, DiffInv, Says
  <2>2. CASE \E failure : FailsWith(failure)
    BY <2>2, FailingSays DEF FailsWith
  <2>3. CASE ~\E failure : FailsWith(failure)
    <3>1. side' = "old" /\ outcome' = outcome
      BY <1>1, <2>3 DEF Start, Materialize
    <3> QED BY <2>1, <3>1, WaitingSays
  <2> QED BY <2>2, <2>3
<1>2. CASE Walk \/ ReadFails \/ UNCHANGED vars
  <2>1. UNCHANGED <<job, side, old, new, outcome>>
    BY <1>2 DEF Walk, ReadFails, vars, diffVars
  <2> QED BY <2>1, StayingSays DEF DiffInv
<1>3. CASE TimesOut \/ Breaks \/ NotMaterialized \/ CannotProduce
  <2>1. \E failure : FailsWith(failure)
    BY <1>3 DEF TimesOut, Breaks, NotMaterialized, CannotProduce
  <2> QED BY <2>1, FailingSays DEF FailsWith
<1>4. CASE ProduceOld
  BY <1>4, ProduceOldSays
<1>5. CASE ProduceNew
  BY <1>5, ProduceNewSays
<1> QED BY <1>1, <1>2, <1>3, <1>4, <1>5 DEF Next, Over

LEMMA DiffInvariant ==
  Spec => []DiffInv(TreeEntries, BlockBodies)
<1> DEFINE Entries == TreeEntries
           Bods == BlockBodies
<1>3. FitTrees(Entries, Bods) /\ AllBounds \subseteq Ceilings
  BY SubtreeDiffAssumption
<1> HIDE DEF Entries, Bods
<1>1. Init => DiffInv(Entries, Bods)
  <2> SUFFICES ASSUME Init PROVE DiffInv(Entries, Bods)
    OBVIOUS
  <2>1. OffAtStart /\ bounds \in Ceilings /\ WalkInit
    BY <1>3 DEF Init, OffAtStart, WalkInit
  <2>2. Within(Entries)
    BY <2>1, WithinAtFirst
  <2>3. FitDisk(Bods)
    BY <2>1, NothingWritten DEF WalkInit, FitDisk
  <2>4. Says(Bods)
    BY DEF Init, Says, Succeeded, NoOutcome
  <2> QED BY <2>1, <2>2, <2>3, <2>4 DEF DiffInv
<1>2. DiffInv(Entries, Bods) /\ [Next]_vars => DiffInv(Entries, Bods)'
  <2> SUFFICES ASSUME DiffInv(Entries, Bods), [Next]_vars PROVE DiffInv(Entries, Bods)'
    OBVIOUS
  <2>1. OffAtStart' /\ [WalkNext(Trees)]_walkVars
    BY OffAtStartIsKept, StepsWalk DEF DiffInv
  <2>2. Within(Entries)'
    BY <1>3, <2>1, WithinIsKept DEF DiffInv, FitTrees
  <2>3. FitDisk(Bods)'
    BY <1>3, <2>1, FitDiskIsKept DEF DiffInv
  <2>4. Says(Bods)'
    BY <1>3, SaysIsKept
  <2> QED BY <2>1, <2>2, <2>3, <2>4 DEF DiffInv
<1>4. Spec => []DiffInv(Entries, Bods)
  BY <1>1, <1>2, PTL DEF Spec
<1> QED BY <1>4 DEF Entries, Bods

\* While a diff goes on, and however it ends, its directory is within the
\* ceilings it was begun with (materializeAndProduce, internal/subtree).
THEOREM DiffStaysWithin ==
  Spec => []CeilingsHold
<1>1. Spec => DirectoryIsWalked
  BY DiffWalks
<1>2. DirectoryIsWalked => WalkSpec(Trees)
  BY DEF DirectoryIsWalked, WalkSpec
<1>3. WalkSpec(Trees) => []CeilingsHold
  BY SubtreeDiffAssumption, CeilingsAreKept DEF FitTrees
<1> QED BY <1>1, <1>2, <1>3

\* Whatever the trees hold, whichever scripts the line differ finds and wherever
\* the text is cut, the unified text and the counts of added and removed lines
\* are those of the two sides (manifestdiff.Diff and truncateAtLineBoundary).
THEOREM UnifiedTextReadsBack ==
  Spec => []UnifiedReadsBack
<1>1. DiffInv(TreeEntries, BlockBodies) => UnifiedReadsBack
  <2> SUFFICES ASSUME Says(BlockBodies), Succeeded PROVE UnifiedReadsBack
    BY DEF DiffInv, UnifiedReadsBack
  <2>1. PICK scripts \in LineDiffs(Old, New) :
          outcome.diff = Diff(Old, New, scripts, MaxUnifiedBytes)
    BY DEF Says
  <2>2. Indexed(Old, Names) /\ Indexed(New, Names)
    BY IndexedSides DEF Says, Old, New
  <2>3. MaxUnifiedBytes \in Nat
    BY PlanDiffAssumption
  <2>4. ReadsBack(outcome.diff, Old, New, MaxUnifiedBytes)
    BY <2>1, <2>2, <2>3, DiffReadsBack
  <2>5. Text(Old) = TextOf(Old, Old, New) /\ Text(New) = TextOf(New, Old, New)
    BY DEF Text, TextOf, Differing
  <2> QED BY <2>4, <2>5 DEF ReadsBack, UnifiedReadsBack
<1>2. Spec => []DiffInv(TreeEntries, BlockBodies)
  BY DiffInvariant
<1> QED BY <1>1, <1>2, PTL

-----------------------------------------------------------------------------
(* What a finished walk has written *)

\* An entry of a tree and the path that leads to it.
NodeOf(Entries) == [path : Names, entry : Entries]
Node(path, e) == [path |-> Append(path, e.name), entry |-> e]
NodesOf(path, entries) == {Node(path, entries[i]) : i \in DOMAIN entries}
Kids(x) == NodesOf(x.path, x.entry.entries)
IsDir(x) == x.entry.mode = "dir"
IsFile(x) == x.entry.mode \in isMaterializableFile

\* Entries that are a tree's.
FitEntries(Entries) == WellFormed(Entries) /\ \A e \in Entries : e.name \in Nat

\* From directory to directory, down to an entry.
Trail(Entries, ds) ==
  /\ ds \in Seq(NodeOf(Entries)) /\ Len(ds) >= 1
  /\ \A i \in 1..(Len(ds) - 1) : IsDir(ds[i]) /\ ds[i + 1] \in Kids(ds[i])

\* x is one of S or at most m levels below.
Leads(Entries, S, m, x) ==
  \E ds : Trail(Entries, ds) /\ Len(ds) <= m + 1 /\ ds[1] \in S /\ ds[Len(ds)] = x

LEMMA NodeType ==
  ASSUME NEW Entries, FitEntries(Entries), NEW path \in Names, NEW e \in Entries
  PROVE  Node(path, e) \in NodeOf(Entries)
<1>1. Append(path, e.name) \in Names
  BY DEF FitEntries, Names
<1> QED BY <1>1 DEF Node, NodeOf

LEMMA NodesType ==
  ASSUME NEW Entries, FitEntries(Entries), NEW path \in Names, NEW entries \in Seq(Entries)
  PROVE  NodesOf(path, entries) \in SUBSET NodeOf(Entries)
<1>1. \A i \in DOMAIN entries : entries[i] \in Entries
  OBVIOUS
<1> QED BY <1>1, NodeType DEF NodesOf

LEMMA KidsType ==
  ASSUME NEW Entries, FitEntries(Entries), NEW x \in NodeOf(Entries), IsDir(x)
  PROVE  Kids(x) \in SUBSET NodeOf(Entries)
<1>1. x.path \in Names /\ x.entry \in Entries
  BY DEF NodeOf
<1>2. x.entry.entries \in Seq(Entries)
  BY <1>1 DEF FitEntries, WellFormed, IsDir
<1> QED BY <1>1, <1>2, NodesType DEF Kids

LEMMA LeadsToItself ==
  ASSUME NEW Entries, NEW m \in Nat, NEW S, NEW x \in NodeOf(Entries), x \in S
  PROVE  Leads(Entries, S, m, x)
<1> DEFINE ds == <<x>>
<1>1. ds \in Seq(NodeOf(Entries)) /\ Len(ds) = 1 /\ ds[1] = x
  OBVIOUS
<1> HIDE DEF ds
<1>2. Trail(Entries, ds) /\ Len(ds) <= m + 1
  BY <1>1 DEF Trail
<1> QED BY <1>1, <1>2 DEF Leads

LEMMA LeadsOnlyToItself ==
  ASSUME NEW Entries, NEW m, NEW x0, ~IsDir(x0), NEW x, Leads(Entries, {x0}, m, x)
  PROVE  x = x0
<1>1. PICK ds : Trail(Entries, ds) /\ ds[1] = x0 /\ ds[Len(ds)] = x
  BY DEF Leads
<1>2. Len(ds) \in Nat /\ Len(ds) >= 1
  BY <1>1 DEF Trail
<1>3. CASE Len(ds) = 1
  BY <1>1, <1>3
<1>4. CASE Len(ds) # 1
  <2>1. 1 \in 1..(Len(ds) - 1)
    <3> DEFINE n == Len(ds)
    <3>1. n \in Nat /\ n >= 1 /\ n # 1
      BY <1>2, <1>4
    <3> HIDE DEF n
    <3>2. 1 \in 1..(n - 1)
      BY <3>1
    <3> QED BY <3>2 DEF n
  <2>2. \A i \in 1..(Len(ds) - 1) : IsDir(ds[i])
    BY <1>1 DEF Trail
  <2> QED BY <1>1, <2>1, <2>2
<1> QED BY <1>3, <1>4

LEMMA LeadsApart ==
  ASSUME NEW Entries, NEW m, NEW S, NEW T, NEW x
  PROVE  Leads(Entries, S \cup T, m, x) <=> Leads(Entries, S, m, x) \/ Leads(Entries, T, m, x)
BY DEF Leads

LEMMA LeadsDown ==
  ASSUME NEW Entries, FitEntries(Entries), NEW m \in Nat, m # 0,
         NEW x0 \in NodeOf(Entries), IsDir(x0), NEW x, x # x0
  PROVE  Leads(Entries, {x0}, m, x) <=> Leads(Entries, Kids(x0), m - 1, x)
<1>1. ASSUME Leads(Entries, {x0}, m, x) PROVE Leads(Entries, Kids(x0), m - 1, x)
  <2>1. PICK ds : Trail(Entries, ds) /\ Len(ds) <= m + 1 /\ ds[1] = x0 /\ ds[Len(ds)] = x
    BY <1>1 DEF Leads
  <2>2. /\ ds \in Seq(NodeOf(Entries)) /\ Len(ds) \in Nat /\ Len(ds) >= 1 /\ Len(ds) # 1
        /\ \A i \in 1..(Len(ds) - 1) : IsDir(ds[i]) /\ ds[i + 1] \in Kids(ds[i])
    BY <2>1 DEF Trail
  <2> DEFINE n == Len(ds) - 1
             es == [i \in 1..n |-> ds[i + 1]]
  <2>3. n \in Nat /\ n >= 1 /\ n <= m
    BY <2>1, <2>2
  <2>4. \A i \in 1..n : i + 1 \in 1..Len(ds) /\ ds[i + 1] \in NodeOf(Entries)
    BY <2>2
  <2>5. es \in Seq(NodeOf(Entries)) /\ Len(es) = n /\ \A i \in 1..n : es[i] = ds[i + 1]
    BY <2>3, <2>4
  <2> HIDE DEF es
  <2>6. \A i \in 1..(n - 1) : IsDir(es[i]) /\ es[i + 1] \in Kids(es[i])
    <3> TAKE i \in 1..(n - 1)
    <3>1. i \in 1..n /\ i + 1 \in 1..n /\ i + 1 \in 1..(Len(ds) - 1) /\ (i + 1) + 1 = i + 2
      BY <2>3
    <3>2. es[i] = ds[i + 1] /\ es[i + 1] = ds[(i + 1) + 1]
      BY <2>5, <3>1
    <3> QED BY <2>2, <3>1, <3>2
  <2>7. es[1] \in Kids(x0) /\ es[Len(es)] = x
    <3>1. 1 \in 1..(Len(ds) - 1) /\ n \in 1..n /\ n + 1 = Len(ds) /\ 1 \in 1..n
      BY <2>2, <2>3
    <3> QED BY <2>1, <2>2, <2>5, <3>1
  <2>8. Trail(Entries, es) /\ Len(es) <= (m - 1) + 1
    BY <2>3, <2>5, <2>6 DEF Trail
  <2> QED BY <2>7, <2>8 DEF Leads
<1>2. ASSUME Leads(Entries, Kids(x0), m - 1, x) PROVE Leads(Entries, {x0}, m, x)
  <2>1. PICK ds : Trail(Entries, ds) /\ Len(ds) <= (m - 1) + 1 /\ ds[1] \in Kids(x0)
                  /\ ds[Len(ds)] = x
    BY <1>2 DEF Leads
  <2>2. /\ ds \in Seq(NodeOf(Entries)) /\ Len(ds) \in Nat /\ Len(ds) >= 1
        /\ \A i \in 1..(Len(ds) - 1) : IsDir(ds[i]) /\ ds[i + 1] \in Kids(ds[i])
    BY <2>1 DEF Trail
  <2> DEFINE n == Len(ds) + 1
             es == [i \in 1..n |-> IF i = 1 THEN x0 ELSE ds[i - 1]]
  <2>3. n \in Nat /\ n >= 2 /\ n <= m + 1
    BY <2>1, <2>2
  <2>4. \A i \in 1..n : i # 1 => i - 1 \in 1..Len(ds) /\ ds[i - 1] \in NodeOf(Entries)
    BY <2>2
  <2>5. /\ es \in Seq(NodeOf(Entries)) /\ Len(es) = n
        /\ \A i \in 1..n : es[i] = IF i = 1 THEN x0 ELSE ds[i - 1]
    BY <2>3, <2>4
  <2> HIDE DEF es
  <2>6. \A i \in 1..(n - 1) : IsDir(es[i]) /\ es[i + 1] \in Kids(es[i])
    <3> TAKE i \in 1..(n - 1)
    <3>1. i \in 1..n /\ i + 1 \in 1..n /\ i + 1 # 1 /\ (i + 1) - 1 = i
      BY <2>3
    <3>2. es[i + 1] = ds[i] /\ es[i] = IF i = 1 THEN x0 ELSE ds[i - 1]
      BY <2>5, <3>1
    <3>3. CASE i = 1
      BY <2>1, <3>2, <3>3
    <3>4. CASE i # 1
      <4>1. i - 1 \in 1..(Len(ds) - 1) /\ (i - 1) + 1 = i
        BY <2>2, <2>3, <3>4
      <4>2. IsDir(ds[i - 1]) /\ ds[(i - 1) + 1] \in Kids(ds[i - 1])
        BY <2>2, <4>1
      <4> QED BY <3>2, <3>4, <4>1, <4>2
    <3> QED BY <3>3, <3>4
  <2>7. es[1] = x0 /\ es[Len(es)] = x
    <3>1. 1 \in 1..n /\ n \in 1..n /\ n # 1 /\ n - 1 = Len(ds)
      BY <2>2, <2>3
    <3> QED BY <2>1, <2>5, <3>1
  <2>8. Trail(Entries, es) /\ Len(es) <= m + 1
    BY <2>3, <2>5, <2>6 DEF Trail
  <2> QED BY <2>7, <2>8 DEF Leads
<1> QED BY <1>1, <1>2

\* h has the entries of a tree at each depth down to m.
Levels(h, tree, m) ==
  h = [n \in 0..m |->
         IF n = 0 THEN {Root(tree)}
         ELSE UNION {Inside(d) : d \in {e \in h[n - 1] : e.entry.mode = "dir"}}]

LEMMA LevelsExist ==
  ASSUME NEW tree, bounds.maxDepth \in Nat
  PROVE  Levels(EntriesAt(tree), tree, bounds.maxDepth + 1)
<1> DEFINE Next1(S) == UNION {Inside(d) : d \in {e \in S : e.entry.mode = "dir"}}
           Bad == {m \in Nat : ~\E h : Levels(h, tree, m)}
<1>1. Bad = {}
  <2> SUFFICES ASSUME Bad # {} PROVE FALSE
    OBVIOUS
  <2>1. PICK m \in Bad : \A k \in Bad : m <= k
    BY LeastOf
  <2>2. CASE m = 0
    <3>1. Levels([n \in 0..0 |-> {Root(tree)}], tree, 0)
      BY DEF Levels
    <3> QED BY <2>2, <3>1
  <2>3. CASE m # 0
    <3>1. m \in Nat /\ m - 1 \in Nat /\ m - 1 \notin Bad
      <4>1. m \in Nat /\ m - 1 \in Nat /\ ~(m <= m - 1)
        BY <2>1, <2>3
      <4> HIDE DEF Bad
      <4> QED BY <2>1, <4>1
    <3>2. PICK g : Levels(g, tree, m - 1)
      BY <3>1
    <3> DEFINE h == [n \in 0..m |-> IF n = 0 THEN {Root(tree)} ELSE Next1(g[n - 1])]
    <3>3. \A n \in 0..(m - 1) : h[n] = g[n]
      <4> TAKE n \in 0..(m - 1)
      <4>1. g[n] = IF n = 0 THEN {Root(tree)} ELSE Next1(g[n - 1])
        BY <3>2 DEF Levels
      <4>2. n \in 0..m
        BY <3>1
      <4> HIDE DEF Next1
      <4> QED BY <4>1, <4>2
    <3>4. Levels(h, tree, m)
      <4> HIDE DEF h
      <4>1. h = [n \in 0..m |-> IF n = 0 THEN {Root(tree)} ELSE Next1(g[n - 1])]
        BY DEF h
      <4>2. \A n \in 0..m : n # 0 => h[n - 1] = g[n - 1]
        BY <3>1, <3>3
      <4>3. h = [n \in 0..m |-> IF n = 0 THEN {Root(tree)} ELSE Next1(h[n - 1])]
        <5> HIDE DEF Next1
        <5> QED BY <4>1, <4>2
      <4> QED BY <4>3 DEF Levels
    <3> QED BY <2>1, <3>4
  <2> QED BY <2>2, <2>3
<1>2. \E h : Levels(h, tree, bounds.maxDepth + 1)
  BY <1>1
<1> DEFINE g == CHOOSE h : Levels(h, tree, bounds.maxDepth + 1)
<1>3. Levels(g, tree, bounds.maxDepth + 1)
  BY <1>2
<1>4. EntriesAt(tree) = g
  BY DEF EntriesAt, Levels
<1> QED BY <1>3, <1>4

LEMMA EntriesAtIs ==
  ASSUME NEW tree, bounds.maxDepth \in Nat
  PROVE  /\ EntriesAt(tree)[0] = {Root(tree)}
         /\ \A n \in 1..(bounds.maxDepth + 1) :
              EntriesAt(tree)[n] =
                UNION {Inside(d) : d \in {e \in EntriesAt(tree)[n - 1] : e.entry.mode = "dir"}}
<1> DEFINE at == EntriesAt(tree)
           Below1(S) == UNION {Inside(d) : d \in {e \in S : e.entry.mode = "dir"}}
<1>1. at = [n \in 0..(bounds.maxDepth + 1) |->
              IF n = 0 THEN {Root(tree)} ELSE Below1(at[n - 1])]
  BY LevelsExist DEF Levels
<1> HIDE DEF at, Below1
<1>2. /\ at[0] = {Root(tree)}
      /\ \A n \in 1..(bounds.maxDepth + 1) : at[n] = Below1(at[n - 1])
  BY <1>1
<1> QED BY <1>2 DEF at, Below1

\* An entry that the levels of a tree have, without the indexes that lead to it.
Stripped(f) == [path |-> f.path, entry |-> f.entry]

LEMMA InsideIs ==
  ASSUME NEW d
  PROVE  /\ \A f \in Inside(d) : Stripped(f) \in Kids(Stripped(d))
         /\ \A x \in Kids(Stripped(d)) : \E f \in Inside(d) : Stripped(f) = x
<1>1. Stripped(d).path = d.path /\ Stripped(d).entry = d.entry
  BY DEF Stripped
<1> DEFINE es == d.entry.entries
           Child(i) == [at |-> Append(d.at, i), path |-> Append(d.path, es[i].name),
                        entry |-> es[i]]
<1>2. \A i : Stripped(Child(i)) = Node(d.path, es[i])
  BY DEF Stripped, Node
<1>3. Inside(d) = {Child(i) : i \in DOMAIN es}
  BY DEF Inside
<1>4. Kids(Stripped(d)) = {Node(d.path, es[i]) : i \in DOMAIN es}
  BY <1>1 DEF Kids, NodesOf
<1> HIDE DEF Child, es
<1> QED BY <1>2, <1>3, <1>4

LEMMA RootIs ==
  ASSUME NEW tree
  PROVE  Root(tree).entry.mode = "dir" /\ Kids(Stripped(Root(tree))) = NodesOf(<<>>, tree.entries)
BY DEF Root, Stripped, Kids

LEMMA TrailsToEntries ==
  ASSUME NEW Entries, NEW tree, bounds.maxDepth \in Nat, NEW ds, Trail(Entries, ds),
         Len(ds) <= bounds.maxDepth + 1, ds[1] \in NodesOf(<<>>, tree.entries)
  PROVE  \E f \in EntriesAt(tree)[Len(ds)] : Stripped(f) = ds[Len(ds)]
<1> DEFINE at == EntriesAt(tree)
           Bad == {n \in 1..Len(ds) : ~\E f \in at[n] : Stripped(f) = ds[n]}
<1>1. /\ Len(ds) \in Nat /\ Len(ds) >= 1
      /\ \A i \in 1..(Len(ds) - 1) : IsDir(ds[i]) /\ ds[i + 1] \in Kids(ds[i])
  BY DEF Trail
<1>2. /\ at[0] = {Root(tree)}
      /\ \A n \in 1..(bounds.maxDepth + 1) :
           at[n] = UNION {Inside(d) : d \in {e \in at[n - 1] : e.entry.mode = "dir"}}
  BY EntriesAtIs
<1> HIDE DEF at
<1>3. Bad = {}
  <2> SUFFICES ASSUME Bad # {} PROVE FALSE
    OBVIOUS
  <2>1. Bad \in SUBSET Nat
    OBVIOUS
  <2>2. PICK n \in Bad : \A k \in Bad : n <= k
    BY <2>1, LeastOf
  <2>3. n \in 1..Len(ds) /\ n \in 1..(bounds.maxDepth + 1) /\ n \in Nat
    BY <1>1
  <2>4. \A d \in at[n - 1] : d.entry.mode = "dir" => \A f \in Inside(d) : f \in at[n]
    BY <1>2, <2>3
  <2>5. ASSUME NEW d \in at[n - 1], d.entry.mode = "dir", ds[n] \in Kids(Stripped(d))
        PROVE  FALSE
    <3>1. PICK f \in Inside(d) : Stripped(f) = ds[n]
      BY <2>5, InsideIs
    <3>2. f \in at[n]
      BY <2>4, <2>5, <3>1
    <3> QED BY <3>1, <3>2
  <2>6. CASE n = 1
    <3>1. Root(tree) \in at[n - 1]
      BY <1>2, <2>6
    <3> QED BY <2>5, <2>6, <3>1, RootIs
  <2>7. CASE n # 1
    <3>1. n - 1 \in 1..Len(ds) /\ n - 1 \in 1..(Len(ds) - 1) /\ (n - 1) + 1 = n /\ ~(n <= n - 1)
      BY <1>1, <2>3, <2>7
    <3>2. n - 1 \notin Bad
      <4> HIDE DEF Bad
      <4> QED BY <2>2, <3>1
    <3>3. PICK d \in at[n - 1] : Stripped(d) = ds[n - 1]
      BY <3>1, <3>2
    <3>4. IsDir(ds[n - 1]) /\ ds[n] \in Kids(ds[n - 1])
      BY <1>1, <3>1
    <3>5. d.entry.mode = "dir"
      BY <3>3, <3>4 DEF IsDir, Stripped
    <3> QED BY <2>5, <3>3, <3>4, <3>5
  <2> QED BY <2>6, <2>7
<1>4. Len(ds) \in 1..Len(ds)
  BY <1>1
<1> QED BY <1>3, <1>4 DEF at

LEMMA EntriesToTrails ==
  ASSUME NEW Entries, FitEntries(Entries), NEW tree, tree.entries \in Seq(Entries),
         bounds.maxDepth \in Nat, NEW m \in 1..(bounds.maxDepth + 1),
         NEW f \in EntriesAt(tree)[m]
  PROVE  \E ds : /\ Trail(Entries, ds) /\ Len(ds) = m
                 /\ ds[1] \in NodesOf(<<>>, tree.entries) /\ ds[m] = Stripped(f)
<1> DEFINE at == EntriesAt(tree)
           Comes(n, x) == \E ds : /\ Trail(Entries, ds) /\ Len(ds) = n
                                  /\ ds[1] \in NodesOf(<<>>, tree.entries) /\ ds[n] = x
           Bad == {n \in 1..(bounds.maxDepth + 1) : \E x \in at[n] : ~Comes(n, Stripped(x))}
<1>1. /\ at[0] = {Root(tree)}
      /\ \A n \in 1..(bounds.maxDepth + 1) :
           at[n] = UNION {Inside(d) : d \in {e \in at[n - 1] : e.entry.mode = "dir"}}
  BY EntriesAtIs
<1> HIDE DEF at
<1>2. Bad = {}
  <2> SUFFICES ASSUME Bad # {} PROVE FALSE
    OBVIOUS
  <2>1. Bad \in SUBSET Nat
    OBVIOUS
  <2>2. PICK n \in Bad : \A k \in Bad : n <= k
    BY <2>1, LeastOf
  <2>3. n \in 1..(bounds.maxDepth + 1) /\ n \in Nat
    OBVIOUS
  <2>4. PICK x \in at[n] : ~Comes(n, Stripped(x))
    BY <2>2
  <2>5. PICK d \in at[n - 1] : d.entry.mode = "dir" /\ x \in Inside(d)
    BY <1>1, <2>3, <2>4
  <2>6. Stripped(x) \in Kids(Stripped(d))
    BY <2>5, InsideIs
  <2>7. CASE n = 1
    <3>1. d = Root(tree)
      BY <1>1, <2>5, <2>7
    <3>2. Stripped(x) \in NodesOf(<<>>, tree.entries)
      BY <2>6, <3>1, RootIs
    <3>3. <<>> \in Names
      BY DEF Names
    <3>4. Stripped(x) \in NodeOf(Entries)
      BY <3>2, <3>3, NodesType
    <3> DEFINE ds == <<Stripped(x)>>
    <3>5. ds \in Seq(NodeOf(Entries)) /\ Len(ds) = 1 /\ ds[1] = Stripped(x)
      BY <3>4
    <3> HIDE DEF ds
    <3>6. Trail(Entries, ds)
      BY <3>5 DEF Trail
    <3> QED BY <2>4, <2>7, <3>2, <3>5, <3>6
  <2>8. CASE n # 1
    <3>1. n - 1 \in 1..(bounds.maxDepth + 1) /\ ~(n <= n - 1) /\ (n - 1) + 1 = n
      BY <2>3, <2>8
    <3>2. n - 1 \notin Bad
      <4> HIDE DEF Bad
      <4> QED BY <2>2, <3>1
    <3>3. Comes(n - 1, Stripped(d))
      BY <2>5, <3>1, <3>2
    <3>4. PICK es : /\ Trail(Entries, es) /\ Len(es) = n - 1
                    /\ es[1] \in NodesOf(<<>>, tree.entries) /\ es[n - 1] = Stripped(d)
      BY <3>3
    <3>5. /\ es \in Seq(NodeOf(Entries))
          /\ \A i \in 1..(n - 2) : IsDir(es[i]) /\ es[i + 1] \in Kids(es[i])
      BY <2>3, <3>4 DEF Trail
    <3>6. IsDir(Stripped(d)) /\ Stripped(d) \in NodeOf(Entries)
      <4>1. n - 1 \in 1..Len(es)
        BY <3>1, <3>4
      <4>2. Stripped(d) \in NodeOf(Entries)
        BY <3>4, <3>5, <4>1
      <4> QED BY <2>5, <4>2 DEF IsDir, Stripped
    <3>7. Stripped(x) \in NodeOf(Entries)
      BY <2>6, <3>6, KidsType
    <3> DEFINE y == Stripped(x)
               ds == Append(es, y)
    <3>8. /\ ds \in Seq(NodeOf(Entries)) /\ Len(ds) = n
          /\ \A i \in 1..(n - 1) : ds[i] = es[i]
          /\ ds[n] = y
      <4>1. y \in NodeOf(Entries) /\ Len(es) \in Nat /\ Len(es) + 1 = n
        BY <3>1, <3>4, <3>7
      <4> HIDE DEF y
      <4> QED BY <3>4, <3>5, <4>1, AppendProperties
    <3> HIDE DEF ds
    <3>9. \A i \in 1..(n - 1) : IsDir(ds[i]) /\ ds[i + 1] \in Kids(ds[i])
      <4> TAKE i \in 1..(n - 1)
      <4>1. CASE i = n - 1
        BY <2>6, <3>1, <3>4, <3>6, <3>8, <4>1
      <4>2. CASE i # n - 1
        <5>1. i \in 1..(n - 2) /\ i + 1 \in 1..(n - 1)
          BY <2>3, <4>2
        <5> QED BY <3>5, <3>8, <5>1
      <4> QED BY <4>1, <4>2
    <3>10. Trail(Entries, ds) /\ ds[1] \in NodesOf(<<>>, tree.entries)
      <4>1. 1 \in 1..(n - 1) /\ n >= 1
        BY <3>1
      <4> QED BY <3>4, <3>8, <3>9, <4>1 DEF Trail
    <3> QED BY <2>4, <3>8, <3>10
  <2> QED BY <2>7, <2>8
<1>3. Comes(m, Stripped(f))
  BY <1>2 DEF at
<1> QED BY <1>3

\* Whether x is one of a tree, down to the files of the last directories allowed.
InTree(Entries, entries, m, x) == Leads(Entries, NodesOf(<<>>, entries), m, x)

LEMMA ContentsIs ==
  ASSUME NEW Entries, FitEntries(Entries), NEW tree, tree.entries \in Seq(Entries),
         bounds.maxDepth \in Nat
  PROVE  Contents(tree) =
           {[path |-> x.path, holds |-> x.entry.holds] :
              x \in {y \in NodeOf(Entries) :
                       IsFile(y) /\ InTree(Entries, tree.entries, bounds.maxDepth, y)}}
<1> DEFINE top == bounds.maxDepth + 1
           Told1(x) == [path |-> x.path, holds |-> x.entry.holds]
           In == {y \in NodeOf(Entries) :
                    IsFile(y) /\ InTree(Entries, tree.entries, bounds.maxDepth, y)}
<1>1. ASSUME NEW f \in Files(tree) PROVE Stripped(f) \in In
  <2>1. PICK n \in 1..top : f \in EntriesAt(tree)[n]
    BY DEF Files, All
  <2>2. PICK ds : /\ Trail(Entries, ds) /\ Len(ds) = n
                  /\ ds[1] \in NodesOf(<<>>, tree.entries) /\ ds[n] = Stripped(f)
    BY <2>1, EntriesToTrails
  <2>3. Stripped(f) \in NodeOf(Entries)
    <3>1. ds \in Seq(NodeOf(Entries)) /\ n \in 1..Len(ds)
      BY <2>1, <2>2 DEF Trail
    <3> QED BY <2>2, <3>1
  <2>4. IsFile(Stripped(f))
    BY DEF Files, IsFile, Stripped, isMaterializableFile
  <2>5. InTree(Entries, tree.entries, bounds.maxDepth, Stripped(f))
    BY <2>1, <2>2 DEF InTree, Leads
  <2> QED BY <2>3, <2>4, <2>5
<1>2. ASSUME NEW x \in In PROVE \E f \in Files(tree) : Stripped(f) = x
  <2>1. PICK ds : /\ Trail(Entries, ds) /\ Len(ds) <= top
                  /\ ds[1] \in NodesOf(<<>>, tree.entries) /\ ds[Len(ds)] = x
    BY DEF InTree, Leads
  <2>2. PICK f \in EntriesAt(tree)[Len(ds)] : Stripped(f) = x
    BY <2>1, TrailsToEntries
  <2>3. Len(ds) \in 1..top
    BY <2>1 DEF Trail
  <2>4. f \in All(tree)
    BY <2>2, <2>3 DEF All
  <2>5. f.entry.mode \in {"regular", "executable"}
    BY <2>2 DEF IsFile, Stripped, isMaterializableFile
  <2> QED BY <2>2, <2>4, <2>5 DEF Files
<1>3. \A f : Told1(Stripped(f)) = [path |-> f.path, holds |-> f.entry.holds]
  BY DEF Stripped
<1>4. Contents(tree) = {Told1(Stripped(f)) : f \in Files(tree)}
  BY <1>3 DEF Contents
<1>5. Contents(tree) = {Told1(x) : x \in In}
  <2> HIDE DEF Told1, In
  <2> QED BY <1>1, <1>2, <1>4
<1> QED BY <1>5

-----------------------------------------------------------------------------
(* One file for a path *)

\* No directory of a tree has a name twice.
DistinctNames(Entries, tree) ==
  /\ NamesDiffer(tree)
  /\ \A e \in Entries : e.mode = "dir" => NamesDiffer(e.entries)

LEMMA TrailPaths ==
  ASSUME NEW Entries, FitEntries(Entries), NEW entries,
         NEW ds, Trail(Entries, ds), ds[1] \in NodesOf(<<>>, entries)
  PROVE  \A i \in 1..Len(ds) :
           Len(ds[i].path) = i /\ \A j \in 1..i : ds[i].path[j] = ds[j].entry.name
<1> DEFINE Fits(i) == Len(ds[i].path) = i /\ \A j \in 1..i : ds[i].path[j] = ds[j].entry.name
           Bad == {i \in 1..Len(ds) : ~Fits(i)}
<1>1. /\ ds \in Seq(NodeOf(Entries)) /\ Len(ds) \in Nat
      /\ \A i \in 1..(Len(ds) - 1) : IsDir(ds[i]) /\ ds[i + 1] \in Kids(ds[i])
  BY DEF Trail
<1>2. \A i \in 1..Len(ds) : ds[i].path \in Names /\ ds[i].entry \in Entries
  <2> TAKE i \in 1..Len(ds)
  <2>1. ds[i] \in NodeOf(Entries)
    BY <1>1
  <2> QED BY <2>1 DEF NodeOf
<1>3. Bad = {}
  <2> SUFFICES ASSUME Bad # {} PROVE FALSE
    OBVIOUS
  <2>1. Bad \in SUBSET Nat
    OBVIOUS
  <2>2. PICK n \in Bad : \A k \in Bad : n <= k
    BY <2>1, LeastOf
  <2>3. n \in 1..Len(ds) /\ n \in Nat /\ ~Fits(n)
    OBVIOUS
  <2>4. CASE n = 1
    <3>1. PICK i \in DOMAIN entries : ds[1] = Node(<<>>, entries[i])
      BY DEF NodesOf
    <3>2. ds[1].path = Append(<<>>, ds[1].entry.name)
      BY <3>1 DEF Node
    <3>3. Append(<<>>, ds[1].entry.name) = <<ds[1].entry.name>>
      OBVIOUS
    <3>4. Len(ds[1].path) = 1 /\ ds[1].path[1] = ds[1].entry.name
      BY <3>2, <3>3
    <3> QED BY <2>3, <2>4, <3>4
  <2>5. CASE n # 1
    <3>1. n - 1 \in 1..(Len(ds) - 1) /\ n - 1 \in 1..Len(ds) /\ (n - 1) + 1 = n /\ ~(n <= n - 1)
      BY <1>1, <2>3, <2>5
    <3>2. Fits(n - 1)
      <4>1. n - 1 \notin Bad
        <5> HIDE DEF Bad
        <5> QED BY <2>2, <3>1
      <4> QED BY <3>1, <4>1
    <3>3. ds[n] \in Kids(ds[n - 1])
      BY <1>1, <3>1
    <3>4. PICK i \in DOMAIN ds[n - 1].entry.entries :
            ds[n] = Node(ds[n - 1].path, ds[n - 1].entry.entries[i])
      BY <3>3 DEF Kids, NodesOf
    <3>5. ds[n].path = Append(ds[n - 1].path, ds[n].entry.name)
      BY <3>4 DEF Node
    <3> DEFINE p == ds[n - 1].path
               e == ds[n].entry.name
               q == ds[n].path
    <3>6. p \in Seq(Nat) /\ e \in Nat /\ q = Append(p, e) /\ Len(p) = n - 1
      BY <1>2, <2>3, <3>1, <3>2, <3>5 DEF Names, FitEntries
    <3>7. /\ Len(q) = n /\ q[n] = e
          /\ \A j \in 1..(n - 1) : q[j] = p[j]
      <4> HIDE DEF p, e, q
      <4>1. Len(p) + 1 = n /\ n - 1 \in Nat
        BY <3>1, <3>6
      <4> QED BY <3>6, <4>1, AppendProperties
    <3>8. \A j \in 1..n : q[j] = ds[j].entry.name
      <4> TAKE j \in 1..n
      <4>1. j = n \/ j \in 1..(n - 1)
        OBVIOUS
      <4> QED BY <3>2, <3>7, <4>1
    <3> QED BY <2>3, <3>7, <3>8
  <2> QED BY <2>4, <2>5
<1> QED BY <1>3

\* A path of a tree leads to one entry.
LEMMA OneOfAPath ==
  ASSUME NEW Entries, FitEntries(Entries), NEW entries, DistinctNames(Entries, entries),
         NEW m, NEW x, NEW y, InTree(Entries, entries, m, x), InTree(Entries, entries, m, y),
         x.path = y.path
  PROVE  x = y
<1>1. PICK ds : Trail(Entries, ds) /\ ds[1] \in NodesOf(<<>>, entries) /\ ds[Len(ds)] = x
  BY DEF InTree, Leads
<1>2. PICK es : Trail(Entries, es) /\ es[1] \in NodesOf(<<>>, entries) /\ es[Len(es)] = y
  BY DEF InTree, Leads
<1>3. /\ Len(ds) \in Nat /\ Len(ds) >= 1 /\ ds \in Seq(NodeOf(Entries))
      /\ \A i \in 1..(Len(ds) - 1) : IsDir(ds[i]) /\ ds[i + 1] \in Kids(ds[i])
  BY <1>1 DEF Trail
<1>4. /\ Len(es) \in Nat /\ Len(es) >= 1 /\ es \in Seq(NodeOf(Entries))
      /\ \A i \in 1..(Len(es) - 1) : IsDir(es[i]) /\ es[i + 1] \in Kids(es[i])
  BY <1>2 DEF Trail
<1>5. /\ Len(x.path) = Len(ds) /\ Len(y.path) = Len(es)
      /\ \A j \in 1..Len(ds) : x.path[j] = ds[j].entry.name
      /\ \A j \in 1..Len(es) : y.path[j] = es[j].entry.name
  <2>1. Len(ds) \in 1..Len(ds) /\ Len(es) \in 1..Len(es)
    BY <1>3, <1>4
  <2> QED BY <1>1, <1>2, <2>1, TrailPaths
<1>6. Len(es) = Len(ds) /\ \A j \in 1..Len(ds) : ds[j].entry.name = es[j].entry.name
  BY <1>5
<1> DEFINE n == Len(ds)
           Bad == {i \in 1..n : ds[i] # es[i]}
<1>7. \A path, kids, a, b :
        NamesDiffer(kids) /\ a \in NodesOf(path, kids) /\ b \in NodesOf(path, kids)
          /\ a.entry.name = b.entry.name => a = b
  <2> TAKE path, kids, a, b
  <2> HAVE NamesDiffer(kids) /\ a \in NodesOf(path, kids) /\ b \in NodesOf(path, kids)
             /\ a.entry.name = b.entry.name
  <2>1. PICK i \in DOMAIN kids : a = Node(path, kids[i])
    BY DEF NodesOf
  <2>2. PICK j \in DOMAIN kids : b = Node(path, kids[j])
    BY DEF NodesOf
  <2>3. a.entry = kids[i] /\ b.entry = kids[j]
    BY <2>1, <2>2 DEF Node
  <2>4. i = j
    BY <2>3 DEF NamesDiffer
  <2> QED BY <2>1, <2>2, <2>4
<1>8. Bad = {}
  <2> SUFFICES ASSUME Bad # {} PROVE FALSE
    OBVIOUS
  <2>1. Bad \in SUBSET Nat
    OBVIOUS
  <2>2. PICK k \in Bad : \A j \in Bad : k <= j
    BY <2>1, LeastOf
  <2>3. k \in 1..n /\ k \in Nat /\ ds[k] # es[k] /\ ds[k].entry.name = es[k].entry.name
    BY <1>6
  <2>4. CASE k = 1
    BY <1>1, <1>2, <1>7, <2>3, <2>4 DEF DistinctNames
  <2>5. CASE k # 1
    <3>1. k - 1 \in 1..(n - 1) /\ k - 1 \in 1..n /\ (k - 1) + 1 = k /\ ~(k <= k - 1)
      BY <1>3, <2>3, <2>5
    <3>2. ds[k - 1] = es[k - 1]
      <4>1. k - 1 \notin Bad
        <5> HIDE DEF Bad
        <5> QED BY <2>2, <3>1
      <4> QED BY <3>1, <4>1
    <3>3. IsDir(ds[k - 1]) /\ ds[k] \in Kids(ds[k - 1])
      BY <1>3, <3>1
    <3>4. es[k] \in Kids(es[k - 1])
      BY <1>4, <1>6, <3>1
    <3>5. NamesDiffer(ds[k - 1].entry.entries)
      <4>1. ds[k - 1] \in NodeOf(Entries)
        BY <1>3, <3>1
      <4> QED BY <3>3, <4>1 DEF DistinctNames, IsDir, NodeOf
    <3> QED BY <1>7, <2>3, <3>2, <3>3, <3>4, <3>5 DEF Kids
  <2> QED BY <2>4, <2>5
<1>9. n \in 1..n
  BY <1>3
<1> QED BY <1>1, <1>2, <1>6, <1>8, <1>9

-----------------------------------------------------------------------------
(* What a walk has still to come to *)

\* x is reached from an entry that a frame, or any frame, has still to come to.
Ahead(Entries, F, x) ==
  Leads(Entries, NodesOf(F.path, F.entries), bounds.maxDepth - F.depth, x)
ToCome(Entries, frames, x) == \E i \in DOMAIN frames : Ahead(Entries, frames[i], x)

LEMMA ToComeOfNone ==
  ASSUME NEW Entries, NEW x
  PROVE  ~ToCome(Entries, <<>>, x)
BY DEF ToCome

LEMMA ToComeOfMore ==
  ASSUME NEW Entries, NEW S, NEW frames \in Seq(S), NEW F \in S, NEW x
  PROVE  ToCome(Entries, Append(frames, F), x)
           <=> ToCome(Entries, frames, x) \/ Ahead(Entries, F, x)
<1> DEFINE more == Append(frames, F)
<1>1. PICK n \in Nat : n = Len(frames)
  OBVIOUS
<1>2. /\ DOMAIN frames = 1..n /\ DOMAIN more = 1..(n + 1)
      /\ \A i \in 1..n : more[i] = frames[i]
      /\ more[n + 1] = F
  BY <1>1, AppendProperties
<1>3. \A i : i \in 1..(n + 1) <=> i \in 1..n \/ i = n + 1
  BY <1>1
<1> HIDE DEF more
<1>4. ToCome(Entries, more, x) <=> ToCome(Entries, frames, x) \/ Ahead(Entries, F, x)
  BY <1>2, <1>3 DEF ToCome
<1> QED BY <1>4 DEF more

LEMMA ToComeOfTop ==
  ASSUME NEW Entries, NEW S, NEW frames \in Seq(S), frames # <<>>, NEW x
  PROVE  ToCome(Entries, frames, x)
           <=> ToCome(Entries, Front(frames), x) \/ Ahead(Entries, Last(frames), x)
<1>1. PICK n \in Nat : n = Len(frames) /\ n # 0
  BY EmptySeq
<1>2. /\ DOMAIN frames = 1..n /\ DOMAIN Front(frames) = 1..(n - 1)
      /\ \A i \in 1..(n - 1) : Front(frames)[i] = frames[i]
      /\ Last(frames) = frames[n]
  BY <1>1 DEF Front, Last
<1>3. \A i : i \in 1..n <=> i \in 1..(n - 1) \/ i = n
  BY <1>1
<1> QED BY <1>2, <1>3 DEF ToCome

LEMMA AheadOfNone ==
  ASSUME NEW Entries, NEW F, F.entries = <<>>, NEW x
  PROVE  ~Ahead(Entries, F, x)
BY DEF Ahead, Leads, NodesOf

LEMMA AheadOfFirst ==
  ASSUME NEW Entries, NEW F \in FrameOf(Entries), F.entries # <<>>, NEW x
  PROVE  Ahead(Entries, F, x)
           <=> \/ Ahead(Entries, [F EXCEPT !.entries = Tail(@)], x)
               \/ Leads(Entries, {Node(F.path, Head(F.entries))}, bounds.maxDepth - F.depth, x)
<1> DEFINE es == F.entries
           A == {Node(F.path, Head(es))}
           B == NodesOf(F.path, Tail(es))
<1>1. es \in Seq(Entries) /\ es # <<>>
  BY DEF FrameOf
<1>2. PICK n \in Nat : n = Len(es) /\ n # 0
  BY <1>1, EmptySeq
<1>3. /\ DOMAIN es = 1..n /\ DOMAIN Tail(es) = 1..(n - 1)
      /\ Head(es) = es[1]
      /\ \A i \in 1..(n - 1) : Tail(es)[i] = es[i + 1]
  <2> HIDE DEF es
  <2> QED BY <1>1, <1>2, HeadTailProperties
<1>4. \A i : i \in 1..n <=> i = 1 \/ \E j \in 1..(n - 1) : i = j + 1
  <2>1. \A i \in 1..n : i # 1 => i - 1 \in 1..(n - 1) /\ i = (i - 1) + 1
    BY <1>2
  <2>2. 1 \in 1..n /\ \A j \in 1..(n - 1) : j + 1 \in 1..n
    BY <1>2
  <2> QED BY <2>1, <2>2
<1>5. NodesOf(F.path, es) = A \cup B
  <2> HIDE DEF es
  <2> QED BY <1>3, <1>4 DEF NodesOf
<1>6. LET G == [F EXCEPT !.entries = Tail(@)]
      IN G.path = F.path /\ G.depth = F.depth /\ G.entries = Tail(es)
  BY DEF FrameOf
<1>7. Leads(Entries, A \cup B, bounds.maxDepth - F.depth, x)
        <=> \/ Leads(Entries, A, bounds.maxDepth - F.depth, x)
            \/ Leads(Entries, B, bounds.maxDepth - F.depth, x)
  <2> HIDE DEF A, B
  <2> QED BY LeadsApart
<1> QED BY <1>5, <1>6, <1>7 DEF Ahead

\* The entry a walk is at is the first of what is to come.
LEMMA ToComeNext ==
  ASSUME NEW Entries, Within(Entries), walk = "on", Top.entries # <<>>, NEW x
  PROVE  ToCome(Entries, work, x)
           <=> \/ ToCome(Entries, Passed, x)
               \/ Leads(Entries, {Node(Top.path, Entry)}, bounds.maxDepth - Top.depth, x)
<1>1. work \in Seq(FrameOf(Entries)) /\ work # <<>>
  BY DEF Within, FitFrames
<1>2. FitFrame(Entries, Top) /\ FitFrames(Entries, Front(work))
  BY FramesPopped DEF Within, Top
<1>3. Top \in FrameOf(Entries) /\ Front(work) \in Seq(FrameOf(Entries))
  BY <1>2 DEF FitFrame, FitFrames
<1> DEFINE G == [Top EXCEPT !.entries = Tail(@)]
<1>4. G \in FrameOf(Entries)
  <2>1. Tail(Top.entries) \in Seq(Entries)
    BY <1>3 DEF FrameOf
  <2> QED BY <1>3, <2>1 DEF FrameOf
<1>5. ToCome(Entries, work, x) <=> ToCome(Entries, Front(work), x) \/ Ahead(Entries, Top, x)
  BY <1>1, ToComeOfTop DEF Top
<1>6. ToCome(Entries, Passed, x) <=> ToCome(Entries, Front(work), x) \/ Ahead(Entries, G, x)
  <2> HIDE DEF G
  <2>1. ToCome(Entries, Append(Front(work), G), x)
          <=> ToCome(Entries, Front(work), x) \/ Ahead(Entries, G, x)
    BY <1>3, <1>4, ToComeOfMore
  <2> QED BY <2>1 DEF Passed, G
<1>7. Ahead(Entries, Top, x)
        <=> \/ Ahead(Entries, G, x)
            \/ Leads(Entries, {Node(Top.path, Entry)}, bounds.maxDepth - Top.depth, x)
  BY <1>3, AheadOfFirst DEF Entry
<1> QED BY <1>5, <1>6, <1>7

-----------------------------------------------------------------------------
(* What a walk has written *)

\* x is a file of a tree.
FileOf(Entries, entries, x) ==
  x \in NodeOf(Entries) /\ IsFile(x) /\ InTree(Entries, entries, bounds.maxDepth, x)

Has(x) == x.path \in DOMAIN disk /\ disk[x.path].holds = x.entry.holds

\* A walk that goes on has written the files of its tree that it has not still
\* to come to, and nothing else.
Follows(Entries, entries) ==
  walk \in {"on", "done"} =>
    /\ walk = "done" => work = <<>>
    /\ \A x : FileOf(Entries, entries, x) => Has(x) \/ ToCome(Entries, work, x)
    /\ \A x : IsFile(x) /\ ToCome(Entries, work, x) => FileOf(Entries, entries, x)
    /\ \A p \in DOMAIN disk :
         \E x : FileOf(Entries, entries, x) /\ x.path = p /\ Has(x)

LEMMA LeadsToNodes ==
  ASSUME NEW Entries, NEW S, NEW m, NEW x, Leads(Entries, S, m, x)
  PROVE  x \in NodeOf(Entries)
<1>1. PICK ds : Trail(Entries, ds) /\ ds[Len(ds)] = x
  BY DEF Leads
<1>2. ds \in Seq(NodeOf(Entries)) /\ Len(ds) >= 1
  BY <1>1 DEF Trail
<1>3. Len(ds) \in 1..Len(ds)
  BY <1>2
<1> QED BY <1>1, <1>2, <1>3

LEMMA BeginFollows ==
  ASSUME NEW Entries, bounds \in Ceilings, NEW tree \in Seq(Entries), Begin(tree)
  PROVE  Follows(Entries, tree)'
<1>1. bounds' = bounds /\ disk' = Nothing /\ DOMAIN disk' = {}
  BY NothingWritten DEF Begin
<1>2. CASE DepthAllowed(0)
  <2> DEFINE F == Frame(<<>>, tree, 0)
  <2>1. walk' = "on" /\ work' = <<F>>
    BY <1>2 DEF Begin
  <2>2. F.path = <<>> /\ F.entries = tree /\ F.depth = 0
    BY DEF Frame
  <2>3. \A x : Ahead(Entries, F, x) <=> InTree(Entries, tree, bounds.maxDepth, x)
    <3>1. bounds.maxDepth - 0 = bounds.maxDepth
      BY DEF Ceilings
    <3> HIDE DEF F
    <3> QED BY <2>2, <3>1 DEF Ahead, InTree
  <2> HIDE DEF F
  <2>4. \A x : ToCome(Entries, work, x)' <=> InTree(Entries, tree, bounds.maxDepth, x)
    <3>1. DOMAIN <<F>> = {1} /\ <<F>>[1] = F
      OBVIOUS
    <3> DEFINE w == <<F>>
    <3> HIDE DEF w
    <3>2. \A x : ToCome(Entries, w, x) <=> Ahead(Entries, F, x)
      BY <3>1 DEF ToCome, w
    <3>3. \A x : ToCome(Entries, work, x)' <=> ToCome(Entries, w, x)
      BY <1>1, <2>1 DEF ToCome, Ahead, w
    <3> QED BY <2>3, <3>2, <3>3
  <2>5. \A x : IsFile(x) /\ InTree(Entries, tree, bounds.maxDepth, x) => x \in NodeOf(Entries)
    BY LeadsToNodes DEF InTree
  <2> QED BY <1>1, <2>1, <2>4, <2>5 DEF Follows, FileOf
<1>3. CASE ~DepthAllowed(0)
  BY <1>3 DEF Begin, Follows
<1> QED BY <1>2, <1>3

\* What a walk comes to now, and what it comes to then.
LEMMA VisitedNode ==
  ASSUME NEW Entries, FitEntries(Entries), Within(Entries), walk = "on", Top.entries # <<>>
  PROVE  /\ Node(Top.path, Entry) \in NodeOf(Entries)
         /\ Node(Top.path, Entry).path = Path /\ Node(Top.path, Entry).entry = Entry
         /\ Top.depth \in Nat /\ bounds.maxDepth \in Nat
         /\ bounds.maxDepth - Top.depth \in Nat
<1>1. Entry \in Entries /\ Top.depth \in Nat /\ Top.depth <= bounds.maxDepth
  BY NextEntry
<1>2. bounds.maxDepth \in Nat
  BY DEF Within, Ceilings
<1>3. Top.path \in Names
  <2>1. FitFrame(Entries, Top)
    BY FramesPopped DEF Within, Top
  <2>2. Top.path \in Seq(NamesOf(Entries)) /\ NamesOf(Entries) \subseteq Nat
    BY <2>1 DEF FitFrame, FrameOf, NamesOf, FitEntries
  <2> QED BY <2>2 DEF Names
<1>4. Node(Top.path, Entry) \in NodeOf(Entries)
  BY <1>1, <1>3, NodeType
<1>5. bounds.maxDepth - Top.depth \in Nat
  BY <1>1, <1>2
<1> QED BY <1>1, <1>2, <1>4, <1>5 DEF Node, Path

\* Nothing is written, and the files to come are the same.
LEMMA PassingFollows ==
  ASSUME NEW Entries, NEW tree, Follows(Entries, tree), walk = "on",
         UNCHANGED <<bounds, disk>>, walk' = "done" => work' = <<>>,
         \A x : IsFile(x) => (ToCome(Entries, work', x) <=> ToCome(Entries, work, x))
  PROVE  Follows(Entries, tree)'
<1>1. \A x : FileOf(Entries, tree, x)' <=> FileOf(Entries, tree, x)
  BY DEF FileOf
<1>2. \A x : Has(x)' <=> Has(x)
  BY DEF Has
<1>3. \A x : ToCome(Entries, work, x)' <=> ToCome(Entries, work', x)
  BY DEF ToCome, Ahead
<1>4. \A x : FileOf(Entries, tree, x) => IsFile(x)
  BY DEF FileOf
<1>5. DOMAIN disk' = DOMAIN disk
  OBVIOUS
<1> QED BY <1>1, <1>2, <1>3, <1>4, <1>5 DEF Follows

LEMMA SkipFollows ==
  ASSUME NEW Entries, FitEntries(Entries), Within(Entries), NEW tree,
         Follows(Entries, tree), Skip
  PROVE  Follows(Entries, tree)'
<1> DEFINE x0 == Node(Top.path, Entry)
<1>1. /\ walk = "on" /\ Top.entries # <<>> /\ work' = Passed
      /\ UNCHANGED <<bounds, disk, walk>> /\ Entry.mode \in Others
  BY DEF Skip, Visits
<1>2. x0.entry = Entry
  BY <1>1, VisitedNode
<1> HIDE DEF x0
<1>3. ~IsDir(x0) /\ ~IsFile(x0)
  BY <1>1, <1>2 DEF IsDir, IsFile, Others, isMaterializableFile
<1>4. \A x : IsFile(x) => ~Leads(Entries, {x0}, bounds.maxDepth - Top.depth, x)
  BY <1>3, LeadsOnlyToItself
<1>5. \A x : IsFile(x) => (ToCome(Entries, work', x) <=> ToCome(Entries, work, x))
  BY <1>1, <1>4, ToComeNext DEF x0
<1> QED BY <1>1, <1>5, PassingFollows

LEMMA DescendFollows ==
  ASSUME NEW Entries, FitEntries(Entries), Within(Entries), NEW tree,
         Follows(Entries, tree), Descend, walk' = "on"
  PROVE  Follows(Entries, tree)'
<1> DEFINE x0 == Node(Top.path, Entry)
           F == Frame(Path, Entry.entries, Top.depth + 1)
           m == bounds.maxDepth - Top.depth
<1>1. /\ walk = "on" /\ Top.entries # <<>> /\ work' = Append(Passed, F)
      /\ UNCHANGED <<bounds, disk>> /\ Entry.mode = "dir" /\ DepthAllowed(Top.depth + 1)
  BY DEF Descend, Visits, Refuses
<1>2. /\ x0 \in NodeOf(Entries) /\ x0.path = Path /\ x0.entry = Entry
      /\ Top.depth \in Nat /\ bounds.maxDepth \in Nat /\ m \in Nat
  BY <1>1, VisitedNode
<1>3. F.path = Path /\ F.entries = Entry.entries /\ F.depth = Top.depth + 1
  BY DEF Frame
<1> HIDE DEF x0, F
<1>4. IsDir(x0) /\ ~IsFile(x0) /\ Kids(x0) = NodesOf(F.path, F.entries)
  BY <1>1, <1>2, <1>3 DEF IsDir, IsFile, isMaterializableFile, Kids
<1>5. m # 0 /\ bounds.maxDepth - F.depth = m - 1
  BY <1>1, <1>2, <1>3 DEF DepthAllowed
<1> HIDE DEF m
<1>6. \A x : IsFile(x) => (Leads(Entries, {x0}, m, x) <=> Ahead(Entries, F, x))
  <2> TAKE x
  <2> HAVE IsFile(x)
  <2>1. x # x0
    BY <1>4
  <2>2. Leads(Entries, {x0}, m, x) <=> Leads(Entries, Kids(x0), m - 1, x)
    BY <1>2, <1>4, <1>5, <2>1, LeadsDown
  <2> QED BY <1>4, <1>5, <2>2 DEF Ahead
<1>7. Passed \in Seq(FrameOf(Entries)) /\ F \in FrameOf(Entries)
  <2>1. FitFrames(Entries, Passed) /\ Entry \in Entries /\ Path \in Seq(NamesOf(Entries))
    BY <1>1, NextEntry
  <2>2. Entry.entries \in Seq(Entries)
    BY <1>1, <2>1 DEF FitEntries, WellFormed
  <2> QED BY <1>2, <2>1, <2>2 DEF FitFrames, F, Frame, FrameOf
<1>8. \A x : ToCome(Entries, work', x) <=> ToCome(Entries, Passed, x) \/ Ahead(Entries, F, x)
  BY <1>1, <1>7, ToComeOfMore
<1>9. \A x : IsFile(x) => (ToCome(Entries, work', x) <=> ToCome(Entries, work, x))
  BY <1>1, <1>6, <1>8, ToComeNext DEF x0, m
<1> QED BY <1>1, <1>9, PassingFollows

LEMMA AscendFollows ==
  ASSUME NEW Entries, Within(Entries), NEW tree, Follows(Entries, tree), Ascend
  PROVE  Follows(Entries, tree)'
<1>1. /\ walk = "on" /\ Top.entries = <<>> /\ work' = Front(work)
      /\ UNCHANGED <<bounds, disk>> /\ walk' = (IF Len(work) = 1 THEN "done" ELSE "on")
  BY DEF Ascend
<1>2. work \in Seq(FrameOf(Entries)) /\ work # <<>>
  BY <1>1 DEF Within, FitFrames
<1>3. \A x : ToCome(Entries, work', x) <=> ToCome(Entries, work, x)
  BY <1>1, <1>2, ToComeOfTop, AheadOfNone DEF Top
<1>4. walk' = "done" => work' = <<>>
  <2> SUFFICES ASSUME Len(work) = 1 PROVE Front(work) = <<>>
    BY <1>1
  <2>1. Front(work) \in Seq(FrameOf(Entries)) /\ Len(Front(work)) = 0
    BY <1>2 DEF Front
  <2> QED BY <2>1, EmptySeq
<1> QED BY <1>1, <1>3, <1>4, PassingFollows

LEMMA WriteFollows ==
  ASSUME NEW Entries, FitEntries(Entries), Within(Entries), NEW tree,
         DistinctNames(Entries, tree), Follows(Entries, tree), WriteFile, walk' = "on"
  PROVE  Follows(Entries, tree)'
<1> PICK x0 : x0 = Node(Top.path, Entry)
  OBVIOUS
<1> DEFINE m == bounds.maxDepth - Top.depth
<1>1. /\ walk = "on" /\ Top.entries # <<>> /\ work' = Passed
      /\ bounds' = bounds /\ disk' = OnDisk(Copied) /\ Entry.mode \in isMaterializableFile
  BY DEF WriteFile, Visits, Refuses
<1>2. x0 \in NodeOf(Entries) /\ x0.path = Path /\ x0.entry = Entry /\ m \in Nat
  BY <1>1, VisitedNode
<1>3. \A x : ToCome(Entries, work, x)
              <=> ToCome(Entries, Passed, x) \/ Leads(Entries, {x0}, m, x)
  BY <1>1, ToComeNext
<1> HIDE DEF m
<1>4. IsFile(x0) /\ ~IsDir(x0)
  BY <1>1, <1>2 DEF IsDir, IsFile, isMaterializableFile
<1>5. \A x : Leads(Entries, {x0}, m, x) <=> x = x0
  BY <1>2, <1>4, LeadsOnlyToItself, LeadsToItself
<1>6. FileOf(Entries, tree, x0)
  BY <1>1, <1>3, <1>4, <1>5 DEF Follows
<1>7. \A p : /\ p \in DOMAIN disk' <=> p \in DOMAIN disk \/ p = x0.path
             /\ p \in DOMAIN disk' /\ p # x0.path => disk'[p] = disk[p]
  BY <1>1, <1>2 DEF OnDisk
<1>8. disk'[x0.path].holds = x0.entry.holds
  BY <1>1, <1>2 DEF OnDisk
<1>9. \A x : FileOf(Entries, tree, x) /\ x # x0 => x.path # x0.path
  BY <1>6, OneOfAPath DEF FileOf
<1>10. Has(x0)' /\ \A x : FileOf(Entries, tree, x) /\ x # x0 => (Has(x)' <=> Has(x))
  BY <1>7, <1>8, <1>9 DEF Has
<1>11. \A x : ToCome(Entries, work, x)' <=> ToCome(Entries, Passed, x)
  BY <1>1 DEF ToCome, Ahead
<1>12. \A x : FileOf(Entries, tree, x)' <=> FileOf(Entries, tree, x)
  BY <1>1 DEF FileOf
<1>13. \A x : FileOf(Entries, tree, x)' => Has(x)' \/ ToCome(Entries, work, x)'
  BY <1>1, <1>3, <1>5, <1>10, <1>11, <1>12 DEF Follows
<1>14. \A x : IsFile(x) /\ ToCome(Entries, work, x)' => FileOf(Entries, tree, x)'
  BY <1>1, <1>3, <1>11, <1>12 DEF Follows
<1>15. \A p \in DOMAIN disk' :
         \E x : FileOf(Entries, tree, x)' /\ x.path = p /\ Has(x)'
  <2> TAKE p \in DOMAIN disk'
  <2>1. CASE p = x0.path
    BY <1>6, <1>10, <1>12, <2>1
  <2>2. CASE p # x0.path
    <3>1. PICK x : FileOf(Entries, tree, x) /\ x.path = p /\ Has(x)
      BY <1>1, <1>7, <2>2 DEF Follows
    <3> QED BY <1>10, <1>12, <2>2, <3>1
  <2> QED BY <2>1, <2>2
<1>16. walk' # "done"
  OBVIOUS
<1> QED BY <1>13, <1>14, <1>15, <1>16 DEF Follows

\* A step of a walk, or what ends it.
LEMMA WalkFollows ==
  ASSUME NEW Entries, FitEntries(Entries), Within(Entries), NEW tree,
         DistinctNames(Entries, tree), Follows(Entries, tree), WalkStep \/ WalkFails
  PROVE  Follows(Entries, tree)'
<1>1. CASE walk' \notin {"on", "done"}
  BY <1>1 DEF Follows
<1>2. CASE walk' \in {"on", "done"}
  <2>1. ~TooManyNodes /\ ~RefuseFile /\ ~WalkFails
    BY <1>2 DEF TooManyNodes, RefuseFile, WalkFails, Refuses
  <2>2. ASSUME Descend \/ WriteFile PROVE walk' = "on"
    BY <1>2, <2>2 DEF Descend, WriteFile, Refuses, Visits
  <2> QED BY <2>1, <2>2, SkipFollows, DescendFollows, AscendFollows, WriteFollows DEF WalkStep
<1> QED BY <1>1, <1>2

\* A walk that has ended has written its tree.
LEMMA FollowedToTheEnd ==
  ASSUME NEW Entries, FitEntries(Entries), bounds.maxDepth \in Nat,
         NEW tree, tree.entries \in Seq(Entries),
         Follows(Entries, tree.entries), walk = "done"
  PROVE  {[path |-> p, holds |-> disk[p].holds] : p \in DOMAIN disk} = Contents(tree)
<1> DEFINE In == {y \in NodeOf(Entries) :
                    IsFile(y) /\ InTree(Entries, tree.entries, bounds.maxDepth, y)}
<1>1. Contents(tree) = {[path |-> x.path, holds |-> x.entry.holds] : x \in In}
  BY ContentsIs
<1>2. \A x : x \in In <=> FileOf(Entries, tree.entries, x)
  BY DEF FileOf
<1> HIDE DEF In
<1>3. /\ \A x \in In : x.path \in DOMAIN disk /\ disk[x.path].holds = x.entry.holds
      /\ \A p \in DOMAIN disk : \E x \in In : x.path = p /\ disk[p].holds = x.entry.holds
  BY <1>2, ToComeOfNone DEF Follows, Has
<1> QED BY <1>1, <1>3

-----------------------------------------------------------------------------
(* What a diff reads *)

\* The tree of the side that is worked on.
SideTree == IF side = "old" THEN job.parent ELSE job.tree

\* What is produced is produced of the files of a side's tree.
DirectoryHoldsTheTree ==
  Working /\ walk = "done" =>
    {[path |-> p, holds |-> disk[p].holds] : p \in DOMAIN disk} = Contents(SideTree)

\* The walk of a side follows that side's tree.
FollowsItsTree(Entries) == Working => Follows(Entries, SideTree.entries)

LEMMA FollowingIsKept ==
  ASSUME NEW Entries, NEW Bods, FitTrees(Entries, Bods), DiffInv(Entries, Bods),
         \A tree \in Trees : DistinctNames(Entries, tree),
         FollowsItsTree(Entries), [Next]_vars
  PROVE  FollowsItsTree(Entries)'
<1>1. /\ job \in Jobs /\ job' = job /\ Within(Entries) /\ FitEntries(Entries)
      /\ bounds \in Ceilings
  BY DEF DiffInv, OffAtStart, Within, FitTrees, FitEntries, Next, Start, Materialize, Walk,
         ReadFails, TimesOut, Breaks, NotMaterialized, CannotProduce, ProduceOld, ProduceNew,
         Over, FailsWith, vars, diffVars
<1>2. /\ job.parent.entries \in Trees /\ job.tree.entries \in Trees
      /\ Trees \subseteq Seq(Entries)
  BY <1>1 DEF Trees, FitTrees
<1>3. ASSUME side' \notin {"old", "new"} PROVE FollowsItsTree(Entries)'
  BY <1>3 DEF FollowsItsTree, Working
<1>4. ASSUME NEW tree, tree = SideTree', Follows(Entries, tree.entries)'
      PROVE  FollowsItsTree(Entries)'
  BY <1>4 DEF FollowsItsTree
<1>5. CASE Start
  <2>1. CASE side' = "old"
    <3>1. Begin(job.parent.entries)
      BY <1>5, <2>1 DEF Start, Materialize, FailsWith
    <3>2. PICK tree : tree = job.parent
      OBVIOUS
    <3>3. tree = SideTree'
      BY <1>1, <2>1, <3>2 DEF SideTree
    <3>4. Follows(Entries, tree.entries)'
      BY <1>1, <1>2, <3>1, <3>2, BeginFollows
    <3> QED BY <1>4, <3>3, <3>4
  <2>2. CASE side' # "old"
    <3>1. side' = "over"
      BY <1>5, <2>2 DEF Start, Materialize, FailsWith
    <3> QED BY <1>3, <3>1
  <2> QED BY <2>1, <2>2
<1>6. CASE Walk \/ ReadFails
  <2>1. Working /\ side' = side /\ (WalkStep \/ WalkFails)
    BY <1>6 DEF Walk, ReadFails, diffVars
  <2>2. PICK tree : tree = SideTree
    OBVIOUS
  <2>3. tree = SideTree'
    BY <1>1, <2>1, <2>2 DEF SideTree
  <2>4. tree.entries \in Trees
    BY <1>2, <2>2 DEF SideTree
  <2>5. Follows(Entries, tree.entries)
    BY <2>1, <2>2 DEF FollowsItsTree
  <2>6. Follows(Entries, tree.entries)'
    BY <1>1, <2>1, <2>4, <2>5, WalkFollows
  <2> QED BY <1>4, <2>3, <2>6
<1>7. CASE TimesOut \/ Breaks \/ NotMaterialized \/ CannotProduce \/ ProduceNew
  <2>1. side' = "over"
    BY <1>7 DEF TimesOut, Breaks, NotMaterialized, CannotProduce, ProduceNew, FailsWith
  <2> QED BY <1>3, <2>1
<1>8. CASE ProduceOld
  <2>1. CASE side' = "new"
    <3>1. Begin(job.tree.entries)
      BY <1>8, <2>1 DEF ProduceOld
    <3>2. PICK tree : tree = job.tree
      OBVIOUS
    <3>3. tree = SideTree'
      BY <1>1, <2>1, <3>2 DEF SideTree
    <3>4. Follows(Entries, tree.entries)'
      BY <1>1, <1>2, <3>1, <3>2, BeginFollows
    <3> QED BY <1>4, <3>3, <3>4
  <2>2. CASE side' # "new"
    <3>1. side' = "over"
      BY <1>8, <2>2 DEF ProduceOld
    <3> QED BY <1>3, <3>1
  <2> QED BY <2>1, <2>2
<1>9. CASE UNCHANGED vars
  <2>1. PICK tree : tree = SideTree
    OBVIOUS
  <2>2. tree = SideTree' /\ (Working' <=> Working)
    BY <1>9, <2>1 DEF SideTree, vars, diffVars, Working
  <2>3. Follows(Entries, tree.entries)' <=> Follows(Entries, tree.entries)
    BY <1>9 DEF vars, walkVars, Follows, FileOf, Has, ToCome, Ahead
  <2> QED BY <1>4, <2>1, <2>2, <2>3 DEF FollowsItsTree
<1> QED BY <1>5, <1>6, <1>7, <1>8, <1>9 DEF Next, Over

\* When a walk of a tree in which no directory has a name twice has ended, the
\* directory holds the files of the tree, each with what its blob holds, and no
\* other: what is rendered or parsed is the whole of the commit's subtree
\* (MaterializeSubtreeBounded and materializeAndProduce).
THEOREM SidesAreWhole ==
  Spec => []DirectoryHoldsTheTree
<1> DEFINE Entries == TreeEntries
           Bods == BlockBodies
<1>1. FitTrees(Entries, Bods) /\ \A tree \in Trees : DistinctNames(Entries, tree)
  BY SubtreeDiffAssumption, SubtreeDiffNamesAssumption DEF DistinctNames
<1>2. Spec => []DiffInv(Entries, Bods)
  BY DiffInvariant
<1>3. DiffInv(Entries, Bods) /\ FollowsItsTree(Entries) => DirectoryHoldsTheTree
  <2> SUFFICES ASSUME DiffInv(Entries, Bods), FollowsItsTree(Entries), Working, walk = "done"
               PROVE  {[path |-> p, holds |-> disk[p].holds] : p \in DOMAIN disk}
                        = Contents(SideTree)
    BY DEF DirectoryHoldsTheTree
  <2>1. FitEntries(Entries) /\ bounds.maxDepth \in Nat
    BY <1>1 DEF DiffInv, Within, Ceilings, FitTrees, FitEntries
  <2>2. SideTree.entries \in Seq(Entries)
    BY <1>1 DEF DiffInv, OffAtStart, FitTrees, Trees, SideTree
  <2> QED BY <2>1, <2>2, FollowedToTheEnd DEF FollowsItsTree
<1> HIDE DEF Entries, Bods
<1>4. Init => FollowsItsTree(Entries)
  BY DEF Init, FollowsItsTree, Working
<1>5. DiffInv(Entries, Bods) /\ FollowsItsTree(Entries) /\ [Next]_vars
        => FollowsItsTree(Entries)'
  BY <1>1, FollowingIsKept
<1> QED BY <1>2, <1>3, <1>4, <1>5, PTL DEF Spec

-----------------------------------------------------------------------------
(* What a rendered body was rendered from *)

\* t is P and then B.
Joins(t, P, B) ==
  /\ Len(t) = Len(P) + Len(B)
  /\ \A i \in 1..Len(P) : t[i] = P[i]
  /\ \A i \in 1..Len(B) : t[Len(P) + i] = B[i]

LEMMA ConcatJoins ==
  ASSUME NEW S, NEW P \in Seq(S), NEW B \in Seq(S)
  PROVE  Joins(P \o B, P, B)
<1> DEFINE t == P \o B
<1>1. PICK p \in Nat, b \in Nat : p = Len(P) /\ b = Len(B)
  OBVIOUS
<1>2. Len(t) = p + b /\ \A i \in 1..(p + b) : t[i] = IF i <= p THEN P[i] ELSE B[i - p]
  BY <1>1, ConcatProperties
<1> HIDE DEF t
<1>3. \A i \in 1..p : t[i] = P[i]
  BY <1>2
<1>4. \A i \in 1..b : t[p + i] = B[i]
  <2> TAKE i \in 1..b
  <2>1. p + i \in 1..(p + b) /\ ~(p + i <= p) /\ (p + i) - p = i
    OBVIOUS
  <2> QED BY <1>2, <2>1
<1>5. Joins(t, P, B)
  BY <1>1, <1>2, <1>3, <1>4 DEF Joins
<1> QED BY <1>5 DEF t

LEMMA SameElements ==
  ASSUME NEW S, NEW s \in Seq(S), NEW t \in Seq(S), NEW n \in Nat, Len(s) = n, Len(t) = n,
         \A i \in 1..n : s[i] = t[i]
  PROVE  s = t
OBVIOUS

\* The last block of a text is found again: no other line of it begins one.
LEMMA LastNotLonger ==
  ASSUME NEW P \in Seq(Line), NEW Q \in Seq(Line), NEW B \in BlockText, NEW C \in BlockText,
         P \o B = Q \o C
  PROVE  Len(C) <= Len(B)
<1>1. /\ B \in Seq(Line) /\ C \in Seq(Line) /\ Len(B) >= 1 /\ Opens(B[1])
      /\ \A i \in 2..Len(C) : ~Opens(C[i])
  BY DEF BlockText
<1>2. PICK p \in Nat, q \in Nat, b \in Nat, c \in Nat :
        p = Len(P) /\ q = Len(Q) /\ b = Len(B) /\ c = Len(C)
  BY <1>1
<1> DEFINE T == P \o B
<1>0. Joins(T, P, B) /\ Joins(T, Q, C)
  <2>1. Joins(P \o B, P, B) /\ Joins(Q \o C, Q, C)
    BY <1>1, ConcatJoins
  <2> QED BY <2>1
<1> HIDE DEF T
<1>3. Len(T) = p + b /\ T[p + 1] = B[1]
  <2>1. 1 \in 1..b
    BY <1>1, <1>2
  <2> QED BY <1>0, <1>2, <2>1 DEF Joins
<1>4. Len(T) = q + c /\ \A i \in 1..c : T[q + i] = C[i]
  BY <1>0, <1>2 DEF Joins
<1>5. SUFFICES ASSUME b < c PROVE FALSE
  BY <1>2
<1>6. p + b = q + c
  BY <1>3, <1>4
<1>7. (p + 1) - q \in 2..c /\ q + ((p + 1) - q) = p + 1 /\ (p + 1) - q \in 1..c
  BY <1>1, <1>2, <1>5, <1>6
<1>8. T[p + 1] = C[(p + 1) - q]
  BY <1>4, <1>7
<1> QED BY <1>1, <1>2, <1>3, <1>7, <1>8

LEMMA EqualConcats ==
  ASSUME NEW S, NEW P \in Seq(S), NEW Q \in Seq(S), NEW B \in Seq(S), NEW C \in Seq(S),
         P \o B = Q \o C, Len(P) = Len(Q)
  PROVE  P = Q /\ B = C
<1>1. PICK p \in Nat, b \in Nat, c \in Nat : p = Len(P) /\ b = Len(B) /\ c = Len(C)
  OBVIOUS
<1> DEFINE T == P \o B
<1>0. Joins(T, P, B) /\ Joins(T, Q, C) /\ p = Len(Q)
  <2>1. Joins(P \o B, P, B) /\ Joins(Q \o C, Q, C)
    BY ConcatJoins
  <2> QED BY <1>1, <2>1
<1> HIDE DEF T
<1>2. Len(T) = p + b /\ (\A i \in 1..p : T[i] = P[i]) /\ (\A i \in 1..b : T[p + i] = B[i])
  BY <1>0, <1>1 DEF Joins
<1>3. Len(T) = p + c /\ (\A i \in 1..p : T[i] = Q[i]) /\ (\A i \in 1..c : T[p + i] = C[i])
  BY <1>0, <1>1 DEF Joins
<1>4. b = c
  BY <1>1, <1>2, <1>3
<1>5. (\A i \in 1..p : P[i] = Q[i]) /\ (\A i \in 1..b : B[i] = C[i])
  BY <1>2, <1>3, <1>4
<1>6. P = Q
  BY <1>0, <1>1, <1>5, SameElements
<1>7. B = C
  BY <1>1, <1>4, <1>5, SameElements
<1> QED BY <1>6, <1>7

\* Two ways to divide a text.
Divided(P, B, Q, C) == P \o B = Q \o C

LEMMA LastBlockFound ==
  ASSUME NEW P \in Seq(Line), NEW Q \in Seq(Line), NEW B \in BlockText, NEW C \in BlockText,
         Divided(P, B, Q, C)
  PROVE  P = Q /\ B = C
<1>0. P \o B = Q \o C
  BY DEF Divided
<1>1. B \in Seq(Line) /\ C \in Seq(Line)
  BY DEF BlockText
<1>2. Len(B) <= Len(C) /\ Len(C) <= Len(B)
  BY <1>0, LastNotLonger
<1>3. Len(B) = Len(C)
  BY <1>1, <1>2
<1>4. Len(P) = Len(Q)
  <2>1. Len(P \o B) = Len(P) + Len(B) /\ Len(Q \o C) = Len(Q) + Len(C)
    BY <1>1
  <2> QED BY <1>0, <1>1, <1>3, <2>1
<1> QED BY <1>0, <1>1, <1>4, EqualConcats

LEMMA BlockTextsAreTexts ==
  /\ BlockText \subseteq Seq(Line)
  /\ Seq(BlockText) \subseteq Seq(Seq(Line))
<1>1. BlockText \subseteq Seq(Line)
  BY DEF BlockText
<1>2. \A A, B : A \subseteq B => Seq(A) \subseteq Seq(B)
  OBVIOUS
<1> QED BY <1>1, <1>2

\* A sequence that is not empty ends in an element.
Ends(ss, rest, last) == ss = Append(rest, last)

LEMMA EndsIn ==
  ASSUME NEW S, NEW ss \in Seq(S), Len(ss) # 0
  PROVE  \E rest \in Seq(S) : \E last \in S :
           Ends(ss, rest, last) /\ Len(rest) = Len(ss) - 1
<1>1. PICK n \in Nat : n = Len(ss) /\ n # 0 /\ n \in 1..n
  OBVIOUS
<1> DEFINE rest == SubSeq(ss, 1, n - 1)
<1>2. rest \in Seq(S) /\ Len(rest) = n - 1 /\ \A i \in 1..(n - 1) : rest[i] = ss[i]
  BY <1>1
<1>3. ss[n] \in S
  BY <1>1
<1> HIDE DEF rest
<1>4. /\ Append(rest, ss[n]) \in Seq(S) /\ Len(Append(rest, ss[n])) = n
      /\ \A i \in 1..n : Append(rest, ss[n])[i] = ss[i]
  <2> DEFINE x == ss[n]
             t == Append(rest, x)
  <2>1. /\ t \in Seq(S) /\ Len(t) = Len(rest) + 1 /\ t[Len(rest) + 1] = x
        /\ \A i \in 1..Len(rest) : t[i] = rest[i]
    <3> HIDE DEF x
    <3>1. x \in S
      BY <1>3 DEF x
    <3> QED BY <1>2, <3>1, AppendProperties
  <2> HIDE DEF t
  <2>2. \A i \in 1..n : i = n \/ i \in 1..(n - 1)
    BY <1>1
  <2>3. Len(rest) + 1 = n
    BY <1>1, <1>2
  <2> QED BY <1>2, <2>1, <2>2, <2>3 DEF t
<1>5. ss = Append(rest, ss[n])
  <2> DEFINE t == Append(rest, ss[n])
  <2> HIDE DEF t
  <2>1. t \in Seq(S) /\ Len(t) = n /\ \A i \in 1..n : t[i] = ss[i]
    BY <1>4 DEF t
  <2>2. ss = t
    BY <1>1, <2>1
  <2> QED BY <2>2 DEF t
<1> QED BY <1>1, <1>2, <1>3, <1>5 DEF Ends

LEMMA BlocksFound ==
  ASSUME NEW ps \in Seq(BlockText), NEW qs \in Seq(BlockText),
         FlattenSeq(ps) = FlattenSeq(qs)
  PROVE  ps = qs
<1> DEFINE Same(s, t) == FlattenSeq(s) = FlattenSeq(t)
           Wrong(n) == \E s, t \in Seq(BlockText) : Len(s) = n /\ Same(s, t) /\ s # t
           Bad == {n \in Nat : Wrong(n)}
<1>1. ASSUME NEW s \in Seq(BlockText), Len(s) # 0, FlattenSeq(s) = <<>> PROVE FALSE
  <2>1. PICK r \in Seq(BlockText), B \in BlockText : Ends(s, r, B)
    BY <1>1, EndsIn
  <2>2. FlattenSeq(s) = FlattenSeq(r) \o B
    BY <2>1, FlattenStep, BlockTextsAreTexts DEF Ends
  <2>3. FlattenSeq(r) \in Seq(Line) /\ B \in Seq(Line) /\ Len(B) >= 1
    BY FlattenType, BlockTextsAreTexts DEF BlockText
  <2> DEFINE F == FlattenSeq(r)
  <2> HIDE DEF F
  <2>4. F \o B = <<>> /\ F \in Seq(Line)
    BY <1>1, <2>2, <2>3 DEF F
  <2>5. Len(F \o B) = Len(F) + Len(B)
    BY <2>3, <2>4
  <2>6. Len(F \o B) = 0
    BY <2>4
  <2> QED BY <2>3, <2>4, <2>5, <2>6
<1>2. Bad = {}
  <2> SUFFICES ASSUME Bad # {} PROVE FALSE
    OBVIOUS
  <2>1. PICK n \in Bad : \A k \in Bad : n <= k
    BY LeastOf
  <2>2. PICK s \in Seq(BlockText), t \in Seq(BlockText) : Len(s) = n /\ Same(s, t) /\ s # t
    BY <2>1
  <2>3. n \in Nat /\ Len(t) \in Nat
    BY <2>1
  <2>4. CASE n = 0
    <3>1. s = <<>> /\ t # <<>>
      BY <2>2, <2>4, EmptySeq
    <3>2. FlattenSeq(t) = <<>> /\ Len(t) # 0
      BY <2>2, <3>1, FlattenOfNone, EmptySeq
    <3> QED BY <1>1, <3>2
  <2>5. CASE n # 0 /\ Len(t) = 0
    <3>1. t = <<>>
      BY <2>5, EmptySeq
    <3>2. FlattenSeq(s) = <<>> /\ Len(s) # 0
      BY <2>2, <2>5, <3>1, FlattenOfNone
    <3> QED BY <1>1, <3>2
  <2>6. CASE n # 0 /\ Len(t) # 0
    <3>1. PICK r \in Seq(BlockText), B \in BlockText : Ends(s, r, B) /\ Len(r) = n - 1
      BY <2>2, <2>6, EndsIn
    <3>2. PICK u \in Seq(BlockText), C \in BlockText : Ends(t, u, C)
      BY <2>6, EndsIn
    <3>3. FlattenSeq(s) = FlattenSeq(r) \o B
      BY <3>1, FlattenStep, BlockTextsAreTexts DEF Ends
    <3>4. FlattenSeq(t) = FlattenSeq(u) \o C
      BY <3>2, FlattenStep, BlockTextsAreTexts DEF Ends
    <3>5. FlattenSeq(r) \in Seq(Line) /\ FlattenSeq(u) \in Seq(Line)
      BY FlattenType, BlockTextsAreTexts
    <3>6. FlattenSeq(r) = FlattenSeq(u) /\ B = C
      <4> DEFINE F == FlattenSeq(r)
                 G == FlattenSeq(u)
      <4> HIDE DEF F, G
      <4>1. F \in Seq(Line) /\ G \in Seq(Line)
        BY <3>5 DEF F, G
      <4>2. F \o B = G \o C
        BY <2>2, <3>3, <3>4 DEF F, G
      <4>3. Divided(F, B, G, C)
        BY <4>2 DEF Divided
      <4>4. B \in BlockText /\ C \in BlockText
        BY <3>1, <3>2
      <4>5. F = G /\ B = C
        <5> HIDE DEF Same, Wrong, Bad
        <5> QED BY <4>1, <4>3, <4>4, LastBlockFound
      <4> QED BY <4>5 DEF F, G
    <3>7. r # u
      BY <2>2, <3>1, <3>2, <3>6 DEF Ends
    <3>8. n - 1 \in Bad /\ ~(n <= n - 1)
      BY <2>3, <2>6, <3>1, <3>6, <3>7
    <3> HIDE DEF Bad
    <3> QED BY <2>1, <3>8
  <2> QED BY <2>4, <2>5, <2>6
<1>3. Len(ps) \in Nat /\ Len(ps) \notin Bad
  BY <1>2
<1> QED BY <1>3

\* What follows the attributes begins with a block.
LEMMA BlocksBegin ==
  ASSUME NEW ps \in Seq(BlockText), FlattenSeq(ps) # <<>>
  PROVE  Opens(FlattenSeq(ps)[1])
<1> DEFINE Wrong(n) == \E s \in Seq(BlockText) :
                         Len(s) = n /\ FlattenSeq(s) # <<>> /\ ~Opens(FlattenSeq(s)[1])
           Bad == {n \in Nat : Wrong(n)}
<1>1. Bad = {}
  <2> SUFFICES ASSUME Bad # {} PROVE FALSE
    OBVIOUS
  <2>1. PICK n \in Bad : \A k \in Bad : n <= k
    BY LeastOf
  <2>2. PICK s \in Seq(BlockText) :
          Len(s) = n /\ FlattenSeq(s) # <<>> /\ ~Opens(FlattenSeq(s)[1])
    BY <2>1
  <2>3. n # 0
    BY <2>2, FlattenOfNone, EmptySeq
  <2>4. PICK r \in Seq(BlockText), B \in BlockText : Ends(s, r, B) /\ Len(r) = n - 1
    BY <2>2, <2>3, EndsIn
  <2>5. FlattenSeq(s) = FlattenSeq(r) \o B
    BY <2>4, FlattenStep, BlockTextsAreTexts DEF Ends
  <2>6. FlattenSeq(r) \in Seq(Line) /\ B \in Seq(Line) /\ Len(B) >= 1 /\ Opens(B[1])
    BY FlattenType, BlockTextsAreTexts DEF BlockText
  <2>7. n - 1 \notin Bad /\ n - 1 \in Nat
    <3>1. n - 1 \in Nat /\ ~(n <= n - 1)
      BY <2>3
    <3> HIDE DEF Bad
    <3> QED BY <2>1, <3>1
  <2>8. FlattenSeq(r) = <<>> \/ Opens(FlattenSeq(r)[1])
    BY <2>4, <2>7
  <2> DEFINE F == FlattenSeq(r)
  <2> HIDE DEF F
  <2>9. F \in Seq(Line) /\ (F = <<>> \/ Opens(F[1])) /\ ~Opens((F \o B)[1])
    BY <2>2, <2>5, <2>6, <2>8 DEF F
  <2>10. CASE F = <<>>
    <3>1. F \o B = B
      BY <2>6, <2>10
    <3> QED BY <2>6, <2>9, <3>1
  <2>11. CASE F # <<>>
    <3>1. (F \o B)[1] = F[1]
      BY <2>6, <2>9, <2>11, EmptySeq
    <3> QED BY <2>9, <2>11, <3>1
  <2> QED BY <2>10, <2>11
<1>2. Len(ps) \in Nat /\ Len(ps) \notin Bad
  BY <1>1
<1> QED BY <1>2

\* The attributes of a text are the lines before the first block.
AttributeText == {t \in Seq(Line) : \A i \in 1..Len(t) : t[i][1] = 0 /\ t[i][2] # 0}

LEMMA AttributesNotMore ==
  ASSUME NEW A \in AttributeText, NEW B \in AttributeText, NEW R \in Seq(Line),
         NEW T \in Seq(Line), R # <<>> => Opens(R[1]), A \o R = B \o T
  PROVE  Len(B) <= Len(A)
<1>1. /\ A \in Seq(Line) /\ B \in Seq(Line)
      /\ \A i \in 1..Len(B) : B[i][1] = 0 /\ B[i][2] # 0
  BY DEF AttributeText
<1>2. PICK a \in Nat, b \in Nat, r \in Nat, t \in Nat :
        a = Len(A) /\ b = Len(B) /\ r = Len(R) /\ t = Len(T)
  BY <1>1
<1> DEFINE X == A \o R
<1>0. Joins(X, A, R) /\ Joins(X, B, T)
  <2>1. Joins(A \o R, A, R) /\ Joins(B \o T, B, T)
    BY <1>1, ConcatJoins
  <2> QED BY <2>1
<1> HIDE DEF X
<1>3. Len(X) = a + r /\ \A i \in 1..r : X[a + i] = R[i]
  BY <1>0, <1>2 DEF Joins
<1>4. Len(X) = b + t /\ \A i \in 1..b : X[i] = B[i]
  BY <1>0, <1>2 DEF Joins
<1>5. SUFFICES ASSUME a < b PROVE FALSE
  BY <1>2
<1>6. 1 \in 1..r /\ a + 1 \in 1..b
  BY <1>3, <1>4, <1>5
<1>7. R[1] = B[a + 1]
  BY <1>3, <1>4, <1>6
<1>8. Opens(R[1])
  BY <1>2, <1>6
<1> QED BY <1>1, <1>2, <1>6, <1>7, <1>8 DEF Opens

LEMMA AttributesFound ==
  ASSUME NEW A \in AttributeText, NEW B \in AttributeText, NEW R \in Seq(Line),
         NEW T \in Seq(Line), R # <<>> => Opens(R[1]), T # <<>> => Opens(T[1]),
         Divided(A, R, B, T)
  PROVE  A = B /\ R = T
<1>0. A \o R = B \o T
  BY DEF Divided
<1>1. A \in Seq(Line) /\ B \in Seq(Line)
  BY DEF AttributeText
<1>2. Len(A) = Len(B)
  <2>1. Len(A) <= Len(B) /\ Len(B) <= Len(A)
    BY <1>0, AttributesNotMore
  <2> QED BY <1>1, <2>1
<1> QED BY <1>0, <1>1, <1>2, EqualConcats


\* Lines that are attributes of two bodies are those of one.
LEMMA AttributesTold ==
  ASSUME NEW Bods, FitBodies(Bods), NEW b \in Bods, NEW c \in Bods,
         AttributeLines(b) = AttributeLines(c)
  PROVE  b.attrs = c.attrs
<1> DEFINE L == AttributeLines(b)
<1>1. /\ L \in Seq(Line) /\ b.attrs \in [DOMAIN b.attrs -> Nat]
      /\ \A i \in 1..Len(L) : L[i][2] \in DOMAIN b.attrs /\ L[i][3] = b.attrs[L[i][2]]
      /\ \A name \in DOMAIN b.attrs : \E i \in 1..Len(L) : L[i][2] = name
  BY AttributeLinesAre DEF FitBodies
<1>2. /\ c.attrs \in [DOMAIN c.attrs -> Nat]
      /\ \A i \in 1..Len(L) : L[i][2] \in DOMAIN c.attrs /\ L[i][3] = c.attrs[L[i][2]]
      /\ \A name \in DOMAIN c.attrs : \E i \in 1..Len(L) : L[i][2] = name
  <2> DEFINE K == AttributeLines(c)
  <2>1. /\ c.attrs \in [DOMAIN c.attrs -> Nat]
        /\ \A i \in 1..Len(K) : K[i][2] \in DOMAIN c.attrs /\ K[i][3] = c.attrs[K[i][2]]
        /\ \A name \in DOMAIN c.attrs : \E i \in 1..Len(K) : K[i][2] = name
    BY AttributeLinesAre DEF FitBodies
  <2>2. K = L
    OBVIOUS
  <2> HIDE DEF K, L
  <2> QED BY <2>1, <2>2
<1> HIDE DEF L
<1>3. DOMAIN b.attrs = DOMAIN c.attrs
  BY <1>1, <1>2
<1>4. \A name \in DOMAIN b.attrs : b.attrs[name] = c.attrs[name]
  <2> TAKE name \in DOMAIN b.attrs
  <2>1. PICK i \in 1..Len(L) : L[i][2] = name
    BY <1>1
  <2>2. L[i][3] = b.attrs[L[i][2]] /\ L[i][3] = c.attrs[L[i][2]]
    BY <1>1, <1>2
  <2> QED BY <2>1, <2>2
<1> DEFINE f == b.attrs
           g == c.attrs
<1>5. f \in [DOMAIN f -> Nat] /\ g \in [DOMAIN f -> Nat] /\ \A name \in DOMAIN f : f[name] = g[name]
  BY <1>1, <1>2, <1>3, <1>4
<1> HIDE DEF f, g
<1>6. f = g
  BY <1>5
<1> QED BY <1>6 DEF f, g

LEMMA BlockTold ==
  ASSUME NEW a, NEW b, a.header \in Nat \ {0}, b.header \in Nat \ {0},
         NEW s \in Seq(Line), NEW t \in Seq(Line), BlockLines(a, s) = BlockLines(b, t)
  PROVE  a.header = b.header /\ s = t
<1> DEFINE T == BlockLines(a, s)
<1>1. /\ Len(T) = Len(s) + 2 /\ T[1][3] = a.header
      /\ \A i \in 1..Len(s) : T[i + 1] = <<s[i][1] + 1, s[i][2], s[i][3]>>
  BY BlockLinesAre
<1>2. /\ Len(T) = Len(t) + 2 /\ T[1][3] = b.header
      /\ \A i \in 1..Len(t) : T[i + 1] = <<t[i][1] + 1, t[i][2], t[i][3]>>
  BY BlockLinesAre
<1> HIDE DEF T
<1>3. PICK n \in Nat : n = Len(s) /\ n = Len(t)
  BY <1>1, <1>2
<1>4. \A i \in 1..n : s[i] = t[i]
  <2> TAKE i \in 1..n
  <2>1. s[i] \in Line /\ t[i] \in Line
    BY <1>3, ElementOfSeq
  <2>2. /\ s[i][1] \in Nat /\ t[i][1] \in Nat
        /\ s[i] = <<s[i][1], s[i][2], s[i][3]>> /\ t[i] = <<t[i][1], t[i][2], t[i][3]>>
    BY <2>1, LineIs
  <2>3. <<s[i][1] + 1, s[i][2], s[i][3]>> = <<t[i][1] + 1, t[i][2], t[i][3]>>
    BY <1>1, <1>2, <1>3
  <2>4. s[i][1] + 1 = t[i][1] + 1 /\ s[i][2] = t[i][2] /\ s[i][3] = t[i][3]
    BY <2>3
  <2> DEFINE x == s[i]
             y == t[i]
  <2>5. x = <<x[1], x[2], x[3]>> /\ y = <<y[1], y[2], y[3]>>
    BY <2>2
  <2>6. x[1] = y[1] /\ x[2] = y[2] /\ x[3] = y[3]
    BY <2>2, <2>4
  <2> HIDE DEF x, y
  <2>7. x = y
    BY <2>5, <2>6, Zenon
  <2> QED BY <2>7 DEF x, y
<1>5. s = t
  <2>1. \A S : \A u, v \in Seq(S) :
          Len(u) = n /\ Len(v) = n /\ (\A i \in 1..n : u[i] = v[i]) => u = v
    OBVIOUS
  <2>2. Len(s) = n /\ Len(t) = n
    BY <1>3
  <2> QED BY <1>4, <2>1, <2>2, Zenon
<1> QED BY <1>1, <1>2, <1>5

\* Two bodies whose blocks read as f and g say read the same.
ReadAlike(b, f, c, g) ==
  /\ \A x \in Blocks(b) : f[x].lines \in Seq(Line)
  /\ \A x \in Blocks(c) : g[x].lines \in Seq(Line)
  /\ BodyLines(b, f) = BodyLines(c, g)

\* The lines of a body tell its attributes, and of each block its header and lines.
LEMMA BodyTold ==
  ASSUME NEW Bods, FitBodies(Bods), NEW b \in Bods, NEW c \in Bods, NEW f, NEW g,
         ReadAlike(b, f, c, g)
  PROVE  /\ b.attrs = c.attrs /\ Len(b.nested) = Len(c.nested)
         /\ \A i \in 1..Len(b.nested) :
              /\ b.nested[i].header = c.nested[i].header
              /\ f[b.nested[i]].lines = g[c.nested[i]].lines
<1> DEFINE ps == BlockTexts(b, f)
           qs == BlockTexts(c, g)
           R == FlattenSeq(ps)
           T == FlattenSeq(qs)
           A == AttributeLines(b)
           B == AttributeLines(c)
<1>0. /\ \A x \in Blocks(b) : f[x].lines \in Seq(Line)
      /\ \A x \in Blocks(c) : g[x].lines \in Seq(Line)
      /\ BodyLines(b, f) = BodyLines(c, g)
  BY DEF ReadAlike
<1>1. /\ ps \in Seq(BlockText) /\ R \in Seq(Line) /\ Len(ps) = Len(b.nested)
      /\ qs \in Seq(BlockText) /\ T \in Seq(Line) /\ Len(qs) = Len(c.nested)
  BY <1>0, BlockTextsType
<1>2. A \in AttributeText /\ B \in AttributeText
  <2>1. ASSUME NEW x \in Bods PROVE AttributeLines(x) \in AttributeText
    <3>1. DOMAIN x.attrs \in SUBSET (Nat \ {0})
      BY DEF FitBodies
    <3>2. /\ AttributeLines(x) \in Seq(Line)
          /\ \A i \in 1..Len(AttributeLines(x)) :
               AttributeLines(x)[i][1] = 0 /\ AttributeLines(x)[i][2] \in DOMAIN x.attrs
      BY AttributeLinesAre DEF FitBodies
    <3> QED BY <3>1, <3>2 DEF AttributeText
  <2> QED BY <2>1
<1>3. (R # <<>> => Opens(R[1])) /\ (T # <<>> => Opens(T[1]))
  BY <1>1, BlocksBegin
<1>4. Divided(A, R, B, T)
  BY <1>0 DEF BodyLines, BlockTexts, Divided
<1>5. A = B /\ R = T
  <2> HIDE DEF A, B, R, T
  <2> QED BY <1>1, <1>2, <1>3, <1>4, AttributesFound
<1>6. b.attrs = c.attrs
  BY <1>5, AttributesTold
<1>7. ps = qs
  BY <1>1, <1>5, BlocksFound
<1>8. /\ b.nested \in Seq(Bods) /\ c.nested \in Seq(Bods)
      /\ \A i \in DOMAIN b.nested : b.nested[i].header \in Nat \ {0}
      /\ \A i \in DOMAIN c.nested : c.nested[i].header \in Nat \ {0}
  BY DEF FitBodies
<1>9. PICK n \in Nat : /\ n = Len(b.nested) /\ n = Len(c.nested)
                       /\ DOMAIN b.nested = 1..n /\ DOMAIN c.nested = 1..n
  <2>1. Len(b.nested) = Len(c.nested)
    BY <1>1, <1>7
  <2> HIDE DEF ps, qs, R, T, A, B
  <2> QED BY <1>8, <2>1
<1>10. \A i \in 1..n :
         /\ b.nested[i].header = c.nested[i].header
         /\ f[b.nested[i]].lines = g[c.nested[i]].lines
  <2> TAKE i \in 1..n
  <2>1. i \in DOMAIN b.nested /\ i \in DOMAIN c.nested
    BY <1>9
  <2>2. ps[i] = BlockLines(b.nested[i], f[b.nested[i]].lines)
    BY <2>1 DEF BlockTexts
  <2>3. qs[i] = BlockLines(c.nested[i], g[c.nested[i]].lines)
    BY <2>1 DEF BlockTexts
  <2>4. f[b.nested[i]].lines \in Seq(Line) /\ g[c.nested[i]].lines \in Seq(Line)
    BY <1>0, <2>1 DEF Blocks
  <2> HIDE DEF ps, qs
  <2>5. BlockLines(b.nested[i], f[b.nested[i]].lines) = BlockLines(c.nested[i], g[c.nested[i]].lines)
    BY <1>7, <2>2, <2>3
  <2> QED BY <1>8, <2>1, <2>4, <2>5, BlockTold
<1> QED BY <1>6, <1>9, <1>10

\* Two bodies that are not too deep and read the same are the same.
LEMMA RenderedApart ==
  ASSUME NEW Bods, FitBodies(Bods), NEW x \in Bods, NEW y \in Bods,
         ~renderBody(x).deep, ~renderBody(y).deep,
         renderBody(x).lines = renderBody(y).lines
  PROVE  x.attrs = y.attrs /\ x.nested = y.nested
<1> DEFINE M == MaxBlockDepth
           atX == BodiesAt(x)
           atY == BodiesAt(y)
<1>1. PICK h : Renders(h, atX, M) /\ renderBody(x) = h[M][x]
  BY RenderingExists
<1>2. PICK g : Renders(g, atY, M) /\ renderBody(y) = g[M][y]
  BY RenderingExists
<1>3. M \in Nat
  BY PlanDiffAssumption
<1>4. /\ atX[0] = {x}
      /\ \A n \in 1..M : atX[n] = UNION {Blocks(b) : b \in atX[n - 1]}
      /\ \A n \in 0..M : atX[n] \in SUBSET Bods
      /\ atY[0] = {y}
      /\ \A n \in 1..M : atY[n] = UNION {Blocks(b) : b \in atY[n - 1]}
      /\ \A n \in 0..M : atY[n] \in SUBSET Bods
  BY BodiesAtIs
<1>5. /\ \A n \in 0..M : \A b \in atX[M - n] : h[n][b].lines \in Seq(Line)
      /\ \A n \in 0..M : \A b \in atY[M - n] : g[n][b].lines \in Seq(Line)
  BY <1>1, <1>2, RenderedLines
<1> HIDE DEF atX, atY
<1> DEFINE Alike(n, b, c) ==
             ~h[n][b].deep /\ ~g[n][c].deep /\ h[n][b].lines = g[n][c].lines
           Wrong(n) == \E b \in atX[M - n] : \E c \in atY[M - n] :
                         Alike(n, b, c) /\ ~(b.attrs = c.attrs /\ b.nested = c.nested)
           Bad == {n \in 0..M : Wrong(n)}
<1>6. Bad = {}
  <2> SUFFICES ASSUME Bad # {} PROVE FALSE
    OBVIOUS
  <2>1. Bad \in SUBSET Nat
    BY <1>3
  <2>2. PICK n \in Bad : \A k \in Bad : n <= k
    <3> HIDE DEF Bad
    <3> QED BY <2>1, LeastOf
  <2>3. n \in 0..M /\ M - n \in 0..M
    BY <1>3, <2>2
  <2>4. PICK b \in atX[M - n], c \in atY[M - n] :
          Alike(n, b, c) /\ ~(b.attrs = c.attrs /\ b.nested = c.nested)
    BY <2>2
  <2>5. b \in Bods /\ c \in Bods
    BY <1>4, <2>3
  <2>6. /\ n # 0 /\ h[n][b].lines = BodyLines(b, h[n - 1])
        /\ \A k \in Blocks(b) : ~h[n - 1][k].deep
    <3>1. h[n][b] = IF n = 0 \/ \E k \in Blocks(b) : h[n - 1][k].deep
                     THEN TooDeep
                     ELSE [deep |-> FALSE, lines |-> BodyLines(b, h[n - 1])]
      <4>1. RenderedFrom(h, n, b)
        BY <1>1, <2>3, RenderedAt
      <4> HIDE DEF M, Alike, Wrong, Bad
      <4> QED BY <4>1 DEF RenderedFrom
    <3> QED BY <2>4, <3>1 DEF TooDeep
  <2>7. /\ g[n][c].lines = BodyLines(c, g[n - 1])
        /\ \A k \in Blocks(c) : ~g[n - 1][k].deep
    <3>1. g[n][c] = IF n = 0 \/ \E k \in Blocks(c) : g[n - 1][k].deep
                     THEN TooDeep
                     ELSE [deep |-> FALSE, lines |-> BodyLines(c, g[n - 1])]
      <4>1. RenderedFrom(g, n, c)
        BY <1>2, <2>3, <2>4, RenderedAt
      <4> HIDE DEF M, Alike, Wrong, Bad
      <4> QED BY <4>1 DEF RenderedFrom
    <3> QED BY <2>4, <3>1 DEF TooDeep
  <2>8. n - 1 \in 0..M /\ ~(n <= n - 1)
        /\ M - (n - 1) = (M - n) + 1
        /\ M - (n - 1) \in 1..M
        /\ (M - (n - 1)) - 1 = M - n
    BY <1>3, <2>3, <2>6
  <2>9. Blocks(b) \subseteq atX[M - (n - 1)] /\ Blocks(c) \subseteq atY[M - (n - 1)]
    BY <1>4, <2>4, <2>8
  <2>10. n - 1 \notin Bad
    <3> HIDE DEF Bad
    <3> QED BY <2>2, <2>8
  <2>11. \A k \in Blocks(b) : \A l \in Blocks(c) :
           h[n - 1][k].lines = g[n - 1][l].lines => k.attrs = l.attrs /\ k.nested = l.nested
    BY <2>6, <2>7, <2>8, <2>9, <2>10
  <2>12. /\ \A k \in Blocks(b) : h[n - 1][k].lines \in Seq(Line)
         /\ \A k \in Blocks(c) : g[n - 1][k].lines \in Seq(Line)
    BY <1>5, <2>8, <2>9
  <2>13. BodyLines(b, h[n - 1]) = BodyLines(c, g[n - 1])
    BY <2>4, <2>6, <2>7
  <2>14. /\ b.attrs = c.attrs /\ Len(b.nested) = Len(c.nested)
         /\ \A i \in 1..Len(b.nested) :
              /\ b.nested[i].header = c.nested[i].header
              /\ h[n - 1][b.nested[i]].lines = g[n - 1][c.nested[i]].lines
    <3> DEFINE f == h[n - 1]
               k == g[n - 1]
    <3> HIDE DEF f, k
    <3>1. /\ \A z \in Blocks(b) : f[z].lines \in Seq(Line)
          /\ \A z \in Blocks(c) : k[z].lines \in Seq(Line)
          /\ BodyLines(b, f) = BodyLines(c, k)
      BY <2>12, <2>13 DEF f, k
    <3>2. /\ b.attrs = c.attrs /\ Len(b.nested) = Len(c.nested)
          /\ \A i \in 1..Len(b.nested) :
               /\ b.nested[i].header = c.nested[i].header
               /\ f[b.nested[i]].lines = k[c.nested[i]].lines
      <4> HIDE DEF Bad, Wrong, Alike
      <4>1. ReadAlike(b, f, c, k)
        BY <3>1 DEF ReadAlike
      <4> QED BY <2>5, <3>1, <4>1, BodyTold
    <3> QED BY <3>2 DEF f, k
  <2>15. /\ b.nested \in Seq(Bods) /\ c.nested \in Seq(Bods)
         /\ \A i \in DOMAIN b.nested : WholeBlock(b.nested[i])
         /\ \A i \in DOMAIN c.nested : WholeBlock(c.nested[i])
    BY <2>5 DEF FitBodies
  <2>16. PICK m \in Nat : /\ m = Len(b.nested) /\ m = Len(c.nested)
                          /\ DOMAIN b.nested = 1..m /\ DOMAIN c.nested = 1..m
    BY <2>14, <2>15
  <2>17. \A i \in 1..m : b.nested[i] = c.nested[i]
    <3> TAKE i \in 1..m
    <3> DEFINE k == b.nested[i]
               l == c.nested[i]
    <3>1. k \in Blocks(b) /\ l \in Blocks(c) /\ WholeBlock(k) /\ WholeBlock(l)
      BY <2>15, <2>16 DEF Blocks
    <3>2. k.header = l.header /\ h[n - 1][k].lines = g[n - 1][l].lines
      BY <2>14, <2>16
    <3> HIDE DEF k, l
    <3>3. k.attrs = l.attrs /\ k.nested = l.nested
      BY <2>11, <3>1, <3>2
    <3>4. k = l
      BY <3>1, <3>2, <3>3 DEF WholeBlock
    <3> QED BY <3>4 DEF k, l
  <2>18. b.nested = c.nested
    BY <2>15, <2>16, <2>17, SameElements, SMTT(30)
  <2> QED BY <2>4, <2>14, <2>18
<1>7. M \in 0..M /\ M - M = 0
  BY <1>3
<1>8. ~Wrong(M)
  <2> HIDE DEF Wrong
  <2> QED BY <1>6, <1>7
<1> QED BY <1>1, <1>2, <1>4, <1>7, <1>8

-----------------------------------------------------------------------------
(* What selections and concatenations hold *)

LEMMA RangeOfAppend ==
  ASSUME NEW S, NEW s \in Seq(S), NEW x \in S
  PROVE  Range(Append(s, x)) = Range(s) \cup {x}
<1> DEFINE t == Append(s, x)
<1>1. PICK n \in Nat : n = Len(s) /\ DOMAIN s = 1..n
  OBVIOUS
<1>2. DOMAIN t = 1..(n + 1) /\ t[n + 1] = x /\ \A i \in 1..n : t[i] = s[i]
  BY <1>1, AppendProperties
<1> HIDE DEF t
<1>3. 1..(n + 1) = (1..n) \cup {n + 1}
  OBVIOUS
<1>4. Range(t) = Range(s) \cup {x}
  BY <1>1, <1>2, <1>3 DEF Range
<1> QED BY <1>4 DEF t

LEMMA RangeOfConcat ==
  ASSUME NEW S, NEW s \in Seq(S), NEW t \in Seq(S)
  PROVE  Range(s \o t) = Range(s) \cup Range(t)
<1> DEFINE u == s \o t
<1>1. PICK m \in Nat, n \in Nat : m = Len(s) /\ DOMAIN s = 1..m /\ n = Len(t) /\ DOMAIN t = 1..n
  OBVIOUS
<1>2. Joins(u, s, t)
  BY ConcatJoins
<1>3. DOMAIN u = 1..(m + n)
  BY <1>1, ConcatProperties
<1> HIDE DEF u
<1>4. (\A i \in 1..m : u[i] = s[i]) /\ (\A i \in 1..n : u[m + i] = t[i])
  BY <1>1, <1>2 DEF Joins
<1>5. ASSUME NEW i \in 1..(m + n) PROVE u[i] \in Range(s) \cup Range(t)
  <2>1. CASE i <= m
    <3>1. i \in 1..m
      BY <2>1
    <3> QED BY <1>1, <1>4, <3>1 DEF Range
  <2>2. CASE ~(i <= m)
    <3>1. i - m \in 1..n /\ m + (i - m) = i
      BY <2>2
    <3> QED BY <1>1, <1>4, <3>1 DEF Range
  <2> QED BY <2>1, <2>2
<1>6. ASSUME NEW i \in 1..m PROVE s[i] \in Range(u)
  <2>1. i \in 1..(m + n)
    OBVIOUS
  <2> QED BY <1>3, <1>4, <2>1 DEF Range
<1>7. ASSUME NEW i \in 1..n PROVE t[i] \in Range(u)
  <2>1. m + i \in 1..(m + n)
    OBVIOUS
  <2> QED BY <1>3, <1>4, <2>1 DEF Range
<1>8. Range(u) = {u[i] : i \in 1..(m + n)} /\ Range(s) = {s[i] : i \in 1..m}
      /\ Range(t) = {t[i] : i \in 1..n}
  BY <1>1, <1>3 DEF Range
<1>9. Range(u) = Range(s) \cup Range(t)
  BY <1>5, <1>6, <1>7, <1>8
<1> QED BY <1>9 DEF u

LEMMA SelectedHolds ==
  ASSUME NEW S, NEW s \in Seq(S), NEW I
  PROVE  Range(Selected(s, I)) = {s[i] : i \in I \cap DOMAIN s}
<1>1. PICK m \in Nat : m = Len(s) /\ DOMAIN s = 1..m
  OBVIOUS
<1>2. PICK h : Selects(h, s, I) /\ Selected(s, I) = h[m]
  BY <1>1, SelectionExists
<1> DEFINE Held(n) == {s[i] : i \in I \cap (1..n)}
           Bad == {n \in 0..m : ~(h[n] \in Seq(S) /\ Range(h[n]) = Held(n))}
<1>3. Bad = {}
  <2> SUFFICES ASSUME Bad # {} PROVE FALSE
    OBVIOUS
  <2>1. Bad \in SUBSET Nat
    BY <1>1
  <2>2. PICK n \in Bad : \A k \in Bad : n <= k
    <3> HIDE DEF Bad
    <3> QED BY <2>1, LeastOf
  <2>3. n # 0
    <3>1. h[0] = <<>>
      BY <1>1, <1>2 DEF Selects
    <3>2. Range(h[0]) = {} /\ Held(0) = {}
      BY <3>1 DEF Range
    <3>3. h[0] \in Seq(S)
      BY <3>1
    <3> QED BY <2>2, <3>2, <3>3
  <2>4. n \in 0..m /\ n \in 1..m /\ n - 1 \in 0..m /\ ~(n <= n - 1)
    BY <1>1, <2>2, <2>3
  <2>5. n - 1 \notin Bad
    <3> HIDE DEF Bad
    <3> QED BY <2>2, <2>4
  <2>6. h[n - 1] \in Seq(S) /\ Range(h[n - 1]) = Held(n - 1)
    BY <2>4, <2>5
  <2>7. h[n] = IF n \in I THEN Append(h[n - 1], s[n]) ELSE h[n - 1]
    BY <1>1, <1>2, <2>3, <2>4 DEF Selects
  <2>8. s[n] \in S
    BY <1>1, <2>4
  <2>9. 1..n = (1..(n - 1)) \cup {n}
    BY <2>4
  <2>10. CASE n \in I
    <3>1. Held(n) = Held(n - 1) \cup {s[n]}
      BY <2>9, <2>10
    <3>2. h[n] \in Seq(S) /\ Range(h[n]) = Range(h[n - 1]) \cup {s[n]}
      BY <2>6, <2>7, <2>8, <2>10, RangeOfAppend, AppendProperties
    <3> QED BY <2>2, <2>6, <3>1, <3>2
  <2>11. CASE n \notin I
    <3>1. Held(n) = Held(n - 1)
      BY <2>9, <2>11
    <3> QED BY <2>2, <2>6, <2>7, <2>11, <3>1
  <2> QED BY <2>10, <2>11
<1>4. m \in 0..m
  OBVIOUS
<1>5. Range(h[m]) = Held(m)
  <2> HIDE DEF Held
  <2> QED BY <1>3, <1>4
<1> QED BY <1>1, <1>2, <1>5

LEMMA FlattenHolds ==
  ASSUME NEW S, NEW ss \in Seq(Seq(S))
  PROVE  Range(FlattenSeq(ss)) = UNION {Range(ss[i]) : i \in DOMAIN ss}
<1>1. PICK m \in Nat : m = Len(ss) /\ DOMAIN ss = 1..m
  OBVIOUS
<1>2. CASE m = 0
  <2>1. ss = <<>> /\ DOMAIN ss = {}
    BY <1>1, <1>2, EmptySeq
  <2>2. Range(<<>>) = {}
    BY DEF Range
  <2> QED BY <2>1, <2>2, FlattenOfNone
<1>3. CASE m # 0
  <2>0. PICK h : Flattens(h, ss) /\ FlattenSeq(ss) = h[m]
    BY <1>1, <1>3, FlatteningExists
  <2> DEFINE Held(n) == UNION {Range(ss[i]) : i \in 1..n}
             Bad == {n \in 1..m : ~(h[n] \in Seq(S) /\ Range(h[n]) = Held(n))}
  <2>1. Bad = {}
    <3> SUFFICES ASSUME Bad # {} PROVE FALSE
      OBVIOUS
    <3>1. Bad \in SUBSET Nat
      BY <1>1
    <3>2. PICK n \in Bad : \A k \in Bad : n <= k
      <4> HIDE DEF Bad
      <4> QED BY <3>1, LeastOf
    <3>3. n \in 1..m /\ n \in Nat /\ ss[n] \in Seq(S)
      BY <1>1, <3>2, ElementOfSeq
    <3>4. h[n] = IF n = 1 THEN ss[n] ELSE h[n - 1] \o ss[n]
      BY <1>1, <2>0, <3>3 DEF Flattens
    <3>5. CASE n = 1
      <4>1. 1..1 = {1}
        OBVIOUS
      <4>2. Held(1) = Range(ss[1])
        BY <4>1
      <4> QED BY <3>2, <3>3, <3>4, <3>5, <4>2
    <3>6. CASE n # 1
      <4>1. n - 1 \in 1..m /\ ~(n <= n - 1) /\ 1..n = (1..(n - 1)) \cup {n}
        BY <3>3, <3>6
      <4>2. n - 1 \notin Bad
        <5> HIDE DEF Bad
        <5> QED BY <3>2, <4>1
      <4>3. h[n - 1] \in Seq(S) /\ Range(h[n - 1]) = Held(n - 1)
        BY <4>1, <4>2
      <4>4. Held(n) = Held(n - 1) \cup Range(ss[n])
        BY <4>1
      <4>5. h[n] \in Seq(S)
        BY <3>3, <3>4, <3>6, <4>3, ConcatProperties
      <4>6. Range(h[n]) = Range(h[n - 1]) \cup Range(ss[n])
        BY <3>3, <3>4, <3>6, <4>3, RangeOfConcat, SMTT(30)
      <4> QED BY <3>2, <4>3, <4>4, <4>5, <4>6
    <3> QED BY <3>5, <3>6
  <2>2. m \in 1..m
    BY <1>3
  <2>3. Range(h[m]) = Held(m)
    <3> HIDE DEF Held
    <3> QED BY <2>1, <2>2
  <2> QED BY <1>1, <2>0, <2>3
<1> QED BY <1>2, <1>3

\* In order, a set holds what it held.
LEMMA InOrderRange ==
  ASSUME NEW S, IsFiniteSet(S), NEW R, Orders(R, S)
  PROVE  Range(InOrder(S, R)) = S
<1> DEFINE o == InOrder(S, R)
<1>1. DOMAIN o = 1..Cardinality(S)
  BY DEF InOrder
<1>2. /\ \A n \in 1..Cardinality(S) : o[n] \in S
      /\ \A x \in S : \E n \in 1..Cardinality(S) : o[n] = x
  BY InOrderIs, InOrderHolds
<1> HIDE DEF o
<1>3. Range(o) = S
  BY <1>1, <1>2 DEF Range
<1> QED BY <1>3 DEF o

\* The images of finitely many things are finitely many.
LEMMA ImageFinite ==
  ASSUME NEW S, IsFiniteSet(S), NEW f
  PROVE  IsFiniteSet({f[x] : x \in S})
<1> DEFINE g == [x \in S |-> f[x]]
           T == {f[x] : x \in S}
<1>1. g \in Surjection(S, T)
  BY DEF Surjection
<1> QED BY <1>1, FS_Surjection

-----------------------------------------------------------------------------
(* What is produced of a directory *)

\* What the files of a directory hold, and what they state.
HeldIn(dir) == {[path |-> p, holds |-> dir[p].holds] : p \in DOMAIN dir}

DeclaredIn(contents) ==
  UNION {{[path |-> f.path, at |-> i, id |-> f.holds.blocks[i].labels,
           body |-> f.holds.blocks[i].body] :
            i \in {j \in DOMAIN f.holds.blocks :
                     f.holds.blocks[j].what = "resource"
                     /\ Len(f.holds.blocks[j].labels) = 2}} :
         f \in {c \in contents : c.holds.what = "terraform" /\ c.holds.parses}}

ObjectsIn(contents) ==
  UNION {{[path |-> f.path, at |-> i, id |-> f.holds.documents[i].id,
           body |-> f.holds.documents[i].lines] :
            i \in {j \in DOMAIN f.holds.documents : ~f.holds.documents[j].empty}} :
         f \in {c \in contents : c.holds.what \in {"template", "vendored"}}}

StatedIn(kind, contents) ==
  IF kind = "plan" THEN DeclaredIn(contents) ELSE ObjectsIn(contents)

Statement(p, i, id, body) == [path |-> p, at |-> i, id |-> id, body |-> body]
ResourcesOf(holds) == {i \in DOMAIN holds.blocks : IsResource(holds.blocks[i])}
ObjectsOf(holds) == {i \in DOMAIN holds.documents : IsObject(holds.documents[i])}

LEMMA DeclaredAre ==
  ASSUME NEW dir
  PROVE  /\ \A d \in DeclaredIn(HeldIn(dir)) :
              \E p \in DOMAIN dir : \E i \in ResourcesOf(dir[p].holds) :
                LET b == dir[p].holds.blocks[i]
                IN /\ isTerraformFile(dir[p].holds) /\ dir[p].holds.parses
                   /\ d = Statement(p, i, b.labels, b.body)
         /\ \A p \in DOMAIN dir : isTerraformFile(dir[p].holds) /\ dir[p].holds.parses =>
              \A i \in ResourcesOf(dir[p].holds) :
                LET b == dir[p].holds.blocks[i]
                IN Statement(p, i, b.labels, b.body) \in DeclaredIn(HeldIn(dir))
<1>1. ASSUME NEW d \in DeclaredIn(HeldIn(dir))
      PROVE  \E p \in DOMAIN dir : \E i \in ResourcesOf(dir[p].holds) :
                LET b == dir[p].holds.blocks[i]
                IN /\ isTerraformFile(dir[p].holds) /\ dir[p].holds.parses
                   /\ d = Statement(p, i, b.labels, b.body)
  <2>1. PICK f \in HeldIn(dir) :
          /\ f.holds.what = "terraform" /\ f.holds.parses
          /\ d \in {[path |-> f.path, at |-> i, id |-> f.holds.blocks[i].labels,
                     body |-> f.holds.blocks[i].body] :
                      i \in {j \in DOMAIN f.holds.blocks :
                               f.holds.blocks[j].what = "resource"
                               /\ Len(f.holds.blocks[j].labels) = 2}}
    BY <1>1 DEF DeclaredIn
  <2>2. PICK p \in DOMAIN dir : f.path = p /\ f.holds = dir[p].holds
    BY DEF HeldIn
  <2> QED BY <2>1, <2>2 DEF ResourcesOf, IsResource, isTerraformFile, Statement
<1>2. ASSUME NEW p \in DOMAIN dir, isTerraformFile(dir[p].holds), dir[p].holds.parses,
             NEW i \in ResourcesOf(dir[p].holds)
      PROVE  LET b == dir[p].holds.blocks[i]
             IN Statement(p, i, b.labels, b.body) \in DeclaredIn(HeldIn(dir))
  <2> DEFINE f == [path |-> p, holds |-> dir[p].holds]
  <2>1. f \in HeldIn(dir) /\ f.path = p /\ f.holds = dir[p].holds
    BY DEF HeldIn
  <2> HIDE DEF f
  <2>2. f \in {c \in HeldIn(dir) : c.holds.what = "terraform" /\ c.holds.parses}
    BY <1>2, <2>1 DEF isTerraformFile
  <2>3. i \in {j \in DOMAIN f.holds.blocks :
                 f.holds.blocks[j].what = "resource" /\ Len(f.holds.blocks[j].labels) = 2}
    BY <2>1 DEF ResourcesOf, IsResource
  <2>4. [path |-> f.path, at |-> i, id |-> f.holds.blocks[i].labels,
         body |-> f.holds.blocks[i].body] \in DeclaredIn(HeldIn(dir))
    BY <2>2, <2>3 DEF DeclaredIn
  <2> QED BY <2>1, <2>4 DEF Statement
<1> QED BY <1>1, <1>2

LEMMA ObjectsAre ==
  ASSUME NEW dir
  PROVE  /\ \A d \in ObjectsIn(HeldIn(dir)) :
              \E p \in DOMAIN dir : \E i \in ObjectsOf(dir[p].holds) :
                LET o == dir[p].holds.documents[i]
                IN /\ dir[p].holds.what \in {"template", "vendored"}
                   /\ d = Statement(p, i, o.id, o.lines)
         /\ \A p \in DOMAIN dir : dir[p].holds.what \in {"template", "vendored"} =>
              \A i \in ObjectsOf(dir[p].holds) :
                LET o == dir[p].holds.documents[i]
                IN Statement(p, i, o.id, o.lines) \in ObjectsIn(HeldIn(dir))
<1>1. ASSUME NEW d \in ObjectsIn(HeldIn(dir))
      PROVE  \E p \in DOMAIN dir : \E i \in ObjectsOf(dir[p].holds) :
                LET o == dir[p].holds.documents[i]
                IN /\ dir[p].holds.what \in {"template", "vendored"}
                   /\ d = Statement(p, i, o.id, o.lines)
  <2>1. PICK f \in HeldIn(dir) :
          /\ f.holds.what \in {"template", "vendored"}
          /\ d \in {[path |-> f.path, at |-> i, id |-> f.holds.documents[i].id,
                     body |-> f.holds.documents[i].lines] :
                      i \in {j \in DOMAIN f.holds.documents : ~f.holds.documents[j].empty}}
    BY <1>1 DEF ObjectsIn
  <2>2. PICK p \in DOMAIN dir : f.path = p /\ f.holds = dir[p].holds
    BY DEF HeldIn
  <2> QED BY <2>1, <2>2 DEF ObjectsOf, IsObject, Statement
<1>2. ASSUME NEW p \in DOMAIN dir, dir[p].holds.what \in {"template", "vendored"},
             NEW i \in ObjectsOf(dir[p].holds)
      PROVE  LET o == dir[p].holds.documents[i]
             IN Statement(p, i, o.id, o.lines) \in ObjectsIn(HeldIn(dir))
  <2> DEFINE f == [path |-> p, holds |-> dir[p].holds]
  <2>1. f \in HeldIn(dir) /\ f.path = p /\ f.holds = dir[p].holds
    BY DEF HeldIn
  <2> HIDE DEF f
  <2>2. f \in {c \in HeldIn(dir) : c.holds.what \in {"template", "vendored"}}
    BY <1>2, <2>1
  <2>3. i \in {j \in DOMAIN f.holds.documents : ~f.holds.documents[j].empty}
    BY <2>1 DEF ObjectsOf, IsObject
  <2>4. [path |-> f.path, at |-> i, id |-> f.holds.documents[i].id,
         body |-> f.holds.documents[i].lines] \in ObjectsIn(HeldIn(dir))
    BY <2>2, <2>3 DEF ObjectsIn
  <2> QED BY <2>1, <2>4 DEF Statement
<1> QED BY <1>1, <1>2

LEMMA FamilyFinite ==
  ASSUME NEW S, IsFiniteSet(S), NEW F, \A x \in S : IsFiniteSet(F[x])
  PROVE  IsFiniteSet(UNION {F[x] : x \in S})
<1>1. IsFiniteSet({F[x] : x \in S})
  BY ImageFinite
<1> QED BY <1>1, FS_UNION

\* A directory states finitely much.
LEMMA StatedFinite ==
  ASSUME NEW Bods, NEW dir, FitDirectory(Bods, dir), NEW kind
  PROVE  IsFiniteSet(StatedIn(kind, HeldIn(dir)))
<1> DEFINE Places(p) == 1..(IF isTerraformFile(dir[p].holds) THEN Len(dir[p].holds.blocks)
                              ELSE Len(dir[p].holds.documents))
           D == {p \in DOMAIN dir : dir[p].holds.what \in {"terraform", "template", "vendored"}}
           Said(p, i) ==
             IF kind = "plan"
               THEN Statement(p, i, dir[p].holds.blocks[i].labels, dir[p].holds.blocks[i].body)
               ELSE Statement(p, i, dir[p].holds.documents[i].id, dir[p].holds.documents[i].lines)
           F == [p \in D |-> {Said(p, i) : i \in Places(p)}]
<1>1. IsFiniteSet(D)
  BY FS_Subset DEF FitDirectory
<1>2. \A p \in D : IsFiniteSet(F[p])
  <2> TAKE p \in D
  <2>1. PICK n \in Nat : Places(p) = 1..n
    <3>1. FitHolds(Bods, dir[p].holds)
      BY DEF FitDirectory
    <3> QED BY <3>1 DEF FitHolds, isTerraformFile
  <2>2. IsFiniteSet(1..n)
    BY FS_Interval
  <2> DEFINE f == [i \in 1..n |-> Said(p, i)]
  <2>3. F[p] = {f[i] : i \in 1..n}
    BY <2>1
  <2> HIDE DEF F, f
  <2> QED BY <2>2, <2>3, ImageFinite
<1>3. IsFiniteSet(UNION {F[p] : p \in D})
  <2> HIDE DEF F, D
  <2> QED BY <1>1, <1>2, FamilyFinite
<1>4. CASE kind = "plan"
  <2>1. ASSUME NEW d \in DeclaredIn(HeldIn(dir)) PROVE d \in UNION {F[p] : p \in D}
    <3>1. PICK p \in DOMAIN dir : \E i \in ResourcesOf(dir[p].holds) :
                LET b == dir[p].holds.blocks[i]
                IN /\ isTerraformFile(dir[p].holds) /\ dir[p].holds.parses
                   /\ d = Statement(p, i, b.labels, b.body)
      BY <2>1, DeclaredAre
    <3>2. PICK i \in ResourcesOf(dir[p].holds) : isTerraformFile(dir[p].holds) /\ d = Said(p, i)
      BY <1>4, <3>1
    <3>3. FitHolds(Bods, dir[p].holds) /\ p \in D
      BY <3>2 DEF FitDirectory, isTerraformFile
    <3>4. i \in Places(p)
      BY <3>2, <3>3 DEF FitHolds, ResourcesOf, isTerraformFile
    <3>5. d \in F[p]
      <4>1. F[p] = {Said(p, j) : j \in Places(p)}
        BY <3>3
      <4> HIDE DEF F, Said, Places
      <4> QED BY <3>2, <3>4, <4>1
    <3> HIDE DEF F, D
    <3> QED BY <3>3, <3>5
  <2>2. DeclaredIn(HeldIn(dir)) \in SUBSET UNION {F[p] : p \in D}
    BY <2>1
  <2> HIDE DEF F, D
  <2> QED BY <1>3, <1>4, <2>2, FS_Subset DEF StatedIn
<1>5. CASE kind # "plan"
  <2>1. ASSUME NEW d \in ObjectsIn(HeldIn(dir)) PROVE d \in UNION {F[p] : p \in D}
    <3>1. PICK p \in DOMAIN dir : \E i \in ObjectsOf(dir[p].holds) :
                LET o == dir[p].holds.documents[i]
                IN /\ dir[p].holds.what \in {"template", "vendored"}
                   /\ d = Statement(p, i, o.id, o.lines)
      BY <2>1, ObjectsAre
    <3>2. PICK i \in ObjectsOf(dir[p].holds) :
            dir[p].holds.what \in {"template", "vendored"} /\ d = Said(p, i)
      BY <1>5, <3>1
    <3>3. FitHolds(Bods, dir[p].holds) /\ p \in D
      BY <3>2 DEF FitDirectory
    <3>4. i \in Places(p)
      BY <3>2, <3>3 DEF FitHolds, ObjectsOf, isTerraformFile
    <3>5. d \in F[p]
      <4>1. F[p] = {Said(p, j) : j \in Places(p)}
        BY <3>3
      <4> HIDE DEF F, Said, Places
      <4> QED BY <3>2, <3>4, <4>1
    <3> HIDE DEF F, D
    <3> QED BY <3>3, <3>5
  <2>2. ObjectsIn(HeldIn(dir)) \in SUBSET UNION {F[p] : p \in D}
    BY <2>1
  <2> HIDE DEF F, D
  <2> QED BY <1>3, <1>5, <2>2, FS_Subset DEF StatedIn
<1> QED BY <1>4, <1>5

\* What is made of a statement.
AsResource(d) ==
  [id |-> d.id, attrs |-> d.body.attrs, body |-> renderBody(d.body).lines]
AsManifest(d) == [id |-> d.id, lines |-> d.body]

Sound(Bods, d) ==
  /\ d.id \in Names /\ Len(d.id) = 2
  /\ d.body \in Bods /\ Whole(d.body) /\ ~renderBody(d.body).deep

\* made is what is made of the statements of a side, all of them and no others.
Tells(Bods, kind, made, things) ==
  /\ IsFiniteSet(things)
  /\ IF kind = "plan"
       THEN /\ \A d \in things : Sound(Bods, d)
            /\ Range(made) = {AsResource(d) : d \in things}
       ELSE Range(made) = {AsManifest(d) : d \in things}

LEMMA FileParses ==
  ASSUME NEW Bods, FitBodies(Bods), NEW holds, FitHolds(Bods, holds), isTerraformFile(holds),
         parseFile(holds).error = "none"
  PROVE  /\ holds.parses
         /\ \A i \in ResourcesOf(holds) :
              LET b == holds.blocks[i]
              IN Sound(Bods, Statement(<<>>, i, b.labels, b.body))
         /\ Range(parseFile(holds).made) = {Resource(holds.blocks[i]) : i \in ResourcesOf(holds)}
<1> DEFINE I == {i \in DOMAIN holds.blocks : IsResource(holds.blocks[i])}
           resources == Selected(holds.blocks, I)
           made == [i \in DOMAIN resources |-> Resource(resources[i])]
<1>1. holds.blocks \in Seq(BlockOf(Bods))
  BY DEF FitHolds, isTerraformFile
<1>2. I = ResourcesOf(holds) /\ I \cap DOMAIN holds.blocks = ResourcesOf(holds)
  BY DEF ResourcesOf
<1>3. Range(resources) = {holds.blocks[i] : i \in ResourcesOf(holds)}
  <2> HIDE DEF I
  <2> QED BY <1>1, <1>2, SelectedHolds
<1>4. /\ holds.parses /\ ~\E i \in DOMAIN resources : renderBody(resources[i].body).deep
      /\ parseFile(holds) = Made(made)
  <2> HIDE DEF made
  <2>1. parseFile(holds) =
          CASE ~holds.parses -> Failed("malformed")
            [] \E i \in DOMAIN resources : renderBody(resources[i].body).deep
                 -> Failed("too-deep")
            [] OTHER -> Made(made)
    BY DEF parseFile, made
  <2>2. Failed("malformed").error # "none" /\ Failed("too-deep").error # "none"
    BY DEF Failed
  <2> HIDE DEF resources
  <2> QED BY <2>1, <2>2
<1>5. \A i \in ResourcesOf(holds) :
        LET b == holds.blocks[i]
        IN Sound(Bods, Statement(<<>>, i, b.labels, b.body))
  <2> TAKE i \in ResourcesOf(holds)
  <2> DEFINE b == holds.blocks[i]
  <2>1. b \in BlockOf(Bods) /\ IsResource(b)
    BY <1>1 DEF ResourcesOf
  <2>2. b.labels \in Names /\ Len(b.labels) = 2 /\ b.body \in Bods /\ Whole(b.body)
    BY <2>1 DEF BlockOf, IsResource
  <2>3. PICK k \in DOMAIN resources : resources[k] = b
    <3>1. b \in Range(resources)
      BY <1>3
    <3> HIDE DEF resources, b
    <3> QED BY <3>1 DEF Range
  <2>4. ~renderBody(b.body).deep
    <3> HIDE DEF resources, b
    <3> QED BY <1>4, <2>3
  <2> HIDE DEF b
  <2>5. Sound(Bods, Statement(<<>>, i, b.labels, b.body))
    BY <2>2, <2>4 DEF Sound, Statement
  <2> QED BY <2>5 DEF b
<1>6. Range(made) = {Resource(holds.blocks[i]) : i \in ResourcesOf(holds)}
  <2>1. Range(made) = {Resource(x) : x \in Range(resources)}
    <3> HIDE DEF resources
    <3> QED BY DEF Range
  <2> HIDE DEF made, resources
  <2> QED BY <1>3, <2>1
<1>7. parseFile(holds).made = made
  <2> HIDE DEF made
  <2> QED BY <1>4 DEF Made
<1> HIDE DEF made
<1> QED BY <1>4, <1>5, <1>6, <1>7

LEMMA ParsedTells ==
  ASSUME NEW Bods, FitBodies(Bods), NEW dir, FitDirectory(Bods, dir), Parse(dir).error = "none"
  PROVE  Tells(Bods, "plan", Parse(dir).made, DeclaredIn(HeldIn(dir)))
<1> DEFINE P == {p \in DOMAIN dir : isTerraformFile(dir[p].holds)}
           files == Sorted(P)
           parsed == [i \in DOMAIN files |-> parseFile(dir[files[i]].holds)]
           failed == {i \in DOMAIN files : parsed[i].error # "none"}
           parts == [i \in DOMAIN files |-> parsed[i].made]
           things == DeclaredIn(HeldIn(dir))
<1>1. P \in SUBSET Names /\ IsFiniteSet(P)
  BY FS_Subset DEF FitDirectory
<1>2. /\ DOMAIN files = 1..Cardinality(P) /\ Cardinality(P) \in Nat
      /\ \A i \in DOMAIN files : files[i] \in P
      /\ \A p \in P : \E i \in DOMAIN files : files[i] = p
  <2> HIDE DEF P
  <2> QED BY <1>1, SortedIs
<1>3. PICK n \in Nat : DOMAIN files = 1..n
  BY <1>2
<1>4. \A i \in 1..n : parsed[i].made \in Seq(ResourceOf(Bods))
  BY <1>2, <1>3, FileType DEF FitDirectory
<1>5. parsed = [i \in DOMAIN files |-> parseFile(dir[files[i]].holds)]
  OBVIOUS
<1>6. Parse(dir) = IF failed # {} THEN parsed[Min(failed)] ELSE Made(FlattenSeq(parts))
  BY DEF Parse
<1> HIDE DEF files, parsed
<1>7. parts \in Seq(Seq(ResourceOf(Bods))) /\ DOMAIN parts = 1..n
  <2>1. parts \in [1..n -> Seq(ResourceOf(Bods))]
    BY <1>3, <1>4
  <2> HIDE DEF parts
  <2> QED BY <1>3, <2>1
<1>8. failed = {}
  <2> SUFFICES ASSUME failed # {} PROVE FALSE
    OBVIOUS
  <2>1. failed \in SUBSET Nat
    BY <1>3
  <2>2. Min(failed) \in failed
    <3> HIDE DEF failed
    <3> QED BY <2>1, LeastOf DEF Min
  <2>3. parsed[Min(failed)].error # "none"
    BY <2>2
  <2> QED BY <1>6, <2>3
<1>9. \A i \in 1..n : parsed[i].error = "none" /\ parsed[i] = parseFile(dir[files[i]].holds)
  BY <1>3, <1>5, <1>8
<1>10. Parse(dir).made = FlattenSeq(parts)
  <2> HIDE DEF failed, parts
  <2> QED BY <1>6, <1>8 DEF Made
<1>11. \A i \in 1..n : parts[i] = parseFile(dir[files[i]].holds).made
  BY <1>3, <1>9
<1>12. Range(FlattenSeq(parts)) = UNION {Range(parts[i]) : i \in 1..n}
  <2> HIDE DEF parts
  <2> QED BY <1>7, FlattenHolds
<1>13. \A p \in P : /\ FitHolds(Bods, dir[p].holds) /\ isTerraformFile(dir[p].holds)
                    /\ parseFile(dir[p].holds).error = "none"
  <2> TAKE p \in P
  <2>1. PICK i \in 1..n : files[i] = p
    BY <1>2, <1>3
  <2>2. parseFile(dir[p].holds).error = "none"
    BY <1>9, <2>1
  <2> QED BY <2>2 DEF FitDirectory
<1>14. \A p \in P :
         /\ dir[p].holds.parses
         /\ \A i \in ResourcesOf(dir[p].holds) :
              LET b == dir[p].holds.blocks[i]
              IN Sound(Bods, Statement(<<>>, i, b.labels, b.body))
         /\ Range(parseFile(dir[p].holds).made)
              = {Resource(dir[p].holds.blocks[i]) : i \in ResourcesOf(dir[p].holds)}
  <2> TAKE p \in P
  <2> HIDE DEF P
  <2> QED BY <1>13, FileParses
<1>15. \A d \in things : \E p \in P : \E i \in ResourcesOf(dir[p].holds) :
         LET b == dir[p].holds.blocks[i]
         IN d = Statement(p, i, b.labels, b.body)
  BY DeclaredAre
<1>16. \A p \in P : \A i \in ResourcesOf(dir[p].holds) :
         LET b == dir[p].holds.blocks[i]
         IN Statement(p, i, b.labels, b.body) \in things
  BY <1>14, DeclaredAre
<1> HIDE DEF things, parts, failed
<1>17. \A d \in things : Sound(Bods, d)
  <2> TAKE d \in things
  <2>0. PICK p \in P : \E i \in ResourcesOf(dir[p].holds) :
          d = Statement(p, i, dir[p].holds.blocks[i].labels, dir[p].holds.blocks[i].body)
    BY <1>15
  <2>1. PICK i \in ResourcesOf(dir[p].holds) :
          d = Statement(p, i, dir[p].holds.blocks[i].labels, dir[p].holds.blocks[i].body)
    BY <2>0
  <2>2. Sound(Bods, Statement(<<>>, i, dir[p].holds.blocks[i].labels, dir[p].holds.blocks[i].body))
    BY <1>14
  <2> QED BY <2>1, <2>2 DEF Sound, Statement
<1>18. \A q, i, b : AsResource(Statement(q, i, b.labels, b.body)) = Resource(b)
  BY DEF AsResource, Statement, Resource
<1>19. ASSUME NEW r \in Range(FlattenSeq(parts)) PROVE \E d \in things : r = AsResource(d)
  <2>1. PICK i \in 1..n : r \in Range(parts[i])
    BY <1>12, <1>19
  <2>2. files[i] \in P /\ r \in Range(parseFile(dir[files[i]].holds).made)
    BY <1>2, <1>3, <1>11, <2>1
  <2>3. PICK p \in P : p = files[i]
    BY <2>2
  <2>4. r \in {Resource(dir[p].holds.blocks[k]) : k \in ResourcesOf(dir[p].holds)}
    BY <1>14, <2>2, <2>3
  <2>5. PICK k \in ResourcesOf(dir[p].holds) : r = Resource(dir[p].holds.blocks[k])
    BY <2>4
  <2> QED BY <1>16, <1>18, <2>5
<1>20. ASSUME NEW d \in things PROVE AsResource(d) \in Range(FlattenSeq(parts))
  <2>0. PICK p \in P : \E k \in ResourcesOf(dir[p].holds) :
          d = Statement(p, k, dir[p].holds.blocks[k].labels, dir[p].holds.blocks[k].body)
    BY <1>15
  <2>1. PICK k \in ResourcesOf(dir[p].holds) :
          d = Statement(p, k, dir[p].holds.blocks[k].labels, dir[p].holds.blocks[k].body)
    BY <2>0
  <2>2. AsResource(d) \in Range(parseFile(dir[p].holds).made)
    BY <1>14, <1>18, <2>1
  <2>3. PICK i \in 1..n : files[i] = p
    BY <1>2, <1>3
  <2>4. AsResource(d) \in Range(parts[i])
    BY <1>11, <2>2, <2>3
  <2> QED BY <1>12, <2>4
<1>21. Range(FlattenSeq(parts)) = {AsResource(d) : d \in things}
  BY <1>19, <1>20
<1>22. IsFiniteSet(things)
  <2>1. IsFiniteSet(StatedIn("plan", HeldIn(dir)))
    BY StatedFinite
  <2> QED BY <2>1 DEF StatedIn, things
<1>23. Tells(Bods, "plan", Parse(dir).made, things)
  BY <1>10, <1>17, <1>21, <1>22 DEF Tells
<1> QED BY <1>23 DEF things

\* Whatever order normalize puts the objects in, all are there.
LEMMA NormalizedHolds ==
  ASSUME NEW documents \in Seq(Document), normalize(documents).error = "none"
  PROVE  Range(normalize(documents).made)
           = {[id |-> o.id, lines |-> o.lines] : o \in {x \in Range(documents) : IsObject(x)}}
<1> DEFINE I == {i \in DOMAIN documents : IsObject(documents[i])}
           objects == Selected(documents, I)
           at == DOMAIN objects
           R == {p \in at \X at :
                   \/ ManifestBefore(objects[p[1]], objects[p[2]])
                   \/ objects[p[1]] = objects[p[2]] /\ p[1] < p[2]}
           order == InOrder(at, R)
           made == [i \in at |-> [id |-> objects[order[i]].id, lines |-> objects[order[i]].lines]]
<1>1. objects \in Seq(Object)
  <2>1. \A i \in 1..Len(documents) : i \in I => documents[i] \in Object
    <3> TAKE i \in 1..Len(documents)
    <3>1. documents[i] \in Document
      OBVIOUS
    <3>2. i \in I => ~documents[i].empty
      BY DEF IsObject
    <3> QED BY <3>1, <3>2 DEF Document, Object
  <2> HIDE DEF I
  <2> QED BY <2>1, SelectedType
<1>2. Range(objects) = {x \in Range(documents) : IsObject(x)}
  <2>1. Range(objects) = {documents[i] : i \in I \cap DOMAIN documents}
    <3> HIDE DEF I
    <3> QED BY SelectedHolds
  <2> HIDE DEF objects
  <2> QED BY <2>1 DEF Range
<1>3. normalize(documents) = IF \E i \in DOMAIN objects : objects[i].id[1] = 0
                               THEN RenderFailed("malformed-chart") ELSE Rendered(made)
  BY Zenon DEF normalize
<1> HIDE DEF objects
<1>4. PICK n \in Nat : n = Len(objects) /\ at = 1..n
  BY <1>1
<1>5. Orders(R, at)
  BY <1>1, ManifestsAreOrdered
<1>6. IsFiniteSet(at)
  <2>1. IsFiniteSet(1..n)
    BY FS_Interval
  <2> HIDE DEF at
  <2> QED BY <1>4, <2>1
<1>7. Range(order) = at /\ DOMAIN order = at
  <2>1. Range(order) = at
    <3> HIDE DEF at, R
    <3> QED BY <1>5, <1>6, InOrderRange
  <2>2. IsFiniteSet(1..n) /\ Cardinality(1..n) = IF 1 > n THEN 0 ELSE n - 1 + 1
    BY FS_Interval
  <2>3. (IF 1 > n THEN 0 ELSE n - 1 + 1) = n
    OBVIOUS
  <2>4. DOMAIN order = 1..Cardinality(at)
    <3> HIDE DEF at, R
    <3> QED BY DEF InOrder
  <2> HIDE DEF at, order
  <2> QED BY <1>4, <2>1, <2>2, <2>3, <2>4
<1> HIDE DEF order
<1>8. Range(made) = {[id |-> o.id, lines |-> o.lines] : o \in Range(objects)}
  <2> DEFINE About(o) == [id |-> o.id, lines |-> o.lines]
  <2>1. DOMAIN made = at /\ \A i \in at : made[i] = About(objects[order[i]])
    OBVIOUS
  <2>2. \A i \in at : order[i] \in at
    BY <1>7 DEF Range
  <2>3. \A i \in at : \E k \in at : order[k] = i
    BY <1>7 DEF Range
  <2> HIDE DEF made, About
  <2>4. Range(made) = {About(o) : o \in Range(objects)}
    BY <2>1, <2>2, <2>3 DEF Range
  <2> QED BY <2>4 DEF About
<1> HIDE DEF made
<1>9. normalize(documents) = Rendered(made)
  <2>1. RenderFailed("malformed-chart").error # "none"
    BY DEF RenderFailed
  <2> QED BY <1>3, <2>1
<1> QED BY <1>2, <1>8, <1>9 DEF Rendered

LEMMA RenderedTells ==
  ASSUME NEW Bods, NEW dir, FitDirectory(Bods, dir), Render(dir).error = "none",
         NEW kind, kind # "plan"
  PROVE  Tells(Bods, kind, Render(dir).made, ObjectsIn(HeldIn(dir)))
<1> DEFINE P == Holding(dir, "template") \cup Holding(dir, "vendored")
           files == Sorted(P)
           parts == [i \in DOMAIN files |-> dir[files[i]].holds.documents]
           things == ObjectsIn(HeldIn(dir))
<1>1. /\ P \in SUBSET Names /\ IsFiniteSet(P)
      /\ \A p \in P : dir[p].holds.documents \in Seq(Document)
  <2>1. P \in SUBSET DOMAIN dir /\ \A p \in P : dir[p].holds.what \in {"template", "vendored"}
    BY DEF Holding
  <2> QED BY <2>1, FS_Subset DEF FitDirectory, FitHolds
<1>2. /\ DOMAIN files = 1..Cardinality(P) /\ Cardinality(P) \in Nat
      /\ \A i \in DOMAIN files : files[i] \in P
      /\ \A p \in P : \E i \in DOMAIN files : files[i] = p
  <2> HIDE DEF P
  <2> QED BY <1>1, SortedIs
<1>3. PICK n \in Nat : DOMAIN files = 1..n
  BY <1>2
<1>4. \A i \in 1..n : dir[files[i]].holds.documents \in Seq(Document)
  BY <1>1, <1>2, <1>3
<1>5. Documents(dir) = FlattenSeq(parts)
  BY DEF Documents
<1> HIDE DEF files
<1>6. parts \in Seq(Seq(Document)) /\ DOMAIN parts = 1..n
      /\ \A i \in 1..n : parts[i] = dir[files[i]].holds.documents
  <2>1. parts \in [1..n -> Seq(Document)] /\ \A i \in 1..n : parts[i] = dir[files[i]].holds.documents
    BY <1>3, <1>4
  <2> HIDE DEF parts
  <2> QED BY <1>3, <2>1
<1> HIDE DEF parts
<1>7. FlattenSeq(parts) \in Seq(Document)
  BY <1>6, FlattenType
<1>8. Range(FlattenSeq(parts)) = UNION {Range(parts[i]) : i \in 1..n}
  BY <1>6, FlattenHolds
<1>9. Render(dir) = normalize(Documents(dir))
  <2>1. /\ RenderFailed("malformed-chart").error # "none"
        /\ RenderFailed("dependency-not-vendored").error # "none"
    BY DEF RenderFailed
  <2>2. Loads(dir) /\ missingDependencies(dir) = {}
    BY <2>1 DEF Render
  <2> QED BY <2>1, <2>2 DEF Render
<1>10. Range(Render(dir).made)
         = {[id |-> o.id, lines |-> o.lines] : o \in {x \in Range(Documents(dir)) : IsObject(x)}}
  BY <1>5, <1>7, <1>9, NormalizedHolds
<1>11. \A p \in P : \A i \in ObjectsOf(dir[p].holds) :
         LET o == dir[p].holds.documents[i]
         IN Statement(p, i, o.id, o.lines) \in things
  BY ObjectsAre DEF Holding
<1>12. \A d \in things : \E p \in P : \E i \in ObjectsOf(dir[p].holds) :
         LET o == dir[p].holds.documents[i]
         IN d = Statement(p, i, o.id, o.lines)
  BY ObjectsAre DEF Holding
<1> HIDE DEF things, P
<1>13. \A q, i, o : AsManifest(Statement(q, i, o.id, o.lines)) = [id |-> o.id, lines |-> o.lines]
  BY DEF AsManifest, Statement
<1>14. ASSUME NEW o \in Range(Documents(dir)), IsObject(o)
       PROVE  \E d \in things : [id |-> o.id, lines |-> o.lines] = AsManifest(d)
  <2>1. PICK i \in 1..n : o \in Range(parts[i])
    BY <1>5, <1>8, <1>14
  <2>2. PICK p \in P : p = files[i]
    BY <1>2, <1>3
  <2>3. o \in Range(dir[p].holds.documents)
    BY <1>6, <2>1, <2>2
  <2>4. PICK k \in DOMAIN dir[p].holds.documents : o = dir[p].holds.documents[k]
    BY <2>3 DEF Range
  <2>5. k \in ObjectsOf(dir[p].holds)
    BY <1>14, <2>4 DEF ObjectsOf
  <2>6. Statement(p, k, o.id, o.lines) \in things
    BY <1>11, <2>4, <2>5
  <2>7. AsManifest(Statement(p, k, o.id, o.lines)) = [id |-> o.id, lines |-> o.lines]
    BY <1>13
  <2> QED BY <2>6, <2>7
<1>15. ASSUME NEW d \in things
       PROVE  \E o \in Range(Documents(dir)) :
                IsObject(o) /\ AsManifest(d) = [id |-> o.id, lines |-> o.lines]
  <2>1. PICK p \in P : \E i \in ObjectsOf(dir[p].holds) :
          d = Statement(p, i, dir[p].holds.documents[i].id, dir[p].holds.documents[i].lines)
    BY <1>12
  <2>2. PICK i \in ObjectsOf(dir[p].holds) :
          d = Statement(p, i, dir[p].holds.documents[i].id, dir[p].holds.documents[i].lines)
    BY <2>1
  <2>3. PICK o : o = dir[p].holds.documents[i]
    OBVIOUS
  <2>4. IsObject(o) /\ o \in Range(dir[p].holds.documents)
    <3>1. i \in DOMAIN dir[p].holds.documents /\ IsObject(dir[p].holds.documents[i])
      BY DEF ObjectsOf
    <3> QED BY <2>3, <3>1 DEF Range
  <2>5. PICK k \in 1..n : files[k] = p
    BY <1>2, <1>3
  <2>6. o \in Range(parts[k])
    BY <1>6, <2>4, <2>5
  <2>7. o \in Range(Documents(dir))
    BY <1>5, <1>8, <2>6
  <2> QED BY <1>13, <2>2, <2>3, <2>4, <2>7
<1>16. Range(Render(dir).made) = {AsManifest(d) : d \in things}
  BY <1>10, <1>14, <1>15
<1>17. IsFiniteSet(things)
  <2>1. IsFiniteSet(StatedIn(kind, HeldIn(dir)))
    BY StatedFinite
  <2> QED BY <2>1 DEF StatedIn, things
<1>18. Tells(Bods, kind, Render(dir).made, things)
  BY <1>16, <1>17 DEF Tells
<1> QED BY <1>18 DEF things

-----------------------------------------------------------------------------
(* What a diff says of an identity *)

\* The statements of an identity, and what they give as its body.
Stating(things, id) == {d \in things : d.id = id}
BodiesOf(things, id) == {d.body : d \in Stating(things, id)}
AtMostOnce(things, id) == Cardinality(Stating(things, id)) <= 1

LEMMA OnlyOne ==
  ASSUME NEW S, IsFiniteSet(S), Cardinality(S) <= 1, NEW x \in S, NEW y \in S
  PROVE  x = y
<1>1. Cardinality(S) \in Nat
  BY FS_CardinalityType
<1>2. Cardinality(S) # 0
  BY FS_EmptySet
<1>3. Cardinality(S) = 1
  BY <1>1, <1>2
<1>4. PICK z : S = {z}
  BY <1>3, FS_Singleton
<1> QED BY <1>4

\* Stated once, it has one body.
LEMMA TheBody ==
  ASSUME NEW things, IsFiniteSet(things), NEW d \in things, AtMostOnce(things, d.id)
  PROVE  BodiesOf(things, d.id) = {d.body}
<1> DEFINE S == Stating(things, d.id)
<1>1. IsFiniteSet(S) /\ Cardinality(S) <= 1 /\ d \in S
  BY FS_Subset DEF Stating, AtMostOnce
<1>2. \A x \in S : x = d
  <2> HIDE DEF S
  <2> QED BY <1>1, OnlyOne
<1>3. S = {d}
  BY <1>1, <1>2
<1> QED BY <1>3 DEF BodiesOf

LEMMA IndexByIDIs ==
  ASSUME NEW made, Len(made) \in Nat, DOMAIN made = 1..Len(made)
  PROVE  /\ DOMAIN indexByID(made) = {r.id : r \in Range(made)}
         /\ \A id \in DOMAIN indexByID(made) :
              /\ indexByID(made)[id] \in Range(made)
              /\ indexByID(made)[id].id = id
              /\ indexByID(made)[id] = made[LastOf(made, id)]
<1>1. /\ DOMAIN indexByID(made) = {made[i].id : i \in DOMAIN made}
      /\ \A id \in DOMAIN indexByID(made) : indexByID(made)[id] = made[LastOf(made, id)]
  BY DEF indexByID
<1>2. {made[i].id : i \in DOMAIN made} = {r.id : r \in Range(made)}
  BY DEF Range
<1>3. \A id \in DOMAIN indexByID(made) :
        made[LastOf(made, id)] \in Range(made) /\ made[LastOf(made, id)].id = id
  <2> TAKE id \in DOMAIN indexByID(made)
  <2>1. PICK i \in DOMAIN made : made[i].id = id
    BY <1>1
  <2>2. LastOf(made, made[i].id) \in DOMAIN made /\ made[LastOf(made, made[i].id)].id = made[i].id
    BY LastOfIs
  <2>3. LastOf(made, id) \in DOMAIN made /\ made[LastOf(made, id)].id = id
    BY <2>1, <2>2
  <2> QED BY <2>3 DEF Range
<1> QED BY <1>1, <1>2, <1>3

LEMMA IndexByIdentityIs ==
  ASSUME NEW made, Len(made) \in Nat, DOMAIN made = 1..Len(made)
  PROVE  /\ DOMAIN indexByIdentity(made) = {r.id : r \in Range(made)}
         /\ \A id \in DOMAIN indexByIdentity(made) :
              \E r \in Range(made) : r.id = id /\ indexByIdentity(made)[id] = r.lines
<1>1. /\ DOMAIN indexByIdentity(made) = {made[i].id : i \in DOMAIN made}
      /\ \A id \in DOMAIN indexByIdentity(made) :
           indexByIdentity(made)[id] = made[LastOf(made, id)].lines
  BY DEF indexByIdentity
<1>2. {made[i].id : i \in DOMAIN made} = {r.id : r \in Range(made)}
  BY DEF Range
<1>3. \A id \in DOMAIN indexByIdentity(made) :
        made[LastOf(made, id)] \in Range(made) /\ made[LastOf(made, id)].id = id
  <2> TAKE id \in DOMAIN indexByIdentity(made)
  <2>1. PICK i \in DOMAIN made : made[i].id = id
    BY <1>1
  <2>2. LastOf(made, made[i].id) \in DOMAIN made /\ made[LastOf(made, made[i].id)].id = made[i].id
    BY LastOfIs
  <2>3. LastOf(made, id) \in DOMAIN made /\ made[LastOf(made, id)].id = id
    BY <2>1, <2>2
  <2> QED BY <2>3 DEF Range
<1> QED BY <1>1, <1>2, <1>3

\* What the index of a parsed side holds of an address.
LEMMA ResourceTold ==
  ASSUME NEW Bods, NEW made \in Seq(ResourceOf(Bods)), NEW things,
         Tells(Bods, "plan", made, things), NEW id
  PROVE  /\ id \in DOMAIN indexByID(made) <=> Stating(things, id) # {}
         /\ id \in DOMAIN indexByID(made) =>
              \E d \in things :
                /\ Sound(Bods, d) /\ d.id = id
                /\ indexByID(made)[id] = AsResource(d)
                /\ AtMostOnce(things, id) => BodiesOf(things, id) = {d.body}
<1>1. Len(made) \in Nat /\ DOMAIN made = 1..Len(made)
  OBVIOUS
<1>2. /\ IsFiniteSet(things) /\ \A d \in things : Sound(Bods, d)
      /\ Range(made) = {AsResource(d) : d \in things}
  BY DEF Tells
<1>3. \A d : AsResource(d).id = d.id
  BY DEF AsResource
<1>4. DOMAIN indexByID(made) = {d.id : d \in things}
  <2>1. {r.id : r \in Range(made)} = {d.id : d \in things}
    BY <1>2, <1>3
  <2>2. DOMAIN indexByID(made) = {r.id : r \in Range(made)}
    BY <1>1, IndexByIDIs
  <2> QED BY <2>1, <2>2
<1>5. ASSUME id \in DOMAIN indexByID(made)
      PROVE  \E d \in things : d.id = id /\ indexByID(made)[id] = AsResource(d)
  <2>1. indexByID(made)[id] \in Range(made) /\ indexByID(made)[id].id = id
    BY <1>1, <1>5, IndexByIDIs
  <2>2. PICK d \in things : indexByID(made)[id] = AsResource(d)
    BY <1>2, <2>1
  <2> QED BY <1>3, <2>1, <2>2
<1>6. ASSUME NEW d \in things, d.id = id, AtMostOnce(things, id)
      PROVE  BodiesOf(things, id) = {d.body}
  BY <1>2, <1>6, TheBody
<1> QED BY <1>2, <1>4, <1>5, <1>6 DEF Stating

\* What the index of a rendered side holds of an identity.
ManifestsTell(made, things, id) ==
  /\ id \in DOMAIN indexByIdentity(made) <=> Stating(things, id) # {}
  /\ id \in DOMAIN indexByIdentity(made) =>
       \E d \in things :
         /\ d.id = id /\ indexByIdentity(made)[id] = d.body
         /\ AtMostOnce(things, id) => BodiesOf(things, id) = {d.body}

LEMMA ManifestTold ==
  ASSUME NEW Bods, NEW kind, kind # "plan", NEW made \in Seq(Manifest), NEW things,
         Tells(Bods, kind, made, things), NEW id
  PROVE  ManifestsTell(made, things, id)
<1>1. Len(made) \in Nat /\ DOMAIN made = 1..Len(made)
  OBVIOUS
<1>2. /\ IsFiniteSet(things)
      /\ Range(made) = {AsManifest(d) : d \in things}
  BY DEF Tells
<1>3. \A d : AsManifest(d).id = d.id /\ AsManifest(d).lines = d.body
  BY DEF AsManifest
<1>4. DOMAIN indexByIdentity(made) = {d.id : d \in things}
  <2>1. {r.id : r \in Range(made)} = {d.id : d \in things}
    BY <1>2, <1>3
  <2>2. DOMAIN indexByIdentity(made) = {r.id : r \in Range(made)}
    BY <1>1, IndexByIdentityIs
  <2> QED BY <2>1, <2>2
<1>5. ASSUME id \in DOMAIN indexByIdentity(made)
      PROVE  \E d \in things : d.id = id /\ indexByIdentity(made)[id] = d.body
  <2>1. PICK r \in Range(made) : r.id = id /\ indexByIdentity(made)[id] = r.lines
    BY <1>1, <1>5, IndexByIdentityIs
  <2>2. PICK d \in things : r = AsManifest(d)
    BY <1>2, <2>1
  <2> QED BY <1>3, <2>1, <2>2
<1>6. ASSUME NEW d \in things, d.id = id, AtMostOnce(things, id)
      PROVE  BodiesOf(things, id) = {d.body}
  BY <1>2, <1>6, TheBody
<1> QED BY <1>4, <1>5, <1>6 DEF ManifestsTell, Stating

\* Rendered apart exactly when their bodies are.
LEMMA SoundApart ==
  ASSUME NEW Bods, FitBodies(Bods), NEW c, Sound(Bods, c), NEW d, Sound(Bods, d)
  PROVE  AsResource(c).body = AsResource(d).body <=> c.body = d.body
<1> DEFINE x == c.body
           y == d.body
<1>1. /\ x \in Bods /\ Whole(x) /\ ~renderBody(x).deep
      /\ y \in Bods /\ Whole(y) /\ ~renderBody(y).deep
  BY DEF Sound
<1>2. AsResource(c).body = renderBody(x).lines /\ AsResource(d).body = renderBody(y).lines
  BY DEF AsResource
<1> HIDE DEF x, y
<1>3. ASSUME renderBody(x).lines = renderBody(y).lines PROVE x = y
  <2>1. x.attrs = y.attrs /\ x.nested = y.nested
    BY <1>1, <1>3, RenderedApart
  <2>2. x = [attrs |-> x.attrs, nested |-> x.nested] /\ y = [attrs |-> y.attrs, nested |-> y.nested]
    BY <1>1 DEF Whole
  <2> QED BY <2>1, <2>2
<1>4. AsResource(c).body = AsResource(d).body <=> x = y
  BY <1>2, <1>3
<1> QED BY <1>4 DEF x, y

\* The addresses that differ, and what is said of each.
DiffersIn(o, n) ==
  {id \in DOMAIN o \cup DOMAIN n : id \in DOMAIN o \cap DOMAIN n => o[id].body # n[id].body}
DeltaOf(o, n, id) ==
  CASE id \notin DOMAIN o -> [id |-> id, kind |-> "added", forces |-> FALSE]
    [] id \notin DOMAIN n -> [id |-> id, kind |-> "removed", forces |-> TRUE]
    [] OTHER -> [id |-> id, kind |-> "changed", forces |-> attrChanged(o[id], n[id])]

LEMMA DeltaIs ==
  ASSUME NEW o, NEW n, NEW id \in DOMAIN o \cup DOMAIN n
  PROVE  /\ id \notin DOMAIN o =>
              DeltaOf(o, n, id) = [id |-> id, kind |-> "added", forces |-> FALSE]
         /\ id \notin DOMAIN n =>
              DeltaOf(o, n, id) = [id |-> id, kind |-> "removed", forces |-> TRUE]
         /\ id \in DOMAIN o \cap DOMAIN n =>
              DeltaOf(o, n, id) =
                [id |-> id, kind |-> "changed", forces |-> attrChanged(o[id], n[id])]
<1>1. CASE id \notin DOMAIN o
  BY <1>1 DEF DeltaOf
<1>2. CASE id \notin DOMAIN n
  BY <1>2 DEF DeltaOf
<1>3. CASE id \in DOMAIN o \cap DOMAIN n
  BY <1>3 DEF DeltaOf
<1> QED BY <1>1, <1>2, <1>3

LEMMA DeltaSays ==
  ASSUME NEW o, NEW n, NEW id \in DOMAIN o \cup DOMAIN n
  PROVE  /\ DeltaOf(o, n, id).id = id
         /\ DeltaOf(o, n, id).kind \in {"added", "removed", "changed"}
         /\ DeltaOf(o, n, id).kind = "added" => ~DeltaOf(o, n, id).forces
         /\ DeltaOf(o, n, id).kind = "removed" => DeltaOf(o, n, id).forces
<1> DEFINE d == DeltaOf(o, n, id)
<1>1. CASE id \notin DOMAIN o
  <2>1. d = [id |-> id, kind |-> "added", forces |-> FALSE]
    BY <1>1, DeltaIs
  <2> HIDE DEF d
  <2>2. d.id = id /\ d.kind = "added" /\ d.forces = FALSE
    BY <2>1
  <2> QED BY <2>2 DEF d
<1>2. CASE id \notin DOMAIN n
  <2>1. d = [id |-> id, kind |-> "removed", forces |-> TRUE]
    BY <1>2, DeltaIs
  <2> HIDE DEF d
  <2>2. d.id = id /\ d.kind = "removed" /\ d.forces = TRUE
    BY <2>1
  <2> QED BY <2>2 DEF d
<1>3. CASE id \in DOMAIN o \cap DOMAIN n
  <2>1. d = [id |-> id, kind |-> "changed", forces |-> attrChanged(o[id], n[id])]
    BY <1>3, DeltaIs
  <2> HIDE DEF d
  <2>2. d.id = id /\ d.kind = "changed"
    BY <2>1
  <2> QED BY <2>2 DEF d
<1> QED BY <1>1, <1>2, <1>3

LEMMA DeltasAre ==
  ASSUME NEW Bods, NEW olds \in Seq(ResourceOf(Bods)), NEW news \in Seq(ResourceOf(Bods))
  PROVE  LET o == indexByID(olds)
             n == indexByID(news)
             S == DiffersIn(o, n)
             ds == resourceDelta(olds, news)
         IN /\ S \in SUBSET {id \in Names : Len(id) = 2} /\ IsFiniteSet(S)
            /\ Cardinality(S) \in Nat /\ DOMAIN ds = 1..Cardinality(S)
            /\ \A i \in DOMAIN ds : \E id \in S : ds[i] = DeltaOf(o, n, id)
            /\ \A id \in S : \E i \in DOMAIN ds : ds[i] = DeltaOf(o, n, id)
<1> DEFINE o == indexByID(olds)
           n == indexByID(news)
           S == DiffersIn(o, n)
           ids == Sorted(S)
           ds == resourceDelta(olds, news)
<1>1. ASSUME NEW made \in Seq(ResourceOf(Bods))
      PROVE  /\ DOMAIN indexByID(made) \in SUBSET {id \in Names : Len(id) = 2}
             /\ IsFiniteSet(DOMAIN indexByID(made))
  <2>1. Len(made) \in Nat /\ DOMAIN made = 1..Len(made)
    OBVIOUS
  <2>2. \A r \in ResourceOf(Bods) : r.id \in Names /\ Len(r.id) = 2
    BY DEF ResourceOf
  <2>3. \A i \in DOMAIN made : made[i] \in ResourceOf(Bods)
    OBVIOUS
  <2>4. DOMAIN indexByID(made) = {made[i].id : i \in DOMAIN made}
    BY DEF indexByID
  <2>5. IsFiniteSet({made[i].id : i \in DOMAIN made})
    BY <2>1, IdentitiesAreFinite
  <2> QED BY <2>2, <2>3, <2>4, <2>5
<1>2. S \in SUBSET {id \in Names : Len(id) = 2} /\ IsFiniteSet(S)
  <2>1. S \in SUBSET (DOMAIN o \cup DOMAIN n)
    BY DEF DiffersIn
  <2>2. IsFiniteSet(DOMAIN o \cup DOMAIN n)
    BY <1>1, FS_Union
  <2>3. DOMAIN o \in SUBSET {id \in Names : Len(id) = 2} /\ DOMAIN n \in SUBSET {id \in Names : Len(id) = 2}
    BY <1>1
  <2> HIDE DEF S, o, n
  <2> QED BY <2>1, <2>2, <2>3, FS_Subset
<1>3. ds = [i \in DOMAIN ids |-> DeltaOf(o, n, ids[i])]
  BY DEF resourceDelta, DeltaOf, DiffersIn
<1> HIDE DEF S, o, n, ds
<1>4. /\ Cardinality(S) \in Nat /\ DOMAIN ids = 1..Cardinality(S)
      /\ \A i \in DOMAIN ids : ids[i] \in S
      /\ \A id \in S : \E i \in DOMAIN ids : ids[i] = id
  <2>1. S \in SUBSET Names
    BY <1>2
  <2> QED BY <1>2, <2>1, SortedIs
<1> HIDE DEF ids
<1>5. /\ DOMAIN ds = DOMAIN ids
      /\ \A i \in DOMAIN ids : ds[i] = DeltaOf(o, n, ids[i])
  BY <1>3
<1>6. /\ S \in SUBSET {id \in Names : Len(id) = 2} /\ IsFiniteSet(S)
      /\ Cardinality(S) \in Nat /\ DOMAIN ds = 1..Cardinality(S)
      /\ \A i \in DOMAIN ds : \E id \in S : ds[i] = DeltaOf(o, n, id)
      /\ \A id \in S : \E i \in DOMAIN ds : ds[i] = DeltaOf(o, n, id)
  BY <1>2, <1>4, <1>5
<1> QED BY <1>6 DEF S, o, n, ds

LEMMA SummaryAdds ==
  ASSUME NEW ds, NEW m \in Nat, DOMAIN ds = 1..m,
         \A i \in DOMAIN ds :
           /\ ds[i].kind \in {"added", "removed", "changed"}
           /\ ds[i].kind = "added" => ~ds[i].forces
           /\ ds[i].kind = "removed" => ds[i].forces
  PROVE  /\ Summary(ds).added + Summary(ds).removed + Summary(ds).changed = m
         /\ Summary(ds).removed <= Summary(ds).replaced
         /\ Summary(ds).replaced <= Summary(ds).removed + Summary(ds).changed
<1> DEFINE Of(kind) == {i \in DOMAIN ds : ds[i].kind = kind}
           A == Of("added")
           R == Of("removed")
           C == Of("changed")
           F == {i \in DOMAIN ds : ds[i].forces}
<1>1. IsFiniteSet(1..m) /\ Cardinality(1..m) = m
  <2>1. IsFiniteSet(1..m) /\ Cardinality(1..m) = IF 1 > m THEN 0 ELSE m - 1 + 1
    BY FS_Interval
  <2>2. (IF 1 > m THEN 0 ELSE m - 1 + 1) = m
    OBVIOUS
  <2> QED BY <2>1, <2>2
<1>2. A \in SUBSET (1..m) /\ R \in SUBSET (1..m) /\ C \in SUBSET (1..m) /\ F \in SUBSET (1..m)
  OBVIOUS
<1>3. A \cup R \cup C = 1..m
  OBVIOUS
<1>4. A \cap R = {} /\ (A \cup R) \cap C = {} /\ R \cap C = {}
  <2>1. "added" # "removed" /\ "added" # "changed" /\ "removed" # "changed"
    OBVIOUS
  <2> QED BY <2>1
<1>5. R \in SUBSET F /\ F \in SUBSET (R \cup C)
  OBVIOUS
<1>6. /\ Summary(ds).added = Cardinality(A) /\ Summary(ds).removed = Cardinality(R)
      /\ Summary(ds).changed = Cardinality(C) /\ Summary(ds).replaced = Cardinality(F)
  BY DEF Summary
<1> HIDE DEF A, R, C, F
<1>7. IsFiniteSet(A) /\ IsFiniteSet(R) /\ IsFiniteSet(C) /\ IsFiniteSet(F)
  BY <1>1, <1>2, FS_Subset
<1>8. /\ Cardinality(A) \in Nat /\ Cardinality(R) \in Nat /\ Cardinality(C) \in Nat
      /\ Cardinality(F) \in Nat
  BY <1>7, FS_CardinalityType
<1>9. /\ Cardinality(A \cap R) = 0 /\ Cardinality((A \cup R) \cap C) = 0
      /\ Cardinality(R \cap C) = 0
  BY <1>4, FS_EmptySet
<1>10. /\ IsFiniteSet(A \cup R) /\ IsFiniteSet(R \cup C)
       /\ Cardinality(A \cup R) = Cardinality(A) + Cardinality(R) - Cardinality(A \cap R)
       /\ Cardinality(R \cup C) = Cardinality(R) + Cardinality(C) - Cardinality(R \cap C)
  BY <1>7, FS_Union
<1>11. Cardinality((A \cup R) \cup C)
         = Cardinality(A \cup R) + Cardinality(C) - Cardinality((A \cup R) \cap C)
  BY <1>7, <1>10, FS_Union
<1>12. /\ Cardinality(R \cup C) = Cardinality(R) + Cardinality(C)
       /\ Cardinality((A \cup R) \cup C) = Cardinality(A) + Cardinality(R) + Cardinality(C)
  BY <1>8, <1>9, <1>10, <1>11
<1>13. Cardinality(R) <= Cardinality(F) /\ Cardinality(F) <= Cardinality(R \cup C)
  BY <1>5, <1>7, <1>10, FS_Subset
<1>14. Cardinality((A \cup R) \cup C) = m
  BY <1>1, <1>3
<1> QED BY <1>6, <1>8, <1>12, <1>13, <1>14

\* An address as the identity of a manifest.
Pair == {id \in Names : Len(id) = 2}
Wide(id) == <<id[1], 0, id[2]>>

LEMMA WideApart ==
  ASSUME NEW id \in Pair, NEW jd \in Pair, Wide(id) = Wide(jd)
  PROVE  id = jd
<1>1. id \in Seq(Nat) /\ Len(id) = 2 /\ jd \in Seq(Nat) /\ Len(jd) = 2
  BY DEF Pair, Names
<1>2. id[1] = jd[1] /\ id[2] = jd[2]
  BY DEF Wide
<1>3. \A i \in 1..2 : id[i] = jd[i]
  <2>1. \A i \in 1..2 : i = 1 \/ i = 2
    OBVIOUS
  <2> QED BY <1>2, <2>1
<1> QED BY <1>1, <1>3, SameElements

LEMMA WideIndex ==
  ASSUME NEW Bods, NEW made \in Seq(ResourceOf(Bods))
  PROVE  /\ DOMAIN indexByID(made) \in SUBSET Pair
         /\ DOMAIN indexByIdentity(PlanManifests(made))
              = {Wide(id) : id \in DOMAIN indexByID(made)}
         /\ \A id \in DOMAIN indexByID(made) :
              indexByIdentity(PlanManifests(made))[Wide(id)] = indexByID(made)[id].body
<1> DEFINE ms == PlanManifests(made)
<1>1. PICK n \in Nat : n = Len(made) /\ DOMAIN made = 1..n
  OBVIOUS
<1>2. /\ DOMAIN ms = 1..n
      /\ \A i \in 1..n : ms[i].id = Wide(made[i].id) /\ ms[i].lines = made[i].body
  BY <1>1 DEF PlanManifests, toManifestdiffManifests, Wide
<1>3. \A i \in 1..n : made[i].id \in Pair
  <2>1. \A r \in ResourceOf(Bods) : r.id \in Pair
    BY DEF ResourceOf, Pair
  <2> QED BY <1>1, <2>1
<1> HIDE DEF ms
<1>4. DOMAIN indexByID(made) = {made[i].id : i \in 1..n}
  BY <1>1 DEF indexByID
<1>5. DOMAIN indexByIdentity(ms) = {ms[i].id : i \in 1..n}
  BY <1>2 DEF indexByIdentity
<1>6. DOMAIN indexByIdentity(ms) = {Wide(id) : id \in DOMAIN indexByID(made)}
  BY <1>2, <1>4, <1>5
<1>7. ASSUME NEW id \in DOMAIN indexByID(made)
      PROVE  indexByIdentity(ms)[Wide(id)] = indexByID(made)[id].body
  <2>1. id \in Pair /\ Wide(id) \in DOMAIN indexByIdentity(ms)
    BY <1>3, <1>4, <1>6
  <2>2. {i \in DOMAIN ms : ms[i].id = Wide(id)} = {i \in DOMAIN made : made[i].id = id}
    <3>1. \A i \in 1..n : Wide(made[i].id) = Wide(id) <=> made[i].id = id
      BY <1>3, <2>1, WideApart
    <3> QED BY <1>1, <1>2, <3>1
  <2>3. LastOf(ms, Wide(id)) = LastOf(made, id)
    BY <2>2 DEF LastOf
  <2>4. indexByIdentity(ms)[Wide(id)] = ms[LastOf(ms, Wide(id))].lines
    BY <1>5, <2>1 DEF indexByIdentity
  <2>5. indexByID(made)[id] = made[LastOf(made, id)]
    BY <1>7 DEF indexByID
  <2>6. LastOf(made, id) \in 1..n
    <3>1. PICK i \in DOMAIN made : made[i].id = id
      BY <1>1, <1>4
    <3>2. LastOf(made, made[i].id) \in DOMAIN made
      BY <1>1, LastOfIs
    <3> QED BY <1>1, <3>1, <3>2
  <2> QED BY <1>2, <2>3, <2>4, <2>5, <2>6
<1>8. DOMAIN indexByID(made) \in SUBSET Pair
  BY <1>3, <1>4
<1> QED BY <1>6, <1>7, <1>8 DEF ms

\* A plan's resources that differ are its manifests that do.
LEMMA WideChanged ==
  ASSUME NEW Bods, NEW olds \in Seq(ResourceOf(Bods)), NEW news \in Seq(ResourceOf(Bods))
  PROVE  Cardinality(Changed(indexByIdentity(PlanManifests(olds)),
                             indexByIdentity(PlanManifests(news))))
           = Cardinality(DiffersIn(indexByID(olds), indexByID(news)))
<1> DEFINE o == indexByID(olds)
           n == indexByID(news)
           v == indexByIdentity(PlanManifests(olds))
           w == indexByIdentity(PlanManifests(news))
           S == DiffersIn(o, n)
           T == Changed(v, w)
<1>1. /\ DOMAIN o \in SUBSET Pair /\ DOMAIN n \in SUBSET Pair
      /\ DOMAIN v = {Wide(id) : id \in DOMAIN o} /\ DOMAIN w = {Wide(id) : id \in DOMAIN n}
      /\ \A id \in DOMAIN o : v[Wide(id)] = o[id].body
      /\ \A id \in DOMAIN n : w[Wide(id)] = n[id].body
  BY WideIndex
<1>2. IsFiniteSet(S)
  BY DeltasAre
<1> HIDE DEF o, n, v, w
<1>3. \A id \in Pair : /\ Wide(id) \in DOMAIN v <=> id \in DOMAIN o
                       /\ Wide(id) \in DOMAIN w <=> id \in DOMAIN n
  BY <1>1, WideApart
<1>4. S \in SUBSET Pair
  BY <1>1 DEF DiffersIn
<1>5. ASSUME NEW id \in S PROVE Wide(id) \in T
  BY <1>1, <1>3, <1>4, <1>5 DEF DiffersIn, Changed
<1>6. ASSUME NEW x \in T PROVE \E id \in S : x = Wide(id)
  <2>1. PICK id \in DOMAIN o \cup DOMAIN n : x = Wide(id)
    BY <1>1, <1>6 DEF Changed
  <2>2. id \in S
    BY <1>1, <1>3, <1>6, <2>1 DEF DiffersIn, Changed
  <2> QED BY <2>1, <2>2
<1> DEFINE f == [id \in S |-> Wide(id)]
<1> HIDE DEF S, T
<1>7. f \in Surjection(S, T)
  BY <1>5, <1>6 DEF Surjection
<1>8. f \in Injection(S, T)
  BY <1>4, <1>5, WideApart DEF Injection, IsInjective
<1>9. Cardinality(T) = Cardinality(S)
  BY <1>2, <1>7, <1>8, FS_Surjection
<1> QED BY <1>9 DEF S, T, o, n, v, w

\* The identities that two sides state, and what became of one between them.
IdsOf(A, B) == {d.id : d \in A \cup B}
Becomes(A, B, id) ==
  LET a == BodiesOf(A, id)
      b == BodiesOf(B, id)
  IN CASE a = b -> {}
       [] a = {} -> {[id |-> id, kind |-> "added", forces |-> FALSE]}
       [] b = {} -> {[id |-> id, kind |-> "removed", forces |-> TRUE]}
       [] OTHER -> {[id |-> id, kind |-> "changed",
                     forces |-> \E x \in a, y \in b : ForcedBy(x, y)]}

LEMMA BecomesIs ==
  ASSUME NEW A, NEW B, NEW id, BodiesOf(A, id) # {} \/ BodiesOf(B, id) # {}
  PROVE  LET a == BodiesOf(A, id)
             b == BodiesOf(B, id)
         IN /\ a = b => Becomes(A, B, id) = {}
            /\ a = {} => Becomes(A, B, id) = {[id |-> id, kind |-> "added", forces |-> FALSE]}
            /\ b = {} => Becomes(A, B, id) = {[id |-> id, kind |-> "removed", forces |-> TRUE]}
            /\ a # b /\ a # {} /\ b # {} =>
                 Becomes(A, B, id) = {[id |-> id, kind |-> "changed",
                                       forces |-> \E x \in a, y \in b : ForcedBy(x, y)]}
<1> DEFINE a == BodiesOf(A, id)
           b == BodiesOf(B, id)
           f == \E x \in a, y \in b : ForcedBy(x, y)
<1>1. Becomes(A, B, id) =
        CASE a = b -> {}
          [] a = {} -> {[id |-> id, kind |-> "added", forces |-> FALSE]}
          [] b = {} -> {[id |-> id, kind |-> "removed", forces |-> TRUE]}
          [] OTHER -> {[id |-> id, kind |-> "changed", forces |-> f]}
  BY DEF Becomes
<1>2. a # {} \/ b # {}
  OBVIOUS
<1> HIDE DEF a, b, f
<1>3. /\ a = b => Becomes(A, B, id) = {}
      /\ a = {} => Becomes(A, B, id) = {[id |-> id, kind |-> "added", forces |-> FALSE]}
      /\ b = {} => Becomes(A, B, id) = {[id |-> id, kind |-> "removed", forces |-> TRUE]}
      /\ a # b /\ a # {} /\ b # {} =>
           Becomes(A, B, id) = {[id |-> id, kind |-> "changed", forces |-> f]}
  <2>1. CASE a = b
    <3>1. a # {} /\ b # {}
      BY <1>2, <2>1
    <3> QED BY <1>1, <2>1, <3>1
  <2>2. CASE a # b /\ a = {}
    <3>1. b # {}
      BY <1>2, <2>2
    <3> QED BY <1>1, <2>2, <3>1
  <2>3. CASE a # b /\ a # {} /\ b = {}
    BY <1>1, <2>3
  <2>4. CASE a # b /\ a # {} /\ b # {}
    BY <1>1, <2>4
  <2> QED BY <2>1, <2>2, <2>3, <2>4
<1> QED BY <1>3 DEF a, b, f

\* What a plan's two sides are: parsed of what was stated.
Sides(Bods, olds, news, A, B) ==
  /\ FitBodies(Bods)
  /\ olds \in Seq(ResourceOf(Bods)) /\ news \in Seq(ResourceOf(Bods))
  /\ Tells(Bods, "plan", olds, A) /\ Tells(Bods, "plan", news, B)

LEMMA NoBodies ==
  ASSUME NEW things, NEW id
  PROVE  BodiesOf(things, id) = {} <=> Stating(things, id) = {}
BY DEF BodiesOf

LEMMA DifferingIs ==
  ASSUME NEW Bods, NEW olds, NEW news, NEW A, NEW B, Sides(Bods, olds, news, A, B),
         NEW id, AtMostOnce(A, id), AtMostOnce(B, id)
  PROVE  /\ id \in DiffersIn(indexByID(olds), indexByID(news))
              <=> BodiesOf(A, id) # BodiesOf(B, id)
         /\ BodiesOf(A, id) # BodiesOf(B, id) =>
              Becomes(A, B, id) = {DeltaOf(indexByID(olds), indexByID(news), id)}
<1> DEFINE o == indexByID(olds)
           n == indexByID(news)
<1>1. /\ id \in DOMAIN o <=> Stating(A, id) # {}
      /\ id \in DOMAIN n <=> Stating(B, id) # {}
      /\ id \in DOMAIN o => \E d \in A : Sound(Bods, d) /\ d.id = id /\ o[id] = AsResource(d)
                                           /\ BodiesOf(A, id) = {d.body}
      /\ id \in DOMAIN n => \E d \in B : Sound(Bods, d) /\ d.id = id /\ n[id] = AsResource(d)
                                           /\ BodiesOf(B, id) = {d.body}
  BY ResourceTold DEF Sides
<1> HIDE DEF o, n
<1>2. /\ id \in DOMAIN o <=> BodiesOf(A, id) # {}
      /\ id \in DOMAIN n <=> BodiesOf(B, id) # {}
  BY <1>1, NoBodies
<1>3. CASE id \notin DOMAIN o /\ id \notin DOMAIN n
  BY <1>2, <1>3 DEF DiffersIn, o, n
<1>4. CASE id \notin DOMAIN o /\ id \in DOMAIN n
  <2>1. id \in DiffersIn(o, n) /\ BodiesOf(A, id) = {} /\ BodiesOf(B, id) # {}
    BY <1>2, <1>4 DEF DiffersIn
  <2>2. DeltaOf(o, n, id) = [id |-> id, kind |-> "added", forces |-> FALSE]
    BY <1>4, DeltaIs
  <2>3. Becomes(A, B, id) = {[id |-> id, kind |-> "added", forces |-> FALSE]}
    BY <2>1, BecomesIs
  <2> QED BY <2>1, <2>2, <2>3 DEF o, n
<1>5. CASE id \in DOMAIN o /\ id \notin DOMAIN n
  <2>1. id \in DiffersIn(o, n) /\ BodiesOf(A, id) # {} /\ BodiesOf(B, id) = {}
    BY <1>2, <1>5 DEF DiffersIn
  <2>2. DeltaOf(o, n, id) = [id |-> id, kind |-> "removed", forces |-> TRUE]
    BY <1>5, DeltaIs
  <2>3. Becomes(A, B, id) = {[id |-> id, kind |-> "removed", forces |-> TRUE]}
    BY <2>1, BecomesIs
  <2> QED BY <2>1, <2>2, <2>3 DEF o, n
<1>6. CASE id \in DOMAIN o /\ id \in DOMAIN n
  <2>1. PICK c \in A : Sound(Bods, c) /\ o[id] = AsResource(c) /\ BodiesOf(A, id) = {c.body}
    BY <1>1, <1>6
  <2>2. PICK d \in B : Sound(Bods, d) /\ n[id] = AsResource(d) /\ BodiesOf(B, id) = {d.body}
    BY <1>1, <1>6
  <2>3. AsResource(c).body = AsResource(d).body <=> c.body = d.body
    BY <2>1, <2>2, SoundApart DEF Sides
  <2>4. id \in DiffersIn(o, n) <=> c.body # d.body
    BY <1>6, <2>1, <2>2, <2>3 DEF DiffersIn
  <2>5. {c.body} = {d.body} <=> c.body = d.body
    OBVIOUS
  <2>6. id \in DiffersIn(o, n) <=> BodiesOf(A, id) # BodiesOf(B, id)
    BY <2>1, <2>2, <2>4, <2>5
  <2>7. DeltaOf(o, n, id) = [id |-> id, kind |-> "changed", forces |-> attrChanged(o[id], n[id])]
    BY <1>6, DeltaIs
  <2>8. attrChanged(o[id], n[id])
          = \E x \in BodiesOf(A, id), y \in BodiesOf(B, id) : ForcedBy(x, y)
    <3>1. o[id].attrs = c.body.attrs /\ n[id].attrs = d.body.attrs
      BY <2>1, <2>2 DEF AsResource
    <3>2. attrChanged(o[id], n[id]) = ForcedBy(c.body, d.body)
      BY <3>1 DEF attrChanged, ForcedBy, Attr
    <3>3. ForcedBy(c.body, d.body)
            = \E x \in BodiesOf(A, id), y \in BodiesOf(B, id) : ForcedBy(x, y)
      <4>1. ForcedBy(c.body, d.body) \in BOOLEAN
        BY DEF ForcedBy
      <4>2. ForcedBy(c.body, d.body)
              <=> \E x \in BodiesOf(A, id), y \in BodiesOf(B, id) : ForcedBy(x, y)
        BY <2>1, <2>2
      <4> QED BY <4>1, <4>2
    <3> QED BY <3>2, <3>3
  <2>9. ASSUME BodiesOf(A, id) # BodiesOf(B, id)
        PROVE  Becomes(A, B, id) = {DeltaOf(o, n, id)}
    <3>1. BodiesOf(A, id) # {} /\ BodiesOf(B, id) # {}
      BY <1>2, <1>6
    <3>2. Becomes(A, B, id) =
            {[id |-> id, kind |-> "changed",
              forces |-> \E x \in BodiesOf(A, id), y \in BodiesOf(B, id) : ForcedBy(x, y)]}
      BY <2>9, <3>1, BecomesIs
    <3> QED BY <2>7, <2>8, <3>2
  <2> QED BY <2>6, <2>9 DEF o, n
<1> QED BY <1>3, <1>4, <1>5, <1>6

\* The summary agrees with the deltas and with the line diff.
SummaryAgrees(plan, changed) ==
  /\ plan.summary.added + plan.summary.removed + plan.summary.changed = changed
  /\ plan.summary.removed <= plan.summary.replaced
  /\ plan.summary.replaced <= plan.summary.removed + plan.summary.changed

LEMMA PlanTold ==
  ASSUME NEW Bods, NEW olds, NEW news, NEW A, NEW B, Sides(Bods, olds, news, A, B)
  PROVE  /\ \A id \in IdsOf(A, B) : AtMostOnce(A, id) /\ AtMostOnce(B, id) =>
              {d \in Range(PlanExtras(olds, news).resources) : d.id = id} = Becomes(A, B, id)
         /\ SummaryAgrees(PlanExtras(olds, news),
                          Cardinality(Changed(indexByIdentity(PlanManifests(olds)),
                                              indexByIdentity(PlanManifests(news)))))
<1> DEFINE o == indexByID(olds)
           n == indexByID(news)
           S == DiffersIn(o, n)
           ds == resourceDelta(olds, news)
<1>1. PlanExtras(olds, news).resources = ds /\ PlanExtras(olds, news).summary = Summary(ds)
  BY DEF PlanExtras
<1>2. olds \in Seq(ResourceOf(Bods)) /\ news \in Seq(ResourceOf(Bods))
  BY DEF Sides
<1>3. /\ Cardinality(S) \in Nat /\ DOMAIN ds = 1..Cardinality(S)
      /\ \A i \in DOMAIN ds : \E id \in S : ds[i] = DeltaOf(o, n, id)
      /\ \A id \in S : \E i \in DOMAIN ds : ds[i] = DeltaOf(o, n, id)
  BY <1>2, DeltasAre
<1>4. S \in SUBSET (DOMAIN o \cup DOMAIN n)
  BY DEF DiffersIn
<1>5. Cardinality(Changed(indexByIdentity(PlanManifests(olds)),
                          indexByIdentity(PlanManifests(news)))) = Cardinality(S)
  BY <1>2, WideChanged
<1>6. ASSUME NEW id \in IdsOf(A, B), AtMostOnce(A, id), AtMostOnce(B, id)
      PROVE  {d \in Range(ds) : d.id = id} = Becomes(A, B, id)
  <2>1. /\ id \in S <=> BodiesOf(A, id) # BodiesOf(B, id)
        /\ BodiesOf(A, id) # BodiesOf(B, id) => Becomes(A, B, id) = {DeltaOf(o, n, id)}
    BY <1>6, DifferingIs
  <2>2. BodiesOf(A, id) # {} \/ BodiesOf(B, id) # {}
    BY NoBodies DEF IdsOf, Stating
  <2> HIDE DEF S, o, n, ds
  <2>3. \A jd \in S : DeltaOf(o, n, jd).id = jd
    BY <1>4, DeltaSays
  <2>4. CASE id \in S
    <3>1. \A d \in Range(ds) : d.id = id => d = DeltaOf(o, n, id)
      BY <1>3, <2>3 DEF Range
    <3>2. DeltaOf(o, n, id) \in Range(ds) /\ DeltaOf(o, n, id).id = id
      BY <1>3, <2>3, <2>4 DEF Range
    <3>3. {d \in Range(ds) : d.id = id} = {DeltaOf(o, n, id)}
      BY <3>1, <3>2
    <3> QED BY <2>1, <2>4, <3>3
  <2>5. CASE id \notin S
    <3>1. \A d \in Range(ds) : d.id # id
      BY <1>3, <2>3, <2>5 DEF Range
    <3>2. Becomes(A, B, id) = {}
      BY <2>1, <2>2, <2>5, BecomesIs
    <3> QED BY <3>1, <3>2
  <2> QED BY <2>4, <2>5
<1>7. SummaryAgrees([resources |-> ds, summary |-> Summary(ds)], Cardinality(S))
  <2> HIDE DEF S, o, n, ds
  <2>1. \A i \in DOMAIN ds :
           /\ ds[i].kind \in {"added", "removed", "changed"}
           /\ ds[i].kind = "added" => ~ds[i].forces
           /\ ds[i].kind = "removed" => ds[i].forces
    <3> TAKE i \in DOMAIN ds
    <3>1. PICK id \in S : ds[i] = DeltaOf(o, n, id)
      BY <1>3
    <3> QED BY <1>4, <3>1, DeltaSays
  <2>2. PICK m \in Nat : m = Cardinality(S)
    BY <1>3
  <2>3. /\ Summary(ds).added + Summary(ds).removed + Summary(ds).changed = m
        /\ Summary(ds).removed <= Summary(ds).replaced
        /\ Summary(ds).replaced <= Summary(ds).removed + Summary(ds).changed
    BY <1>3, <2>1, <2>2, SummaryAdds
  <2> QED BY <2>2, <2>3 DEF SummaryAgrees
<1>8. PlanExtras(olds, news) = [resources |-> ds, summary |-> Summary(ds)]
  BY DEF PlanExtras
<1> QED BY <1>1, <1>5, <1>6, <1>7, <1>8

\* The line diff of a plan counts the addresses whose bodies differ.
LEMMA PlanCounts ==
  ASSUME NEW Bods, NEW olds, NEW news, NEW A, NEW B, Sides(Bods, olds, news, A, B),
         \A id \in IdsOf(A, B) : AtMostOnce(A, id) /\ AtMostOnce(B, id)
  PROVE  Cardinality(Changed(indexByIdentity(PlanManifests(olds)),
                             indexByIdentity(PlanManifests(news))))
           = Cardinality({id \in IdsOf(A, B) : BodiesOf(A, id) # BodiesOf(B, id)})
<1> DEFINE o == indexByID(olds)
           n == indexByID(news)
           S == DiffersIn(o, n)
           T == {id \in IdsOf(A, B) : BodiesOf(A, id) # BodiesOf(B, id)}
<1>1. olds \in Seq(ResourceOf(Bods)) /\ news \in Seq(ResourceOf(Bods))
      /\ Tells(Bods, "plan", olds, A) /\ Tells(Bods, "plan", news, B)
  BY DEF Sides
<1>2. Cardinality(Changed(indexByIdentity(PlanManifests(olds)),
                          indexByIdentity(PlanManifests(news)))) = Cardinality(S)
  BY <1>1, WideChanged
<1>3. S \in SUBSET IdsOf(A, B)
  <2>1. \A id : /\ id \in DOMAIN o <=> Stating(A, id) # {}
                /\ id \in DOMAIN n <=> Stating(B, id) # {}
    BY <1>1, ResourceTold
  <2> QED BY <2>1 DEF DiffersIn, IdsOf, Stating
<1>4. \A id \in IdsOf(A, B) : id \in S <=> BodiesOf(A, id) # BodiesOf(B, id)
  BY DifferingIs
<1> HIDE DEF S
<1>5. S = T
  BY <1>3, <1>4
<1> QED BY <1>2, <1>5

\* That of a chart counts the objects whose texts differ.
LEMMA ChartCounts ==
  ASSUME NEW Bods, NEW kind, kind # "plan",
         NEW olds \in Seq(Manifest), NEW news \in Seq(Manifest), NEW A, NEW B,
         Tells(Bods, kind, olds, A), Tells(Bods, kind, news, B),
         \A id \in IdsOf(A, B) : AtMostOnce(A, id) /\ AtMostOnce(B, id)
  PROVE  Cardinality(Changed(indexByIdentity(olds), indexByIdentity(news)))
           = Cardinality({id \in IdsOf(A, B) : BodiesOf(A, id) # BodiesOf(B, id)})
<1> DEFINE v == indexByIdentity(olds)
           w == indexByIdentity(news)
           S == Changed(v, w)
           T == {id \in IdsOf(A, B) : BodiesOf(A, id) # BodiesOf(B, id)}
<1>6. \A id : ManifestsTell(olds, A, id)
  BY ManifestTold
<1>7. \A id : ManifestsTell(news, B, id)
  BY ManifestTold
<1>1. \A id : /\ id \in DOMAIN v <=> Stating(A, id) # {}
              /\ id \in DOMAIN v =>
                   \E d \in A : /\ d.id = id /\ v[id] = d.body
                                /\ AtMostOnce(A, id) => BodiesOf(A, id) = {d.body}
  BY <1>6 DEF ManifestsTell
<1>5. \A id : /\ id \in DOMAIN w <=> Stating(B, id) # {}
              /\ id \in DOMAIN w =>
                   \E d \in B : /\ d.id = id /\ w[id] = d.body
                                /\ AtMostOnce(B, id) => BodiesOf(B, id) = {d.body}
  BY <1>7 DEF ManifestsTell
<1> HIDE DEF v, w
<1>2. S \in SUBSET IdsOf(A, B)
  BY <1>1, <1>5 DEF Changed, IdsOf, Stating
<1>3. \A id \in IdsOf(A, B) : id \in S <=> BodiesOf(A, id) # BodiesOf(B, id)
  <2> TAKE id \in IdsOf(A, B)
  <2>1. AtMostOnce(A, id) /\ AtMostOnce(B, id)
    OBVIOUS
  <2>2. /\ id \in DOMAIN v <=> BodiesOf(A, id) # {}
        /\ id \in DOMAIN w <=> BodiesOf(B, id) # {}
        /\ id \in DOMAIN v => BodiesOf(A, id) = {v[id]}
        /\ id \in DOMAIN w => BodiesOf(B, id) = {w[id]}
    BY <1>1, <1>5, <2>1, NoBodies
  <2>3. id \in DOMAIN v \cup DOMAIN w
    BY <1>1, <1>5 DEF IdsOf, Stating
  <2>4. {v[id]} = {w[id]} <=> v[id] = w[id]
    OBVIOUS
  <2> QED BY <2>2, <2>3, <2>4 DEF Changed
<1> HIDE DEF S
<1>4. S = T
  BY <1>2, <1>3
<1> QED BY <1>4 DEF S, v, w

-----------------------------------------------------------------------------
(* What a diff says of its trees *)

\* What a tree states is fixed by the ceiling on its depth.
LEMMA ContentsStay ==
  ASSUME NEW tree, bounds' = bounds
  PROVE  Contents(tree)' = Contents(tree)
<1> DEFINE Least(m) == CHOOSE h : Levels(h, tree, m + 1)
<1>1. EntriesAt(tree) = Least(bounds.maxDepth)
  BY DEF EntriesAt, Levels
<1>2. EntriesAt(tree)' = Least(bounds'.maxDepth)
  BY DEF EntriesAt, Levels
<1> HIDE DEF Least
<1>3. EntriesAt(tree)' = EntriesAt(tree)
  BY <1>1, <1>2
<1>4. All(tree)' = All(tree)
  BY <1>3 DEF All
<1> QED BY <1>4 DEF Contents, Files

LEMMA StatedIs ==
  ASSUME NEW tree
  PROVE  Stated(tree) = StatedIn(job.kind, Contents(tree))
BY DEF Stated, Declarations, Objects, StatedIn, DeclaredIn, ObjectsIn

LEMMA StatedStays ==
  ASSUME UNCHANGED <<job, bounds>>
  PROVE  UNCHANGED <<Stated(job.parent), Stated(job.tree)>>
<1>1. PICK kind : kind = job.kind
  OBVIOUS
<1>2. ASSUME NEW tree PROVE Stated(tree)' = Stated(tree)
  <2>1. Contents(tree)' = Contents(tree)
    BY ContentsStay
  <2>2. Stated(tree) = StatedIn(kind, Contents(tree))
    BY <1>1, StatedIs
  <2>3. Stated(tree)' = StatedIn(kind, Contents(tree)')
    BY <1>1 DEF Stated, Declarations, Objects, StatedIn, DeclaredIn, ObjectsIn
  <2> QED BY <2>1, <2>2, <2>3
<1>3. PICK parent : parent = job.parent
  OBVIOUS
<1>4. PICK tree : tree = job.tree
  OBVIOUS
<1>5. Stated(job.parent)' = Stated(parent)'
  BY <1>3
<1>6. Stated(job.tree)' = Stated(tree)'
  BY <1>4
<1> QED BY <1>2, <1>3, <1>4, <1>5, <1>6

\* What is produced when a walk has ended is made of what its tree states.
LEMMA ProducedTells ==
  ASSUME NEW Entries, NEW Bods, FitTrees(Entries, Bods), Within(Entries), FitDisk(Bods),
         DirectoryHoldsTheTree, Produces
  PROVE  Tells(Bods, job.kind, Produce.made, Stated(SideTree))
<1>1. FitDirectory(Bods, disk) /\ FitBodies(Bods)
  BY DEF FitDirectory, FitDisk, Within, Written, FitTrees
<1>2. Produce.error = "none" /\ HeldIn(disk) = Contents(SideTree)
  BY DEF Produces, DirectoryHoldsTheTree, HeldIn
<1>3. Stated(SideTree) = StatedIn(job.kind, HeldIn(disk))
  BY <1>2, StatedIs
<1>4. CASE job.kind = "plan"
  <2>1. Produce = Parse(disk) /\ Stated(SideTree) = DeclaredIn(HeldIn(disk))
    BY <1>3, <1>4 DEF Produce, StatedIn
  <2>2. Tells(Bods, "plan", Parse(disk).made, DeclaredIn(HeldIn(disk)))
    BY <1>1, <1>2, <2>1, ParsedTells
  <2> QED BY <1>4, <2>1, <2>2
<1>5. CASE job.kind # "plan"
  <2>1. Produce = Render(disk) /\ Stated(SideTree) = ObjectsIn(HeldIn(disk))
    BY <1>3, <1>5 DEF Produce, StatedIn
  <2>2. Tells(Bods, job.kind, Render(disk).made, ObjectsIn(HeldIn(disk)))
    BY <1>1, <1>2, <1>5, <2>1, RenderedTells
  <2> QED BY <2>1, <2>2
<1> QED BY <1>4, <1>5

\* What a side has produced is made of what its tree states.
KnowsTheTrees(Bods) ==
  /\ side = "new" => Tells(Bods, job.kind, old, Stated(job.parent))
  /\ Succeeded =>
       /\ Tells(Bods, job.kind, old, Stated(job.parent))
       /\ Tells(Bods, job.kind, new, Stated(job.tree))
       /\ job.kind = "plan" => outcome.plan = PlanExtras(old, new)

LEMMA FailingKnows ==
  ASSUME NEW Bods, NEW failure, side' = "over", outcome' = [kind |-> Classify(failure)]
  PROVE  KnowsTheTrees(Bods)'
<1>1. Classify(failure) # "ok"
  BY DEF Classify, PlanClassify, ChartClassify
<1>2. outcome'.kind # "ok"
  BY <1>1
<1> QED BY <1>2 DEF KnowsTheTrees, Succeeded

LEMMA KnowingIsKept ==
  ASSUME NEW Entries, NEW Bods, FitTrees(Entries, Bods), DiffInv(Entries, Bods),
         DirectoryHoldsTheTree, KnowsTheTrees(Bods), [Next]_vars
  PROVE  KnowsTheTrees(Bods)'
<1>1. job' = job
  BY DEF Next, Start, Materialize, Walk, ReadFails, TimesOut, Breaks, NotMaterialized,
         CannotProduce, ProduceOld, ProduceNew, Over, FailsWith, vars, diffVars
<1>2. bounds' = bounds
  <2>1. [WalkNext(Trees)]_walkVars
    BY StepsWalk DEF DiffInv
  <2> QED BY <2>1 DEF WalkNext, WalkStep, TooManyNodes, Descend, Skip, RefuseFile, WriteFile,
                      Ascend, WalkFails, Visits, Begin, RemoveAll, walkVars
<1> DEFINE A == Stated(job.parent)
           B == Stated(job.tree)
<1>3. A' = A /\ B' = B
  BY <1>1, <1>2, StatedStays
<1>4. DiffInv(Entries, Bods) => Within(Entries) /\ FitDisk(Bods) /\ Says(Bods)
  BY DEF DiffInv
<1>5. KnowsTheTrees(Bods) <=>
        /\ side = "new" => Tells(Bods, job.kind, old, A)
        /\ Succeeded =>
             /\ Tells(Bods, job.kind, old, A) /\ Tells(Bods, job.kind, new, B)
             /\ job.kind = "plan" => outcome.plan = PlanExtras(old, new)
  BY DEF KnowsTheTrees
<1>6. KnowsTheTrees(Bods)' <=>
        /\ side' = "new" => Tells(Bods, job.kind, old', A)
        /\ outcome'.kind = "ok" =>
             /\ Tells(Bods, job.kind, old', A) /\ Tells(Bods, job.kind, new', B)
             /\ job.kind = "plan" => outcome'.plan = PlanExtras(old', new')
  BY <1>1, <1>3 DEF KnowsTheTrees, Succeeded
<1>7. ASSUME side' # "new", outcome' = NoOutcome PROVE KnowsTheTrees(Bods)'
  BY <1>7 DEF KnowsTheTrees, Succeeded, NoOutcome
<1>8. CASE Start
  <2>1. outcome = NoOutcome
    BY <1>4, <1>8 DEF Start, Says
  <2>2. CASE \E failure : FailsWith(failure)
    BY <2>2, FailingKnows DEF FailsWith
  <2>3. CASE ~\E failure : FailsWith(failure)
    <3>1. side' = "old" /\ outcome' = outcome
      BY <1>8, <2>3 DEF Start, Materialize
    <3> QED BY <1>7, <2>1, <3>1
  <2> QED BY <2>2, <2>3
<1>9. CASE Walk \/ ReadFails \/ UNCHANGED vars
  <2>1. UNCHANGED <<job, side, old, new, outcome>>
    BY <1>9 DEF Walk, ReadFails, vars, diffVars
  <2> HIDE DEF A, B
  <2> QED BY <1>5, <1>6, <2>1 DEF Succeeded
<1>10. CASE TimesOut \/ Breaks \/ NotMaterialized \/ CannotProduce
  <2>1. \E failure : FailsWith(failure)
    BY <1>10 DEF TimesOut, Breaks, NotMaterialized, CannotProduce
  <2> QED BY <2>1, FailingKnows DEF FailsWith
<1>11. CASE ProduceOld
  <2>1. Produces /\ side = "old" /\ old' = Produce.made
    BY <1>11 DEF ProduceOld
  <2>2. Tells(Bods, job.kind, Produce.made, Stated(SideTree))
    BY <1>4, <2>1, ProducedTells
  <2>3. Stated(SideTree) = A
    BY <2>1 DEF SideTree
  <2>4. CASE job.tree = NotThere
    <3>1. side' = "over" /\ outcome' = [kind |-> Classify("internal")]
      BY <1>11, <2>4 DEF ProduceOld
    <3> QED BY <3>1, FailingKnows
  <2>5. CASE job.tree # NotThere
    <3>1. outcome' = outcome
      BY <1>11, <2>5 DEF ProduceOld
    <3>2. outcome'.kind # "ok"
      BY <1>4, <2>1, <3>1 DEF Says, NoOutcome
    <3> HIDE DEF A, B
    <3> QED BY <1>6, <2>1, <2>2, <2>3, <3>2
  <2> QED BY <2>4, <2>5
<1>12. CASE ProduceNew
  <2>1. /\ Produces /\ side = "new" /\ side' = "over"
        /\ new' = Produce.made /\ old' = old
    BY <1>12 DEF ProduceNew
  <2>2. Tells(Bods, job.kind, Produce.made, Stated(SideTree))
    BY <1>4, <2>1, ProducedTells
  <2>3. Stated(SideTree) = B
    BY <2>1 DEF SideTree
  <2>4. job.kind = "plan" => outcome'.plan = PlanExtras(old, Produce.made)
    <3>1. PICK scripts : outcome' = Combine(Produce.made, scripts)
      BY <1>12 DEF ProduceNew
    <3> QED BY <3>1 DEF Combine
  <2> HIDE DEF A, B
  <2> QED BY <1>5, <1>6, <2>1, <2>2, <2>3, <2>4
<1> QED BY <1>8, <1>9, <1>10, <1>11, <1>12 DEF Next, Over

\* What is said of what the sides have produced.
LEMMA SaidOfSides ==
  ASSUME NEW Bods, Says(Bods), KnowsTheTrees(Bods), FitBodies(Bods), Succeeded
  PROVE  LET A == Stated(job.parent)
             B == Stated(job.tree)
         IN /\ outcome.diff.manifestsChanged = Cardinality(Changed(Old, New))
            /\ job.kind = "plan" =>
                 /\ Sides(Bods, old, new, A, B) /\ outcome.plan = PlanExtras(old, new)
                 /\ Old = indexByIdentity(PlanManifests(old))
                 /\ New = indexByIdentity(PlanManifests(new))
            /\ job.kind # "plan" =>
                 /\ old \in Seq(Manifest) /\ new \in Seq(Manifest)
                 /\ Tells(Bods, job.kind, old, A) /\ Tells(Bods, job.kind, new, B)
                 /\ Old = indexByIdentity(old) /\ New = indexByIdentity(new)
<1> DEFINE A == Stated(job.parent)
           B == Stated(job.tree)
<1>1. FitMade(Bods, old) /\ FitMade(Bods, new)
  BY DEF Says
<1>2. /\ Tells(Bods, job.kind, old, A) /\ Tells(Bods, job.kind, new, B)
      /\ job.kind = "plan" => outcome.plan = PlanExtras(old, new)
  BY DEF KnowsTheTrees
<1>3. outcome.diff.manifestsChanged = Cardinality(Changed(Old, New))
  <2>1. PICK scripts : outcome.diff = Diff(Old, New, scripts, MaxUnifiedBytes)
    BY DEF Says
  <2> QED BY <2>1 DEF Diff
<1> HIDE DEF A, B
<1>4. CASE job.kind = "plan"
  <2>1. Old = indexByIdentity(PlanManifests(old)) /\ New = indexByIdentity(PlanManifests(new))
    BY <1>4 DEF Old, New, Manifests
  <2>2. Sides(Bods, old, new, A, B)
    BY <1>1, <1>2, <1>4 DEF Sides, FitMade
  <2> QED BY <1>2, <1>3, <1>4, <2>1, <2>2 DEF A, B
<1>5. CASE job.kind # "plan"
  <2>1. Old = indexByIdentity(old) /\ New = indexByIdentity(new)
    BY <1>5 DEF Old, New, Manifests
  <2> QED BY <1>1, <1>2, <1>3, <1>5, <2>1 DEF FitMade, A, B
<1> QED BY <1>4, <1>5

\* What is said agrees with what the two trees state.
LEMMA TellingIs ==
  DiffTellsTheTrees <=>
    LET A == Stated(job.parent)
        B == Stated(job.tree)
        Both(id) == AtMostOnce(A, id) /\ AtMostOnce(B, id)
    IN Succeeded =>
         /\ job.kind = "plan" =>
              /\ \A id \in IdsOf(A, B) : Both(id) =>
                   {d \in Range(outcome.plan.resources) : d.id = id} = Becomes(A, B, id)
              /\ SummaryAgrees(outcome.plan, outcome.diff.manifestsChanged)
         /\ (\A id \in IdsOf(A, B) : Both(id)) =>
              outcome.diff.manifestsChanged =
                Cardinality({id \in IdsOf(A, B) : BodiesOf(A, id) # BodiesOf(B, id)})
<1> DEFINE A == Stated(job.parent)
           B == Stated(job.tree)
<1>1. Ids = IdsOf(A, B)
  BY DEF Ids, IdsOf
<1>2. \A id : Bodies(job.parent, id) = Stating(A, id) /\ Bodies(job.tree, id) = Stating(B, id)
  BY DEF Bodies, Stating
<1>3. \A id : Clear(id) <=> AtMostOnce(A, id) /\ AtMostOnce(B, id)
  BY <1>2 DEF Clear, AtMostOnce
<1>4. \A id : /\ {d.body : d \in Bodies(job.parent, id)} = BodiesOf(A, id)
              /\ {d.body : d \in Bodies(job.tree, id)} = BodiesOf(B, id)
  BY <1>2 DEF BodiesOf
<1>5. \A id : Told(id) = Becomes(A, B, id)
  BY <1>4 DEF Told, Becomes
<1> HIDE DEF A, B
<1>6. {id \in Ids : {d.body : d \in Bodies(job.parent, id)} # {d.body : d \in Bodies(job.tree, id)}}
        = {id \in IdsOf(A, B) : BodiesOf(A, id) # BodiesOf(B, id)}
  BY <1>1, <1>4
<1>7. DiffTellsTheTrees <=>
        (Succeeded =>
          /\ job.kind = "plan" =>
               /\ \A id \in Ids : Clear(id) =>
                    {d \in Range(outcome.plan.resources) : d.id = id} = Told(id)
               /\ SummaryAgrees(outcome.plan, outcome.diff.manifestsChanged)
          /\ (\A id \in Ids : Clear(id)) =>
               outcome.diff.manifestsChanged =
                 Cardinality({id \in Ids : {d.body : d \in Bodies(job.parent, id)}
                                             # {d.body : d \in Bodies(job.tree, id)}}))
  BY DEF DiffTellsTheTrees, SummaryAgrees
<1> QED BY <1>1, <1>3, <1>5, <1>6, <1>7 DEF A, B

\* Whatever the two trees declare, in whichever files and orders, the deltas of
\* a plan say of each resource what became of it between them, its summary agrees
\* with the deltas and with the line diff, and the count of what changed is that
\* of the resources or objects that differ (resourceDelta and Summary of
\* plandiff, manifestdiff.Diff).
THEOREM DiffsTellTheTrees ==
  Spec => []DiffTellsTheTrees
<1> DEFINE Entries == TreeEntries
           Bods == BlockBodies
<1>1. FitTrees(Entries, Bods)
  BY SubtreeDiffAssumption
<1>2. Spec => []DiffInv(Entries, Bods) /\ []DirectoryHoldsTheTree
  BY DiffInvariant, SidesAreWhole, PTL
<1>3. Init => KnowsTheTrees(Bods)
  BY DEF Init, KnowsTheTrees, Succeeded, NoOutcome
<1> HIDE DEF Entries, Bods
<1>4. DiffInv(Entries, Bods) /\ DirectoryHoldsTheTree /\ KnowsTheTrees(Bods) /\ [Next]_vars
        => KnowsTheTrees(Bods)'
  BY <1>1, KnowingIsKept
<1>5. DiffInv(Entries, Bods) /\ KnowsTheTrees(Bods) => DiffTellsTheTrees
  <2> SUFFICES ASSUME Says(Bods), KnowsTheTrees(Bods) PROVE DiffTellsTheTrees
    BY DEF DiffInv
  <2> DEFINE A == Stated(job.parent)
             B == Stated(job.tree)
             Both(id) == AtMostOnce(A, id) /\ AtMostOnce(B, id)
             changed == outcome.diff.manifestsChanged
             apart == {id \in IdsOf(A, B) : BodiesOf(A, id) # BodiesOf(B, id)}
  <2> HIDE DEF A, B
  <2>1. FitBodies(Bods)
    BY <1>1 DEF FitTrees
  <2>2. Succeeded =>
          /\ changed = Cardinality(Changed(Old, New))
          /\ job.kind = "plan" =>
               /\ Sides(Bods, old, new, A, B) /\ outcome.plan = PlanExtras(old, new)
               /\ Old = indexByIdentity(PlanManifests(old))
               /\ New = indexByIdentity(PlanManifests(new))
          /\ job.kind # "plan" =>
               /\ old \in Seq(Manifest) /\ new \in Seq(Manifest)
               /\ Tells(Bods, job.kind, old, A) /\ Tells(Bods, job.kind, new, B)
               /\ Old = indexByIdentity(old) /\ New = indexByIdentity(new)
    BY <2>1, SaidOfSides DEF A, B
  <2>3. ASSUME Succeeded, job.kind = "plan"
        PROVE  /\ \A id \in IdsOf(A, B) : Both(id) =>
                    {d \in Range(outcome.plan.resources) : d.id = id} = Becomes(A, B, id)
               /\ SummaryAgrees(outcome.plan, changed)
    BY <2>2, <2>3, PlanTold
  <2>4. ASSUME Succeeded, \A id \in IdsOf(A, B) : Both(id)
        PROVE  changed = Cardinality(apart)
    <3>1. CASE job.kind = "plan"
      BY <2>2, <2>4, <3>1, PlanCounts
    <3>2. CASE job.kind # "plan"
      BY <2>2, <2>4, <3>2, ChartCounts
    <3> QED BY <3>1, <3>2
  <2>5. Succeeded =>
          /\ job.kind = "plan" =>
               /\ \A id \in IdsOf(A, B) : Both(id) =>
                    {d \in Range(outcome.plan.resources) : d.id = id} = Becomes(A, B, id)
               /\ SummaryAgrees(outcome.plan, changed)
          /\ (\A id \in IdsOf(A, B) : Both(id)) => changed = Cardinality(apart)
    BY <2>3, <2>4
  <2> QED BY <2>5, TellingIs DEF A, B
<1> QED BY <1>2, <1>3, <1>4, <1>5, PTL DEF Spec
=============================================================================
