--------------------------- MODULE SubtreeWalkProofs ---------------------------
(***************************************************************************)
(* A walk stays within its ceilings, whatever the tree: its depth, its     *)
(* entries and the sizes its blobs lie about.                              *)
(*                                                                         *)
(* The bytes of a directory are a sum over a function, which the library   *)
(* defines by recursion over the subsets of its domain.  The lemmas of the *)
(* first part say that there is such a sum, that it does not depend on     *)
(* where it is taken, and what one more file adds to it.                   *)
(***************************************************************************)
EXTENDS SubtreeWalk, FiniteSetTheorems, SequenceTheorems, WellFoundedInduction,
        TLAPS

LEMMA LeastOf ==
  ASSUME NEW S \in SUBSET Nat, S # {}
  PROVE  \E i \in S : \A j \in S : i <= j
<1>1. PICK i \in S : \A j \in S : ~(<<j, i>> \in OpToRel(<, Nat))
  BY NatLessThanWellFounded, WFMin
<1>2. \A j \in S : ~(j < i)
  BY <1>1 DEF OpToRel
<1>3. \A j \in S : i <= j
  BY <1>2
<1> QED BY <1>3

-----------------------------------------------------------------------------
(* Sums *)

AnyOf(s) == CHOOSE x \in s : TRUE

\* h gives the sum of f over each set of T, an element at a time.
Sums(h, f, T) ==
  h = [s \in T |-> IF s = {} THEN 0 ELSE f[AnyOf(s)] + h[s \ {AnyOf(s)}]]

UpTo(S, n) == {s \in SUBSET S : Cardinality(s) <= n}

LEMMA Smaller ==
  ASSUME NEW S, IsFiniteSet(S), NEW s \in SUBSET S, s # {}
  PROVE  /\ AnyOf(s) \in s
         /\ s \ {AnyOf(s)} \in SUBSET S
         /\ Cardinality(s) \in Nat
         /\ Cardinality(s \ {AnyOf(s)}) = Cardinality(s) - 1
<1>1. AnyOf(s) \in s
  BY DEF AnyOf
<1>2. IsFiniteSet(s)
  BY FS_Subset
<1> QED BY <1>1, <1>2, FS_RemoveElement, FS_CardinalityType

LEMMA SumsUpTo ==
  ASSUME NEW S, IsFiniteSet(S), NEW f, NEW n \in Nat
  PROVE  \E h : Sums(h, f, UpTo(S, n))
<1> DEFINE Bad == {m \in Nat : ~\E h : Sums(h, f, UpTo(S, m))}
<1> SUFFICES ASSUME Bad # {} PROVE FALSE
  OBVIOUS
<1>1. PICK m \in Bad : \A k \in Bad : m <= k
  BY LeastOf
<1>2. CASE m = 0
  <2> DEFINE h == [s \in UpTo(S, 0) |-> 0]
  <2>1. \A s \in UpTo(S, 0) : s = {}
    BY FS_Subset, FS_EmptySet, FS_CardinalityType DEF UpTo
  <2>2. Sums(h, f, UpTo(S, 0))
    BY <2>1 DEF Sums
  <2> QED BY <1>2, <2>2
<1>3. CASE m # 0
  <2>1. m - 1 \in Nat /\ m - 1 \notin Bad
    BY <1>1, <1>3
  <2>2. PICK g : Sums(g, f, UpTo(S, m - 1))
    BY <2>1
  <2> DEFINE h == [s \in UpTo(S, m) |->
                     IF s = {} THEN 0 ELSE f[AnyOf(s)] + g[s \ {AnyOf(s)}]]
  <2>3. \A s \in UpTo(S, m) : s # {} => s \ {AnyOf(s)} \in UpTo(S, m - 1)
    BY Smaller, <2>1 DEF UpTo
  <2>4. \A s \in UpTo(S, m - 1) : s \in UpTo(S, m) /\ h[s] = g[s]
    <3> SUFFICES ASSUME NEW s \in UpTo(S, m - 1)
                 PROVE  s \in UpTo(S, m) /\ h[s] = g[s]
      OBVIOUS
    <3>1. s \in UpTo(S, m)
      BY <2>1, FS_Subset, FS_CardinalityType DEF UpTo
    <3>2. g[s] = IF s = {} THEN 0 ELSE f[AnyOf(s)] + g[s \ {AnyOf(s)}]
      BY <2>2 DEF Sums
    <3> QED BY <3>1, <3>2
  <2>5. \A s \in UpTo(S, m) : s # {} => h[s \ {AnyOf(s)}] = g[s \ {AnyOf(s)}]
    BY <2>3, <2>4
  <2>6. h = [s \in UpTo(S, m) |-> IF s = {} THEN 0 ELSE f[AnyOf(s)] + h[s \ {AnyOf(s)}]]
    <3> HIDE DEF h
    <3>1. h = [s \in UpTo(S, m) |->
                     IF s = {} THEN 0 ELSE f[AnyOf(s)] + g[s \ {AnyOf(s)}]]
      BY DEF h
    <3> QED BY <3>1, <2>5
  <2>7. Sums(h, f, UpTo(S, m))
    BY <2>6 DEF Sums
  <2> QED BY <1>1, <2>7
<1> QED BY <1>2, <1>3

LEMMA SumsExist ==
  ASSUME NEW S, IsFiniteSet(S), NEW f
  PROVE  \E h : Sums(h, f, SUBSET S)
<1>1. Cardinality(S) \in Nat
  BY FS_CardinalityType
<1>2. UpTo(S, Cardinality(S)) = SUBSET S
  BY FS_Subset DEF UpTo
<1>3. PICK h : Sums(h, f, UpTo(S, Cardinality(S)))
  BY <1>1, SumsUpTo
<1>4. Sums(h, f, SUBSET S)
  BY <1>2, <1>3
<1> QED BY <1>4

\* Two sums agree on the sets on which what they sum agrees.
LEMMA SumsAgree ==
  ASSUME NEW S, IsFiniteSet(S), NEW R, S \subseteq R, NEW f, NEW e,
         \A x \in S : f[x] = e[x],
         NEW h, NEW g, Sums(h, f, SUBSET S) /\ Sums(g, e, SUBSET R)
  PROVE  h[S] = g[S]
<1> DEFINE Bad == {Cardinality(s) : s \in {t \in SUBSET S : h[t] # g[t]}}
<1> SUFFICES ASSUME h[S] # g[S] PROVE FALSE
  OBVIOUS
<1>1. Bad \in SUBSET Nat /\ Bad # {}
  BY FS_Subset, FS_CardinalityType
<1>2. PICK n \in Bad : \A k \in Bad : n <= k
  <2> HIDE DEF Bad
  <2> QED BY <1>1, LeastOf
<1>3. PICK s \in SUBSET S : h[s] # g[s] /\ n = Cardinality(s)
  BY <1>2
<1>4. h[s] = IF s = {} THEN 0 ELSE f[AnyOf(s)] + h[s \ {AnyOf(s)}]
  BY DEF Sums
<1>5. g[s] = IF s = {} THEN 0 ELSE e[AnyOf(s)] + g[s \ {AnyOf(s)}]
  BY DEF Sums
<1>6. s # {}
  BY <1>3, <1>4, <1>5
<1>7. f[AnyOf(s)] = e[AnyOf(s)]
  BY <1>6, Smaller
<1>8. h[s \ {AnyOf(s)}] # g[s \ {AnyOf(s)}]
  BY <1>3, <1>4, <1>5, <1>6, <1>7
<1>9. Cardinality(s \ {AnyOf(s)}) \in Bad
  BY <1>6, <1>8, Smaller
<1>10. n \in Nat /\ Cardinality(s \ {AnyOf(s)}) = n - 1
  BY <1>1, <1>3, <1>6, Smaller
<1>11. n <= n - 1
  <2> HIDE DEF Bad
  <2> QED BY <1>2, <1>9, <1>10
<1> QED BY <1>10, <1>11

Total(f, S) == FoldFunctionOnSet(+, 0, f, S)

LEMMA TotalSums ==
  ASSUME NEW S, IsFiniteSet(S), NEW f
  PROVE  \E h : Sums(h, f, SUBSET S) /\ Total(f, S) = h[S]
<1> DEFINE g == CHOOSE h : Sums(h, f, SUBSET S)
<1>1. Sums(g, f, SUBSET S)
  BY SumsExist
<1>2. Total(f, S) = g[S]
  BY DEF Total, FoldFunctionOnSet, MapThenFoldSet, Sums, AnyOf
<1> QED BY <1>1, <1>2

LEMMA TotalAgrees ==
  ASSUME NEW S, IsFiniteSet(S), NEW f, NEW e, \A x \in S : f[x] = e[x]
  PROVE  Total(f, S) = Total(e, S)
<1>1. PICK h : Sums(h, f, SUBSET S) /\ Total(f, S) = h[S]
  BY TotalSums
<1>2. PICK g : Sums(g, e, SUBSET S) /\ Total(e, S) = g[S]
  BY TotalSums
<1> QED BY <1>1, <1>2, SumsAgree

LEMMA TotalOfNone ==
  ASSUME NEW f
  PROVE  Total(f, {}) = 0
<1>1. PICK h : Sums(h, f, SUBSET {}) /\ Total(f, {}) = h[{}]
  BY TotalSums, FS_EmptySet
<1> QED BY <1>1 DEF Sums

LEMMA TotalStep ==
  ASSUME NEW S, IsFiniteSet(S), S # {}, NEW f
  PROVE  Total(f, S) = f[AnyOf(S)] + Total(f, S \ {AnyOf(S)})
<1> DEFINE R == S \ {AnyOf(S)}
<1>1. PICK h : Sums(h, f, SUBSET S) /\ Total(f, S) = h[S]
  BY TotalSums
<1>2. IsFiniteSet(R)
  BY FS_Subset
<1>3. PICK g : Sums(g, f, SUBSET R) /\ Total(f, R) = g[R]
  BY <1>2, TotalSums
<1>4. R \subseteq S /\ (\A x \in R : f[x] = f[x])
  OBVIOUS
<1>5. g[R] = h[R]
  <2> HIDE DEF R
  <2> QED BY <1>1, <1>2, <1>3, <1>4, SumsAgree
<1> QED BY <1>1, <1>3, <1>5 DEF Sums

LEMMA TotalIsNat ==
  ASSUME NEW S, IsFiniteSet(S), NEW f, \A x \in S : f[x] \in Nat
  PROVE  Total(f, S) \in Nat
<1> DEFINE Bad == {Cardinality(s) : s \in {t \in SUBSET S : Total(f, t) \notin Nat}}
<1> SUFFICES ASSUME Total(f, S) \notin Nat PROVE FALSE
  OBVIOUS
<1>1. Bad \in SUBSET Nat /\ Bad # {}
  BY FS_Subset, FS_CardinalityType
<1>2. PICK n \in Bad : \A k \in Bad : n <= k
  <2> HIDE DEF Bad
  <2> QED BY <1>1, LeastOf
<1>3. PICK s \in SUBSET S : Total(f, s) \notin Nat /\ n = Cardinality(s)
  BY <1>2
<1>4. s # {}
  BY <1>3, TotalOfNone
<1>5. IsFiniteSet(s)
  BY FS_Subset
<1>6. Total(f, s) = f[AnyOf(s)] + Total(f, s \ {AnyOf(s)})
  BY <1>4, <1>5, TotalStep
<1>7. AnyOf(s) \in S
  BY <1>4, Smaller
<1>8. Total(f, s \ {AnyOf(s)}) \notin Nat
  BY <1>3, <1>6, <1>7
<1>9. Cardinality(s \ {AnyOf(s)}) \in Bad
  BY <1>4, <1>8, Smaller
<1>10. n \in Nat /\ Cardinality(s \ {AnyOf(s)}) = n - 1
  BY <1>1, <1>3, <1>4, Smaller
<1>11. n <= n - 1
  <2> HIDE DEF Bad
  <2> QED BY <1>2, <1>9, <1>10
<1> QED BY <1>10, <1>11

\* The elements may be taken in any order.
LEMMA TotalWithout ==
  ASSUME NEW S, IsFiniteSet(S), NEW f, \A x \in S : f[x] \in Nat, NEW y \in S
  PROVE  Total(f, S) = f[y] + Total(f, S \ {y})
<1> DEFINE Wrong(t) == \E x \in t : Total(f, t) # f[x] + Total(f, t \ {x})
<1> DEFINE Bad == {Cardinality(s) : s \in {t \in SUBSET S : Wrong(t)}}
<1> SUFFICES ASSUME Wrong(S) PROVE FALSE
  OBVIOUS
<1>1. Bad \in SUBSET Nat /\ Bad # {}
  BY FS_Subset, FS_CardinalityType
<1>2. PICK n \in Bad : \A k \in Bad : n <= k
  <2> HIDE DEF Bad
  <2> QED BY <1>1, LeastOf
<1>3. PICK s \in SUBSET S : Wrong(s) /\ n = Cardinality(s)
  BY <1>2
<1>4. PICK x \in s : Total(f, s) # f[x] + Total(f, s \ {x})
  BY <1>3
<1> DEFINE a == AnyOf(s)
<1>5. /\ IsFiniteSet(s) /\ IsFiniteSet(s \ {a}) /\ IsFiniteSet(s \ {x})
      /\ IsFiniteSet((s \ {x}) \ {a})
  BY FS_Subset
<1>6. a \in s /\ Total(f, s) = f[a] + Total(f, s \ {a})
  BY <1>5, TotalStep, Smaller
<1>7. a # x
  BY <1>4, <1>6
<1>8. n \in Nat /\ Cardinality(s \ {a}) = n - 1 /\ Cardinality(s \ {x}) = n - 1
  BY <1>1, <1>3, <1>4, <1>5, <1>6, FS_RemoveElement
<1>9. ~Wrong(s \ {a}) /\ ~Wrong(s \ {x})
  <2>1. \A t \in SUBSET S : Wrong(t) => n <= Cardinality(t)
    BY <1>2
  <2> HIDE DEF Bad, Wrong, a
  <2> QED BY <2>1, <1>8
<1>10. Total(f, s \ {a}) = f[x] + Total(f, (s \ {a}) \ {x})
  BY <1>4, <1>7, <1>9
<1>11. Total(f, s \ {x}) = f[a] + Total(f, (s \ {x}) \ {a})
  BY <1>6, <1>7, <1>9
<1>12. (s \ {a}) \ {x} = (s \ {x}) \ {a}
  OBVIOUS
<1>13. f[a] \in Nat /\ f[x] \in Nat /\ Total(f, (s \ {x}) \ {a}) \in Nat
  BY <1>4, <1>5, <1>6, TotalIsNat
<1>14. f[a] + (f[x] + Total(f, (s \ {x}) \ {a})) = f[x] + (f[a] + Total(f, (s \ {x}) \ {a}))
  BY <1>13
<1> HIDE DEF Bad, Wrong, a
<1> QED BY <1>4, <1>6, <1>10, <1>11, <1>12, <1>14

-----------------------------------------------------------------------------
(* Walks *)

NamesOf(Entries) == {e.name : e \in Entries}

FrameOf(Entries) ==
  [path : Seq(NamesOf(Entries)), entries : Seq(Entries), depth : Nat]

\* A frame whose path is as long as it is deep.
FitFrame(Entries, frame) ==
  /\ frame \in FrameOf(Entries)
  /\ Len(frame.path) = frame.depth /\ frame.depth <= bounds.maxDepth

FitFrames(Entries, frames) ==
  /\ frames \in Seq(FrameOf(Entries))
  /\ \A i \in DOMAIN frames : FitFrame(Entries, frames[i])

Bytes(dir) == Total([p \in DOMAIN dir |-> dir[p].bytes], DOMAIN dir)

\* What is written is within the ceilings, and while the walk goes on no more than
\* what it has counted.
Written ==
  /\ IsFiniteSet(DOMAIN disk)
  /\ \A p \in DOMAIN disk : disk[p].bytes \in Nat /\ Len(p) - 1 <= bounds.maxDepth
  /\ Bytes(disk) <= bounds.maxTotalBytes
  /\ Cardinality(DOMAIN disk) <= bounds.maxFiles

Accounted ==
  /\ used \in [bytes : Nat, files : Nat, nodes : Nat]
  /\ used.nodes <= bounds.maxTreeNodes + 1
  /\ walk = "on" =>
       /\ Bytes(disk) <= used.bytes /\ used.bytes <= bounds.maxTotalBytes
       /\ Cardinality(DOMAIN disk) <= used.files /\ used.files <= bounds.maxFiles
       /\ used.nodes <= bounds.maxTreeNodes

Within(Entries) ==
  /\ bounds \in Ceilings
  /\ FitFrames(Entries, work) /\ (walk = "on" => work # <<>>)
  /\ Written /\ Accounted

LEMMA NothingWritten ==
  /\ DOMAIN Nothing = {} /\ IsFiniteSet(DOMAIN Nothing)
  /\ Bytes(Nothing) = 0 /\ Cardinality(DOMAIN Nothing) = 0
<1>1. DOMAIN Nothing = {}
  BY DEF Nothing
<1> QED BY <1>1, TotalOfNone, FS_EmptySet DEF Bytes

\* A file more, or written again.
LEMMA OneFile ==
  ASSUME NEW dir, IsFiniteSet(DOMAIN dir), \A p \in DOMAIN dir : dir[p].bytes \in Nat,
         NEW path, NEW file, file.bytes \in Nat,
         NEW next, next = [p \in DOMAIN dir \cup {path} |->
                             IF p = path THEN file ELSE dir[p]]
  PROVE  /\ DOMAIN next = DOMAIN dir \cup {path} /\ IsFiniteSet(DOMAIN next)
         /\ \A p \in DOMAIN next : next[p].bytes \in Nat
         /\ Bytes(dir) \in Nat /\ Bytes(next) \in Nat
         /\ Bytes(next) <= Bytes(dir) + file.bytes
         /\ Cardinality(DOMAIN dir) \in Nat /\ Cardinality(DOMAIN next) \in Nat
         /\ Cardinality(DOMAIN next) <= Cardinality(DOMAIN dir) + 1
<1> DEFINE D == DOMAIN dir
           E == DOMAIN next
           f == [p \in D |-> dir[p].bytes]
           g == [p \in E |-> next[p].bytes]
<1>1. E = D \cup {path} /\ \A p \in E : next[p] = IF p = path THEN file ELSE dir[p]
  OBVIOUS
<1>2. IsFiniteSet(E) /\ IsFiniteSet(D \ {path}) /\ E \ {path} = D \ {path}
  BY <1>1, FS_AddElement, FS_Subset
<1>3. \A p \in E : g[p] \in Nat
  BY <1>1
<1>4. \A p \in D : f[p] \in Nat
  OBVIOUS
<1>5. \A p \in D \ {path} : f[p] = g[p]
  BY <1>1
<1>6. g[path] = file.bytes /\ path \in E
  BY <1>1
<1>7. Total(g, E) = file.bytes + Total(g, E \ {path})
  <2> HIDE DEF D, E, g
  <2>1. IsFiniteSet(E) /\ path \in E
    BY <1>2, <1>6
  <2>2. Total(g, E) = g[path] + Total(g, E \ {path})
    BY <1>3, <2>1, TotalWithout
  <2> QED BY <1>6, <2>2
<1>8. Total(f, D \ {path}) = Total(g, D \ {path})
  <2> HIDE DEF D, f, g
  <2> QED BY <1>2, <1>5, TotalAgrees
<1>9. /\ Total(f, D \ {path}) \in Nat /\ Total(f, D) \in Nat
      /\ Total(f, D \ {path}) <= Total(f, D)
  <2>1. Total(f, D \ {path}) \in Nat
    <3> HIDE DEF D, f
    <3> QED BY <1>2, <1>4, TotalIsNat
  <2>2. Total(f, D) \in Nat
    <3> HIDE DEF f
    <3> QED BY <1>4, TotalIsNat
  <2>3. CASE path \in D
    <3>1. Total(f, D) = f[path] + Total(f, D \ {path})
      <4> HIDE DEF f
      <4> QED BY <1>4, <2>3, TotalWithout
    <3>2. f[path] \in Nat
      BY <1>4, <2>3
    <3> HIDE DEF f, D
    <3> QED BY <2>1, <2>2, <3>1, <3>2
  <2>4. CASE path \notin D
    <3>1. D \ {path} = D
      BY <2>4
    <3>2. Total(f, D \ {path}) = Total(f, D)
      <4> HIDE DEF f, D
      <4> QED BY <3>1
    <3> HIDE DEF f, D, E, g
    <3> QED BY <2>2, <3>2
  <2> QED BY <2>3, <2>4
<1>10. Total(g, E) \in Nat /\ Total(g, E) <= Total(f, D) + file.bytes
  <2>1. Total(g, E) = file.bytes + Total(f, D \ {path})
    <3> HIDE DEF D, E, f, g
    <3> QED BY <1>2, <1>7, <1>8
  <2> HIDE DEF D, E, f, g
  <2> QED BY <1>9, <2>1
<1>11. /\ Cardinality(D) \in Nat /\ Cardinality(E) \in Nat
       /\ Cardinality(E) <= Cardinality(D) + 1
  <2> HIDE DEF E
  <2> QED BY <1>1, <1>2, FS_AddElement, FS_CardinalityType
<1> QED BY <1>1, <1>2, <1>9, <1>10, <1>11 DEF Bytes

LEMMA FramesPushed ==
  ASSUME NEW Entries, NEW frames, FitFrames(Entries, frames),
         NEW frame, FitFrame(Entries, frame)
  PROVE  FitFrames(Entries, Append(frames, frame)) /\ Append(frames, frame) # <<>>
<1>1. frame \in FrameOf(Entries) /\ frames \in Seq(FrameOf(Entries))
  BY DEF FitFrame, FitFrames
<1>2. /\ Append(frames, frame) \in Seq(FrameOf(Entries))
      /\ DOMAIN Append(frames, frame) = 1 .. Len(frames) + 1
      /\ \A i \in 1 .. Len(frames) + 1 :
           Append(frames, frame)[i] = IF i = Len(frames) + 1 THEN frame ELSE frames[i]
  BY <1>1
<1>3. \A i \in 1 .. Len(frames) + 1 : i # Len(frames) + 1 => i \in DOMAIN frames
  BY <1>1
<1>4. \A i \in 1 .. Len(frames) + 1 : FitFrame(Entries, Append(frames, frame)[i])
  BY <1>2, <1>3 DEF FitFrames
<1>5. Append(frames, frame) # <<>>
  <2>1. Len(frames) + 1 \in DOMAIN Append(frames, frame)
    <3>1. Len(frames) \in Nat
      BY <1>1
    <3> QED BY <1>2, <3>1
  <2>2. DOMAIN <<>> = {}
    OBVIOUS
  <2> QED BY <2>1, <2>2
<1>6. FitFrames(Entries, Append(frames, frame))
  <2> DEFINE a == Append(frames, frame)
  <2>1. a \in Seq(FrameOf(Entries)) /\ \A i \in DOMAIN a : FitFrame(Entries, a[i])
    BY <1>2, <1>4
  <2> HIDE DEF a
  <2>2. FitFrames(Entries, a)
    BY <2>1 DEF FitFrames
  <2> QED BY <2>2 DEF a
<1> QED BY <1>5, <1>6

LEMMA FramesPopped ==
  ASSUME NEW Entries, NEW frames, FitFrames(Entries, frames), frames # <<>>
  PROVE  FitFrames(Entries, Front(frames)) /\ FitFrame(Entries, Last(frames))
<1>1. frames \in Seq(FrameOf(Entries)) /\ Len(frames) \in DOMAIN frames
  BY DEF FitFrames
<1>2. /\ Front(frames) \in Seq(FrameOf(Entries))
      /\ DOMAIN Front(frames) = 1 .. Len(frames) - 1
      /\ \A i \in 1 .. Len(frames) - 1 : Front(frames)[i] = frames[i]
  BY <1>1 DEF Front
<1> QED BY <1>1, <1>2 DEF FitFrames, Last

\* What a walk comes to next.
LEMMA NextEntry ==
  ASSUME NEW Entries, Within(Entries), walk = "on", Top.entries # <<>>
  PROVE  /\ Entry \in Entries
         /\ Path \in Seq(NamesOf(Entries)) /\ Len(Path) = Top.depth + 1
         /\ Top.depth \in Nat /\ Top.depth <= bounds.maxDepth
         /\ FitFrames(Entries, Passed) /\ Passed # <<>>
<1>1. FitFrame(Entries, Top) /\ FitFrames(Entries, Front(work))
  BY FramesPopped DEF Within, Top
<1>2. /\ Top \in FrameOf(Entries) /\ Len(Top.path) = Top.depth
      /\ Top.depth <= bounds.maxDepth
  BY <1>1 DEF FitFrame
<1>3. Entry \in Entries /\ Tail(Top.entries) \in Seq(Entries)
  BY <1>2 DEF FrameOf, Entry
<1>4. Path \in Seq(NamesOf(Entries)) /\ Len(Path) = Top.depth + 1
  BY <1>2, <1>3 DEF Path, NamesOf, FrameOf
<1>5. FitFrame(Entries, [Top EXCEPT !.entries = Tail(@)])
  BY <1>2, <1>3 DEF FitFrame, FrameOf
<1> QED BY <1>1, <1>2, <1>3, <1>4, <1>5, FramesPushed DEF Passed, FrameOf

LEMMA Begins ==
  ASSUME NEW Entries, Within(Entries), NEW tree \in Seq(Entries), Begin(tree)
  PROVE  Within(Entries)'
<1>1. /\ bounds' = bounds /\ bounds \in Ceilings
      /\ disk' = Nothing /\ used' = Unused
      /\ walk' \in {"on", "exceeded"}
  BY DEF Begin, Within
<1>2. FitFrames(Entries, work)' /\ (walk' = "on" => work' # <<>>)
  <2>1. CASE DepthAllowed(0)
    <3>1. work' = <<Frame(<<>>, tree, 0)>>
      BY <2>1 DEF Begin
    <3>2. FitFrame(Entries, Frame(<<>>, tree, 0))'
      BY <1>1, <2>1 DEF FitFrame, FrameOf, Frame, DepthAllowed
    <3> QED BY <3>1, <3>2 DEF FitFrames, FitFrame
  <2>2. CASE ~DepthAllowed(0)
    <3>1. work' = <<>> /\ walk' = "exceeded"
      BY <2>2 DEF Begin
    <3> QED BY <3>1 DEF FitFrames
  <2> QED BY <2>1, <2>2
<1>3. Written'
  BY <1>1, NothingWritten DEF Written, Ceilings, Bytes
<1>4. Accounted'
  BY <1>1, NothingWritten DEF Accounted, Ceilings, Unused, Bytes
<1> QED BY <1>1, <1>2, <1>3, <1>4 DEF Within

\* One entry more has been visited, and nothing been written.
LEMMA Visited ==
  ASSUME NEW Entries, Within(Entries), walk = "on",
         UNCHANGED <<bounds, disk>>, used' = [used EXCEPT !.nodes = @ + 1],
         FitFrames(Entries, work)', walk' = "on" => work' # <<>>,
         walk' = "on" => used.nodes + 1 <= bounds.maxTreeNodes
  PROVE  Within(Entries)'
<1>1. Written'
  BY DEF Within, Written, Bytes
<1>2. Accounted'
  BY DEF Within, Accounted, Ceilings, Bytes
<1> QED BY <1>1, <1>2 DEF Within

LEMMA NoFrames ==
  ASSUME NEW Entries
  PROVE  FitFrames(Entries, <<>>)
  BY DEF FitFrames

LEMMA Passes ==
  ASSUME NEW Entries, WellFormed(Entries), Within(Entries),
         TooManyNodes \/ Descend \/ Skip \/ RefuseFile
  PROVE  Within(Entries)'
<1>1. /\ walk = "on" /\ Top.entries # <<>>
      /\ UNCHANGED <<bounds, disk>> /\ used' = [used EXCEPT !.nodes = @ + 1]
  BY DEF TooManyNodes, Descend, Skip, RefuseFile, Visits
<1>2. FitFrames(Entries, <<>>)'
  BY <1>1, NoFrames DEF FitFrames, FitFrame
<1>3. /\ Entry \in Entries /\ Path \in Seq(NamesOf(Entries)) /\ Len(Path) = Top.depth + 1
      /\ Top.depth \in Nat /\ FitFrames(Entries, Passed) /\ Passed # <<>>
  BY <1>1, NextEntry
<1>4. CASE walk' # "on" /\ work' = <<>>
  BY <1>1, <1>2, <1>4, Visited
<1>5. CASE Descend /\ ~(walk' # "on" /\ work' = <<>>)
  <2>1. /\ work' = Append(Passed, Frame(Path, Entry.entries, Top.depth + 1))
        /\ DepthAllowed(Top.depth + 1) /\ Entry.mode = "dir"
        /\ used.nodes + 1 <= bounds.maxTreeNodes
    BY <1>5 DEF Descend, Refuses, Visits
  <2>2. Entry.entries \in Seq(Entries)
    BY <1>3, <2>1 DEF WellFormed
  <2>3. FitFrame(Entries, Frame(Path, Entry.entries, Top.depth + 1))
    BY <1>3, <2>1, <2>2 DEF FitFrame, FrameOf, Frame, DepthAllowed
  <2>4. FitFrames(Entries, work') /\ work' # <<>>
    BY <1>3, <2>1, <2>3, FramesPushed
  <2>5. FitFrames(Entries, work)'
    BY <1>1, <2>4 DEF FitFrames, FitFrame
  <2> QED BY <1>1, <2>1, <2>4, <2>5, Visited
<1>6. CASE Skip
  <2>1. work' = Passed /\ used.nodes + 1 <= bounds.maxTreeNodes
    BY <1>6 DEF Skip, Visits
  <2>2. FitFrames(Entries, work)'
    BY <1>1, <1>3, <2>1 DEF FitFrames, FitFrame
  <2> QED BY <1>1, <1>3, <2>1, <2>2, Visited
<1> QED BY <1>4, <1>5, <1>6 DEF TooManyNodes, RefuseFile, Refuses

\* A file of no more bytes than remain is written, counted or not.
LEMMA FileWithin ==
  ASSUME NEW Entries, WellFormed(Entries), Within(Entries), walk = "on",
         Top.entries # <<>>, FileAllowed, NEW n \in Nat, n <= Remaining,
         disk' = OnDisk(n), bounds' = bounds
  PROVE  /\ Written' /\ Bytes(disk)' \in Nat
         /\ Bytes(disk)' <= used.bytes + n
         /\ Cardinality(DOMAIN disk)' \in Nat
         /\ Cardinality(DOMAIN disk)' <= used.files + 1
         /\ used.bytes + n <= bounds.maxTotalBytes
<1> DEFINE file == [bytes |-> n, holds |-> Entry.holds]
<1>1. /\ IsFiniteSet(DOMAIN disk) /\ \A p \in DOMAIN disk : disk[p].bytes \in Nat
      /\ \A p \in DOMAIN disk : Len(p) - 1 <= bounds.maxDepth
  BY DEF Within, Written
<1>2. disk' = [p \in DOMAIN disk \cup {Path} |-> IF p = Path THEN file ELSE disk[p]]
  BY DEF OnDisk
<1>3. /\ DOMAIN disk' = DOMAIN disk \cup {Path} /\ IsFiniteSet(DOMAIN disk')
      /\ \A p \in DOMAIN disk' : disk'[p].bytes \in Nat
      /\ Bytes(disk) \in Nat /\ Bytes(disk') \in Nat
      /\ Bytes(disk') <= Bytes(disk) + n
      /\ Cardinality(DOMAIN disk) \in Nat /\ Cardinality(DOMAIN disk') \in Nat
      /\ Cardinality(DOMAIN disk') <= Cardinality(DOMAIN disk) + 1
  <2>1. file.bytes = n
    OBVIOUS
  <2> HIDE DEF file
  <2> QED BY <1>1, <1>2, <2>1, OneFile
<1>4. /\ bounds \in Ceilings /\ used \in [bytes : Nat, files : Nat, nodes : Nat]
      /\ Bytes(disk) <= used.bytes /\ Cardinality(DOMAIN disk) <= used.files
  BY DEF Within, Accounted
<1>5. used.files + 1 <= bounds.maxFiles /\ used.bytes + n <= bounds.maxTotalBytes
  BY <1>4 DEF FileAllowed, Remaining, Ceilings
<1>6. Len(Path) - 1 <= bounds.maxDepth
  BY <1>4, NextEntry DEF Ceilings
<1>7. \A p \in DOMAIN disk' : Len(p) - 1 <= bounds.maxDepth
  BY <1>1, <1>3, <1>6
<1>8. /\ Bytes(disk') <= used.bytes + n
      /\ Cardinality(DOMAIN disk') <= used.files + 1
  BY <1>3, <1>4
<1>9. /\ Bytes(disk') <= bounds.maxTotalBytes
      /\ Cardinality(DOMAIN disk') <= bounds.maxFiles
  BY <1>3, <1>4, <1>5, <1>8 DEF Ceilings
<1>10. Bytes(disk)' = Bytes(disk')
  BY DEF Bytes
<1>11. Written'
  BY <1>3, <1>7, <1>9, <1>10 DEF Written
<1> QED BY <1>3, <1>5, <1>8, <1>10, <1>11

\* copyBounded copies what there is, and no more than what remains.
LEMMA CopiedFits ==
  ASSUME NEW Entries, WellFormed(Entries), Within(Entries), walk = "on",
         Top.entries # <<>>, Entry.mode \in isMaterializableFile
  PROVE  Copied \in Nat /\ Copied <= Remaining /\ Remaining \in Nat
<1>1. Entry.stream \in Nat
  BY NextEntry DEF WellFormed
<1>2. Remaining \in Nat
  BY DEF Within, Accounted, Ceilings, Remaining
<1>3. Copied \in {Entry.stream, Remaining} /\ \A x \in {Entry.stream, Remaining} : Copied <= x
  <2> DEFINE m == IF Entry.stream <= Remaining THEN Entry.stream ELSE Remaining
  <2>1. m \in {Entry.stream, Remaining} /\ \A x \in {Entry.stream, Remaining} : m <= x
    BY <1>1, <1>2
  <2> HIDE DEF m
  <2> QED BY <2>1 DEF Copied, Min
<1> QED BY <1>1, <1>2, <1>3

LEMMA Writes ==
  ASSUME NEW Entries, WellFormed(Entries), Within(Entries), WriteFile
  PROVE  Within(Entries)'
<1>1. /\ walk = "on" /\ Top.entries # <<>> /\ bounds' = bounds
      /\ Entry.mode \in isMaterializableFile /\ FileAllowed
      /\ used.nodes + 1 <= bounds.maxTreeNodes /\ disk' = OnDisk(Copied)
  BY DEF WriteFile, Visits
<1>2. Copied \in Nat /\ Copied <= Remaining
  BY <1>1, CopiedFits
<1>3. /\ Written' /\ Bytes(disk)' \in Nat
      /\ Bytes(disk)' <= used.bytes + Copied
      /\ Cardinality(DOMAIN disk)' \in Nat
      /\ Cardinality(DOMAIN disk)' <= used.files + 1
      /\ used.bytes + Copied <= bounds.maxTotalBytes
  BY <1>1, <1>2, FileWithin
<1>4. /\ bounds \in Ceilings /\ used \in [bytes : Nat, files : Nat, nodes : Nat]
  BY DEF Within, Accounted
<1>5. used.files + 1 <= bounds.maxFiles
  BY <1>1 DEF FileAllowed
<1>6. CASE Entry.stream > Copied
  <2>1. /\ used' = [used EXCEPT !.nodes = @ + 1]
        /\ walk' = "exceeded" /\ work' = <<>>
    BY <1>6 DEF WriteFile, Refuses
  <2>2. Accounted'
    BY <1>1, <1>4, <2>1 DEF Accounted, Ceilings
  <2>3. FitFrames(Entries, work)'
    BY <2>1 DEF FitFrames
  <2> QED BY <1>1, <1>3, <1>4, <2>1, <2>2, <2>3 DEF Within
<1>7. CASE ~(Entry.stream > Copied)
  <2>1. /\ used' = [nodes |-> used.nodes + 1, files |-> used.files + 1,
                    bytes |-> used.bytes + Copied]
        /\ work' = Passed /\ walk' = walk
    BY <1>7 DEF WriteFile
  <2>2. Accounted'
    BY <1>1, <1>2, <1>3, <1>4, <1>5, <2>1 DEF Accounted, Ceilings
  <2>3. FitFrames(Entries, Passed) /\ Passed # <<>>
    BY <1>1, NextEntry
  <2>4. FitFrames(Entries, work)'
    BY <1>1, <2>1, <2>3 DEF FitFrames, FitFrame
  <2> QED BY <1>1, <1>3, <1>4, <2>1, <2>2, <2>3, <2>4 DEF Within
<1> QED BY <1>6, <1>7

LEMMA Fails ==
  ASSUME NEW Entries, WellFormed(Entries), Within(Entries), WalkFails
  PROVE  Within(Entries)'
<1>1. /\ walk = "on" /\ Top.entries # <<>> /\ bounds' = bounds
      /\ used.nodes + 1 <= bounds.maxTreeNodes
      /\ used' = [used EXCEPT !.nodes = @ + 1] /\ walk' = "failed" /\ work' = <<>>
  BY DEF WalkFails, Visits
<1>2. FitFrames(Entries, work)'
  BY <1>1 DEF FitFrames
<1>3. CASE disk' = disk
  BY <1>1, <1>2, <1>3, Visited
<1>4. CASE disk' # disk
  <2>1. Entry.mode \in isMaterializableFile /\ FileAllowed
    BY <1>4 DEF WalkFails, Visits
  <2>2. PICK n \in {0, Copied} : disk' = OnDisk(n)
    BY <1>4 DEF WalkFails
  <2>3. n \in Nat /\ n <= Remaining
    BY <1>1, <2>1, <2>2, CopiedFits
  <2>4. Written'
    BY <1>1, <2>1, <2>2, <2>3, FileWithin
  <2>5. Accounted' /\ bounds \in Ceilings
    BY <1>1 DEF Accounted, Ceilings, Within
  <2> QED BY <1>1, <1>2, <2>4, <2>5 DEF Within
<1> QED BY <1>3, <1>4

LEMMA Ascends ==
  ASSUME NEW Entries, Within(Entries), Ascend
  PROVE  Within(Entries)'
<1>1. UNCHANGED <<bounds, disk, used>> /\ walk = "on" /\ work' = Front(work)
  BY DEF Ascend
<1>2. FitFrames(Entries, Front(work)) /\ work \in Seq(FrameOf(Entries)) /\ work # <<>>
  BY <1>1, FramesPopped DEF Within, FitFrames
<1>3. FitFrames(Entries, work)'
  BY <1>1, <1>2 DEF FitFrames, FitFrame
<1>4. walk' = "on" => work' # <<>>
  <2> SUFFICES ASSUME walk' = "on" PROVE work' # <<>>
    OBVIOUS
  <2>1. Len(work) # 1
    BY DEF Ascend
  <2>2. Len(work) \in Nat /\ Len(work) > 1
    <3>1. ASSUME NEW S, NEW s \in Seq(S), s # <<>>
          PROVE  Len(s) \in Nat /\ Len(s) # 0
      BY <3>1, EmptySeq
    <3>2. Len(work) \in Nat /\ Len(work) # 0
      <4> HIDE DEF Within, Ascend
      <4> QED BY <1>2, <3>1
    <3>3. \A n \in Nat : n # 0 /\ n # 1 => n > 1
      OBVIOUS
    <3> QED BY <2>1, <3>2, <3>3
  <2>3. Len(Front(work)) = Len(work) - 1
    BY <1>2, <2>2 DEF Front
  <2> QED BY <1>1, <2>2, <2>3
<1>5. Written'
  BY <1>1 DEF Within, Written, Bytes
<1>6. Accounted'
  BY <1>1 DEF Within, Accounted, Bytes
<1> QED BY <1>1, <1>3, <1>4, <1>5, <1>6 DEF Within

LEMMA Removes ==
  ASSUME NEW Entries, Within(Entries), RemoveAll
  PROVE  Within(Entries)'
<1>1. /\ UNCHANGED <<bounds, used>> /\ walk' = "off" /\ work' = <<>> /\ disk' = Nothing
      /\ bounds \in Ceilings
  BY DEF RemoveAll, Within
<1>2. Written'
  BY <1>1, NothingWritten DEF Written, Ceilings, Bytes
<1>3. Accounted'
  BY <1>1 DEF Within, Accounted
<1>4. FitFrames(Entries, work)'
  BY <1>1 DEF FitFrames
<1> QED BY <1>1, <1>2, <1>3, <1>4 DEF Within

LEMMA WithinAtFirst ==
  ASSUME NEW Entries, bounds \in Ceilings, WalkInit
  PROVE  Within(Entries)
<1>1. Written
  BY NothingWritten DEF WalkInit, Written, Ceilings
<1>2. Accounted /\ FitFrames(Entries, work)
  BY NoFrames DEF WalkInit, Accounted, Unused, Ceilings
<1> QED BY <1>1, <1>2 DEF Within, WalkInit

LEMMA WithinIsKept ==
  ASSUME NEW Entries, WellFormed(Entries), NEW trees, trees \subseteq Seq(Entries),
         Within(Entries), [WalkNext(trees)]_walkVars
  PROVE  Within(Entries)'
<1>1. ASSUME NEW tree \in trees, Begin(tree) PROVE Within(Entries)'
  BY <1>1, Begins
<1>2. CASE UNCHANGED walkVars
  BY <1>2 DEF walkVars, Within, FitFrames, FitFrame, Written, Accounted, Bytes
<1> QED
  BY <1>1, <1>2, Passes, Writes, Fails, Ascends, Removes DEF WalkNext, WalkStep

\* For every tree, whatever its depth, its width and the sizes its blobs lie
\* about, and whatever fails, no walk ever leaves more in its directory than the
\* ceilings allow (materializeTree and copyBounded, subtree.go:140-330).
THEOREM CeilingsAreKept ==
  ASSUME NEW Entries, WellFormed(Entries), NEW trees, trees \subseteq Seq(Entries)
  PROVE  WalkSpec(trees) => []CeilingsHold
<1>1. bounds \in Ceilings /\ WalkInit => Within(Entries)
  BY WithinAtFirst
<1>2. Within(Entries) /\ [WalkNext(trees)]_walkVars => Within(Entries)'
  BY WithinIsKept
<1>3. Within(Entries) => CeilingsHold
  <2> SUFFICES ASSUME Within(Entries) PROVE CeilingsHold
    OBVIOUS
  <2>1. FoldFunction(+, 0, [p \in DOMAIN disk |-> disk[p].bytes]) = Bytes(disk)
    BY DEF FoldFunction, Bytes, Total
  <2> QED BY <2>1 DEF Within, Written, Accounted, CeilingsHold
<1> QED BY <1>1, <1>2, <1>3, PTL DEF WalkSpec
=============================================================================
