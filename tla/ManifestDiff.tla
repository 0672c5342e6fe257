---------------------------- MODULE ManifestDiff ----------------------------
(***************************************************************************)
(* The line diff of two manifest sets: internal/manifestdiff.              *)
(*                                                                         *)
(* A manifest is an identity and the lines of its text; an identity is a   *)
(* tuple of names, and names are numbers in their sorting order.  The edit *)
(* script go-udiff finds between two texts is any that turns one into the  *)
(* other, and every rendered line takes LineBytes bytes.                   *)
(***************************************************************************)
EXTENDS Naturals, Sequences, FiniteSets, SequencesExt, FiniteSetsExt

CONSTANT LineBytes

ASSUME ManifestDiffAssumption == LineBytes \in Nat \ {0}

\* The order of tuples of names.
Before(a, b) ==
  \/ \E i \in 1..Len(a) :
       /\ i <= Len(b) /\ a[i] < b[i]
       /\ \A j \in 1..(i - 1) : a[j] = b[j]
  \/ Len(a) < Len(b) /\ \A j \in 1..Len(a) : a[j] = b[j]

\* The elements of S, which R orders, the least first.
InOrder(S, R) ==
  [n \in 1..Cardinality(S) |->
     CHOOSE x \in S : Cardinality({y \in S : <<y, x>> \in R}) = n - 1]

Sorted(S) == InOrder(S, {p \in S \X S : Before(p[1], p[2])})

\* What s holds at the indices I.
Selected(s, I) ==
  LET upTo[n \in 0..Len(s)] ==
        IF n = 0 THEN <<>>
        ELSE IF n \in I THEN Append(upTo[n - 1], s[n]) ELSE upTo[n - 1]
  IN upTo[Len(s)]

\* The last manifest of an identity is kept.
LastOf(ms, id) == Max({i \in DOMAIN ms : ms[i].id = id})

indexByIdentity(ms) ==
  [id \in {ms[i].id : i \in DOMAIN ms} |-> ms[LastOf(ms, id)].lines]

\* What is differs between two indexed sets, sorted: the pairs that
\* countChangedManifests counts and renderPairs renders.
Changed(old, new) ==
  {id \in DOMAIN old \cup DOMAIN new :
     id \in DOMAIN old \cap DOMAIN new => old[id] # new[id]}

pairManifests(old, new) == Sorted(Changed(old, new))

LinesOf(side, id) == IF id \in DOMAIN side THEN side[id] ELSE <<>>

Ops == {"kept", "removed", "added"}

\* The lines of a text that the first n operations read, if op passes it over.
Read(ops, n, op) == Cardinality({m \in 1..n : ops[m] # op})

\* The operations keep what the texts share, and read both to their ends.
IsScript(ops, a, b) ==
  /\ Read(ops, Len(ops), "added") = Len(a) /\ Read(ops, Len(ops), "removed") = Len(b)
  /\ \A n \in DOMAIN ops :
       ops[n] = "kept" => a[Read(ops, n, "added")] = b[Read(ops, n, "removed")]

\* The edit scripts from text a to text b: kept, removed and added lines.
EditScripts(a, b) ==
  {[n \in DOMAIN ops |->
      [op |-> ops[n],
       line |-> IF ops[n] = "added" THEN b[Read(ops, n, "removed")] ELSE a[Read(ops, n, "added")]]] :
     ops \in {s \in BoundedSeq(Ops, Len(a) + Len(b)) : IsScript(s, a, b)}}

\* The ways to diff each changed pair.  A manifest of one side alone has one.
LineDiffs(old, new) ==
  {s \in [Changed(old, new) -> UNION {EditScripts(LinesOf(old, id), LinesOf(new, id)) :
                                        id \in Changed(old, new)}] :
     \A id \in Changed(old, new) :
       s[id] \in EditScripts(LinesOf(old, id), LinesOf(new, id))}

renderPairs(old, new, scripts) ==
  FlattenSeq([i \in 1..Len(pairManifests(old, new)) |->
                scripts[pairManifests(old, new)[i]]])

Counted(unified, op) == Cardinality({i \in DOMAIN unified : unified[i].op = op})

\* The lines that end within max bytes.  When not even one does, a piece of the
\* first is left, which no reader takes for a line.
truncateAtLineBoundary(unified, max) == SubSeq(unified, 1, max \div LineBytes)

\* Mutant: the summary is counted on what is shown.
CountedAsShown(unified, shown, op) == Counted(shown, op)

\* The summary counts all lines, shown or not.
CountedInAll(unified, shown, op) == Counted(unified, op)

Diff(old, new, scripts, max) ==
  LET unified == renderPairs(old, new, scripts)
      truncated == LineBytes * Len(unified) > max
      shown == IF truncated THEN truncateAtLineBoundary(unified, max) ELSE unified
  IN [unified |-> shown, truncated |-> truncated,
      manifestsChanged |-> Cardinality(Changed(old, new)),
      linesAdded |-> CountedInAll(unified, shown, "added"),
      linesRemoved |-> CountedInAll(unified, shown, "removed")]
==============================================================================
