---------------------------- MODULE SubtreeDiff ----------------------------
(***************************************************************************)
(* One diff of a subtree between a commit and its first parent, from the   *)
(* trees to the outcome the web pages show: compute and                    *)
(* materializeAndProduce of internal/subtree, with the domains of          *)
(* internal/chartdiff and internal/plandiff.                               *)
(*                                                                         *)
(* SubtreeEngine is about the diffs that run at once, their cache and      *)
(* their limits; here is what one of them says.                            *)
(***************************************************************************)
EXTENDS SubtreeWalk, PlanDiff, ChartRender

CONSTANTS
  Jobs,         \* the diffs asked for: [kind, parent, tree]
  AllBounds,    \* the configured ceilings
  TreeEntries,  \* what the trees are made of, at every depth
  BlockBodies   \* what the blocks of their Terraform files are made of

NoParent == [none |-> TRUE, entries |-> <<>>]     \* a root commit
NotThere == [absent |-> TRUE, entries |-> <<>>]   \* no such directory
Tree(entries) == [entries |-> entries]
Trees == {j.parent.entries : j \in Jobs} \cup {j.tree.entries : j \in Jobs}

Names == Seq(Nat)

\* A body is its attributes and its blocks, and a block has a header as well.
Whole(b) == b = [attrs |-> b.attrs, nested |-> b.nested]
WholeBlock(b) == b = [header |-> b.header, attrs |-> b.attrs, nested |-> b.nested]

BlockOf(Bods) == [what : STRING, labels : Names, body : {b \in Bods : Whole(b)}]
Document == [empty : {TRUE}] \cup [empty : {FALSE}, id : Names, lines : Seq(Names)]

\* Bodies with finitely many attributes, and among their blocks such bodies.  No
\* attribute's name and no header is empty.
FitBodies(Bods) ==
  \A b \in Bods :
    /\ DOMAIN b.attrs \in SUBSET (Nat \ {0}) /\ IsFiniteSet(DOMAIN b.attrs)
    /\ b.attrs \in [DOMAIN b.attrs -> Nat]
    /\ b.nested \in Seq(Bods)
    /\ \A i \in DOMAIN b.nested :
         WholeBlock(b.nested[i]) /\ b.nested[i].header \in Nat \ {0}

\* What a file holds, when it is one that is parsed.
FitHolds(Bods, holds) ==
  /\ holds.what = "terraform" => holds.blocks \in Seq(BlockOf(Bods))
  /\ holds.what \in {"template", "vendored"} => holds.documents \in Seq(Document)

\* Trees of such entries, with files the parsers take.
FitTrees(Entries, Bods) ==
  /\ WellFormed(Entries) /\ \A e \in Entries : e.name \in Nat
  /\ FitBodies(Bods)
  /\ \A e \in Entries : e.mode \in isMaterializableFile => FitHolds(Bods, e.holds)
  /\ Trees \subseteq Seq(Entries)

ASSUME SubtreeDiffAssumption ==
  FitTrees(TreeEntries, BlockBodies) /\ AllBounds \subseteq Ceilings

\* Git: no directory of a tree has a name twice.
NamesDiffer(entries) ==
  \A i, j \in DOMAIN entries : entries[i].name = entries[j].name => i = j

ASSUME SubtreeDiffNamesAssumption ==
  /\ \A tree \in Trees : NamesDiffer(tree)
  /\ \A e \in TreeEntries : e.mode = "dir" => NamesDiffer(e.entries)

VARIABLES
  job,       \* what is diffed: kind "plan" or "chart", its two trees
  side,      \* "start", "old", "new" or "over"
  old,       \* what the old side produced
  new,       \* what the new side did
  outcome,   \* the Outcome, once over
  fault      \* "none", "io" or "slow": what the diff has met

diffVars == <<job, side, old, new, outcome, fault>>
vars == <<walkVars, diffVars>>

NoOutcome == [kind |-> "none"]

Init ==
  /\ job \in Jobs /\ bounds \in AllBounds
  /\ side = "start" /\ old = <<>> /\ new = <<>>
  /\ outcome = NoOutcome /\ fault = "none"
  /\ WalkInit

Produce == IF job.kind = "plan" THEN Parse(disk) ELSE Render(disk)
Manifests(made) == IF job.kind = "plan" THEN PlanManifests(made) ELSE made
Classify(failure) ==
  IF job.kind = "plan" THEN PlanClassify(failure) ELSE ChartClassify(failure)

\* The diff is over.  The temporary directory is removed.
FailsWith(failure) ==
  /\ side' = "over" /\ outcome' = [kind |-> Classify(failure)]
  /\ RemoveAll
  /\ UNCHANGED <<job, old, new>>

\* A side is materialized into a new directory.
Materialize(which, tree) ==
  IF tree = NotThere
    THEN FailsWith("internal") /\ UNCHANGED fault
    ELSE /\ Begin(tree.entries) /\ side' = which
         /\ UNCHANGED <<job, old, new, outcome, fault>>

\* FirstParent is asked for, and the old side begins.
Start ==
  /\ side = "start"
  /\ IF job.parent = NoParent
       THEN FailsWith("no-prior-version") /\ UNCHANGED fault
       ELSE Materialize("old", job.parent)

Working == side \in {"old", "new"}

Walk ==
  /\ Working /\ WalkStep
  /\ UNCHANGED diffVars

\* Something cannot be read or written.
ReadFails ==
  /\ Working /\ fault' = "io"
  /\ WalkFails
  /\ UNCHANGED <<job, side, old, new, outcome>>

\* A materialization or a production takes too long, and is abandoned.
TimesOut ==
  /\ Working /\ walk \in {"on", "done"}
  /\ fault' = "slow"
  /\ FailsWith("exceeded-limits")

\* A panic, or an error of a kind the domain does not know.
Breaks ==
  /\ side = "start" \/ Working
  /\ fault' = "io"
  /\ FailsWith("internal")

NotMaterialized ==
  /\ Working /\ walk \in {"exceeded", "failed"}
  /\ FailsWith(IF walk = "exceeded" THEN "exceeded-limits" ELSE "internal")
  /\ UNCHANGED fault

CannotProduce ==
  /\ Working /\ walk = "done" /\ Produce.error # "none"
  /\ FailsWith(Produce.error)
  /\ UNCHANGED fault

\* Mutant: what is there is taken before the walk has ended.
ProducesEarly == Working /\ Produce.error = "none"

Produces == Working /\ walk = "done" /\ Produce.error = "none"

ProduceOld ==
  /\ Produces /\ side = "old"
  /\ old' = Produce.made
  /\ IF job.tree = NotThere
       THEN /\ side' = "over" /\ outcome' = [kind |-> Classify("internal")]
            /\ RemoveAll
       ELSE Begin(job.tree.entries) /\ side' = "new" /\ UNCHANGED outcome
  /\ UNCHANGED <<job, new, fault>>

Old == indexByIdentity(Manifests(old))
New == indexByIdentity(Manifests(new))

\* Both sides are there: the domain combines them.
Combine(made, scripts) ==
  LET diff == Diff(Old, indexByIdentity(Manifests(made)), scripts, MaxUnifiedBytes)
  IN IF job.kind = "plan"
       THEN [kind |-> "ok", diff |-> diff, plan |-> PlanExtras(old, made)]
       ELSE [kind |-> "ok", diff |-> diff]

ProduceNew ==
  /\ Produces /\ side = "new"
  /\ new' = Produce.made
  /\ \E scripts \in LineDiffs(Old, indexByIdentity(Manifests(Produce.made))) :
       outcome' = Combine(Produce.made, scripts)
  /\ side' = "over" /\ RemoveAll
  /\ UNCHANGED <<job, old, fault>>

\* Nothing is left to do.
Over == side = "over" /\ UNCHANGED vars

Next ==
  \/ Start \/ Walk \/ ReadFails \/ TimesOut \/ Breaks
  \/ NotMaterialized \/ CannotProduce \/ ProduceOld \/ ProduceNew \/ Over

Spec == Init /\ [][Next]_vars

----------------------------------------------------------------------------
(* What the trees say, without a walk *)

\* What a directory of a tree holds.  The indexes that lead to an entry order
\* the entries as a walk comes to them.
Inside(d) ==
  {[at |-> Append(d.at, i), path |-> Append(d.path, d.entry.entries[i].name),
    entry |-> d.entry.entries[i]] : i \in DOMAIN d.entry.entries}

Root(tree) == [at |-> <<>>, path |-> <<>>, entry |-> [mode |-> "dir", entries |-> tree.entries]]

\* The entries at each depth of a tree, its own being 0.
EntriesAt(tree) ==
  LET level[n \in 0..(bounds.maxDepth + 1)] ==
        IF n = 0 THEN {Root(tree)}
        ELSE UNION {Inside(d) : d \in {e \in level[n - 1] : e.entry.mode = "dir"}}
  IN level

\* Every entry of a tree, down to the files of the last directories allowed.
All(tree) == UNION {EntriesAt(tree)[n] : n \in 1..(bounds.maxDepth + 1)}
Files(tree) == {e \in All(tree) : e.entry.mode \in {"regular", "executable"}}
Contents(tree) == {[path |-> f.path, holds |-> f.entry.holds] : f \in Files(tree)}

TooMuch(tree) ==
  LET Written(f) == MapThenSumSet(LAMBDA g : g.entry.stream,
                                  {g \in Files(tree) : Before(g.at, f.at)})
  IN \/ Cardinality(All(tree)) > bounds.maxTreeNodes
     \/ Cardinality(Files(tree)) > bounds.maxFiles
     \/ \E e \in All(tree) : e.entry.mode = "dir" /\ Len(e.path) > bounds.maxDepth
     \/ \E f \in Files(tree) :
          Written(f) + Max({f.entry.size, f.entry.stream}) > bounds.maxTotalBytes

TooNested(body) == BodiesAt(body)[MaxBlockDepth] # {}

Declarations(tree) ==
  UNION {{[path |-> f.path, at |-> i, id |-> f.holds.blocks[i].labels,
           body |-> f.holds.blocks[i].body] :
            i \in {j \in DOMAIN f.holds.blocks :
                     f.holds.blocks[j].what = "resource"
                     /\ Len(f.holds.blocks[j].labels) = 2}} :
         f \in {c \in Contents(tree) : c.holds.what = "terraform" /\ c.holds.parses}}

Objects(tree) ==
  UNION {{[path |-> f.path, at |-> i, id |-> f.holds.documents[i].id,
           body |-> f.holds.documents[i].lines] :
            i \in {j \in DOMAIN f.holds.documents : ~f.holds.documents[j].empty}} :
         f \in {c \in Contents(tree) : c.holds.what \in {"template", "vendored"}}}

Unparsed(tree, what) == \E c \in Contents(tree) : c.holds.what = what /\ ~c.holds.parses

PlanCauses(tree) ==
  {k \in {"could-not-render", "exceeded-limits"} :
     \/ k = "could-not-render" /\ Unparsed(tree, "terraform")
     \/ k = "exceeded-limits"
        /\ \E d \in Declarations(tree) : TooNested(d.body)}

ChartCauses(tree) ==
  LET Of(what) == {c \in Contents(tree) : c.holds.what = what}
  IN {k \in {"could-not-render", "unavailable"} :
     \/ /\ k = "could-not-render"
        /\ \/ \A c \in Of("chart") : Len(c.path) # 1
           \/ \E what \in {"chart", "vendored", "template"} : Unparsed(tree, what)
           \/ \E o \in Objects(tree) : o.id[1] = 0
     \/ /\ k = "unavailable"
        /\ \E c \in Of("chart") : Len(c.path) = 1
             /\ \E dependency \in c.holds.dependencies :
                  \A v \in Of("vendored") : v.holds.name # dependency}

SideCauses(tree) ==
  CASE tree = NotThere -> {"could-not-render"}
    [] tree # NotThere /\ TooMuch(tree) -> {"exceeded-limits"}
    [] OTHER -> IF job.kind = "plan" THEN PlanCauses(tree) ELSE ChartCauses(tree)

Causes ==
  CASE fault = "io" -> {"could-not-render"}
    [] fault = "slow" -> {"exceeded-limits"}
    [] OTHER -> IF job.parent = NoParent THEN {"no-prior-version"}
                ELSE IF SideCauses(job.parent) # {} THEN SideCauses(job.parent)
                ELSE SideCauses(job.tree)

----------------------------------------------------------------------------
\* subtree/materialize.go:105 "a fresh, unpredictable-named, caller-exclusive
\* temp directory": for the directory a diff is a number of walks, one after the
\* other; none begins before the last has ended, and nothing else writes: it
\* implements WalkSpec(Trees).
DirectoryIsWalked ==
  bounds \in Ceilings /\ WalkInit /\ [][WalkNext(Trees)]_walkVars

Succeeded == outcome.kind = "ok"

\* plandiff/engine.go "It is a total function": a diff that is over has the
\* kind of something really wrong with the older of its two trees that has
\* something wrong, and is "ok" exactly when neither has: nothing of a tree
\* is left out silently, and no bound trips without being exceeded.
FailuresHaveTheirCause ==
  side = "over" =>
    IF Causes = {} THEN Succeeded ELSE outcome.kind \in Causes

Stated(tree) == IF job.kind = "plan" THEN Declarations(tree) ELSE Objects(tree)
Bodies(tree, id) == {d \in Stated(tree) : d.id = id}
Ids == {d.id : d \in Stated(job.parent) \cup Stated(job.tree)}
Clear(id) ==
  Cardinality(Bodies(job.parent, id)) <= 1 /\ Cardinality(Bodies(job.tree, id)) <= 1

ForcedBy(a, b) ==
  \E name \in ForceReplacementAttrs :
    LET Value(body) == IF name \in DOMAIN body.attrs THEN body.attrs[name] ELSE 0
    IN Value(a) # Value(b)

\* What should be said of an address that each tree declares at most once.
Told(id) ==
  LET a == {d.body : d \in Bodies(job.parent, id)}
      b == {d.body : d \in Bodies(job.tree, id)}
  IN CASE a = b -> {}
       [] a = {} -> {[id |-> id, kind |-> "added", forces |-> FALSE]}
       [] b = {} -> {[id |-> id, kind |-> "removed", forces |-> TRUE]}
       [] OTHER -> {[id |-> id, kind |-> "changed",
                     forces |-> \E x \in a, y \in b : ForcedBy(x, y)]}

\* plandiff/outcome.go "the resource-level blast-radius overview": whatever
\* file declares it, whatever its order and its nesting, the deltas say of each
\* resource what became of it between the trees, the counts agree with them
\* and with the line diff, and a chart's count is of the objects that differ.
DiffTellsTheTrees ==
  Succeeded =>
    /\ job.kind = "plan" =>
         /\ \A id \in Ids : Clear(id) =>
              {d \in Range(outcome.plan.resources) : d.id = id} = Told(id)
         /\ LET s == outcome.plan.summary
            IN /\ s.added + s.removed + s.changed = outcome.diff.manifestsChanged
               /\ s.removed <= s.replaced /\ s.replaced <= s.removed + s.changed
    /\ (\A id \in Ids : Clear(id)) =>
         outcome.diff.manifestsChanged =
           Cardinality({id \in Ids : {d.body : d \in Bodies(job.parent, id)}
                                       # {d.body : d \in Bodies(job.tree, id)}})

\* The text of one side of what changed.
Text(here) ==
  LET ids == Sorted({id \in DOMAIN Old \cup DOMAIN New : LinesOf(Old, id) # LinesOf(New, id)})
  IN FlattenSeq([i \in DOMAIN ids |-> LinesOf(here, ids[i])])

\* The lines of a unified text that carry one of these operations.
Carrying(unified, ops) ==
  Selected([i \in DOMAIN unified |-> unified[i].line],
           {i \in DOMAIN unified : unified[i].op \in ops})

\* manifestdiff.go "the TRUE total +/- line counts": the unified text holds
\* both texts of what changed, whole or, when truncated, as much of them as
\* fits, and the counts of added and removed lines balance over all of it.
UnifiedReadsBack ==
  Succeeded =>
    LET shown == outcome.diff.unified
        before == Carrying(shown, {"kept", "removed"})
        after == Carrying(shown, {"kept", "added"})
        bytes == LineBytes * Len(shown)
    IN /\ outcome.diff.linesAdded + Len(Text(Old)) = outcome.diff.linesRemoved + Len(Text(New))
       /\ bytes <= MaxUnifiedBytes
       /\ IF outcome.diff.truncated
            THEN /\ bytes + LineBytes > MaxUnifiedBytes
                 /\ IsPrefix(before, Text(Old)) /\ IsPrefix(after, Text(New))
                 /\ Counted(shown, "added") <= outcome.diff.linesAdded
                 /\ Counted(shown, "removed") <= outcome.diff.linesRemoved
            ELSE /\ before = Text(Old) /\ after = Text(New)
                 /\ Counted(shown, "added") = outcome.diff.linesAdded

=============================================================================
