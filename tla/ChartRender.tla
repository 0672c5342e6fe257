----------------------------- MODULE ChartRender -----------------------------
(***************************************************************************)
(* The offline render of a Helm chart into a normalized manifest set, and  *)
(* what its failures are shown as: internal/chartrender and                *)
(* internal/chartdiff.                                                     *)
(*                                                                         *)
(* A chart directory holds Chart.yaml, which names its dependencies,       *)
(* templates, and vendored charts.  What Helm renders a template or a      *)
(* vendored chart to is its documents: an empty one, or an object with its *)
(* kind, namespace and name (0 the empty name) and the lines of its        *)
(* canonical YAML.                                                         *)
(***************************************************************************)
EXTENDS ManifestDiff

RenderFailed(reason) == [error |-> reason, made |-> <<>>]
Rendered(manifests) == [error |-> "none", made |-> manifests]

Holding(dir, what) == {p \in DOMAIN dir : dir[p].holds.what = what}

\* loader.LoadDir: Chart.yaml at the root, and every vendored chart, parses.
Loads(dir) ==
  /\ \E p \in Holding(dir, "chart") : Len(p) = 1
  /\ \A p \in Holding(dir, "chart") \cup Holding(dir, "vendored") : dir[p].holds.parses

Declared(dir) ==
  UNION {dir[p].holds.dependencies : p \in {q \in Holding(dir, "chart") : Len(q) = 1}}
Vendored(dir) == {dir[p].holds.name : p \in Holding(dir, "vendored")}
missingDependencies(dir) == Declared(dir) \ Vendored(dir)

\* The documents of all templates, in no order that normalize would keep.
Documents(dir) ==
  LET rendered == Holding(dir, "template") \cup Holding(dir, "vendored")
      files == Sorted(rendered)
  IN FlattenSeq([i \in DOMAIN files |-> dir[files[i]].holds.documents])

IsObject(document) == ~document.empty

\* By identity, then by text.
ManifestBefore(a, b) ==
  \/ Before(a.id, b.id)
  \/ /\ a.id = b.id
     /\ \/ \E i \in DOMAIN a.lines :
             /\ i <= Len(b.lines) /\ Before(a.lines[i], b.lines[i])
             /\ \A j \in 1..(i - 1) : a.lines[j] = b.lines[j]
        \/ Len(a.lines) < Len(b.lines) /\ IsPrefix(a.lines, b.lines)

\* Empty documents are dropped; one with content and no kind fails them all.
normalize(documents) ==
  LET objects == Selected(documents, {i \in DOMAIN documents : IsObject(documents[i])})
      at == DOMAIN objects
      order == InOrder(at, {p \in at \X at :
                              \/ ManifestBefore(objects[p[1]], objects[p[2]])
                              \/ objects[p[1]] = objects[p[2]] /\ p[1] < p[2]})
  IN IF \E i \in DOMAIN objects : objects[i].id[1] = 0
       THEN RenderFailed("malformed-chart")
       ELSE Rendered([i \in at |-> [id |-> objects[order[i]].id,
                                    lines |-> objects[order[i]].lines]])

\* The templates are run once all dependencies are there.
Render(dir) ==
  CASE ~Loads(dir) -> RenderFailed("malformed-chart")
    [] Loads(dir) /\ missingDependencies(dir) # {} -> RenderFailed("dependency-not-vendored")
    [] OTHER ->
         IF \E p \in Holding(dir, "template") : ~dir[p].holds.parses
           THEN RenderFailed("malformed-chart")
           ELSE normalize(Documents(dir))

\* The outcome kinds of what the engine or the renderer fails with.
ChartClassify(failure) ==
  CASE failure = "no-prior-version" -> "no-prior-version"
    [] failure = "exceeded-limits" -> "exceeded-limits"
    [] failure = "dependency-not-vendored" -> "unavailable"
    [] OTHER -> "could-not-render"
==============================================================================
