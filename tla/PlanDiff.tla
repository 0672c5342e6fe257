------------------------------ MODULE PlanDiff ------------------------------
(***************************************************************************)
(* The resource-level diff of two Terraform stacks: internal/plandiff.     *)
(*                                                                         *)
(* What a Terraform file holds is whether it parses and its blocks, in     *)
(* order.  A body has attributes, a function from names to the texts their *)
(* expressions are rendered as, and nested blocks.  Names and texts are    *)
(* numbers in their sorting order, 0 the empty one, and no name is another *)
(* one followed by a character that sorts before "/".                      *)
(***************************************************************************)
EXTENDS ManifestDiff

CONSTANTS MaxBlockDepth, MaxUnifiedBytes, ForceReplacementAttrs

ASSUME PlanDiffAssumption ==
  MaxBlockDepth \in Nat /\ MaxUnifiedBytes \in Nat \ {0}

TooDeep == [deep |-> TRUE, lines |-> <<>>]
indent(lines) == [i \in DOMAIN lines |-> [lines[i] EXCEPT ![1] = @ + 1]]

AttributeLines(body) ==
  LET set == DOMAIN body.attrs
      names == InOrder(set, {p \in set \X set : p[1] < p[2]})
  IN [i \in DOMAIN names |-> <<0, names[i], body.attrs[names[i]]>>]

\* A nested block: a header, its body and a closing brace.
BlockLines(block, lines) == <<<<0, 0, block.header>>>> \o indent(lines) \o <<<<0, 0, 0>>>>

\* Attributes by name, then the nested blocks as they come, rendered by nested.
BodyLines(body, nested) ==
  AttributeLines(body)
    \o FlattenSeq([i \in DOMAIN body.nested |->
                     BlockLines(body.nested[i], nested[body.nested[i]].lines)])

Blocks(body) == {body.nested[i] : i \in DOMAIN body.nested}

\* The bodies at each depth of body, its own being 0, and one level too deep.
BodiesAt(body) ==
  LET at[n \in 0..MaxBlockDepth] ==
        IF n = 0 THEN {body} ELSE UNION {Blocks(b) : b \in at[n - 1]}
  IN at

\* rendered[n]: the bodies above which n more levels are allowed.
renderBody(body) ==
  LET rendered[n \in 0..MaxBlockDepth] ==
        [b \in BodiesAt(body)[MaxBlockDepth - n] |->
           IF n = 0 \/ \E c \in Blocks(b) : rendered[n - 1][c].deep
             THEN TooDeep
             ELSE [deep |-> FALSE, lines |-> BodyLines(b, rendered[n - 1])]]
  IN rendered[MaxBlockDepth][body]

IsResource(block) == block.what = "resource" /\ Len(block.labels) = 2

Failed(error) == [error |-> error, made |-> <<>>]
Made(things) == [error |-> "none", made |-> things]

Resource(block) ==
  [id |-> block.labels, attrs |-> block.body.attrs,
   body |-> renderBody(block.body).lines]

parseFile(file) ==
  LET resources == Selected(file.blocks, {i \in DOMAIN file.blocks : IsResource(file.blocks[i])})
  IN CASE ~file.parses -> Failed("malformed")
       [] \E i \in DOMAIN resources : renderBody(resources[i].body).deep
            -> Failed("too-deep")
       [] OTHER -> Made([i \in DOMAIN resources |-> Resource(resources[i])])

isTerraformFile(file) == file.what = "terraform"

\* The Terraform files below the directory, in the order of their paths.  The
\* first that cannot be parsed fails the stack.
Parse(dir) ==
  LET files == Sorted({p \in DOMAIN dir : isTerraformFile(dir[p].holds)})
      parsed == [i \in DOMAIN files |-> parseFile(dir[files[i]].holds)]
      failed == {i \in DOMAIN files : parsed[i].error # "none"}
  IN IF failed # {} THEN parsed[Min(failed)]
     ELSE Made(FlattenSeq([i \in DOMAIN files |-> parsed[i].made]))

----------------------------------------------------------------------------
indexByID(resources) ==
  [id \in {resources[i].id : i \in DOMAIN resources} |->
     resources[LastOf(resources, id)]]

\* An attribute that is not there reads as the empty text.
Attr(resource, name) ==
  IF name \in DOMAIN resource.attrs THEN resource.attrs[name] ELSE 0

attrChanged(old, new) ==
  \E name \in ForceReplacementAttrs : Attr(old, name) # Attr(new, name)

\* The classified changes of two parsed stacks, by address.
resourceDelta(oldResources, newResources) ==
  LET old == indexByID(oldResources)
      new == indexByID(newResources)
      Differs(id) == id \in DOMAIN old \cap DOMAIN new => old[id].body # new[id].body
      ids == Sorted({id \in DOMAIN old \cup DOMAIN new : Differs(id)})
      Delta(id) ==
        CASE id \notin DOMAIN old -> [id |-> id, kind |-> "added", forces |-> FALSE]
          [] id \notin DOMAIN new -> [id |-> id, kind |-> "removed", forces |-> TRUE]
          [] OTHER -> [id |-> id, kind |-> "changed",
                       forces |-> attrChanged(old[id], new[id])]
  IN [i \in DOMAIN ids |-> Delta(ids[i])]

Summary(deltas) ==
  LET Count(kind) == Cardinality({i \in DOMAIN deltas : deltas[i].kind = kind})
  IN [added |-> Count("added"), removed |-> Count("removed"),
      changed |-> Count("changed"),
      replaced |-> Cardinality({i \in DOMAIN deltas : deltas[i].forces})]

toManifestdiffManifests(resources) ==
  [i \in DOMAIN resources |->
     [id |-> <<resources[i].id[1], 0, resources[i].id[2]>>,
      lines |-> resources[i].body]]

\* The outcome kinds of what the engine or the parser fails with.
PlanClassify(failure) ==
  CASE failure = "no-prior-version" -> "no-prior-version"
    [] failure \in {"exceeded-limits", "too-deep"} -> "exceeded-limits"
    [] OTHER -> "could-not-render"

PlanManifests(made) == toManifestdiffManifests(made)
PlanExtras(old, new) ==
  LET deltas == resourceDelta(old, new)
  IN [resources |-> deltas, summary |-> Summary(deltas)]
==============================================================================
