---- MODULE MCSubtreeDiff ----
(* Values of SubtreeDiff's constants for model checking. *)
EXTENDS SubtreeDiff

Entry1(name, mode, size, stream, holds) ==
  [name |-> name, mode |-> mode, size |-> size, stream |-> stream, holds |-> holds]
File(name, holds) == Entry1(name, "regular", 1, 1, holds)
Dir(name, entries) == [name |-> name, mode |-> "dir", entries |-> entries]
Symlink(name) == [name |-> name, mode |-> "symlink"]

\* Terraform: attribute 1 forces a replacement.
Body(attrs, nested) == [attrs |-> attrs, nested |-> nested]
Plain == Body(<<1>>, <<>>)
Resized == Body(<<1, 2>>, <<>>)
Moved == Body(<<2>>, <<>>)
Unset == Body([a \in {2} |-> 2], <<>>)
Nested(b) == Body(<<1>>, <<[header |-> 1, attrs |-> b.attrs, nested |-> b.nested]>>)

Block(what, labels, body) == [what |-> what, labels |-> labels, body |-> body]
Web(body) == Block("resource", <<1, 1>>, body)
Net(body) == Block("resource", <<1, 2>>, body)
Provider == Block("provider", <<1>>, Plain)
Terraform(blocks) == [what |-> "terraform", parses |-> TRUE, blocks |-> blocks]
Malformed == [what |-> "terraform", parses |-> FALSE, blocks |-> <<>>]

Mains ==
  { <<Web(Plain)>>, <<Net(Plain), Web(Resized)>>, <<Web(Moved), Provider>>,
    <<Web(Nested(Unset)), Net(Unset)>> }

Rest ==
  { <<>>,
    <<Dir(2, <<File(1, Terraform(<<Web(Moved)>>))>>)>>,
    <<Entry1(2, "executable", 1, 1, Terraform(<<Net(Resized)>>)), Symlink(3)>>,
    <<Entry1(2, "regular", 1, 3, Terraform(<<Net(Plain)>>))>> }

Stacks == {Tree(<<File(1, Terraform(main))>> \o rest) : main \in Mains, rest \in Rest}

BadStacks ==
  { Tree(<<File(1, Malformed), File(2, Terraform(<<Net(Nested(Nested(Plain)))>>))>>),
    Tree(<<File(1, Terraform(<<Web(Nested(Nested(Plain)))>>)), Symlink(2)>>),
    Tree(<<File(1, Terraform(<<Web(Nested(Plain))>>)),
           Dir(2, <<Dir(1, <<File(1, Terraform(<<Net(Plain)>>))>>)>>)>>),
    NotThere }

\* Charts: 1 is Chart.yaml, 2 charts/, 3 templates/.
Object(kind, name, lines) == [empty |-> FALSE, id |-> <<kind, 0, name>>, lines |-> lines]
Empty == [empty |-> TRUE]
ChartYaml(dependencies) ==
  File(1, [what |-> "chart", parses |-> TRUE, dependencies |-> dependencies])
Charts(documents) ==
  Dir(2, <<File(1, [what |-> "vendored", parses |-> TRUE, name |-> 1,
                    documents |-> documents])>>)
Templates(documents) ==
  Dir(3, <<File(1, [what |-> "template", parses |-> TRUE, documents |-> documents])>>)
Broken(what) == Dir(3, <<File(1, [what |-> what, parses |-> FALSE, documents |-> <<>>])>>)

Line(v) == <<v, 0, 0>>
Documents1 ==
  { <<Object(2, 1, <<Line(1), Line(2)>>), Empty>>,
    <<Object(1, 1, <<Line(1)>>), Object(2, 1, <<Line(2), Line(1)>>)>>,
    <<Object(1, 1, <<Line(1)>>), Object(1, 1, <<Line(2)>>)>> }

GoodCharts ==
  {Tree(<<ChartYaml({}), Templates(d)>>) : d \in Documents1}
    \cup {Tree(<<ChartYaml({1}), Charts(<<Object(3, 1, <<Line(1)>>)>>), Templates(d)>>) :
            d \in Documents1}

BadCharts ==
  { Tree(<<ChartYaml({1}), Broken("template")>>),
    Tree(<<ChartYaml({}), Broken("template")>>),
    Tree(<<ChartYaml({}), Broken("vendored")>>),
    Tree(<<ChartYaml({}), Templates(<<Object(0, 1, <<Line(1)>>)>>)>>),
    Tree(<<Templates(<<Empty>>)>>),
    NotThere }

JobsOf(kind, good, bad) ==
  [kind : {kind}, parent : good, tree : good]
    \cup UNION {[kind : {kind}, parent : {g, NoParent}, tree : bad] : g \in {CHOOSE g \in good : TRUE}}
    \cup [kind : {kind}, parent : bad, tree : {CHOOSE g \in good : TRUE}]

SomeJobs ==
  JobsOf("plan", Stacks, BadStacks) \cup JobsOf("chart", GoodCharts, BadCharts)

Limits(bytes, files, depth, nodes) ==
  [maxTotalBytes |-> bytes, maxFiles |-> files, maxDepth |-> depth, maxTreeNodes |-> nodes]

SomeBounds ==
  {Limits(5, 4, 2, 6), Limits(2, 3, 1, 4), Limits(3, 2, 1, 3), Limits(4, 3, 0, 3),
   Limits(5, 1, 2, 5), Limits(5, 3, 1, 2)}

\* All entries and bodies of these trees, three levels deep.
Inner(entries) == UNION {Range(e.entries) : e \in {x \in entries : x.mode = "dir"}}
AtTop == UNION {Range(j.parent.entries) \cup Range(j.tree.entries) : j \in SomeJobs}
SomeEntries == AtTop \cup Inner(AtTop) \cup Inner(Inner(AtTop))

Outermost == {Plain, Resized, Moved, Unset, Nested(Unset), Nested(Plain), Nested(Nested(Plain))}
InnerBodies(bodies) == UNION {Blocks(b) : b \in bodies}
SomeBodies == Outermost \cup InnerBodies(Outermost) \cup InnerBodies(InnerBodies(Outermost))
====
