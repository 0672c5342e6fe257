---- MODULE MCChangesetPaging ----
(* Values of ChangesetPaging's constants for model checking. *)
EXTENDS ChangesetPaging

Version(a, b, c) == [nil |-> FALSE, dotted |-> TRUE, version |-> <<a, b, c, 1>>, words |-> {}]
Quantity(n) == [nil |-> FALSE, dotted |-> FALSE, version |-> <<n, 0, 0, 1>>, words |-> {}]
Text(w) == [nil |-> FALSE, dotted |-> FALSE, version |-> <<>>, words |-> {w}]
Nil == [nil |-> TRUE, dotted |-> FALSE, version |-> <<>>, words |-> {}]

File(name, ext, words) == [name |-> name, ext |-> ext, words |-> words]
Chart == File("Chart.yaml", "", {})
Values == File("", "", {})
Nodes == File("", ".tf", {})

Facets(env) == [k \in {"env"} |-> env]
NoFacets == [k \in {} |-> ""]

Change(file, field, type, old, new, facets) ==
  [file |-> file, field |-> field, type |-> type, old |-> old, new |-> new,
   facets |-> facets]

Row(repo, sha, time, change) ==
  [repo |-> repo, sha |-> sha, time |-> time, change |-> change]

\* r1's first commit has changes of two facets; r1's and r2's second commits
\* share time and SHA.
MajorBump == Row("r1", 1, 3, Change(Chart, {}, "modified", Version(1, 9, 0), Version(2, 0, 0), Facets("prod")))
Rollback  == Row("r1", 1, 3, Change(Values, {}, "modified", Version(2, 0, 1), Version(1, 9, 0), Facets("dev")))
Removed   == Row("r1", 2, 2, Change(Nodes, {}, "removed", Text("shape"), Nil, NoFacets))
MinorBump == Row("r2", 2, 2, Change(Chart, {}, "modified", Version(1, 1, 0), Version(1, 2, 0), Facets("prod")))
Resized   == Row("r2", 3, 1, Change(Nodes, {"count"}, "modified", Quantity(3), Quantity(5), NoFacets))
Opened    == Row("r2", 4, 4, Change(Nodes, {"ssh"}, "added", Nil, Text("22"), Facets("dev")))

AllRows == {MajorBump, Rollback, Removed, MinorBump, Resized, Opened}
SomeRows == {Rollback, Removed, Resized}

Only(v) == [k \in {"env"} |-> {[value |-> v, excluded |-> FALSE]}]
Not(v) == [k \in {"env"} |-> {[value |-> v, excluded |-> TRUE]}]

Everything ==
  [asOf |-> Now, since |-> Unbounded, repo |-> "", facets |-> NoFacets,
   impacts |-> {}, risks |-> {}, limit |-> 1]

SomeRequests ==
  { Everything,
    [Everything EXCEPT !.asOf = 9, !.impacts = {"major", "minor", "downgrade"}, !.limit = 2],
    [Everything EXCEPT !.risks = {"replace-destroy", "major-version-bump"}, !.limit = Default],
    [Everything EXCEPT !.facets = Only("dev"), !.impacts = {"downgrade", "other"}],
    [Everything EXCEPT !.facets = Not("prod"), !.since = 4, !.limit = 9],
    [Everything EXCEPT !.impacts = {"patch"}],
    [Everything EXCEPT !.repo = "r2", !.risks = {"cost-tripwire"}],
    [Everything EXCEPT !.impacts = {"huge"}],
    [Everything EXCEPT !.limit = 0] }

SomeRules ==
  { <<>>,
    << [Rule("major version bump") EXCEPT !.bump = "major"] >>,
    << [Rule("security") EXCEPT !.field = Unparseable] >> }
====
