--------------------------- MODULE ChangesetClasses ---------------------------
(***************************************************************************)
(* What a changeset is classified as: the kind of a file, the delta of two *)
(* versions, impact tiers, risk rules, and what a request's filters make   *)
(* of them.  A changeset is given by the set of its changes; a change is   *)
(*                                                                         *)
(*   [file, field, type, old, new, facets]                                 *)
(*                                                                         *)
(* A text (a field, a path, a value) is the set of the words patterns look *)
(* for that occur in it, and a pattern is the set of the words it accepts. *)
(***************************************************************************)
EXTENDS Integers, Sequences, FiniteSets

-----------------------------------------------------------------------------
(* Kinds *)

Kinds == {"chart", "value", "provider", "module", "resource", "variable"}
ChangeTypes == {"added", "removed", "modified"}

\* A file is [name, ext, words]: the base name where it is one the code knows,
\* the suffix, and the words in the path.
Lockfile == ".terraform.lock.hcl"

isTerraformSource(file) == file.name = Lockfile \/ file.ext \in {".tf", ".tofu"}

classifyTerraformKind(file) ==
  IF file.name = Lockfile THEN "provider"
  ELSE IF "variable" \in file.words THEN "variable"
  ELSE IF "module" \in file.words THEN "module"
  ELSE IF {"provider", "version"} \cap file.words # {} THEN "provider"
  ELSE "resource"

ClassifyKind(file) ==
  IF file.name = "Chart.yaml" THEN "chart"
  ELSE IF isTerraformSource(file) THEN classifyTerraformKind(file)
  ELSE "value"

-----------------------------------------------------------------------------
(* Versions and impact *)

\* A value is [nil, dotted, version, words].  Its version is what a semver
\* parser makes of it, <<>> or <<major, minor, patch, release>> with release 0
\* for a prerelease; without a dot it is a quantity, whatever the parser says.
parseVersion(v) == IF v.dotted THEN v.version ELSE <<>>

LessThan(v, w) ==
  \E i \in 1..4 : v[i] < w[i] /\ \A j \in 1..(i - 1) : v[j] = w[j]

forwardDelta(v, w) ==
  IF w[1] > v[1] THEN "major" ELSE IF w[2] > v[2] THEN "minor" ELSE "patch"

\* The delta from one value to another; "" if they do not compare.
Compare(old, new) ==
  LET v == parseVersion(old)
      w == parseVersion(new)
  IN  IF v = <<>> \/ w = <<>> \/ v = w THEN ""
      ELSE IF LessThan(v, w) THEN forwardDelta(v, w) ELSE "downgrade"

\* The tiers, the one that names a changeset first.
impactRollupOrder == <<"major", "downgrade", "minor", "patch", "other">>
ImpactTiers == {impactRollupOrder[i] : i \in DOMAIN impactRollupOrder}

ClassifyChangeImpact(c) ==
  IF c.old.nil \/ c.new.nil \/ Compare(c.old, c.new) = ""
  THEN "other" ELSE Compare(c.old, c.new)

ClassifyImpact(changes) ==
  LET found == {ClassifyChangeImpact(c) : c \in changes}
      ranks == {i \in DOMAIN impactRollupOrder : impactRollupOrder[i] \in found}
  IN  IF ranks = {} THEN "other"
      ELSE impactRollupOrder[CHOOSE i \in ranks : \A j \in ranks : i <= j]

-----------------------------------------------------------------------------
(* Risk rules: [risk, kinds, types, file, field, value, bump].  Empty sets,  *)
(* Any and "" leave that dimension open.                                     *)

Any == {}
Unparseable == {"("}

matchesPattern(pattern, text) ==
  \/ pattern = Any
  \/ pattern # Unparseable /\ pattern \cap text # {}

changeValue(c) ==
  IF ~c.new.nil THEN c.new.words ELSE IF ~c.old.nil THEN c.old.words ELSE {}

\* Mutant: any version that moves, backwards too, is a bump.
matchesAnyMove(level, c) ==
  level = "" \/ (~c.old.nil /\ ~c.new.nil /\ Compare(c.old, c.new) \in {"major", "downgrade"})

matchesSemverBump(level, c) ==
  \/ level = ""
  \/ /\ level = "major"
     /\ ~c.old.nil /\ ~c.new.nil
     /\ Compare(c.old, c.new) = "major"

ruleMatches(rule, c) ==
  /\ rule.kinds = {} \/ ClassifyKind(c.file) \in rule.kinds
  /\ rule.types = {} \/ c.type \in rule.types
  /\ matchesPattern(rule.file, c.file.words)
  /\ matchesPattern(rule.field, c.field)
  /\ matchesPattern(rule.value, changeValue(c))
  /\ matchesSemverBump(rule.bump, c)

\* rules is a sequence, in the order of the defaults and of the config file.
ClassifyRisk(changes, rules) ==
  {rules[i].risk : i \in {j \in DOMAIN rules : \E c \in changes : ruleMatches(rules[j], c)}}

ProducibleRisks(rules) == {rules[i].risk : i \in DOMAIN rules} \ {""}

Rule(risk) ==
  [risk |-> risk, kinds |-> {}, types |-> {}, file |-> Any, field |-> Any,
   value |-> Any, bump |-> ""]

DefaultRiskRules ==
  << [Rule("replace/destroy") EXCEPT !.kinds = {"resource"}, !.types = {"removed"}],
     [Rule("replace/destroy") EXCEPT !.kinds = {"resource"},
                                     !.field = {"availability-domain", "node-shape"}],
     [Rule("security") EXCEPT !.field = {"source", "destination", "cidr"},
                              !.value = {"0.0.0.0/0"}],
     [Rule("security") EXCEPT !.field = {"ssh"}, !.value = {"22"}],
     [Rule("cost tripwire") EXCEPT !.field = {"count", "size", "ocpu", "memory",
                                              "boot-volume", "budget", "amount"}] >>

validRiskRule(rule) ==
  /\ rule.risk # ""
  /\ rule.kinds \subseteq Kinds
  /\ rule.types \subseteq ChangeTypes
  /\ rule.bump \in {"", "major"}
  /\ Unparseable \notin {rule.file, rule.field, rule.value}

\* The rules a config file adds follow the defaults; one that is invalid fails
\* the load.
ValidateRiskRules(raw) == \A i \in DOMAIN raw : validRiskRule(raw[i])
resolveRiskRules(raw) == DefaultRiskRules \o raw

-----------------------------------------------------------------------------
(* Requests: [asOf, since, repo, facets, impacts, risks, limit]              *)

riskSlugs ==
  [r \in {"replace/destroy", "security", "cost tripwire", "major version bump"} |->
     CASE r = "replace/destroy"    -> "replace-destroy"
       [] r = "security"           -> "security"
       [] r = "cost tripwire"      -> "cost-tripwire"
       [] r = "major version bump" -> "major-version-bump"]

RiskSlugs == {riskSlugs[r] : r \in DOMAIN riskSlugs}

\* The slugs of a changeset's risks; a risk a config made up has none.
SlugsOf(risks) == {riskSlugs[r] : r \in risks \cap DOMAIN riskSlugs}

\* An allow-set: the empty one allows everything.
Allows(classes, value) == classes = {} \/ value \in classes

impactPredicate(impacts, changes) ==
  impacts = {} \/ Allows(impacts, ClassifyImpact(changes))

riskPredicate(risks, rules, changes) ==
  risks = {} \/ risks \cap SlugsOf(ClassifyRisk(changes, rules)) # {}

allPredicates(req, rules, changes) ==
  /\ impactPredicate(req.impacts, changes)
  /\ riskPredicate(req.risks, rules, changes)

\* The requested classes no rule can ever produce: what the log warns of.
unreachable(risks, rules) ==
  IF risks = {} THEN {} ELSE risks \ SlugsOf(ProducibleRisks(rules))

\* A parameter's values, [value, excluded]: a "-" before it excludes a value.
Parse(params) ==
  LET Values(k, excluded) ==
        {v.value : v \in {w \in params[k] : w.excluded = excluded}}
      Named(excluded) == {k \in DOMAIN params : Values(k, excluded) # {}}
  IN  [include |-> [k \in Named(FALSE) |-> Values(k, FALSE)],
       exclude |-> [k \in Named(TRUE) |-> Values(k, TRUE)]]

\* A row passes if it is of the repository asked for, has a value of each facet
\* that is included, and has no value that is excluded: a facet it lacks is one
\* nothing excludes.
MatchesFilter(repo, spec, row) ==
  LET facets == row.change.facets IN
  /\ repo \in {"", row.repo}
  /\ \A k \in DOMAIN spec.include : k \in DOMAIN facets /\ facets[k] \in spec.include[k]
  /\ \A k \in DOMAIN spec.exclude : k \in DOMAIN facets => facets[k] \notin spec.exclude[k]
=============================================================================
