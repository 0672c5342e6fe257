---------------------------- MODULE ChangesetPaging ----------------------------
(***************************************************************************)
(* A client pages through the changesets of a window, a request per page,  *)
(* while the poller saves changes and the risk rules are reloaded.  Each   *)
(* request is one run of Querier.Run and of Store.QueryChangesets: it      *)
(* fetches batches of commits below a seek position, assembles, keeps what *)
(* its filters accept, and stops at a full page, at the end of the commits *)
(* or when its scan budget is spent.                                       *)
(*                                                                         *)
(* A commit is known by its repository and SHA; the pages are ordered, and *)
(* their cursors point, by time and SHA alone.                             *)
(***************************************************************************)
EXTENDS ChangesetClasses

CONSTANTS
  Rows,       \* what may be saved: [repo, sha, time, change], times in seconds
  Stored,     \* the rows there from the start
  Requests,   \* what clients ask for
  RuleFiles,  \* the risk rules the config file may hold
  Instants,   \* the moments, in half seconds, at which pages are asked for
  DefaultPageSize, MaxPageSize, MaxChangesetPageSize,
  MaxChangesetScan, maxChangesetScanBatch

\* A commit has one time; the limits are positive.
ASSUME PagingAssumption ==
  /\ Stored \subseteq Rows /\ IsFiniteSet(Stored)
  /\ \A r \in Rows : r.time \in Nat /\ r.sha \in Nat
  /\ \A r, s \in Rows : r.repo = s.repo /\ r.sha = s.sha => r.time = s.time
  /\ \A r \in Requests : r.asOf \in Int /\ r.since \in Int /\ r.limit \in Int
  /\ Instants \subseteq Nat
  /\ DefaultPageSize \in Nat \ {0} /\ MaxPageSize \in Nat \ {0}
  /\ MaxChangesetPageSize \in Nat \ {0}
  /\ MaxChangesetScan \in Nat \ {0} /\ maxChangesetScanBatch \in Nat \ {0}

VARIABLES
  rows,       \* the changes table
  rules,      \* the active risk rules
  pc,         \* "idle", "loop", "examining" or "answered"
  req,        \* the request being paged through
  walk,       \* how this walk began: asOf, filter, the table; the rules it used
  ask,        \* what a page reads once: asOf, the filter parsed, the rules
  seek,       \* only what comes after it is fetched, or Top
  pending,    \* fetched and assembled changesets not examined yet
  kept,       \* the changesets of the page, at most one too many
  examined, exhausted, batch,
  page,       \* the last answer
  listed      \* the changesets of the pages of this walk

queryVars == <<ask, seek, pending, kept, examined, exhausted, batch>>
vars == <<rows, rules, pc, req, walk, queryVars, page, listed>>

-----------------------------------------------------------------------------
(* Requests *)

Default == 0 - 1000     \* the parameter was not given
Now == 0 - 1000
Unbounded == 0 - 1000

parseLimit(n) ==
  IF n = Default THEN DefaultPageSize ELSE IF n > MaxPageSize THEN MaxPageSize ELSE n

ValidRequest(r) ==
  /\ r.limit = Default \/ r.limit > 0
  /\ r.impacts \subseteq ImpactTiers
  /\ r.risks \subseteq RiskSlugs

\* Facets are the ones some row has: a parameter of another name is ignored.
reservedFacetNames == {"repo", "asOf", "cursor", "impact", "limit", "risk", "since"}
FacetOptions == UNION {DOMAIN r.change.facets : r \in rows} \ reservedFacetNames

parseFilter(r) == Parse([k \in DOMAIN r.facets \cap FacetOptions |-> r.facets[k]])

effectiveLimit ==
  LET limit == parseLimit(req.limit) IN
  IF limit <= 0 \/ limit > MaxChangesetPageSize THEN MaxChangesetPageSize ELSE limit

-----------------------------------------------------------------------------
(* The order of the pages *)

Key(x) == [time |-> x.time, sha |-> x.sha]
Top == [time |-> Unbounded, sha |-> 0]

\* Newest first, then by SHA.
Before(k, l) == k.time > l.time \/ (k.time = l.time /\ k.sha < l.sha)

AfterSeek(k) == seek = Top \/ Before(seek, k)

\* Times are compared as RFC3339Nano text, in which a whole second sorts after
\* its fractions: a bound of any fraction acts as its second.
Second(instant) == instant \div 2

InWindow(time, asOf) ==
  /\ time < Second(asOf)
  /\ req.since = Unbounded \/ time >= Second(req.since)

-----------------------------------------------------------------------------
(* One batch *)

Matching(saved, spec) == {r \in saved : MatchesFilter(req.repo, spec, r)}

\* The first n distinct keys of the rows left.
pageCommits(n) ==
  LET keys == {Key(r) : r \in {m \in Matching(rows, ask.spec) :
                                 InWindow(m.time, ask.asOf) /\ AfterSeek(Key(m))}}
  IN  {k \in keys : Cardinality({l \in keys : Before(l, k)}) < n}

\* The matching rows of those commits.
queryChangesForChangesets(n) ==
  LET commits == pageCommits(n)
  IN  {r \in Matching(rows, ask.spec) : Key(r) \in commits}

RowsOf(saved, commit) == {r \in saved : r.repo = commit.repo /\ r.sha = commit.sha}

\* Mutant: commits are told apart by their SHA only.
AssembleBySha(changes) ==
  {[repo |-> r.repo, sha |-> r.sha, time |-> r.time,
    changes |-> {c.change : c \in {d \in changes : d.sha = r.sha}}] : r \in changes}

Assemble(changes) ==
  {[repo |-> r.repo, sha |-> r.sha, time |-> r.time,
    changes |-> {c.change : c \in RowsOf(changes, r)}] : r \in changes}

\* The page of one changeset shows every row of its commit.
GetChangeset(commit) == {r.change : r \in RowsOf(rows, commit)}

Keep(cs) == allPredicates(req, ask.rules, cs.changes)

Smaller(m, n) == IF m < n THEN m ELSE n

\* Mutant: a batch may exceed what is left of the budget.
BatchOfAnySize == batch

BatchWithin == Smaller(batch, MaxChangesetScan - examined)

\* Mutant: batches grow without a cap.
GrownFreely(n) == 2 * n

Grown(n) == IF n < maxChangesetScanBatch THEN Smaller(2 * n, maxChangesetScanBatch) ELSE n

-----------------------------------------------------------------------------
(* Actions *)

\* SaveChange: a row that is there is ignored.
SaveChange(r) ==
  /\ r \notin rows
  /\ rows' = rows \cup {r}
  /\ UNCHANGED <<rules, pc, req, walk, queryVars, page, listed>>

\* The config is reloaded; one with an invalid rule is not.
ReloadRules(raw) ==
  /\ ValidateRiskRules(raw)
  /\ rules # resolveRiskRules(raw)
  /\ rules' = resolveRiskRules(raw)
  /\ UNCHANGED <<rows, pc, req, walk, queryVars, page, listed>>

NoWalk == [asOf |-> Unbounded, spec |-> <<>>, rows |-> {}, rules |-> {}]
NoAsk == [asOf |-> Unbounded, spec |-> <<>>, rules |-> <<>>]
NoPage == [sets |-> <<>>, cursor |-> Top, badges |-> <<>>, refused |-> FALSE]

\* The start of Run: the clock, the facet names and the rules are read once.
BeginPage(r, cursor, earliest) ==
  \E asOf \in IF r.asOf = Now THEN {i \in Instants : i >= earliest} ELSE {r.asOf} :
    /\ ask' = [asOf |-> asOf, spec |-> parseFilter(r), rules |-> rules]
    /\ seek' = cursor
    /\ pending' = {} /\ kept' = <<>>
    /\ examined' = 0 /\ exhausted' = FALSE
    /\ pc' = "loop"
    /\ page' = NoPage

Ask(r) ==
  /\ pc = "idle"
  /\ ValidRequest(r)
  /\ req' = r
  /\ BeginPage(r, Top, Unbounded)
  /\ batch' = effectiveLimit' + 1
  /\ walk' = [asOf |-> ask'.asOf, spec |-> ask'.spec, rows |-> rows, rules |-> {rules}]
  /\ listed' = <<>>
  /\ UNCHANGED <<rows, rules>>

Refuse(r) ==
  /\ pc = "idle" /\ page = NoPage
  /\ ~ValidRequest(r)
  /\ page' = [NoPage EXCEPT !.refused = TRUE]
  /\ UNCHANGED <<rows, rules, pc, req, walk, queryVars, listed>>

\* The client asks again with the cursor it was given.
AskNext ==
  /\ pc = "answered" /\ page.cursor # Top
  /\ BeginPage(req, page.cursor, ask.asOf)
  /\ batch' = effectiveLimit + 1
  /\ walk' = [walk EXCEPT !.rules = @ \cup {rules}]
  /\ UNCHANGED <<rows, rules, req, listed>>

Overfull == Len(kept) > effectiveLimit

\* Mutant: only a full page and the budget end the loop.
LoopUntilSpent == ~Overfull /\ examined < MaxChangesetScan

LoopGoesOn == ~Overfull /\ ~exhausted /\ examined < MaxChangesetScan

\* One SQL query, and what it assembles to.
Fetch ==
  /\ pc = "loop" /\ LoopGoesOn
  /\ LET n == BatchWithin
         sets == Assemble(queryChangesForChangesets(n))
     IN  /\ pending' = sets
         /\ exhausted' = (Cardinality(sets) < n)
         /\ batch' = Grown(n)
         /\ pc' = IF sets = {} THEN "loop" ELSE "examining"
  /\ UNCHANGED <<rows, rules, req, walk, ask, seek, kept, examined, page, listed>>

\* The next changeset of the batch is kept or dropped; what is left of a batch
\* when the page is overfull is not looked at.
Examine ==
  /\ pc = "examining"
  /\ \E cs \in pending :
       /\ \A other \in pending : ~Before(Key(other), Key(cs))
       /\ examined' = examined + 1
       /\ seek' = Key(cs)
       /\ kept' = IF Keep(cs) THEN Append(kept, cs) ELSE kept
       /\ IF Len(kept') > effectiveLimit \/ pending = {cs}
          THEN pc' = "loop" /\ pending' = {}
          ELSE pc' = "examining" /\ pending' = pending \ {cs}
  /\ UNCHANGED <<rows, rules, req, walk, ask, exhausted, batch, page, listed>>

\* Mutant: after an overfull page the next one starts behind the surplus.
CursorPastSurplus ==
  IF exhausted /\ ~Overfull THEN Top ELSE seek

\* A full page resumes at its last changeset, a page cut short by the budget at
\* the last commit examined; the last page has no cursor.
NextCursor ==
  IF Overfull THEN Key(kept[effectiveLimit])
  ELSE IF exhausted THEN Top ELSE seek

\* Mutant: the badges are rendered with the rules as they are then.
RulesNow == rules

\* The badges are rendered with the rules the filter used.
PageRules == ask.rules

Answer ==
  /\ pc = "loop" /\ ~LoopGoesOn
  /\ LET sets == IF Overfull THEN SubSeq(kept, 1, effectiveLimit) ELSE kept
     IN  /\ page' = [sets |-> sets, cursor |-> NextCursor, refused |-> FALSE,
                     badges |-> [i \in DOMAIN sets |->
                                   ClassifyRisk(sets[i].changes, PageRules)]]
         /\ listed' = listed \o sets
  /\ pc' = "answered"
  /\ UNCHANGED <<rows, rules, req, walk, queryVars>>

\* The client has what it wanted.
Leave ==
  /\ pc = "answered" \/ page.refused
  /\ pc' = "idle"
  /\ walk' = NoWalk /\ ask' = NoAsk /\ page' = NoPage
  /\ seek' = Top /\ pending' = {} /\ kept' = <<>> /\ listed' = <<>>
  /\ examined' = 0 /\ exhausted' = FALSE /\ batch' = 0
  /\ UNCHANGED <<rows, rules, req>>

QueryStep == Fetch \/ Examine \/ Answer

Init ==
  /\ rows = Stored
  /\ rules \in {resolveRiskRules(raw) : raw \in {f \in RuleFiles : ValidateRiskRules(f)}}
  /\ pc = "idle"
  /\ req \in Requests
  /\ walk = NoWalk /\ ask = NoAsk /\ page = NoPage
  /\ seek = Top /\ pending = {} /\ kept = <<>> /\ listed = <<>>
  /\ examined = 0 /\ exhausted = FALSE /\ batch = 0

Next ==
  \/ \E r \in Rows : SaveChange(r)
  \/ \E raw \in RuleFiles : ReloadRules(raw)
  \/ \E r \in Requests : Ask(r) \/ Refuse(r)
  \/ AskNext
  \/ QueryStep
  \/ Leave

\* A request once begun runs to its answer; clients owe nothing.
Spec == Init /\ [][Next]_vars /\ WF_vars(QueryStep)

-----------------------------------------------------------------------------
(* Properties *)

TypeOK ==
  /\ Stored \subseteq rows /\ rows \subseteq Rows
  /\ pc \in {"idle", "loop", "examining", "answered"}
  /\ req \in Requests
  /\ examined \in Nat /\ exhausted \in BOOLEAN
  /\ batch \in 0..(maxChangesetScanBatch + effectiveLimit)
  /\ Len(kept) <= effectiveLimit + 1
  /\ pc # "examining" => pending = {}

\* The changesets of a walk come newest first, across pages and whatever is
\* saved meanwhile, and no commit comes twice (store_changeset.go:106-109,
\* "no gaps or overlaps").  Each lists changes its own page shows too.
EachListedOnce ==
  /\ \A i, j \in DOMAIN listed :
       i < j => /\ ~Before(Key(listed[j]), Key(listed[i]))
                /\ <<listed[i].repo, listed[i].sha>> # <<listed[j].repo, listed[j].sha>>
  /\ \A i \in DOMAIN listed : listed[i].changes \subseteq GetChangeset(listed[i])

\* In the window, with the rows it had when the walk began, alone with its time
\* and SHA, and judged alike by all pages.
Settled(cs) ==
  /\ InWindow(cs.time, walk.asOf)
  /\ RowsOf(rows, cs) = RowsOf(walk.rows, cs)
  /\ \A r \in rows : Key(r) = Key(cs) => r.repo = cs.repo
  /\ \A old, new \in walk.rules :
       allPredicates(req, old, cs.changes) <=> allPredicates(req, new, cs.changes)

\* Of the commits that were there when the walk began and got no row since, the
\* walk has listed, when it ends, exactly those of the window that pass the
\* filters, each with all its matching rows: nothing is skipped at a page's
\* end, by the budget, or by commits saved in between.  Left out are commits
\* that share time and SHA with one of another repository, which a cursor
\* cannot tell from it, walks whose facets became known on the way, and
\* classes that two pages judged by different rules.
WalkIsTheListing ==
  pc = "answered" /\ page.cursor = Top /\ ask.spec = walk.spec =>
    \A cs \in Assemble(Matching(walk.rows, walk.spec)) :
      Settled(cs) => (Keep(cs) <=> \E i \in DOMAIN listed : listed[i] = cs)

\* A page holds no more than was asked for and costs no more than its budget,
\* twins of one key aside, and is short, with more to come, only when the
\* budget is spent (store_changeset.go:111-119).
PagesAreBounded ==
  LET twins == Cardinality(Assemble(rows)) - Cardinality({Key(r) : r \in rows})
  IN  pc = "answered" =>
        /\ Len(page.sets) <= effectiveLimit
        /\ examined <= MaxChangesetScan + twins
        /\ page.cursor # Top /\ Len(page.sets) < effectiveLimit =>
             examined >= MaxChangesetScan

\* Filter, badges and warning agree: what a page lists has the impact and one of
\* the risks asked for, as its own badges say, and a class the log calls
\* unreachable is on no badge, reloads in between or not (query.go:101-112,
\* api_changesets.go:121-125, risk.go:118-119).
BadgesAgreeWithFilter ==
  pc = "answered" =>
    \A i \in DOMAIN page.sets :
      LET slugs == SlugsOf(page.badges[i]) IN
      /\ req.risks # {} => req.risks \cap slugs # {}
      /\ req.impacts # {} => ClassifyImpact(page.sets[i].changes) \in req.impacts
      /\ slugs \cap unreachable(req.risks, ask.rules) = {}

\* A rule for major version bumps marks exactly the changesets of major impact
\* (risk.go:280-282, "can never disagree").
BumpsAreMajor ==
  LET rule == [Rule("major version bump") EXCEPT !.bump = "major"]
  IN  \A cs \in Assemble(rows) :
        "major version bump" \in ClassifyRisk(cs.changes, <<rule>>)
          <=> ClassifyImpact(cs.changes) = "major"

\* Every request is answered, and no walk goes on for ever: if the client never
\* leaves it, it has no page left to ask for.
WalksEnd ==
  /\ pc \in {"loop", "examining"} ~> pc = "answered"
  /\ <>[](pc # "idle") => <>[][~AskNext]_vars
=============================================================================
