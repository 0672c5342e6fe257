------------------------- MODULE ChangesetPagingProofs -------------------------
(***************************************************************************)
(* For every table, every set of requests and of rules, and every limit:   *)
(* what a page holds and costs, what its badges say, that no commit comes  *)
(* twice, and that a walk lists what it should.                            *)
(***************************************************************************)
EXTENDS ChangesetPaging, FiniteSetTheorems, SequenceTheorems, WellFoundedInduction, TLAPS

LEMMA LeastOf ==
  ASSUME NEW S \in SUBSET Nat, S # {}
  PROVE  \E i \in S : \A j \in S : i <= j
<1>1. PICK i \in S : \A j \in S : ~(<<j, i>> \in OpToRel(<, Nat))
  BY NatLessThanWellFounded, WFMin
<1>2. \A j \in S : ~(j < i)
  BY <1>1 DEF OpToRel
<1>3. \A j \in S : i <= j
  BY <1>2
<1> QED BY <1>3

-----------------------------------------------------------------------------
(* Bumps and impact *)

BumpRule == [Rule("major version bump") EXCEPT !.bump = "major"]

LEMMA MajorMove ==
  ASSUME NEW c
  PROVE  ruleMatches(BumpRule, c) <=> ClassifyChangeImpact(c) = "major"
<1>1. /\ BumpRule.kinds = {} /\ BumpRule.types = {} /\ BumpRule.bump = "major"
      /\ BumpRule.file = Any /\ BumpRule.field = Any /\ BumpRule.value = Any
  BY DEF BumpRule, Rule
<1>2. ruleMatches(BumpRule, c) <=> matchesSemverBump("major", c)
  BY <1>1 DEF ruleMatches, matchesPattern
<1>3. matchesSemverBump("major", c) <=> ClassifyChangeImpact(c) = "major"
  BY DEF matchesSemverBump, ClassifyChangeImpact
<1> QED BY <1>2, <1>3

\* The first tier that occurs names the changeset.
LEMMA FirstTier ==
  ASSUME NEW changes
  PROVE  ClassifyImpact(changes) = "major"
           <=> \E c \in changes : ClassifyChangeImpact(c) = "major"
<1> DEFINE found == {ClassifyChangeImpact(c) : c \in changes}
           ranks == {i \in DOMAIN impactRollupOrder : impactRollupOrder[i] \in found}
           first == CHOOSE i \in ranks : \A j \in ranks : i <= j
<1>1. ClassifyImpact(changes) = IF ranks = {} THEN "other" ELSE impactRollupOrder[first]
  BY DEF ClassifyImpact
<1>2. /\ ranks \subseteq 1..5
      /\ impactRollupOrder[1] = "major"
      /\ \A i \in 2..5 : impactRollupOrder[i] # "major"
      /\ 1 \in ranks <=> "major" \in found
  BY DEF impactRollupOrder
<1>3. ASSUME ranks # {}
      PROVE  first \in ranks /\ \A j \in ranks : ~(j < first)
  <2>1. ranks \in SUBSET Nat
    BY <1>2
  <2>2. \E i \in ranks : \A j \in ranks : i <= j
    <3> HIDE DEF ranks
    <3> QED BY <1>3, <2>1, LeastOf
  <2>4. first \in ranks /\ \A j \in ranks : first <= j
    BY <2>2
  <2> QED BY <1>2, <2>4
<1>4. "major" \in found <=> \E c \in changes : ClassifyChangeImpact(c) = "major"
  OBVIOUS
<1>5. CASE 1 \in ranks
  <2>1. first = 1
    <3>1. first \in 1..5 /\ ~(1 < first)
      BY <1>2, <1>3, <1>5
    <3> HIDE DEF first
    <3> QED BY <3>1
  <2> QED BY <1>1, <1>2, <1>4, <1>5, <2>1
<1>6. CASE 1 \notin ranks
  <2>1. ASSUME ranks # {}
        PROVE  first \in 2..5
    <3>1. first \in ranks /\ first \in 1..5
      BY <1>2, <1>3, <2>1
    <3>2. first # 1
      BY <1>6, <3>1
    <3> QED BY <3>1, <3>2
  <2> QED BY <1>1, <1>2, <1>4, <1>6, <2>1
<1> QED BY <1>5, <1>6

\* A rule for major version bumps and the impact of a changeset can never
\* disagree, whatever the table holds (risk.go:280-282).
THEOREM BumpsNeverDisagree == Spec => []BumpsAreMajor
<1>1. ASSUME NEW changes
      PROVE  "major version bump" \in ClassifyRisk(changes, <<BumpRule>>)
               <=> ClassifyImpact(changes) = "major"
  <2>1. BumpRule.risk = "major version bump"
    BY DEF BumpRule, Rule
  <2> DEFINE ruleList == <<BumpRule>>
  <2>2. DOMAIN ruleList = {1} /\ ruleList[1] = BumpRule
    OBVIOUS
  <2>3. "major version bump" \in ClassifyRisk(changes, ruleList)
          <=> \E c \in changes : ruleMatches(BumpRule, c)
    <3> HIDE DEF ruleList
    <3> QED BY <2>1, <2>2 DEF ClassifyRisk
  <2> QED BY <2>3, MajorMove, FirstTier
<1>2. BumpsAreMajor
  BY <1>1 DEF BumpsAreMajor, BumpRule
<1> QED BY <1>2, PTL

-----------------------------------------------------------------------------
(* What the variables hold *)

Walking == pc \in {"loop", "examining"}

Changeset ==
  [repo : {r.repo : r \in Rows}, sha : Nat, time : Nat, changes : SUBSET {r.change : r \in Rows}]

\* A changeset tells of a commit of the table and of nothing else.
OfTable(x) ==
  /\ \E r \in rows : r.repo = x.repo /\ r.sha = x.sha /\ r.time = x.time
  /\ x.changes \subseteq GetChangeset(x)

Genuine == {x \in Changeset : OfTable(x)}

TableTyped == rows \subseteq Rows /\ Stored \subseteq rows /\ IsFiniteSet(rows)

SetsTyped ==
  /\ kept \in Seq(Genuine) /\ listed \in Seq(Genuine) /\ pending \subseteq Genuine
  /\ pc # "examining" => pending = {}
  /\ Len(kept) <= effectiveLimit + 1
  /\ pc = "examining" => pending # {} /\ ~Overfull

QueryTyped ==
  /\ pc \in {"idle", "loop", "examining", "answered"}
  /\ req \in Requests
  /\ examined \in Nat /\ exhausted \in BOOLEAN
  /\ batch \in 0..(maxChangesetScanBatch + effectiveLimit)
  /\ Walking => batch > 0

Typed == TableTyped /\ SetsTyped /\ QueryTyped

LEMMA LimitIsPositive ==
  ASSUME NEW r \in Requests
  PROVE  /\ parseLimit(r.limit) \in Int
         /\ (IF parseLimit(r.limit) <= 0 \/ parseLimit(r.limit) > MaxChangesetPageSize
             THEN MaxChangesetPageSize ELSE parseLimit(r.limit)) \in Nat \ {0}
<1>1. parseLimit(r.limit) \in Int
  BY PagingAssumption DEF parseLimit
<1> QED BY <1>1, PagingAssumption

LEMMA SeqOfMore ==
  ASSUME NEW S, NEW T, S \subseteq T, NEW s \in Seq(S)
  PROVE  s \in Seq(T)
<1>1. s \in [1..Len(s) -> S] /\ Len(s) \in Nat
  OBVIOUS
<1> QED BY <1>1

\* What was told of a commit stays true when the table grows.
LEMMA GenuineGrows ==
  ASSUME rows \subseteq rows'
  PROVE  Genuine \subseteq Genuine'
<1>1. ASSUME NEW x, OfTable(x)
      PROVE  OfTable(x)'
  BY <1>1 DEF OfTable, GetChangeset, RowsOf
<1> QED BY <1>1 DEF Genuine

LEMMA SetsKept ==
  ASSUME SetsTyped, rows \subseteq rows', UNCHANGED <<kept, listed, pending, pc, req>>
  PROVE  SetsTyped'
<1>1. Genuine \subseteq Genuine'
  BY GenuineGrows
<1>2. kept' \in Seq(Genuine') /\ listed' \in Seq(Genuine')
  BY <1>1, SeqOfMore DEF SetsTyped
<1> QED BY <1>1, <1>2 DEF SetsTyped, effectiveLimit, Overfull

\* What is assembled of rows of the table: a changeset per commit, with the
\* changes of its rows.
LEMMA Assembled ==
  ASSUME TableTyped, NEW saved \in SUBSET rows, NEW x \in Assemble(saved)
  PROVE  /\ x \in Genuine
         /\ \E r \in saved : Key(r) = Key(x) /\ r.repo = x.repo
         /\ x.changes = {c.change : c \in RowsOf(saved, x)}
<1>1. PICK r \in saved :
        x = [repo |-> r.repo, sha |-> r.sha, time |-> r.time,
             changes |-> {c.change : c \in RowsOf(saved, r)}]
  BY DEF Assemble
<1>2. x.changes = {c.change : c \in RowsOf(saved, x)}
  BY <1>1 DEF RowsOf
<1>3. r \in Rows /\ r \in rows /\ saved \subseteq Rows
  BY DEF TableTyped
<1>4. x \in Changeset
  BY <1>1, <1>3, PagingAssumption DEF Changeset, RowsOf
<1>5. x.changes \subseteq GetChangeset(x)
  BY <1>2 DEF GetChangeset, RowsOf
<1> QED BY <1>1, <1>2, <1>3, <1>4, <1>5 DEF Genuine, OfTable, Key

Id(x) == <<x.repo, x.sha>>

LEMMA OnePerCommit ==
  ASSUME TableTyped, NEW saved \in SUBSET rows,
         NEW x \in Assemble(saved), NEW y \in Assemble(saved), Id(x) = Id(y)
  PROVE  x = y
<1>1. PICK r \in saved :
        x = [repo |-> r.repo, sha |-> r.sha, time |-> r.time,
             changes |-> {c.change : c \in RowsOf(saved, r)}]
  BY DEF Assemble
<1>2. PICK s \in saved :
        y = [repo |-> s.repo, sha |-> s.sha, time |-> s.time,
             changes |-> {c.change : c \in RowsOf(saved, s)}]
  BY DEF Assemble
<1>3. r.repo = s.repo /\ r.sha = s.sha
  BY <1>1, <1>2 DEF Id
<1>4. r.time = s.time
  BY <1>3, PagingAssumption DEF TableTyped
<1>5. RowsOf(saved, r) = RowsOf(saved, s)
  BY <1>3 DEF RowsOf
<1> QED BY <1>1, <1>2, <1>3, <1>4, <1>5

\* A page begins with nothing fetched and nothing kept.
LEMMA PageBegins ==
  ASSUME NEW r \in Requests, NEW cursor, NEW earliest, BeginPage(r, cursor, earliest)
  PROVE  /\ seek' = cursor /\ pending' = {} /\ kept' = <<>>
         /\ examined' = 0 /\ exhausted' = FALSE /\ pc' = "loop" /\ page' = NoPage
         /\ ask'.spec = parseFilter(r) /\ ask'.rules = rules
         /\ ask'.asOf \in Int
         /\ r.asOf # Now => ask'.asOf = r.asOf
         /\ r.asOf = Now => ask'.asOf >= earliest
<1>1. PICK asOf \in IF r.asOf = Now THEN {i \in Instants : i >= earliest} ELSE {r.asOf} :
        ask' = [asOf |-> asOf, spec |-> parseFilter(r), rules |-> rules]
  BY DEF BeginPage
<1>2. asOf \in Int
  BY PagingAssumption
<1> QED BY <1>1, <1>2 DEF BeginPage

LEMMA AskTyped ==
  ASSUME Typed, NEW r \in Requests, Ask(r)
  PROVE  Typed'
<1>1. /\ req' = r /\ batch' = effectiveLimit' + 1 /\ listed' = <<>> /\ UNCHANGED rows
      /\ pc' = "loop" /\ pending' = {} /\ kept' = <<>> /\ examined' = 0 /\ exhausted' = FALSE
  BY PageBegins DEF Ask
<1>2. PICK limit \in Nat \ {0} : effectiveLimit' = limit
  BY <1>1, LimitIsPositive DEF effectiveLimit
<1>3. batch' \in 0..(maxChangesetScanBatch + limit) /\ batch' > 0
  <2>1. maxChangesetScanBatch \in Nat \ {0}
    BY PagingAssumption
  <2>2. batch' = limit + 1
    BY <1>1, <1>2
  <2> QED BY <2>1, <2>2
<1>4. QueryTyped'
  BY <1>1, <1>2, <1>3 DEF QueryTyped
<1>5. SetsTyped'
  <2>1. kept' \in Seq(Genuine') /\ listed' \in Seq(Genuine') /\ Len(kept') = 0
    BY <1>1
  <2>2. Len(kept') <= effectiveLimit' + 1
    BY <1>2, <2>1
  <2> QED BY <1>1, <2>1, <2>2 DEF SetsTyped
<1> QED BY <1>1, <1>4, <1>5 DEF Typed, TableTyped

LEMMA AskNextTyped ==
  ASSUME Typed, AskNext
  PROVE  Typed'
<1>1. /\ batch' = effectiveLimit + 1 /\ UNCHANGED <<rows, req, listed>>
      /\ pc' = "loop" /\ pending' = {} /\ kept' = <<>> /\ examined' = 0 /\ exhausted' = FALSE
  BY PageBegins DEF AskNext, Typed, QueryTyped
<1>2. effectiveLimit' = effectiveLimit /\ effectiveLimit \in Nat \ {0}
  BY <1>1, LimitIsPositive DEF effectiveLimit, Typed, QueryTyped
<1>3. QueryTyped'
  <2>1. maxChangesetScanBatch \in Nat \ {0}
    BY PagingAssumption
  <2>2. batch' \in 0..(maxChangesetScanBatch + effectiveLimit') /\ batch' > 0
    BY <1>1, <1>2, <2>1
  <2> QED BY <1>1, <2>2 DEF QueryTyped, Typed
<1>4. Genuine' = Genuine
  BY <1>1 DEF Genuine, OfTable, GetChangeset
<1>5. SetsTyped'
  BY <1>1, <1>2, <1>4 DEF SetsTyped, Typed
<1> QED BY <1>1, <1>3, <1>5 DEF Typed, TableTyped

LEMMA FetchTyped ==
  ASSUME Typed, Fetch
  PROVE  Typed'
<1> DEFINE n == BatchWithin
           sets == Assemble(queryChangesForChangesets(n))
<1>1. /\ pc = "loop" /\ LoopGoesOn
      /\ pending' = sets /\ batch' = Grown(n)
      /\ exhausted' \in BOOLEAN
      /\ pc' = IF sets = {} THEN "loop" ELSE "examining"
      /\ UNCHANGED <<rows, req, kept, examined, listed>>
  BY DEF Fetch
<1>2. effectiveLimit' = effectiveLimit /\ effectiveLimit \in Nat \ {0} /\ Genuine' = Genuine
  BY <1>1, LimitIsPositive DEF effectiveLimit, Typed, QueryTyped, Genuine, OfTable, GetChangeset
<1>3. n \in Nat \ {0} /\ n <= batch
  BY <1>1, PagingAssumption
     DEF BatchWithin, Smaller, LoopGoesOn, Typed, QueryTyped, Walking
<1>4. Grown(n) \in Nat \ {0} /\ (Grown(n) <= n \/ Grown(n) <= maxChangesetScanBatch)
  <2> HIDE DEF n
  <2> QED BY <1>3, PagingAssumption DEF Grown, Smaller
<1>5. sets \subseteq Genuine
  <2>1. queryChangesForChangesets(n) \in SUBSET rows
    BY DEF queryChangesForChangesets, Matching
  <2> QED BY <2>1, Assembled DEF Typed
<1> HIDE DEF n, sets
<1>6. QueryTyped'
  BY <1>1, <1>2, <1>3, <1>4, PagingAssumption DEF QueryTyped, Typed, Walking
<1>7. SetsTyped'
  BY <1>1, <1>2, <1>5 DEF SetsTyped, Typed, LoopGoesOn, Overfull
<1> QED BY <1>1, <1>6, <1>7 DEF Typed, TableTyped

LEMMA ExamineTyped ==
  ASSUME Typed, Examine
  PROVE  Typed'
<1>1. PICK x \in pending :
        /\ examined' = examined + 1
        /\ kept' = IF Keep(x) THEN Append(kept, x) ELSE kept
        /\ IF Len(kept') > effectiveLimit \/ pending = {x}
           THEN pc' = "loop" /\ pending' = {}
           ELSE pc' = "examining" /\ pending' = pending \ {x}
  BY DEF Examine
<1>2. pc = "examining" /\ UNCHANGED <<rows, req, exhausted, batch, listed>>
  BY DEF Examine
<1>3. effectiveLimit' = effectiveLimit /\ effectiveLimit \in Nat \ {0} /\ Genuine' = Genuine
  BY <1>2, LimitIsPositive DEF effectiveLimit, Typed, QueryTyped, Genuine, OfTable, GetChangeset
<1>4. kept \in Seq(Genuine) /\ x \in Genuine /\ Len(kept) <= effectiveLimit
  BY <1>2, <1>3 DEF Typed, SetsTyped, Overfull
<1>5. kept' \in Seq(Genuine) /\ Len(kept') <= Len(kept) + 1
  BY <1>1, <1>4
<1>6. pc' \in {"loop", "examining"} /\ examined' \in Nat
  BY <1>1 DEF Typed, QueryTyped
<1>7. QueryTyped'
  BY <1>2, <1>3, <1>6 DEF QueryTyped, Typed, Walking
<1>8. /\ pending' \subseteq Genuine
      /\ pc' # "examining" => pending' = {}
      /\ pc' = "examining" => pending' # {} /\ ~(Len(kept') > effectiveLimit)
  BY <1>1, <1>4 DEF Typed, SetsTyped
<1>9. Len(kept') <= effectiveLimit + 1
  BY <1>3, <1>4, <1>5
<1>10. SetsTyped'
  BY <1>2, <1>3, <1>5, <1>8, <1>9 DEF SetsTyped, Overfull, Typed
<1> QED BY <1>2, <1>7, <1>10 DEF Typed, TableTyped

LEMMA TypedStep ==
  ASSUME Typed, [Next]_vars
  PROVE  Typed'
<1>1. ASSUME NEW r \in Rows, SaveChange(r)
      PROVE  Typed'
  <2>1. rows' = rows \cup {r} /\ UNCHANGED <<pc, req, walk, queryVars, page, listed>>
    BY <1>1 DEF SaveChange
  <2>2. TableTyped'
    BY <2>1, FS_AddElement DEF TableTyped, Typed
  <2>3. SetsTyped'
    BY <2>1, SetsKept DEF queryVars, Typed
  <2> QED BY <2>1, <2>2, <2>3 DEF Typed, QueryTyped, Walking, queryVars, effectiveLimit
<1>2. ASSUME UNCHANGED <<rows, pc, req, queryVars, listed>>
      PROVE  Typed'
  <2>1. SetsTyped'
    BY <1>2, SetsKept DEF queryVars, Typed
  <2> QED BY <1>2, <2>1 DEF Typed, TableTyped, QueryTyped, Walking, queryVars, effectiveLimit
<1>3. CASE Answer
  <2>1. /\ pc = "loop" /\ pc' = "answered"
        /\ UNCHANGED <<rows, req, kept, pending, examined, exhausted, batch>>
        /\ listed' = listed \o (IF Overfull THEN SubSeq(kept, 1, effectiveLimit) ELSE kept)
    BY <1>3 DEF Answer, queryVars
  <2>2. Genuine' = Genuine /\ effectiveLimit' = effectiveLimit /\ effectiveLimit \in Nat \ {0}
    BY <2>1, LimitIsPositive DEF effectiveLimit, Typed, QueryTyped, Genuine, OfTable, GetChangeset
  <2>3. kept \in Seq(Genuine) /\ listed \in Seq(Genuine)
    BY DEF Typed, SetsTyped
  <2>4. Overfull => SubSeq(kept, 1, effectiveLimit) \in Seq(Genuine)
    BY <2>2, <2>3 DEF Overfull
  <2>5. listed' \in Seq(Genuine)
    BY <2>1, <2>3, <2>4
  <2>6. SetsTyped'
    BY <2>1, <2>2, <2>5 DEF SetsTyped, Typed
  <2> QED BY <2>1, <2>2, <2>6 DEF Typed, TableTyped, QueryTyped, Walking
<1>4. CASE Leave
  <2>1. /\ pc' = "idle" /\ pending' = {} /\ kept' = <<>> /\ listed' = <<>> /\ batch' = 0
        /\ examined' = 0 /\ exhausted' = FALSE /\ UNCHANGED <<rows, req>>
    BY <1>4 DEF Leave
  <2>2. effectiveLimit' = effectiveLimit /\ effectiveLimit \in Nat \ {0}
    BY <2>1, LimitIsPositive DEF effectiveLimit, Typed, QueryTyped
  <2>3. SetsTyped'
    <3>1. kept' \in Seq(Genuine') /\ listed' \in Seq(Genuine') /\ Len(kept') = 0
      BY <2>1
    <3> QED BY <2>1, <2>2, <3>1 DEF SetsTyped
  <2>4. 0 \in 0..(maxChangesetScanBatch + effectiveLimit)
    BY <2>2, PagingAssumption
  <2> QED BY <2>1, <2>2, <2>3, <2>4 DEF Typed, TableTyped, QueryTyped, Walking
<1>5. ASSUME NEW raw, ReloadRules(raw)
      PROVE  UNCHANGED <<rows, pc, req, queryVars, listed>>
  BY <1>5 DEF ReloadRules
<1>6. ASSUME NEW r, Refuse(r)
      PROVE  UNCHANGED <<rows, pc, req, queryVars, listed>>
  BY <1>6 DEF Refuse
<1>7. CASE UNCHANGED vars
  BY <1>2, <1>7 DEF vars
<1> QED
  BY <1>1, <1>2, <1>3, <1>4, <1>5, <1>6, <1>7,
     AskTyped, AskNextTyped, FetchTyped, ExamineTyped DEF Next, QueryStep

LEMMA StartsTyped == Init => Typed
<1> SUFFICES ASSUME Init
             PROVE  Typed
  OBVIOUS
<1>1. effectiveLimit \in Nat \ {0}
  BY LimitIsPositive DEF Init, effectiveLimit
<1>2. TableTyped
  BY PagingAssumption DEF Init, TableTyped
<1>3. SetsTyped
  <2>1. kept \in Seq(Genuine) /\ listed \in Seq(Genuine) /\ Len(kept) = 0
    BY DEF Init
  <2> QED BY <1>1, <2>1 DEF Init, SetsTyped
<1>4. 0 \in 0..(maxChangesetScanBatch + effectiveLimit)
  BY <1>1, PagingAssumption
<1> QED BY <1>2, <1>3, <1>4 DEF Init, Typed, QueryTyped, Walking

\* Type correctness; a page never holds more than one changeset too many.
THEOREM PagingTyped == Spec => []TypeOK
<1>1. Typed => TypeOK
  BY DEF Typed, TableTyped, SetsTyped, QueryTyped, TypeOK
<1> QED BY <1>1, StartsTyped, TypedStep, PTL DEF Spec

-----------------------------------------------------------------------------
(* Filter and badges *)

\* Judged: what a page keeps passes the filters by the rules the page uses,
\* and so did what earlier pages of the walk listed by theirs.
JudgedPage ==
  pc = "answered" =>
    \A i \in DOMAIN page.sets :
      /\ Keep(page.sets[i])
      /\ page.badges[i] = ClassifyRisk(page.sets[i].changes, ask.rules)

JudgedWalk ==
  pc # "idle" =>
    /\ ask.rules \in walk.rules
    /\ \A i \in DOMAIN kept : Keep(kept[i])
    /\ \A i \in DOMAIN listed :
         \E ruleList \in walk.rules : allPredicates(req, ruleList, listed[i].changes)

Judged == JudgedPage /\ JudgedWalk

LEMMA JudgedStep ==
  ASSUME Typed, Judged, [Next]_vars
  PROVE  Judged'
<1>1. ASSUME UNCHANGED <<pc, req, walk, ask, kept, listed, page>>
      PROVE  Judged'
  BY <1>1 DEF Judged, JudgedPage, JudgedWalk, Keep
<1>2. ASSUME NEW r \in Requests, Ask(r)
      PROVE  Judged'
  <2>1. /\ pc' = "loop" /\ kept' = <<>> /\ listed' = <<>>
        /\ ask'.rules = rules /\ walk'.rules = {rules}
    BY <1>2, PageBegins DEF Ask
  <2> QED BY <2>1 DEF Judged, JudgedPage, JudgedWalk
<1>3. CASE AskNext
  <2>1. /\ pc = "answered" /\ pc' = "loop" /\ kept' = <<>> /\ UNCHANGED <<listed, req>>
        /\ ask'.rules = rules
    BY <1>3, PageBegins DEF AskNext, Typed, QueryTyped
  <2>2. walk' = [walk EXCEPT !.rules = @ \cup {rules}]
    BY <1>3 DEF AskNext
  <2> QED BY <2>1, <2>2 DEF Judged, JudgedPage, JudgedWalk
<1>4. CASE Fetch
  <2>1. pc = "loop" /\ pc' # "answered" /\ UNCHANGED <<req, walk, ask, kept, listed>>
    BY <1>4 DEF Fetch
  <2> QED BY <2>1 DEF Judged, JudgedPage, JudgedWalk, Keep
<1>5. CASE Examine
  <2>1. PICK x \in pending : kept' = IF Keep(x) THEN Append(kept, x) ELSE kept
    BY <1>5 DEF Examine
  <2>2. pc = "examining" /\ pc' # "answered" /\ UNCHANGED <<req, walk, ask, listed>>
    BY <1>5 DEF Examine
  <2>3. kept \in Seq(Genuine)
    BY DEF Typed, SetsTyped
  <2>4. ASSUME NEW i \in DOMAIN kept'
        PROVE  Keep(kept'[i])
    <3>1. \/ i \in DOMAIN kept /\ kept'[i] = kept[i]
          \/ Keep(x) /\ kept'[i] = x
      BY <2>1, <2>3
    <3> QED BY <2>2, <3>1 DEF Judged, JudgedWalk
  <2>5. \A y : Keep(y)' <=> Keep(y)
    BY <2>2 DEF Keep
  <2> QED BY <2>2, <2>4, <2>5 DEF Judged, JudgedPage, JudgedWalk
<1>6. CASE Answer
  <2> DEFINE sets == IF Overfull THEN SubSeq(kept, 1, effectiveLimit) ELSE kept
  <2>1. /\ pc = "loop" /\ UNCHANGED <<req, walk, ask, kept>>
        /\ page'.sets = sets /\ listed' = listed \o sets
        /\ page'.badges = [i \in DOMAIN sets |-> ClassifyRisk(sets[i].changes, ask.rules)]
    BY <1>6 DEF Answer, queryVars, PageRules
  <2>2. kept \in Seq(Genuine) /\ listed \in Seq(Genuine) /\ effectiveLimit \in Nat \ {0}
    BY LimitIsPositive DEF Typed, SetsTyped, QueryTyped, effectiveLimit
  <2>3. sets \in Seq(Genuine) /\ \A i \in DOMAIN sets : i \in DOMAIN kept /\ sets[i] = kept[i]
    BY <2>2 DEF Overfull
  <2> HIDE DEF sets
  <2>4. \A i \in DOMAIN sets : Keep(sets[i])
    BY <2>1, <2>3 DEF Judged, JudgedWalk
  <2>5. ASSUME NEW i \in DOMAIN listed'
        PROVE  \E ruleList \in walk.rules : allPredicates(req, ruleList, listed'[i].changes)
    <3>1. \/ i \in DOMAIN listed /\ listed'[i] = listed[i]
          \/ \E j \in DOMAIN sets : listed'[i] = sets[j]
      BY <2>1, <2>2, <2>3
    <3> QED BY <2>1, <2>4, <3>1 DEF Judged, JudgedWalk, Keep
  <2>6. JudgedWalk'
    BY <2>1, <2>5 DEF Judged, JudgedWalk, Keep
  <2>7. JudgedPage'
    BY <2>1, <2>4 DEF JudgedPage, Keep
  <2> QED BY <2>6, <2>7 DEF Judged
<1>7. CASE Leave
  BY <1>7 DEF Leave, Judged, JudgedPage, JudgedWalk
<1>8. ASSUME NEW r, SaveChange(r)
      PROVE  UNCHANGED <<pc, req, walk, ask, kept, listed, page>>
  BY <1>8 DEF SaveChange, queryVars
<1>9. ASSUME NEW raw, ReloadRules(raw)
      PROVE  UNCHANGED <<pc, req, walk, ask, kept, listed, page>>
  BY <1>9 DEF ReloadRules, queryVars
<1>10. ASSUME NEW r, Refuse(r)
       PROVE  Judged'
  BY <1>10 DEF Refuse, Judged, JudgedPage, JudgedWalk
<1>11. CASE UNCHANGED vars
  BY <1>1, <1>11 DEF vars, queryVars
<1> QED
  BY <1>1, <1>2, <1>3, <1>4, <1>5, <1>6, <1>7, <1>8, <1>9, <1>10, <1>11
     DEF Next, QueryStep

\* The slug of a risk some rule gives is the slug of a risk some rule can give.
LEMMA ShownIsProducible ==
  ASSUME NEW changes, NEW ruleList
  PROVE  SlugsOf(ClassifyRisk(changes, ruleList)) \subseteq SlugsOf(ProducibleRisks(ruleList))
<1>1. "" \notin DOMAIN riskSlugs
  BY DEF riskSlugs
<1> QED BY <1>1 DEF SlugsOf, ClassifyRisk, ProducibleRisks

LEMMA JudgedAgrees ==
  ASSUME Judged
  PROVE  BadgesAgreeWithFilter
<1> SUFFICES ASSUME pc = "answered", NEW i \in DOMAIN page.sets
             PROVE  LET slugs == SlugsOf(page.badges[i]) IN
                    /\ req.risks # {} => req.risks \cap slugs # {}
                    /\ req.impacts # {} => ClassifyImpact(page.sets[i].changes) \in req.impacts
                    /\ slugs \cap unreachable(req.risks, ask.rules) = {}
  BY DEF BadgesAgreeWithFilter
<1> DEFINE changes == page.sets[i].changes
           slugs == SlugsOf(page.badges[i])
<1>1. allPredicates(req, ask.rules, changes)
  BY DEF Judged, JudgedPage, Keep
<1>2. slugs = SlugsOf(ClassifyRisk(changes, ask.rules))
  BY DEF Judged, JudgedPage
<1>3. req.risks # {} => req.risks \cap slugs # {}
  BY <1>1, <1>2 DEF allPredicates, riskPredicate
<1>4. req.impacts # {} => ClassifyImpact(changes) \in req.impacts
  BY <1>1 DEF allPredicates, impactPredicate, Allows
<1>5. slugs \cap unreachable(req.risks, ask.rules) = {}
  BY <1>2, ShownIsProducible DEF unreachable
<1> QED BY <1>3, <1>4, <1>5

\* Whatever rules are reloaded while a page is put together or read, its badges
\* say what its filters kept it for (query.go:101-112, api_changesets.go:121-125).
THEOREM BadgesTellTheFilter == Spec => []BadgesAgreeWithFilter
<1> DEFINE Inv == Typed /\ Judged
<1>1. Init => Judged
  BY DEF Init, Judged, JudgedPage, JudgedWalk
<1>2. Inv /\ [Next]_vars => Inv'
  BY TypedStep, JudgedStep
<1>3. Inv => BadgesAgreeWithFilter
  BY JudgedAgrees
<1> QED BY <1>1, <1>2, <1>3, StartsTyped, PTL DEF Spec

-----------------------------------------------------------------------------
(* The order of the pages *)

KeySet == [time : Int, sha : Nat]

Elements(s) == {s[i] : i \in DOMAIN s}

LEMMA BeforeIsOrder ==
  ASSUME NEW k \in KeySet, NEW l \in KeySet, NEW m \in KeySet
  PROVE  /\ ~Before(k, k)
         /\ Before(k, l) => ~Before(l, k)
         /\ k = l \/ Before(k, l) \/ Before(l, k)
         /\ ~Before(l, k) /\ Before(l, m) => Before(k, m)
         /\ Before(k, l) /\ ~Before(m, l) => Before(k, m)
         /\ ~Before(l, k) /\ ~Before(m, l) => ~Before(m, k)
  BY DEF Before, KeySet

LEMMA KeysTyped ==
  ASSUME NEW x \in Genuine
  PROVE  /\ Key(x) \in KeySet /\ Key(x) # Top
         /\ Key(x).time = x.time /\ Key(x).sha = x.sha
  BY DEF Genuine, Changeset, Key, KeySet, Top, Unbounded

LEMMA SameCommit ==
  ASSUME TableTyped, NEW x \in Genuine, NEW y \in Genuine, Id(x) = Id(y)
  PROVE  Key(x) = Key(y)
<1>1. PICK r \in rows : r.repo = x.repo /\ r.sha = x.sha /\ r.time = x.time
  BY DEF Genuine, OfTable
<1>2. PICK s \in rows : s.repo = y.repo /\ s.sha = y.sha /\ s.time = y.time
  BY DEF Genuine, OfTable
<1>3. r.repo = s.repo /\ r.sha = s.sha
  BY <1>1, <1>2 DEF Id
<1>4. r.time = s.time
  BY <1>3, PagingAssumption DEF TableTyped
<1> QED BY <1>1, <1>2, <1>3, <1>4 DEF Key

Ordered(s) ==
  \A i, j \in DOMAIN s : i < j => ~Before(Key(s[j]), Key(s[i])) /\ Id(s[i]) # Id(s[j])

\* While a page is put together, what earlier pages listed comes before what
\* it keeps, that not after what is pending, and the seek position between.
OnPage ==
  /\ seek \in KeySet
  /\ Ordered(kept)
  /\ \A p, q \in pending : Id(p) = Id(q) => p = q
  /\ \A x \in Elements(kept), p \in pending : ~Before(Key(p), Key(x)) /\ Id(p) # Id(x)
  /\ \A x \in Elements(listed), y \in Elements(kept) \cup pending : Before(Key(x), Key(y))
  /\ \A x \in Elements(listed) \cup Elements(kept) : seek # Top /\ ~Before(seek, Key(x))
  /\ \A p \in pending : seek = Top \/ ~Before(Key(p), seek)

InOrder ==
  /\ Ordered(listed)
  /\ Walking => OnPage
  /\ pc = "answered" /\ page.cursor # Top =>
       /\ page.cursor \in KeySet
       /\ \A x \in Elements(listed) : ~Before(page.cursor, Key(x))

LEMMA SetsAreGenuine ==
  ASSUME Typed
  PROVE  /\ \A x \in Elements(kept) \cup Elements(listed) \cup pending : x \in Genuine
         /\ \A i \in DOMAIN kept : kept[i] \in Genuine
         /\ \A i \in DOMAIN listed : listed[i] \in Genuine
  BY DEF Typed, SetsTyped, Elements

\* Every changeset of a batch is assembled of rows behind the seek position.
LEMMA FetchedAfterSeek ==
  ASSUME Typed, NEW n, NEW p \in Assemble(queryChangesForChangesets(n))
  PROVE  p \in Genuine /\ Key(p) \in pageCommits(n) /\ AfterSeek(Key(p))
<1> DEFINE saved == queryChangesForChangesets(n)
<1>1. saved \in SUBSET rows
  BY DEF queryChangesForChangesets, Matching
<1>2. \A r \in saved : Key(r) \in pageCommits(n)
  BY DEF queryChangesForChangesets
<1>3. \A k \in pageCommits(n) : AfterSeek(k)
  BY DEF pageCommits
<1>4. TableTyped
  BY DEF Typed
<1> HIDE DEF saved
<1>5. p \in Genuine /\ \E r \in saved : Key(r) = Key(p)
  BY <1>1, <1>4, Assembled DEF saved
<1> QED BY <1>2, <1>3, <1>5

LEMMA FetchInOrder ==
  ASSUME Typed, InOrder, Fetch
  PROVE  InOrder'
<1> DEFINE saved == queryChangesForChangesets(BatchWithin)
           sets == Assemble(saved)
<1>1. /\ pc = "loop" /\ pc' \in {"loop", "examining"} /\ pending' = sets
      /\ UNCHANGED <<seek, kept, listed>>
  BY DEF Fetch
<1>2. OnPage
  BY <1>1 DEF InOrder, Walking
<1>3. saved \in SUBSET rows
  BY DEF queryChangesForChangesets, Matching
<1>4. \A p, q \in sets : Id(p) = Id(q) => p = q
  BY <1>3, OnePerCommit DEF Typed
<1>5. \A p \in sets : p \in Genuine /\ Key(p) \in KeySet /\ (seek = Top \/ Before(seek, Key(p)))
  BY FetchedAfterSeek, KeysTyped DEF AfterSeek
<1> HIDE DEF sets
<1>6. \A x \in Elements(kept) \cup Elements(listed) : x \in Genuine /\ Key(x) \in KeySet
  BY SetsAreGenuine, KeysTyped
<1>7. seek \in KeySet
  BY <1>2 DEF OnPage
<1>8. ASSUME NEW x \in Elements(kept) \cup Elements(listed), NEW p \in sets
      PROVE  Before(Key(x), Key(p)) /\ ~Before(Key(p), Key(x)) /\ Id(p) # Id(x)
  <2>1. ~Before(seek, Key(x)) /\ Before(seek, Key(p))
    BY <1>2, <1>5 DEF OnPage
  <2>2. Before(Key(x), Key(p)) /\ ~Before(Key(p), Key(x)) /\ Key(p) # Key(x)
    BY <1>5, <1>6, <1>7, <2>1, BeforeIsOrder
  <2> QED BY <1>5, <1>6, <2>2, SameCommit DEF Typed
<1>9. \A p \in sets : seek = Top \/ ~Before(Key(p), seek)
  BY <1>5, <1>7, BeforeIsOrder
<1>10. OnPage'
  <2>1. \A x \in Elements(listed), y \in Elements(kept) : Before(Key(x), Key(y))
    BY <1>2 DEF OnPage
  <2> QED BY <1>1, <1>2, <1>4, <1>8, <1>9, <2>1 DEF OnPage
<1> QED BY <1>1, <1>10 DEF InOrder

LEMMA ExamineInOrder ==
  ASSUME Typed, InOrder, Examine
  PROVE  InOrder'
<1>1. PICK x \in pending :
        /\ \A p \in pending : ~Before(Key(p), Key(x))
        /\ seek' = Key(x)
        /\ kept' = IF Keep(x) THEN Append(kept, x) ELSE kept
        /\ pc' \in {"loop", "examining"} /\ pending' \subseteq pending \ {x}
  BY DEF Examine
<1>2. pc = "examining" /\ UNCHANGED listed
  BY DEF Examine
<1>3. OnPage
  BY <1>2 DEF InOrder, Walking
<1>4. /\ \A y \in Elements(kept) \cup Elements(listed) \cup pending :
           y \in Genuine /\ Key(y) \in KeySet /\ Key(y) # Top
      /\ kept \in Seq(Genuine)
  BY SetsAreGenuine, KeysTyped DEF Typed, SetsTyped
<1>5. \A i \in DOMAIN kept' :
        \/ i \in DOMAIN kept /\ kept'[i] = kept[i]
        \/ i = Len(kept) + 1 /\ kept'[i] = x
  BY <1>1, <1>4
<1>6. Elements(kept') \subseteq Elements(kept) \cup {x}
  BY <1>5 DEF Elements
<1>7. Ordered(kept')
  <2> SUFFICES ASSUME NEW i \in DOMAIN kept', NEW j \in DOMAIN kept', i < j
               PROVE  ~Before(Key(kept'[j]), Key(kept'[i])) /\ Id(kept'[i]) # Id(kept'[j])
    BY DEF Ordered
  <2>1. i \in DOMAIN kept /\ kept'[i] = kept[i]
    <3>1. DOMAIN kept' \subseteq 1..(Len(kept) + 1) /\ Len(kept) \in Nat
      BY <1>1, <1>4
    <3> QED BY <1>5, <3>1
  <2>2. CASE j \in DOMAIN kept /\ kept'[j] = kept[j]
    BY <1>3, <2>1, <2>2 DEF OnPage, Ordered
  <2>3. CASE kept'[j] = x
    <3>1. kept[i] \in Elements(kept)
      BY <2>1 DEF Elements
    <3> QED BY <1>3, <2>1, <2>3, <3>1 DEF OnPage
  <2> QED BY <1>5, <2>2, <2>3
<1>8. ASSUME NEW y \in Elements(kept) \cup Elements(listed) \cup {x}
      PROVE  seek' # Top /\ ~Before(seek', Key(y))
  <2>1. CASE y \in Elements(listed)
    <3>1. Before(Key(y), Key(x))
      BY <1>3, <2>1 DEF OnPage
    <3> QED BY <1>1, <1>4, <2>1, <3>1, BeforeIsOrder
  <2>2. CASE y \in Elements(kept)
    BY <1>1, <1>3, <1>4, <2>2 DEF OnPage
  <2>3. CASE y = x
    BY <1>1, <1>4, <2>3, BeforeIsOrder
  <2> QED BY <2>1, <2>2, <2>3
<1>9. ASSUME NEW y \in Elements(kept'), NEW p \in pending'
      PROVE  ~Before(Key(p), Key(y)) /\ Id(p) # Id(y)
  <2>1. p \in pending /\ p # x
    BY <1>1
  <2>2. CASE y = x
    BY <1>1, <1>3, <2>1, <2>2 DEF OnPage
  <2>3. CASE y \in Elements(kept)
    BY <1>3, <2>1, <2>3 DEF OnPage
  <2> QED BY <1>6, <2>2, <2>3
<1>10. OnPage'
  <2>1. seek' \in KeySet
    BY <1>1, <1>4
  <2>2. \A p, q \in pending' : Id(p) = Id(q) => p = q
    BY <1>1, <1>3 DEF OnPage
  <2>3. \A y \in Elements(listed), z \in Elements(kept') \cup pending' : Before(Key(y), Key(z))
    BY <1>1, <1>3, <1>6 DEF OnPage
  <2>4. \A p \in pending' : ~Before(Key(p), seek')
    BY <1>1
  <2> QED BY <1>2, <1>6, <1>7, <1>8, <1>9, <2>1, <2>2, <2>3, <2>4 DEF OnPage
<1> QED BY <1>1, <1>2, <1>10 DEF InOrder

\* What an answer adds to the walk: a prefix of what the page kept.
LEMMA AnswerLists ==
  ASSUME Typed, Answer
  PROVE  \E n \in 0..Len(kept) :
           /\ listed' \in Seq(Genuine) /\ Len(listed') = Len(listed) + n
           /\ \A i \in 1..Len(listed) : listed'[i] = listed[i]
           /\ \A i \in 1..n : listed'[Len(listed) + i] = kept[i]
           /\ n = IF Overfull THEN effectiveLimit ELSE Len(kept)
<1> DEFINE sets == IF Overfull THEN SubSeq(kept, 1, effectiveLimit) ELSE kept
           n == IF Overfull THEN effectiveLimit ELSE Len(kept)
<1>1. listed' = listed \o sets
  BY DEF Answer
<1>2. kept \in Seq(Genuine) /\ listed \in Seq(Genuine) /\ effectiveLimit \in Nat \ {0}
  BY LimitIsPositive DEF Typed, SetsTyped, QueryTyped, effectiveLimit
<1>3. /\ sets \in Seq(Genuine) /\ n \in 0..Len(kept) /\ Len(sets) = n
      /\ \A i \in 1..n : sets[i] = kept[i]
  BY <1>2 DEF Overfull
<1> HIDE DEF sets, n
<1>4. /\ listed' \in Seq(Genuine)
      /\ Len(listed') = Len(listed) + n
      /\ \A i \in 1..Len(listed') :
           listed'[i] = IF i <= Len(listed) THEN listed[i] ELSE sets[i - Len(listed)]
  <2> DEFINE both == listed \o sets
  <2>1. /\ both \in Seq(Genuine)
        /\ Len(both) = Len(listed) + Len(sets)
        /\ \A i \in 1..(Len(listed) + Len(sets)) :
             both[i] = IF i <= Len(listed) THEN listed[i] ELSE sets[i - Len(listed)]
    BY <1>2, <1>3, ConcatProperties, Zenon
  <2>2. listed' = both
    BY <1>1
  <2> HIDE DEF both
  <2> QED BY <1>3, <2>1, <2>2
<1>5. \A i \in 1..Len(listed) : listed'[i] = listed[i]
  BY <1>2, <1>3, <1>4
<1>6. ASSUME NEW i \in 1..n
      PROVE  listed'[Len(listed) + i] = kept[i]
  <2>1. Len(listed) \in Nat /\ n \in Nat
    BY <1>2, <1>3
  <2> DEFINE j == Len(listed) + i
  <2>2. j \in 1..Len(listed') /\ ~(j <= Len(listed)) /\ j - Len(listed) = i
    BY <1>4, <2>1
  <2> HIDE DEF j
  <2>3. listed'[j] = sets[i]
    BY <1>4, <2>2
  <2> QED BY <1>3, <2>3 DEF j
<1> QED BY <1>3, <1>4, <1>5, <1>6 DEF n

LEMMA AnswerInOrder ==
  ASSUME Typed, InOrder, Answer
  PROVE  InOrder'
<1>1. pc = "loop" /\ pc' = "answered" /\ page'.cursor = NextCursor
  BY DEF Answer
<1>2. OnPage /\ Ordered(listed)
  BY <1>1 DEF InOrder, Walking
<1>3. PICK n \in 0..Len(kept) :
        /\ listed' \in Seq(Genuine) /\ Len(listed') = Len(listed) + n
        /\ \A i \in 1..Len(listed) : listed'[i] = listed[i]
        /\ \A i \in 1..n : listed'[Len(listed) + i] = kept[i]
        /\ n = IF Overfull THEN effectiveLimit ELSE Len(kept)
  BY AnswerLists
<1>4. /\ kept \in Seq(Genuine) /\ listed \in Seq(Genuine)
      /\ Len(kept) \in Nat /\ Len(listed) \in Nat
      /\ DOMAIN kept = 1..Len(kept) /\ DOMAIN listed = 1..Len(listed)
      /\ DOMAIN listed' = 1..(Len(listed) + n)
  BY <1>3 DEF Typed, SetsTyped
<1>10. /\ effectiveLimit \in Nat \ {0}
       /\ Overfull => n = effectiveLimit /\ n < Len(kept)
  BY <1>3, LimitIsPositive DEF Overfull, effectiveLimit, Typed, QueryTyped
<1>5. ASSUME NEW i \in DOMAIN listed'
      PROVE  \/ i \in DOMAIN listed /\ listed'[i] = listed[i]
             \/ \E k \in 1..n : i = Len(listed) + k /\ k \in DOMAIN kept /\ listed'[i] = kept[k]
  <2>0. i \in 1..(Len(listed) + n) /\ n \in Nat /\ n <= Len(kept)
    BY <1>4
  <2>1. CASE i <= Len(listed)
    <3>1. i \in 1..Len(listed)
      BY <1>4, <2>0, <2>1
    <3> QED BY <1>3, <1>4, <3>1
  <2>2. CASE i > Len(listed)
    <3> DEFINE k == i - Len(listed)
    <3>1. k \in 1..n /\ i = Len(listed) + k
      BY <1>4, <2>0, <2>2
    <3>2. k \in DOMAIN kept
      BY <1>4, <2>0, <3>1
    <3> HIDE DEF k
    <3> QED BY <1>3, <3>1, <3>2
  <2> QED BY <1>4, <2>0, <2>1, <2>2
<1>6. /\ \A i \in DOMAIN kept : /\ kept[i] \in Genuine /\ Key(kept[i]) \in KeySet
                                /\ kept[i] \in Elements(kept)
      /\ \A i \in DOMAIN listed : /\ listed[i] \in Genuine /\ Key(listed[i]) \in KeySet
                                  /\ listed[i] \in Elements(listed)
  BY SetsAreGenuine, KeysTyped DEF Elements
<1>7. Ordered(listed')
  <2> SUFFICES ASSUME NEW i \in DOMAIN listed', NEW j \in DOMAIN listed', i < j
               PROVE  /\ ~Before(Key(listed'[j]), Key(listed'[i]))
                      /\ Id(listed'[i]) # Id(listed'[j])
    BY DEF Ordered
  <2>1. CASE i \in DOMAIN listed /\ j \in DOMAIN listed
    BY <1>2, <1>3, <1>4, <2>1 DEF Ordered
  <2>2. ASSUME i \in DOMAIN listed,
               NEW l \in 1..n, j = Len(listed) + l, l \in DOMAIN kept, listed'[j] = kept[l]
        PROVE  /\ ~Before(Key(listed'[j]), Key(listed'[i]))
               /\ Id(listed'[i]) # Id(listed'[j])
    <3>1. listed'[i] = listed[i]
      BY <1>3, <1>4, <2>2
    <3>2. Before(Key(listed[i]), Key(kept[l]))
      BY <1>2, <1>6, <2>2 DEF OnPage
    <3>3. ~Before(Key(kept[l]), Key(listed[i])) /\ Key(listed[i]) # Key(kept[l])
      BY <1>6, <2>2, <3>2, BeforeIsOrder
    <3>4. Id(listed[i]) # Id(kept[l])
      BY <1>6, <2>2, <3>3, SameCommit DEF Typed
    <3> QED BY <2>2, <3>1, <3>3, <3>4
  <2>3. ASSUME NEW k \in 1..n, i = Len(listed) + k, k \in DOMAIN kept, listed'[i] = kept[k]
        PROVE  /\ ~Before(Key(listed'[j]), Key(listed'[i]))
               /\ Id(listed'[i]) # Id(listed'[j])
    <3>1. PICK l \in 1..n : j = Len(listed) + l /\ l \in DOMAIN kept /\ listed'[j] = kept[l]
      BY <1>4, <1>5, <2>3
    <3>2. k < l
      BY <1>4, <2>3, <3>1
    <3> QED BY <1>2, <2>3, <3>1, <3>2 DEF OnPage, Ordered
  <2> QED BY <1>5, <2>1, <2>2, <2>3
<1>8. ASSUME page'.cursor # Top, NEW i \in DOMAIN listed'
      PROVE  page'.cursor \in KeySet /\ ~Before(page'.cursor, Key(listed'[i]))
  <2>1. CASE Overfull
    <3>1. n \in DOMAIN kept /\ page'.cursor = Key(kept[n])
      <4>1. n = effectiveLimit /\ n \in 1..Len(kept)
        BY <1>4, <1>10, <2>1
      <4> QED BY <1>1, <1>4, <2>1, <4>1 DEF NextCursor
    <3>2. ASSUME NEW k \in 1..n
          PROVE  ~Before(Key(kept[n]), Key(kept[k]))
      <4>1. k \in DOMAIN kept
        BY <1>4
      <4>2. CASE k < n
        BY <1>2, <3>1, <4>1, <4>2 DEF OnPage, Ordered
      <4>3. CASE k = n
        BY <1>6, <3>1, <4>3, BeforeIsOrder
      <4> QED BY <4>2, <4>3
    <3>3. ASSUME i \in DOMAIN listed
          PROVE  ~Before(Key(kept[n]), Key(listed[i]))
      <4>1. Before(Key(listed[i]), Key(kept[n]))
        BY <1>2, <1>6, <3>1, <3>3 DEF OnPage
      <4> QED BY <1>6, <3>1, <3>3, <4>1, BeforeIsOrder
    <3> QED BY <1>5, <1>6, <3>1, <3>2, <3>3
  <2>2. CASE ~Overfull
    <3>1. page'.cursor = seek
      BY <1>1, <1>8, <2>2 DEF NextCursor
    <3>2. listed'[i] \in Elements(listed) \cup Elements(kept)
      BY <1>5, <1>6
    <3> QED BY <1>2, <3>1, <3>2 DEF OnPage
  <2> QED BY <2>1, <2>2
<1>9. ASSUME page'.cursor # Top
      PROVE  page'.cursor \in KeySet
  <2>1. CASE Overfull
    <3>1. effectiveLimit \in DOMAIN kept /\ page'.cursor = Key(kept[effectiveLimit])
      <4>1. effectiveLimit \in 1..Len(kept)
        BY <1>4, <1>10, <2>1
      <4> QED BY <1>1, <1>4, <2>1, <4>1 DEF NextCursor
    <3> QED BY <1>6, <3>1
  <2>2. CASE ~Overfull
    BY <1>1, <1>2, <1>9, <2>2 DEF NextCursor, OnPage
  <2> QED BY <2>1, <2>2
<1> QED BY <1>1, <1>7, <1>8, <1>9 DEF InOrder, Walking, Elements

LEMMA InOrderStep ==
  ASSUME Typed, InOrder, [Next]_vars
  PROVE  InOrder'
<1>1. ASSUME UNCHANGED <<pc, seek, pending, kept, listed, page>>
      PROVE  InOrder'
  BY <1>1 DEF InOrder, OnPage, Walking
<1>2. ASSUME NEW r \in Requests, Ask(r)
      PROVE  InOrder'
  <2>1. /\ pc' = "loop" /\ pending' = {} /\ kept' = <<>> /\ listed' = <<>> /\ seek' = Top
    BY <1>2, PageBegins DEF Ask
  <2>2. Ordered(listed') /\ Ordered(kept') /\ Elements(listed') = {} /\ Elements(kept') = {}
    BY <2>1 DEF Ordered, Elements
  <2>3. Top \in KeySet
    BY DEF Top, Unbounded, KeySet
  <2> QED BY <2>1, <2>2, <2>3 DEF InOrder, OnPage
<1>3. CASE AskNext
  <2>1. /\ pc = "answered" /\ pc' = "loop" /\ pending' = {} /\ kept' = <<>> /\ UNCHANGED listed
        /\ page.cursor # Top /\ seek' = page.cursor
    BY <1>3, PageBegins DEF AskNext, Typed, QueryTyped
  <2>2. Ordered(kept') /\ Elements(kept') = {}
    BY <2>1 DEF Ordered, Elements
  <2> QED BY <2>1, <2>2 DEF InOrder, OnPage
<1>4. CASE Leave
  <2>1. pc' = "idle" /\ listed' = <<>>
    BY <1>4 DEF Leave
  <2> QED BY <2>1 DEF InOrder, Ordered, Walking
<1>5. ASSUME NEW r, SaveChange(r)
      PROVE  UNCHANGED <<pc, seek, pending, kept, listed, page>>
  BY <1>5 DEF SaveChange, queryVars
<1>6. ASSUME NEW raw, ReloadRules(raw)
      PROVE  UNCHANGED <<pc, seek, pending, kept, listed, page>>
  BY <1>6 DEF ReloadRules, queryVars
<1>7. ASSUME NEW r, Refuse(r)
      PROVE  InOrder'
  BY <1>7 DEF Refuse, queryVars, InOrder, Walking
<1>8. CASE UNCHANGED vars
  BY <1>1, <1>8 DEF vars, queryVars
<1> QED
  BY <1>1, <1>2, <1>3, <1>4, <1>5, <1>6, <1>7, <1>8,
     FetchInOrder, ExamineInOrder, AnswerInOrder DEF Next, QueryStep

LEMMA OrderListsOnce ==
  ASSUME Typed, InOrder
  PROVE  EachListedOnce
<1>1. \A i \in DOMAIN listed : listed[i].changes \subseteq GetChangeset(listed[i])
  BY SetsAreGenuine DEF Genuine, OfTable
<1> QED BY <1>1 DEF EachListedOnce, InOrder, Ordered, Id

\* Whatever is saved while a client pages, and wherever a page ends, the
\* changesets come newest first and no commit twice (store_changeset.go:106-109).
THEOREM ListedOnce == Spec => []EachListedOnce
<1> DEFINE Inv == Typed /\ InOrder
<1>1. Init => InOrder
  BY DEF Init, InOrder, Ordered, Walking
<1>2. Inv /\ [Next]_vars => Inv'
  BY TypedStep, InOrderStep
<1>3. Inv => EachListedOnce
  BY OrderListsOnce
<1> QED BY <1>1, <1>2, <1>3, StartsTyped, PTL DEF Spec

-----------------------------------------------------------------------------
(* Counting *)

LEMMA ImageIsFinite ==
  ASSUME NEW S, IsFiniteSet(S), NEW T, NEW f \in [S -> T], \A y \in T : \E x \in S : f[x] = y
  PROVE  IsFiniteSet(T) /\ Cardinality(T) <= Cardinality(S)
<1>1. f \in Surjection(S, T)
  BY DEF Surjection
<1> QED BY <1>1, FS_Surjection

LEMMA KeysAreFinite ==
  ASSUME NEW S, IsFiniteSet(S)
  PROVE  LET keys == {Key(x) : x \in S} IN
         /\ IsFiniteSet(keys) /\ Cardinality(keys) \in Nat
         /\ Cardinality(S) \in Nat /\ Cardinality(keys) <= Cardinality(S)
<1> DEFINE keys == {Key(x) : x \in S}
           f == [x \in S |-> Key(x)]
<1>1. f \in [S -> keys] /\ \A y \in keys : \E x \in S : f[x] = y
  OBVIOUS
<1> HIDE DEF keys, f
<1>2. IsFiniteSet(keys) /\ Cardinality(keys) <= Cardinality(S)
  BY <1>1, ImageIsFinite
<1> QED BY <1>2, FS_CardinalityType DEF keys

LEMMA AssembledIsFinite ==
  ASSUME NEW S, IsFiniteSet(S)
  PROVE  IsFiniteSet(Assemble(S))
<1> DEFINE f == [r \in S |-> [repo |-> r.repo, sha |-> r.sha, time |-> r.time,
                              changes |-> {c.change : c \in RowsOf(S, r)}]]
<1>1. f \in [S -> Assemble(S)] /\ \A y \in Assemble(S) : \E x \in S : f[x] = y
  BY DEF Assemble
<1> HIDE DEF f
<1> QED BY <1>1, ImageIsFinite

Rank(keys, k) == Cardinality({l \in keys : Before(l, k)})
FirstOf(keys, n) == {k \in keys : Rank(keys, k) < n}

LEMMA RankGrows ==
  ASSUME NEW keys \in SUBSET KeySet, IsFiniteSet(keys), NEW k \in keys, NEW l \in keys
  PROVE  /\ Rank(keys, k) \in Nat
         /\ Before(l, k) => Rank(keys, l) < Rank(keys, k)
<1> DEFINE below(m) == {j \in keys : Before(j, m)}
<1>1. ASSUME NEW m \in keys
      PROVE  IsFiniteSet(below(m)) /\ Cardinality(below(m)) \in Nat
  <2>1. below(m) \in SUBSET keys
    OBVIOUS
  <2> HIDE DEF below
  <2> QED BY <2>1, FS_Subset, FS_CardinalityType
<1>2. ASSUME Before(l, k)
      PROVE  Cardinality(below(l)) < Cardinality(below(k))
  <2>1. below(l) \in SUBSET below(k)
    BY <1>2, BeforeIsOrder
  <2>2. l \in below(k) /\ l \notin below(l)
    BY <1>2, BeforeIsOrder
  <2> HIDE DEF below
  <2>3. /\ Cardinality(below(l)) <= Cardinality(below(k))
        /\ Cardinality(below(k)) = Cardinality(below(l)) => below(k) = below(l)
    BY <1>1, <2>1, FS_Subset
  <2> QED BY <1>1, <2>2, <2>3
<1> QED BY <1>1, <1>2 DEF Rank

\* The first n keys are at most n, less only if they are all, and nothing is
\* before them but them.
LEMMA FirstKeys ==
  ASSUME NEW keys \in SUBSET KeySet, IsFiniteSet(keys), NEW n \in Nat
  PROVE  LET first == FirstOf(keys, n) IN
         /\ IsFiniteSet(first) /\ Cardinality(first) \in Nat /\ Cardinality(first) <= n
         /\ Cardinality(first) < n => first = keys
         /\ \A k \in first, l \in keys : Before(l, k) => l \in first
<1> DEFINE first == FirstOf(keys, n)
           f == [k \in first |-> Rank(keys, k)]
<1>1. first \in SUBSET keys /\ \A k \in keys : k \in first <=> Rank(keys, k) < n
  BY DEF FirstOf
<1> HIDE DEF first
<1>2. IsFiniteSet(first) /\ Cardinality(first) \in Nat
  BY <1>1, FS_Subset, FS_CardinalityType
<1>3. Cardinality(first) <= n
  <2>1. f \in [first -> 0..(n - 1)]
    BY <1>1, RankGrows
  <2>2. ASSUME NEW k \in first, NEW l \in first, f[k] = f[l]
        PROVE  k = l
    <3>1. k \in keys /\ l \in keys /\ k \in KeySet /\ l \in KeySet
      BY <1>1
    <3>2. Rank(keys, k) = Rank(keys, l) /\ Rank(keys, k) \in Nat
      BY <2>2, <3>1, RankGrows
    <3>3. ~Before(k, l) /\ ~Before(l, k)
      BY <3>1, <3>2, RankGrows
    <3> QED BY <3>1, <3>3, BeforeIsOrder
  <2> HIDE DEF f
  <2>3. f \in Injection(first, 0..(n - 1))
    BY <2>1, <2>2 DEF Injection, IsInjective
  <2>4. IsFiniteSet(0..(n - 1)) /\ Cardinality(0..(n - 1)) = n
    BY FS_Interval
  <2> QED BY <2>3, <2>4, FS_Injection
<1>4. ASSUME NEW k \in first, NEW l \in keys, Before(l, k)
      PROVE  l \in first
  <2>1. Rank(keys, l) < Rank(keys, k) /\ Rank(keys, k) < n
    BY <1>1, <1>4, RankGrows
  <2>2. Rank(keys, l) \in Nat /\ Rank(keys, k) \in Nat
    BY <1>1, RankGrows
  <2> QED BY <1>1, <2>1, <2>2
<1>5. ASSUME first # keys
      PROVE  Cardinality(first) >= n
  <2> DEFINE ranks == {Rank(keys, k) : k \in keys \ first}
  <2>1. ranks \in SUBSET Nat /\ ranks # {}
    BY <1>1, <1>5, RankGrows
  <2>2. PICK k \in keys \ first : \A l \in keys \ first : Rank(keys, k) <= Rank(keys, l)
    <3> HIDE DEF ranks
    <3>1. PICK i \in ranks : \A j \in ranks : i <= j
      BY <2>1, LeastOf
    <3> QED BY <3>1 DEF ranks
  <2>3. {l \in keys : Before(l, k)} \in SUBSET first
    <3>1. ASSUME NEW l \in keys \ first
          PROVE  ~Before(l, k)
      <4>1. Rank(keys, k) <= Rank(keys, l) /\ Rank(keys, k) \in Nat /\ Rank(keys, l) \in Nat
        BY <2>2, RankGrows
      <4> QED BY <4>1, RankGrows
    <3> QED BY <3>1
  <2>4. Rank(keys, k) <= Cardinality(first)
    BY <1>2, <2>3, FS_Subset DEF Rank
  <2>5. Rank(keys, k) >= n /\ Rank(keys, k) \in Nat
    BY <1>1, <2>2, RankGrows
  <2> QED BY <1>2, <2>4, <2>5
<1> QED BY <1>2, <1>3, <1>4, <1>5 DEF first

-----------------------------------------------------------------------------
(* What a page costs *)

\* The keys a batch chooses from.
KeysLeft == {Key(r) : r \in {m \in Matching(rows, ask.spec) :
                               InWindow(m.time, ask.asOf) /\ AfterSeek(Key(m))}}

LEMMA Batch ==
  ASSUME Typed, NEW n \in Nat
  PROVE  LET sets == Assemble(queryChangesForChangesets(n)) IN
         /\ IsFiniteSet(sets) /\ {Key(p) : p \in sets} = pageCommits(n)
         /\ IsFiniteSet(pageCommits(n)) /\ Cardinality(pageCommits(n)) \in Nat
         /\ Cardinality(pageCommits(n)) <= n
         /\ Cardinality(sets) < n => pageCommits(n) = KeysLeft
         /\ \A k \in pageCommits(n), l \in KeysLeft : Before(l, k) => l \in pageCommits(n)
         /\ pageCommits(n) \subseteq KeysLeft /\ KeysLeft \subseteq KeySet
<1> DEFINE saved == queryChangesForChangesets(n)
           sets == Assemble(saved)
           left == {m \in Matching(rows, ask.spec) :
                      InWindow(m.time, ask.asOf) /\ AfterSeek(Key(m))}
<1>1. saved \in SUBSET rows /\ left \in SUBSET rows
  BY DEF queryChangesForChangesets, Matching
<1>2. IsFiniteSet(saved) /\ IsFiniteSet(left) /\ left \subseteq Rows
  BY <1>1, FS_Subset DEF Typed, TableTyped
<1>3. IsFiniteSet(KeysLeft)
  BY <1>2, KeysAreFinite DEF KeysLeft
<1>4. KeysLeft \in SUBSET KeySet
  <2>1. \A r \in Rows : Key(r) \in KeySet
    BY PagingAssumption DEF Key, KeySet
  <2>2. KeysLeft = {Key(r) : r \in left}
    BY DEF KeysLeft
  <2> HIDE DEF left
  <2> QED BY <1>2, <2>1, <2>2
<1>5. pageCommits(n) = FirstOf(KeysLeft, n)
  BY DEF pageCommits, FirstOf, Rank, KeysLeft
<1>6. /\ IsFiniteSet(pageCommits(n)) /\ Cardinality(pageCommits(n)) \in Nat
      /\ Cardinality(pageCommits(n)) <= n
      /\ Cardinality(pageCommits(n)) < n => pageCommits(n) = KeysLeft
      /\ \A k \in pageCommits(n), l \in KeysLeft : Before(l, k) => l \in pageCommits(n)
      /\ pageCommits(n) \subseteq KeysLeft
  BY <1>3, <1>4, <1>5, FirstKeys DEF FirstOf
<1>7. IsFiniteSet(sets)
  BY <1>2, AssembledIsFinite
<1>8. {Key(p) : p \in sets} = pageCommits(n)
  <2>1. \A p \in sets : Key(p) \in pageCommits(n)
    BY FetchedAfterSeek
  <2>2. ASSUME NEW k \in pageCommits(n)
        PROVE  \E p \in sets : Key(p) = k
    <3>1. PICK r \in saved : Key(r) = k
      BY DEF pageCommits, queryChangesForChangesets
    <3> DEFINE p == [repo |-> r.repo, sha |-> r.sha, time |-> r.time,
                     changes |-> {c.change : c \in RowsOf(saved, r)}]
    <3>2. p \in sets
      BY DEF Assemble
    <3>3. Key(p) = k
      BY <3>1 DEF Key
    <3> QED BY <3>2, <3>3
  <2> QED BY <2>1, <2>2
<1>9. Cardinality(pageCommits(n)) <= Cardinality(sets) /\ Cardinality(sets) \in Nat
  <2> HIDE DEF sets
  <2> QED BY <1>7, <1>8, KeysAreFinite
<1> QED BY <1>4, <1>6, <1>7, <1>8, <1>9

Ref(x) == [repo |-> x.repo, sha |-> x.sha, time |-> x.time]
Refs(S) == {Ref(x) : x \in S}

\* done: the commits the page has examined.  With what is pending they have no
\* more keys than the budget allows.
Paid(done) ==
  /\ Cardinality(done) = examined
  /\ \A k \in done, p \in pending : Ref(p) # k
  /\ \A k \in done : seek # Top /\ ~Before(seek, Key(k))
  /\ IsFiniteSet(pending)
  /\ Cardinality({Key(k) : k \in done \cup pending}) <= MaxChangesetScan

InBudget == Walking \/ pc = "answered" => \E done \in SUBSET Refs(rows) : Paid(done)

PageCut ==
  pc = "answered" =>
    /\ Len(page.sets) <= effectiveLimit
    /\ page.cursor # Top /\ Len(page.sets) < effectiveLimit => examined >= MaxChangesetScan

LEMMA RefsTyped ==
  ASSUME Typed
  PROVE  /\ IsFiniteSet(Refs(rows))
         /\ {Key(k) : k \in Refs(rows)} = {Key(r) : r \in rows}
         /\ \A k \in Refs(rows) : Key(k) \in KeySet
         /\ \A x \in Genuine : Ref(x) \in Refs(rows) /\ Key(Ref(x)) = Key(x)
<1>1. \A x : Key(Ref(x)) = Key(x)
  BY DEF Key, Ref
<1>2. {Key(k) : k \in Refs(rows)} = {Key(r) : r \in rows}
  BY <1>1 DEF Refs
<1>3. \A k \in Refs(rows) : Key(k) \in KeySet
  <2>1. \A r \in rows : Key(r) \in KeySet
    BY PagingAssumption DEF Typed, TableTyped, Key, KeySet
  <2> QED BY <1>1, <2>1 DEF Refs
<1>4. IsFiniteSet(Refs(rows))
  <2> DEFINE f == [r \in rows |-> Ref(r)]
  <2>1. f \in [rows -> Refs(rows)] /\ \A y \in Refs(rows) : \E r \in rows : f[r] = y
    BY DEF Refs
  <2> HIDE DEF f
  <2> QED BY <2>1, ImageIsFinite DEF Typed, TableTyped
<1>5. \A x \in Genuine : Ref(x) \in Refs(rows)
  BY DEF Genuine, OfTable, Refs, Ref
<1> QED BY <1>1, <1>2, <1>3, <1>4, <1>5

LEMMA FetchInBudget ==
  ASSUME Typed, InOrder, InBudget, Fetch
  PROVE  InBudget'
<1> DEFINE n == BatchWithin
           sets == Assemble(queryChangesForChangesets(n))
<1>1. /\ pc = "loop" /\ LoopGoesOn /\ pending' = sets
      /\ UNCHANGED <<rows, seek, examined>>
  BY DEF Fetch
<1>2. PICK done \in SUBSET Refs(rows) : Paid(done)
  BY <1>1 DEF InBudget, Walking
<1>3. n \in Nat /\ n <= MaxChangesetScan - examined /\ examined \in Nat /\ MaxChangesetScan \in Nat
  BY <1>1, PagingAssumption
     DEF BatchWithin, Smaller, LoopGoesOn, Typed, QueryTyped, Walking
<1>4. IsFiniteSet(done)
  BY RefsTyped, FS_Subset
<1>5. /\ IsFiniteSet({Key(k) : k \in done}) /\ Cardinality({Key(k) : k \in done}) \in Nat
      /\ Cardinality({Key(k) : k \in done}) <= examined
  BY <1>2, <1>4, KeysAreFinite DEF Paid
<1>6. /\ IsFiniteSet(sets) /\ {Key(p) : p \in sets} = pageCommits(n)
      /\ IsFiniteSet(pageCommits(n)) /\ Cardinality(pageCommits(n)) \in Nat
      /\ Cardinality(pageCommits(n)) <= n
  BY <1>3, Batch
<1>7. \A p \in sets : AfterSeek(Key(p))
  BY FetchedAfterSeek
<1> HIDE DEF sets, n
<1>8. {Key(k) : k \in done \cup sets} = {Key(k) : k \in done} \cup pageCommits(n)
  BY <1>6
<1>9. Cardinality({Key(k) : k \in done \cup sets}) <= MaxChangesetScan
  <2> DEFINE old == {Key(k) : k \in done}
             new == pageCommits(n)
  <2>1. IsFiniteSet(old \cap new) /\ Cardinality(old \cap new) \in Nat
    BY <1>5, FS_Intersection, FS_CardinalityType
  <2>2. /\ IsFiniteSet(old) /\ Cardinality(old) \in Nat /\ Cardinality(old) <= examined
        /\ IsFiniteSet(new) /\ Cardinality(new) \in Nat /\ Cardinality(new) <= n
        /\ {Key(k) : k \in done \cup sets} = old \cup new
    BY <1>5, <1>6, <1>8
  <2> HIDE DEF old, new
  <2>3. Cardinality(old \cup new) = Cardinality(old) + Cardinality(new) - Cardinality(old \cap new)
    BY <2>2, FS_Union
  <2>4. Cardinality(old \cup new) <= MaxChangesetScan
    BY <1>3, <2>1, <2>2, <2>3
  <2> QED BY <2>2, <2>4
<1>10. ASSUME NEW k \in done, NEW p \in sets
       PROVE  Ref(p) # k
  <2>1. seek # Top /\ ~Before(seek, Key(k))
    BY <1>2 DEF Paid
  <2>2. Before(seek, Key(p))
    BY <1>7, <2>1 DEF AfterSeek
  <2>3. Key(Ref(p)) = Key(p)
    BY DEF Key, Ref
  <2> QED BY <2>1, <2>2, <2>3
<1>11. Paid(done)'
  BY <1>1, <1>2, <1>6, <1>9, <1>10 DEF Paid
<1> QED BY <1>1, <1>11 DEF InBudget, Refs

LEMMA ExamineInBudget ==
  ASSUME Typed, InOrder, InBudget, Examine
  PROVE  InBudget'
<1>1. PICK x \in pending :
        /\ \A p \in pending : ~Before(Key(p), Key(x))
        /\ seek' = Key(x) /\ examined' = examined + 1
        /\ pending' \subseteq pending \ {x}
  BY DEF Examine
<1>2. pc = "examining" /\ UNCHANGED rows
  BY DEF Examine
<1>3. PICK done \in SUBSET Refs(rows) : Paid(done)
  BY <1>2 DEF InBudget, Walking
<1>4. OnPage
  BY <1>2 DEF InOrder, Walking
<1>5. x \in Genuine /\ Key(x) \in KeySet /\ Key(x) # Top
  BY SetsAreGenuine, KeysTyped
<1> DEFINE all == done \cup {Ref(x)}
<1>6. all \in SUBSET Refs(rows) /\ Ref(x) \notin done
  BY <1>3, <1>5, RefsTyped DEF Paid
<1>7. IsFiniteSet(done) /\ Cardinality(all) = examined + 1
  <2>1. IsFiniteSet(done)
    BY RefsTyped, FS_Subset
  <2> QED BY <1>3, <1>6, <2>1, FS_AddElement DEF Paid
<1>8. ASSUME NEW k \in all, NEW p \in pending'
      PROVE  Ref(p) # k
  <2>1. p \in pending /\ p # x
    BY <1>1
  <2>2. Ref(p) = Ref(x) => Id(p) = Id(x)
    BY DEF Ref, Id
  <2> QED BY <1>3, <1>4, <2>1, <2>2 DEF Paid, OnPage
<1>9. ASSUME NEW k \in all
      PROVE  seek' # Top /\ ~Before(seek', Key(k))
  <2>1. CASE k \in done
    <3>1. seek # Top /\ ~Before(seek, Key(k)) /\ Key(k) \in KeySet
      BY <1>3, <2>1, RefsTyped DEF Paid
    <3>2. seek \in KeySet /\ ~Before(Key(x), seek)
      BY <1>4, <3>1 DEF OnPage
    <3> QED BY <1>1, <1>5, <3>1, <3>2, BeforeIsOrder
  <2>2. CASE k = Ref(x)
    BY <1>1, <1>5, <2>2, RefsTyped, BeforeIsOrder
  <2> QED BY <2>1, <2>2
<1>10. IsFiniteSet(pending')
  BY <1>1, <1>3, FS_Subset DEF Paid
<1>11. Cardinality({Key(k) : k \in all \cup pending'}) <= MaxChangesetScan
  <2> DEFINE before == {Key(k) : k \in done \cup pending}
             after == {Key(k) : k \in all \cup pending'}
  <2>1. IsFiniteSet(before)
    <3>1. IsFiniteSet(done \cup pending)
      BY <1>3, <1>7, FS_Union DEF Paid
    <3> QED BY <3>1, KeysAreFinite
  <2>2. after \in SUBSET before
    BY <1>1, <1>5, RefsTyped
  <2>3. Cardinality(before) <= MaxChangesetScan
    BY <1>3 DEF Paid
  <2> HIDE DEF before, after
  <2>4. Cardinality(after) <= Cardinality(before) /\ IsFiniteSet(after)
    BY <2>1, <2>2, FS_Subset
  <2>5. Cardinality(before) \in Nat /\ Cardinality(after) \in Nat /\ MaxChangesetScan \in Nat
    BY <2>1, <2>4, FS_CardinalityType, PagingAssumption
  <2>6. Cardinality(after) <= MaxChangesetScan
    BY <2>3, <2>4, <2>5
  <2> QED BY <2>6 DEF after
<1> HIDE DEF all
<1>12. Paid(all)'
  BY <1>1, <1>7, <1>8, <1>9, <1>10, <1>11 DEF Paid
<1> QED BY <1>2, <1>6, <1>12 DEF InBudget, Refs

LEMMA InBudgetStep ==
  ASSUME Typed, InOrder, InBudget, [Next]_vars
  PROVE  InBudget'
<1>1. ASSUME rows \subseteq rows', pc' = pc \/ (pc = "loop" /\ pc' = "answered"),
             UNCHANGED <<seek, pending, examined>>
      PROVE  InBudget'
  <2>1. SUFFICES ASSUME Walking' \/ pc' = "answered"
                 PROVE  \E done \in SUBSET Refs(rows') : Paid(done)'
    BY DEF InBudget, Refs
  <2>2. PICK done \in SUBSET Refs(rows) : Paid(done)
    BY <1>1, <2>1 DEF InBudget, Walking
  <2>3. done \in SUBSET Refs(rows')
    BY <1>1 DEF Refs
  <2>4. Paid(done)'
    BY <1>1, <2>2 DEF Paid
  <2> QED BY <2>3, <2>4
<1>2. ASSUME pending' = {}, examined' = 0
      PROVE  InBudget'
  <2>1. {} \in SUBSET Refs(rows')
    OBVIOUS
  <2>2. {Key(k) : k \in {} \cup pending'} = {}
    BY <1>2
  <2>3. IsFiniteSet(pending') /\ Cardinality({}) = 0 /\ 0 <= MaxChangesetScan
    BY <1>2, FS_EmptySet, PagingAssumption
  <2>4. Cardinality({Key(k) : k \in {} \cup pending'}) <= MaxChangesetScan
    BY <2>2, <2>3
  <2>5. Cardinality({}) = examined'
    BY <1>2, <2>3
  <2>6. Paid({})'
    BY <1>2, <2>3, <2>4, <2>5 DEF Paid
  <2> QED BY <2>1, <2>6 DEF InBudget, Refs
<1>3. ASSUME NEW r \in Requests, Ask(r)
      PROVE  pending' = {} /\ examined' = 0
  BY <1>3, PageBegins DEF Ask
<1>4. ASSUME AskNext
      PROVE  pending' = {} /\ examined' = 0
  BY <1>4, PageBegins DEF AskNext, Typed, QueryTyped
<1>5. ASSUME Leave
      PROVE  pending' = {} /\ examined' = 0
  BY <1>5 DEF Leave
<1>6. ASSUME NEW r \in Rows, SaveChange(r)
      PROVE  rows \subseteq rows' /\ UNCHANGED <<pc, seek, pending, examined>>
  BY <1>6 DEF SaveChange, queryVars
<1>7. ASSUME NEW raw \in RuleFiles, ReloadRules(raw)
      PROVE  UNCHANGED <<rows, pc, seek, pending, examined>>
  BY <1>7 DEF ReloadRules, queryVars
<1>8. ASSUME NEW r \in Requests, Refuse(r)
      PROVE  UNCHANGED <<rows, pc, seek, pending, examined>>
  BY <1>8 DEF Refuse, queryVars
<1>9. CASE Answer
  BY <1>1, <1>9 DEF Answer, queryVars
<1>10. CASE UNCHANGED vars
  BY <1>1, <1>10 DEF vars, queryVars
<1> QED
  BY <1>1, <1>2, <1>3, <1>4, <1>5, <1>6, <1>7, <1>8, <1>9, <1>10,
     FetchInBudget, ExamineInBudget DEF Next, QueryStep

LEMMA PageCutStep ==
  ASSUME Typed, PageCut, [Next]_vars
  PROVE  PageCut'
<1>1. ASSUME UNCHANGED <<pc, page, examined, req>>
      PROVE  PageCut'
  BY <1>1 DEF PageCut, effectiveLimit
<1>2. ASSUME pc' # "answered"
      PROVE  PageCut'
  BY <1>2 DEF PageCut
<1>3. CASE Answer
  <2> DEFINE sets == IF Overfull THEN SubSeq(kept, 1, effectiveLimit) ELSE kept
  <2>1. /\ ~LoopGoesOn /\ page'.sets = sets /\ page'.cursor = NextCursor
        /\ UNCHANGED <<req, examined>>
    BY <1>3 DEF Answer, queryVars
  <2>2. kept \in Seq(Genuine) /\ effectiveLimit \in Nat \ {0} /\ effectiveLimit' = effectiveLimit
    BY <2>1, LimitIsPositive DEF Typed, SetsTyped, QueryTyped, effectiveLimit
  <2>3. Overfull => Len(sets) = effectiveLimit
    BY <2>2 DEF Overfull
  <2>4. ~Overfull => Len(sets) <= effectiveLimit
    BY <2>2 DEF Overfull
  <2> HIDE DEF sets
  <2>5. Len(page'.sets) <= effectiveLimit
    BY <2>1, <2>2, <2>3, <2>4
  <2>6. ASSUME page'.cursor # Top, Len(page'.sets) < effectiveLimit
        PROVE  examined >= MaxChangesetScan
    <3>1. ~Overfull
      BY <2>1, <2>2, <2>3, <2>6
    <3>2. ~exhausted
      BY <2>1, <2>6, <3>1 DEF NextCursor
    <3> QED BY <2>1, <3>1, <3>2, PagingAssumption DEF LoopGoesOn, Typed, QueryTyped
  <2> QED BY <2>1, <2>2, <2>5, <2>6 DEF PageCut
<1>4. ASSUME NEW r \in Requests, Ask(r) \/ Refuse(r) \/ AskNext \/ Leave \/ Fetch \/ Examine
      PROVE  pc' # "answered"
  <2>1. CASE Ask(r)
    BY <2>1, PageBegins DEF Ask
  <2>2. CASE AskNext
    BY <2>2, PageBegins DEF AskNext, Typed, QueryTyped
  <2>3. CASE Refuse(r) \/ Leave \/ Fetch \/ Examine
    BY <2>3 DEF Refuse, Leave, Fetch, Examine
  <2> QED BY <1>4, <2>1, <2>2, <2>3
<1>5. ASSUME NEW r \in Rows, SaveChange(r)
      PROVE  UNCHANGED <<pc, page, examined, req>>
  BY <1>5 DEF SaveChange, queryVars
<1>6. ASSUME NEW raw \in RuleFiles, ReloadRules(raw)
      PROVE  UNCHANGED <<pc, page, examined, req>>
  BY <1>6 DEF ReloadRules, queryVars
<1>7. CASE UNCHANGED vars
  BY <1>1, <1>7 DEF vars, queryVars
<1>8. req \in Requests
  BY DEF Typed, QueryTyped
<1> QED
  BY <1>1, <1>2, <1>3, <1>4, <1>5, <1>6, <1>7, <1>8 DEF Next, QueryStep

\* The commits of the table that a page examined exceed its keys by no more
\* than all commits exceed all keys.
LEMMA BudgetBounds ==
  ASSUME Typed, InBudget, PageCut
  PROVE  PagesAreBounded
<1> SUFFICES ASSUME pc = "answered"
             PROVE  examined <= MaxChangesetScan
                      + (Cardinality(Assemble(rows)) - Cardinality({Key(r) : r \in rows}))
  BY DEF PagesAreBounded, PageCut
<1>1. PICK done \in SUBSET Refs(rows) : Paid(done)
  BY DEF InBudget
<1> DEFINE all == Refs(rows)
           keys(S) == {Key(k) : k \in S}
           rest == all \ done
<1>2. IsFiniteSet(all) /\ IsFiniteSet(done) /\ IsFiniteSet(rest)
  BY RefsTyped, FS_Subset, FS_Difference
<1>3. /\ Cardinality(all) \in Nat /\ Cardinality(done) \in Nat /\ Cardinality(rest) \in Nat
      /\ Cardinality(rest) = Cardinality(all) - Cardinality(done)
  <2>1. all \cap done = done
    OBVIOUS
  <2> QED BY <1>2, <2>1, FS_CardinalityType, FS_Difference
<1>4. /\ IsFiniteSet(keys(rest)) /\ Cardinality(keys(rest)) \in Nat
      /\ Cardinality(keys(rest)) <= Cardinality(rest)
  BY <1>2, KeysAreFinite
<1>5. /\ IsFiniteSet(keys(done)) /\ Cardinality(keys(done)) \in Nat
      /\ Cardinality(keys(done)) <= MaxChangesetScan
  <2>1. IsFiniteSet(done \cup pending)
    BY <1>1, <1>2, FS_Union DEF Paid
  <2>2. IsFiniteSet(keys(done \cup pending))
    BY <2>1, KeysAreFinite
  <2>3. keys(done) \in SUBSET keys(done \cup pending)
    OBVIOUS
  <2>4. Cardinality(keys(done \cup pending)) <= MaxChangesetScan
    BY <1>1 DEF Paid
  <2> HIDE DEF keys
  <2>5. IsFiniteSet(keys(done)) /\ Cardinality(keys(done)) <= Cardinality(keys(done \cup pending))
    BY <2>2, <2>3, FS_Subset
  <2>6. /\ Cardinality(keys(done)) \in Nat /\ Cardinality(keys(done \cup pending)) \in Nat
        /\ MaxChangesetScan \in Nat
    BY <2>2, <2>5, FS_CardinalityType, PagingAssumption
  <2> QED BY <2>4, <2>5, <2>6
<1>6. keys(all) = keys(done) \cup keys(rest)
  OBVIOUS
<1> HIDE DEF all, keys, rest
<1>7. /\ Cardinality(keys(all)) \in Nat
      /\ Cardinality(keys(all)) <= Cardinality(keys(done)) + Cardinality(keys(rest))
  <2>1. IsFiniteSet(keys(done) \cap keys(rest)) /\ IsFiniteSet(keys(all))
    BY <1>4, <1>5, <1>6, FS_Intersection, FS_Union
  <2>2. Cardinality(keys(done) \cap keys(rest)) \in Nat /\ Cardinality(keys(all)) \in Nat
    BY <2>1, FS_CardinalityType
  <2>3. Cardinality(keys(all)) = Cardinality(keys(done)) + Cardinality(keys(rest))
                                   - Cardinality(keys(done) \cap keys(rest))
    BY <1>4, <1>5, <1>6, FS_Union
  <2> QED BY <1>4, <1>5, <2>2, <2>3
<1>8. keys(all) = {Key(r) : r \in rows}
  BY RefsTyped DEF keys, all
<1>9. Cardinality(all) <= Cardinality(Assemble(rows)) /\ Cardinality(Assemble(rows)) \in Nat
  <2> DEFINE f == [x \in Assemble(rows) |-> Ref(x)]
  <2>1. IsFiniteSet(Assemble(rows))
    BY AssembledIsFinite DEF Typed, TableTyped
  <2>2. \A x \in Assemble(rows) : Ref(x) \in all
    BY Assembled, RefsTyped DEF all, Typed
  <2>3. ASSUME NEW y \in all
        PROVE  \E x \in Assemble(rows) : Ref(x) = y
    <3>1. PICK r \in rows : y = Ref(r)
      BY DEF all, Refs
    <3> DEFINE x == [repo |-> r.repo, sha |-> r.sha, time |-> r.time,
                     changes |-> {c.change : c \in RowsOf(rows, r)}]
    <3>2. x \in Assemble(rows)
      BY DEF Assemble
    <3>3. Ref(x) = y
      BY <3>1 DEF Ref
    <3> QED BY <3>2, <3>3
  <2>4. f \in [Assemble(rows) -> all] /\ \A y \in all : \E x \in Assemble(rows) : f[x] = y
    BY <2>2, <2>3
  <2> HIDE DEF f
  <2> QED BY <2>1, <2>4, ImageIsFinite, FS_CardinalityType
<1>10. examined = Cardinality(done)
  BY <1>1 DEF Paid
<1> DEFINE a == Cardinality(Assemble(rows))
           b == Cardinality(keys(all))
<1>11. a \in Nat /\ b \in Nat /\ examined <= MaxChangesetScan + (a - b)
  <2> DEFINE u == Cardinality(all)
             v == Cardinality(keys(done))
             w == Cardinality(keys(rest))
             z == Cardinality(rest)
             y == Cardinality(done)
  <2>1. /\ a \in Nat /\ b \in Nat /\ u \in Nat /\ v \in Nat /\ w \in Nat /\ z \in Nat /\ y \in Nat
        /\ MaxChangesetScan \in Nat
        /\ u <= a /\ b <= v + w /\ w <= z /\ z = u - y /\ v <= MaxChangesetScan /\ examined = y
    BY <1>3, <1>4, <1>5, <1>7, <1>9, <1>10, PagingAssumption
  <2> HIDE DEF a, b, u, v, w, z, y
  <2> QED BY <2>1
<1> QED BY <1>8, <1>11

\* However many commits share a key and however the batches grow, a page costs
\* no more than its budget and is short only when that is spent
\* (store_changeset.go:111-119).
THEOREM PagesBounded == Spec => []PagesAreBounded
<1> DEFINE Inv == Typed /\ InOrder /\ InBudget /\ PageCut
<1>1. Init => InOrder /\ InBudget /\ PageCut
  BY DEF Init, InOrder, Ordered, Walking, InBudget, PageCut
<1>2. Inv /\ [Next]_vars => Inv'
  BY TypedStep, InOrderStep, InBudgetStep, PageCutStep
<1>3. Inv => PagesAreBounded
  BY BudgetBounds
<1> QED BY <1>1, <1>2, <1>3, StartsTyped, PTL DEF Spec

-----------------------------------------------------------------------------
(* The listing of a whole walk *)

\* The filter of a request, when these are the facets known.
SpecOf(K) == Parse([k \in DOMAIN req.facets \cap K |-> req.facets[k]])

\* Every page is asked for later than the one before, of a table and of facets
\* that have grown.
Asked ==
  pc # "idle" =>
    /\ walk.asOf \in Int /\ ask.asOf \in Int /\ walk.asOf <= ask.asOf
    /\ req.asOf # Now => ask.asOf = req.asOf
    /\ walk.rows \subseteq rows
    /\ \E K \in SUBSET FacetOptions : \E K0 \in SUBSET K :
         walk.spec = SpecOf(K0) /\ ask.spec = SpecOf(K)

\* A filter that is the same for some facets and for more is it for all between.
LEMMA SpecBetween ==
  ASSUME NEW A, NEW B, NEW C, A \subseteq B, B \subseteq C, SpecOf(A) = SpecOf(C)
  PROVE  SpecOf(B) = SpecOf(A)
<1> DEFINE V(k, e) == {v.value : v \in {w \in req.facets[k] : w.excluded = e}}
           Named(K, e) == {k \in DOMAIN req.facets \cap K : V(k, e) # {}}
           Spec_(K) == [include |-> [k \in Named(K, FALSE) |-> V(k, FALSE)],
                        exclude |-> [k \in Named(K, TRUE) |-> V(k, TRUE)]]
<1>1. ASSUME NEW K
      PROVE  SpecOf(K) = Spec_(K)
  <2> DEFINE params == [k \in DOMAIN req.facets \cap K |-> req.facets[k]]
             PV(k, e) == {v.value : v \in {w \in params[k] : w.excluded = e}}
             PN(e) == {k \in DOMAIN params : PV(k, e) # {}}
  <2>1. Parse(params) = [include |-> [k \in PN(FALSE) |-> PV(k, FALSE)],
                         exclude |-> [k \in PN(TRUE) |-> PV(k, TRUE)]]
    BY DEF Parse
  <2>2. DOMAIN params = DOMAIN req.facets \cap K
    OBVIOUS
  <2>3. \A k \in DOMAIN params : params[k] = req.facets[k]
    OBVIOUS
  <2> HIDE DEF params
  <2>4. \A e : \A k \in DOMAIN params : PV(k, e) = V(k, e)
    BY <2>3
  <2>5. \A e : PN(e) = Named(K, e)
    BY <2>2, <2>4
  <2>6. ASSUME NEW e
        PROVE  [k \in PN(e) |-> PV(k, e)] = [k \in Named(K, e) |-> V(k, e)]
    <3>1. PN(e) = Named(K, e) /\ \A k \in PN(e) : k \in DOMAIN params
      BY <2>5
    <3> HIDE DEF PN, Named
    <3>2. \A k \in PN(e) : PV(k, e) = V(k, e)
      BY <2>4, <3>1
    <3> HIDE DEF PV, V
    <3> QED BY <3>1, <3>2
  <2> QED BY <2>1, <2>6 DEF SpecOf, params
<1> HIDE DEF V
<1>2. Spec_(A) = Spec_(C)
  BY <1>1
<1>3. Named(A, FALSE) = Named(C, FALSE) /\ Named(A, TRUE) = Named(C, TRUE)
  <2>1. Spec_(A).include = Spec_(C).include /\ Spec_(A).exclude = Spec_(C).exclude
    BY <1>2
  <2>2. \A K : DOMAIN Spec_(K).include = Named(K, FALSE) /\ DOMAIN Spec_(K).exclude = Named(K, TRUE)
    OBVIOUS
  <2> HIDE DEF Spec_, Named
  <2> QED BY <2>1, <2>2
<1>4. ASSUME NEW e \in BOOLEAN
      PROVE  Named(B, e) = Named(A, e)
  BY <1>3
<1> HIDE DEF Named
<1>5. Spec_(B) = Spec_(A)
  BY <1>4
<1> QED BY <1>1, <1>5

LEMMA AskedStep ==
  ASSUME Typed, Asked, [Next]_vars
  PROVE  Asked'
<1>1. ASSUME rows \subseteq rows', UNCHANGED <<req, walk, ask>>, pc' # "idle" => pc # "idle"
      PROVE  Asked'
  <2>1. FacetOptions \subseteq FacetOptions'
    BY <1>1 DEF FacetOptions
  <2>2. \A K : SpecOf(K)' = SpecOf(K)
    BY <1>1 DEF SpecOf
  <2> QED BY <1>1, <2>1, <2>2 DEF Asked
<1>2. ASSUME NEW r \in Requests, Ask(r)
      PROVE  Asked'
  <2>1. /\ req' = r /\ rows' = rows /\ ask'.spec = parseFilter(r) /\ ask'.asOf \in Int
        /\ walk'.asOf = ask'.asOf /\ walk'.spec = ask'.spec /\ walk'.rows = rows
        /\ r.asOf # Now => ask'.asOf = r.asOf
    BY <1>2, PageBegins DEF Ask
  <2>2. parseFilter(r) = SpecOf(FacetOptions)'
    BY <2>1 DEF parseFilter, SpecOf, FacetOptions
  <2> QED BY <2>1, <2>2 DEF Asked
<1>3. CASE AskNext
  <2>1. /\ pc # "idle" /\ UNCHANGED <<rows, req>>
        /\ walk'.asOf = walk.asOf /\ walk'.spec = walk.spec /\ walk'.rows = walk.rows
    BY <1>3 DEF AskNext
  <2>2. /\ ask'.spec = parseFilter(req) /\ ask'.asOf \in Int
        /\ req.asOf # Now => ask'.asOf = req.asOf
        /\ req.asOf = Now => ask'.asOf >= ask.asOf
    BY <1>3, PageBegins DEF AskNext, Typed, QueryTyped
  <2>10. PICK K \in SUBSET FacetOptions : \E K0 \in SUBSET K :
           walk.spec = SpecOf(K0) /\ ask.spec = SpecOf(K)
    BY <2>1 DEF Asked
  <2>3. PICK K0 \in SUBSET K : walk.spec = SpecOf(K0)
    BY <2>10
  <2>4. FacetOptions' = FacetOptions /\ \A L : SpecOf(L)' = SpecOf(L)
    BY <2>1 DEF FacetOptions, SpecOf
  <2>5. ask'.spec = SpecOf(FacetOptions)
    BY <2>2 DEF parseFilter, SpecOf
  <2>6. K0 \in SUBSET FacetOptions
    OBVIOUS
  <2>7. walk.asOf <= ask'.asOf /\ (req.asOf # Now => ask'.asOf = req.asOf)
    BY <2>1, <2>2 DEF Asked
  <2>8. walk'.asOf \in Int /\ walk'.rows \subseteq rows'
    BY <2>1 DEF Asked
  <2> QED BY <2>1, <2>2, <2>3, <2>4, <2>5, <2>6, <2>7, <2>8 DEF Asked
<1>4. ASSUME NEW r \in Rows, SaveChange(r)
      PROVE  rows \subseteq rows' /\ UNCHANGED <<req, walk, ask, pc>>
  BY <1>4 DEF SaveChange, queryVars
<1>5. ASSUME NEW raw \in RuleFiles, ReloadRules(raw)
      PROVE  UNCHANGED <<rows, req, walk, ask, pc>>
  BY <1>5 DEF ReloadRules, queryVars
<1>6. ASSUME NEW r \in Requests, Refuse(r)
      PROVE  UNCHANGED <<rows, req, walk, ask, pc>>
  BY <1>6 DEF Refuse, queryVars
<1>7. ASSUME QueryStep
      PROVE  UNCHANGED <<rows, req, walk, ask>> /\ pc # "idle"
  BY <1>7 DEF QueryStep, Fetch, Examine, Answer, queryVars
<1>8. CASE Leave
  BY <1>8 DEF Leave, Asked
<1>9. CASE UNCHANGED vars
  BY <1>1, <1>9 DEF vars, queryVars
<1> QED
  BY <1>1, <1>2, <1>3, <1>4, <1>5, <1>6, <1>7, <1>8, <1>9 DEF Next

\* What the walk owes its reader, and whether the seek position is at it or
\* behind it.
Wanted == {cs \in Assemble(Matching(walk.rows, walk.spec)) : Settled(cs)}
Passed(place, cs) == place # Top /\ ~Before(place, Key(cs))

Paged == Elements(listed) \cup Elements(kept)

\* While a page is put together all that is wanted, passed and accepted is on
\* it or on an earlier one, unless it is pending; the rest of what is wanted is
\* behind what is pending, and there is none if the table is exhausted.
CompleteOnPage ==
  /\ \A cs \in Wanted \ pending : Passed(seek, cs) /\ Keep(cs) => cs \in Paged
  /\ \A cs \in Wanted \ pending : ~Passed(seek, cs) =>
       /\ \A p \in pending : Before(Key(p), Key(cs))
       /\ ~(exhausted /\ ~Overfull)

CompleteAnswer ==
  \A cs \in Wanted :
    (page.cursor = Top \/ Passed(page.cursor, cs)) /\ Keep(cs) => cs \in Elements(listed)

Complete ==
  ask.spec = walk.spec =>
    /\ Walking => CompleteOnPage
    /\ pc = "answered" => CompleteAnswer

LEMMA WantedIsGenuine ==
  ASSUME Typed, Asked, pc # "idle", NEW cs \in Wanted
  PROVE  /\ cs \in Genuine /\ Key(cs) \in KeySet /\ Key(cs) # Top
         /\ \E r \in Matching(walk.rows, walk.spec) : Key(r) = Key(cs) /\ r.repo = cs.repo
         /\ cs.changes = {c.change : c \in RowsOf(Matching(walk.rows, walk.spec), cs)}
         /\ Settled(cs)
<1>1. Matching(walk.rows, walk.spec) \in SUBSET rows
  BY DEF Asked, Matching
<1>2. cs \in Assemble(Matching(walk.rows, walk.spec)) /\ Settled(cs)
  BY DEF Wanted
<1>3. TableTyped
  BY DEF Typed
<1>4. /\ cs \in Genuine
      /\ \E r \in Matching(walk.rows, walk.spec) : Key(r) = Key(cs) /\ r.repo = cs.repo
      /\ cs.changes = {c.change : c \in RowsOf(Matching(walk.rows, walk.spec), cs)}
  BY <1>1, <1>2, <1>3, Assembled
<1> QED BY <1>2, <1>4, KeysTyped

\* A changeset at the key of one that is wanted is of the same commit.
LEMMA WantedIsAlone ==
  ASSUME Typed, Asked, pc # "idle", NEW cs \in Wanted, NEW x \in Genuine, Key(x) = Key(cs)
  PROVE  Id(x) = Id(cs)
<1>1. PICK r \in rows : r.repo = x.repo /\ r.sha = x.sha /\ r.time = x.time
  BY DEF Genuine, OfTable
<1>2. Key(r) = Key(cs)
  BY <1>1 DEF Key
<1>3. r.repo = cs.repo
  BY <1>2, WantedIsGenuine DEF Settled
<1>4. x.sha = cs.sha
  BY DEF Key
<1> QED BY <1>1, <1>3, <1>4 DEF Id

\* What is wanted later is wanted now.
LEMMA WantedShrinks ==
  ASSUME Asked, pc # "idle", rows \subseteq rows', UNCHANGED req,
         walk'.asOf = walk.asOf, walk'.spec = walk.spec, walk'.rows = walk.rows,
         walk.rules \subseteq walk'.rules, NEW cs \in Wanted'
  PROVE  /\ cs \in Wanted
         /\ \A old, new \in walk'.rules :
              allPredicates(req, old, cs.changes) <=> allPredicates(req, new, cs.changes)
<1>1. /\ cs \in Assemble(Matching(walk.rows, walk.spec))
      /\ InWindow(cs.time, walk.asOf)
      /\ RowsOf(rows', cs) = RowsOf(walk.rows, cs)
      /\ \A r \in rows' : Key(r) = Key(cs) => r.repo = cs.repo
      /\ \A old, new \in walk'.rules :
           allPredicates(req, old, cs.changes) <=> allPredicates(req, new, cs.changes)
  BY DEF Wanted, Settled, InWindow, Matching
<1>2. walk.rows \subseteq rows
  BY DEF Asked
<1>3. RowsOf(rows, cs) = RowsOf(walk.rows, cs)
  BY <1>1, <1>2 DEF RowsOf
<1>4. Settled(cs)
  BY <1>1, <1>3 DEF Settled
<1> QED BY <1>1, <1>4 DEF Wanted

LEMMA LaterIsWider ==
  ASSUME NEW time \in Int, NEW early \in Int, NEW late \in Int, early <= late,
         InWindow(time, early)
  PROVE  InWindow(time, late)
<1>1. early \div 2 <= late \div 2 /\ early \div 2 \in Int /\ late \div 2 \in Int
  OBVIOUS
<1> QED BY <1>1 DEF InWindow, Second

\* What is wanted and not passed is among what a batch chooses from, and in the
\* batch if its key is.
LEMMA WantedIsFetched ==
  ASSUME Typed, Asked, pc # "idle", ask.spec = walk.spec,
         NEW cs \in Wanted, ~Passed(seek, cs), seek \in KeySet, NEW n
  PROVE  /\ Key(cs) \in KeysLeft
         /\ Key(cs) \in pageCommits(n) => cs \in Assemble(queryChangesForChangesets(n))
<1> DEFINE before == Matching(walk.rows, walk.spec)
           saved == queryChangesForChangesets(n)
<1>1. PICK r \in before : Key(r) = Key(cs) /\ r.repo = cs.repo
  BY WantedIsGenuine
<1>2. /\ cs \in Genuine /\ Key(cs) \in KeySet /\ Settled(cs)
      /\ cs.changes = {c.change : c \in RowsOf(before, cs)}
  BY WantedIsGenuine
<1>3. r.time = cs.time /\ r.sha = cs.sha /\ cs.time \in Int
  BY <1>1, <1>2 DEF Key, KeySet
<1>4. walk.rows \subseteq rows
  BY DEF Asked
<1>5. r \in Matching(rows, ask.spec) /\ r \in walk.rows
  BY <1>4 DEF Matching
<1>6. InWindow(r.time, ask.asOf)
  BY <1>2, <1>3, LaterIsWider DEF Settled, Asked
<1>7. AfterSeek(Key(r))
  BY <1>1 DEF Passed, AfterSeek
<1>8. Key(cs) \in KeysLeft
  BY <1>1, <1>5, <1>6, <1>7 DEF KeysLeft
<1>9. ASSUME Key(cs) \in pageCommits(n)
      PROVE  cs \in Assemble(saved)
  <2>1. saved = {m \in Matching(rows, ask.spec) : Key(m) \in pageCommits(n)}
    BY DEF queryChangesForChangesets
  <2>2. r \in saved
    BY <1>1, <1>5, <1>9, <2>1
  <2>3. RowsOf(saved, r) = RowsOf(before, cs)
    <3>1. RowsOf(saved, r) \subseteq RowsOf(before, cs)
      <4> SUFFICES ASSUME NEW m \in saved, m.repo = r.repo, m.sha = r.sha
                   PROVE  m \in before /\ m.repo = cs.repo /\ m.sha = cs.sha
        BY DEF RowsOf
      <4>1. m \in Matching(rows, ask.spec) /\ m.repo = cs.repo /\ m.sha = cs.sha
        BY <1>1, <1>3, <2>1
      <4>2. m \in RowsOf(rows, cs)
        BY <4>1 DEF RowsOf, Matching
      <4>3. m \in walk.rows
        BY <1>2, <4>2 DEF Settled, RowsOf
      <4> QED BY <4>1, <4>3 DEF Matching
    <3>2. RowsOf(before, cs) \subseteq RowsOf(saved, r)
      <4> SUFFICES ASSUME NEW m \in before, m.repo = cs.repo, m.sha = cs.sha
                   PROVE  m \in saved /\ m.repo = r.repo /\ m.sha = r.sha
        BY DEF RowsOf
      <4>1. m \in rows /\ r \in rows /\ m \in Matching(rows, ask.spec)
        BY <1>4, <1>5 DEF Matching
      <4>2. m \in Rows /\ r \in Rows
        BY <4>1 DEF Typed, TableTyped
      <4>3. m.time = r.time
        BY <1>1, <1>3, <4>2, PagingAssumption
      <4>4. Key(m) = Key(cs)
        BY <1>1, <1>3, <4>3 DEF Key
      <4> QED BY <1>1, <1>3, <1>9, <2>1, <4>1, <4>4
    <3> QED BY <3>1, <3>2
  <2> DEFINE x == [repo |-> r.repo, sha |-> r.sha, time |-> r.time,
                   changes |-> {c.change : c \in RowsOf(saved, r)}]
  <2>4. x \in Assemble(saved)
    BY <2>2 DEF Assemble
  <2>5. x = cs
    <3>1. cs = [repo |-> cs.repo, sha |-> cs.sha, time |-> cs.time, changes |-> cs.changes]
      BY <1>2 DEF Genuine, Changeset
    <3> QED BY <1>1, <1>2, <1>3, <2>3, <3>1
  <2> QED BY <2>4, <2>5
<1> QED BY <1>8, <1>9

LEMMA FetchIsComplete ==
  ASSUME Typed, InOrder, Asked, Complete, Fetch
  PROVE  Complete'
<1> DEFINE n == BatchWithin
           sets == Assemble(queryChangesForChangesets(n))
<1>1. /\ pc = "loop" /\ pc' \in {"loop", "examining"} /\ LoopGoesOn
      /\ pending' = sets /\ exhausted' = (Cardinality(sets) < n)
      /\ UNCHANGED <<rows, req, walk, ask, seek, kept, listed>>
  BY DEF Fetch
<1>2. SUFFICES ASSUME ask.spec = walk.spec, NEW cs \in Wanted \ sets
               PROVE  /\ Passed(seek, cs) /\ Keep(cs) => cs \in Paged
                      /\ ~Passed(seek, cs) =>
                           /\ \A p \in sets : Before(Key(p), Key(cs))
                           /\ ~(Cardinality(sets) < n)
  <2>1. /\ ask' = ask /\ walk' = walk /\ Wanted' = Wanted /\ Paged' = Paged
        /\ \A cs : Keep(cs)' <=> Keep(cs)
        /\ \A cs : Passed(seek, cs)' <=> Passed(seek, cs)
    BY <1>1 DEF Wanted, Settled, InWindow, Matching, Paged, Elements, Keep, Passed
  <2>2. pc' # "answered"
    BY <1>1
  <2> HIDE DEF sets, n
  <2> QED BY <1>1, <2>1, <2>2 DEF Complete, CompleteOnPage
<1>3. CASE Passed(seek, cs)
  <2>1. pending = {}
    BY <1>1 DEF Typed, SetsTyped
  <2> QED BY <1>1, <1>2, <1>3, <2>1 DEF Complete, CompleteOnPage, Walking
<1>4. CASE ~Passed(seek, cs)
  <2>1. n \in Nat
    BY <1>1, PagingAssumption DEF BatchWithin, Smaller, LoopGoesOn, Typed, QueryTyped
  <2>2. seek \in KeySet
    BY <1>1 DEF InOrder, OnPage, Walking
  <2>3. pc # "idle"
    BY <1>1
  <2>4. Key(cs) \in KeysLeft /\ Key(cs) \notin pageCommits(n)
    BY <1>2, <1>4, <2>2, <2>3, WantedIsFetched
  <2>5. /\ {Key(p) : p \in sets} = pageCommits(n)
        /\ Cardinality(sets) < n => pageCommits(n) = KeysLeft
        /\ \A k \in pageCommits(n), l \in KeysLeft : Before(l, k) => l \in pageCommits(n)
        /\ pageCommits(n) \subseteq KeysLeft /\ KeysLeft \subseteq KeySet
    BY <2>1, Batch
  <2> HIDE DEF sets, n
  <2>6. ASSUME NEW p \in sets
        PROVE  Before(Key(p), Key(cs))
    <3>1. Key(p) \in pageCommits(n) /\ Key(p) \in KeySet /\ Key(cs) \in KeySet
      BY <2>4, <2>5
    <3>2. ~Before(Key(cs), Key(p)) /\ Key(cs) # Key(p)
      BY <2>4, <2>5, <3>1
    <3> QED BY <3>1, <3>2, BeforeIsOrder
  <2> QED BY <1>4, <2>4, <2>5, <2>6
<1> QED BY <1>3, <1>4

LEMMA ExamineIsComplete ==
  ASSUME Typed, InOrder, Asked, Complete, Examine
  PROVE  Complete'
<1>1. PICK x \in pending :
        /\ \A p \in pending : ~Before(Key(p), Key(x))
        /\ seek' = Key(x)
        /\ kept' = IF Keep(x) THEN Append(kept, x) ELSE kept
        /\ IF Len(kept') > effectiveLimit \/ pending = {x}
           THEN pc' = "loop" /\ pending' = {}
           ELSE pc' = "examining" /\ pending' = pending \ {x}
  BY DEF Examine
<1>2. pc = "examining" /\ UNCHANGED <<rows, req, walk, ask, exhausted, listed>>
  BY DEF Examine
<1>3. /\ kept \in Seq(Genuine) /\ ~Overfull /\ OnPage
      /\ \A p \in pending : p \in Genuine /\ Key(p) \in KeySet /\ Key(p) # Top
  BY <1>2, SetsAreGenuine, KeysTyped DEF Typed, SetsTyped, InOrder, Walking
<1>4. effectiveLimit' = effectiveLimit
  BY <1>2 DEF effectiveLimit
<1>5. Elements(kept) \subseteq Elements(kept') /\ (Keep(x) => x \in Elements(kept'))
  <2>1. \A i \in DOMAIN kept : i \in DOMAIN kept' /\ kept'[i] = kept[i]
    BY <1>1, <1>3
  <2>2. Keep(x) => Len(kept) + 1 \in DOMAIN kept' /\ kept'[Len(kept) + 1] = x
    BY <1>1, <1>3
  <2> QED BY <2>1, <2>2 DEF Elements
<1> DEFINE paged == Elements(listed) \cup Elements(kept')
<1>6. SUFFICES ASSUME ask.spec = walk.spec, NEW cs \in Wanted \ pending'
               PROVE  /\ Passed(seek', cs) /\ Keep(cs) => cs \in paged
                      /\ ~Passed(seek', cs) =>
                           /\ \A p \in pending' : Before(Key(p), Key(cs))
                           /\ ~(exhausted /\ ~(Len(kept') > effectiveLimit))
  <2>1. /\ ask' = ask /\ walk' = walk /\ Wanted' = Wanted /\ Paged' = paged
        /\ \A cs : Keep(cs)' <=> Keep(cs)
        /\ \A cs : Passed(seek, cs)' <=> Passed(seek', cs)
        /\ Overfull' <=> Len(kept') > effectiveLimit
        /\ exhausted' = exhausted
    BY <1>2, <1>4
       DEF Wanted, Settled, InWindow, Matching, Paged, Elements, Keep, Passed, Overfull
  <2>2. pc' # "answered"
    BY <1>1
  <2> HIDE DEF paged
  <2> QED BY <2>1, <2>2 DEF Complete, CompleteOnPage
<1>7. Key(cs) \in KeySet /\ Key(cs) # Top /\ cs \in Genuine
  BY <1>2, <1>6, WantedIsGenuine
<1>8. CASE cs = x
  <2>1. Passed(seek', cs)
    BY <1>1, <1>3, <1>8, BeforeIsOrder DEF Passed
  <2> QED BY <1>5, <1>8, <2>1
<1>9. CASE cs \in pending /\ cs # x
  <2>1. Len(kept') > effectiveLimit /\ pending' = {}
    BY <1>1, <1>6, <1>9
  <2>2. Key(x) # Key(cs)
    <3>1. Key(x) = Key(cs) => Id(x) = Id(cs)
      BY <1>2, <1>3, <1>6, WantedIsAlone
    <3> QED BY <1>3, <1>9, <3>1 DEF OnPage
  <2>3. Before(Key(x), Key(cs))
    BY <1>1, <1>3, <1>9, <2>2, BeforeIsOrder
  <2> QED BY <1>1, <2>1, <2>3 DEF Passed
<1>10. CASE cs \notin pending
  <2>1. /\ Passed(seek, cs) /\ Keep(cs) => cs \in Paged
        /\ ~Passed(seek, cs) =>
             /\ \A p \in pending : Before(Key(p), Key(cs))
             /\ ~(exhausted /\ ~Overfull)
    BY <1>2, <1>6, <1>10 DEF Complete, CompleteOnPage, Walking
  <2>2. CASE Passed(seek, cs)
    <3>1. seek \in KeySet /\ seek # Top /\ ~Before(seek, Key(cs)) /\ ~Before(Key(x), seek)
      BY <1>3, <2>2 DEF Passed, OnPage
    <3>2. Passed(seek', cs)
      BY <1>1, <1>3, <1>7, <3>1, BeforeIsOrder DEF Passed
    <3> QED BY <1>5, <2>1, <2>2, <3>2 DEF Paged
  <2>3. CASE ~Passed(seek, cs)
    <3>1. Before(Key(x), Key(cs)) /\ ~exhausted
      BY <1>3, <2>1, <2>3
    <3>2. pending' \subseteq pending
      BY <1>1
    <3> QED BY <1>1, <2>1, <2>3, <3>1, <3>2 DEF Passed
  <2> QED BY <2>2, <2>3
<1> QED BY <1>8, <1>9, <1>10

LEMMA AnswerIsComplete ==
  ASSUME Typed, InOrder, InBudget, Asked, Complete, Answer
  PROVE  Complete'
<1>1. /\ pc = "loop" /\ ~LoopGoesOn /\ pc' = "answered" /\ page'.cursor = NextCursor
      /\ UNCHANGED <<rows, req, walk, ask>>
  BY DEF Answer, queryVars
<1>2. PICK n \in 0..Len(kept) :
        /\ listed' \in Seq(Genuine) /\ Len(listed') = Len(listed) + n
        /\ \A i \in 1..Len(listed) : listed'[i] = listed[i]
        /\ \A i \in 1..n : listed'[Len(listed) + i] = kept[i]
        /\ n = IF Overfull THEN effectiveLimit ELSE Len(kept)
  BY AnswerLists
<1>3. /\ kept \in Seq(Genuine) /\ listed \in Seq(Genuine) /\ OnPage /\ pending = {}
      /\ Len(kept) \in Nat /\ Len(listed) \in Nat
      /\ DOMAIN kept = 1..Len(kept) /\ DOMAIN listed = 1..Len(listed)
      /\ DOMAIN listed' = 1..(Len(listed) + n)
  BY <1>1, <1>2 DEF Typed, SetsTyped, InOrder, Walking
<1>4. /\ effectiveLimit \in Nat \ {0} /\ Len(kept) <= effectiveLimit + 1
      /\ Overfull => n = effectiveLimit /\ Len(kept) = n + 1
  BY <1>2, LimitIsPositive DEF Overfull, effectiveLimit, Typed, QueryTyped, SetsTyped
<1>5. Elements(listed) \subseteq Elements(listed')
  <2>1. \A i \in 1..Len(listed) : i \in 1..(Len(listed) + n)
    BY <1>3
  <2> QED BY <1>2, <1>3, <2>1 DEF Elements
<1>6. ASSUME NEW i \in 1..n
      PROVE  kept[i] \in Elements(listed')
  <2>1. Len(listed) + i \in DOMAIN listed'
    BY <1>3
  <2> QED BY <1>2, <2>1 DEF Elements
<1>7. SUFFICES ASSUME ask.spec = walk.spec, NEW cs \in Wanted,
                      page'.cursor = Top \/ Passed(page'.cursor, cs), Keep(cs)
               PROVE  cs \in Elements(listed')
  <2>1. /\ ask' = ask /\ walk' = walk /\ Wanted' = Wanted
        /\ \A cs : Keep(cs)' <=> Keep(cs)
        /\ \A cs : Passed(page.cursor, cs)' <=> Passed(page'.cursor, cs)
    BY <1>1 DEF Wanted, Settled, InWindow, Matching, Keep, Passed
  <2> QED BY <1>1, <2>1 DEF Complete, CompleteAnswer, Walking
<1>8. /\ Passed(seek, cs) => cs \in Paged
      /\ ~Passed(seek, cs) => ~(exhausted /\ ~Overfull)
  BY <1>1, <1>3, <1>7 DEF Complete, CompleteOnPage, Walking
<1>9. cs \in Genuine /\ Key(cs) \in KeySet /\ Key(cs) # Top
  BY <1>1, <1>7, WantedIsGenuine
<1>10. CASE ~Overfull
  <2>1. Passed(seek, cs)
    <3>1. CASE exhausted
      BY <1>8, <1>10, <3>1
    <3>2. CASE ~exhausted
      <4>1. page'.cursor = seek
        BY <1>1, <1>10, <3>2 DEF NextCursor
      <4>2. examined >= MaxChangesetScan
        BY <1>1, <1>10, <3>2, PagingAssumption DEF LoopGoesOn, Typed, QueryTyped
      <4>3. seek # Top
        <5>1. PICK done \in SUBSET Refs(rows) : Paid(done)
          BY <1>1 DEF InBudget, Walking
        <5>2. Cardinality(done) # 0
          BY <4>2, <5>1, PagingAssumption DEF Paid
        <5>3. done # {}
          BY <5>2, FS_EmptySet
        <5> QED BY <5>1, <5>3 DEF Paid
      <4> QED BY <1>7, <4>1, <4>3
    <3> QED BY <3>1, <3>2
  <2>2. n = Len(kept)
    BY <1>2, <1>10
  <2>3. Elements(kept) \subseteq Elements(listed')
    BY <1>3, <1>6, <2>2 DEF Elements
  <2> QED BY <1>5, <1>8, <2>1, <2>3 DEF Paged
<1>11. CASE Overfull
  <2>1. n \in DOMAIN kept /\ Len(kept) = n + 1
    <3>1. n \in Nat \ {0} /\ Len(kept) = n + 1
      BY <1>4, <1>11
    <3>2. n \in 1..Len(kept)
      BY <3>1
    <3> QED BY <1>3, <3>1, <3>2
  <2>2. /\ page'.cursor = Key(kept[n])
        /\ kept[n] \in Genuine /\ Key(kept[n]) \in KeySet /\ Key(kept[n]) # Top
        /\ kept[n] \in Elements(kept)
    BY <1>1, <1>4, <1>11, <2>1, SetsAreGenuine, KeysTyped DEF NextCursor, Elements
  <2>3. ~Before(Key(kept[n]), Key(cs))
    BY <1>7, <2>2 DEF Passed
  <2>4. Passed(seek, cs)
    <3>1. seek # Top /\ seek \in KeySet /\ ~Before(seek, Key(kept[n]))
      BY <1>3, <2>2 DEF OnPage
    <3> QED BY <1>9, <2>2, <2>3, <3>1, BeforeIsOrder DEF Passed
  <2>5. CASE cs \in Elements(listed)
    BY <1>5, <2>5
  <2>6. CASE cs \in Elements(kept)
    <3>1. PICK j \in DOMAIN kept : cs = kept[j]
      BY <2>6 DEF Elements
    <3>2. CASE j <= n
      <4>1. j \in 1..n
        BY <1>3, <3>1, <3>2
      <4> QED BY <1>6, <3>1, <4>1
    <3>3. CASE j > n
      <4>1. n < j
        BY <3>3
      <4>2. ~Before(Key(cs), Key(kept[n])) /\ Id(kept[n]) # Id(cs)
        BY <1>3, <2>1, <3>1, <4>1 DEF OnPage, Ordered
      <4>3. Key(kept[n]) = Key(cs)
        BY <1>9, <2>2, <2>3, <4>2, BeforeIsOrder
      <4> QED BY <1>1, <1>7, <2>2, <4>2, <4>3, WantedIsAlone
    <3> QED BY <1>3, <2>1, <3>1, <3>2, <3>3
  <2> QED BY <1>8, <2>4, <2>5, <2>6 DEF Paged
<1> QED BY <1>10, <1>11

LEMMA CompleteStep ==
  ASSUME Typed, Judged, InOrder, InBudget, Asked, Complete, [Next]_vars
  PROVE  Complete'
<1>1. ASSUME rows \subseteq rows', pc = "idle" => pc' = "idle",
             UNCHANGED <<pc, req, walk, queryVars, page, listed>>
      PROVE  Complete'
  <2>1. SUFFICES ASSUME ask.spec = walk.spec, pc # "idle"
                 PROVE  /\ Walking => CompleteOnPage'
                        /\ pc = "answered" => CompleteAnswer'
    BY <1>1 DEF Complete, Walking, queryVars
  <2>2. \A cs \in Wanted' : cs \in Wanted
    BY <1>1, <2>1, WantedShrinks
  <2>3. /\ \A cs : Keep(cs)' <=> Keep(cs)
        /\ \A cs : Passed(seek, cs)' <=> Passed(seek, cs)
        /\ \A cs : Passed(page.cursor, cs)' <=> Passed(page.cursor, cs)
        /\ Paged' = Paged /\ Elements(listed)' = Elements(listed)
        /\ Overfull' <=> Overfull
        /\ UNCHANGED <<pending, exhausted, page>>
    BY <1>1 DEF Keep, Passed, Paged, Elements, Overfull, effectiveLimit, queryVars
  <2>4. Walking => CompleteOnPage'
    BY <2>1, <2>2, <2>3 DEF Complete, CompleteOnPage
  <2>5. pc = "answered" => CompleteAnswer'
    BY <2>1, <2>2, <2>3 DEF Complete, CompleteAnswer
  <2> QED BY <2>4, <2>5
<1>2. ASSUME NEW r \in Requests, Ask(r)
      PROVE  Complete'
  <2>1. pc' = "loop" /\ pending' = {} /\ exhausted' = FALSE /\ seek' = Top
    BY <1>2, PageBegins DEF Ask
  <2> QED BY <2>1 DEF Complete, CompleteOnPage, Passed
<1>3. CASE AskNext
  <2>1. /\ pc = "answered" /\ pc' = "loop" /\ pending' = {} /\ exhausted' = FALSE
        /\ page.cursor # Top /\ seek' = page.cursor /\ UNCHANGED <<rows, req, listed>>
        /\ ask'.rules = rules /\ ask'.spec = parseFilter(req)
    BY <1>3, PageBegins DEF AskNext, Typed, QueryTyped
  <2>2. /\ walk'.asOf = walk.asOf /\ walk'.spec = walk.spec /\ walk'.rows = walk.rows
        /\ walk'.rules = walk.rules \cup {rules}
    BY <1>3 DEF AskNext
  <2>3. ask.rules \in walk'.rules /\ rules \in walk'.rules
    BY <2>1, <2>2 DEF Judged, JudgedWalk
  <2>4. SUFFICES ASSUME ask'.spec = walk.spec, NEW cs \in Wanted',
                        Passed(page.cursor, cs), allPredicates(req, rules, cs.changes)
                 PROVE  cs \in Elements(listed)
    <3>1. /\ \A cs : Keep(cs)' <=> allPredicates(req, rules, cs.changes)
          /\ \A cs : Passed(seek, cs)' <=> Passed(page.cursor, cs)
          /\ Elements(listed) \subseteq Paged'
      BY <2>1 DEF Keep, Passed, Paged, Elements
    <3> QED BY <2>1, <2>2, <3>1 DEF Complete, CompleteOnPage
  <2>5. ask.spec = walk.spec
    <3>1. PICK K \in SUBSET FacetOptions : \E K0 \in SUBSET K :
            walk.spec = SpecOf(K0) /\ ask.spec = SpecOf(K)
      BY <2>1 DEF Asked
    <3>2. PICK K0 \in SUBSET K : walk.spec = SpecOf(K0) /\ ask.spec = SpecOf(K)
      BY <3>1
    <3>3. SpecOf(FacetOptions) = SpecOf(K0)
      BY <2>1, <2>4, <3>2 DEF parseFilter, SpecOf
    <3> QED BY <3>2, <3>3, SpecBetween
  <2>6. /\ cs \in Wanted
        /\ \A old, new \in walk'.rules :
             allPredicates(req, old, cs.changes) <=> allPredicates(req, new, cs.changes)
    BY <2>1, <2>2, <2>4, WantedShrinks
  <2>7. Keep(cs)
    BY <2>3, <2>4, <2>6 DEF Keep
  <2> QED BY <2>1, <2>4, <2>5, <2>6, <2>7 DEF Complete, CompleteAnswer
<1>4. ASSUME NEW r \in Rows, SaveChange(r)
      PROVE  Complete'
  BY <1>1, <1>4 DEF SaveChange
<1>5. ASSUME NEW raw \in RuleFiles, ReloadRules(raw)
      PROVE  Complete'
  BY <1>1, <1>5 DEF ReloadRules
<1>6. ASSUME NEW r \in Requests, Refuse(r)
      PROVE  Complete'
  BY <1>6 DEF Refuse, Complete, Walking
<1>7. CASE Leave
  BY <1>7 DEF Leave, Complete, Walking
<1>8. CASE UNCHANGED vars
  BY <1>1, <1>8 DEF vars
<1> QED
  BY <1>1, <1>2, <1>3, <1>4, <1>5, <1>6, <1>7, <1>8,
     FetchIsComplete, ExamineIsComplete, AnswerIsComplete DEF Next, QueryStep

LEMMA CompleteIsListing ==
  ASSUME Typed, Judged, Asked, Complete
  PROVE  WalkIsTheListing
<1> SUFFICES ASSUME pc = "answered", page.cursor = Top, ask.spec = walk.spec,
                    NEW cs \in Wanted
             PROVE  Keep(cs) <=> \E i \in DOMAIN listed : listed[i] = cs
  BY DEF WalkIsTheListing, Wanted
<1>1. Keep(cs) => \E i \in DOMAIN listed : listed[i] = cs
  BY DEF Complete, CompleteAnswer, Elements
<1>2. ASSUME NEW i \in DOMAIN listed, listed[i] = cs
      PROVE  Keep(cs)
  <2>1. PICK ruleList \in walk.rules : allPredicates(req, ruleList, cs.changes)
    BY <1>2 DEF Judged, JudgedWalk
  <2>2. ask.rules \in walk.rules
    BY DEF Judged, JudgedWalk
  <2> QED BY <2>1, <2>2 DEF Wanted, Settled, Keep
<1> QED BY <1>1, <1>2

\* A walk lists exactly what a single listing of the table it began with would
\* have: whatever is saved or reloaded between its pages, wherever pages end
\* and budgets run out, nothing that stayed as it was is skipped.
THEOREM WalksList == Spec => []WalkIsTheListing
<1> DEFINE Inv == Typed /\ Judged /\ InOrder /\ InBudget /\ Asked /\ Complete
<1>1. Init => Judged /\ InOrder /\ InBudget /\ Asked /\ Complete
  BY DEF Init, Judged, JudgedPage, JudgedWalk, InOrder, Ordered, Walking, InBudget,
         Asked, Complete
<1>2. Inv /\ [Next]_vars => Inv'
  BY TypedStep, JudgedStep, InOrderStep, InBudgetStep, AskedStep, CompleteStep
<1>3. Inv => WalkIsTheListing
  BY CompleteIsListing
<1> QED BY <1>1, <1>2, <1>3, StartsTyped, PTL DEF Spec
=============================================================================
