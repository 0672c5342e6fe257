\* A client pages through six changes of five commits of two repositories, two
\* commits of which share their key, while half of them are saved and the risk
\* rules are reloaded; pages of one or two changesets, a budget of three.
SPECIFICATION Spec
CONSTANTS
  Rows <- AllRows
  Stored <- SomeRows
  Requests <- SomeRequests
  RuleFiles <- SomeRules
  Instants = {8, 11}
  DefaultPageSize = 2
  MaxPageSize = 2
  MaxChangesetPageSize = 3
  MaxChangesetScan = 3
  maxChangesetScanBatch = 3
INVARIANTS TypeOK EachListedOnce WalkIsTheListing PagesAreBounded
  BadgesAgreeWithFilter BumpsAreMajor
PROPERTIES WalksEnd
