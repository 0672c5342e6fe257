------------------------------ MODULE PollCycle ------------------------------
(***************************************************************************)
(* The polling of one file by the trackers that share it: pollFileGroup    *)
(* and pollFieldHistory of internal/poller, over the walk of               *)
(* internal/gitsource and the tables of internal/store.                    *)
(*                                                                         *)
(* One goroutine polls.  Around it the local clone's HEAD moves at any     *)
(* time, because a poll and every web request that resolves a repository   *)
(* fetch into the same clone; the clock runs; the process stops between    *)
(* any two writes; and any store call may fail.  What the store holds      *)
(* survives a stop, what the poll holds does not.                          *)
(*                                                                         *)
(* A commit stands for one revision of the file.  It is named by its       *)
(* position in log, the commits in the order they were first published;    *)
(* head is the file's history from HEAD as the walk reports it, oldest     *)
(* first.                                                                  *)
(***************************************************************************)
EXTENDS Integers, Sequences

CONSTANTS
  Fields,            \* the fields tracked in the file, one tracker each
  Keys,              \* the keys of an extracted map (a scalar has one)
  Values,            \* the values of a key
  Absent,            \* "this key is not in the file"
  Contents,          \* the contents a commit may give the file
  Times,             \* the author times a commit may have
  Window,            \* Window[d]: the backfill window of d, or Unbounded
  NoField,           \* "no field is being replayed"
  MaxCommitsPerWalk, \* the cap on the commits of one walk
  AllowMerge,        \* may a merge put a commit before ones already seen?
  AllowRewrite,      \* may a force-push drop commits, and bring them back?
  MaxHistory,        \* bound: commits of the file reachable from HEAD
  MaxCommits,        \* bound: commits ever published
  MaxTime,           \* bound: the clock
  MaxFaults          \* bound: failed calls and stops of the process

Unbounded == -1
NoBound == 0
TimeUnknown == 0

FieldValue == [Keys -> Values \cup {Absent}]

\* The fields whose extraction fails on this content are malformed.
ContentType == [val : [Fields -> FieldValue], malformed : SUBSET Fields]

ASSUME PollCycleAssumption ==
  /\ Contents \subseteq ContentType
  /\ Times \subseteq Nat \ {0}
  /\ Window \in [Fields -> Nat \cup {Unbounded}]
  /\ NoField \notin Fields
  /\ MaxCommitsPerWalk \in Nat \ {0}
  /\ AllowMerge \in BOOLEAN /\ AllowRewrite \in BOOLEAN
  /\ MaxHistory \in Nat /\ MaxCommits \in Nat
  /\ MaxTime \in Nat \ {0} /\ MaxFaults \in Nat

VARIABLES
  \* the repository and the clock
  log,        \* every commit ever published: [time, parent, content]
  head,       \* the file's history from HEAD, oldest first
  now,
  \* the store
  changes,    \* rows of the changes table: [field, key, sha, old, new]
  hwm,        \* hwm[d]: d's high-water mark [sha, time], sha 0 when it has none
  \* the poll in progress
  pc,         \* "idle", "walked", "fields" or "replay"
  live,       \* the fields whose mark could be read
  bound,      \* the time bound of the first walk
  walk,       \* the walked history
  todo,       \* live fields not replayed yet
  errs,       \* the fields the poll reports an error for
  \* the replay of one field
  cur,        \* the field
  from,       \* the commit its first diff starts from, 0 for "absent"
  run,        \* the commits to replay
  pos,        \* how many of them are extracted
  pend,       \* the rows of commit run[pos] not saved yet
  faults,     \* failures so far
  \* history variables
  covered,    \* covered[d]: the commits d's mark has passed over
  baseline    \* baseline[d]: the oldest commit of d's first poll

repoVars == <<log, head>>
storeVars == <<changes, hwm, covered, baseline>>
pollVars == <<live, bound, walk, todo>>
runVars == <<cur, from, run, pos, pend>>
vars == <<repoVars, now, storeVars, pc, pollVars, errs, runVars, faults>>

-----------------------------------------------------------------------------
(* Helpers *)

Elements(s) == {s[i] : i \in 1..Len(s)}
Newest(s) == s[Len(s)]
Tip == IF head = <<>> THEN 0 ELSE Newest(head)

Nothing == [k \in Keys |-> Absent]
NoMark == [sha |-> 0, time |-> TimeUnknown]
HasMark(d) == hwm[d].sha # 0

Value(c, d) == log[c].content.val[d]
Malformed(c, d) == d \in log[c].content.malformed

\* The value of d just before commit c.
Before(c, d) ==
  IF log[c].parent = 0 THEN Nothing ELSE Value(log[c].parent, d)

Row ==
  [field : Fields, key : Keys, sha : DOMAIN log,
   old : Values \cup {Absent}, new : Values \cup {Absent}]

\* Mutant: the unique index leaves the key out.
SameIdentityWithoutKey(r, s) == r.field = s.field /\ r.sha = s.sha

SameIdentity(r, s) ==
  r.field = s.field /\ r.key = s.key /\ r.sha = s.sha

\* Mutant: a key that disappears is not a change.
DiffRowsWithoutRemovals(d, c, old, new) ==
  {[field |-> d, key |-> k, sha |-> c, old |-> old[k], new |-> new[k]] :
     k \in {j \in Keys : old[j] # new[j] /\ new[j] # Absent}}

\* diffFields: one row per key whose value differs.
DiffRows(d, c, old, new) ==
  {[field |-> d, key |-> k, sha |-> c, old |-> old[k], new |-> new[k]] :
     k \in {j \in Keys : old[j] # new[j]}}

\* outOfWindow.
OutOfWindow(c, b) == b # NoBound /\ log[c].time < b

\* WalkCommits(b) over history h returns h from position lo + 1: newest first,
\* it stops at the first commit out of the window, and at the cap.
StartsWalk(h, b, lo) ==
  /\ \A j \in lo + 1 .. Len(h) : ~OutOfWindow(h[j], b)
  /\ Len(h) - lo <= MaxCommitsPerWalk
  /\ lo > 0 /\ Len(h) - lo < MaxCommitsPerWalk => OutOfWindow(h[lo], b)

\* NotBefore(b) keeps h from position lo + 1.
StartsWindow(h, b, lo) ==
  /\ \A j \in lo + 1 .. Len(h) : ~OutOfWindow(h[j], b)
  /\ lo > 0 => OutOfWindow(h[lo], b)

After(h, lo) == SubSeq(h, lo + 1, Len(h))

\* backfillBound.
BackfillBound(d) ==
  IF Window[d] = Unbounded \/ now <= Window[d] THEN NoBound ELSE now - Window[d]

\* The boundary d needs of the shared walk; an unknown time is no bound.
FieldBound(d) == IF HasMark(d) THEN hwm[d].time ELSE BackfillBound(d)

\* groupWalkBound: the oldest boundary any of the fields L needs.
IsGroupWalkBound(L, b) == \A d \in L : b <= FieldBound(d)

\* Mutant: the result of a bounded walk is trusted.
CursorsUnchecked(h, L) == TRUE

\* cursorsPresent.
CursorsPresent(h, L) ==
  \A d \in L : HasMark(d) => hwm[d].sha \in Elements(h)

\* The changes table after SaveChange(r): a row whose identity it already has
\* is ignored.
SavedWith(r) ==
  IF \E s \in changes : SameIdentity(r, s) THEN changes ELSE changes \cup {r}

\* The mark SetHighWaterMark leaves after a replay that ended at commit c.
MarkAt(c) == [sha |-> c, time |-> log[c].time]

-----------------------------------------------------------------------------
(* The repository: what fetches bring into the clone *)

NewCommit(t, p, x) == [time |-> t, parent |-> p, content |-> x]

\* A commit on top of HEAD.  Its author time is whatever its author's clock,
\* rebase or amend made it.
Push(t, x) ==
  /\ Len(log) < MaxCommits
  /\ Len(head) < MaxHistory
  /\ log' = Append(log, NewCommit(t, Tip, x))
  /\ head' = Append(head, Len(log) + 1)

\* A branch that left the history after position k, with one commit of content
\* x, is merged with the result y; after position 0, before the file was there,
\* if the branch adds the file as well.  The walk orders commits by committer
\* time, so the branch's commit comes before commits that were already seen.
\* (Merges and force-pushes are explored apart: a restored merge would need its
\* branch.)
Merge(k, t, x, u, y) ==
  /\ AllowMerge
  /\ Len(log) + 1 < MaxCommits
  /\ Len(head) + 1 < MaxHistory
  /\ log' = log \o <<NewCommit(t, IF k = 0 THEN 0 ELSE head[k], x),
                     NewCommit(u, Tip, y)>>
  /\ head' = SubSeq(head, 1, k) \o <<Len(log) + 1>>
               \o After(head, k) \o <<Len(log) + 2>>

\* A force-push drops the commits after position k.
Rewind(k) ==
  /\ AllowRewrite
  /\ head' = SubSeq(head, 1, k)
  /\ UNCHANGED log

\* A force-push brings a dropped commit back.
Restore(c) ==
  /\ AllowRewrite
  /\ log[c].parent = Tip
  /\ Len(head) < MaxHistory
  /\ head' = Append(head, c)
  /\ UNCHANGED log

HeadMoves ==
  /\ \/ \E t \in Times, x \in Contents : Push(t, x)
     \/ \E k \in 0..Len(head) - 1, t, u \in Times, x, y \in Contents :
          Merge(k, t, x, u, y)
     \/ \E k \in 0..Len(head) - 1 : Rewind(k)
     \/ \E c \in DOMAIN log : Restore(c)
  /\ UNCHANGED <<now, storeVars, pc, pollVars, errs, runVars, faults>>

Tick ==
  /\ now < MaxTime
  /\ now' = now + 1
  /\ UNCHANGED <<repoVars, storeVars, pc, pollVars, errs, runVars, faults>>

-----------------------------------------------------------------------------
(* The poll *)

Fault ==
  /\ faults < MaxFaults
  /\ faults' = faults + 1

PollForgotten ==
  live' = {} /\ bound' = NoBound /\ walk' = <<>> /\ todo' = {} /\ errs' = {}

RunForgotten ==
  cur' = NoField /\ from' = 0 /\ run' = <<>> /\ pos' = 0 /\ pend' = {}

\* The marks of the fields L are read, those of the others could not be; then
\* the file is walked once for all of L.
BeginPoll(L) ==
  /\ pc = "idle"
  /\ L # {}
  /\ IF L = Fields THEN UNCHANGED faults ELSE Fault
  /\ \E b \in {FieldBound(d) : d \in L} : \E lo \in 0..Len(head) :
       /\ IsGroupWalkBound(L, b)
       /\ StartsWalk(head, b, lo)
       /\ bound' = b
       /\ walk' = After(head, lo)
  /\ live' = L
  /\ errs' = Fields \ L
  /\ pc' = "walked"
  /\ UNCHANGED <<repoVars, now, storeVars, todo, runVars>>

\* Mutant: any history will do.
AnyWalkSuffices == bound = NoBound \/ walk # <<>>

WalkSuffices == bound = NoBound \/ CursorsPresent(walk, live)

\* With no history in range there is nothing for any field to do.
BeginFields(h) ==
  IF h = <<>>
  THEN pc' = "idle" /\ PollForgotten
  ELSE /\ pc' = "fields" /\ todo' = live /\ walk' = h
       /\ UNCHANGED <<live, bound, errs>>

KeepWalk ==
  /\ pc = "walked"
  /\ WalkSuffices
  /\ BeginFields(walk)
  /\ UNCHANGED <<repoVars, now, storeVars, runVars, faults>>

\* A bounded walk that missed a mark is done again without a bound, from
\* wherever HEAD is by now.
Rewalk ==
  /\ pc = "walked"
  /\ ~WalkSuffices
  /\ \E lo \in 0..Len(head) :
       StartsWalk(head, NoBound, lo) /\ BeginFields(After(head, lo))
  /\ UNCHANGED <<repoVars, now, storeVars, runVars, faults>>

\* It fails: every field of the poll ends with an error.
RewalkFails ==
  /\ pc = "walked"
  /\ ~WalkSuffices
  /\ Fault
  /\ pc' = "idle"
  /\ PollForgotten
  /\ UNCHANGED <<repoVars, now, storeVars, runVars>>

\* Field d has nothing to do.
Skip(d) ==
  /\ todo' = todo \ {d}
  /\ UNCHANGED <<pc, errs, runVars>>

\* Mutant: the error of one field ends the poll of the others.
RejectGroup(d) ==
  /\ todo' = {}
  /\ errs' = errs \cup {d}
  /\ UNCHANGED <<pc, runVars>>

\* Field d fails before its first row: an extraction error.
Reject(d) ==
  /\ todo' = todo \ {d}
  /\ errs' = errs \cup {d}
  /\ UNCHANGED <<pc, runVars>>

\* Field d replays the commits s; the first is diffed against commit c.
Replay(d, c, s) ==
  /\ todo' = todo \ {d}
  /\ cur' = d /\ from' = c /\ run' = s /\ pos' = 0 /\ pend' = {}
  /\ pc' = "replay"
  /\ UNCHANGED errs

\* The first poll of d: the oldest commit of its window is the state to start
\* from, unless it is the only one, which is reported as an addition.
FirstRun(d) ==
  /\ pc = "fields"
  /\ d \in todo
  /\ ~HasMark(d)
  /\ \E lo \in 0..Len(walk) :
       /\ StartsWindow(walk, BackfillBound(d), lo)
       /\ LET s == After(walk, lo) IN
          IF s = <<>> THEN Skip(d)
          ELSE IF Malformed(Head(s), d) THEN Reject(d)
          ELSE IF Len(s) = 1 THEN Replay(d, 0, s)
          ELSE Replay(d, Head(s), Tail(s))
  /\ UNCHANGED <<repoVars, now, storeVars, live, bound, walk, faults>>

\* Mutant: a field that lost its mark starts from HEAD.
NewestOnly == <<Newest(walk)>>

\* What Since returns when the mark is not in the walk: all of it.
WholeWalk == walk

\* Since: d resumes after its mark, or without one against an absent field.
Resume(d) ==
  /\ pc = "fields"
  /\ d \in todo
  /\ HasMark(d)
  /\ \/ \E i \in 1..Len(walk) :
          /\ walk[i] = hwm[d].sha
          /\ IF i = Len(walk) THEN Skip(d)
             ELSE IF Malformed(walk[i], d) THEN Reject(d)
             ELSE Replay(d, walk[i], After(walk, i))
     \/ /\ hwm[d].sha \notin Elements(walk)
        /\ Replay(d, 0, WholeWalk)
  /\ UNCHANGED <<repoVars, now, storeVars, live, bound, walk, faults>>

EndPoll ==
  /\ pc = "fields"
  /\ todo = {}
  /\ pc' = "idle"
  /\ PollForgotten
  /\ UNCHANGED <<repoVars, now, storeVars, runVars, faults>>

-----------------------------------------------------------------------------
(* The replay of one field *)

\* Mutant: prevField is not moved along.
PrevNeverMoved == IF from = 0 THEN Nothing ELSE Value(from, cur)

\* prevField of the loop.
Prev ==
  IF pos > 0 THEN Value(run[pos], cur)
  ELSE IF from = 0 THEN Nothing ELSE Value(from, cur)

\* Mutant: the error is logged, not returned.
FieldFailsQuietly ==
  /\ pc' = "fields"
  /\ RunForgotten
  /\ UNCHANGED errs

\* The field's replay stops at an error; the rows it saved stay.
FieldFails ==
  /\ errs' = errs \cup {cur}
  /\ pc' = "fields"
  /\ RunForgotten

\* The next commit is extracted and diffed against the one before it.
ExtractNext ==
  /\ pc = "replay"
  /\ pend = {}
  /\ pos < Len(run)
  /\ LET c == run[pos + 1] IN
     IF Malformed(c, cur)
     THEN FieldFails
     ELSE /\ pos' = pos + 1
          /\ pend' = DiffRows(cur, c, Prev, Value(c, cur))
          /\ UNCHANGED <<pc, errs, cur, from, run>>
  /\ UNCHANGED <<repoVars, now, storeVars, pollVars, faults>>

SaveChange(r) ==
  /\ pc = "replay"
  /\ r \in pend
  /\ changes' = SavedWith(r)
  /\ pend' = pend \ {r}
  /\ UNCHANGED <<repoVars, now, hwm, covered, baseline, pc, pollVars, errs,
                 cur, from, run, pos, faults>>

ReplayDone == pend = {} /\ pos = Len(run)

SetHighWaterMark ==
  /\ pc = "replay"
  /\ ReplayDone
  /\ hwm' = [hwm EXCEPT ![cur] = MarkAt(run[pos])]
  /\ covered' = [covered EXCEPT ![cur] = @ \cup Elements(run) \cup ({from} \ {0})]
  /\ baseline' =
       IF HasMark(cur) THEN baseline
       ELSE [baseline EXCEPT ![cur] = {IF from = 0 THEN run[1] ELSE from}]
  /\ pc' = "fields"
  /\ RunForgotten
  /\ UNCHANGED <<repoVars, now, changes, pollVars, errs, faults>>

\* A store write of the replay fails.
WriteFails ==
  /\ pc = "replay"
  /\ pend # {} \/ ReplayDone
  /\ Fault
  /\ FieldFails
  /\ UNCHANGED <<repoVars, now, storeVars, pollVars>>

\* The process stops during a poll, and starts again.
Crash ==
  /\ pc # "idle"
  /\ Fault
  /\ pc' = "idle"
  /\ PollForgotten
  /\ RunForgotten
  /\ UNCHANGED <<repoVars, now, storeVars>>

-----------------------------------------------------------------------------
(* Specification *)

\* The store is new, or holds what polls recorded before marks had times: the
\* file had one commit then, and some of the fields have their mark on it.
Init ==
  /\ \/ /\ log = <<>> /\ head = <<>>
        /\ hwm = [d \in Fields |-> NoMark]
     \/ /\ MaxCommits > 0 /\ MaxHistory > 0
        /\ \E t \in Times, x \in Contents :
             /\ log = <<NewCommit(t, 0, x)>>
             /\ head = <<1>>
             /\ \E L \in SUBSET (Fields \ x.malformed) :
                  hwm = [d \in Fields |->
                           IF d \in L THEN [sha |-> 1, time |-> TimeUnknown]
                           ELSE NoMark]
  /\ changes = UNION {DiffRows(d, 1, Nothing, Value(1, d)) :
                        d \in {e \in Fields : HasMark(e)}}
  /\ covered = [d \in Fields |-> IF HasMark(d) THEN {1} ELSE {}]
  /\ baseline = covered
  /\ now = 1
  /\ pc = "idle"
  /\ live = {} /\ bound = NoBound /\ walk = <<>> /\ todo = {}
  /\ errs = {}
  /\ cur = NoField /\ from = 0 /\ run = <<>> /\ pos = 0 /\ pend = {}
  /\ faults = 0

\* A step of a poll in progress that no failure takes part in.
PollStep ==
  \/ KeepWalk
  \/ Rewalk
  \/ \E d \in todo : FirstRun(d)
  \/ \E d \in todo : Resume(d)
  \/ EndPoll
  \/ ExtractNext
  \/ \E r \in pend : SaveChange(r)
  \/ SetHighWaterMark

Next ==
  \/ HeadMoves
  \/ Tick
  \/ \E L \in SUBSET Fields : BeginPoll(L)
  \/ PollStep
  \/ RewalkFails
  \/ WriteFails
  \/ Crash

Spec == Init /\ [][Next]_vars

\* The scheduler polls again and again, and a poll runs to its end.
FairSpec == Spec /\ WF_vars(BeginPoll(Fields)) /\ WF_vars(PollStep)

-----------------------------------------------------------------------------
(* Properties *)

TypeOK ==
  /\ log \in Seq([time : Times, parent : Nat, content : Contents])
  /\ head \in Seq(DOMAIN log)
  /\ now \in 1..MaxTime
  /\ changes \subseteq Row
  /\ hwm \in [Fields -> [sha : 0..Len(log), time : Nat]]
  /\ pc \in {"idle", "walked", "fields", "replay"}
  /\ live \subseteq Fields
  /\ bound \in Nat
  /\ walk \in Seq(DOMAIN log)
  /\ todo \subseteq Fields
  /\ errs \subseteq Fields
  /\ cur \in Fields \cup {NoField}
  /\ from \in 0..Len(log)
  /\ run \in Seq(DOMAIN log)
  /\ pos \in 0..Len(run)
  /\ pend \subseteq Row
  /\ faults \in 0..MaxFaults
  /\ covered \in [Fields -> SUBSET DOMAIN log]
  /\ baseline \in [Fields -> SUBSET DOMAIN log]

\* The window of d does not reach back to the parent of commit c.
BeginsWindow(c, d) ==
  log[c].parent # 0 /\ OutOfWindow(log[c].parent, BackfillBound(d))

\* Every row of the feed states a transition its commit really made: the new
\* value is the commit's, and the old one its parent's.  Only for a commit whose
\* parent is out of the backfill window of its field may it say "added" instead:
\* a first poll that found the commit alone in the window wrote it.  Polls that
\* were cut off and repeated, walks cut short by skewed author times, marks lost
\* to a force-push and replays from the root must all lead to the same rows
\* (emitChanges over the slices of Since and NotBefore, and the row identity of
\* SaveChange).
FeedIsTruthful ==
  \A r \in changes :
    /\ r.new = Value(r.sha, r.field)[r.key]
    /\ \/ r.old = Before(r.sha, r.field)[r.key]
       \/ r.old = Absent /\ BeginsWindow(r.sha, r.field)

\* Every key that commit c changed has its row.
Recorded(c, d) ==
  \A k \in Keys :
    Before(c, d)[k] # Value(c, d)[k] =>
      \E r \in changes : r.field = d /\ r.key = k /\ r.sha = c

\* A high-water mark never runs ahead of the feed: behind the mark of a field,
\* every commit of the current history that changed the field has its rows,
\* back to the baseline of the field's first poll.  A mark written before its
\* rows, moved past a failed commit, or resumed from a walk that missed it
\* would leave a hole that no later poll fills.
NoGapBehindMark ==
  \A d \in Fields : \A i \in 1..Len(head) : head[i] = hwm[d].sha =>
    \A j \in 1..i :
      \/ Recorded(head[j], d)
      \/ \E m \in j..i : head[m] \in baseline[d]

\* The same without reference to HEAD, for commits a force-push took away too:
\* a mark stands on a commit whose past was passed over by marks, commit by
\* commit, each with its rows, down to a root or a baseline.
Coverage ==
  \A d \in Fields :
    /\ HasMark(d) => hwm[d].sha \in covered[d]
    /\ \A x \in covered[d] \ baseline[d] :
         Recorded(x, d) /\ log[x].parent \in covered[d] \cup {0}

\* The walk the fields are replayed against reaches every mark that is still in
\* it or goes down to the root: bounding the walk by author time, in a history
\* ordered by committer time, never makes a mark look rewritten away.
WalkReachesMarks ==
  pc = "fields" =>
    \A d \in todo : HasMark(d) =>
      \/ hwm[d].sha \in Elements(walk)
      \/ log[walk[1]].parent = 0

\* A poll that reports no error for a field has recorded the field up to the
\* newest commit it walked, unless that is out of the window of a first poll.
SuccessMeansCaughtUp ==
  pc = "fields" /\ todo = {} =>
    \A d \in Fields \ errs :
      \/ hwm[d].sha = Newest(walk)
      \/ ~HasMark(d) /\ OutOfWindow(Newest(walk), BackfillBound(d))

\* However the rows came about, the newest row of a key in the history behind a
\* mark that has reached HEAD ends at the value the key has there.  A merge may
\* have slipped commits in behind the mark, and a force-push may have left rows
\* of other histories in the table, but the feed never ends at a stale value,
\* unless the row is older than the baseline: a first poll that is cut off and
\* repeated when commits have left its window starts afresh behind its own rows.
FeedEndsAtHead ==
  \A d \in Fields : hwm[d].sha = Tip /\ Tip # 0 =>
    \A r \in changes : \A i \in 1..Len(head) :
      \/ r.field # d \/ r.sha # head[i]
      \/ r.new = Value(Tip, d)[r.key]
      \/ \E j \in i + 1 .. Len(head) :
           \/ head[j] \in baseline[d]
           \/ \E s \in changes : s.field = d /\ s.key = r.key /\ s.sha = head[j]

CaughtUp(d) ==
  \/ head = <<>>
  \/ hwm[d].sha = Tip
  \/ ~HasMark(d) /\ OutOfWindow(Tip, BackfillBound(d))

Readable(d) == \A c \in DOMAIN log : ~Malformed(c, d)

\* A field whose file could always be extracted ends up recorded to HEAD once
\* HEAD and the clock stand still, whatever failed on the way and whatever its
\* sibling fields of the same walk run into.
HeadSettles == <>[][FALSE]_head

EventuallyCaughtUp ==
  HeadSettles => \A d \in Fields : <>[](Readable(d) => CaughtUp(d))

-----------------------------------------------------------------------------
Feed == INSTANCE ChangeFeed WITH
  feed <- changes,
  cursor <- [d \in Fields |-> hwm[d].sha],
  Bounded <- {d \in Fields : Window[d] # Unbounded}

\* The poll implements the feed it promises.
ImplementsFeed == Feed!Spec
=============================================================================
