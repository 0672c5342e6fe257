----------------------------- MODULE ChangeFeed -----------------------------
(***************************************************************************)
(* What polling one file promises to a reader of the feed, with no walks,  *)
(* no high-water marks in flight, no retries and no crashes in it.         *)
(*                                                                         *)
(* Commits are published to a log that only grows.  Each tracked field has *)
(* a cursor.  The feed only grows, by rows that state a transition some    *)
(* commit really made; a cursor moves only to a commit whose whole past,   *)
(* back to the field's baseline (the commit its first poll started from),  *)
(* is already in the feed.  PollCycle implements this specification.       *)
(***************************************************************************)
EXTENDS Integers, Sequences

CONSTANTS
  Fields,     \* the tracked fields of the file
  Keys,       \* the keys of a field that extracts to a map
  Values,     \* the values a key can have
  Absent,     \* the value of a key the file does not have
  Contents,   \* the contents of the file: [val, malformed]
  Times,      \* the author times of commits
  Bounded     \* the fields whose first poll has a backfill window

VARIABLES
  log,        \* the published commits: [parent, content, ...], in the order published
  feed,       \* the recorded rows: [field, key, sha, old, new]
  cursor,     \* cursor[d]: the last commit recorded for field d, 0 if none
  covered,    \* covered[d]: the commits that cursors of d have passed over
  baseline    \* baseline[d]: the commit d's first poll started from, if any

vars == <<log, feed, cursor, covered, baseline>>

-----------------------------------------------------------------------------
Nothing == [k \in Keys |-> Absent]

Value(c, d) == log[c].content.val[d]

\* The value of field d just before commit c.
Before(c, d) ==
  IF log[c].parent = 0 THEN Nothing ELSE Value(log[c].parent, d)

SameIdentity(r, s) ==
  r.field = s.field /\ r.key = s.key /\ r.sha = s.sha

\* Row r states the transition its commit made.  The first poll of a field with
\* a backfill window may also report the window's only commit as an addition.
Truthful(r) ==
  /\ r.sha \in DOMAIN log
  /\ r.new = Value(r.sha, r.field)[r.key]
  /\ \/ r.old = Before(r.sha, r.field)[r.key]
     \/ r.field \in Bounded /\ r.old = Absent

\* Every key that commit c changed has its row.
Recorded(c, d) ==
  \A k \in Keys :
    Before(c, d)[k] # Value(c, d)[k] =>
      \E r \in feed : r.field = d /\ r.key = k /\ r.sha = c

-----------------------------------------------------------------------------
Init ==
  /\ cursor \in [Fields -> 0..Len(log)]
  /\ baseline = [d \in Fields |-> IF cursor[d] = 0 THEN {} ELSE {cursor[d]}]
  /\ covered = baseline
  /\ \A r \in feed : Truthful(r)

\* Every step shows the reader something new.
Publish ==
  /\ log' # log
  /\ UNCHANGED <<feed, cursor, covered, baseline>>
  /\ \E t \in Times, p \in 0..Len(log), x \in Contents :
       log' = Append(log, [time |-> t, parent |-> p, content |-> x])

Row ==
  [field : Fields, key : Keys, sha : DOMAIN log,
   old : Values \cup {Absent}, new : Values \cup {Absent}]

\* A row enters the feed once: a commit's row is never replaced.
Record ==
  /\ feed' # feed
  /\ UNCHANGED <<log, cursor, covered, baseline>>
  /\ \E r \in Row :
       /\ r \in feed' \ feed
       /\ Truthful(r)
       /\ \A s \in feed : ~SameIdentity(r, s)
       /\ feed' = feed \cup {r}

\* The cursor of d moves to c, one of the commits S it passes over.  Each is
\* recorded, and so is its past, back to a commit passed over before, to a root
\* commit, or to a baseline; a baseline is set only while d has no cursor.
Advance(d) ==
  /\ <<cursor', covered', baseline'>> # <<cursor, covered, baseline>>
  /\ UNCHANGED <<log, feed>>
  /\ \E S \in SUBSET DOMAIN log : \E c \in S : \E B \in SUBSET S :
       /\ cursor' = [cursor EXCEPT ![d] = c]
       /\ covered' = [covered EXCEPT ![d] = @ \cup S]
       /\ baseline' = [baseline EXCEPT ![d] = @ \cup B]
       /\ cursor[d] # 0 => B = {}
       /\ \A x \in S \ B :
            Recorded(x, d) /\ log[x].parent \in covered[d] \cup S \cup {0}

Next == Publish \/ Record \/ \E d \in Fields : Advance(d)

Spec == Init /\ [][Next]_vars
=============================================================================
