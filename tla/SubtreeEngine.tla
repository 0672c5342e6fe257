---------------------------- MODULE SubtreeEngine ----------------------------
(***************************************************************************)
(* The engine behind the chart and plan diffs: Engine.Diff of              *)
(* internal/subtree with its LRU cache (internal/lru), its single flight   *)
(* per key, the two concurrency caps, the two timeouts, and the temporary  *)
(* directories whose cleanup passes from hand to hand.                     *)
(*                                                                         *)
(* A caller is an HTTP handler's goroutine.  Materializing and producing   *)
(* cannot be interrupted: each runs in a goroutine of its own, and a       *)
(* caller that gives up on it leaves it behind, with a waiter that removes *)
(* the directory when it is done.  A panic in either is an error of its.   *)
(***************************************************************************)
EXTENDS Naturals, Sequences, FiniteSets

CONSTANTS
  Callers,
  Keys,          \* cache keys: repository, path, commit and its parent
  Dirs,          \* bound: temporary directories at a time
  Cap,           \* Cap[s]: the concurrency cap of step s
  CacheEntries,  \* capacity of the cache
  None,          \* "no caller", "no directory", "no outcome"
  MaxCalls,      \* bound: calls of Diff
  MaxHangups     \* bound: clients that hang up at a time

Places == {"idle", "called", "missed", "following", "leading", "dir", "queued",
           "waiting", "computed", "added"}
Steps == {"materialize", "produce"}
Sides == {"old", "new"}

\* The engine's Failure kinds and success.  why is a history field: what made
\* the engine give up.
Kinds == {"ok", "noPriorVersion", "exceededLimits", "produceFailed", "internal"}
Whys == {"none", "ceiling", "cancelled"}
Outcome == [key : Keys, kind : Kinds, why : Whys]

ASSUME EngineAssumption ==
  /\ Cap \in [Steps -> Nat \ {0}]
  /\ CacheEntries \in Nat \ {0}
  /\ MaxCalls \in Nat /\ MaxHangups \in Nat
  /\ None \notin Callers \cup Dirs \cup Outcome
  /\ Keys # {}

Job == Dirs \X Steps

VARIABLES
  \* a call of Diff
  pc,         \* where it is: one of Places
  key,        \* its cache key
  gone,       \* gone[c]: the context of c's call is cancelled
  side,       \* the side being computed
  step,       \* and the step
  dir,        \* the directory being filled or read
  outcome,    \* what the computation came to, or Diff returned
  calls,      \* calls so far
  \* shared
  cache,      \* outcomes, most recently used first
  flight,     \* flight[k]: the caller whose computation others of k wait for
  \* directories and goroutines
  present,    \* the directories that exist
  running,    \* jobs that touch their directory
  sent,       \* [job, result]: results in a done channel
  holding,    \* jobs that hold a slot of their step's cap
  waiters,    \* abandoned jobs
  misremoved  \* history: a directory was removed that was not there

callVars == <<pc, key, gone, side, step, dir, outcome, calls>>
jobVars == <<present, running, sent, holding, waiters, misremoved>>
vars == <<callVars, cache, flight, jobVars>>

\* The job caller c waits for.
JobOf(c) == <<dir[c], step[c]>>

SlotFree(s) == Cardinality({j \in holding : j[2] = s}) < Cap[s]

-----------------------------------------------------------------------------
(* The cache *)

Cached(k) == \E i \in DOMAIN cache : cache[i].key = k
Position(k) == CHOOSE i \in DOMAIN cache : cache[i].key = k
Entry(k) == cache[Position(k)]

\* The entry at i, holding o now, is the most recently used one.
MovedToFront(i, o) ==
  [j \in DOMAIN cache |->
     IF j = 1 THEN o ELSE IF j <= i THEN cache[j - 1] ELSE cache[j]]

\* Get moves what it finds to the front.
Promoted(k) == MovedToFront(Position(k), Entry(k))

\* Mutant: nothing falls off the back.
AddedUnbounded(o) == <<o>> \o cache

\* Add replaces the entry of its key or pushes one to the front; what is too
\* much falls off the back.
Added(o) ==
  LET size == IF Len(cache) < CacheEntries THEN Len(cache) + 1 ELSE CacheEntries
  IN IF Cached(o.key)
       THEN MovedToFront(Position(o.key), o)
       ELSE [j \in 1..size |-> IF j = 1 THEN o ELSE cache[j - 1]]

-----------------------------------------------------------------------------
(* Diff *)

Move(c, from, to) == pc[c] = from /\ pc' = [pc EXCEPT ![c] = to]

Call(c, k) ==
  /\ calls < MaxCalls
  /\ Move(c, "idle", "called")
  /\ calls' = calls + 1
  /\ key' = [key EXCEPT ![c] = k]
  /\ outcome' = [outcome EXCEPT ![c] = None]
  /\ UNCHANGED <<gone, side, step, dir, cache, flight, jobVars>>

\* The client hangs up.
Cancel(c) ==
  /\ pc[c] # "idle" /\ ~gone[c]
  /\ Cardinality({f \in Callers : gone[f]}) < MaxHangups
  /\ gone' = [gone EXCEPT ![c] = TRUE]
  /\ UNCHANGED <<pc, key, side, step, dir, outcome, calls, cache, flight, jobVars>>

Answer(c, kind, why) ==
  outcome' = [outcome EXCEPT ![c] = [key |-> key[c], kind |-> kind, why |-> why]]

\* The first parent cannot be resolved, or there is none; nothing is cached.
FirstParentFails(c) ==
  /\ Move(c, "called", "idle")
  /\ \E kind \in {"noPriorVersion", "internal"} : Answer(c, kind, "none")
  /\ gone' = [gone EXCEPT ![c] = FALSE]
  /\ UNCHANGED <<key, side, step, dir, calls, cache, flight, jobVars>>

\* The first parent is known, and so is the key.
LookUp(c) ==
  /\ IF Cached(key[c])
     THEN /\ Move(c, "called", "idle")
          /\ outcome' = [outcome EXCEPT ![c] = Entry(key[c])]
          /\ gone' = [gone EXCEPT ![c] = FALSE]
          /\ cache' = Promoted(key[c])
     ELSE /\ Move(c, "called", "missed")
          /\ UNCHANGED <<outcome, gone, cache>>
  /\ UNCHANGED <<key, side, step, dir, calls, flight, jobVars>>

\* Mutant: keys are not told apart by the flight's key.
FlightKeyOfAny(k) == CHOOSE j \in Keys : TRUE

\* cacheKey.String, which is injective.
FlightKey(k) == k

\* group.Do: one caller leads, the others wait for it.
JoinFlight(c) ==
  /\ IF flight[FlightKey(key[c])] = None
     THEN /\ Move(c, "missed", "leading")
          /\ flight' = [flight EXCEPT ![FlightKey(key[c])] = c]
     ELSE /\ Move(c, "missed", "following")
          /\ UNCHANGED flight
  /\ UNCHANGED <<key, gone, side, step, dir, outcome, calls, cache, jobVars>>

\* Mutant: the second look is left out.
NotRechecked(k) == FALSE

\* computeAndCache looks again: another flight may have ended in between.
CachedByNow(k) == Cached(k)

Recheck(c) ==
  /\ IF CachedByNow(key[c])
     THEN /\ Move(c, "leading", "added")
          /\ outcome' = [outcome EXCEPT ![c] = Entry(key[c])]
          /\ cache' = Promoted(key[c])
          /\ UNCHANGED <<side>>
     ELSE /\ Move(c, "leading", "dir")
          /\ side' = [side EXCEPT ![c] = "old"]
          /\ UNCHANGED <<outcome, cache>>
  /\ UNCHANGED <<key, gone, step, dir, calls, flight, jobVars>>

AddToCache(c) ==
  /\ Move(c, "computed", "added")
  /\ cache' = Added(outcome[c])
  /\ side' = [side EXCEPT ![c] = "old"]
  /\ step' = [step EXCEPT ![c] = "materialize"]
  /\ UNCHANGED <<key, gone, dir, outcome, calls, flight, jobVars>>

\* The callers of c's flight.
Landed(c) ==
  {c} \cup {f \in Callers : /\ pc[f] = "following"
                            /\ FlightKey(key[f]) = FlightKey(key[c])}

\* The flight lands: the callers waiting for it return with its outcome.
EndFlight(c) ==
  /\ pc[c] = "added"
  /\ pc' = [f \in Callers |-> IF f \in Landed(c) THEN "idle" ELSE pc[f]]
  /\ outcome' = [f \in Callers |->
                   IF f \in Landed(c) THEN outcome[c] ELSE outcome[f]]
  /\ gone' = [f \in Callers |-> f \notin Landed(c) /\ gone[f]]
  /\ flight' = [flight EXCEPT ![FlightKey(key[c])] = None]
  /\ UNCHANGED <<key, side, step, dir, calls, cache, jobVars>>

-----------------------------------------------------------------------------
(* materializeAndProduce *)

\* cleanup(): the directory is removed.
Removed(d) ==
  /\ present' = present \ {d}
  /\ misremoved' = (misremoved \/ d \notin present)

Kept == UNCHANGED <<present, misremoved>>

\* The directory of the side is created, or cannot be.
NewDir(c) ==
  /\ \/ /\ Move(c, "dir", "queued")
        /\ \E d \in Dirs :
             /\ d \notin present
             /\ \A s \in Steps : <<d, s>> \notin holding
             /\ dir' = [dir EXCEPT ![c] = d]
             /\ present' = present \cup {d}
        /\ step' = [step EXCEPT ![c] = "materialize"]
        /\ UNCHANGED <<outcome>>
     \/ /\ Move(c, "dir", "computed")
        /\ Answer(c, "internal", "none")
        /\ UNCHANGED <<step, dir, present>>
  /\ UNCHANGED <<key, gone, side, calls, cache, flight, running, sent, holding,
                 waiters, misremoved>>

\* A slot is free: the step's goroutine starts.
StartJob(c) ==
  /\ Move(c, "queued", "waiting")
  /\ SlotFree(step[c])
  /\ holding' = holding \cup {JobOf(c)}
  /\ running' = running \cup {JobOf(c)}
  /\ UNCHANGED <<key, gone, side, step, dir, outcome, calls, cache, flight,
                 present, sent, waiters, misremoved>>

\* Mutant: the directory of a caller that got no slot is left to nobody.
ForgottenByLeaver(d) == Kept

\* No goroutine was started: the caller cleans up itself.
RemovedByLeaver(d) == Removed(d)

\* The caller is cancelled while it queues for a slot.
LeaveQueue(c) ==
  /\ Move(c, "queued", "computed")
  /\ gone[c]
  /\ Answer(c, "exceededLimits", "cancelled")
  /\ RemovedByLeaver(dir[c])
  /\ dir' = [dir EXCEPT ![c] = None]
  /\ UNCHANGED <<key, gone, side, step, calls, cache, flight, running, sent,
                 holding, waiters>>

\* The materialization came to r.  A directory that was filled is kept for the
\* next step, any other is removed.
Materialized(c, r) ==
  /\ step[c] = "materialize"
  /\ Move(c, "waiting", IF r = "ok" THEN "queued" ELSE "computed")
  /\ IF r = "ok"
     THEN /\ step' = [step EXCEPT ![c] = "produce"]
          /\ Kept
          /\ UNCHANGED <<dir, outcome>>
     ELSE /\ IF r = "bounds" THEN Answer(c, "exceededLimits", "ceiling")
             ELSE Answer(c, "internal", "none")
          /\ Removed(dir[c])
          /\ dir' = [dir EXCEPT ![c] = None]
          /\ UNCHANGED step
  /\ UNCHANGED side

\* The production came to r: the directory is done with.
Produced(c, r) ==
  /\ step[c] = "produce"
  /\ IF r = "ok"
     THEN IF side[c] = "old"
          THEN /\ Move(c, "waiting", "dir")
               /\ side' = [side EXCEPT ![c] = "new"]
               /\ UNCHANGED outcome
          ELSE /\ Move(c, "waiting", "computed")
               /\ Answer(c, "ok", "none")
               /\ UNCHANGED side
     ELSE /\ Move(c, "waiting", "computed")
          /\ Answer(c, "produceFailed", "none")
          /\ UNCHANGED side
  /\ Removed(dir[c])
  /\ dir' = [dir EXCEPT ![c] = None]
  /\ UNCHANGED step

\* The result of c's job is received in time.
Receive(c) ==
  /\ pc[c] = "waiting"
  /\ \E x \in sent :
       /\ x.job = JobOf(c)
       /\ sent' = sent \ {x}
       /\ Materialized(c, x.result) \/ Produced(c, x.result)
  /\ UNCHANGED <<key, gone, calls, cache, flight, running, holding, waiters>>

\* Mutant: the caller removes the directory on its way out.
RemovedAtOnce(d) == Removed(d)

\* The directory is left to the waiter.
LeftToWaiter(d) == Kept

\* The step's timer fires, or the caller is cancelled: the job is left behind.
Abandon(c, why) ==
  /\ Move(c, "waiting", "computed")
  /\ why = "cancelled" => gone[c]
  /\ Answer(c, "exceededLimits", why)
  /\ waiters' = waiters \cup {JobOf(c)}
  /\ LeftToWaiter(dir[c])
  /\ dir' = [dir EXCEPT ![c] = None]
  /\ UNCHANGED <<key, gone, side, step, calls, cache, flight, running, sent,
                 holding>>

-----------------------------------------------------------------------------
(* The goroutines *)

Results(s) == IF s = "materialize" THEN {"ok", "bounds", "error"} ELSE {"ok", "error"}

\* The call returns, or panics, and its result is sent.
JobEnds(j) ==
  /\ j \in running
  /\ running' = running \ {j}
  /\ \E r \in Results(j[2]) : sent' = sent \cup {[job |-> j, result |-> r]}
  /\ UNCHANGED <<callVars, cache, flight, present, holding, waiters, misremoved>>

\* Mutants: the slot is given back when the caller gives up; the caller gives it
\* back, if it is still there.
ReleasedEarly(j) == j \in waiters \/ j \notin running
ReleasedByCaller(j) ==
  j \notin running /\ \E c \in Callers : pc[c] = "waiting" /\ JobOf(c) = j

\* The slot is given back only once the step itself is done.
Releases(j) == j \notin running

JobReleases(j) ==
  /\ j \in holding
  /\ Releases(j)
  /\ holding' = holding \ {j}
  /\ UNCHANGED <<callVars, cache, flight, present, running, sent, waiters, misremoved>>

\* The waiter of an abandoned job removes its directory.
WaiterCleans(j) ==
  /\ j \in waiters
  /\ \E x \in sent :
       /\ x.job = j
       /\ sent' = sent \ {x}
  /\ waiters' = waiters \ {j}
  /\ Removed(j[1])
  /\ UNCHANGED <<callVars, cache, flight, running, holding>>

-----------------------------------------------------------------------------
(* Specification *)

Init ==
  /\ pc = [c \in Callers |-> "idle"]
  /\ key \in [Callers -> {CHOOSE k \in Keys : TRUE}]
  /\ gone = [c \in Callers |-> FALSE]
  /\ side = [c \in Callers |-> "old"]
  /\ step = [c \in Callers |-> "materialize"]
  /\ dir = [c \in Callers |-> None]
  /\ outcome = [c \in Callers |-> None]
  /\ calls = 0
  /\ cache = <<>>
  /\ flight = [k \in Keys |-> None]
  /\ present = {} /\ running = {} /\ sent = {} /\ holding = {} /\ waiters = {}
  /\ misremoved = FALSE

\* What caller c does next by itself.
CallerStep(c) ==
  \/ LookUp(c) \/ JoinFlight(c) \/ Recheck(c) \/ NewDir(c) \/ StartJob(c)
  \/ Receive(c) \/ AddToCache(c) \/ EndFlight(c)

GoroutineStep(j) == JobEnds(j) \/ JobReleases(j) \/ WaiterCleans(j)

Next ==
  \/ \E c \in Callers, k \in Keys : Call(c, k)
  \/ \E c \in Callers : Cancel(c)
  \/ \E c \in Callers : FirstParentFails(c)
  \/ \E c \in Callers : CallerStep(c)
  \/ \E c \in Callers : LeaveQueue(c)
  \/ \E c \in Callers, why \in {"ceiling", "cancelled"} : Abandon(c, why)
  \/ \E j \in Job : GoroutineStep(j)

Spec == Init /\ [][Next]_vars

\* Callers are served and every materialization and production ends.  A slot
\* freed again and again is not taken by others forever: a channel's senders
\* are queued, first come, first served.
FairSpec ==
  /\ Spec
  /\ \A c \in Callers : SF_vars(CallerStep(c))
  /\ \A j \in Job : WF_vars(GoroutineStep(j))

-----------------------------------------------------------------------------
(* Properties *)

Computing(c) == pc[c] \in {"dir", "queued", "waiting", "computed"}

TypeOK ==
  /\ pc \in [Callers -> Places]
  /\ key \in [Callers -> Keys]
  /\ gone \in [Callers -> BOOLEAN]
  /\ side \in [Callers -> Sides]
  /\ step \in [Callers -> Steps]
  /\ dir \in [Callers -> Dirs \cup {None}]
  /\ outcome \in [Callers -> Outcome \cup {None}]
  /\ calls \in 0..MaxCalls
  /\ cache \in Seq(Outcome) /\ Len(cache) <= CacheEntries
  /\ flight \in [Keys -> Callers \cup {None}]
  /\ present \subseteq Dirs
  /\ running \subseteq Job
  /\ sent \subseteq [job : Job, result : {"ok", "bounds", "error"}]
  /\ holding \subseteq Job
  /\ waiters \subseteq Job
  /\ misremoved \in BOOLEAN

\* A directory is removed exactly once and never while a goroutine still writes
\* or reads it, whichever of the deferred guard, the two bounded steps and
\* their waiters it falls to (the invariant of materializeAndProduce's comment,
\* materialize.go:21-32).
DirsOutliveTheirJobs ==
  /\ ~misremoved
  /\ \A j \in running : j[1] \in present

\* A directory in existence has exactly one who will remove it: the caller that
\* holds it or the waiter it was left to.
DirsAreOwned ==
  \A d \in present :
    Cardinality({c \in Callers : dir[c] = d} \cup {j \in waiters : j[1] = d}) = 1

\* However many callers gave up on theirs, no more steps run at a time than the
\* cap allows.
CapsHold ==
  \A s \in Steps : Cardinality({j \in running : j[2] = s}) <= Cap[s]

\* One key is computed by one caller at a time, and never while the cache has
\* it: neither the race between Diff's cache check and the flight nor a flight
\* that has just landed leads to a second computation.
ComputedOnce ==
  \A c \in Callers : Computing(c) =>
    /\ flight[FlightKey(key[c])] = c
    /\ ~Cached(key[c])

\* A call is answered with its own key's outcome, coalesced or cached though it
\* may be.
AnsweredByKey ==
  \A c \in Callers : pc[c] = "idle" /\ outcome[c] # None => outcome[c].key = key[c]

\* Every call is answered, followers of a caller that hung up included, and
\* every directory is removed in the end, as long as the steps themselves end.
EveryCallReturns == \A c \in Callers : pc[c] # "idle" ~> pc[c] = "idle"
DirsAreRemoved == \A d \in Dirs : []<>(d \notin present)

-----------------------------------------------------------------------------
(* Refinement *)

Stage(c) ==
  IF pc[c] = "idle" THEN "idle"
  ELSE IF pc[c] \in {"called", "missed"} THEN "asked" ELSE "awaits"

\* What the flight of k is about to land with.
Landing(k) ==
  IF flight[k] # None /\ pc[flight[k]] = "added" THEN outcome[flight[k]] ELSE None

Stages == [c \in Callers |-> Stage(c)]
Answers == [c \in Callers |-> IF pc[c] = "idle" THEN outcome[c] ELSE None]
KeysComputed == {key[c] : c \in {f \in Callers : Computing(f)}}
Landings == [k \in Keys |-> Landing(k)]
Memory == {cache[i] : i \in DOMAIN cache}

Refusals ==
  {o \in Outcome : o.kind \in {"noPriorVersion", "internal"} /\ o.why = "none"}

Service == INSTANCE DiffService WITH
  stage <- Stages, asked <- key, answer <- Answers, computing <- KeysComputed,
  result <- Landings, memory <- Memory, MemorySize <- CacheEntries

\* What Diff promises of its cache and of coalescing (engine.go:169-171,224-229):
\* whatever times out, fails, hangs up or is left behind in between, its callers
\* see nothing that DiffService would not show them.
ImplementsService == Service!Spec

-----------------------------------------------------------------------------
(* What comments say, and some of the runs refute *)

\* failure.go:17 says "ExceededLimits means a configured ceiling stopped the
\* computation", and cache.go:12 that what is cached is "a known-bad,
\* known-unavailable, or known-exceeded-limits computation".
CachedLimitsAreCeilings ==
  \A i \in DOMAIN cache : cache[i].kind = "exceededLimits" => cache[i].why = "ceiling"
=============================================================================
