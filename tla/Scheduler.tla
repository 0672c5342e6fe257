------------------------------ MODULE Scheduler ------------------------------
(***************************************************************************)
(* The polling schedule: Tick and pollGroup of internal/scheduler, the     *)
(* goroutine of cmd/dashboard that calls Tick with the current config, and *)
(* the registry of internal/pollstatus that poll outcomes are reported to. *)
(*                                                                         *)
(* Tick reads the clock and the tracker list once and then polls for as    *)
(* long as it takes: the clock runs on and the config is replaced in the   *)
(* meantime.                                                               *)
(***************************************************************************)
EXTENDS Naturals, Sequences

CONSTANTS
  Keys,       \* identities of trackers: repository, glob and field
  Exprs,      \* what else a tracker says: its extractor
  FileSet,    \* FileSet[k]: the repository and glob of k
  Configs,    \* tracker lists a config may hold
  MaxTime,    \* bound: the clock
  MaxReloads  \* bound: config replacements

Never == 0

Tracker == [key : Keys, expr : Exprs, interval : Nat]

ASSUME SchedulerAssumption ==
  /\ Configs \subseteq Seq(Tracker) /\ Configs # {}
  /\ DOMAIN FileSet = Keys
  /\ MaxTime \in Nat \ {0} /\ MaxReloads \in Nat

VARIABLES
  now,
  config,    \* Current().Trackers
  reloads,   \* config replacements so far
  \* the tick in progress
  spc,       \* "waiting", "polling" or "recording"
  tick,      \* Tick's now
  list,      \* Tick's trackers
  due,       \* the places in list of the due trackers not polled yet
  results,   \* results[i]: did the poll of list[i], not recorded yet, fail
  \* what outlives a tick
  state,     \* state[k]: when k was last polled, or Never
  entries,   \* entries[k]: the registry's [attempt, success, error, interval]
  \* history variables
  fired,     \* fired[k, x]: the last tick that polled k with x
  listed     \* listed[k, x]: the tick since which every list had k with x

tickVars == <<spc, tick, list, due, results>>
schedVars == <<tickVars, state, entries, fired, listed>>
vars == <<now, config, reloads, schedVars>>

KeysOf(trackers) == {trackers[i].key : i \in DOMAIN trackers}
PairsOf(trackers) == {<<trackers[i].key, trackers[i].expr>> : i \in DOMAIN trackers}

NoEntry == [attempt |-> Never, success |-> Never, error |-> FALSE, interval |-> 0]
NextRunAt(k) == entries[k].attempt + entries[k].interval

-----------------------------------------------------------------------------
(* Tick *)

\* isDue.
IsDue(t, at) ==
  \/ state[t.key] = Never
  \/ t.interval = 0
  \/ at - state[t.key] >= t.interval

First(places) == CHOOSE i \in places : \A j \in places : i <= j

\* groupKey: the trackers of two places watch the same files.
SameFiles(i, j) == FileSet[list[i].key] = FileSet[list[j].key]

\* Mutant: a group is one tracker of its file set.
FirstOfGroup == {First(due)}

\* The next group: the due trackers of one file set, in the order of the first
\* of each.
Group == {i \in due : SameFiles(i, First(due))}

Advance ==
  /\ now < MaxTime
  /\ now' = now + 1
  /\ UNCHANGED <<config, reloads, schedVars>>

\* The watcher swaps in another config.
Reconfigure(c) ==
  /\ reloads < MaxReloads
  /\ c # config
  /\ config' = c
  /\ reloads' = reloads + 1
  /\ UNCHANGED <<now, schedVars>>

BeginTick ==
  /\ spc = "waiting"
  /\ tick' = now
  /\ list' = config
  /\ due' = {i \in DOMAIN config : IsDue(config[i], now)}
  /\ spc' = "polling"
  /\ listed' = [x \in Keys \X Exprs |->
                  IF x \notin PairsOf(config) THEN Never
                  ELSE IF listed[x] = Never THEN now ELSE listed[x]]
  /\ UNCHANGED <<now, config, reloads, results, state, entries, fired>>

\* A group is polled.  One repository that cannot be opened fails all of it;
\* otherwise any of its trackers may fail by itself.
PollGroup ==
  /\ spc = "polling"
  /\ due # {}
  /\ results' \in [Group -> BOOLEAN]
  /\ due' = {i \in due : ~SameFiles(i, First(due))}
  /\ fired' = [x \in Keys \X Exprs |->
                 IF \E i \in Group : x = <<list[i].key, list[i].expr>>
                 THEN tick ELSE fired[x]]
  /\ spc' = "recording"
  /\ UNCHANGED <<now, config, reloads, tick, list, state, entries, listed>>

\* Mutant: the attempt is stamped when it ended.
RecordedWhenDone(e, t, error) ==
  [attempt |-> now, interval |-> t.interval, error |-> error,
   success |-> IF error THEN e.success ELSE now]

\* Registry.Record: e after an attempt of tracker t.
Recorded(e, t, error) ==
  [attempt |-> tick, interval |-> t.interval, error |-> error,
   success |-> IF error THEN e.success ELSE tick]

\* Mutant: a failed poll is not a poll.
PolledIfSucceeded(k, error) ==
  IF error THEN state ELSE [state EXCEPT ![k] = tick]

\* The scheduler's own note of the attempt, whatever came of it.
Polled(k, error) == [state EXCEPT ![k] = tick]

\* pollGroup records the outcomes one by one.
Record ==
  /\ spc = "recording"
  /\ LET i == First(DOMAIN results)
         k == list[i].key
     IN  /\ entries' = [entries EXCEPT ![k] = Recorded(@, list[i], results[i])]
         /\ state' = Polled(k, results[i])
         /\ results' = [j \in DOMAIN results \ {i} |-> results[j]]
         /\ spc' = IF DOMAIN results = {i} THEN "polling" ELSE "recording"
  /\ UNCHANGED <<now, config, reloads, tick, list, due, fired, listed>>

\* Mutant: nothing is forgotten.
NothingEvicted == state

\* The state of trackers the list no longer has is dropped.
Evicted == [k \in Keys |-> IF k \in KeysOf(list) THEN state[k] ELSE Never]

EndTick ==
  /\ spc = "polling"
  /\ due = {}
  /\ state' = Evicted
  /\ spc' = "waiting"
  /\ list' = <<>>
  /\ tick' = Never
  /\ UNCHANGED <<now, config, reloads, due, results, entries, fired, listed>>

-----------------------------------------------------------------------------
(* Specification *)

Init ==
  /\ now = 1
  /\ config \in Configs
  /\ reloads = 0
  /\ spc = "waiting" /\ tick = Never
  /\ list = <<>> /\ due = {} /\ results = <<>>
  /\ state = [k \in Keys |-> Never]
  /\ entries = [k \in Keys |-> NoEntry]
  /\ fired = [x \in Keys \X Exprs |-> Never]
  /\ listed = [x \in Keys \X Exprs |-> Never]

TickStep == BeginTick \/ PollGroup \/ Record \/ EndTick

Next ==
  \/ Advance
  \/ \E c \in Configs : Reconfigure(c)
  \/ TickStep

Spec == Init /\ [][Next]_vars

\* The ticker of one goroutine fires forever, and a poll ends.
FairSpec == Spec /\ WF_vars(TickStep)

-----------------------------------------------------------------------------
(* Properties *)

TypeOK ==
  /\ now \in 1..MaxTime
  /\ config \in Configs
  /\ reloads \in 0..MaxReloads
  /\ spc \in {"waiting", "polling", "recording"}
  /\ tick \in 0..now
  /\ list \in Configs \cup {<<>>}
  /\ due \subseteq DOMAIN list
  /\ \E group \in SUBSET DOMAIN list : results \in [group -> BOOLEAN]
  /\ state \in [Keys -> 0..now]
  /\ entries \in [Keys -> [attempt : 0..now, success : 0..now,
                           error : BOOLEAN, interval : Nat]]
  /\ fired \in [Keys \X Exprs -> 0..now]
  /\ listed \in [Keys \X Exprs -> 0..now]

\* When a tick has polled its groups, every tracker of its list was polled less
\* than its interval ago, failed polls included: batching by file set, errors
\* of siblings, ticks that take long and replaced configs cost no tracker its
\* turn.  A tracker whose extractor was edited waits for no more than what is
\* left of its interval: until it is polled itself, the poll with the extractor
\* it had before counts.  (main.go:188: "Each tracker fires on its own
\* PollIntervalSeconds cadence".)
EveryTrackerOnTime ==
  spc = "polling" /\ due = {} =>
    \A i \in DOMAIN list : \E x \in Exprs :
      LET t == list[i]
          polled == fired[t.key, x]
      IN /\ polled # Never /\ tick - polled < t.interval
         /\ x = t.expr \/ polled <= listed[t.key, t.expr]

\* What the status pages announce is what the scheduler will do: between ticks
\* a tracker the scheduler knows is due exactly from the registry's NextRunAt,
\* unless a reload has given it another interval since it was polled.
StatusTellsTheSchedule ==
  spc = "waiting" =>
    \A i \in DOMAIN config :
      LET t == config[i] IN
        state[t.key] # Never /\ entries[t.key].interval = t.interval =>
          (IsDue(t, now) <=> now >= NextRunAt(t.key))

\* A tick polls the trackers whose turn it is and no others: a tracker that the
\* list of the tick before did not have, however long ago and with whatever
\* extractor it was polled before it was removed, and one whose identity was
\* last polled an interval ago or earlier; a failure is a poll, and a reload or
\* an edited extractor is none.  (scheduler.go:108-178 over any sequence of ticks:
\* "whose interval has elapsed since their last poll".)
TicksFindTheDue ==
  [][spc = "waiting" /\ spc' = "polling" =>
       \A i \in DOMAIN list' :
         LET t == list'[i] IN
           i \in due' <=>
             \/ \A x \in Exprs : listed[t.key, x] = Never
             \/ \A x \in Exprs : tick' - fired[t.key, x] >= t.interval]_vars

DueNow(k) == \E i \in DOMAIN config : config[i].key = k /\ IsDue(config[i], now)

PolledByTick(k) == spc # "waiting" /\ state[k] = tick

\* A tracker that is due when a tick may begin is polled by a tick that begins
\* then or later, however many others are due, however long their polls take
\* and whether they fail, unless a reload removes or re-times it first.
DueIsPolled ==
  \A k \in Keys : spc = "waiting" /\ DueNow(k) ~> PolledByTick(k) \/ ~DueNow(k)
=============================================================================
