------------------------------ MODULE Scheduling ------------------------------
(***************************************************************************)
(* The schedule driven by the config file: the watcher's Current is the    *)
(* list each tick goes through.  Watcher and scheduler are two goroutines  *)
(* of one process; they share nothing else, and what both hold is lost     *)
(* when it stops.                                                          *)
(***************************************************************************)
EXTENDS Scheduler

CONSTANTS Bad, Missing, NoConfig, AllowEditInLoad, AllowRevert, MaxContents, MaxStarts

VARIABLES file, lastHash, wpc, hashed, parsed, starts, past

Watcher == INSTANCE ConfigWatcher WITH
  Good <- Configs, None <- NoConfig, current <- config

ASSUME SchedulingAssumption == Watcher!WatcherAssumption

fileVars == <<file, lastHash, wpc, hashed, parsed, starts, past>>
allVars == <<vars, fileVars>>

SchedulerStarts ==
  /\ spc' = "waiting" /\ tick' = Never
  /\ list' = <<>> /\ due' = {} /\ results' = <<>>
  /\ state' = [k \in Keys |-> Never]
  /\ entries' = [k \in Keys |-> NoEntry]
  /\ fired' = [x \in Keys \X Exprs |-> Never]
  /\ listed' = [x \in Keys \X Exprs |-> Never]

SInit ==
  /\ Watcher!Init
  /\ now = 1 /\ reloads = 0
  /\ spc = "waiting" /\ tick = Never
  /\ list = <<>> /\ due = {} /\ results = <<>>
  /\ state = [k \in Keys |-> Never]
  /\ entries = [k \in Keys |-> NoEntry]
  /\ fired = [x \in Keys \X Exprs |-> Never]
  /\ listed = [x \in Keys \X Exprs |-> Never]

EditFile(c) ==
  Watcher!Edit(c) /\ UNCHANGED vars

WatcherStep ==
  Watcher!WatchStep /\ UNCHANGED <<now, reloads, schedVars>>

\* The goroutine that ticks is started after the config is loaded.
SchedulerStep ==
  /\ config # NoConfig
  /\ TickStep
  /\ UNCHANGED fileVars

Clock == Advance /\ UNCHANGED fileVars

\* The process stops and starts again: the registry and the schedule are new.
Restart ==
  /\ Watcher!Restart
  /\ SchedulerStarts
  /\ UNCHANGED <<now, reloads>>

SNext ==
  \/ \E c \in Configs \cup Bad \cup {Missing} : EditFile(c)
  \/ WatcherStep
  \/ SchedulerStep
  \/ Clock
  \/ Restart

\* The fairness of the watcher and of the scheduler.
SSpec ==
  /\ SInit /\ [][SNext]_allVars
  /\ WF_allVars(WatcherStep)
  /\ WF_allVars(SchedulerStep)

-----------------------------------------------------------------------------
(* Properties *)

(* The watcher's own promises, with the scheduler running beside it. *)

\* A watcher at rest serves the config the file holds (watcher.go:115-123).
RestsOnTheFile == Watcher!RestsOnTheFile

\* An invalid or missing file leaves the last-good config (watcher.go:82-113).
KeepsLastGood == Watcher!KeepsLastGood

\* An edit that stays in the file is served in the end (README.md:119).
EditsTakeEffect == Watcher!EditsTakeEffect

\* Once nobody edits a valid file any more, its trackers are the ones polled:
\* every tick goes through them, each has been polled and is known to the
\* scheduler, and what it knew of trackers the file no longer has is forgotten.
\* (README.md:119, across the two goroutines.)
TicksFollowTheFile ==
  \A c \in Configs : <>[](file = c) =>
    <>[](list \in {<<>>, c} /\ \A k \in Keys : state[k] # Never <=> k \in KeysOf(c))
=============================================================================
