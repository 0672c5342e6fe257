--------------------------- MODULE SchedulingProofs ---------------------------
(***************************************************************************)
(* For every set of configs: the cadences of the trackers and the agreement*)
(* of registry and scheduler, for the schedule alone and driven by the     *)
(* config file; and what is proved of the watcher alone holds beside the   *)
(* scheduler, for every step of the composition is one of the watcher's    *)
(* steps or leaves what it holds alone.                                    *)
(***************************************************************************)
EXTENDS Scheduling, WellFoundedInduction, TLAPS

\* The first of some places is one of them.
LEMMA FirstOf ==
  ASSUME NEW S \in SUBSET Nat, S # {}
  PROVE  First(S) \in S
<1>1. PICK i \in S : \A j \in S : ~(<<j, i>> \in OpToRel(<, Nat))
  BY NatLessThanWellFounded, WFMin
<1>2. \A j \in S : ~(j < i)
  BY <1>1 DEF OpToRel
<1>3. \A j \in S : i <= j
  BY <1>2
<1> QED BY <1>3 DEF First

\* The steps of the scheduler, and those of the clock and of the file.
ScheduleMoves ==
  \/ config \in Configs /\ TickStep
  \/ now' \in Nat /\ now' >= now /\ UNCHANGED schedVars

-----------------------------------------------------------------------------
(* What the status pages announce *)

\* The scheduler's note of a tracker's last poll is the registry's.
Agree ==
  /\ now \in Nat \ {0}
  /\ tick \in 0..now
  /\ state \in [Keys -> Nat]
  /\ DOMAIN entries = Keys
  /\ \A k \in Keys : state[k] <= now
  /\ \A k \in Keys : state[k] # Never => entries[k].attempt = state[k]

LEMMA AgreeStep ==
  ASSUME Agree, ScheduleMoves
  PROVE  Agree'
<1> USE DEF Agree, Never
<1>1. CASE BeginTick
  BY <1>1 DEF BeginTick
<1>2. CASE PollGroup
  BY <1>2 DEF PollGroup
<1>3. CASE Record
  <2>1. PICK t, e, k :
          /\ entries' = [entries EXCEPT ![k] = Recorded(@, t, e)]
          /\ state' = [state EXCEPT ![k] = tick]
    BY <1>3 DEF Record, Polled
  <2>2. UNCHANGED <<now, tick>>
    BY <1>3 DEF Record
  <2>0. tick \in Nat /\ tick <= now /\ state \in [Keys -> Nat]
    OBVIOUS
  <2>3. state' \in [Keys -> Nat]
    BY <2>0, <2>1
  <2>6. \A j \in Keys : state'[j] <= now'
    BY <2>0, <2>1, <2>2
  <2>4. DOMAIN entries' = Keys
    BY <2>1
  <2>5. ASSUME NEW j \in Keys, state'[j] # Never
        PROVE  entries'[j].attempt = state'[j]
    BY <2>1, <2>5 DEF Recorded
  <2> QED BY <2>2, <2>3, <2>4, <2>5, <2>6
<1>4. CASE EndTick
  BY <1>4 DEF EndTick, Evicted
<1>5. CASE now' \in Nat /\ now' >= now /\ UNCHANGED schedVars
  BY <1>5 DEF schedVars, tickVars
<1> QED BY <1>1, <1>2, <1>3, <1>4, <1>5 DEF ScheduleMoves, TickStep

LEMMA AgreeTells ==
  ASSUME Agree, config \in Configs
  PROVE  StatusTellsTheSchedule
<1> SUFFICES ASSUME NEW i \in DOMAIN config,
                    state[config[i].key] # Never,
                    entries[config[i].key].interval = config[i].interval
             PROVE  IsDue(config[i], now) <=> now >= NextRunAt(config[i].key)
  BY DEF StatusTellsTheSchedule
<1> DEFINE s == state[config[i].key]
           n == config[i].interval
<1>1. config[i] \in Tracker
  BY SchedulerAssumption
<1>2. config[i].key \in Keys /\ n \in Nat
  BY <1>1 DEF Tracker
<1>3. s \in Nat /\ now \in Nat /\ s <= now /\ entries[config[i].key].attempt = s
  BY <1>2 DEF Agree
<1>4. NextRunAt(config[i].key) = s + n
  BY <1>3 DEF NextRunAt
<1>5. IsDue(config[i], now) <=> n = 0 \/ now - s >= n
  BY DEF IsDue
<1>6. n = 0 \/ now - s >= n <=> now >= s + n
  <2> HIDE DEF s, n
  <2> QED BY <1>2, <1>3
<1> QED BY <1>4, <1>5, <1>6

-----------------------------------------------------------------------------
(* What a tick goes through *)

LEMMA TrackerTyped ==
  ASSUME NEW c \in Configs, NEW i \in DOMAIN c
  PROVE  /\ i \in Nat /\ c[i].key \in Keys /\ c[i].expr \in Exprs /\ c[i].interval \in Nat
         /\ <<c[i].key, c[i].expr>> \in Keys \X Exprs
<1>1. c \in Seq(Tracker)
  BY SchedulerAssumption
<1>2. c[i] \in Tracker /\ i \in Nat
  BY <1>1
<1> QED BY <1>2 DEF Tracker

FiredAt(t) == fired[<<t.key, t.expr>>]

\* In a tick: what is polled and not recorded was polled at this tick, and the
\* pairs noted as listed are the list's.
InTick ==
  /\ list \in Configs /\ tick # Never
  /\ due \subseteq DOMAIN list /\ DOMAIN results \subseteq DOMAIN list
  /\ \A x \in Keys \X Exprs : fired[x] <= tick
  /\ \A i \in DOMAIN results : FiredAt(list[i]) = tick
  /\ \A x \in Keys \X Exprs : listed[x] # Never <=> x \in PairsOf(list)

\* What the scheduler remembers of a tracker is not later than all its polls.
InOrder ==
  /\ now \in Nat \ {0} /\ tick \in Nat /\ tick <= now
  /\ state \in [Keys -> Nat] /\ fired \in [Keys \X Exprs -> Nat]
  /\ listed \in [Keys \X Exprs -> Nat]
  /\ \A x \in Keys \X Exprs : fired[x] <= now
  /\ \A k \in Keys : state[k] # Never => \E y \in Exprs : state[k] <= fired[<<k, y>>]
  /\ spc # "waiting" => InTick
  /\ spc = "recording" => DOMAIN results # {}
  /\ spc # "recording" => DOMAIN results = {}

\* What PollGroup does to the polls.
LEMMA PollGroupFires ==
  ASSUME InOrder, PollGroup
  PROVE  /\ spc = "polling" /\ spc' = "recording"
         /\ list \in Configs /\ tick \in Nat \ {0}
         /\ UNCHANGED <<now, tick, list, state, listed>>
         /\ Group \subseteq due /\ due \subseteq DOMAIN list
         /\ Group # {} /\ DOMAIN results' = Group
         /\ due' = due \ Group
         /\ fired' = [x \in Keys \X Exprs |->
                        IF \E i \in Group : x = <<list[i].key, list[i].expr>>
                        THEN tick ELSE fired[x]]
         /\ \A x \in Keys \X Exprs :
              fired'[x] \in Nat /\ fired[x] <= fired'[x] /\ fired'[x] <= tick
<1>1. /\ spc = "polling" /\ spc' = "recording" /\ due # {}
      /\ due' = {i \in due : ~SameFiles(i, First(due))}
      /\ DOMAIN results' = Group
      /\ UNCHANGED <<now, tick, list, state, listed>>
      /\ fired' = [x \in Keys \X Exprs |->
                     IF \E i \in Group : x = <<list[i].key, list[i].expr>>
                     THEN tick ELSE fired[x]]
  BY DEF PollGroup
<1>2. /\ list \in Configs /\ tick \in Nat \ {0}
      /\ due \subseteq DOMAIN list /\ Group \subseteq due
      /\ \A x \in Keys \X Exprs : fired[x] \in Nat /\ fired[x] <= tick
  BY <1>1 DEF InOrder, InTick, Group, Never
<1>3. due' = due \ Group
  BY <1>1 DEF Group
<1>4. Group # {}
  <2>1. due \in SUBSET Nat
    BY <1>2, TrackerTyped
  <2>2. First(due) \in due
    BY <1>1, <2>1, FirstOf
  <2> QED BY <2>2 DEF Group, SameFiles
<1>5. ASSUME NEW x \in Keys \X Exprs
      PROVE  fired'[x] \in Nat /\ fired[x] <= fired'[x] /\ fired'[x] <= tick
  BY <1>1, <1>2
<1> QED BY <1>1, <1>2, <1>3, <1>4, <1>5

\* What Record does to the scheduler's memory.
LEMMA RecordNotes ==
  ASSUME InOrder, Record
  PROVE  \E i \in DOMAIN results :
           /\ list \in Configs /\ DOMAIN results \subseteq DOMAIN list
           /\ spc # "waiting" /\ list[i].key \in Keys /\ list[i].expr \in Exprs
           /\ FiredAt(list[i]) = tick /\ tick \in Nat \ {0}
           /\ state' = [state EXCEPT ![list[i].key] = tick]
           /\ UNCHANGED <<now, tick, list, due, fired, listed>>
           /\ DOMAIN results' = DOMAIN results \ {i}
           /\ spc' = IF DOMAIN results = {i} THEN "polling" ELSE "recording"
<1> DEFINE i == First(DOMAIN results)
<1>1. /\ spc = "recording" /\ UNCHANGED <<now, tick, list, due, fired, listed>>
      /\ state' = [state EXCEPT ![list[i].key] = tick]
      /\ DOMAIN results' = DOMAIN results \ {i}
      /\ spc' = IF DOMAIN results = {i} THEN "polling" ELSE "recording"
  BY DEF Record, Polled
<1>2. /\ list \in Configs /\ DOMAIN results \subseteq DOMAIN list
      /\ DOMAIN results # {} /\ tick \in Nat \ {0}
  BY <1>1 DEF InOrder, InTick, Never
<1>3. i \in DOMAIN results
  <2>1. DOMAIN results \in SUBSET Nat
    BY <1>2, TrackerTyped
  <2> QED BY <1>2, <2>1, FirstOf
<1> HIDE DEF i
<1>4. list[i].key \in Keys /\ list[i].expr \in Exprs
  BY <1>2, <1>3, TrackerTyped
<1>5. FiredAt(list[i]) = tick
  BY <1>1, <1>3 DEF InOrder, InTick
<1> QED BY <1>1, <1>2, <1>3, <1>4, <1>5

LEMMA BeginTickLists ==
  ASSUME InOrder, BeginTick
  PROVE  /\ spc = "waiting" /\ spc' = "polling"
         /\ tick' = now /\ list' = config
         /\ due' = {i \in DOMAIN config : IsDue(config[i], now)}
         /\ UNCHANGED <<now, config, results, state, fired>>
         /\ DOMAIN results = {}
         /\ \A x \in Keys \X Exprs :
              /\ listed'[x] \in Nat
              /\ listed'[x] # Never <=> x \in PairsOf(config)
              /\ listed'[x] # Never => listed'[x] = (IF listed[x] = Never THEN now ELSE listed[x])
         /\ listed' \in [Keys \X Exprs -> Nat]
<1>1. now \in Nat /\ now # 0 /\ listed \in [Keys \X Exprs -> Nat]
  BY DEF InOrder
<1>2. listed' = [x \in Keys \X Exprs |->
                   IF x \notin PairsOf(config) THEN 0
                   ELSE IF listed[x] = 0 THEN now ELSE listed[x]]
  BY DEF BeginTick, Never
<1>3. \A x \in Keys \X Exprs :
        /\ listed'[x] \in Nat
        /\ listed'[x] # 0 <=> x \in PairsOf(config)
        /\ listed'[x] # 0 => listed'[x] = (IF listed[x] = 0 THEN now ELSE listed[x])
  BY <1>1, <1>2
<1>4. listed' \in [Keys \X Exprs -> Nat]
  BY <1>1, <1>2
<1>5. DOMAIN results = {}
  BY DEF BeginTick, InOrder
<1> QED BY <1>3, <1>4, <1>5 DEF BeginTick, Never

LEMMA InOrderStep ==
  ASSUME InOrder, ScheduleMoves
  PROVE  InOrder'
<1>1. CASE config \in Configs /\ BeginTick
  <2>1. /\ spc' = "polling" /\ tick' = now /\ list' = config
        /\ due' \subseteq DOMAIN config
        /\ UNCHANGED <<now, results, state, fired>> /\ DOMAIN results = {}
        /\ \A x \in Keys \X Exprs : listed'[x] # Never <=> x \in PairsOf(config)
        /\ listed' \in [Keys \X Exprs -> Nat]
    BY <1>1, BeginTickLists
  <2>2. InTick'
    BY <1>1, <2>1 DEF InOrder, InTick, Never
  <2>3. tick' \in Nat /\ tick' <= now'
    BY <2>1 DEF InOrder
  <2> QED BY <2>1, <2>2, <2>3 DEF InOrder
<1>2. CASE PollGroup
  <2>1. fired' \in [Keys \X Exprs -> Nat] /\ \A x \in Keys \X Exprs : fired'[x] <= now'
    <3>1. tick \in Nat /\ now \in Nat /\ tick <= now /\ now' = now
      BY <1>2, PollGroupFires DEF InOrder
    <3>2. DOMAIN fired' = Keys \X Exprs /\ fired' = [x \in Keys \X Exprs |-> fired'[x]]
      BY <1>2, PollGroupFires
    <3>3. ASSUME NEW x \in Keys \X Exprs PROVE fired'[x] \in Nat /\ fired'[x] <= now'
      BY <1>2, <3>1, PollGroupFires
    <3> QED BY <3>2, <3>3
  <2>2. ASSUME NEW i \in Group PROVE FiredAt(list[i])' = tick
    <3>1. <<list[i].key, list[i].expr>> \in Keys \X Exprs
      BY <1>2, PollGroupFires, TrackerTyped
    <3> QED BY <1>2, <3>1, PollGroupFires DEF FiredAt
  <2>3. InTick'
    <3>1. /\ spc = "polling" /\ UNCHANGED <<tick, list, listed>>
          /\ Group \subseteq due /\ due \subseteq DOMAIN list
          /\ DOMAIN results' = Group /\ due' = due \ Group
          /\ \A x \in Keys \X Exprs : fired'[x] <= tick
      BY <1>2, PollGroupFires
    <3> QED BY <2>2, <3>1 DEF InOrder, InTick, FiredAt
  <2>4. ASSUME NEW k \in Keys, state'[k] # Never
        PROVE  \E y \in Exprs : state'[k] <= fired'[<<k, y>>]
    <3>1. PICK y \in Exprs : state[k] <= fired[<<k, y>>]
      BY <1>2, <2>4, PollGroupFires DEF InOrder
    <3>2. <<k, y>> \in Keys \X Exprs /\ state[k] \in Nat /\ fired[<<k, y>>] \in Nat
      BY DEF InOrder
    <3>3. fired'[<<k, y>>] \in Nat /\ fired[<<k, y>>] <= fired'[<<k, y>>] /\ state' = state
      BY <1>2, <3>2, PollGroupFires
    <3> QED BY <3>1, <3>2, <3>3
  <2>5. /\ spc' = "recording" /\ UNCHANGED <<now, tick, state, listed>>
        /\ DOMAIN results' # {}
    BY <1>2, PollGroupFires
  <2> QED BY <2>1, <2>3, <2>4, <2>5 DEF InOrder
<1>3. CASE Record
  <2>1. PICK i \in DOMAIN results :
           /\ list \in Configs /\ DOMAIN results \subseteq DOMAIN list
           /\ spc # "waiting" /\ list[i].key \in Keys /\ list[i].expr \in Exprs
           /\ FiredAt(list[i]) = tick /\ tick \in Nat \ {0}
           /\ state' = [state EXCEPT ![list[i].key] = tick]
           /\ UNCHANGED <<now, tick, list, due, fired, listed>>
           /\ DOMAIN results' = DOMAIN results \ {i}
           /\ spc' = IF DOMAIN results = {i} THEN "polling" ELSE "recording"
    BY <1>3, RecordNotes
  <2>2. state' \in [Keys -> Nat]
    BY <2>1 DEF InOrder
  <2>3. ASSUME NEW k \in Keys, state'[k] # Never
        PROVE  \E y \in Exprs : state'[k] <= fired'[<<k, y>>]
    <3>1. CASE k = list[i].key
      <4>1. state'[k] = tick /\ fired'[<<k, list[i].expr>>] = tick
        BY <2>1, <3>1 DEF InOrder, FiredAt
      <4> QED BY <2>1, <4>1
    <3>2. CASE k # list[i].key
      <4>1. state'[k] = state[k]
        BY <2>1, <3>2 DEF InOrder
      <4> QED BY <2>1, <2>3, <4>1 DEF InOrder
    <3> QED BY <3>1, <3>2
  <2>4. InTick'
    BY <2>1 DEF InOrder, InTick, FiredAt
  <2>5. /\ UNCHANGED <<now, tick, fired, listed>>
        /\ spc' = "recording" => DOMAIN results' # {}
        /\ spc' # "recording" => DOMAIN results' = {}
    BY <2>1
  <2> QED BY <2>2, <2>3, <2>4, <2>5 DEF InOrder
<1>4. CASE EndTick
  <2>1. /\ spc = "polling" /\ spc' = "waiting" /\ tick' = 0
        /\ state' = [k \in Keys |-> IF k \in KeysOf(list) THEN state[k] ELSE 0]
        /\ UNCHANGED <<now, fired, listed, results>>
    BY <1>4 DEF EndTick, Evicted, Never
  <2>2. state' \in [Keys -> Nat]
    BY <2>1 DEF InOrder
  <2>3. ASSUME NEW k \in Keys, state'[k] # Never
        PROVE  \E y \in Exprs : state'[k] <= fired'[<<k, y>>]
    BY <2>1, <2>3 DEF InOrder, Never
  <2> QED BY <2>1, <2>2, <2>3 DEF InOrder
<1>5. CASE now' \in Nat /\ now' >= now /\ UNCHANGED schedVars
  <2>1. UNCHANGED <<spc, tick, list, due, results, state, fired, listed>>
    BY <1>5 DEF schedVars, tickVars
  <2>2. InTick' = InTick
    BY <2>1 DEF InTick, FiredAt
  <2>3. now' \in Nat \ {0} /\ tick \in Nat /\ tick <= now'
    BY <1>5 DEF InOrder
  <2>4. \A x \in Keys \X Exprs : fired[x] <= now'
    <3>1. now \in Nat /\ \A x \in Keys \X Exprs : fired[x] \in Nat /\ fired[x] <= now
      BY DEF InOrder
    <3> QED BY <1>5, <3>1
  <2> QED BY <2>1, <2>2, <2>3, <2>4 DEF InOrder
<1> QED BY <1>1, <1>2, <1>3, <1>4, <1>5 DEF ScheduleMoves, TickStep

-----------------------------------------------------------------------------
(* Ticks find the due *)

Pending(k) == \E i \in DOMAIN results : list[i].key = k

\* The scheduler remembers exactly the trackers of the last list it went
\* through, each by its latest poll.
Remembers ==
  /\ \A k \in Keys : state[k] # Never =>
       Pending(k) \/ \A x \in Exprs : fired[<<k, x>>] <= state[k]
  /\ spc = "waiting" =>
       \A k \in Keys : state[k] # Never <=> \E x \in Exprs : listed[<<k, x>>] # Never
  /\ spc # "waiting" =>
       \A i \in DOMAIN list : i \in due \/ i \in DOMAIN results \/ state[list[i].key] # Never

LEMMA RemembersStep ==
  ASSUME InOrder, Remembers, ScheduleMoves
  PROVE  Remembers'
<1>1. CASE config \in Configs /\ BeginTick
  <2>1. /\ spc = "waiting" /\ spc' = "polling" /\ list' = config
        /\ due' = {i \in DOMAIN config : IsDue(config[i], now)}
        /\ UNCHANGED <<results, state, fired>> /\ DOMAIN results = {}
    BY <1>1, BeginTickLists
  <2>2. ASSUME NEW i \in DOMAIN list', i \notin due' PROVE state'[list'[i].key] # Never
    BY <2>1, <2>2 DEF IsDue
  <2>3. \A k \in Keys : ~Pending(k) /\ ~Pending(k)'
    BY <2>1 DEF Pending
  <2> QED BY <2>1, <2>2, <2>3 DEF Remembers
<1>2. CASE PollGroup
  <2>1. /\ spc = "polling" /\ spc' = "recording" /\ UNCHANGED <<list, state>>
        /\ due' = due \ Group /\ DOMAIN results' = Group /\ DOMAIN results = {}
        /\ fired' = [x \in Keys \X Exprs |->
                       IF \E i \in Group : x = <<list[i].key, list[i].expr>>
                       THEN tick ELSE fired[x]]
    BY <1>2, PollGroupFires DEF InOrder
  <2>2. ASSUME NEW k \in Keys, state'[k] # Never, ~Pending(k)', NEW x \in Exprs
        PROVE  fired'[<<k, x>>] <= state'[k]
    <3>1. \A i \in Group : list[i].key # k
      BY <2>1, <2>2 DEF Pending
    <3>2. fired'[<<k, x>>] = fired[<<k, x>>]
      BY <2>1, <3>1
    <3>3. ~Pending(k)
      BY <2>1 DEF Pending
    <3> QED BY <2>1, <2>2, <3>2, <3>3 DEF Remembers
  <2> QED BY <2>1, <2>2 DEF Remembers
<1>3. CASE Record
  <2>1. PICK i \in DOMAIN results :
           /\ list \in Configs /\ DOMAIN results \subseteq DOMAIN list
           /\ spc # "waiting" /\ list[i].key \in Keys /\ list[i].expr \in Exprs
           /\ FiredAt(list[i]) = tick /\ tick \in Nat \ {0}
           /\ state' = [state EXCEPT ![list[i].key] = tick]
           /\ UNCHANGED <<now, tick, list, due, fired, listed>>
           /\ DOMAIN results' = DOMAIN results \ {i}
           /\ spc' = IF DOMAIN results = {i} THEN "polling" ELSE "recording"
    BY <1>3, RecordNotes
  <2>2. ASSUME NEW k \in Keys, state'[k] # Never, ~Pending(k)', NEW x \in Exprs
        PROVE  fired'[<<k, x>>] <= state'[k]
    <3>1. CASE k = list[i].key
      <4>1. state'[k] = tick
        BY <2>1, <3>1 DEF InOrder
      <4>2. fired[<<k, x>>] <= tick
        BY <2>1 DEF InOrder, InTick
      <4> QED BY <2>1, <4>1, <4>2
    <3>2. CASE k # list[i].key
      <4>1. state'[k] = state[k] /\ ~Pending(k)
        BY <2>1, <2>2, <3>2 DEF InOrder, Pending
      <4> QED BY <2>1, <2>2, <4>1 DEF Remembers
    <3> QED BY <3>1, <3>2
  <2>3. ASSUME NEW j \in DOMAIN list
        PROVE  j \in due \/ j \in DOMAIN results' \/ state'[list[j].key] # Never
    <3>1. list[j].key \in Keys
      BY <2>1, TrackerTyped
    <3>2. CASE list[j].key = list[i].key
      BY <2>1, <3>1, <3>2 DEF InOrder, Never
    <3>3. CASE list[j].key # list[i].key
      <4>1. state'[list[j].key] = state[list[j].key] /\ j # i
        BY <2>1, <3>1, <3>3 DEF InOrder
      <4> QED BY <2>1, <4>1 DEF Remembers
    <3> QED BY <3>2, <3>3
  <2> QED BY <2>1, <2>2, <2>3 DEF Remembers
<1>4. CASE EndTick
  <2>1. /\ spc = "polling" /\ spc' = "waiting" /\ due = {}
        /\ state' = [k \in Keys |-> IF k \in KeysOf(list) THEN state[k] ELSE Never]
        /\ UNCHANGED <<fired, listed, results>>
    BY <1>4 DEF EndTick, Evicted
  <2>2. DOMAIN results = {} /\ list \in Configs
    BY <2>1 DEF InOrder, InTick
  <2>3. ASSUME NEW k \in Keys
        PROVE  state'[k] # Never <=> \E x \in Exprs : listed[<<k, x>>] # Never
    <3>1. k \in KeysOf(list) => state[k] # Never
      BY <2>1, <2>2 DEF Remembers, KeysOf
    <3>2. k \in KeysOf(list) <=> \E x \in Exprs : <<k, x>> \in PairsOf(list)
      BY <2>2, TrackerTyped DEF KeysOf, PairsOf
    <3>3. \A x \in Exprs : listed[<<k, x>>] # Never <=> <<k, x>> \in PairsOf(list)
      BY <2>1 DEF InOrder, InTick
    <3> QED BY <2>1, <3>1, <3>2, <3>3
  <2>4. \A k \in Keys : ~Pending(k) /\ ~Pending(k)'
    BY <2>1, <2>2 DEF Pending
  <2>5. ASSUME NEW k \in Keys, state'[k] # Never, NEW x \in Exprs
        PROVE  fired'[<<k, x>>] <= state'[k]
    BY <2>1, <2>4, <2>5 DEF Remembers
  <2> QED BY <2>1, <2>3, <2>5 DEF Remembers
<1>5. CASE now' \in Nat /\ now' >= now /\ UNCHANGED schedVars
  BY <1>5 DEF Remembers, Pending, schedVars, tickVars
<1> QED BY <1>1, <1>2, <1>3, <1>4, <1>5 DEF ScheduleMoves, TickStep

\* What TicksFindTheDue says of a step.
FindsTheDue ==
  spc = "waiting" /\ spc' = "polling" =>
    \A i \in DOMAIN list' :
      LET t == list'[i] IN
        i \in due' <=>
          \/ \A x \in Exprs : listed[t.key, x] = Never
          \/ \A x \in Exprs : tick' - fired[t.key, x] >= t.interval

LEMMA BeginTickFinds ==
  ASSUME InOrder, Remembers, config \in Configs, BeginTick
  PROVE  FindsTheDue
<1>1. /\ spc = "waiting" /\ tick' = now /\ list' = config
      /\ due' = {i \in DOMAIN config : IsDue(config[i], now)}
      /\ DOMAIN results = {}
  BY BeginTickLists
<1> SUFFICES ASSUME NEW i \in DOMAIN config
             PROVE  IsDue(config[i], now) <=>
                      \/ \A x \in Exprs : listed[<<config[i].key, x>>] = Never
                      \/ \A x \in Exprs : now - fired[<<config[i].key, x>>] >= config[i].interval
  BY <1>1 DEF FindsTheDue
<1> DEFINE k == config[i].key
           n == config[i].interval
<1>2. k \in Keys /\ n \in Nat
  BY TrackerTyped
<1>3. IsDue(config[i], now) <=> state[k] = 0 \/ n = 0 \/ now - state[k] >= n
  BY DEF IsDue, Never
<1>4. state[k] = 0 <=> \A x \in Exprs : listed[<<k, x>>] = Never
  BY <1>1, <1>2 DEF Remembers, Never
<1>5. now \in Nat /\ state[k] \in Nat
      /\ \A x \in Exprs : fired[<<k, x>>] \in Nat /\ fired[<<k, x>>] <= now
  BY <1>2 DEF InOrder
<1> HIDE DEF k, n
<1>6. ASSUME state[k] # 0
      PROVE  n = 0 \/ now - state[k] >= n <=> \A x \in Exprs : now - fired[<<k, x>>] >= n
  <2>1. PICK y \in Exprs : state[k] <= fired[<<k, y>>]
    BY <1>2, <1>6 DEF InOrder, Never
  <2>2. \A x \in Exprs : fired[<<k, x>>] <= state[k]
    BY <1>1, <1>2, <1>6 DEF Remembers, Pending, Never
  <2> QED BY <1>2, <1>5, <2>1, <2>2
<1> QED BY <1>3, <1>4, <1>6 DEF k, n

-----------------------------------------------------------------------------
(* Every tracker on time *)

\* A config names one extractor for an identity (scheduler.go:72-75: "Must be
\* unique per flattened tracker"); the next config may name another.  Intervals
\* are positive.
OneExtractorEach ==
  \A c \in Configs : \A i, j \in DOMAIN c : c[i].key = c[j].key => c[i].expr = c[j].expr

PositiveIntervals == \A c \in Configs : \A i \in DOMAIN c : c[i].interval > 0

\* A poll with y speaks for a tracker that is to be polled with x: it is one
\* with x, or one of before x was listed.
SpeaksFor(k, y, x) == y = x \/ fired[<<k, y>>] <= listed[<<k, x>>]

\* A tracker of the list is due and not polled, or was polled recently.
OnTimeOrDue(i) ==
  \/ i \in due
  \/ \E y \in Exprs :
       /\ fired[<<list[i].key, y>>] # Never
       /\ tick - fired[<<list[i].key, y>>] < list[i].interval
       /\ SpeaksFor(list[i].key, y, list[i].expr)

OnTime ==
  /\ \A k \in Keys, x \in Exprs : state[k] # Never /\ listed[<<k, x>>] # Never =>
       \E y \in Exprs : state[k] <= fired[<<k, y>>] /\ SpeaksFor(k, y, x)
  /\ spc # "waiting" => \A i \in DOMAIN list : OnTimeOrDue(i)

LEMMA BeginTickOnTime ==
  ASSUME InOrder, OnTime, config \in Configs, BeginTick
  PROVE  OnTime'
<1>1. /\ spc' = "polling" /\ tick' = now /\ list' = config
      /\ due' = {i \in DOMAIN config : IsDue(config[i], now)}
      /\ UNCHANGED <<now, state, fired>>
      /\ \A x \in Keys \X Exprs :
           /\ listed'[x] \in Nat
           /\ listed'[x] # Never <=> x \in PairsOf(config)
           /\ listed'[x] # Never => listed'[x] = (IF listed[x] = Never THEN now ELSE listed[x])
  BY BeginTickLists
<1>2. ASSUME NEW k \in Keys, NEW x \in Exprs, state'[k] # Never, listed'[<<k, x>>] # Never
      PROVE  \E y \in Exprs : state'[k] <= fired'[<<k, y>>] /\ SpeaksFor(k, y, x)'
  <2>1. <<k, x>> \in Keys \X Exprs
    OBVIOUS
  <2>2. CASE listed[<<k, x>>] = Never
    <3>1. PICK y \in Exprs : state[k] <= fired[<<k, y>>]
      BY <1>1, <1>2 DEF InOrder
    <3>2. <<k, y>> \in Keys \X Exprs
      OBVIOUS
    <3>3. fired[<<k, y>>] <= now
      BY <3>2 DEF InOrder
    <3> QED BY <1>1, <1>2, <2>1, <2>2, <3>1, <3>3 DEF SpeaksFor
  <2>3. CASE listed[<<k, x>>] # Never
    <3>1. PICK y \in Exprs : state[k] <= fired[<<k, y>>] /\ SpeaksFor(k, y, x)
      BY <1>1, <1>2, <2>3 DEF OnTime
    <3>2. listed'[<<k, x>>] = listed[<<k, x>>]
      BY <1>1, <1>2, <2>1, <2>3
    <3> QED BY <1>1, <3>1, <3>2 DEF SpeaksFor
  <2> QED BY <2>2, <2>3
<1>3. ASSUME NEW i \in DOMAIN config, ~IsDue(config[i], now)
      PROVE  OnTimeOrDue(i)'
  <2>0. PICK k \in Keys, x \in Exprs, n \in Nat :
          k = config[i].key /\ x = config[i].expr /\ n = config[i].interval
    BY TrackerTyped
  <2>1. <<k, x>> \in Keys \X Exprs /\ <<k, x>> \in PairsOf(config)
    BY <2>0 DEF PairsOf
  <2>2. state[k] # Never /\ ~(now - state[k] >= n)
    BY <1>3, <2>0 DEF IsDue
  <2>3. state'[k] # Never /\ listed'[<<k, x>>] # Never /\ state' = state /\ fired' = fired
    BY <1>1, <2>1, <2>2
  <2>4. PICK y \in Exprs : state'[k] <= fired'[<<k, y>>] /\ SpeaksFor(k, y, x)'
    BY <1>2, <2>3
  <2>5. <<k, y>> \in Keys \X Exprs
    OBVIOUS
  <2>6. /\ now \in Nat /\ state[k] \in Nat
        /\ fired[<<k, y>>] \in Nat /\ fired[<<k, y>>] <= now
    BY <2>5 DEF InOrder
  <2>7. fired'[<<k, y>>] # Never /\ now - fired'[<<k, y>>] < n
    BY <2>2, <2>3, <2>4, <2>6 DEF Never
  <2>8. list' = config /\ tick' = now
    BY <1>1
  <2> QED BY <2>0, <2>4, <2>7, <2>8 DEF OnTimeOrDue, SpeaksFor
<1>4. \A i \in DOMAIN list' : OnTimeOrDue(i)'
  BY <1>1, <1>3 DEF OnTimeOrDue
<1> QED BY <1>2, <1>4 DEF OnTime

LEMMA PollGroupOnTime ==
  ASSUME InOrder, OnTime, OneExtractorEach, PositiveIntervals, PollGroup
  PROVE  OnTime'
<1>1. /\ spc = "polling" /\ list \in Configs /\ tick \in Nat \ {0}
      /\ UNCHANGED <<tick, list, state, listed>>
      /\ Group \subseteq due /\ due \subseteq DOMAIN list
      /\ due' = due \ Group
      /\ fired' = [x \in Keys \X Exprs |->
                     IF \E i \in Group : x = <<list[i].key, list[i].expr>>
                     THEN tick ELSE fired[x]]
      /\ \A x \in Keys \X Exprs :
           fired'[x] \in Nat /\ fired[x] <= fired'[x] /\ fired'[x] <= tick
  BY PollGroupFires
\* A poll that speaks for a listed tracker still does, for it is not of another
\* extractor in this list.
<1>2. ASSUME NEW k \in Keys, NEW x \in Exprs, NEW y \in Exprs,
             <<k, x>> \in PairsOf(list), SpeaksFor(k, y, x)
      PROVE  /\ SpeaksFor(k, y, x)'
             /\ fired'[<<k, y>>] \in {fired[<<k, y>>], tick}
  <2>0. <<k, y>> \in Keys \X Exprs
    OBVIOUS
  <2>1. CASE \E i \in Group : <<k, y>> = <<list[i].key, list[i].expr>>
    <3>1. PICK i \in DOMAIN list : list[i].key = k /\ list[i].expr = y
      BY <1>1, <2>1
    <3>2. PICK j \in DOMAIN list : list[j].key = k /\ list[j].expr = x
      BY <1>2 DEF PairsOf
    <3>3. y = x
      BY <1>1, <3>1, <3>2 DEF OneExtractorEach
    <3> QED BY <1>1, <2>0, <2>1, <3>3 DEF SpeaksFor
  <2>2. CASE ~ \E i \in Group : <<k, y>> = <<list[i].key, list[i].expr>>
    <3>1. fired'[<<k, y>>] = fired[<<k, y>>] /\ listed' = listed
      BY <1>1, <2>0, <2>2
    <3>2. SpeaksFor(k, y, x)'
      BY <1>2, <3>1 DEF SpeaksFor
    <3> QED BY <3>1, <3>2
  <2> QED BY <2>1, <2>2
<1>3. ASSUME NEW k \in Keys, NEW x \in Exprs, state'[k] # Never, listed'[<<k, x>>] # Never
      PROVE  \E y \in Exprs : state'[k] <= fired'[<<k, y>>] /\ SpeaksFor(k, y, x)'
  <2>1. <<k, x>> \in PairsOf(list)
    BY <1>1, <1>3 DEF InOrder, InTick
  <2>2. PICK y \in Exprs : state[k] <= fired[<<k, y>>] /\ SpeaksFor(k, y, x)
    BY <1>1, <1>3 DEF OnTime
  <2>3. <<k, y>> \in Keys \X Exprs /\ state[k] \in Nat /\ fired[<<k, y>>] \in Nat
    BY DEF InOrder
  <2>4. state[k] <= fired'[<<k, y>>]
    BY <1>1, <2>2, <2>3
  <2> QED BY <1>1, <1>2, <2>1, <2>2, <2>4
<1>4. ASSUME NEW i \in DOMAIN list
      PROVE  OnTimeOrDue(i)'
  <2>0. PICK k \in Keys, x \in Exprs, n \in Nat :
          k = list[i].key /\ x = list[i].expr /\ n = list[i].interval
    BY <1>1, TrackerTyped
  <2>1. n \in Nat \ {0} /\ <<k, x>> \in Keys \X Exprs
    BY <1>1, <2>0 DEF PositiveIntervals
  <2>2. CASE i \in Group
    <3>1. fired'[<<k, x>>] = tick
      BY <1>1, <2>0, <2>1, <2>2
    <3>2. tick # Never /\ tick - tick < n
      BY <1>1, <2>1 DEF Never
    <3> QED BY <1>1, <2>0, <3>1, <3>2 DEF OnTimeOrDue, SpeaksFor
  <2>3. CASE i \in due \ Group
    BY <1>1, <2>3 DEF OnTimeOrDue
  <2>4. CASE i \notin due
    <3>1. PICK y \in Exprs : /\ fired[<<k, y>>] # Never /\ tick - fired[<<k, y>>] < n
                             /\ SpeaksFor(k, y, x)
      BY <1>1, <2>0, <2>4 DEF OnTime, OnTimeOrDue
    <3>2. <<k, x>> \in PairsOf(list)
      BY <2>0 DEF PairsOf
    <3>3. SpeaksFor(k, y, x)' /\ fired'[<<k, y>>] \in {fired[<<k, y>>], tick}
      BY <1>2, <3>1, <3>2
    <3>4. fired'[<<k, y>>] # Never /\ tick - fired'[<<k, y>>] < n
      BY <1>1, <2>1, <3>1, <3>3 DEF Never
    <3>5. UNCHANGED <<tick, list>>
      BY <1>1
    <3> QED BY <2>0, <3>3, <3>4, <3>5 DEF OnTimeOrDue, SpeaksFor
  <2> QED BY <2>2, <2>3, <2>4
<1> QED BY <1>1, <1>3, <1>4 DEF OnTime

LEMMA RecordOnTime ==
  ASSUME InOrder, OnTime, OneExtractorEach, Record
  PROVE  OnTime'
<1>1. PICK i \in DOMAIN results :
         /\ list \in Configs /\ DOMAIN results \subseteq DOMAIN list
         /\ spc # "waiting" /\ list[i].key \in Keys /\ list[i].expr \in Exprs
         /\ FiredAt(list[i]) = tick /\ tick \in Nat \ {0}
         /\ state' = [state EXCEPT ![list[i].key] = tick]
         /\ UNCHANGED <<now, tick, list, due, fired, listed>>
         /\ DOMAIN results' = DOMAIN results \ {i}
         /\ spc' = IF DOMAIN results = {i} THEN "polling" ELSE "recording"
  BY RecordNotes
<1>2. ASSUME NEW k \in Keys, NEW x \in Exprs, state'[k] # Never, listed'[<<k, x>>] # Never
      PROVE  \E y \in Exprs : state'[k] <= fired'[<<k, y>>] /\ SpeaksFor(k, y, x)'
  <2>1. CASE k = list[i].key
    <3>1. PICK j \in DOMAIN list : list[j].key = k /\ list[j].expr = x
      BY <1>1, <1>2 DEF InOrder, InTick, PairsOf
    <3>2. list[i].expr = x
      BY <1>1, <2>1, <3>1 DEF OneExtractorEach
    <3>3. state'[k] = tick /\ fired'[<<k, x>>] = tick
      BY <1>1, <2>1, <3>2 DEF InOrder, FiredAt
    <3> QED BY <1>1, <3>3 DEF SpeaksFor
  <2>2. CASE k # list[i].key
    <3>1. state'[k] = state[k]
      BY <1>1, <2>2 DEF InOrder
    <3> QED BY <1>1, <1>2, <3>1 DEF OnTime, SpeaksFor
  <2> QED BY <2>1, <2>2
<1>3. \A j \in DOMAIN list : OnTimeOrDue(j)' = OnTimeOrDue(j)
  BY <1>1 DEF OnTimeOrDue, SpeaksFor
<1> QED BY <1>1, <1>2, <1>3 DEF OnTime

LEMMA OnTimeStep ==
  ASSUME OneExtractorEach, PositiveIntervals, InOrder, OnTime, ScheduleMoves
  PROVE  OnTime'
<1>1. CASE EndTick
  <2>1. /\ spc' = "waiting"
        /\ state' = [k \in Keys |-> IF k \in KeysOf(list) THEN state[k] ELSE Never]
        /\ UNCHANGED <<fired, listed>>
    BY <1>1 DEF EndTick, Evicted
  <2>2. \A k \in Keys : state'[k] # Never => state'[k] = state[k]
    BY <2>1
  <2> QED BY <2>1, <2>2 DEF OnTime, SpeaksFor
<1>2. CASE now' \in Nat /\ now' >= now /\ UNCHANGED schedVars
  BY <1>2 DEF OnTime, OnTimeOrDue, SpeaksFor, schedVars, tickVars
<1> QED
  BY <1>1, <1>2, BeginTickOnTime, PollGroupOnTime, RecordOnTime DEF ScheduleMoves, TickStep

LEMMA OnTimeKeepsCadence ==
  ASSUME OnTime
  PROVE  EveryTrackerOnTime
  BY DEF OnTime, OnTimeOrDue, SpeaksFor, EveryTrackerOnTime

-----------------------------------------------------------------------------
(* The schedule alone *)

\* A schedule that starts.
Fresh ==
  /\ spc = "waiting" /\ tick = Never /\ results = <<>>
  /\ state = [k \in Keys |-> Never] /\ entries = [k \in Keys |-> NoEntry]
  /\ fired = [x \in Keys \X Exprs |-> Never] /\ listed = [x \in Keys \X Exprs |-> Never]

LEMMA StartsInOrder ==
  now \in Nat \ {0} /\ Fresh => Agree /\ InOrder /\ Remembers /\ OnTime
<1> SUFFICES ASSUME now \in Nat \ {0}, Fresh
             PROVE  Agree /\ InOrder /\ Remembers /\ OnTime
  OBVIOUS
<1>1. DOMAIN results = {}
  BY DEF Fresh
<1>2. \A k \in Keys, x \in Exprs : state[k] = 0 /\ fired[<<k, x>>] = 0 /\ listed[<<k, x>>] = 0
  BY DEF Fresh, Never
<1>3. Agree
  BY DEF Agree, Fresh, Never
<1>4. InOrder
  BY <1>1 DEF InOrder, Fresh, Never
<1>5. Remembers
  BY <1>2 DEF Remembers, Fresh, Never
<1>6. OnTime
  BY <1>2 DEF OnTime, Fresh, Never
<1> QED BY <1>3, <1>4, <1>5, <1>6

LEMMA ScheduleStep ==
  ASSUME config \in Configs, now \in Nat, [Next]_vars
  PROVE  config' \in Configs /\ ScheduleMoves
<1>1. CASE Advance
  BY <1>1 DEF Advance, ScheduleMoves
<1>2. ASSUME NEW c \in Configs, Reconfigure(c)
      PROVE  config' \in Configs /\ ScheduleMoves
  BY <1>2 DEF Reconfigure, ScheduleMoves
<1>3. CASE TickStep
  BY <1>3 DEF TickStep, BeginTick, PollGroup, Record, EndTick, ScheduleMoves
<1>4. CASE UNCHANGED vars
  BY <1>4 DEF vars, ScheduleMoves
<1> QED BY <1>1, <1>2, <1>3, <1>4 DEF Next

\* Between ticks a tracker whose interval has not been edited since its last
\* poll is due exactly from the time Snapshot gives as NextRunAt.
THEOREM StatusIsTheSchedule == Spec => []StatusTellsTheSchedule
<1> DEFINE Inv == Agree /\ config \in Configs
<1>1. Init => Inv
  BY StartsInOrder DEF Init, Fresh
<1>2. Inv /\ [Next]_vars => Inv'
  BY ScheduleStep, AgreeStep DEF Agree
<1>3. Inv => StatusTellsTheSchedule
  BY AgreeTells
<1> QED BY <1>1, <1>2, <1>3, PTL DEF Spec

\* Whatever configs follow each other, the intervals and the failures of
\* siblings, a tick leaves no tracker of its list unpolled for longer than its
\* interval (scheduler.go:120-148), provided each config names one extractor for
\* an identity.
THEOREM CadencesHold ==
  ASSUME OneExtractorEach, PositiveIntervals
  PROVE  Spec => []EveryTrackerOnTime
<1> DEFINE Inv == InOrder /\ OnTime /\ config \in Configs
<1>1. Init => Inv
  BY StartsInOrder DEF Init, Fresh
<1>2. Inv /\ [Next]_vars => Inv'
  BY ScheduleStep, InOrderStep, OnTimeStep DEF InOrder
<1>3. Inv => EveryTrackerOnTime
  BY OnTimeKeepsCadence
<1> QED BY <1>1, <1>2, <1>3, PTL DEF Spec

-----------------------------------------------------------------------------
(* The watcher beside it *)


WatcherProofs == INSTANCE ConfigWatcherProofs WITH
  Good <- Configs, None <- NoConfig, current <- config

\* The composition implements the watcher (watcher.go:36-123 beside
\* scheduler.go:107-300): the scheduler writes nothing the watcher reads.
THEOREM WatcherImplemented == SSpec => WatcherProofs!Spec
<1>1. SInit => WatcherProofs!Init
  BY DEF SInit, Watcher!Init, WatcherProofs!Init
<1>2. [SNext]_allVars => [WatcherProofs!Next]_(WatcherProofs!watcherVars)
  <2> SUFFICES ASSUME [SNext]_allVars
               PROVE  WatcherProofs!Next \/ UNCHANGED WatcherProofs!watcherVars
    OBVIOUS
  <2>1. ASSUME NEW c \in Configs \cup Bad \cup {Missing}, EditFile(c)
        PROVE  WatcherProofs!Next
    BY <2>1 DEF EditFile, Watcher!Edit, WatcherProofs!Edit, WatcherProofs!Next,
       Watcher!Cardinality, WatcherProofs!Cardinality
  <2>2. CASE WatcherStep
    BY <2>2 DEF WatcherStep, WatcherProofs!Next,
       Watcher!WatchStep, WatcherProofs!WatchStep, Watcher!LoadParse,
       WatcherProofs!LoadParse, Watcher!LoadFails, WatcherProofs!LoadFails,
       Watcher!LoadHash, WatcherProofs!LoadHash, Watcher!WatchTick,
       WatcherProofs!WatchTick, Watcher!ReloadHash, WatcherProofs!ReloadHash,
       Watcher!ReloadParse, WatcherProofs!ReloadParse, Watcher!ReloadFails,
       WatcherProofs!ReloadFails, Watcher!ReloadSwap,
       WatcherProofs!ReloadSwap, Watcher!SwapHash, WatcherProofs!SwapHash,
       Watcher!Valid, WatcherProofs!Valid, Watcher!Readable,
       WatcherProofs!Readable
  <2>3. CASE SchedulerStep
    BY <2>3 DEF SchedulerStep, TickStep, BeginTick, PollGroup, Record, EndTick,
       fileVars, WatcherProofs!watcherVars
  <2>4. CASE Clock
    BY <2>4 DEF Clock, Advance, fileVars, WatcherProofs!watcherVars
  <2>5. CASE Restart
    BY <2>5 DEF Restart, Watcher!Restart, WatcherProofs!Restart, WatcherProofs!Next
  <2>6. CASE UNCHANGED allVars
    BY <2>6 DEF allVars, vars, fileVars, WatcherProofs!watcherVars
  <2> QED
    BY <2>1, <2>2, <2>3, <2>4, <2>5, <2>6 DEF SNext
<1> QED
  BY <1>1, <1>2, PTL DEF SSpec, WatcherProofs!Spec

LEMMA WatcherAssumed == WatcherProofs!WatcherAssumption
  BY SchedulingAssumption DEF SchedulingAssumption, Watcher!WatcherAssumption,
     WatcherProofs!WatcherAssumption

\* For all configs, edits and restarts the last-good config stays served, the
\* scheduler beside it (watcher.go:82-113).
THEOREM SchedulingKeepsLastGood == SSpec => KeepsLastGood
<1> DEFINE Kept == starts' = starts /\ config # NoConfig
                     => config' \in Configs \cap past'
<1>1. WatcherProofs!Spec => WatcherProofs!KeepsLastGood
  BY WatcherAssumed, WatcherProofs!LastGoodKept
<1>2. WatcherProofs!KeepsLastGood => KeepsLastGood
  <2>1. [Kept]_(WatcherProofs!watcherVars) => [Kept]_(Watcher!watcherVars)
    BY DEF WatcherProofs!watcherVars, Watcher!watcherVars
  <2> QED
    BY <2>1, PTL DEF KeepsLastGood, Watcher!KeepsLastGood,
       WatcherProofs!KeepsLastGood, Kept
<1> QED
  BY <1>1, <1>2, WatcherImplemented, PTL

\* Without an edit inside Load or a content that comes back, a watcher at rest
\* serves the file's config, whatever the scheduler does (watcher.go:36-123).
THEOREM SchedulingRests ==
  ASSUME ~AllowEditInLoad, ~AllowRevert
  PROVE  SSpec => []RestsOnTheFile
<1>1. WatcherProofs!Spec => []WatcherProofs!RestsOnTheFile
  BY WatcherAssumed, WatcherProofs!Rests
<1>2. WatcherProofs!RestsOnTheFile => RestsOnTheFile
  BY DEF RestsOnTheFile, Watcher!RestsOnTheFile, WatcherProofs!RestsOnTheFile
<1> QED
  BY <1>1, <1>2, WatcherImplemented, PTL

-----------------------------------------------------------------------------
(* The schedule driven by the file *)

LEMMA FileConfig == SSpec => [](config \in Configs \cup {NoConfig})
<1>1. WatcherProofs!Spec => []WatcherProofs!Held
  BY WatcherAssumed, WatcherProofs!HeldInvariant
<1>2. WatcherProofs!Held => config \in Configs \cup {NoConfig}
  BY DEF WatcherProofs!Held, WatcherProofs!TypeOK
<1> QED BY <1>1, <1>2, WatcherImplemented, PTL

\* A step of the composition is one of the schedule, or of its environment, or
\* a restart, which starts the schedule afresh.
LEMMA DrivenStep ==
  ASSUME config \in Configs \cup {NoConfig}, now \in Nat \ {0}, [SNext]_allVars
  PROVE  ScheduleMoves \/ (Agree /\ InOrder /\ Remembers /\ OnTime)'
<1>1. ASSUME NEW c \in Configs \cup Bad \cup {Missing}, EditFile(c)
      PROVE  ScheduleMoves
  BY <1>1 DEF EditFile, vars, ScheduleMoves
<1>2. CASE WatcherStep
  BY <1>2 DEF WatcherStep, ScheduleMoves
<1>3. CASE SchedulerStep
  BY <1>3 DEF SchedulerStep, ScheduleMoves
<1>4. CASE Clock
  BY <1>4 DEF Clock, Advance, ScheduleMoves
<1>5. CASE Restart
  <2>1. (now \in Nat \ {0} /\ Fresh)'
    BY <1>5 DEF Restart, SchedulerStarts, Fresh
  <2>2. (now \in Nat \ {0} /\ Fresh => Agree /\ InOrder /\ Remembers /\ OnTime)'
    BY StartsInOrder, PTL
  <2> QED BY <2>1, <2>2
<1>6. CASE UNCHANGED allVars
  BY <1>6 DEF allVars, vars, ScheduleMoves
<1> QED BY <1>1, <1>2, <1>3, <1>4, <1>5, <1>6 DEF SNext

\* However the file is edited, broken, removed or reloaded during a tick, and
\* through restarts, every tracker keeps its cadence (main.go:184-222).  An edit
\* may give a tracker another extractor.
THEOREM DrivenCadences ==
  ASSUME OneExtractorEach, PositiveIntervals
  PROVE  SSpec => []EveryTrackerOnTime
<1> DEFINE Known == config \in Configs \cup {NoConfig}
           Inv == InOrder /\ OnTime
<1>1. SInit => Inv
  BY StartsInOrder DEF SInit, Fresh
<1>2. Inv /\ Known /\ [SNext]_allVars => Inv'
  <2> SUFFICES ASSUME Inv, Known, [SNext]_allVars PROVE Inv'
    OBVIOUS
  <2>1. now \in Nat \ {0}
    BY DEF InOrder
  <2>2. ScheduleMoves \/ Inv'
    BY <2>1, DrivenStep
  <2> QED BY <2>2, InOrderStep, OnTimeStep
<1>3. Inv => EveryTrackerOnTime
  BY OnTimeKeepsCadence
<1> HIDE DEF Known, Inv
<1>4. SSpec => []Known
  BY FileConfig DEF Known
<1> QED BY <1>1, <1>2, <1>3, <1>4, PTL DEF SSpec

\* The status pages announce the schedule beside the watcher too; before the
\* config is loaded there are no trackers.
THEOREM DrivenStatus ==
  ASSUME NoConfig = <<>>
  PROVE  SSpec => []StatusTellsTheSchedule
<1> DEFINE Known == config \in Configs \cup {NoConfig}
<1>1. SInit => Agree
  BY StartsInOrder DEF SInit, Fresh
<1>2. Agree /\ Known /\ [SNext]_allVars => Agree'
  <2> SUFFICES ASSUME Agree, Known, [SNext]_allVars PROVE Agree'
    OBVIOUS
  <2>1. now \in Nat \ {0}
    BY DEF Agree
  <2>2. ScheduleMoves \/ Agree'
    BY <2>1, DrivenStep
  <2> QED BY <2>2, AgreeStep
<1>3. Agree /\ Known => StatusTellsTheSchedule
  <2>1. CASE config = NoConfig
    BY <2>1 DEF StatusTellsTheSchedule
  <2>2. ASSUME Agree, config \in Configs PROVE StatusTellsTheSchedule
    BY <2>2, AgreeTells
  <2> QED BY <2>1, <2>2
<1> HIDE DEF Known
<1>4. SSpec => []Known
  BY FileConfig DEF Known
<1> QED BY <1>1, <1>2, <1>3, <1>4, PTL DEF SSpec

\* Whatever the file holds and whenever the process is restarted, a tick polls
\* a tracker that the list of the tick before did not have, one whose identity
\* was last polled an interval ago or earlier, and no other
\* (scheduler.go:108-178).
THEOREM DrivenFindsTheDue == SSpec => TicksFindTheDue
<1> DEFINE Known == config \in Configs \cup {NoConfig}
           Inv == InOrder /\ Remembers
<1>1. SInit => Inv
  BY StartsInOrder DEF SInit, Fresh
<1>2. Inv /\ Known /\ [SNext]_allVars => Inv'
  <2> SUFFICES ASSUME Inv, Known, [SNext]_allVars PROVE Inv'
    OBVIOUS
  <2>1. now \in Nat \ {0}
    BY DEF InOrder
  <2>2. ScheduleMoves \/ Inv'
    BY <2>1, DrivenStep
  <2> QED BY <2>2, InOrderStep, RemembersStep
<1>3. Inv /\ Known /\ [SNext]_allVars => [FindsTheDue]_vars
  <2> SUFFICES ASSUME Inv, Known, [SNext]_allVars, spc = "waiting", spc' = "polling"
               PROVE  FindsTheDue
    BY DEF FindsTheDue
  <2>1. config \in Configs /\ BeginTick
    <3>1. ASSUME NEW c \in Configs \cup Bad \cup {Missing} PROVE ~EditFile(c)
      BY DEF EditFile, vars, schedVars, tickVars
    <3>2. ~WatcherStep /\ ~Clock /\ ~Restart /\ ~UNCHANGED allVars
      BY DEF WatcherStep, Clock, Advance, Restart, SchedulerStarts, allVars, vars,
         schedVars, tickVars
    <3>3. SchedulerStep
      BY <3>1, <3>2 DEF SNext
    <3> QED BY <3>3 DEF SchedulerStep, TickStep, PollGroup, Record, EndTick
  <2> QED BY <2>1, BeginTickFinds
<1> HIDE DEF Known, Inv
<1>4. SSpec => []Known
  BY FileConfig DEF Known
<1> QED
  BY <1>1, <1>2, <1>3, <1>4, PTL DEF SSpec, TicksFindTheDue, FindsTheDue
=============================================================================
