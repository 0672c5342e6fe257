------------------------- MODULE ConfigWatcherProofs -------------------------
(***************************************************************************)
(* For every set of contents: the watcher keeps its last-good config, and, *)
(* if the file is not edited between the two reads of Load and never gets  *)
(* an old content back, it rests only on the config the file holds.        *)
(***************************************************************************)
EXTENDS ConfigWatcher, TLAPS

\* What the variables of a step in progress hold, and that all of it was read
\* from the file at some time.
Held ==
  /\ TypeOK
  /\ file \in past
  /\ current \in past \cup {None}
  /\ lastHash \in past \cup {None}
  /\ hashed \in past \cup {None}
  /\ parsed \in past \cup {None}
  /\ wpc \in {"loading", "parsed"} => parsed # None
  /\ wpc \in {"hashed", "parsed"} => hashed # None
  /\ wpc \in {"idle", "changed", "hashed", "parsed"} => current # None

\* Behind each hash lies a config read at the same time or later.
HashNotNewer ==
  /\ wpc = "loading" => file \in {parsed, Missing}
  /\ wpc = "parsed" /\ hashed = file => parsed = file
  /\ wpc # "start" /\ wpc # "loading" /\ lastHash = file => current = file

\* The variables hold what the file once held.
LEMMA HeldInvariant ==
  ASSUME WatcherAssumption
  PROVE  Spec => []Held
<1>1. Init => Held
  BY DEF WatcherAssumption, Init, Held, TypeOK
<1>2. Held /\ [Next]_watcherVars => Held'
  <2> SUFFICES ASSUME Held, [Next]_watcherVars PROVE Held'
    OBVIOUS
  <2> USE DEF WatcherAssumption, Held, TypeOK
  <2>1. ASSUME NEW c \in Good \cup Bad \cup {Missing}, Edit(c) PROVE Held'
    BY <2>1 DEF Edit
  <2>2. CASE LoadParse BY <2>2 DEF LoadParse, Valid
  <2>3. CASE LoadFails BY <2>3 DEF LoadFails
  <2>4. CASE LoadHash BY <2>4 DEF LoadHash, Readable
  <2>5. CASE WatchTick BY <2>5 DEF WatchTick
  <2>6. CASE ReloadHash BY <2>6 DEF ReloadHash, Readable
  <2>7. CASE ReloadParse BY <2>7 DEF ReloadParse, Valid
  <2>8. CASE ReloadFails BY <2>8 DEF ReloadFails
  <2>9. CASE ReloadSwap BY <2>9 DEF ReloadSwap, SwapHash
  <2>10. CASE Restart BY <2>10 DEF Restart
  <2>11. CASE UNCHANGED watcherVars BY <2>11 DEF watcherVars
  <2> QED
    BY <2>1, <2>2, <2>3, <2>4, <2>5, <2>6, <2>7, <2>8, <2>9, <2>10, <2>11
    DEF Next, WatchStep
<1> QED BY <1>1, <1>2, PTL DEF Spec

\* Whatever happens to the file, a served config is replaced only by a valid
\* one the file has held, until the process stops (ReloadFails leaves both the
\* config and its hash alone).
THEOREM LastGoodKept ==
  ASSUME WatcherAssumption
  PROVE  Spec => KeepsLastGood
<1>1. Held /\ [Next]_watcherVars =>
        [starts' = starts /\ current # None => current' \in Good \cap past']_watcherVars
  <2> SUFFICES ASSUME Held, Next, starts' = starts, current # None
               PROVE current' \in Good \cap past'
    OBVIOUS
  <2> USE DEF WatcherAssumption, Held, TypeOK
  <2>1. ASSUME NEW c \in Good \cup Bad \cup {Missing}, Edit(c)
        PROVE current' \in Good \cap past'
    BY <2>1 DEF Edit
  <2>2. CASE WatchStep
    BY <2>2 DEF WatchStep, LoadParse, LoadFails, LoadHash, WatchTick, ReloadHash,
                ReloadParse, ReloadFails, ReloadSwap
  <2>3. CASE Restart
    BY <2>3 DEF Restart
  <2> QED BY <2>1, <2>2, <2>3 DEF Next
<1> QED BY <1>1, HeldInvariant, PTL DEF Spec, KeepsLastGood

\* If Load's two reads see the same file and contents do not come back, the
\* watcher rests only on the config the file holds: Reload hashes first and
\* parses second, so a hash that is still the file's is at least as old as the
\* config that was read after it.
THEOREM Rests ==
  ASSUME WatcherAssumption, ~AllowEditInLoad, ~AllowRevert
  PROVE  Spec => []RestsOnTheFile
<1>1. Init => HashNotNewer
  BY DEF Init, HashNotNewer
<1>2. Held /\ HashNotNewer /\ [Next]_watcherVars => HashNotNewer'
  <2> SUFFICES ASSUME Held, HashNotNewer, [Next]_watcherVars PROVE HashNotNewer'
    OBVIOUS
  <2> USE DEF WatcherAssumption, Held, TypeOK, HashNotNewer
  <2>1. ASSUME NEW c \in Good \cup Bad \cup {Missing}, Edit(c) PROVE HashNotNewer'
    <3>1. c \notin past /\ (wpc = "loading" => c = Missing)
      BY <2>1 DEF Edit
    <3> QED BY <2>1, <3>1 DEF Edit
  <2>2. CASE LoadParse BY <2>2 DEF LoadParse
  <2>3. CASE LoadFails BY <2>3 DEF LoadFails
  <2>4. CASE LoadHash BY <2>4 DEF LoadHash, Readable
  <2>5. CASE WatchTick BY <2>5 DEF WatchTick
  <2>6. CASE ReloadHash BY <2>6 DEF ReloadHash
  <2>7. CASE ReloadParse BY <2>7 DEF ReloadParse
  <2>8. CASE ReloadFails BY <2>8 DEF ReloadFails
  <2>9. CASE ReloadSwap BY <2>9 DEF ReloadSwap, SwapHash
  <2>10. CASE Restart BY <2>10 DEF Restart
  <2>11. CASE UNCHANGED watcherVars BY <2>11 DEF watcherVars
  <2> QED
    BY <2>1, <2>2, <2>3, <2>4, <2>5, <2>6, <2>7, <2>8, <2>9, <2>10, <2>11
    DEF Next, WatchStep
<1>3. HashNotNewer => RestsOnTheFile
  BY DEF HashNotNewer, RestsOnTheFile
<1> QED BY <1>1, <1>2, <1>3, HeldInvariant, PTL DEF Spec
=============================================================================
