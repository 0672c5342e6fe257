---------------------------- MODULE ConfigWatcher ----------------------------
(***************************************************************************)
(* The hot reload of the config file: Load, Reload and pollLoop of         *)
(* internal/config/watcher.go.                                             *)
(*                                                                         *)
(* Load and Reload each read the file twice, once to hash it and once to   *)
(* parse it, and somebody edits it in between.  The hash is what the       *)
(* watcher remembers of the file: it reads again only what hashes          *)
(* differently.  A content stands for its own hash.                        *)
(***************************************************************************)
EXTENDS Naturals, FiniteSets

CONSTANTS
  Good,             \* file contents that parse and validate
  Bad,              \* file contents that do not
  Missing,          \* "the file cannot be read"
  None,             \* "nothing"
  AllowEditInLoad,  \* may the file get another content between Load's reads?
  AllowRevert,      \* may the file get a content back that it had before?
  MaxContents,      \* bound: contents the file has, one after the other
  MaxStarts         \* bound: starts of the process

\* What the constants are.  The theorems take it as a hypothesis, the instance
\* that is checked as an assumption.
WatcherAssumption ==
  /\ None \notin Good \cup Bad \cup {Missing}
  /\ Missing \notin Good \cup Bad
  /\ Good \cap Bad = {}
  /\ AllowEditInLoad \in BOOLEAN /\ AllowRevert \in BOOLEAN
  /\ MaxContents \in Nat /\ MaxStarts \in Nat

VARIABLES
  file,      \* what the file holds
  current,   \* the config served by Current, None before Load returns
  lastHash,  \* the hash of the content last taken over
  wpc,       \* "start", "loading", "idle", "changed", "hashed" or "parsed"
  hashed,    \* Reload's h
  parsed,    \* Load's and Reload's cfg
  starts,    \* starts of the process so far
  past       \* history: what the file has held

watcherVars == <<file, current, lastHash, wpc, hashed, parsed, starts, past>>

Readable == file # Missing

\* Mutant: a reload that reads the file takes it over.
ReadableIsValid == file \in Good \cup Bad

\* parseFile succeeds.
Valid == file \in Good

Init ==
  /\ file \in Good \cup Bad \cup {Missing}
  /\ past = {file}
  /\ current = None /\ lastHash = None
  /\ wpc = "start"
  /\ hashed = None /\ parsed = None
  /\ starts = 0

\* Somebody edits, replaces or removes the file.
Edit(c) ==
  /\ c # file
  /\ AllowRevert \/ c \notin past
  /\ Cardinality(past \cup {c}) <= MaxContents
  /\ AllowEditInLoad \/ wpc # "loading" \/ c = Missing
  /\ file' = c
  /\ past' = past \cup {c}
  /\ UNCHANGED <<current, lastHash, wpc, hashed, parsed, starts>>

-----------------------------------------------------------------------------
(* Load *)

LoadParse ==
  /\ wpc = "start"
  /\ Valid
  /\ parsed' = file
  /\ wpc' = "loading"
  /\ UNCHANGED <<file, current, lastHash, hashed, starts, past>>

\* The file was removed since it was parsed: Load fails and with it the program.
LoadFails ==
  /\ wpc = "loading"
  /\ ~Readable
  /\ wpc' = "start" /\ parsed' = None
  /\ UNCHANGED <<file, current, lastHash, hashed, starts, past>>

LoadHash ==
  /\ wpc = "loading"
  /\ Readable
  /\ lastHash' = file
  /\ current' = parsed
  /\ parsed' = None
  /\ wpc' = "idle"
  /\ UNCHANGED <<file, hashed, starts, past>>

-----------------------------------------------------------------------------
(* pollLoop and Reload *)

WatchTick ==
  /\ wpc = "idle"
  /\ Readable
  /\ lastHash # file
  /\ wpc' = "changed"
  /\ UNCHANGED <<file, current, lastHash, hashed, parsed, starts, past>>

ReloadHash ==
  /\ wpc = "changed"
  /\ Readable
  /\ hashed' = file
  /\ wpc' = "hashed"
  /\ UNCHANGED <<file, current, lastHash, parsed, starts, past>>

ReloadParse ==
  /\ wpc = "hashed"
  /\ Valid
  /\ parsed' = file
  /\ wpc' = "parsed"
  /\ UNCHANGED <<file, current, lastHash, hashed, starts, past>>

\* Mutant: the loop ends with the first reload that fails.
LoopEndsWithError ==
  /\ \/ wpc = "changed" /\ ~Readable
     \/ wpc = "hashed" /\ ~Valid
  /\ wpc' = "ended"
  /\ hashed' = None
  /\ UNCHANGED <<file, current, lastHash, parsed, starts, past>>

\* The last-good config is kept; so is its hash.
ReloadFails ==
  /\ \/ wpc = "changed" /\ ~Readable
     \/ wpc = "hashed" /\ ~Valid
  /\ wpc' = "idle"
  /\ hashed' = None
  /\ UNCHANGED <<file, current, lastHash, parsed, starts, past>>

\* Mutant: the file is hashed again when the config is swapped in.
HashAtSwap == file

\* The hash the new config is remembered by was taken before it was parsed.
SwapHash == hashed

ReloadSwap ==
  /\ wpc = "parsed"
  /\ current' = parsed
  /\ lastHash' = SwapHash
  /\ hashed' = None /\ parsed' = None
  /\ wpc' = "idle"
  /\ UNCHANGED <<file, starts, past>>

\* The process stops and starts again.
Restart ==
  /\ starts < MaxStarts
  /\ starts' = starts + 1
  /\ current' = None /\ lastHash' = None /\ hashed' = None /\ parsed' = None
  /\ wpc' = "start"
  /\ UNCHANGED <<file, past>>

-----------------------------------------------------------------------------
(* Specification *)

WatchStep ==
  \/ LoadParse \/ LoadFails \/ LoadHash
  \/ WatchTick \/ ReloadHash \/ ReloadParse \/ ReloadFails \/ ReloadSwap

Next ==
  \/ \E c \in Good \cup Bad \cup {Missing} : Edit(c)
  \/ WatchStep
  \/ Restart

Spec == Init /\ [][Next]_watcherVars

\* A failed start is tried again, the loop's ticker never stops, and the steps
\* of one reload follow each other.
FairSpec == Spec /\ WF_watcherVars(WatchStep)

-----------------------------------------------------------------------------
(* Properties *)

TypeOK ==
  /\ file \in Good \cup Bad \cup {Missing}
  /\ current \in Good \cup {None}
  /\ lastHash \in Good \cup Bad \cup {None}
  /\ wpc \in {"start", "loading", "idle", "changed", "hashed", "parsed"}
  /\ hashed \in Good \cup Bad \cup {None}
  /\ parsed \in Good \cup {None}
  /\ starts \in 0..MaxStarts
  /\ past \subseteq Good \cup Bad \cup {Missing}

\* Once it serves a config the watcher never serves none, and never one the
\* file did not hold: a file that is broken, removed, or edited between the two
\* reads of a reload leaves the last-good config in place, until the process
\* stops.
KeepsLastGood ==
  [][starts' = starts /\ current # None => current' \in Good \cap past']_watcherVars

\* The watcher rests (its hash is the file's, so it will not read again) only
\* on the config the file holds.
RestsOnTheFile ==
  wpc = "idle" /\ lastHash = file => current = file

\* Once nobody edits the file any more, the watcher serves it if it is valid.
\* This is README.md:119, "edits take effect on the next poll cycle without a
\* restart", said of an edit that is not taken back.
EditsTakeEffect ==
  \A c \in Good : <>[](file = c) => <>[](current = c)
=============================================================================
