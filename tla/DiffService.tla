----------------------------- MODULE DiffService -----------------------------
(***************************************************************************)
(* What Engine.Diff promises its callers, with no flights and their        *)
(* leaders, no directories, no goroutines, no timers and no clients that   *)
(* hang up in it.                                                          *)
(*                                                                         *)
(* A key is computed by no more than one computation at a time, and not    *)
(* while its outcome is remembered.  A call is refused before there is a   *)
(* key, is told what is remembered, or awaits its key; who awaits a key is *)
(* told, at the same moment as all others who do, one and the same outcome *)
(* of it.  What was computed is remembered, and forgotten again only for   *)
(* want of room.  SubtreeEngine implements this specification.             *)
(***************************************************************************)
EXTENDS Naturals, FiniteSets

CONSTANTS
  Callers,
  Keys,
  Outcome,     \* what a computation may come to: [key, ...]
  Refusals,    \* the outcomes of calls that come to no computation
  MemorySize,  \* how many outcomes are remembered
  None         \* "no outcome"

VARIABLES
  stage,       \* "idle", "asked" or "awaits"
  asked,       \* the key a caller asks for, or asked for last
  answer,      \* what an idle caller was told
  computing,   \* the keys being computed
  result,      \* result[k]: what those who await k are about to be told
  memory       \* the remembered outcomes

vars == <<stage, asked, answer, computing, result, memory>>

-----------------------------------------------------------------------------
Moves(c, from, to) == stage[c] = from /\ stage' = [stage EXCEPT ![c] = to]
Remembered(k) == {o \in memory : o.key = k}
Awaiting(k) == {c \in Callers : stage[c] = "awaits" /\ asked[c] = k}
Told(c, o) == answer' = [answer EXCEPT ![c] = o]

Init ==
  /\ stage = [c \in Callers |-> "idle"]
  /\ asked \in [Callers -> Keys]
  /\ answer = [c \in Callers |-> None]
  /\ computing = {} /\ memory = {}
  /\ result = [k \in Keys |-> None]

Ask(c, k) ==
  /\ Moves(c, "idle", "asked")
  /\ asked' = [asked EXCEPT ![c] = k]
  /\ Told(c, None)
  /\ UNCHANGED <<computing, result, memory>>

Refuse(c) ==
  /\ Moves(c, "asked", "idle")
  /\ \E o \in Refusals : o.key = asked[c] /\ Told(c, o)
  /\ UNCHANGED <<asked, computing, result, memory>>

Recall(c) ==
  /\ Moves(c, "asked", "idle")
  /\ \E o \in Remembered(asked[c]) : Told(c, o)
  /\ UNCHANGED <<asked, computing, result, memory>>

Await(c) ==
  /\ Moves(c, "asked", "awaits")
  /\ UNCHANGED <<asked, answer, computing, result, memory>>

\* Somebody awaits k, and nothing has been done about it.
Unserved(k) == Awaiting(k) # {} /\ k \notin computing /\ result[k] = None

Begin(k) ==
  /\ Unserved(k) /\ Remembered(k) = {}
  /\ computing' = computing \cup {k}
  /\ UNCHANGED <<stage, asked, answer, result, memory>>

\* It is remembered by now.
Reuse(k) ==
  /\ Unserved(k)
  /\ \E o \in Remembered(k) : result' = [result EXCEPT ![k] = o]
  /\ UNCHANGED <<stage, asked, answer, computing, memory>>

Remember(o) ==
  \/ Cardinality(memory) < MemorySize /\ memory' = memory \cup {o}
  \/ /\ Cardinality(memory) = MemorySize
     /\ \E old \in memory : memory' = (memory \ {old}) \cup {o}

Finish(k) ==
  /\ k \in computing
  /\ computing' = computing \ {k}
  /\ \E o \in Outcome :
       /\ o.key = k
       /\ result' = [result EXCEPT ![k] = o]
       /\ Remember(o)
  /\ UNCHANGED <<stage, asked, answer>>

\* All who await k are told.
Tell(k) ==
  /\ result[k] # None
  /\ stage' = [c \in Callers |-> IF c \in Awaiting(k) THEN "idle" ELSE stage[c]]
  /\ answer' = [c \in Callers |-> IF c \in Awaiting(k) THEN result[k] ELSE answer[c]]
  /\ result' = [result EXCEPT ![k] = None]
  /\ UNCHANGED <<asked, computing, memory>>

Next ==
  \/ \E c \in Callers : (\E k \in Keys : Ask(c, k)) \/ Refuse(c) \/ Recall(c) \/ Await(c)
  \/ \E k \in Keys : Begin(k) \/ Reuse(k) \/ Finish(k) \/ Tell(k)

Spec == Init /\ [][Next]_vars
=============================================================================
