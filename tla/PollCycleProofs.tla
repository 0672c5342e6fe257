--------------------------- MODULE PollCycleProofs ---------------------------
(***************************************************************************)
(* Theorems about PollCycle, for every value of its constants.             *)
(***************************************************************************)
EXTENDS PollCycle, SequenceTheorems, WellFoundedInduction, TLAPS

Commit == [time : Times, parent : Nat, content : Contents]

\* What a poll in progress holds beyond its types.
PollHolds ==
  /\ pc \in {"fields", "replay"} => walk # <<>>
  /\ pc = "replay" => cur \in Fields /\ run # <<>>

TypeInv == TypeOK /\ PollHolds

-----------------------------------------------------------------------------
(* What the operators return *)

LEMMA AfterProperties ==
  ASSUME NEW S, NEW s \in Seq(S), NEW lo \in 0..Len(s)
  PROVE  /\ After(s, lo) \in Seq(S)
         /\ Len(After(s, lo)) = Len(s) - lo
         /\ \A i \in 1 .. Len(s) - lo : After(s, lo)[i] = s[lo + i]
<1>1. lo + 1 \in Int /\ Len(s) \in Int /\ \A i \in lo + 1 .. Len(s) : s[i] \in S
  BY LenProperties, ElementOfSeq
<1>2. /\ SubSeq(s, lo + 1, Len(s)) \in Seq(S)
      /\ Len(SubSeq(s, lo + 1, Len(s))) =
           IF lo + 1 <= Len(s) THEN Len(s) - (lo + 1) + 1 ELSE 0
      /\ \A i \in 1 .. Len(s) - (lo + 1) + 1 :
           SubSeq(s, lo + 1, Len(s))[i] = s[lo + 1 + i - 1]
  BY <1>1, SubSeqProperties
<1> QED  BY <1>1, <1>2 DEF After

LEMMA LogDomain == ASSUME TypeOK PROVE DOMAIN log = 1..Len(log) /\ Len(log) \in Nat
  BY LenProperties DEF TypeOK

LEMMA ValueTyped ==
  ASSUME TypeOK, NEW c \in DOMAIN log, NEW d \in Fields
  PROVE  Value(c, d) \in FieldValue
<1>1. log[c] \in Commit
  BY LogDomain, ElementOfSeq DEF TypeOK, Commit
<1>2. log[c].content \in ContentType
  BY <1>1, PollCycleAssumption DEF Commit
<1> QED  BY <1>2 DEF Value, ContentType

LEMMA RowsTyped ==
  ASSUME NEW d \in Fields, NEW c \in DOMAIN log,
         NEW old \in FieldValue, NEW new \in FieldValue
  PROVE  DiffRows(d, c, old, new) \subseteq Row
  BY DEF DiffRows, Row, FieldValue

LEMMA NothingTyped == Nothing \in FieldValue
  BY DEF Nothing, FieldValue

LEMMA ElementsTyped ==
  ASSUME NEW S, NEW s \in Seq(S)
  PROVE  Elements(s) \subseteq S
  BY ElementOfSeq DEF Elements

LEMMA BoundsTyped ==
  ASSUME TypeOK, NEW d \in Fields
  PROVE  BackfillBound(d) \in Nat /\ FieldBound(d) \in Nat
<1>1. now \in Nat /\ Window[d] \in Nat \cup {-1} /\ hwm[d].time \in Nat
  BY PollCycleAssumption DEF TypeOK, Unbounded
<1> QED  BY <1>1 DEF BackfillBound, FieldBound, Unbounded, NoBound
-----------------------------------------------------------------------------
(* Type correctness *)

LEMMA InitTyped == Init => TypeInv
<1> SUFFICES ASSUME Init PROVE TypeInv
  OBVIOUS
<1>1. /\ log \in Seq(Commit) /\ head \in Seq(DOMAIN log)
      /\ hwm \in [Fields -> [sha : 0..Len(log), time : Nat]]
  <2>1. CASE log = <<>> /\ head = <<>> /\ hwm = [d \in Fields |-> NoMark]
    BY <2>1 DEF NoMark, TimeUnknown
  <2>2. CASE \E t \in Times, x \in Contents :
               /\ log = <<NewCommit(t, 0, x)>>
               /\ head = <<1>>
               /\ \E L \in SUBSET (Fields \ x.malformed) :
                    hwm = [d \in Fields |->
                             IF d \in L THEN [sha |-> 1, time |-> TimeUnknown]
                             ELSE NoMark]
    <3>1. log \in Seq(Commit) /\ Len(log) = 1 /\ DOMAIN log = 1..1
      BY <2>2 DEF NewCommit, Commit
    <3> QED  BY <3>1, <2>2 DEF NoMark, TimeUnknown
  <2> QED  BY <2>1, <2>2 DEF Init
<1>2. \A d \in Fields : HasMark(d) => 1 \in DOMAIN log
  BY <1>1 DEF Init, HasMark, NoMark, NewCommit
<1>3. changes \subseteq Row
  <2>1. ASSUME NEW d \in Fields, HasMark(d)
        PROVE  DiffRows(d, 1, Nothing, Value(1, d)) \subseteq Row
    <3>0. log[1] \in Commit
      BY <1>1, <1>2, <2>1, LenProperties, ElementOfSeq
    <3>1. log[1].content \in ContentType
      BY <3>0, PollCycleAssumption DEF Commit
    <3>2. Value(1, d) \in FieldValue
      BY <3>1 DEF Value, ContentType
    <3> QED  BY <1>2, <2>1, <3>2, RowsTyped, NothingTyped
  <2> QED  BY <2>1 DEF Init
<1>4. covered \in [Fields -> SUBSET DOMAIN log] /\ baseline = covered
  BY <1>2 DEF Init
<1>5. now \in 1..MaxTime /\ faults \in 0..MaxFaults
  BY PollCycleAssumption DEF Init
<1>6. /\ walk \in Seq(DOMAIN log) /\ run \in Seq(DOMAIN log)
      /\ pos \in 0..Len(run) /\ from \in 0..Len(log)
  BY <1>1, EmptySeq, LenProperties DEF Init
<1> QED  BY <1>1, <1>3, <1>4, <1>5, <1>6
         DEF Init, TypeInv, TypeOK, PollHolds, Commit, NoBound

LEMMA LogGrows ==
  ASSUME TypeInv,
         UNCHANGED <<now, storeVars, pc, pollVars, errs, runVars, faults>>,
         log' \in Seq(Commit), Len(log') >= Len(log),
         head' \in Seq(DOMAIN log')
  PROVE  TypeInv'
<1>1. DOMAIN log \subseteq DOMAIN log' /\ Len(log) \in Nat /\ Len(log') \in Nat
  BY LogDomain, LenProperties DEF TypeInv
<1>2. walk' \in Seq(DOMAIN log') /\ run' \in Seq(DOMAIN log')
  BY <1>1, SeqMonotonic DEF TypeInv, TypeOK, pollVars, runVars
<1>3. Row \subseteq Row'
  BY <1>1 DEF Row
<1>4. hwm' \in [Fields -> [sha : 0..Len(log'), time : Nat]]
  BY <1>1 DEF TypeInv, TypeOK, storeVars
<1>5. /\ covered' \in [Fields -> SUBSET DOMAIN log']
      /\ baseline' \in [Fields -> SUBSET DOMAIN log']
  BY <1>1 DEF TypeInv, TypeOK, storeVars
<1>6. changes' \subseteq Row' /\ pend' \subseteq Row' /\ from' \in 0..Len(log')
  BY <1>1, <1>3 DEF TypeInv, TypeOK, storeVars, runVars
<1>7. /\ now' \in 1..MaxTime
      /\ pc' \in {"idle", "walked", "fields", "replay"}
      /\ live' \subseteq Fields /\ bound' \in Nat /\ todo' \subseteq Fields
      /\ errs' \subseteq Fields /\ cur' \in Fields \cup {NoField}
      /\ pos' \in 0..Len(run') /\ faults' \in 0..MaxFaults
  BY DEF TypeInv, TypeOK, pollVars, runVars
<1>8. PollHolds'
  BY DEF TypeInv, PollHolds, pollVars, runVars
<1> QED  BY <1>2, <1>4, <1>5, <1>6, <1>7, <1>8 DEF TypeInv, TypeOK, Commit

LEMMA HeadMovesTyped == TypeInv /\ HeadMoves => TypeInv'
<1> SUFFICES ASSUME TypeInv, HeadMoves PROVE TypeInv'
  OBVIOUS
<1>0. /\ log \in Seq(Commit) /\ head \in Seq(DOMAIN log)
      /\ DOMAIN log = 1..Len(log) /\ Len(log) \in Nat /\ Len(head) \in Nat
  BY LogDomain, LenProperties DEF TypeInv, TypeOK, Commit
<1>1. Tip \in Nat
  BY <1>0, ElementOfSeq, EmptySeq DEF Tip, Newest
<1>2. \A t \in Times, p \in Nat, x \in Contents : NewCommit(t, p, x) \in Commit
  BY DEF NewCommit, Commit
<1>3. \A k \in 0..Len(head) : SubSeq(head, 1, k) \in Seq(DOMAIN log)
  <2> TAKE k \in 0..Len(head)
  <2>1. \A i \in 1..k : head[i] \in DOMAIN log
    BY <1>0, ElementOfSeq
  <2> QED  BY <2>1, SubSeqProperties
<1>4. ASSUME NEW t \in Times, NEW x \in Contents, Push(t, x)
      PROVE  TypeInv'
  <2>1. log' \in Seq(Commit) /\ Len(log') = Len(log) + 1
    BY <1>0, <1>1, <1>2, <1>4, AppendProperties DEF Push
  <2>2. DOMAIN log' = 1 .. Len(log) + 1
    BY <2>1, LenProperties
  <2>3. head \in Seq(DOMAIN log') /\ Len(log) + 1 \in DOMAIN log'
    BY <1>0, <2>2, SeqMonotonic
  <2>4. head' \in Seq(DOMAIN log')
    BY <2>3, <1>4, AppendProperties DEF Push
  <2> QED  BY <1>0, <2>1, <2>4, LogGrows DEF HeadMoves
<1>5. ASSUME NEW k \in 0..Len(head) - 1, NEW t \in Times, NEW u \in Times,
             NEW x \in Contents, NEW y \in Contents, Merge(k, t, x, u, y)
      PROVE  TypeInv'
  <2> DEFINE p == IF k = 0 THEN 0 ELSE head[k]
  <2>1. p \in Nat
    BY <1>0, ElementOfSeq
  <2>2. <<NewCommit(t, p, x), NewCommit(u, Tip, y)>> \in Seq(Commit)
    BY <1>1, <1>2, <2>1
  <2>3. log' \in Seq(Commit) /\ Len(log') = Len(log) + 2
    BY <1>0, <1>5, <2>2, ConcatProperties DEF Merge
  <2>4. DOMAIN log' = 1 .. Len(log) + 2
    BY <2>3, LenProperties
  <2>5. /\ SubSeq(head, 1, k) \in Seq(DOMAIN log')
        /\ After(head, k) \in Seq(DOMAIN log')
        /\ <<Len(log) + 1>> \in Seq(DOMAIN log')
        /\ <<Len(log) + 2>> \in Seq(DOMAIN log')
    <3>1. k \in 0..Len(head)
      BY <1>0
    <3>2. SubSeq(head, 1, k) \in Seq(DOMAIN log)
      BY <1>3, <3>1
    <3>3. After(head, k) \in Seq(DOMAIN log)
      BY <1>0, <3>1, AfterProperties
    <3> QED  BY <1>0, <2>4, <3>2, <3>3, SeqMonotonic
  <2>6. head' \in Seq(DOMAIN log')
    <3>1. SubSeq(head, 1, k) \o <<Len(log) + 1>> \in Seq(DOMAIN log')
      BY <2>5, ConcatProperties
    <3>2. SubSeq(head, 1, k) \o <<Len(log) + 1>> \o After(head, k) \in Seq(DOMAIN log')
      BY <2>5, <3>1, ConcatProperties
    <3>3. SubSeq(head, 1, k) \o <<Len(log) + 1>> \o After(head, k) \o <<Len(log) + 2>>
            \in Seq(DOMAIN log')
      BY <2>5, <3>2, ConcatProperties
    <3> QED  BY <1>5, <3>3 DEF Merge
  <2> QED  BY <1>0, <2>3, <2>6, LogGrows DEF HeadMoves
<1>6. ASSUME NEW k \in 0..Len(head) - 1, Rewind(k)
      PROVE  TypeInv'
  <2>1. log' = log /\ head' \in Seq(DOMAIN log)
    BY <1>0, <1>3, <1>6 DEF Rewind
  <2> QED  BY <1>0, <2>1, LogGrows DEF HeadMoves
<1>7. ASSUME NEW c \in DOMAIN log, Restore(c)
      PROVE  TypeInv'
  <2>1. log' = log /\ head' \in Seq(DOMAIN log)
    BY <1>0, <1>7, AppendProperties DEF Restore
  <2> QED  BY <1>0, <2>1, LogGrows DEF HeadMoves
<1> QED  BY <1>4, <1>5, <1>6, <1>7 DEF HeadMoves

LEMMA TickTyped == TypeInv /\ Tick => TypeInv'
<1> SUFFICES ASSUME TypeInv, Tick PROVE TypeInv'
  OBVIOUS
<1>1. now' \in 1..MaxTime
  BY PollCycleAssumption DEF Tick, TypeInv, TypeOK
<1> QED
  BY <1>1 DEF Tick, TypeInv, TypeOK, PollHolds, Row, repoVars, storeVars, pollVars, runVars

LEMMA FaultTyped == TypeOK /\ Fault => faults' \in 0..MaxFaults
  BY PollCycleAssumption DEF Fault, TypeOK

LEMMA BeginPollTyped ==
  ASSUME TypeInv, NEW L \in SUBSET Fields, BeginPoll(L)
  PROVE  TypeInv'
<1>1. faults' \in 0..MaxFaults
  BY FaultTyped DEF BeginPoll, TypeInv, TypeOK
<1>2. bound' \in Nat
  BY BoundsTyped DEF BeginPoll, TypeInv
<1>3. walk' \in Seq(DOMAIN log)
  <2>1. \A lo \in 0..Len(head) : After(head, lo) \in Seq(DOMAIN log)
    BY AfterProperties DEF TypeInv, TypeOK
  <2> QED  BY <2>1 DEF BeginPoll
<1> QED
  BY <1>1, <1>2, <1>3
     DEF BeginPoll, TypeInv, TypeOK, PollHolds, Row, repoVars, storeVars, runVars

LEMMA PollForgottenTyped ==
  ASSUME TypeOK, PollForgotten
  PROVE  /\ live' \subseteq Fields /\ bound' \in Nat /\ walk' \in Seq(DOMAIN log)
         /\ todo' \subseteq Fields /\ errs' \subseteq Fields
  BY EmptySeq DEF PollForgotten, NoBound

LEMMA RunForgottenTyped ==
  ASSUME TypeOK, RunForgotten
  PROVE  /\ cur' \in Fields \cup {NoField} /\ from' \in 0..Len(log)
         /\ run' \in Seq(DOMAIN log) /\ pos' \in 0..Len(run') /\ pend' \subseteq Row
<1>1. from' \in 0..Len(log)
  BY LogDomain DEF RunForgotten
<1>2. run' \in Seq(DOMAIN log) /\ pos' \in 0..Len(run')
  BY EmptySeq DEF RunForgotten
<1> QED  BY <1>1, <1>2 DEF RunForgotten

LEMMA BeginFieldsTyped ==
  ASSUME TypeInv, pc = "walked", NEW h \in Seq(DOMAIN log), BeginFields(h),
         UNCHANGED <<repoVars, now, storeVars, runVars, faults>>
  PROVE  TypeInv'
<1>1. CASE h = <<>>
  BY <1>1, PollForgottenTyped
     DEF BeginFields, TypeInv, TypeOK, PollHolds, Row, repoVars, storeVars, runVars
<1>2. CASE h # <<>>
  BY <1>2
     DEF BeginFields, TypeInv, TypeOK, PollHolds, Row, repoVars, storeVars, runVars
<1> QED  BY <1>1, <1>2

LEMMA KeepWalkTyped == TypeInv /\ KeepWalk => TypeInv'
  BY BeginFieldsTyped DEF KeepWalk, TypeInv, TypeOK

LEMMA RewalkTyped == TypeInv /\ Rewalk => TypeInv'
<1> SUFFICES ASSUME TypeInv, Rewalk PROVE TypeInv'
  OBVIOUS
<1>1. PICK lo \in 0..Len(head) : BeginFields(After(head, lo))
  BY DEF Rewalk
<1>2. After(head, lo) \in Seq(DOMAIN log)
  BY AfterProperties DEF TypeInv, TypeOK
<1> QED  BY <1>1, <1>2, BeginFieldsTyped DEF Rewalk

LEMMA RewalkFailsTyped == TypeInv /\ RewalkFails => TypeInv'
  BY FaultTyped, PollForgottenTyped
     DEF RewalkFails, TypeInv, TypeOK, PollHolds, Row, repoVars, storeVars, runVars

LEMMA EndPollTyped == TypeInv /\ EndPoll => TypeInv'
  BY PollForgottenTyped
     DEF EndPoll, TypeInv, TypeOK, PollHolds, Row, repoVars, storeVars, runVars

LEMMA CrashTyped == TypeInv /\ Crash => TypeInv'
  BY FaultTyped, PollForgottenTyped, RunForgottenTyped
     DEF Crash, TypeInv, TypeOK, PollHolds, Row, repoVars, storeVars

\* The three ways a field of the poll can go.
LEMMA FieldTyped ==
  ASSUME TypeInv, pc = "fields", NEW d \in todo,
         UNCHANGED <<repoVars, now, storeVars, live, bound, walk, faults>>,
         \/ Skip(d)
         \/ Reject(d)
         \/ \E c \in 0..Len(log) : \E s \in Seq(DOMAIN log) :
              s # <<>> /\ Replay(d, c, s)
  PROVE  TypeInv'
<1>1. CASE Skip(d)
  BY <1>1 DEF Skip, TypeInv, TypeOK, PollHolds, Row, repoVars, storeVars, runVars
<1>2. CASE Reject(d)
  BY <1>2 DEF Reject, TypeInv, TypeOK, PollHolds, Row, repoVars, storeVars, runVars
<1>3. ASSUME NEW c \in 0..Len(log), NEW s \in Seq(DOMAIN log),
             s # <<>>, Replay(d, c, s)
      PROVE  TypeInv'
  <2>1. pos' \in 0..Len(run')
    BY <1>3, LenProperties DEF Replay
  <2> QED
    BY <1>3, <2>1 DEF Replay, TypeInv, TypeOK, PollHolds, Row, repoVars, storeVars
<1> QED  BY <1>1, <1>2, <1>3

LEMMA FirstRunTyped ==
  ASSUME TypeInv, NEW d \in todo, FirstRun(d)
  PROVE  TypeInv'
<1>1. PICK lo \in 0..Len(walk) :
        LET s == After(walk, lo) IN
          IF s = <<>> THEN Skip(d)
          ELSE IF Malformed(Head(s), d) THEN Reject(d)
          ELSE IF Len(s) = 1 THEN Replay(d, 0, s)
          ELSE Replay(d, Head(s), Tail(s))
  BY DEF FirstRun
<1> DEFINE s == After(walk, lo)
<1>2. s \in Seq(DOMAIN log)
  BY AfterProperties DEF TypeInv, TypeOK
<1> HIDE DEF s
<1>3. CASE s = <<>> \/ Malformed(Head(s), d)
  BY <1>1, <1>3, FieldTyped DEF FirstRun, s
<1>4. CASE s # <<>> /\ Replay(d, 0, s)
  BY <1>2, <1>4, LogDomain, FieldTyped DEF FirstRun, TypeInv
<1>5. CASE s # <<>> /\ Len(s) # 1 /\ Replay(d, Head(s), Tail(s))
  <2>1. Head(s) \in 0..Len(log) /\ Tail(s) \in Seq(DOMAIN log) /\ Len(Tail(s)) = Len(s) - 1
    BY <1>2, <1>5, HeadTailProperties, LogDomain DEF TypeInv
  <2>2. Tail(s) # <<>>
    BY <1>2, <1>5, <2>1, LenProperties, EmptySeq
  <2> QED  BY <1>5, <2>1, <2>2, FieldTyped DEF FirstRun
<1> QED  BY <1>1, <1>3, <1>4, <1>5 DEF s

LEMMA ResumeTyped ==
  ASSUME TypeInv, NEW d \in todo, Resume(d)
  PROVE  TypeInv'
<1>0. walk \in Seq(DOMAIN log) /\ walk # <<>> /\ pc = "fields" /\ Len(walk) \in Nat
  BY LenProperties DEF Resume, TypeInv, TypeOK, PollHolds
<1>1. ASSUME NEW i \in 1..Len(walk),
             IF i = Len(walk) THEN Skip(d)
             ELSE IF Malformed(walk[i], d) THEN Reject(d)
             ELSE Replay(d, walk[i], After(walk, i))
      PROVE  TypeInv'
  <2>1. CASE Skip(d) \/ Reject(d)
    BY <1>0, <2>1, FieldTyped DEF Resume
  <2>2. CASE i # Len(walk) /\ Replay(d, walk[i], After(walk, i))
    <3>1. walk[i] \in 0..Len(log)
      BY <1>0, ElementOfSeq, LogDomain DEF TypeInv
    <3>2. After(walk, i) \in Seq(DOMAIN log) /\ Len(After(walk, i)) = Len(walk) - i
      BY <1>0, AfterProperties
    <3>3. After(walk, i) # <<>>
      BY <1>0, <2>2, <3>2, EmptySeq
    <3> QED  BY <1>0, <2>2, <3>1, <3>2, <3>3, FieldTyped DEF Resume
  <2> QED  BY <1>1, <2>1, <2>2
<1>2. CASE Replay(d, 0, WholeWalk)
  BY <1>0, <1>2, LogDomain, FieldTyped DEF Resume, WholeWalk, TypeInv
<1> QED  BY <1>1, <1>2 DEF Resume

LEMMA FieldFailsTyped ==
  ASSUME TypeInv, pc = "replay", FieldFails, faults' \in 0..MaxFaults,
         UNCHANGED <<repoVars, now, storeVars, pollVars>>
  PROVE  TypeInv'
  BY RunForgottenTyped
     DEF FieldFails, TypeInv, TypeOK, PollHolds, Row, repoVars, storeVars, pollVars

LEMMA WriteFailsTyped == TypeInv /\ WriteFails => TypeInv'
  BY FaultTyped, FieldFailsTyped DEF WriteFails, TypeInv

LEMMA PrevTyped ==
  ASSUME TypeInv, pc = "replay"
  PROVE  Prev \in FieldValue
<1>1. cur \in Fields /\ from \in 0..Len(log) /\ pos \in 0..Len(run)
  BY DEF TypeInv, TypeOK, PollHolds
<1>2. pos > 0 => run[pos] \in DOMAIN log
  BY <1>1, ElementOfSeq DEF TypeInv, TypeOK
<1>3. from # 0 => from \in DOMAIN log
  BY <1>1, LogDomain DEF TypeInv
<1> QED  BY <1>1, <1>2, <1>3, ValueTyped, NothingTyped DEF Prev, TypeInv

LEMMA ExtractNextTyped == TypeInv /\ ExtractNext => TypeInv'
<1> SUFFICES ASSUME TypeInv, ExtractNext PROVE TypeInv'
  OBVIOUS
<1> DEFINE c == run[pos + 1]
<1>0. pc = "replay" /\ cur \in Fields /\ pos + 1 \in 1..Len(run)
  BY LenProperties DEF ExtractNext, TypeInv, TypeOK, PollHolds
<1>1. c \in DOMAIN log
  BY <1>0, ElementOfSeq DEF TypeInv, TypeOK
<1>2. CASE Malformed(c, cur)
  BY <1>0, <1>2, FieldFailsTyped DEF ExtractNext, TypeInv, TypeOK
<1>3. CASE ~Malformed(c, cur)
  <2>1. DiffRows(cur, c, Prev, Value(c, cur)) \subseteq Row
    BY <1>0, <1>1, RowsTyped, PrevTyped, ValueTyped DEF TypeInv
  <2>2. pos' \in 0..Len(run')
    BY <1>0, <1>3 DEF ExtractNext
  <2> QED
    BY <1>0, <1>3, <2>1, <2>2
       DEF ExtractNext, TypeInv, TypeOK, PollHolds, Row, repoVars, storeVars, pollVars
<1> QED  BY <1>2, <1>3

LEMMA SaveChangeTyped ==
  ASSUME TypeInv, NEW r \in pend, SaveChange(r)
  PROVE  TypeInv'
  BY DEF SaveChange, SavedWith, TypeInv, TypeOK, PollHolds, Row, repoVars, pollVars

LEMMA SetHighWaterMarkTyped == TypeInv /\ SetHighWaterMark => TypeInv'
<1> SUFFICES ASSUME TypeInv, SetHighWaterMark PROVE TypeInv'
  OBVIOUS
<1>0. /\ cur \in Fields /\ run \in Seq(DOMAIN log) /\ Len(run) \in Nat \ {0}
      /\ pos = Len(run) /\ log \in Seq(Commit)
  BY EmptySeq, LenProperties
     DEF SetHighWaterMark, ReplayDone, TypeInv, TypeOK, PollHolds, Commit
<1>1. run[pos] \in DOMAIN log /\ run[1] \in DOMAIN log /\ Elements(run) \subseteq DOMAIN log
  BY <1>0, ElementOfSeq, ElementsTyped
<1>2. log[run[pos]].time \in Nat /\ run[pos] \in 0..Len(log)
  <2>1. run[pos] \in 1..Len(log)
    BY <1>1, LogDomain DEF TypeInv
  <2>2. log[run[pos]] \in Commit
    BY <1>0, <2>1, ElementOfSeq
  <2>3. log[run[pos]].time \in Nat
    BY <2>2, PollCycleAssumption DEF Commit
  <2>4. run[pos] \in 0..Len(log)
    BY <2>1
  <2> QED  BY <2>3, <2>4
<1>3. hwm' \in [Fields -> [sha : 0..Len(log), time : Nat]]
  BY <1>0, <1>2 DEF SetHighWaterMark, MarkAt, TypeInv, TypeOK
<1>4. from # 0 => from \in DOMAIN log
  BY LogDomain DEF TypeInv, TypeOK
<1>5. covered' \in [Fields -> SUBSET DOMAIN log]
  BY <1>0, <1>1, <1>4 DEF SetHighWaterMark, TypeInv, TypeOK
<1>6. baseline' \in [Fields -> SUBSET DOMAIN log]
  BY <1>0, <1>1, <1>4 DEF SetHighWaterMark, TypeInv, TypeOK
<1> QED
  BY <1>3, <1>5, <1>6, RunForgottenTyped
     DEF SetHighWaterMark, TypeInv, TypeOK, PollHolds, Row, repoVars, pollVars

LEMMA NextTyped == TypeInv /\ [Next]_vars => TypeInv'
<1> SUFFICES ASSUME TypeInv, [Next]_vars PROVE TypeInv'
  OBVIOUS
<1>1. CASE PollStep
  BY <1>1, KeepWalkTyped, RewalkTyped, FirstRunTyped, ResumeTyped, EndPollTyped,
     ExtractNextTyped, SaveChangeTyped, SetHighWaterMarkTyped DEF PollStep
<1>2. CASE UNCHANGED vars
  BY <1>2 DEF TypeInv, TypeOK, PollHolds, Row, vars, repoVars, storeVars, pollVars, runVars
<1> QED
  BY <1>1, <1>2, HeadMovesTyped, TickTyped, BeginPollTyped, RewalkFailsTyped,
     WriteFailsTyped, CrashTyped DEF Next

\* Every variable keeps its type, and a poll that is replaying a field has a
\* field to replay and commits to replay it over (pollFieldHistory never reaches
\* SetHighWaterMark without a last commit).
THEOREM TypeCorrect == Spec => [](TypeOK /\ PollHolds)
<1>1. Init => TypeInv
  BY InitTyped
<1>2. TypeInv /\ [Next]_vars => TypeInv'
  BY NextTyped
<1> QED  BY <1>1, <1>2, PTL DEF Spec, TypeInv

-----------------------------------------------------------------------------
(* A poll without an error has caught up, whatever merges and rewrites do *)

LogExtends == \A c \in DOMAIN log : c \in DOMAIN log' /\ log'[c] = log[c]

\* What success means for d: recorded to the newest commit of the walk, unless
\* that is out of the window of a first poll.
Served(d) ==
  \/ hwm[d].sha = Newest(walk)
  \/ ~HasMark(d) /\ OutOfWindow(Newest(walk), BackfillBound(d))

\* Every field has its error, its turn to come, its replay, or is served; and a
\* replay ends where the walk does.
CaughtInv ==
  /\ pc = "walked" => Fields \subseteq live \cup errs
  /\ pc \in {"fields", "replay"} =>
       \A d \in Fields :
         \/ d \in errs \cup todo
         \/ pc = "replay" /\ d = cur
         \/ Served(d)
  /\ pc = "replay" => Newest(run) = Newest(walk)

LEMMA ClockTyped == TypeInv => now \in Nat /\ now >= now
  BY PollCycleAssumption DEF TypeInv, TypeOK

LEMMA LogKept ==
  ASSUME TypeInv, HeadMoves
  PROVE  LogExtends
<1>0. log \in Seq(Commit) /\ DOMAIN log = 1..Len(log) /\ Len(log) \in Nat
  BY LogDomain DEF TypeInv, TypeOK, Commit
<1>1. ASSUME NEW t \in Times, NEW x \in Contents, Push(t, x) PROVE LogExtends
  <2>1. log' = Append(log, NewCommit(t, Tip, x))
    BY <1>1 DEF Push
  <2> QED BY <1>0, <2>1 DEF LogExtends
<1>2. ASSUME NEW k, NEW t, NEW x, NEW u, NEW y, Merge(k, t, x, u, y) PROVE LogExtends
  <2>1. log' = log \o <<NewCommit(t, IF k = 0 THEN 0 ELSE head[k], x), NewCommit(u, Tip, y)>>
    BY <1>2 DEF Merge
  <2> QED BY <1>0, <2>1 DEF LogExtends
<1>3. ASSUME log' = log PROVE LogExtends
  BY <1>3 DEF LogExtends
<1> QED BY <1>1, <1>2, <1>3 DEF HeadMoves, Rewind, Restore

LEMMA NewestTyped ==
  ASSUME NEW S, NEW s \in Seq(S), s # <<>>
  PROVE  Len(s) \in 1..Len(s) /\ Newest(s) \in S
<1>1. Len(s) \in Nat \ {0}
  BY EmptySeq, LenProperties
<1> QED BY <1>1, ElementOfSeq DEF Newest

\* The end of what comes after a place is the end of the whole.
LEMMA NewestAfter ==
  ASSUME NEW S, NEW s \in Seq(S), NEW lo \in 0..Len(s), After(s, lo) # <<>>
  PROVE  Newest(After(s, lo)) = Newest(s)
<1>1. /\ After(s, lo) \in Seq(S) /\ Len(After(s, lo)) = Len(s) - lo
      /\ \A i \in 1 .. Len(s) - lo : After(s, lo)[i] = s[lo + i]
  BY AfterProperties
<1>2. Len(After(s, lo)) \in 1..Len(After(s, lo)) /\ Len(s) \in Nat
  BY <1>1, NewestTyped, LenProperties
<1>3. After(s, lo)[Len(s) - lo] = s[lo + (Len(s) - lo)]
  BY <1>1, <1>2
<1>4. lo + (Len(s) - lo) = Len(s)
  BY <1>2
<1> QED BY <1>1, <1>3, <1>4 DEF Newest

\* What is out of a window stays out of it.
LEMMA LeftBehind ==
  ASSUME TypeInv, LogExtends, now' \in Nat, now' >= now,
         NEW d \in Fields, NEW c \in DOMAIN log, OutOfWindow(c, BackfillBound(d))
  PROVE  OutOfWindow(c, BackfillBound(d))'
<1>1. Window[d] \in Nat \cup {Unbounded} /\ now \in Nat
  BY PollCycleAssumption DEF TypeInv, TypeOK
<1>2. BackfillBound(d) # 0 /\ log[c].time < BackfillBound(d)
  BY DEF OutOfWindow, NoBound
<1>3. Window[d] \in Nat /\ now > Window[d] /\ BackfillBound(d) = now - Window[d]
  BY <1>1, <1>2 DEF BackfillBound, NoBound, Unbounded
<1>4. BackfillBound(d)' = now' - Window[d]
  BY <1>1, <1>3 DEF BackfillBound, Unbounded
<1>5. log[c].time \in Nat /\ log'[c] = log[c]
  <2>1. log[c] \in Commit
    BY LogDomain, ElementOfSeq DEF TypeInv, TypeOK, Commit
  <2> QED BY <2>1, PollCycleAssumption DEF Commit, LogExtends
<1> QED BY <1>1, <1>2, <1>3, <1>4, <1>5 DEF OutOfWindow, NoBound

\* Time and the repository do not unserve a field.
LEMMA ServedKept ==
  ASSUME TypeInv, pc \in {"fields", "replay"}, LogExtends,
         UNCHANGED <<hwm, walk>>, now' \in Nat, now' >= now,
         NEW d \in Fields, Served(d)
  PROVE  Served(d)'
<1>1. Newest(walk) \in DOMAIN log
  BY NewestTyped DEF TypeInv, TypeOK, PollHolds
<1>2. log'[Newest(walk)] = log[Newest(walk)] /\ Newest(walk)' = Newest(walk)
  BY <1>1 DEF LogExtends, Newest
<1>3. HasMark(d)' = HasMark(d)
  BY DEF HasMark
<1>4. ASSUME OutOfWindow(Newest(walk), BackfillBound(d))
      PROVE  OutOfWindow(Newest(walk), BackfillBound(d))'
  BY <1>1, <1>2, <1>4, LeftBehind DEF OutOfWindow
<1> QED BY <1>2, <1>3, <1>4 DEF Served

\* Outside the polling of fields nothing but the groups of a walk matters.
LEMMA CaughtKept ==
  ASSUME TypeInv, CaughtInv, LogExtends, now' \in Nat, now' >= now,
         UNCHANGED <<hwm, pc, pollVars, errs, cur, run>>
  PROVE  CaughtInv'
<1>1. pc \in {"fields", "replay"} =>
        \A d \in Fields : Served(d) => Served(d)'
  BY ServedKept DEF pollVars
<1> QED BY <1>1 DEF CaughtInv, pollVars, Newest

\* Fields polled but d stay served.
LEMMA OthersServed ==
  ASSUME CaughtInv, pc \in {"fields", "replay"},
         UNCHANGED <<log, now, hwm, walk>>
  PROVE  \A d \in Fields : Served(d)' = Served(d)
  BY DEF Served, HasMark, OutOfWindow, BackfillBound, Newest, Unbounded, NoBound

LEMMA BeginFieldsCaught ==
  ASSUME CaughtInv, pc = "walked", NEW h, BeginFields(h)
  PROVE  CaughtInv'
  BY DEF BeginFields, CaughtInv

LEMMA FirstRunCaught ==
  ASSUME TypeInv, CaughtInv, NEW d \in todo, FirstRun(d)
  PROVE  CaughtInv'
<1>1. /\ pc = "fields" /\ ~HasMark(d) /\ d \in Fields
      /\ walk \in Seq(DOMAIN log) /\ walk # <<>> /\ Len(walk) \in Nat
      /\ UNCHANGED <<log, now, hwm, walk>>
  BY LenProperties DEF FirstRun, TypeInv, TypeOK, PollHolds, repoVars, storeVars
<1>2. PICK lo \in 0..Len(walk) :
        /\ StartsWindow(walk, BackfillBound(d), lo)
        /\ LET s == After(walk, lo) IN
             IF s = <<>> THEN Skip(d)
             ELSE IF Malformed(Head(s), d) THEN Reject(d)
             ELSE IF Len(s) = 1 THEN Replay(d, 0, s)
             ELSE Replay(d, Head(s), Tail(s))
  BY DEF FirstRun
<1> DEFINE s == After(walk, lo)
<1>3. /\ s \in Seq(DOMAIN log) /\ Len(s) = Len(walk) - lo
      /\ s # <<>> => Newest(s) = Newest(walk)
  BY <1>1, AfterProperties, NewestAfter
<1>4. s = <<>> => Served(d)
  <2> SUFFICES ASSUME s = <<>> PROVE Served(d)
    OBVIOUS
  <2>1. Len(walk) - lo = 0
    BY <1>3
  <2>2. lo = Len(walk) /\ lo > 0
    BY <1>1, <2>1, EmptySeq
  <2> QED BY <1>1, <1>2, <2>2 DEF StartsWindow, Served, Newest
<1> HIDE DEF s
<1>5. \A e \in Fields : Served(e)' = Served(e)
  BY <1>1, OthersServed
<1>6. CASE s = <<>> /\ Skip(d)
  BY <1>1, <1>4, <1>5, <1>6 DEF CaughtInv, Skip
<1>7. CASE Reject(d)
  BY <1>1, <1>5, <1>7 DEF CaughtInv, Reject
<1>8. CASE s # <<>> /\ Replay(d, 0, s)
  BY <1>1, <1>3, <1>5, <1>8 DEF CaughtInv, Replay, Newest
<1>9. CASE s # <<>> /\ Len(s) # 1 /\ Replay(d, Head(s), Tail(s))
  <2>1. /\ Len(Tail(s)) = Len(s) - 1
        /\ \A i \in 1..Len(Tail(s)) : Tail(s)[i] = s[i + 1]
        /\ Len(s) \in Nat \ {0}
    BY <1>3, <1>9, HeadTailProperties, EmptySeq
  <2>2. Newest(Tail(s)) = Newest(s)
    BY <1>9, <2>1 DEF Newest
  <2> QED BY <1>1, <1>3, <1>5, <1>9, <2>2 DEF CaughtInv, Replay, Newest
<1> QED BY <1>2, <1>6, <1>7, <1>8, <1>9 DEF s

LEMMA ResumeCaught ==
  ASSUME TypeInv, CaughtInv, NEW d \in todo, Resume(d)
  PROVE  CaughtInv'
<1>1. /\ pc = "fields" /\ d \in Fields
      /\ walk \in Seq(DOMAIN log) /\ Len(walk) \in Nat
      /\ UNCHANGED <<log, now, hwm, walk>>
  BY LenProperties DEF Resume, TypeInv, TypeOK, repoVars, storeVars
<1>2. \A e \in Fields : Served(e)' = Served(e)
  BY <1>1, OthersServed
<1>3. CASE Replay(d, 0, WholeWalk)
  BY <1>1, <1>2, <1>3 DEF CaughtInv, Replay, Newest, WholeWalk
<1>4. CASE Reject(d)
  BY <1>1, <1>2, <1>4 DEF CaughtInv, Reject
<1>5. CASE hwm[d].sha = walk[Len(walk)] /\ Skip(d)
  <2>1. Served(d)
    BY <1>5 DEF Served, Newest
  <2> QED BY <1>1, <1>2, <1>5, <2>1 DEF CaughtInv, Skip
<1>6. ASSUME NEW i \in 1..Len(walk), i # Len(walk), Replay(d, walk[i], After(walk, i))
      PROVE  CaughtInv'
  <2>1. After(walk, i) # <<>> /\ i \in 0..Len(walk)
    <3>1. i \in 0..Len(walk) /\ Len(walk) - i # 0
      BY <1>1, <1>6
    <3> QED BY <1>1, <3>1, AfterProperties, EmptySeq
  <2>2. Newest(After(walk, i)) = Newest(walk)
    BY <1>1, <2>1, NewestAfter
  <2> QED BY <1>1, <1>2, <1>6, <2>2 DEF CaughtInv, Replay, Newest
<1> QED BY <1>3, <1>4, <1>5, <1>6 DEF Resume

LEMMA FieldFailsCaught ==
  ASSUME TypeInv, CaughtInv, pc = "replay", FieldFails,
         UNCHANGED <<log, now, hwm, pollVars>>
  PROVE  CaughtInv'
<1>1. \A e \in Fields : Served(e)' = Served(e)
  BY OthersServed DEF pollVars
<1> QED BY <1>1 DEF CaughtInv, FieldFails, pollVars

LEMMA SetHighWaterMarkCaught ==
  ASSUME TypeInv, CaughtInv, SetHighWaterMark
  PROVE  CaughtInv'
<1>1. /\ pc = "replay" /\ pc' = "fields" /\ cur \in Fields /\ pos = Len(run)
      /\ UNCHANGED <<log, now, errs, live, bound, walk, todo>>
      /\ hwm' = [hwm EXCEPT ![cur] = MarkAt(run[pos])]
      /\ hwm \in [Fields -> [sha : 0..Len(log), time : Nat]]
  BY DEF SetHighWaterMark, ReplayDone, TypeInv, TypeOK, PollHolds, repoVars, pollVars
<1>2. ASSUME NEW d \in Fields, d = cur PROVE Served(d)'
  BY <1>1, <1>2 DEF Served, MarkAt, Newest, CaughtInv
<1>3. ASSUME NEW d \in Fields \ {cur}, Served(d) PROVE Served(d)'
  BY <1>1, <1>3 DEF Served, HasMark, OutOfWindow, BackfillBound, Newest, Unbounded, NoBound
<1>4. ASSUME NEW d \in Fields PROVE d \in (errs \cup todo)' \/ Served(d)'
  <2>1. CASE d = cur
    BY <1>2, <2>1
  <2>2. CASE d # cur
    BY <1>1, <1>3, <2>2 DEF CaughtInv
  <2> QED BY <2>1, <2>2
<1> QED BY <1>1, <1>4 DEF CaughtInv

LEMMA NextCaught ==
  ASSUME TypeInv, TypeInv', CaughtInv, [Next]_vars
  PROVE  CaughtInv'
<1>0. now \in Nat
  BY PollCycleAssumption DEF TypeInv, TypeOK
<1>1. CASE HeadMoves
  BY <1>0, <1>1, LogKept, CaughtKept DEF HeadMoves, storeVars, runVars
<1>2. CASE Tick
  BY <1>0, <1>2, CaughtKept DEF Tick, LogExtends, repoVars, storeVars, runVars
<1>3. ASSUME NEW L \in SUBSET Fields, BeginPoll(L) PROVE CaughtInv'
  BY <1>3 DEF BeginPoll, CaughtInv
<1>4. CASE KeepWalk \/ Rewalk
  BY <1>4, BeginFieldsCaught DEF KeepWalk, Rewalk
<1>5. CASE RewalkFails \/ EndPoll \/ Crash
  BY <1>5 DEF RewalkFails, EndPoll, Crash, CaughtInv
<1>6. ASSUME NEW d \in todo, FirstRun(d) \/ Resume(d) PROVE CaughtInv'
  BY <1>6, FirstRunCaught, ResumeCaught
<1>7. CASE ExtractNext
  <2>1. pc = "replay" /\ UNCHANGED <<repoVars, now, storeVars, pollVars, faults>>
    BY <1>7 DEF ExtractNext
  <2>2. CASE FieldFails
    BY <2>1, <2>2, FieldFailsCaught DEF repoVars, storeVars
  <2>3. CASE UNCHANGED <<pc, errs, cur, from, run>>
    BY <1>0, <2>1, <2>3, CaughtKept DEF LogExtends, repoVars, storeVars
  <2> QED BY <1>7, <2>2, <2>3 DEF ExtractNext
<1>8. ASSUME NEW r \in pend, SaveChange(r) PROVE CaughtInv'
  BY <1>0, <1>8, CaughtKept DEF SaveChange, LogExtends, repoVars
<1>9. CASE SetHighWaterMark
  BY <1>9, SetHighWaterMarkCaught
<1>10. CASE WriteFails
  BY <1>10, FieldFailsCaught DEF WriteFails, repoVars, storeVars
<1>11. CASE UNCHANGED vars
  BY <1>0, <1>11, CaughtKept DEF vars, LogExtends, repoVars, storeVars, runVars
<1> QED
  BY <1>1, <1>2, <1>3, <1>4, <1>5, <1>6, <1>7, <1>8, <1>9, <1>10, <1>11
     DEF Next, PollStep

\* A poll that reports no error for a field has recorded it to the newest commit
\* of its walk, whatever merges, force-pushes, failures and sibling fields the
\* poll met (pollFileGroup's errs, poller.go:400-470).
THEOREM SuccessIsCaughtUp == Spec => []SuccessMeansCaughtUp
<1> DEFINE Inv == TypeInv /\ CaughtInv
<1>1. Init => Inv
  BY InitTyped DEF Init, CaughtInv
<1>2. Inv /\ [Next]_vars => Inv'
  BY NextTyped, NextCaught
<1>3. Inv => SuccessMeansCaughtUp
  BY DEF CaughtInv, SuccessMeansCaughtUp, Served
<1> QED BY <1>1, <1>2, <1>3, PTL DEF Spec

-----------------------------------------------------------------------------
(***************************************************************************)
(* The feed is truthful, and complete behind every mark, for every value   *)
(* of PollCycle's constants under two hypotheses: no late merges, and no   *)
(* history longer than a walk may be.                                      *)
(*                                                                         *)
(* The inductive invariant says what each stage of a poll may rely on:     *)
(* what the walk reaches, what the replay's first diff starts from, and    *)
(* which rows of the commits already extracted exist.                      *)
(***************************************************************************)

Linear(s) == \A i \in 2..Len(s) : log[s[i]].parent = s[i - 1]
Rooted(s) == s # <<>> => log[s[1]].parent = 0

RepoInv ==
  /\ \A c \in DOMAIN log : log[c].parent \in 0..Len(log)
  /\ Linear(head) /\ Rooted(head) /\ Len(head) <= MaxHistory

\* The commits s begin at a root, or where the window of d does.
FromWindow(s, d) ==
  s # <<>> => log[s[1]].parent = 0 \/ BeginsWindow(s[1], d)

\* The walk holds what d needs: everything, or its mark, or its window.
WalkServes(d) ==
  \/ Rooted(walk)
  \/ HasMark(d) /\ hwm[d].sha \in Elements(walk)
  \/ ~HasMark(d) /\ FromWindow(walk, d)

WalkInv ==
  /\ Linear(walk)
  /\ pc = "walked" =>
       IF bound = NoBound THEN Rooted(walk)
       ELSE \A d \in live : ~HasMark(d) => FromWindow(walk, d)
  /\ pc \in {"fields", "replay"} => \A d \in todo : WalkServes(d)

\* The first commit of the replay comes right after the one it is diffed
\* against, or is a root, or is where a field with a window begins.
RunInv ==
  /\ pc # "replay" => pend = {}
  /\ pc = "replay" =>
       /\ cur \notin todo
       /\ Linear(run)
       /\ from # 0 =>
            log[run[1]].parent = from /\ (HasMark(cur) => from = hwm[cur].sha)
       /\ from = 0 =>
            log[run[1]].parent = 0 \/ (~HasMark(cur) /\ BeginsWindow(run[1], cur))

Truthful(r) ==
  /\ r.new = Value(r.sha, r.field)[r.key]
  /\ \/ r.old = Before(r.sha, r.field)[r.key]
     \/ r.old = Absent /\ BeginsWindow(r.sha, r.field)

\* Every key commit c changed has its row among R.
RecordedIn(R, c, d) ==
  \A k \in Keys :
    Before(c, d)[k] # Value(c, d)[k] =>
      \E r \in R : r.field = d /\ r.key = k /\ r.sha = c

\* A first poll's only commit is its baseline: nothing is promised about it.
RowsInv ==
  /\ \A r \in changes \cup pend : Truthful(r)
  /\ pc = "replay" =>
       \A i \in 1..pos :
         \/ i = 1 /\ from = 0 /\ ~HasMark(cur)
         \/ RecordedIn(changes \cup pend, run[i], cur)

MarkInv ==
  /\ \A d \in Fields : ~HasMark(d) => covered[d] = {} /\ baseline[d] = {}
  /\ Coverage

IInv == TypeInv /\ RepoInv /\ WalkInv /\ RunInv /\ RowsInv /\ MarkInv

-----------------------------------------------------------------------------
(* Linear histories *)

LEMMA AfterLinear ==
  ASSUME NEW s \in Seq(DOMAIN log), NEW lo \in 0..Len(s), Linear(s)
  PROVE  /\ Linear(After(s, lo))
         /\ lo > 0 /\ lo < Len(s) => log[After(s, lo)[1]].parent = s[lo]
         /\ lo = 0 /\ Rooted(s) => Rooted(After(s, lo))
<1>1. Len(s) \in Nat
  BY LenProperties
<1>2. /\ After(s, lo) \in Seq(DOMAIN log) /\ Len(After(s, lo)) = Len(s) - lo
      /\ \A i \in 1 .. Len(s) - lo : After(s, lo)[i] = s[lo + i]
  BY AfterProperties
<1>3. Linear(After(s, lo))
  <2> SUFFICES ASSUME NEW i \in 2 .. Len(s) - lo
               PROVE  log[After(s, lo)[i]].parent = After(s, lo)[i - 1]
    BY <1>2 DEF Linear
  <2>1. After(s, lo)[i] = s[lo + i] /\ After(s, lo)[i - 1] = s[lo + i - 1]
    BY <1>1, <1>2
  <2> QED  BY <1>1, <2>1 DEF Linear
<1>4. lo > 0 /\ lo < Len(s) => log[After(s, lo)[1]].parent = s[lo]
  <2> SUFFICES ASSUME lo > 0, lo < Len(s)
               PROVE  log[After(s, lo)[1]].parent = s[lo]
    OBVIOUS
  <2>1. After(s, lo)[1] = s[lo + 1]
    BY <1>1, <1>2
  <2>2. lo + 1 \in 2..Len(s) /\ lo + 1 - 1 = lo
    BY <1>1
  <2> QED  BY <2>1, <2>2 DEF Linear
<1>5. lo = 0 /\ Rooted(s) => Rooted(After(s, lo))
  BY <1>1, <1>2, EmptySeq DEF Rooted
<1> QED  BY <1>3, <1>4, <1>5

\* A walk without a bound reaches the root.
LEMMA UnboundedWalk ==
  ASSUME TypeInv, RepoInv, MaxHistory <= MaxCommitsPerWalk,
         NEW lo \in 0..Len(head), StartsWalk(head, NoBound, lo)
  PROVE  lo = 0
<1>1. Len(head) \in Nat /\ Len(head) <= MaxCommitsPerWalk
  BY PollCycleAssumption, LenProperties DEF TypeInv, TypeOK, RepoInv
<1> QED  BY <1>1, PollCycleAssumption DEF StartsWalk, OutOfWindow, NoBound

-----------------------------------------------------------------------------
(* The repository *)

LEMMA HeadExtended ==
  ASSUME TypeInv, RepoInv, LogExtends, log' \in Seq(Commit),
         NEW c \in DOMAIN log', log'[c].parent = Tip,
         Len(head) < MaxHistory, head' = Append(head, c)
  PROVE  Linear(head)' /\ Rooted(head)' /\ Len(head') <= MaxHistory
<1>0. head \in Seq(DOMAIN log) /\ Len(head) \in Nat /\ DOMAIN log \subseteq DOMAIN log'
  BY LenProperties DEF TypeInv, TypeOK, LogExtends
<1>1. /\ Len(head') = Len(head) + 1 /\ head' # <<>>
      /\ \A i \in 1..Len(head) : head'[i] = head[i] /\ head[i] \in DOMAIN log
      /\ head'[Len(head) + 1] = c
  <2>1. head \in Seq(DOMAIN log')
    BY <1>0, SeqMonotonic
  <2> QED  BY <1>0, <2>1, AppendProperties, ElementOfSeq
<1>2. Linear(head)'
  <2> SUFFICES ASSUME NEW i \in 2 .. Len(head) + 1
               PROVE  log'[head'[i]].parent = head'[i - 1]
    BY <1>1 DEF Linear
  <2>1. CASE i <= Len(head)
    <3>1. log[head[i]].parent = head[i - 1]
      BY <1>0, <2>1 DEF RepoInv, Linear
    <3> QED  BY <1>0, <1>1, <2>1, <3>1 DEF LogExtends
  <2>2. CASE i = Len(head) + 1
    <3>1. head # <<>>
      BY <1>0, <2>2, EmptySeq
    <3> QED  BY <1>0, <1>1, <2>2, <3>1 DEF Tip, Newest
  <2> QED  BY <1>0, <2>1, <2>2
<1>3. Rooted(head)'
  <2>1. CASE head = <<>>
    BY <1>1, <2>1, EmptySeq DEF Rooted, Tip
  <2>2. CASE head # <<>>
    <3>1. 1 \in 1..Len(head)
      BY <1>0, <2>2, EmptySeq
    <3> QED  BY <1>1, <2>2, <3>1 DEF Rooted, RepoInv, LogExtends
  <2> QED  BY <2>1, <2>2
<1> QED  BY <1>0, <1>1, <1>2, <1>3, PollCycleAssumption

LEMMA HeadMovesRepo ==
  ASSUME TypeInv, RepoInv, HeadMoves, ~AllowMerge
  PROVE  RepoInv' /\ LogExtends
<1>0. /\ log \in Seq(Commit) /\ head \in Seq(DOMAIN log) /\ TypeInv'
      /\ DOMAIN log = 1..Len(log) /\ Len(log) \in Nat /\ Len(head) \in Nat
  BY LogDomain, LenProperties, HeadMovesTyped DEF TypeInv, TypeOK, Commit
<1>1. Tip \in 0..Len(log)
  BY <1>0, ElementOfSeq, EmptySeq DEF Tip, Newest
<1>2. ASSUME NEW t \in Times, NEW x \in Contents, Push(t, x)
      PROVE  RepoInv' /\ LogExtends
  <2>1. /\ log' \in Seq(Commit) /\ Len(log') = Len(log) + 1
        /\ \A c \in 1..Len(log) : log'[c] = log[c]
        /\ log'[Len(log) + 1] = NewCommit(t, Tip, x)
    <3>1. NewCommit(t, Tip, x) \in Commit
      BY <1>0, <1>1 DEF NewCommit, Commit
    <3> QED  BY <1>0, <1>2, <3>1, AppendProperties DEF Push
  <2>2. DOMAIN log' = 1 .. Len(log) + 1
    BY <2>1, LenProperties
  <2>3. LogExtends
    BY <1>0, <2>1, <2>2 DEF LogExtends
  <2>4. \A c \in DOMAIN log' : log'[c].parent \in 0..Len(log')
    BY <1>0, <1>1, <2>1, <2>2 DEF RepoInv, NewCommit
  <2>5. Len(log) + 1 \in DOMAIN log' /\ log'[Len(log) + 1].parent = Tip
    BY <1>0, <2>1, <2>2 DEF NewCommit
  <2> QED  BY <1>2, <2>1, <2>3, <2>4, <2>5, HeadExtended DEF Push, RepoInv
<1>3. ASSUME NEW k \in 0..Len(head) - 1, Rewind(k)
      PROVE  RepoInv' /\ LogExtends
  <2>1. /\ log' = log /\ Len(head') = k
        /\ \A i \in 1..k : head'[i] = head[i]
    <3>1. \A i \in 1..k : head[i] \in DOMAIN log
      BY <1>0, ElementOfSeq
    <3> QED  BY <1>3, <3>1, SubSeqProperties DEF Rewind
  <2>2. Linear(head)'
    <3> SUFFICES ASSUME NEW i \in 2..k
                 PROVE  log[head'[i]].parent = head'[i - 1]
      BY <2>1 DEF Linear
    <3>1. log[head[i]].parent = head[i - 1]
      BY <1>0 DEF RepoInv, Linear
    <3>2. i \in 1..k /\ i - 1 \in 1..k
      BY <1>0
    <3> QED  BY <2>1, <3>1, <3>2
  <2>3. Rooted(head)'
    <3> SUFFICES ASSUME head' # <<>> PROVE log'[head'[1]].parent = 0
      BY DEF Rooted
    <3>1. head' \in Seq(DOMAIN log')
      BY <1>0 DEF TypeInv, TypeOK
    <3>2. k # 0
      BY <2>1, <3>1, EmptySeq
    <3>3. head # <<>>
      BY <1>0, <3>2, EmptySeq
    <3> QED  BY <1>0, <2>1, <3>2, <3>3 DEF RepoInv, Rooted
  <2> QED  BY <1>0, <2>1, <2>2, <2>3, PollCycleAssumption DEF RepoInv, LogExtends
<1>4. ASSUME NEW c \in DOMAIN log, Restore(c)
      PROVE  RepoInv' /\ LogExtends
  <2>1. log' = log /\ LogExtends
    BY <1>4 DEF Restore, LogExtends
  <2> QED  BY <1>0, <1>4, <2>1, HeadExtended DEF Restore, RepoInv
<1> QED  BY <1>2, <1>3, <1>4 DEF HeadMoves, Merge

LEMMA ValuesStable ==
  ASSUME TypeInv, RepoInv, LogExtends, NEW c \in DOMAIN log, NEW d
  PROVE  /\ c \in DOMAIN log' /\ log'[c] = log[c]
         /\ Value(c, d)' = Value(c, d) /\ Before(c, d)' = Before(c, d)
<1>1. c \in DOMAIN log' /\ log'[c] = log[c]
  BY DEF LogExtends
<1>2. log[c].parent # 0 =>
        log[c].parent \in DOMAIN log /\ log'[log[c].parent] = log[log[c].parent]
  BY LogDomain DEF TypeInv, RepoInv, LogExtends
<1>3. Value(c, d)' = Value(c, d)
  BY <1>1 DEF Value
<1>4. Before(c, d)' = Before(c, d)
  BY <1>1, <1>2 DEF Before, Value, Nothing
<1> QED  BY <1>1, <1>3, <1>4

\* A window goes on beginning where it began, or after.
LEMMA WindowsKept ==
  ASSUME TypeInv, RepoInv, LogExtends, now' \in Nat, now' >= now
  PROVE  /\ \A c \in DOMAIN log, d \in Fields : BeginsWindow(c, d) => BeginsWindow(c, d)'
         /\ \A s \in Seq(DOMAIN log), d \in Fields : FromWindow(s, d) => FromWindow(s, d)'
<1>1. ASSUME NEW c \in DOMAIN log, NEW d \in Fields, BeginsWindow(c, d)
      PROVE  BeginsWindow(c, d)'
  <2>1. /\ log[c].parent \in DOMAIN log /\ log[c].parent # 0
        /\ OutOfWindow(log[c].parent, BackfillBound(d))
    BY <1>1, LogDomain DEF BeginsWindow, TypeInv, RepoInv
  <2>2. log'[c] = log[c]
    BY DEF LogExtends
  <2> QED BY <2>1, <2>2, LeftBehind DEF BeginsWindow, OutOfWindow
<1>2. ASSUME NEW s \in Seq(DOMAIN log), NEW d \in Fields, FromWindow(s, d)
      PROVE  FromWindow(s, d)'
  <2> SUFFICES ASSUME s # <<>> PROVE log'[s[1]].parent = 0 \/ BeginsWindow(s[1], d)'
    BY DEF FromWindow
  <2>1. s[1] \in DOMAIN log
    BY LenProperties, ElementOfSeq, EmptySeq
  <2> QED BY <1>1, <1>2, <2>1 DEF FromWindow, LogExtends
<1> QED BY <1>1, <1>2

LEMMA WindowsStay ==
  ASSUME UNCHANGED <<log, now>>
  PROVE  /\ \A c, d : BeginsWindow(c, d)' = BeginsWindow(c, d)
         /\ \A s, d : FromWindow(s, d)' = FromWindow(s, d)
  BY DEF BeginsWindow, FromWindow, OutOfWindow, BackfillBound

\* Rows and marks mean the same in a longer log and later.
LEMMA StoreStable ==
  ASSUME TypeInv, RepoInv, LogExtends, now' \in Nat, now' >= now, UNCHANGED storeVars
  PROVE  /\ \A r \in Row : Truthful(r) => Truthful(r)'
         /\ MarkInv => MarkInv'
<1>1. ASSUME NEW r \in Row, Truthful(r) PROVE Truthful(r)'
  <2>1. r.sha \in DOMAIN log /\ r.field \in Fields
    BY DEF Row
  <2>2. BeginsWindow(r.sha, r.field) => BeginsWindow(r.sha, r.field)'
    BY <2>1, WindowsKept
  <2> QED  BY <1>1, <2>1, <2>2, ValuesStable DEF Truthful
<1>2. ASSUME MarkInv PROVE MarkInv'
  <2>1. \A d \in Fields : covered[d] \subseteq DOMAIN log
    BY DEF TypeInv, TypeOK
  <2>2. ASSUME NEW d \in Fields, NEW x \in covered[d] \ baseline[d]
        PROVE  Recorded(x, d)' /\ log'[x].parent \in covered[d] \cup {0}
    <3>1. Recorded(x, d) /\ log[x].parent \in covered[d] \cup {0}
      BY <1>2 DEF MarkInv, Coverage
    <3>2. /\ log'[x] = log[x]
          /\ Value(x, d)' = Value(x, d) /\ Before(x, d)' = Before(x, d)
      BY <2>1, ValuesStable
    <3> QED  BY <3>1, <3>2 DEF Recorded, storeVars
  <2> QED  BY <1>2, <2>2 DEF MarkInv, Coverage, HasMark, storeVars
<1> QED  BY <1>1, <1>2

LEMMA HeadMovesSafe == IInv /\ HeadMoves /\ ~AllowMerge => IInv'
<1> SUFFICES ASSUME IInv, HeadMoves, ~AllowMerge PROVE IInv'
  OBVIOUS
<1>0. /\ TypeInv /\ RepoInv /\ TypeInv' /\ RepoInv' /\ LogExtends
      /\ UNCHANGED <<now, storeVars, pc, pollVars, errs, runVars, faults>>
      /\ now' \in Nat /\ now' >= now
  BY HeadMovesTyped, HeadMovesRepo, ClockTyped DEF IInv, HeadMoves
<1>1. \A s \in Seq(DOMAIN log) :
        /\ Linear(s) => Linear(s)'
        /\ Rooted(s) => Rooted(s)'
        /\ s # <<>> => log'[s[1]] = log[s[1]]
  <2> SUFFICES ASSUME NEW s \in Seq(DOMAIN log)
               PROVE  /\ Linear(s) => Linear(s)'
                      /\ Rooted(s) => Rooted(s)'
                      /\ s # <<>> => log'[s[1]] = log[s[1]]
    OBVIOUS
  <2>1. Len(s) \in Nat /\ \A i \in 1..Len(s) : s[i] \in DOMAIN log
    BY LenProperties, ElementOfSeq
  <2>2. s # <<>> => 1 \in 1..Len(s)
    BY <2>1, EmptySeq
  <2> QED  BY <1>0, <2>1, <2>2 DEF LogExtends, Linear, Rooted
<1>2. walk \in Seq(DOMAIN log) /\ run \in Seq(DOMAIN log)
  BY <1>0 DEF TypeInv, TypeOK
<1>a. /\ \A d \in Fields : FromWindow(walk, d) => FromWindow(walk, d)'
      /\ pc = "replay" => (BeginsWindow(run[1], cur) => BeginsWindow(run[1], cur)')
  <2>1. pc = "replay" => cur \in Fields /\ run[1] \in DOMAIN log
    BY <1>0, <1>2, LenProperties, EmptySeq, ElementOfSeq DEF TypeInv, PollHolds
  <2>2. cur' = cur /\ run' = run /\ walk' = walk
    BY <1>0 DEF runVars, pollVars
  <2> QED BY <1>0, <1>2, <2>1, <2>2, WindowsKept DEF FromWindow, BeginsWindow
<1>3. WalkInv'
  BY <1>0, <1>1, <1>2, <1>a
     DEF IInv, WalkInv, WalkServes, HasMark, Elements, Linear, Rooted, storeVars, pollVars,
         TypeInv, TypeOK
<1>4. RunInv'
  BY <1>0, <1>1, <1>2, <1>a
     DEF IInv, RunInv, Linear, HasMark, TypeInv, PollHolds, storeVars, pollVars, runVars
<1>5. RowsInv'
  <2>1. \A r \in changes \cup pend : Truthful(r)'
    BY <1>0, StoreStable DEF IInv, RowsInv, TypeInv, TypeOK
  <2>2. ASSUME NEW i \in 1..pos, RecordedIn(changes \cup pend, run[i], cur)
        PROVE  RecordedIn(changes \cup pend, run[i], cur)'
    <3>1. i \in 1..Len(run)
      BY <1>0, <1>2, LenProperties DEF TypeInv, TypeOK
    <3>2. run[i] \in DOMAIN log
      BY <1>2, <3>1, ElementOfSeq
    <3> QED  BY <1>0, <2>2, <3>2, ValuesStable DEF RecordedIn, storeVars, runVars
  <2> QED
    BY <1>0, <2>1, <2>2 DEF IInv, RowsInv, HasMark, storeVars, runVars
<1> QED  BY <1>0, <1>3, <1>4, <1>5, StoreStable DEF IInv

-----------------------------------------------------------------------------
(* The poll *)

LEMMA LogUnchanged ==
  ASSUME UNCHANGED log
  PROVE  LogExtends
  BY DEF LogExtends

\* A step outside a replay that leaves the repository and the store alone
\* preserves everything but the walk's part.
LEMMA OutsideReplay ==
  ASSUME IInv, TypeInv', UNCHANGED <<repoVars, now, storeVars>>,
         pc' # "replay", pend' = {}
  PROVE  WalkInv' => IInv'
<1>1. RepoInv'
  BY DEF IInv, RepoInv, Linear, Rooted, repoVars
<1>2. /\ MarkInv' /\ \A r \in changes : Truthful(r)'
  BY LogUnchanged, StoreStable, ClockTyped DEF IInv, RowsInv, TypeInv, TypeOK, repoVars
<1>3. RunInv' /\ RowsInv'
  BY <1>2 DEF RunInv, RowsInv, storeVars
<1> QED  BY <1>1, <1>2, <1>3 DEF IInv

LEMMA TickSafe == IInv /\ Tick => IInv'
<1> SUFFICES ASSUME IInv, Tick PROVE IInv'
  OBVIOUS
<1>0. now' \in Nat /\ now' >= now
  BY ClockTyped DEF IInv, Tick
<1>1. TypeInv' /\ RepoInv' /\ MarkInv' /\ \A r \in Row : Truthful(r) => Truthful(r)'
  BY <1>0, TickTyped, LogUnchanged, StoreStable
     DEF IInv, RepoInv, Linear, Rooted, Tick, repoVars
<1>a. /\ \A d \in Fields : FromWindow(walk, d) => FromWindow(walk, d)'
      /\ pc = "replay" => (BeginsWindow(run[1], cur) => BeginsWindow(run[1], cur)')
  <2>1. walk \in Seq(DOMAIN log) /\ run \in Seq(DOMAIN log)
    BY DEF IInv, TypeInv, TypeOK
  <2>2. pc = "replay" => cur \in Fields /\ run[1] \in DOMAIN log
    BY <2>1, LenProperties, EmptySeq, ElementOfSeq DEF IInv, TypeInv, PollHolds
  <2>3. cur' = cur /\ run' = run /\ walk' = walk /\ LogExtends
    BY LogUnchanged DEF Tick, repoVars, runVars, pollVars
  <2> QED BY <1>0, <2>1, <2>2, <2>3, WindowsKept DEF FromWindow, BeginsWindow, IInv
<1>2. WalkInv' /\ RunInv'
  BY <1>a DEF IInv, Tick, WalkInv, RunInv, WalkServes, HasMark, Elements, Linear, Rooted,
         repoVars, storeVars, pollVars, runVars, TypeInv, TypeOK
<1>3. RowsInv'
  <2>1. \A r \in changes \cup pend : Truthful(r)'
    BY <1>1 DEF IInv, RowsInv, TypeInv, TypeOK
  <2>2. \A R, c, d : RecordedIn(R, c, d)' = RecordedIn(R, c, d)
    BY DEF RecordedIn, Before, Value, Nothing, Tick, repoVars
  <2> QED  BY <2>1, <2>2 DEF IInv, Tick, RowsInv, HasMark, storeVars, runVars
<1> QED  BY <1>1, <1>2, <1>3 DEF IInv

LEMMA BeginPollSafe ==
  ASSUME IInv, NEW L \in SUBSET Fields, BeginPoll(L), MaxHistory <= MaxCommitsPerWalk
  PROVE  IInv'
<1>1. PICK b \in {FieldBound(d) : d \in L} : \E lo \in 0..Len(head) :
        /\ IsGroupWalkBound(L, b)
        /\ StartsWalk(head, b, lo)
        /\ bound' = b
        /\ walk' = After(head, lo)
  BY DEF BeginPoll
<1>2. PICK lo \in 0..Len(head) :
        /\ IsGroupWalkBound(L, b)
        /\ StartsWalk(head, b, lo)
        /\ bound' = b
        /\ walk' = After(head, lo)
  BY <1>1
<1>3. TypeInv' /\ head \in Seq(DOMAIN log) /\ b \in Nat
  BY BeginPollTyped, BoundsTyped DEF IInv, TypeInv, TypeOK
<1>4. /\ log' = log /\ now' = now /\ hwm' = hwm /\ pc' = "walked" /\ live' = L
      /\ UNCHANGED <<repoVars, now, storeVars>>
  BY DEF BeginPoll, repoVars, storeVars
<1>5. Linear(walk)'
  BY <1>2, <1>3, <1>4, AfterLinear DEF IInv, RepoInv, Linear
<1>6. bound' = NoBound => Rooted(walk)'
  <2> SUFFICES ASSUME bound' = NoBound PROVE Rooted(walk)'
    OBVIOUS
  <2>1. lo = 0
    BY <1>2, UnboundedWalk DEF IInv
  <2> QED  BY <1>2, <1>3, <1>4, <2>1, AfterLinear DEF IInv, RepoInv, Rooted
<1>7. ASSUME bound' # NoBound, NEW d \in L, ~HasMark(d)
      PROVE  FromWindow(walk, d)'
  <2>1. b <= BackfillBound(d) /\ BackfillBound(d) \in Nat /\ b # NoBound
    BY <1>2, <1>7, BoundsTyped DEF IsGroupWalkBound, FieldBound, IInv, TypeInv
  <2> SUFFICES ASSUME walk' # <<>>
               PROVE  log[walk'[1]].parent = 0 \/ BeginsWindow(walk'[1], d)
    BY <1>4 DEF FromWindow, BeginsWindow, OutOfWindow, BackfillBound
  <2>2. Len(head) \in Nat /\ lo < Len(head)
    BY <1>2, <1>3, LenProperties, AfterProperties, EmptySeq
  <2>3. CASE lo = 0
    BY <1>2, <1>3, <2>3, AfterLinear DEF IInv, RepoInv, Rooted
  <2>4. CASE lo > 0
    <3>1. log[walk'[1]].parent = head[lo]
      BY <1>2, <1>3, <2>2, <2>4, AfterLinear DEF IInv, RepoInv
    <3>2. Len(head) - lo < MaxCommitsPerWalk
      BY <2>2, <2>4, PollCycleAssumption DEF IInv, RepoInv
    <3>3. OutOfWindow(head[lo], b)
      BY <1>2, <2>4, <3>2 DEF StartsWalk
    <3>4. head[lo] \in DOMAIN log /\ lo \in 1..Len(head)
      BY <1>3, <2>2, <2>4, ElementOfSeq
    <3>5. head[lo] # 0 /\ log[head[lo]].time \in Nat
      <4>1. log[head[lo]] \in Commit
        BY <3>4, LogDomain, ElementOfSeq DEF IInv, TypeInv, TypeOK, Commit
      <4>2. head[lo] # 0
        BY <3>4, LogDomain DEF IInv, TypeInv
      <4>3. log[head[lo]].time \in Nat
        BY <4>1, PollCycleAssumption DEF Commit
      <4> QED BY <4>2, <4>3
    <3> QED BY <1>3, <2>1, <3>1, <3>3, <3>5 DEF BeginsWindow, OutOfWindow, NoBound
  <2> QED BY <2>2, <2>3, <2>4
<1>8. WalkInv'
  BY <1>4, <1>5, <1>6, <1>7 DEF WalkInv, HasMark
<1>9. pend' = {}
  BY DEF BeginPoll, IInv, RunInv, runVars
<1> QED  BY <1>3, <1>4, <1>8, <1>9, OutsideReplay

LEMMA PollForgottenSafe ==
  ASSUME IInv, TypeInv', UNCHANGED <<repoVars, now, storeVars>>,
         pc' = "idle", PollForgotten, pend' = {}
  PROVE  IInv'
<1>1. WalkInv'
  BY DEF WalkInv, Linear, PollForgotten
<1> QED  BY <1>1, OutsideReplay

LEMMA BeginFieldsSafe ==
  ASSUME IInv, TypeInv', pc = "walked", NEW h \in Seq(DOMAIN log), BeginFields(h),
         UNCHANGED <<repoVars, now, storeVars, runVars>>, Linear(h),
         \/ Rooted(h)
         \/ \A d \in live : IF HasMark(d) THEN hwm[d].sha \in Elements(h)
                            ELSE FromWindow(h, d)
  PROVE  IInv'
<1>0. pend' = {}
  BY DEF IInv, RunInv, runVars
<1>1. CASE h = <<>>
  BY <1>0, <1>1, PollForgottenSafe DEF BeginFields
<1>2. CASE h # <<>>
  <2>1. pc' = "fields" /\ todo' = live /\ walk' = h /\ log' = log /\ hwm' = hwm
    BY <1>2 DEF BeginFields, repoVars, storeVars
  <2>2. WalkInv'
    BY <2>1, WindowsStay DEF WalkInv, WalkServes, Linear, Rooted, Elements, HasMark
  <2> QED  BY <1>0, <2>1, <2>2, OutsideReplay
<1> QED  BY <1>1, <1>2

LEMMA KeepWalkSafe == IInv /\ KeepWalk => IInv'
<1> SUFFICES ASSUME IInv, KeepWalk PROVE IInv'
  OBVIOUS
<1>1. TypeInv' /\ walk \in Seq(DOMAIN log)
  BY KeepWalkTyped DEF IInv, TypeInv, TypeOK
<1>2. \/ Rooted(walk)
      \/ \A d \in live : IF HasMark(d) THEN hwm[d].sha \in Elements(walk)
                         ELSE FromWindow(walk, d)
  BY DEF KeepWalk, WalkSuffices, CursorsPresent, IInv, WalkInv
<1> QED  BY <1>1, <1>2, BeginFieldsSafe DEF KeepWalk, IInv, WalkInv

LEMMA RewalkSafe ==
  ASSUME IInv, Rewalk, MaxHistory <= MaxCommitsPerWalk
  PROVE  IInv'
<1>1. PICK lo \in 0..Len(head) : StartsWalk(head, NoBound, lo) /\ BeginFields(After(head, lo))
  BY DEF Rewalk
<1>2. TypeInv' /\ head \in Seq(DOMAIN log) /\ lo = 0
  BY <1>1, RewalkTyped, UnboundedWalk DEF IInv, TypeInv, TypeOK
<1>3. /\ After(head, lo) \in Seq(DOMAIN log)
      /\ Linear(After(head, lo)) /\ Rooted(After(head, lo))
  BY <1>2, AfterProperties, AfterLinear DEF IInv, RepoInv
<1> QED  BY <1>1, <1>2, <1>3, BeginFieldsSafe DEF Rewalk

LEMMA EndingSafe == IInv /\ (RewalkFails \/ EndPoll \/ Crash) => IInv'
<1> SUFFICES ASSUME IInv, RewalkFails \/ EndPoll \/ Crash PROVE IInv'
  OBVIOUS
<1>1. TypeInv'
  BY RewalkFailsTyped, EndPollTyped, CrashTyped DEF IInv
<1>2. pend' = {}
  BY DEF IInv, RunInv, RewalkFails, EndPoll, Crash, RunForgotten, runVars
<1> QED  BY <1>1, <1>2, PollForgottenSafe DEF RewalkFails, EndPoll, Crash

\* While a field is polled, todo shrinks and the walk stays.
LEMMA WalkStays ==
  ASSUME IInv, pc \in {"fields", "replay"}, todo' \subseteq todo, walk' = walk,
         pc' \in {"fields", "replay"}, UNCHANGED <<repoVars, now, storeVars>>
  PROVE  WalkInv'
  BY WindowsStay DEF IInv, WalkInv, WalkServes, HasMark, Elements, Linear, Rooted, repoVars, storeVars

LEMMA PassedOverSafe ==
  ASSUME IInv, TypeInv', pc = "fields", NEW d \in todo, Skip(d) \/ Reject(d),
         UNCHANGED <<repoVars, now, storeVars, live, bound, walk, faults>>
  PROVE  IInv'
<1>1. pc' = "fields" /\ pend' = {} /\ todo' \subseteq todo
  BY DEF Skip, Reject, IInv, RunInv, runVars
<1> QED  BY <1>1, WalkStays, OutsideReplay

LEMMA ReplaySafe ==
  ASSUME IInv, TypeInv', pc = "fields", NEW d \in todo,
         NEW c \in 0..Len(log), NEW s \in Seq(DOMAIN log), Replay(d, c, s),
         Linear(s),
         c # 0 => log[s[1]].parent = c /\ (HasMark(d) => c = hwm[d].sha),
         c = 0 => log[s[1]].parent = 0 \/ (~HasMark(d) /\ BeginsWindow(s[1], d)),
         UNCHANGED <<repoVars, now, storeVars, live, bound, walk, faults>>
  PROVE  IInv'
<1>1. /\ pc' = "replay" /\ pend' = {} /\ pos' = 0 /\ run' = s /\ cur' = d /\ from' = c
      /\ todo' = todo \ {d} /\ log' = log /\ hwm' = hwm
  BY DEF Replay, repoVars, storeVars
<1>2. WalkInv'
  BY <1>1, WalkStays
<1>3. RunInv'
  BY <1>1, WindowsStay DEF RunInv, Linear, HasMark
<1>4. RepoInv'
  BY DEF IInv, RepoInv, Linear, Rooted, repoVars
<1>5. MarkInv' /\ \A r \in changes : Truthful(r)'
  BY LogUnchanged, StoreStable, ClockTyped DEF IInv, RowsInv, TypeInv, TypeOK, repoVars
<1>6. RowsInv'
  BY <1>1, <1>5 DEF RowsInv, storeVars
<1> QED  BY <1>2, <1>3, <1>4, <1>5, <1>6 DEF IInv

LEMMA FirstRunSafe ==
  ASSUME IInv, NEW d \in todo, FirstRun(d)
  PROVE  IInv'
<1>1. PICK lo \in 0..Len(walk) :
        /\ StartsWindow(walk, BackfillBound(d), lo)
        /\ LET s == After(walk, lo) IN
             IF s = <<>> THEN Skip(d)
             ELSE IF Malformed(Head(s), d) THEN Reject(d)
             ELSE IF Len(s) = 1 THEN Replay(d, 0, s)
             ELSE Replay(d, Head(s), Tail(s))
  BY DEF FirstRun
<1> DEFINE s == After(walk, lo)
<1>2. /\ TypeInv' /\ pc = "fields" /\ ~HasMark(d) /\ walk \in Seq(DOMAIN log)
      /\ UNCHANGED <<repoVars, now, storeVars, live, bound, walk, faults>>
      /\ WalkServes(d) /\ Linear(walk)
  BY FirstRunTyped DEF FirstRun, IInv, TypeInv, TypeOK, WalkInv
<1>3. /\ s \in Seq(DOMAIN log) /\ Linear(s)
      /\ lo = 0 /\ Rooted(walk) => Rooted(s)
  BY <1>2, AfterProperties, AfterLinear
<1>4. 0 \in 0..Len(log)
  BY LogDomain DEF IInv, TypeInv
<1>5. s # <<>> => log[s[1]].parent = 0 \/ (~HasMark(d) /\ BeginsWindow(s[1], d))
  <2> SUFFICES ASSUME s # <<>>
               PROVE  log[s[1]].parent = 0 \/ BeginsWindow(s[1], d)
    BY <1>2
  <2>1. Len(walk) \in Nat /\ lo < Len(walk)
    BY <1>2, LenProperties, AfterProperties, EmptySeq
  <2>2. CASE lo = 0
    <3>1. s[1] = walk[1]
      <4>1. 1 \in 1 .. Len(walk) - lo
        BY <2>1
      <4>2. s[1] = walk[lo + 1]
        BY <1>2, <4>1, AfterProperties
      <4> QED BY <2>2, <4>2
    <3>2. walk # <<>>
      BY <2>1, EmptySeq
    <3> QED BY <1>2, <3>1, <3>2 DEF WalkServes, Rooted, FromWindow
  <2>3. CASE lo > 0
    <3>1. log[s[1]].parent = walk[lo]
      BY <1>2, <2>1, <2>3, AfterLinear
    <3>2. walk[lo] # 0
      BY <1>2, <2>1, <2>3, ElementOfSeq, LogDomain DEF IInv, TypeInv
    <3> QED BY <1>1, <2>3, <3>1, <3>2 DEF StartsWindow, BeginsWindow
  <2> QED BY <2>1, <2>2, <2>3
<1> HIDE DEF s
<1>6. CASE s = <<>> \/ Malformed(Head(s), d)
  BY <1>1, <1>2, <1>6, PassedOverSafe DEF s
<1>7. CASE s # <<>> /\ Len(s) = 1 /\ Replay(d, 0, s)
  <2> QED  BY <1>2, <1>3, <1>4, <1>5, <1>7, ReplaySafe
<1>8. CASE s # <<>> /\ Len(s) # 1 /\ Replay(d, Head(s), Tail(s))
  <2>1. /\ Tail(s) \in Seq(DOMAIN log) /\ Len(Tail(s)) = Len(s) - 1
        /\ \A i \in 1..Len(Tail(s)) : Tail(s)[i] = s[i + 1]
        /\ Head(s) = s[1] /\ Head(s) \in DOMAIN log /\ Len(s) \in Nat \ {0}
    BY <1>3, <1>8, HeadTailProperties, EmptySeq
  <2>2. Linear(Tail(s))
    <3> SUFFICES ASSUME NEW i \in 2..Len(Tail(s))
                 PROVE  log[Tail(s)[i]].parent = Tail(s)[i - 1]
      BY DEF Linear
    <3>1. Tail(s)[i] = s[i + 1] /\ Tail(s)[i - 1] = s[i]
      BY <2>1
    <3> QED  BY <1>3, <2>1, <3>1 DEF Linear
  <2>3. log[Tail(s)[1]].parent = Head(s)
    <3>1. 1 \in 1..Len(Tail(s)) /\ 2 \in 2..Len(s)
      BY <1>8, <2>1
    <3> QED  BY <1>3, <2>1, <3>1 DEF Linear
  <2>4. Head(s) \in 0..Len(log) /\ Head(s) # 0
    BY <2>1, LogDomain DEF IInv, TypeInv
  <2> QED  BY <1>2, <1>8, <2>1, <2>2, <2>3, <2>4, ReplaySafe
<1> QED  BY <1>1, <1>6, <1>7, <1>8 DEF s

LEMMA ResumeSafe ==
  ASSUME IInv, NEW d \in todo, Resume(d)
  PROVE  IInv'
<1>0. /\ TypeInv' /\ pc = "fields" /\ HasMark(d) /\ walk \in Seq(DOMAIN log)
      /\ UNCHANGED <<repoVars, now, storeVars, live, bound, walk, faults>>
      /\ WalkServes(d) /\ Linear(walk) /\ walk # <<>> /\ Len(walk) \in Nat
  BY ResumeTyped, LenProperties DEF Resume, IInv, TypeInv, TypeOK, PollHolds, WalkInv
<1>1. ASSUME NEW i \in 1..Len(walk), walk[i] = hwm[d].sha,
             IF i = Len(walk) THEN Skip(d)
             ELSE IF Malformed(walk[i], d) THEN Reject(d)
             ELSE Replay(d, walk[i], After(walk, i))
      PROVE  IInv'
  <2>1. CASE Skip(d) \/ Reject(d)
    BY <1>0, <2>1, PassedOverSafe
  <2>2. CASE i # Len(walk) /\ Replay(d, walk[i], After(walk, i))
    <3>1. walk[i] \in 0..Len(log) /\ walk[i] # 0
      BY <1>0, ElementOfSeq, LogDomain DEF IInv, TypeInv
    <3>2. i \in 0..Len(walk) /\ i > 0 /\ i < Len(walk)
      BY <1>0, <2>2
    <3>3. /\ After(walk, i) \in Seq(DOMAIN log) /\ Linear(After(walk, i))
          /\ log[After(walk, i)[1]].parent = walk[i]
      BY <1>0, <3>2, AfterProperties, AfterLinear
    <3> QED  BY <1>0, <1>1, <2>2, <3>1, <3>3, ReplaySafe
  <2> QED  BY <1>1, <2>1, <2>2
<1>2. CASE hwm[d].sha \notin Elements(walk) /\ Replay(d, 0, WholeWalk)
  <2>1. log[walk[1]].parent = 0
    BY <1>0, <1>2 DEF WalkServes, Rooted
  <2>2. 0 \in 0..Len(log)
    BY LogDomain DEF IInv, TypeInv
  <2> QED  BY <1>0, <1>2, <2>1, <2>2, ReplaySafe DEF WholeWalk
<1> QED  BY <1>1, <1>2 DEF Resume

LEMMA FieldFailsSafe ==
  ASSUME IInv, TypeInv', pc = "replay", FieldFails,
         UNCHANGED <<repoVars, now, storeVars, pollVars>>
  PROVE  IInv'
<1>1. pc' = "fields" /\ pend' = {} /\ todo' = todo /\ walk' = walk
  BY DEF FieldFails, RunForgotten, pollVars
<1> QED  BY <1>1, WalkStays, OutsideReplay

LEMMA WriteFailsSafe == IInv /\ WriteFails => IInv'
  BY WriteFailsTyped, FieldFailsSafe DEF WriteFails, IInv

\* The value a commit is diffed against is its parent's, or "absent" where a
\* field with a window begins.
LEMMA PrevIsBefore ==
  ASSUME IInv, pc = "replay", pos + 1 \in 1..Len(run)
  PROVE  \/ Prev = Before(run[pos + 1], cur)
         \/ /\ pos = 0 /\ from = 0 /\ ~HasMark(cur) /\ BeginsWindow(run[1], cur)
            /\ Prev = Nothing
<1>0. run \in Seq(DOMAIN log) /\ pos \in 0..Len(run) /\ from \in 0..Len(log)
  BY DEF IInv, TypeInv, TypeOK
<1>1. CASE pos > 0
  <2>1. pos \in 1..Len(run) /\ pos + 1 \in 2..Len(run) /\ pos + 1 - 1 = pos
    BY <1>0, <1>1, LenProperties
  <2>2. log[run[pos + 1]].parent = run[pos]
    BY <2>1 DEF IInv, RunInv, Linear
  <2>3. run[pos] # 0
    BY <1>0, <2>1, ElementOfSeq, LogDomain DEF IInv, TypeInv
  <2> QED  BY <1>1, <2>2, <2>3 DEF Prev, Before
<1>2. CASE pos = 0
  BY <1>2 DEF Prev, Before, IInv, RunInv
<1> QED  BY <1>0, <1>1, <1>2

LEMMA ExtractNextSafe == IInv /\ ExtractNext => IInv'
<1> SUFFICES ASSUME IInv, ExtractNext PROVE IInv'
  OBVIOUS
<1> DEFINE c == run[pos + 1]
<1>a. /\ pc = "replay" /\ pend = {} /\ TypeInv' /\ pos < Len(run)
      /\ UNCHANGED <<repoVars, now, storeVars, pollVars, faults>>
  BY ExtractNextTyped DEF ExtractNext, IInv
<1>b. pos \in Nat /\ Len(run) \in Nat /\ cur \in Fields
  BY <1>a, LenProperties DEF IInv, TypeInv, TypeOK, PollHolds
<1>0. /\ pc = "replay" /\ pend = {} /\ pos + 1 \in 1..Len(run) /\ TypeInv'
      /\ pos \in Nat /\ cur \in Fields
      /\ UNCHANGED <<repoVars, now, storeVars, pollVars, faults>>
  BY <1>a, <1>b
<1>1. CASE Malformed(c, cur)
  BY <1>0, <1>1, FieldFailsSafe DEF ExtractNext
<1>2. CASE ~Malformed(c, cur)
  <2>0. /\ pos' = pos + 1 /\ pend' = DiffRows(cur, c, Prev, Value(c, cur))
        /\ UNCHANGED <<pc, errs, cur, from, run>>
    BY <1>2 DEF ExtractNext
  <2>1. RepoInv'
    BY <1>0 DEF IInv, RepoInv, Linear, Rooted, repoVars
  <2>2. MarkInv' /\ \A r \in changes : Truthful(r)'
    BY <1>0, LogUnchanged, StoreStable, ClockTyped DEF IInv, RowsInv, TypeInv, TypeOK, repoVars
  <2>3. WalkInv'
    BY <1>0, <2>0, WalkStays DEF pollVars
  <2>4. RunInv'
    BY <1>0, <2>0, WindowsStay DEF IInv, RunInv, Linear, HasMark, repoVars, storeVars, pollVars
  <2>5. ASSUME NEW r \in pend' PROVE Truthful(r)'
    <3>1. PICK k \in Keys :
            r = [field |-> cur, key |-> k, sha |-> c, old |-> Prev[k], new |-> Value(c, cur)[k]]
      BY <2>0 DEF DiffRows
    <3>2. Truthful(r)
      BY <1>0, <3>1, PrevIsBefore DEF Truthful, Nothing
    <3> QED  BY <1>0, <3>2, WindowsStay DEF Truthful, Before, Value, Nothing, repoVars
  <2>6. \/ pos = 0 /\ from = 0 /\ ~HasMark(cur)
        \/ RecordedIn(pend', c, cur)
    <3>1. ASSUME Prev = Before(c, cur) PROVE RecordedIn(pend', c, cur)
      <4> SUFFICES ASSUME NEW k \in Keys, Before(c, cur)[k] # Value(c, cur)[k]
                   PROVE  \E r \in pend' : r.field = cur /\ r.key = k /\ r.sha = c
        BY DEF RecordedIn
      <4> DEFINE r == [field |-> cur, key |-> k, sha |-> c,
                       old |-> Prev[k], new |-> Value(c, cur)[k]]
      <4>1. r \in pend'
        BY <2>0, <3>1 DEF DiffRows
      <4> QED  BY <4>1
    <3> QED  BY <1>0, <3>1, PrevIsBefore
  <2>7. \A R, x, d : RecordedIn(R, x, d)' = RecordedIn(R, x, d)
    BY <1>0 DEF RecordedIn, Before, Value, Nothing, repoVars
  <2>8. RowsInv'
    <3>1. ASSUME NEW i \in 1 .. pos + 1
          PROVE  \/ i = 1 /\ from = 0 /\ ~HasMark(cur)
                 \/ RecordedIn(changes \cup pend', run[i], cur)
      <4>1. CASE i \in 1..pos
        BY <1>0, <4>1 DEF IInv, RowsInv, RecordedIn
      <4>2. CASE i = pos + 1
        BY <1>0, <2>6, <4>2 DEF RecordedIn
      <4> QED  BY <1>0, <4>1, <4>2
    <3> QED  BY <1>0, <2>0, <2>2, <2>5, <2>7, <3>1 DEF RowsInv, HasMark, storeVars
  <2> QED  BY <1>0, <2>1, <2>2, <2>3, <2>4, <2>8 DEF IInv
<1> QED  BY <1>1, <1>2

\* A row that the table ignores is one whose commit already has its row.
LEMMA SavedRows ==
  ASSUME NEW r \in pend, SaveChange(r)
  PROVE  /\ changes \subseteq changes'
         /\ changes' \cup pend' \subseteq changes \cup pend
         /\ \A c, d : RecordedIn(changes \cup pend, c, d) =>
                      RecordedIn(changes' \cup pend', c, d)
<1>1. changes \subseteq changes' /\ changes' \cup pend' \subseteq changes \cup pend
  BY DEF SaveChange, SavedWith
<1>2. \E s \in changes' : SameIdentity(r, s)
  BY DEF SaveChange, SavedWith, SameIdentity
<1>3. \A q \in changes \cup pend : \E s \in changes' \cup pend' : SameIdentity(q, s)
  <2> TAKE q \in changes \cup pend
  <2>1. CASE q = r
    BY <1>2, <2>1
  <2>2. CASE q # r
    BY <1>1, <2>2 DEF SaveChange, SameIdentity
  <2> QED  BY <2>1, <2>2
<1> QED  BY <1>1, <1>3 DEF RecordedIn, SameIdentity

LEMMA SaveChangeSafe ==
  ASSUME IInv, NEW r \in pend, SaveChange(r)
  PROVE  IInv'
<1>0. /\ TypeInv' /\ pc = "replay" /\ changes \subseteq changes'
      /\ UNCHANGED <<repoVars, now, hwm, covered, baseline, pc, pollVars, errs,
                     cur, from, run, pos, faults>>
  BY SaveChangeTyped, SavedRows DEF SaveChange, IInv
<1>1. RepoInv'
  BY <1>0 DEF IInv, RepoInv, Linear, Rooted, repoVars
<1>2. WalkInv'
  BY <1>0, WindowsStay
     DEF IInv, WalkInv, WalkServes, HasMark, Elements, Linear, Rooted, repoVars, pollVars
<1>3. RunInv'
  BY <1>0, WindowsStay DEF IInv, RunInv, Linear, HasMark, repoVars, pollVars
<1>4. \A q : Truthful(q)' = Truthful(q)
  BY <1>0, WindowsStay DEF Truthful, Before, Value, Nothing, repoVars
<1>5. \A R, c, d : RecordedIn(R, c, d)' = RecordedIn(R, c, d)
  BY <1>0 DEF RecordedIn, Before, Value, Nothing, repoVars
<1>6. RowsInv'
  BY <1>0, <1>4, <1>5, SavedRows DEF IInv, RowsInv, HasMark
<1>7. MarkInv'
  <2>1. \A c, d : Recorded(c, d) => Recorded(c, d)'
    BY <1>0 DEF Recorded, Before, Value, Nothing, repoVars
  <2> QED  BY <1>0, <2>1 DEF IInv, MarkInv, Coverage, HasMark, repoVars
<1> QED  BY <1>0, <1>1, <1>2, <1>3, <1>6, <1>7 DEF IInv

\* What the mark of cur passes over: each commit has its rows, and so does its
\* past, unless it is the baseline of a first poll.
LEMMA PassedOver ==
  ASSUME IInv, pc = "replay", ReplayDone, NEW i \in 1..Len(run)
  PROVE  \/ i = 1 /\ from = 0 /\ ~HasMark(cur)
         \/ /\ Recorded(run[i], cur)
            /\ log[run[i]].parent \in Elements(run) \cup {from, 0}
<1>1. Len(run) \in Nat /\ i \in 1..pos
  BY LenProperties DEF IInv, TypeInv, TypeOK, ReplayDone
<1>2. \/ i = 1 /\ from = 0 /\ ~HasMark(cur)
      \/ Recorded(run[i], cur)
  BY <1>1 DEF IInv, RowsInv, ReplayDone, RecordedIn, Recorded
<1>3. CASE i = 1
  BY <1>2, <1>3 DEF IInv, RunInv
<1>4. CASE i # 1
  <2>1. i \in 2..Len(run) /\ i - 1 \in 1..Len(run)
    BY <1>1, <1>4
  <2>2. log[run[i]].parent = run[i - 1]
    BY <2>1 DEF IInv, RunInv, Linear
  <2> QED  BY <1>2, <1>4, <2>1, <2>2 DEF Elements
<1> QED  BY <1>3, <1>4

LEMMA SetHighWaterMarkSafe == IInv /\ SetHighWaterMark => IInv'
<1> SUFFICES ASSUME IInv, SetHighWaterMark PROVE IInv'
  OBVIOUS
<1>0. /\ TypeInv' /\ pc = "replay" /\ ReplayDone /\ cur \in Fields /\ cur \notin todo
      /\ UNCHANGED <<repoVars, now, changes, pollVars, errs, faults>>
      /\ hwm \in [Fields -> [sha : 0..Len(log), time : Nat]]
      /\ covered \in [Fields -> SUBSET DOMAIN log]
      /\ baseline \in [Fields -> SUBSET DOMAIN log]
  BY SetHighWaterMarkTyped
     DEF SetHighWaterMark, IInv, TypeInv, TypeOK, PollHolds, RunInv
<1>1. RepoInv'
  BY <1>0 DEF IInv, RepoInv, Linear, Rooted, repoVars
<1>2. \A d \in Fields \ {cur} :
        hwm'[d] = hwm[d] /\ covered'[d] = covered[d] /\ baseline'[d] = baseline[d]
  BY <1>0 DEF SetHighWaterMark
<1>3. pc' = "fields" /\ pend' = {}
  BY DEF SetHighWaterMark, RunForgotten
<1>4. WalkInv'
  <2>1. todo \subseteq Fields \ {cur}
    BY <1>0 DEF IInv, TypeInv, TypeOK
  <2>2. ASSUME NEW d \in todo, WalkServes(d) PROVE WalkServes(d)'
    <3>1. hwm'[d] = hwm[d] /\ walk' = walk /\ log' = log
      BY <1>0, <1>2, <2>1 DEF repoVars, pollVars
    <3> QED  BY <1>0, <2>2, <3>1, WindowsStay DEF WalkServes, HasMark, Elements, Rooted
  <2> QED  BY <1>0, <1>3, <2>2 DEF IInv, WalkInv, Linear, repoVars, pollVars
<1>5. RunInv'
  BY <1>3 DEF RunInv
<1>6. RowsInv'
  <2>1. \A q : Truthful(q)' = Truthful(q)
    BY <1>0, WindowsStay DEF Truthful, Before, Value, Nothing, repoVars
  <2> QED  BY <1>0, <1>3, <2>1 DEF IInv, RowsInv
<1>7. \A c, d : Recorded(c, d)' = Recorded(c, d)
  BY <1>0 DEF Recorded, Before, Value, Nothing, repoVars
<1>8. ASSUME NEW d \in Fields \ {cur}
      PROVE  /\ ~HasMark(d)' => covered'[d] = {} /\ baseline'[d] = {}
             /\ HasMark(d)' => hwm'[d].sha \in covered'[d]
             /\ \A x \in covered'[d] \ baseline'[d] :
                  Recorded(x, d)' /\ log'[x].parent \in covered'[d] \cup {0}
  BY <1>0, <1>2, <1>7 DEF IInv, MarkInv, Coverage, HasMark, repoVars
<1>9. /\ pos \in 1..Len(run) /\ 1 \in 1..Len(run)
      /\ run[pos] # 0 /\ run[pos] \in Elements(run)
  <2>1. run \in Seq(DOMAIN log) /\ Len(run) \in Nat \ {0} /\ pos = Len(run)
    BY <1>0, EmptySeq DEF IInv, TypeInv, TypeOK, PollHolds, ReplayDone
  <2> QED  BY <2>1, ElementOfSeq, LogDomain DEF Elements, IInv, TypeInv
<1>10. /\ hwm'[cur].sha = run[pos]
       /\ covered'[cur] = covered[cur] \cup Elements(run) \cup ({from} \ {0})
       /\ baseline'[cur] = IF HasMark(cur) THEN baseline[cur]
                           ELSE {IF from = 0 THEN run[1] ELSE from}
  BY <1>0 DEF SetHighWaterMark, MarkAt
<1>11. ASSUME NEW x \in covered'[cur] \ baseline'[cur]
       PROVE  Recorded(x, cur) /\ log[x].parent \in covered'[cur] \cup {0}
  <2>1. CASE x \in covered[cur]
    <3>1. HasMark(cur)
      BY <1>0, <2>1 DEF IInv, MarkInv
    <3> QED  BY <1>0, <1>10, <1>11, <2>1, <3>1 DEF IInv, MarkInv, Coverage
  <2>2. CASE x \in Elements(run)
    <3>1. PICK i \in 1..Len(run) : x = run[i]
      BY <2>2 DEF Elements
    <3>2. ~(i = 1 /\ from = 0 /\ ~HasMark(cur))
      BY <1>10, <1>11, <3>1
    <3>3. Recorded(run[i], cur) /\ log[run[i]].parent \in Elements(run) \cup {from, 0}
      BY <1>0, <3>2, PassedOver
    <3> QED  BY <1>10, <3>1, <3>3
  <2>3. CASE x = from /\ from # 0
    <3>1. HasMark(cur)
      BY <1>10, <1>11, <2>3
    <3>2. from \in covered[cur]
      BY <1>0, <2>3, <3>1 DEF IInv, RunInv, MarkInv, Coverage
    <3> QED  BY <2>1, <2>3, <3>2
  <2> QED  BY <1>10, <1>11, <2>1, <2>2, <2>3
<1>12. ASSUME NEW d \in Fields, d = cur
       PROVE  /\ HasMark(d)' /\ hwm'[d].sha \in covered'[d]
              /\ \A x \in covered'[d] \ baseline'[d] :
                   Recorded(x, d)' /\ log'[x].parent \in covered'[d] \cup {0}
  <2>1. \A x \in covered'[d] \ baseline'[d] : Recorded(x, d)'
    BY <1>7, <1>11, <1>12
  <2> QED  BY <1>0, <1>9, <1>10, <1>11, <1>12, <2>1 DEF HasMark, repoVars
<1>13. MarkInv'
  <2>1. \A d \in Fields : d = cur \/ d \in Fields \ {cur}
    OBVIOUS
  <2> QED  BY <1>8, <1>12, <2>1 DEF MarkInv, Coverage
<1> QED  BY <1>0, <1>1, <1>4, <1>5, <1>6, <1>13 DEF IInv

-----------------------------------------------------------------------------
(* The theorems *)

LEMMA InitSafe == Init => IInv
<1> SUFFICES ASSUME Init PROVE IInv
  OBVIOUS
<1>0. TypeInv
  BY InitTyped
<1>1. RepoInv
  <2>1. CASE log = <<>> /\ head = <<>>
    BY <2>1, PollCycleAssumption DEF RepoInv, Linear, Rooted
  <2>2. CASE /\ MaxCommits > 0 /\ MaxHistory > 0 /\ head = <<1>>
             /\ \E t \in Times, x \in Contents : log = <<NewCommit(t, 0, x)>>
    BY <2>2, PollCycleAssumption DEF RepoInv, Linear, Rooted, NewCommit
  <2> QED  BY <2>1, <2>2 DEF Init
<1>2. WalkInv /\ RunInv
  BY DEF Init, WalkInv, RunInv, Linear
<1>3. \A d \in Fields : HasMark(d) => 1 \in DOMAIN log /\ log[1].parent = 0 /\ hwm[d].sha = 1
  BY DEF Init, HasMark, NoMark, NewCommit
<1>4. ASSUME NEW d \in Fields, HasMark(d),
             NEW r \in DiffRows(d, 1, Nothing, Value(1, d))
      PROVE  Truthful(r)
  BY <1>3, <1>4 DEF DiffRows, Truthful, Before
<1>5. RowsInv
  BY <1>4 DEF Init, RowsInv
<1>6. MarkInv
  BY <1>3 DEF Init, MarkInv, Coverage
<1> QED  BY <1>0, <1>1, <1>2, <1>5, <1>6 DEF IInv

LEMMA NextSafe ==
  ASSUME ~AllowMerge, MaxHistory <= MaxCommitsPerWalk, IInv, [Next]_vars
  PROVE  IInv'
<1>1. CASE PollStep
  BY <1>1, KeepWalkSafe, RewalkSafe, FirstRunSafe, ResumeSafe, EndingSafe,
     ExtractNextSafe, SaveChangeSafe, SetHighWaterMarkSafe DEF PollStep
<1>2. CASE UNCHANGED vars
  <2>1. TypeInv'
    BY <1>2, NextTyped DEF IInv
  <2>2. RepoInv' /\ WalkInv' /\ RunInv'
    BY <1>2, WindowsStay DEF IInv, RepoInv, WalkInv, RunInv, WalkServes, HasMark, Elements, Linear,
                Rooted, vars, repoVars, storeVars, pollVars, runVars
  <2>3. /\ MarkInv' /\ \A r \in Row : Truthful(r) => Truthful(r)'
    BY <1>2, LogUnchanged, StoreStable, ClockTyped DEF IInv, vars, repoVars
  <2>4. \A R, c, d : RecordedIn(R, c, d)' = RecordedIn(R, c, d)
    BY <1>2 DEF RecordedIn, Before, Value, Nothing, vars, repoVars
  <2>5. \A r \in changes \cup pend : Truthful(r)'
    BY <2>3 DEF IInv, RowsInv, TypeInv, TypeOK
  <2>6. RowsInv'
    BY <1>2, <2>4, <2>5 DEF IInv, RowsInv, HasMark, vars, storeVars, runVars
  <2> QED  BY <2>1, <2>2, <2>3, <2>6 DEF IInv
<1> QED
  BY <1>1, <1>2, HeadMovesSafe, TickSafe, BeginPollSafe, EndingSafe, WriteFailsSafe
     DEF Next

THEOREM Safety ==
  ASSUME ~AllowMerge, MaxHistory <= MaxCommitsPerWalk
  PROVE  Spec => []IInv
<1>1. Init => IInv
  BY InitSafe
<1>2. IInv /\ [Next]_vars => IInv'
  BY NextSafe
<1> QED  BY <1>1, <1>2, PTL DEF Spec

\* The rows of the feed state transitions their commits made, whatever stops,
\* failures, force-pushes and skewed author times the polls ran into.
THEOREM FeedTruthful ==
  ASSUME ~AllowMerge, MaxHistory <= MaxCommitsPerWalk
  PROVE  Spec => []FeedIsTruthful
<1>1. IInv => FeedIsTruthful
  BY DEF IInv, RowsInv, FeedIsTruthful, Truthful
<1> QED  BY <1>1, Safety, PTL

\* A mark stands on a commit whose past, commit by commit, has its rows: no
\* poll, however it ends, leaves a hole that the marks hide from later polls.
THEOREM MarksCovered ==
  ASSUME ~AllowMerge, MaxHistory <= MaxCommitsPerWalk
  PROVE  Spec => []Coverage
<1>1. IInv => Coverage
  BY DEF IInv, MarkInv
<1> QED  BY <1>1, Safety, PTL

\* However the walk was bounded and wherever HEAD went between its two attempts,
\* the fields are replayed against a walk that holds their marks or the root:
\* Since reports "no baseline" only for a mark that a force-push took away.
THEOREM WalksReachMarks ==
  ASSUME ~AllowMerge, MaxHistory <= MaxCommitsPerWalk
  PROVE  Spec => []WalkReachesMarks
<1>1. IInv => WalkReachesMarks
  BY DEF IInv, WalkInv, WalkServes, Rooted, TypeInv, PollHolds, WalkReachesMarks
<1> QED  BY <1>1, Safety, PTL

-----------------------------------------------------------------------------
(* The history of HEAD *)

LEMMA LeastOf ==
  ASSUME NEW T \in SUBSET Nat, T # {}
  PROVE  \E x \in T : \A y \in T : x <= y
<1>1. PICK x \in T : \A y \in T : ~(<<y, x>> \in OpToRel(<, Nat))
  BY NatLessThanWellFounded, WFMin
<1>2. \A y \in T : ~(y < x)
  BY <1>1 DEF OpToRel
<1> QED BY <1>2

\* The value before a commit of HEAD's history is that of the one before it.
LEMMA HeadSteps ==
  ASSUME TypeInv, RepoInv, NEW j \in 2..Len(head)
  PROVE  /\ log[head[j]].parent = head[j - 1] /\ head[j - 1] \in DOMAIN log
         /\ head[j - 1] # 0
         /\ \A d : Before(head[j], d) = Value(head[j - 1], d)
<1>1. head \in Seq(DOMAIN log) /\ Len(head) \in Nat
  BY LenProperties DEF TypeInv, TypeOK
<1>2. head[j - 1] \in DOMAIN log /\ head[j - 1] # 0
  BY <1>1, ElementOfSeq, LogDomain DEF TypeInv
<1>3. log[head[j]].parent = head[j - 1]
  BY DEF RepoInv, Linear
<1> QED BY <1>2, <1>3 DEF Before

\* Going back from the mark, the first commit that no mark passed over could
\* only be one before a baseline.
LEMMA CoveredBack ==
  ASSUME IInv, NEW d \in Fields, NEW i \in 1..Len(head), head[i] = hwm[d].sha,
         NEW j \in 1..i, \A m \in j..i : head[m] \notin baseline[d]
  PROVE  Recorded(head[j], d)
<1> DEFINE T == {m \in j..i : head[m] \in covered[d]}
<1>1. head \in Seq(DOMAIN log) /\ Len(head) \in Nat /\ i \in Nat /\ j \in Nat
  BY LenProperties DEF IInv, TypeInv, TypeOK
<1>2. i \in T
  <2>1. head[i] # 0
    BY <1>1, ElementOfSeq, LogDomain DEF IInv, TypeInv
  <2>2. HasMark(d)
    BY <2>1 DEF HasMark
  <2> QED BY <1>1, <2>2 DEF IInv, MarkInv, Coverage
<1>3. PICK m \in T : \A y \in T : m <= y
  <2>1. T \in SUBSET Nat /\ T # {}
    BY <1>1, <1>2
  <2> HIDE DEF T
  <2> QED BY <2>1, LeastOf
<1>4. head[m] \in covered[d] \ baseline[d]
  OBVIOUS
<1>5. Recorded(head[m], d) /\ log[head[m]].parent \in covered[d] \cup {0}
  BY <1>4 DEF IInv, MarkInv, Coverage
<1>6. m = j
  <2> SUFFICES ASSUME m # j PROVE FALSE
    OBVIOUS
  <2>1. m \in 2..Len(head) /\ m - 1 \in j..i /\ m - 1 < m
    BY <1>1
  <2>2. head[m - 1] \in covered[d]
    BY <1>5, <2>1, HeadSteps DEF IInv
  <2>3. m - 1 \in T
    BY <2>1, <2>2
  <2> QED BY <1>3, <2>1, <2>3
<1> QED BY <1>5, <1>6

\* A high-water mark never runs ahead of the feed in the history of HEAD: the
\* property of Coverage, read along the commits a reader of the feed sees
\* (pollFieldHistory writes the mark after the rows).
THEOREM NoGaps ==
  ASSUME ~AllowMerge, MaxHistory <= MaxCommitsPerWalk
  PROVE  Spec => []NoGapBehindMark
<1>1. IInv => NoGapBehindMark
  BY CoveredBack DEF NoGapBehindMark
<1> QED BY <1>1, Safety, PTL

\* The first commit after place i that gives key k another value than it had at
\* i has a row, if no field starts afresh in between.
LEMMA NextRow ==
  ASSUME IInv, NEW d \in Fields, NEW k \in Keys, NEW i \in 1..Len(head),
         head[Len(head)] = hwm[d].sha,
         Value(head[Len(head)], d)[k] # Value(head[i], d)[k],
         \A m \in i + 1 .. Len(head) : head[m] \notin baseline[d]
  PROVE  \E j \in i + 1 .. Len(head) : \E s \in changes :
           s.field = d /\ s.key = k /\ s.sha = head[j]
<1> DEFINE n == Len(head)
           T == {j \in i + 1 .. n : Value(head[j], d)[k] # Value(head[i], d)[k]}
<1>1. n \in Nat /\ i \in Nat /\ i <= n
  BY LenProperties DEF IInv, TypeInv, TypeOK
<1>2. n \in T
  BY <1>1
<1>3. PICK j \in T : \A y \in T : j <= y
  <2>1. T \in SUBSET Nat /\ T # {}
    BY <1>1, <1>2
  <2> HIDE DEF T
  <2> QED BY <2>1, LeastOf
<1>4. j \in 2..n /\ j \in i + 1 .. n /\ j - 1 \in i..n /\ j - 1 < j
  BY <1>1
<1>5. Value(head[j - 1], d)[k] = Value(head[i], d)[k]
  <2>1. CASE j - 1 = i
    BY <2>1
  <2>2. CASE j - 1 # i
    <3>1. j - 1 \in i + 1 .. n
      BY <1>1, <1>4, <2>2
    <3> QED BY <1>3, <1>4, <3>1
  <2> QED BY <2>1, <2>2
<1>6. Before(head[j], d)[k] # Value(head[j], d)[k]
  BY <1>4, <1>5, HeadSteps DEF IInv
<1>7. Recorded(head[j], d)
  <2>1. n \in 1..Len(head) /\ j \in 1..n /\ \A m \in j..n : m \in i + 1 .. Len(head)
    BY <1>1, <1>4
  <2> QED BY <2>1, CoveredBack
<1> QED BY <1>4, <1>6, <1>7 DEF Recorded

\* The feed never ends at a stale value behind a mark that has reached HEAD,
\* whatever replays, stops and force-pushes its rows came from.
THEOREM FeedEnds ==
  ASSUME ~AllowMerge, MaxHistory <= MaxCommitsPerWalk
  PROVE  Spec => []FeedEndsAtHead
<1>1. IInv => FeedEndsAtHead
  <2> SUFFICES ASSUME IInv, NEW d \in Fields, hwm[d].sha = Tip, Tip # 0,
                      NEW r \in changes, NEW i \in 1..Len(head),
                      r.field = d, r.sha = head[i],
                      r.new # Value(Tip, d)[r.key],
                      \A j \in i + 1 .. Len(head) : head[j] \notin baseline[d]
               PROVE  \E j \in i + 1 .. Len(head) : \E s \in changes :
                        s.field = d /\ s.key = r.key /\ s.sha = head[j]
    BY DEF FeedEndsAtHead
  <2>1. r.new = Value(head[i], d)[r.key] /\ r.key \in Keys
    BY DEF IInv, RowsInv, Truthful, TypeInv, TypeOK, Row
  <2>2. Tip = head[Len(head)]
    BY DEF Tip, Newest
  <2> QED BY <2>1, <2>2, NextRow
<1> QED BY <1>1, Safety, PTL

-----------------------------------------------------------------------------
(* PollCycle implements ChangeFeed *)

Cursor == [d \in Fields |-> hwm[d].sha]

LEMMA SameMeaning ==
  ASSUME NEW r \in Row
  PROVE  Truthful(r) => Feed!Truthful(r)
  BY DEF Row, Truthful, Feed!Truthful, Feed!Value, Feed!Before, Feed!Nothing,
         Value, Before, Nothing, BeginsWindow, OutOfWindow, BackfillBound

LEMMA SameRecorded ==
  ASSUME NEW c, NEW d
  PROVE  Recorded(c, d) <=> Feed!Recorded(c, d)
  BY DEF Recorded, Feed!Recorded, Feed!Value, Feed!Before, Feed!Nothing,
         Value, Before, Nothing

LEMMA InitRefines == Init => Feed!Init
<1> SUFFICES ASSUME Init PROVE Feed!Init
  OBVIOUS
<1>0. IInv /\ Cursor \in [Fields -> 0..Len(log)]
  BY InitSafe DEF IInv, TypeInv, TypeOK, Cursor
<1>1. \A d \in Fields : HasMark(d) => hwm[d].sha = 1
  BY DEF Init, HasMark, NoMark
<1>2. baseline = [d \in Fields |-> IF Cursor[d] = 0 THEN {} ELSE {Cursor[d]}]
  BY <1>1 DEF Init, HasMark, Cursor
<1>3. \A r \in changes : Feed!Truthful(r)
  BY <1>0, SameMeaning DEF IInv, RowsInv, TypeInv, TypeOK
<1> QED  BY <1>0, <1>2, <1>3 DEF Init, Feed!Init, Cursor

LEMMA HeadMovesRefines ==
  ASSUME IInv, ~AllowMerge, HeadMoves
  PROVE  [Feed!Next]_(Feed!vars)
<1>0. UNCHANGED <<changes, Cursor, covered, baseline>>
  BY DEF HeadMoves, storeVars, Cursor
<1>1. ASSUME NEW t \in Times, NEW x \in Contents, Push(t, x)
      PROVE  Feed!Publish
  <2>1. Tip \in 0..Len(log)
    <3>1. /\ head \in Seq(DOMAIN log) /\ Len(head) \in Nat
          /\ DOMAIN log = 1..Len(log) /\ Len(log) \in Nat
      BY LenProperties, LogDomain DEF IInv, TypeInv, TypeOK
    <3> QED  BY <3>1, ElementOfSeq, EmptySeq DEF Tip, Newest
  <2>2. log' # log
    <3>1. log \in Seq([time : Times, parent : Nat, content : Contents])
      BY DEF IInv, TypeInv, TypeOK
    <3>2. Len(Append(log, NewCommit(t, Tip, x))) = Len(log) + 1 /\ Len(log) \in Nat
      BY <3>1
    <3> QED  BY <1>1, <3>2 DEF Push
  <2> QED  BY <1>0, <1>1, <2>1, <2>2 DEF Push, NewCommit, Feed!Publish, Cursor
<1>2. (\E k \in 0..Len(head) - 1 : Rewind(k)) \/ (\E c \in DOMAIN log : Restore(c))
        => UNCHANGED Feed!vars
  BY <1>0 DEF Rewind, Restore, Feed!vars, Cursor
<1> QED  BY <1>1, <1>2 DEF HeadMoves, Merge, Feed!Next

LEMMA SaveChangeRefines ==
  ASSUME IInv, NEW r \in pend, SaveChange(r)
  PROVE  [Feed!Next]_(Feed!vars)
<1>0. UNCHANGED <<log, Cursor, covered, baseline>>
  BY DEF SaveChange, repoVars, Cursor
<1>1. CASE \E s \in changes : SameIdentity(r, s)
  BY <1>0, <1>1 DEF SaveChange, SavedWith, Feed!vars, Cursor
<1>2. CASE ~\E s \in changes : SameIdentity(r, s)
  <2>1. r \in Row /\ Truthful(r)
    BY DEF IInv, RowsInv, TypeInv, TypeOK
  <2>2. r \in Feed!Row /\ Feed!Truthful(r)
    BY <2>1, SameMeaning DEF Row, Feed!Row
  <2>3. r \notin changes /\ changes' = changes \cup {r} /\ \A s \in changes : ~Feed!SameIdentity(r, s)
    BY <1>2 DEF SaveChange, SavedWith, SameIdentity, Feed!SameIdentity
  <2> QED  BY <1>0, <2>2, <2>3 DEF Feed!Record, Feed!Next, Cursor
<1> QED  BY <1>1, <1>2

LEMMA SetHighWaterMarkRefines ==
  ASSUME IInv, SetHighWaterMark
  PROVE  [Feed!Next]_(Feed!vars)
<1> DEFINE B == IF HasMark(cur) THEN {} ELSE {IF from = 0 THEN run[1] ELSE from}
           S == Elements(run) \cup (IF HasMark(cur) THEN {} ELSE {from} \ {0})
<1>0. /\ pc = "replay" /\ ReplayDone /\ cur \in Fields /\ log' = log /\ changes' = changes
      /\ hwm \in [Fields -> [sha : 0..Len(log), time : Nat]]
      /\ covered \in [Fields -> SUBSET DOMAIN log]
      /\ baseline \in [Fields -> SUBSET DOMAIN log]
      /\ run \in Seq(DOMAIN log) /\ from \in 0..Len(log)
  BY DEF SetHighWaterMark, IInv, TypeInv, TypeOK, PollHolds, repoVars
<1>1. Len(run) \in Nat \ {0} /\ pos = Len(run)
  BY <1>0, EmptySeq DEF IInv, TypeInv, PollHolds, ReplayDone
<1>2. /\ run[pos] \in Elements(run) /\ run[1] \in Elements(run)
      /\ Elements(run) \subseteq DOMAIN log
  BY <1>0, <1>1, ElementsTyped DEF Elements
<1>3. S \in SUBSET DOMAIN log /\ run[pos] \in S /\ B \in SUBSET S
  BY <1>0, <1>2, LogDomain DEF IInv, TypeInv
<1>4. Cursor' = [Cursor EXCEPT ![cur] = run[pos]]
  BY <1>0 DEF SetHighWaterMark, MarkAt, Cursor
<1>5. covered' = [covered EXCEPT ![cur] = @ \cup S]
  <2>1. HasMark(cur) /\ from # 0 => from \in covered[cur]
    BY <1>0 DEF IInv, RunInv, MarkInv, Coverage
  <2>2. covered[cur] \cup Elements(run) \cup ({from} \ {0}) = covered[cur] \cup S
    BY <2>1
  <2> QED  BY <1>0, <2>2 DEF SetHighWaterMark
<1>6. baseline' = [baseline EXCEPT ![cur] = @ \cup B]
  <2>1. ~HasMark(cur) => baseline[cur] = {}
    BY <1>0 DEF IInv, MarkInv
  <2> QED  BY <1>0, <2>1 DEF SetHighWaterMark
<1>7. Cursor[cur] # 0 => B = {}
  BY <1>0 DEF HasMark, Cursor
<1>8. ASSUME NEW x \in S \ B
      PROVE  Feed!Recorded(x, cur) /\ log[x].parent \in covered[cur] \cup S \cup {0}
  <2>1. PICK i \in 1..Len(run) : x = run[i]
    BY <1>8 DEF Elements
  <2>2. ~(i = 1 /\ from = 0 /\ ~HasMark(cur))
    BY <1>8, <2>1
  <2>3. Recorded(run[i], cur) /\ log[run[i]].parent \in Elements(run) \cup {from, 0}
    BY <1>0, <2>2, PassedOver
  <2>4. HasMark(cur) /\ from # 0 => from \in covered[cur]
    BY <1>0 DEF IInv, RunInv, MarkInv, Coverage
  <2> QED  BY <2>1, <2>3, <2>4, SameRecorded
<1> HIDE DEF B, S
<1>9. ASSUME NEW d \in Fields, d = cur,
             <<Cursor', covered', baseline'>> # <<Cursor, covered, baseline>>
      PROVE  Feed!Advance(d)
  <2>1. /\ \E c \in S : \E C \in SUBSET S :
             /\ Cursor' = [Cursor EXCEPT ![d] = c]
             /\ covered' = [covered EXCEPT ![d] = @ \cup S]
             /\ baseline' = [baseline EXCEPT ![d] = @ \cup C]
             /\ Cursor[d] # 0 => C = {}
             /\ \A x \in S \ C :
                  Feed!Recorded(x, d) /\ log[x].parent \in covered[d] \cup S \cup {0}
        /\ UNCHANGED <<log, changes>>
        /\ <<Cursor', covered', baseline'>> # <<Cursor, covered, baseline>>
    BY <1>0, <1>3, <1>4, <1>5, <1>6, <1>7, <1>8, <1>9
  <2> QED  BY <1>3, <2>1 DEF Feed!Advance, Cursor
<1> QED  BY <1>0, <1>9 DEF Feed!Next, Feed!vars, Cursor

LEMMA NextRefines ==
  ASSUME IInv, ~AllowMerge, [Next]_vars
  PROVE  [Feed!Next]_(Feed!vars)
<1>1. CASE UNCHANGED <<repoVars, storeVars>>
  BY <1>1 DEF Feed!vars, repoVars, storeVars
<1>2. CASE PollStep
  BY <1>1, <1>2, SaveChangeRefines, SetHighWaterMarkRefines
     DEF PollStep, KeepWalk, Rewalk, FirstRun, Resume, EndPoll, ExtractNext
<1> QED
  BY <1>1, <1>2, HeadMovesRefines
     DEF Next, Tick, BeginPoll, RewalkFails, WriteFails, Crash, vars

\* Polling with shared walks, retries, stops and force-pushes shows a reader
\* nothing that the feed of ChangeFeed would not: rows are only added, each is
\* true and enters once, and a cursor moves only over recorded commits.
THEOREM PollImplementsFeed ==
  ASSUME ~AllowMerge, MaxHistory <= MaxCommitsPerWalk
  PROVE  Spec => ImplementsFeed
<1>1. Init => Feed!Init
  BY InitRefines
<1>2. IInv /\ [Next]_vars => [Feed!Next]_(Feed!vars)
  BY NextRefines
<1> QED  BY <1>1, <1>2, Safety, PTL DEF Spec, ImplementsFeed, Feed!Spec
=============================================================================
