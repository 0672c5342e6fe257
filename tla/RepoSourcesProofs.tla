-------------------------- MODULE RepoSourcesProofs --------------------------
(***************************************************************************)
(* What Get promises its callers, for any number of callers, repositories  *)
(* and directories, whichever repositories share a directory.              *)
(*                                                                         *)
(* The argument is the mutex: a Get that is past Lock is alone, so what it *)
(* knows of its directory stays true until it returns.  A directory whose  *)
(* clone is half made is therefore the lock holder's, or was cut by a      *)
(* stop; and a Source in the map, or a directory found to be a clone, is   *)
(* never taken away by the clone of another Get.                           *)
(***************************************************************************)
EXTENDS RepoSources, TLAPS

Busy == {"locked", "fetching", "forwarding", "opening", "cloning"}

\* The three properties, of one call.
Fresh(x) ==
  calls[x].pc = "returned" /\ calls[x].how \in {"fetched", "cloned"} =>
    \E n \in calls[x].asked..branch[calls[x].repo] : calls[x].head = <<calls[x].repo, n>>

Broken(x) ==
  \/ calls[x].pc = "failed" /\ calls[x].how = "broken"
  \/ calls[x].pc = "returned" /\ calls[x].head = None
  => Dir(x) \in cut

Late(x) ==
  calls[x].pc = "failed" /\ calls[x].how = "expired" =>
    now > calls[x].took + refreshBuffer

\* What holds of one call.
CallInv(x) ==
  /\ calls[x].pc \in Busy => mu = x
  /\ calls[x].pc \in Busy \cup {"waiting", "returned"} => calls[x].repo \in Repos
  /\ calls[x].pc \in Busy \cup {"waiting"} => calls[x].asked <= branch[calls[x].repo]
  /\ calls[x].pc \in {"fetching", "forwarding", "opening"} =>
       clones[Dir(x)].state # "none"
  /\ calls[x].pc = "cloning" =>
       /\ clones[Dir(x)].state = "partial"
       /\ \A r \in sources \ Local : clonePath[r] # Dir(x)
  /\ calls[x].pc = "forwarding" =>
       \E n \in calls[x].asked..branch[calls[x].repo] :
         clones[Dir(x)].tracking[calls[x].brought] = <<calls[x].repo, n>>
  /\ calls[x].pc = "forwarding" => calls[x].brought \in Names
  /\ calls[x].pc \in {"fetching", "cloning"} /\ TakesToken(calls[x].repo) =>
       calls[x].took + refreshBuffer < calls[x].expires
  /\ Fresh(x) /\ Broken(x) /\ Late(x)

\* What holds of the directories.
DirsInv ==
  /\ \A r \in sources \ Local : clones[clonePath[r]].state # "none"
  /\ \A d \in Dirs : clones[d].state = "whole" => clones[d].head # None
  /\ \A d \in Dirs : clones[d].state = "partial" =>
       d \in cut \/ \E c \in Callers : calls[c].pc = "cloning" /\ Dir(c) = d

Inv ==
  /\ TypeOK
  /\ \A x \in Callers : CallInv(x)
  /\ DirsInv

\* What a step of c's Get leaves alone.
Alone(c) ==
  /\ \A x \in Callers \ {c} : calls'[x] = calls[x]
  /\ branch' = branch /\ named' = named /\ cut' = cut /\ now' = now

LEMMA IdleTyped == Idle \in CallTypes
  BY DEF Idle, CallTypes

\* What a Get leaves when it is over has its type.
LEMMA DoneTyped ==
  ASSUME TypeOK, NEW c \in Callers, calls[c].repo \in Repos
  PROVE  /\ \A how \in {"fetched", "unmoved", "opened", "cloned"} :
              \A head \in (Repos \X Nat) \cup {None} : Returned(c, how, head) \in CallTypes
         /\ \A cause \in Causes : Failed(c, cause) \in CallTypes
<1>1. calls[c] \in CallTypes
  BY DEF TypeOK
<1>2. calls[c].asked \in Nat /\ calls[c].took \in Nat
  BY <1>1 DEF CallTypes
<1> QED
  BY <1>2 DEF Returned, Failed, CallTypes, Causes

LEMMA TipTyped == TypeOK => \A r \in Repos : Tip(r) \in Repos \X Nat
  BY DEF TypeOK, Tip

\* The step of c's Get ends it: only c's call changes.
LEMMA StepTyped ==
  ASSUME TypeOK, NEW c \in Callers, NEW call \in CallTypes,
         calls' = [calls EXCEPT ![c] = call]
  PROVE  calls' \in [Callers -> CallTypes]
  BY DEF TypeOK

Clonings == [state: {"none", "partial", "whole"}, on: Names \cup {None},
             tracking: [Names -> (Repos \X Nat) \cup {None}],
             head: (Repos \X Nat) \cup {None}]

LEMMA InitInv == Init => Inv
<1> SUFFICES ASSUME Init PROVE Inv
  OBVIOUS
<1>1. TypeOK
  BY SourcesAssumption, IdleTyped DEF Init, TypeOK, NoClone, NoRefs
<1>2. \A x \in Callers : calls[x].pc = "idle"
  BY DEF Init, Idle
<1>3. \A x \in Callers : CallInv(x)
  BY <1>2 DEF CallInv, Busy, Fresh, Broken, Late
<1>4. DirsInv
  BY DEF Init, DirsInv, NoClone
<1> QED
  BY <1>1, <1>3, <1>4 DEF Inv

\* The other calls are waiting or over, and nothing they rest on moves.
LEMMA OthersKept ==
  ASSUME Inv, NEW c \in Callers, mu = c, Alone(c), NEW x \in Callers \ {c}
  PROVE  CallInv(x)'
<1>1. CallInv(x) /\ calls[x].pc \notin Busy
  BY DEF Inv, CallInv
<1>2. calls'[x] = calls[x] /\ branch' = branch /\ cut' = cut /\ now' = now
  BY DEF Alone
<1> QED
  BY <1>1, <1>2 DEF CallInv, Busy, Fresh, Broken, Late, Dir

\* While c holds the mutex and is not cloning, every half-made clone was cut.
LEMMA HalfMadeWasCut ==
  ASSUME Inv, NEW c \in Callers, mu = c, calls[c].pc # "cloning"
  PROVE  \A d \in Dirs : clones[d].state = "partial" => d \in cut
  BY DEF Inv, CallInv, DirsInv, Busy

LEMMA DirTyped ==
  ASSUME NEW c \in Callers, calls[c].repo \in Repos
  PROVE  Dir(c) \in Dirs
  BY SourcesAssumption DEF Dir

LEMMA LocalStep ==
  ASSUME Inv, NEW c \in Callers, GetLocal(c)
  PROVE  Inv'
<1> DEFINE r == calls[c].repo
<1>1. /\ TypeOK /\ CallInv(c) /\ calls[c].pc = "locked" /\ mu = c
      /\ r \in Repos /\ r \in Local /\ calls[c] \in CallTypes
  BY DEF Inv, GetLocal, CallInv, Busy, TypeOK
<1>2. Tip(r) \in Repos \X Nat /\ Tip(r) # None
  BY <1>1, TipTyped, SourcesAssumption
<1>3. \/ calls' = [calls EXCEPT ![c] = Returned(c, "opened", Tip(r))]
      \/ calls' = [calls EXCEPT ![c] = Failed(c, "unavailable")]
  BY DEF GetLocal, Returns, Fails
<1>4. /\ mu' = None /\ sources' \subseteq sources \cup {r} /\ clones' = clones
      /\ branch' = branch /\ named' = named /\ cut' = cut /\ token' = token
      /\ now' = now /\ stops' = stops
  BY DEF GetLocal, Returns, Fails, Unlocks
<1>5. calls' \in [Callers -> CallTypes]
  BY <1>1, <1>2, <1>3, DoneTyped, StepTyped DEF Causes
<1>6. TypeOK'
  BY <1>1, <1>4, <1>5 DEF TypeOK
<1>7. Alone(c) /\ calls'[c] \in {Returned(c, "opened", Tip(r)), Failed(c, "unavailable")}
  BY <1>1, <1>3, <1>4 DEF Alone, TypeOK
<1>8. CallInv(c)'
  BY <1>1, <1>2, <1>7 DEF CallInv, Busy, Fresh, Broken, Late, Returned, Failed
<1>9. DirsInv'
  <2>1. \A d \in Dirs : clones[d].state = "partial" => d \in cut
    BY <1>1, HalfMadeWasCut
  <2> QED
    BY <1>1, <1>4, <2>1 DEF Inv, DirsInv
<1> QED
  BY <1>1, <1>6, <1>7, <1>8, <1>9, OthersKept DEF Inv

\* A Get that fails, and changes nothing else or wipes its own clone.
LEMMA FailsStep ==
  ASSUME Inv, NEW c \in Callers, calls[c].pc \in Busy, NEW cause \in Causes,
         Fails(c, cause), cause = "broken" => Dir(c) \in cut,
         cause = "expired" => now > calls[c].took + refreshBuffer,
         UNCHANGED <<branch, named, cut, sources, token, now, stops>>,
         IF calls[c].pc = "cloning" THEN clones' = [clones EXCEPT ![Dir(c)] = NoClone]
                                    ELSE clones' = clones
  PROVE  Inv'
<1>1. /\ TypeOK /\ CallInv(c) /\ mu = c /\ calls[c].repo \in Repos
      /\ calls[c] \in CallTypes
  BY DEF Inv, CallInv, TypeOK, Busy
<1>2. calls' = [calls EXCEPT ![c] = Failed(c, cause)] /\ mu' = None
  BY DEF Fails, Unlocks
<1>3. calls' \in [Callers -> CallTypes]
  BY <1>1, <1>2, DoneTyped, StepTyped
<1>4. Dir(c) \in Dirs
  BY <1>1, DirTyped
<1>5. clones' \in [Dirs -> Clonings]
  BY <1>1, <1>4 DEF TypeOK, Clonings, NoClone, NoRefs
<1>6. TypeOK'
  BY <1>1, <1>2, <1>3, <1>5 DEF TypeOK, Clonings
<1>7. Alone(c) /\ calls'[c] = Failed(c, cause)
  BY <1>1, <1>2 DEF Alone, TypeOK
<1>8. Dir(c)' = Dir(c) \/ cause # "broken"
  BY <1>7 DEF Dir, Failed
<1>9. CallInv(c)'
  BY <1>7, <1>8 DEF CallInv, Busy, Fresh, Broken, Late, Failed, Causes
<1>10. DirsInv'
  <2>1. CASE calls[c].pc = "cloning"
    <3>1. clones' = [clones EXCEPT ![Dir(c)] = NoClone]
      BY <2>1
    <3>2. \A r \in sources \ Local : clonePath[r] # Dir(c)
      BY <1>1, <2>1 DEF CallInv
    <3>3. \A r \in sources' \ Local : clones'[clonePath[r]].state # "none"
      BY <1>1, <3>1, <3>2, SourcesAssumption DEF Inv, DirsInv, TypeOK
    <3>4. \A d \in Dirs : d # Dir(c) /\ clones[d].state = "partial" => d \in cut
      BY <1>1 DEF Inv, CallInv, DirsInv, Busy
    <3>5. \A d \in Dirs : clones'[d] = IF d = Dir(c) THEN NoClone ELSE clones[d]
      BY <1>1, <3>1 DEF TypeOK
    <3> QED
      BY <3>3, <3>4, <3>5 DEF Inv, DirsInv, NoClone
  <2>2. CASE calls[c].pc # "cloning"
    <3>1. \A d \in Dirs : clones[d].state = "partial" => d \in cut
      BY <1>1, <2>2, HalfMadeWasCut
    <3> QED
      BY <2>2, <3>1 DEF Inv, DirsInv
  <2> QED
    BY <2>1, <2>2
<1> QED
  BY <1>1, <1>6, <1>7, <1>9, <1>10, OthersKept DEF Inv

LEMMA AuthorizeStep ==
  ASSUME Inv, NEW c \in Callers, Authorize(c)
  PROVE  Inv'
<1> DEFINE r == calls[c].repo
           next == IF r \in sources THEN "fetching"
                   ELSE IF isGitRepo(Dir(c)) THEN "opening" ELSE "cloning"
<1>1. /\ TypeOK /\ CallInv(c) /\ calls[c].pc = "locked" /\ mu = c
      /\ r \in Repos /\ r \notin Local /\ calls[c] \in CallTypes
      /\ r \in sources \/ ~(r \in sources)
  BY DEF Inv, Authorize, CallInv, Busy, TypeOK
<1>2. PICK e \in Nat :
        /\ calls' = [calls EXCEPT ![c] = Authorized(c, next, e)]
        /\ TakesToken(r) => now + refreshBuffer < e
        /\ token' \in Nat
  <2>1. now + Lifetime \in Nat /\ now + refreshBuffer < now + Lifetime /\ token \in Nat
    BY <1>1, SourcesAssumption DEF TypeOK
  <2>2. CASE ~TakesToken(r)
    BY <2>1, <2>2 DEF Authorize
  <2>3. CASE TakesToken(r) /\ ServedFromCache
    BY <2>1, <2>3 DEF Authorize, ServedFromCache
  <2>4. CASE TakesToken(r) /\ ~ServedFromCache
    BY <2>1, <2>4 DEF Authorize
  <2> QED
    BY <2>2, <2>3, <2>4
<1>3. /\ clones' = IF next = "cloning" THEN [clones EXCEPT ![Dir(c)] = HalfClone] ELSE clones
      /\ UNCHANGED <<branch, named, cut, sources, mu, now, stops>>
  BY DEF Authorize
<1>4. Dir(c) \in Dirs
  BY <1>1, DirTyped
<1>5. Authorized(c, next, e) \in CallTypes
  BY <1>1 DEF Authorized, CallTypes, TypeOK
<1>6. calls' \in [Callers -> CallTypes]
  BY <1>1, <1>2, <1>5, StepTyped
<1>7. clones' \in [Dirs -> Clonings]
  BY <1>1, <1>3, <1>4 DEF TypeOK, Clonings, HalfClone, NoRefs
<1>8. TypeOK'
  BY <1>1, <1>2, <1>3, <1>6, <1>7 DEF TypeOK, Clonings
<1>9. Alone(c) /\ calls'[c] = Authorized(c, next, e) /\ Dir(c)' = Dir(c)
  BY <1>1, <1>2, <1>3 DEF Alone, TypeOK, Authorized, Dir
<1>10. next = "fetching" => clones[Dir(c)].state # "none"
  BY <1>1 DEF Inv, DirsInv, Dir
<1>11. next = "opening" => clones[Dir(c)].state # "none"
  BY DEF isGitRepo
<1>12. next = "cloning" => r \notin sources /\ clones[Dir(c)].state = "none"
  BY DEF isGitRepo
<1>13. next = "cloning" => \A s \in sources \ Local : clonePath[s] # Dir(c)
  BY <1>12 DEF Inv, DirsInv
<1>14. clones'[Dir(c)] = IF next = "cloning" THEN HalfClone ELSE clones[Dir(c)]
  BY <1>1, <1>3, <1>4 DEF TypeOK
<1>15. CallInv(c)'
  <2>1. calls'[c].pc = next /\ calls'[c].repo = r /\ calls'[c].asked = calls[c].asked
        /\ calls'[c].took = (IF e = 0 THEN 0 ELSE now) /\ calls'[c].expires = e
    BY <1>9 DEF Authorized
  <2>5. TakesToken(r) => calls'[c].took = now
    BY <1>1, <1>2, <2>1, SourcesAssumption DEF TypeOK
  <2>2. next \in {"fetching", "opening", "cloning"}
    OBVIOUS
  <2>3. r \in Repos /\ calls[c].asked <= branch[r]
    BY <1>1 DEF CallInv, Busy
  <2>4. (TakesToken(r))' = TakesToken(r)
    BY <1>9, <2>1 DEF TakesToken
  <2> HIDE DEF next, r
  <2> QED
    BY <1>1, <1>2, <1>3, <1>9, <1>10, <1>11, <1>13, <1>14, <2>1, <2>2, <2>3, <2>5
    DEF CallInv, Busy, Fresh, Broken, Late, HalfClone, TakesToken
<1>16. DirsInv'
  <2>1. \A d \in Dirs : clones[d].state = "partial" => d \in cut
    BY <1>1, HalfMadeWasCut
  <2>2. \A d \in Dirs : clones'[d] =
          IF next = "cloning" /\ d = Dir(c) THEN HalfClone ELSE clones[d]
    BY <1>1, <1>3 DEF TypeOK
  <2>3. calls'[c].pc = next
    BY <1>9 DEF Authorized
  <2>4. \A s \in sources' \ Local : clones'[clonePath[s]].state # "none"
    <3> SUFFICES ASSUME NEW s \in sources \ Local
                 PROVE  clones'[clonePath[s]].state # "none"
      BY <1>3
    <3>1. clonePath[s] \in Dirs /\ clones[clonePath[s]].state # "none"
      BY <1>1, SourcesAssumption DEF Inv, DirsInv, TypeOK
    <3> HIDE DEF next
    <3> QED
      BY <2>2, <3>1 DEF HalfClone
  <2> HIDE DEF next
  <2> QED
    BY <1>3, <1>9, <2>1, <2>2, <2>3, <2>4 DEF Inv, DirsInv, HalfClone
<1> QED
  BY <1>1, <1>3, <1>8, <1>9, <1>15, <1>16, OthersKept DEF Inv

LEMMA FetchStep ==
  ASSUME Inv, NEW c \in Callers, Fetch(c)
  PROVE  Inv'
<1> DEFINE r == calls[c].repo
           d == Dir(c)
           b == named[r]
<1>1. /\ TypeOK /\ CallInv(c) /\ calls[c].pc = "fetching" /\ mu = c
      /\ r \in Repos /\ calls[c].asked <= branch[r] /\ clones[d].state # "none"
      /\ calls[c] \in CallTypes
  BY DEF Inv, Fetch, CallInv, Busy, TypeOK
<1>2. d \in Dirs /\ Tip(r) \in Repos \X Nat /\ Tip(r) # None
  BY <1>1, DirTyped, TipTyped, SourcesAssumption
<1>3. /\ clones' = [clones EXCEPT ![d].tracking[b] = Tip(r)]
      /\ calls' = [calls EXCEPT ![c] = Fetched(c)]
      /\ UNCHANGED <<branch, named, cut, sources, mu, token, now, stops>>
  BY DEF Fetch
<1>4. clones[d] \in Clonings /\ Fetched(c) \in CallTypes /\ b \in Names
  BY <1>1, <1>2 DEF TypeOK, Clonings, Fetched, CallTypes
<1>13. [clones[d] EXCEPT !.tracking[b] = Tip(r)] \in Clonings
  BY <1>2, <1>4 DEF Clonings
<1>5. clones' \in [Dirs -> Clonings]
  BY <1>1, <1>2, <1>3, <1>13 DEF TypeOK, Clonings
<1>6. calls' \in [Callers -> CallTypes]
  BY <1>1, <1>3, <1>4, StepTyped
<1>7. TypeOK'
  BY <1>1, <1>3, <1>5, <1>6 DEF TypeOK, Clonings
<1>8. Alone(c) /\ calls'[c] = Fetched(c) /\ Dir(c)' = d
  BY <1>1, <1>3 DEF Alone, TypeOK, Fetched, Dir
<1>9. /\ clones'[d].tracking[b] = Tip(r) /\ clones'[d].state = clones[d].state
      /\ clones'[d].head = clones[d].head
  BY <1>1, <1>2, <1>3, <1>4 DEF TypeOK, Clonings
<1>10. branch[r] \in calls[c].asked..branch[r] /\ Tip(r) = <<r, branch[r]>>
  BY <1>1 DEF TypeOK, CallTypes, Tip
<1>11. CallInv(c)'
  <2>1. /\ calls'[c].pc = "forwarding" /\ calls'[c].repo = r
        /\ calls'[c].asked = calls[c].asked /\ calls'[c].brought = b
    BY <1>8 DEF Fetched
  <2>2. (clones[Dir(c)].tracking[calls[c].brought])' = Tip(r)
    BY <1>8, <1>9, <2>1
  <2>3. (clones[Dir(c)].state)' # "none"
    BY <1>1, <1>8, <1>9
  <2> HIDE DEF r, d, b
  <2> QED
    BY <1>1, <1>3, <1>4, <1>10, <2>1, <2>2, <2>3 DEF CallInv, Busy, Fresh, Broken, Late
<1>12. DirsInv'
  <2>1. \A x \in Dirs : clones[x].state = "partial" => x \in cut
    BY <1>1, HalfMadeWasCut
  <2>2. \A x \in Dirs \ {d} : clones'[x] = clones[x]
    BY <1>1, <1>3 DEF TypeOK
  <2>3. \A x \in Dirs : clones'[x].state = clones[x].state /\ clones'[x].head = clones[x].head
    BY <1>9, <2>2
  <2> QED
    BY <1>3, <2>1, <2>3, SourcesAssumption DEF Inv, DirsInv
<1> QED
  BY <1>1, <1>3, <1>7, <1>8, <1>11, <1>12, OthersKept DEF Inv

LEMMA ForwardStep ==
  ASSUME Inv, NEW c \in Callers, Forward(c)
  PROVE  Inv'
<1> DEFINE d == Dir(c)
           t == Forwarded(clones[d])
<1>1. /\ TypeOK /\ CallInv(c) /\ calls[c].pc = "forwarding" /\ mu = c
      /\ calls[c].repo \in Repos /\ clones[d].state # "none" /\ calls[c] \in CallTypes
  BY DEF Inv, Forward, CallInv, Busy, TypeOK
<1>2. d \in Dirs /\ clones[d] \in Clonings
  BY <1>1, DirTyped DEF TypeOK, Clonings
<1>3. \A x \in Dirs : clones[x].state = "partial" => x \in cut
  BY <1>1, HalfMadeWasCut
<1>4. CASE clones[d].state # "whole"
  <2>1. d \in cut
    BY <1>1, <1>2, <1>3, <1>4 DEF Clonings
  <2> QED
    BY <1>1, <1>4, <2>1, FailsStep DEF Forward, Busy, Causes
<1>5. CASE clones[d].state = "whole"
  <2> DEFINE how == IF clones[d].on = calls[c].brought THEN "fetched" ELSE "unmoved"
  <2>1. /\ clones' = [clones EXCEPT ![d].head = t]
        /\ calls' = [calls EXCEPT ![c] = Returned(c, how, t)]
        /\ mu' = None /\ UNCHANGED <<branch, named, cut, sources, token, now, stops>>
    BY <1>5 DEF Forward, Returns, Unlocks
  <2>2. t # None /\ t \in (Repos \X Nat) \cup {None}
    BY <1>2, <1>5 DEF Inv, DirsInv, Clonings, Forwarded
  <2>3. clones' \in [Dirs -> Clonings]
    BY <1>1, <1>2, <2>1, <2>2 DEF TypeOK, Clonings
  <2>4. calls' \in [Callers -> CallTypes]
    <3>1. Returned(c, how, t) \in CallTypes
      BY <1>1, <2>2, DoneTyped
    <3> QED
      BY <1>1, <2>1, <3>1, StepTyped
  <2>5. TypeOK'
    BY <1>1, <2>1, <2>3, <2>4 DEF TypeOK, Clonings
  <2>6. Alone(c) /\ calls'[c] = Returned(c, how, t)
    BY <1>1, <2>1 DEF Alone, TypeOK
  <2>7. how = "fetched" =>
          \E n \in calls[c].asked..branch[calls[c].repo] : t = <<calls[c].repo, n>>
    <3>1. PICK n \in calls[c].asked..branch[calls[c].repo] :
            clones[d].tracking[calls[c].brought] = <<calls[c].repo, n>>
      BY <1>1 DEF CallInv
    <3>2. calls[c].brought # None /\ <<calls[c].repo, n>> # None
      BY <1>1, SourcesAssumption DEF CallInv, TypeOK, CallTypes
    <3>3. clones[d].on = calls[c].brought => t = <<calls[c].repo, n>>
      BY <3>1, <3>2 DEF Forwarded
    <3> QED
      BY <3>3
  <2>8. CallInv(c)'
    <3>1. /\ calls'[c].pc = "returned" /\ calls'[c].repo = calls[c].repo
          /\ calls'[c].how = how /\ calls'[c].head = t
          /\ how = "fetched" => calls'[c].asked = calls[c].asked
      BY <2>6 DEF Returned
    <3>2. how \in {"fetched", "unmoved"}
      OBVIOUS
    <3> HIDE DEF how, t
    <3> QED
      BY <1>1, <2>1, <2>2, <2>7, <3>1, <3>2 DEF CallInv, Busy, Fresh, Broken, Late
  <2>9. \A x \in Dirs \ {d} : clones'[x] = clones[x]
    BY <1>1, <2>1 DEF TypeOK
  <2>10. clones'[d].state = "whole" /\ clones'[d].head # None
    BY <1>1, <1>2, <1>5, <2>1, <2>2 DEF TypeOK, Clonings
  <2>11. DirsInv'
    <3>1. \A x \in Dirs : clones'[x].state = clones[x].state
      BY <1>5, <2>9, <2>10
    <3>2. \A x \in Dirs : clones[x].state = "whole" => clones'[x].head # None
      BY <2>9, <2>10 DEF Inv, DirsInv
    <3> QED
      BY <1>3, <2>1, <3>1, <3>2, SourcesAssumption DEF Inv, DirsInv
  <2> QED
    BY <1>1, <2>1, <2>5, <2>6, <2>8, <2>11, OthersKept DEF Inv
<1> QED
  BY <1>4, <1>5

LEMMA OpenStep ==
  ASSUME Inv, NEW c \in Callers, Open(c)
  PROVE  Inv'
<1> DEFINE d == Dir(c)
           h == clones[d].head
<1>1. /\ TypeOK /\ CallInv(c) /\ calls[c].pc = "opening" /\ mu = c
      /\ calls[c].repo \in Repos /\ clones[d].state # "none" /\ calls[c] \in CallTypes
  BY DEF Inv, Open, CallInv, Busy, TypeOK
<1>2. d \in Dirs /\ clones[d] \in Clonings
  BY <1>1, DirTyped DEF TypeOK, Clonings
<1>3. \A x \in Dirs : clones[x].state = "partial" => x \in cut
  BY <1>1, HalfMadeWasCut
<1>4. CASE clones[d].state = "partial" /\ Fails(c, "broken") /\ UNCHANGED sources
  <2>1. d \in cut
    BY <1>2, <1>3, <1>4
  <2> QED
    BY <1>1, <1>4, <2>1, FailsStep DEF Open, Busy, Causes
<1>5. CASE Returns(c, "opened", h) /\ sources' = sources \cup {calls[c].repo}
  <2>1. /\ calls' = [calls EXCEPT ![c] = Returned(c, "opened", h)] /\ mu' = None
        /\ UNCHANGED <<branch, named, clones, cut, token, now, stops>>
    BY <1>5 DEF Open, Returns, Unlocks
  <2>2. h \in (Repos \X Nat) \cup {None} /\ (h = None => d \in cut)
    BY <1>1, <1>2, <1>3 DEF Inv, DirsInv, Clonings
  <2>3. calls' \in [Callers -> CallTypes]
    BY <1>1, <2>1, <2>2, DoneTyped, StepTyped
  <2>4. TypeOK'
    BY <1>1, <1>5, <2>1, <2>3 DEF TypeOK
  <2>5. Alone(c) /\ calls'[c] = Returned(c, "opened", h) /\ Dir(c)' = d
    BY <1>1, <1>5, <2>1 DEF Alone, TypeOK, Returned, Dir
  <2>6. CallInv(c)'
    BY <1>1, <2>1, <2>2, <2>5 DEF CallInv, Busy, Fresh, Broken, Late, Returned
  <2>7. DirsInv'
    BY <1>1, <1>3, <1>5, <2>1 DEF Inv, DirsInv, Dir
  <2> QED
    BY <1>1, <2>1, <2>4, <2>5, <2>6, <2>7, OthersKept DEF Inv
<1> QED
  BY <1>4, <1>5 DEF Open

LEMMA CloneStep ==
  ASSUME Inv, NEW c \in Callers, Clone(c)
  PROVE  Inv'
<1> DEFINE r == calls[c].repo
           d == Dir(c)
<1>1. /\ TypeOK /\ CallInv(c) /\ calls[c].pc = "cloning" /\ mu = c
      /\ r \in Repos /\ calls[c].asked <= branch[r] /\ calls[c] \in CallTypes
  BY DEF Inv, Clone, CallInv, Busy, TypeOK
<1>2. d \in Dirs /\ Tip(r) \in Repos \X Nat /\ Tip(r) # None
  BY <1>1, DirTyped, TipTyped, SourcesAssumption
<1>12. PICK on \in Names \cup {None} : clones' = [clones EXCEPT ![d] = ClonedFrom(r, on)]
  <2>1. named[r] \in Names
    BY <1>1 DEF TypeOK
  <2>2. PICK on \in {named[r]} \cup {None : s \in Detaches \cap {r}} :
          clones' = [clones EXCEPT ![d] = ClonedFrom(r, on)]
    BY DEF Clone
  <2> QED
    BY <2>1, <2>2
<1>3. /\ clones' = [clones EXCEPT ![d] = ClonedFrom(r, on)]
      /\ calls' = [calls EXCEPT ![c] = Returned(c, "cloned", Tip(r))] /\ mu' = None
      /\ sources' = sources \cup {r}
      /\ UNCHANGED <<branch, named, cut, token, now, stops>>
  BY <1>12 DEF Clone, Returns, Unlocks
<1>4. ClonedFrom(r, on) \in Clonings
  BY <1>1, <1>2 DEF ClonedFrom, Clonings, NoRefs, TypeOK
<1>5. clones' \in [Dirs -> Clonings]
  BY <1>1, <1>3, <1>4 DEF TypeOK, Clonings
<1>6. calls' \in [Callers -> CallTypes]
  BY <1>1, <1>2, <1>3, DoneTyped, StepTyped
<1>7. TypeOK'
  BY <1>1, <1>3, <1>5, <1>6 DEF TypeOK, Clonings
<1>8. Alone(c) /\ calls'[c] = Returned(c, "cloned", Tip(r))
  BY <1>1, <1>3 DEF Alone, TypeOK
<1>9. branch[r] \in calls[c].asked..branch[r] /\ Tip(r) = <<r, branch[r]>>
  BY <1>1 DEF TypeOK, CallTypes, Tip
<1>10. CallInv(c)'
  BY <1>2, <1>3, <1>8, <1>9 DEF CallInv, Busy, Fresh, Broken, Late, Returned
<1>11. DirsInv'
  <2>1. \A x \in Dirs : clones'[x] = IF x = d THEN ClonedFrom(r, on) ELSE clones[x]
    BY <1>1, <1>3 DEF TypeOK
  <2>2. \A x \in Dirs : x # d /\ clones[x].state = "partial" => x \in cut
    BY <1>1 DEF Inv, CallInv, DirsInv, Busy
  <2>3. ClonedFrom(r, on).state = "whole" /\ ClonedFrom(r, on).head # None
    BY <1>2 DEF ClonedFrom
  <2>4. \A s \in sources' \ Local : clones'[clonePath[s]].state # "none"
    <3> SUFFICES ASSUME NEW s \in sources' \ Local
                 PROVE  clones'[clonePath[s]].state # "none"
      OBVIOUS
    <3>1. s \in Repos /\ clonePath[s] \in Dirs
      BY <1>1, <1>3, SourcesAssumption DEF TypeOK
    <3>2. s \in sources \/ clonePath[s] = d
      BY <1>3 DEF Dir
    <3> HIDE DEF d
    <3> QED
      BY <2>1, <2>3, <3>1, <3>2 DEF Inv, DirsInv
  <2> QED
    BY <1>3, <2>1, <2>2, <2>3, <2>4 DEF Inv, DirsInv
<1> QED
  BY <1>1, <1>3, <1>7, <1>8, <1>10, <1>11, OthersKept DEF Inv

LEMMA FailureSteps ==
  ASSUME Inv, NEW c \in Callers, AuthorizeFails(c) \/ FetchFails(c) \/ CloneFails(c)
  PROVE  Inv'
<1>1. /\ TypeOK /\ CallInv(c) /\ calls[c] \in CallTypes
      /\ calls[c].pc \in {"locked", "fetching", "cloning"}
  BY DEF Inv, AuthorizeFails, FetchFails, CloneFails, TypeOK
<1>2. mu = c /\ calls[c].repo \in Repos
  BY <1>1 DEF CallInv, Busy
<1>3. ASSUME calls[c].pc \in {"fetching", "cloning"}, ~Accepted(c)
      PROVE  now > calls[c].took + refreshBuffer
  <2>1. calls[c].took + refreshBuffer < calls[c].expires /\ ~(now < calls[c].expires)
    BY <1>1, <1>3 DEF Accepted, CallInv
  <2>2. /\ calls[c].took \in Nat /\ calls[c].expires \in Nat
        /\ now \in Nat /\ refreshBuffer \in Nat
    BY <1>1, SourcesAssumption DEF TypeOK, CallTypes
  <2> QED
    BY <2>1, <2>2
<1>4. CASE AuthorizeFails(c)
  BY <1>4, FailsStep DEF AuthorizeFails, Busy, Causes
<1>5. CASE FetchFails(c)
  <2>1. CASE Fails(c, "unavailable")
    BY <1>5, <2>1, FailsStep DEF FetchFails, Busy, Causes
  <2>2. CASE ~Accepted(c) /\ Fails(c, "expired")
    BY <1>3, <1>5, <2>2, FailsStep DEF FetchFails, Busy, Causes
  <2>3. CASE clones[Dir(c)].state = "partial" /\ Fails(c, "broken")
    <3>1. Dir(c) \in cut
      BY <1>2, <1>5, <2>3, HalfMadeWasCut, DirTyped DEF FetchFails
    <3> QED
      BY <1>5, <2>3, <3>1, FailsStep DEF FetchFails, Busy, Causes
  <2> QED
    BY <1>5, <2>1, <2>2, <2>3 DEF FetchFails, RequestFails
<1>6. CASE CloneFails(c)
  <2>1. clones' = [clones EXCEPT ![Dir(c)] = NoClone]
    BY <1>6 DEF CloneFails, CleanedUp
  <2>2. CASE Fails(c, "unavailable")
    BY <1>6, <2>1, <2>2, FailsStep DEF CloneFails, Busy, Causes
  <2>3. CASE ~Accepted(c) /\ Fails(c, "expired")
    BY <1>3, <1>6, <2>1, <2>3, FailsStep DEF CloneFails, Busy, Causes
  <2> QED
    BY <1>6, <2>2, <2>3 DEF CloneFails, RequestFails
<1> QED
  BY <1>4, <1>5, <1>6

LEMMA GetStep ==
  ASSUME Inv, NEW c \in Callers, NEW r \in Repos, Get(c, r)
  PROVE  Inv'
<1>1. /\ TypeOK /\ calls[c].pc \notin Busy
      /\ calls' = [calls EXCEPT ![c] = Waiting(r)]
      /\ UNCHANGED <<branch, named, clones, cut, sources, mu, token, now, stops>>
  BY DEF Inv, Get, Busy
<1>2. Waiting(r) \in CallTypes /\ branch[r] \in Nat
  BY <1>1 DEF Waiting, CallTypes, TypeOK
<1>3. calls' \in [Callers -> CallTypes]
  BY <1>1, <1>2, StepTyped
<1>4. TypeOK'
  BY <1>1, <1>3 DEF TypeOK
<1>5. calls'[c] = Waiting(r) /\ \A x \in Callers \ {c} : calls'[x] = calls[x]
  BY <1>1 DEF TypeOK
<1>6. CallInv(c)'
  BY <1>1, <1>2, <1>5 DEF CallInv, Busy, Fresh, Broken, Late, Waiting
<1>7. ASSUME NEW x \in Callers \ {c} PROVE CallInv(x)'
  <2>1. CallInv(x) /\ calls'[x] = calls[x]
    BY <1>5 DEF Inv
  <2>2. Fresh(x)' /\ Broken(x)' /\ Late(x)'
    BY <1>1, <2>1 DEF CallInv, Fresh, Broken, Late, Dir
  <2> QED
    BY <1>1, <2>1, <2>2 DEF CallInv, Dir, TakesToken
<1>8. DirsInv'
  BY <1>1, <1>5 DEF Inv, DirsInv, Busy, Dir
<1> QED
  BY <1>4, <1>6, <1>7, <1>8 DEF Inv

LEMMA LockStep ==
  ASSUME Inv, NEW c \in Callers, Lock(c)
  PROVE  Inv'
<1>1. /\ TypeOK /\ calls[c].pc = "waiting" /\ mu = None /\ mu' = c
      /\ calls' = [calls EXCEPT ![c].pc = "locked"]
      /\ UNCHANGED <<branch, named, clones, cut, sources, token, now, stops>>
      /\ calls[c] \in CallTypes
  BY DEF Inv, Lock, LockFree, TypeOK
<1>2. /\ calls' \in [Callers -> CallTypes]
      /\ \A x \in Callers \ {c} : calls'[x] = calls[x]
  BY <1>1 DEF TypeOK, CallTypes
<1>3. /\ calls'[c].pc = "locked" /\ calls'[c].repo = calls[c].repo
      /\ calls'[c].asked = calls[c].asked
  BY <1>1 DEF TypeOK, CallTypes
<1>4. TypeOK'
  BY <1>1, <1>2 DEF TypeOK
<1>5. \A x \in Callers : calls[x].pc \notin Busy
  BY <1>1, SourcesAssumption DEF Inv, CallInv
<1>6. CallInv(c)'
  BY <1>1, <1>3 DEF Inv, CallInv, Busy, Fresh, Broken, Late
<1>7. ASSUME NEW x \in Callers \ {c} PROVE CallInv(x)'
  <2>1. CallInv(x) /\ calls'[x] = calls[x] /\ calls[x].pc \notin Busy
    BY <1>2, <1>5 DEF Inv
  <2>2. Fresh(x)' /\ Broken(x)' /\ Late(x)'
    BY <1>1, <2>1 DEF CallInv, Fresh, Broken, Late, Dir
  <2> QED
    BY <1>1, <2>1, <2>2 DEF CallInv, Busy
<1>8. DirsInv'
  BY <1>1, <1>2, <1>5 DEF Inv, DirsInv, Busy, Dir
<1> QED
  BY <1>4, <1>6, <1>7, <1>8 DEF Inv

\* A branch that moves on, under whatever name.
LEMMA BranchStep ==
  ASSUME Inv, NEW r \in Repos, branch[r] < MaxPushes[r],
         branch' = [branch EXCEPT ![r] = @ + 1], named' \in [Repos -> Names],
         UNCHANGED <<clones, cut, sources, mu, token, calls, now, stops>>
  PROVE  Inv'
<1>1. /\ TypeOK /\ branch' = [branch EXCEPT ![r] = @ + 1] /\ branch[r] < MaxPushes[r]
      /\ UNCHANGED <<clones, cut, sources, mu, token, calls, now, stops>>
  BY DEF Inv
<1>2. \A s \in Repos : branch[s] \in Nat /\ branch'[s] \in Nat /\ branch[s] <= branch'[s]
  BY <1>1 DEF TypeOK
<1>3. TypeOK'
  <2>1. branch' \in [Repos -> Nat]
    BY <1>1, <1>2 DEF TypeOK
  <2>2. branch'[r] = branch[r] + 1 /\ \A s \in Repos \ {r} : branch'[s] = branch[s]
    BY <1>1 DEF TypeOK
  <2>3. branch'[r] <= MaxPushes[r]
    BY <1>1, <1>2, <2>2, SourcesAssumption
  <2> QED
    BY <1>1, <2>1, <2>2, <2>3 DEF TypeOK
<1>4. ASSUME NEW x \in Callers PROVE CallInv(x)'
  <2>1. CallInv(x) /\ calls[x] \in CallTypes
    BY <1>1 DEF Inv, TypeOK
  <2>2. calls[x].asked \in Nat
    BY <2>1 DEF CallTypes
  <2>3. ASSUME calls[x].repo \in Repos, NEW n \in calls[x].asked..branch[calls[x].repo]
        PROVE  n \in calls[x].asked..branch'[calls[x].repo]
    BY <1>2, <2>2, <2>3
  <2>4. Fresh(x)'
    <3> SUFFICES ASSUME calls[x].pc = "returned", calls[x].how \in {"fetched", "cloned"}
                 PROVE  \E n \in calls[x].asked..branch'[calls[x].repo] :
                          calls[x].head = <<calls[x].repo, n>>
      BY <1>1 DEF Fresh
    <3>1. PICK n \in calls[x].asked..branch[calls[x].repo] :
            calls[x].head = <<calls[x].repo, n>>
      BY <2>1 DEF CallInv, Fresh
    <3>2. calls[x].repo \in Repos
      BY <2>1 DEF CallInv
    <3> QED
      BY <2>3, <3>1, <3>2
  <2>5. Broken(x)' /\ Late(x)'
    BY <1>1, <2>1 DEF CallInv, Broken, Late, Dir
  <2>6. calls[x].pc \in Busy \cup {"waiting"} =>
          calls[x].repo \in Repos /\ calls[x].asked <= branch'[calls[x].repo]
    BY <1>2, <2>1, <2>2 DEF CallInv
  <2>7. calls[x].pc = "forwarding" =>
          \E n \in calls[x].asked..branch'[calls[x].repo] :
            clones[Dir(x)].tracking[calls[x].brought] = <<calls[x].repo, n>>
    BY <2>1, <2>3 DEF CallInv, Busy
  <2> QED
    BY <1>1, <2>1, <2>4, <2>5, <2>6, <2>7 DEF CallInv, Dir, TakesToken
<1>5. DirsInv'
  BY <1>1 DEF Inv, DirsInv, Dir
<1> QED
  BY <1>3, <1>4, <1>5 DEF Inv

LEMMA PushStep ==
  ASSUME Inv, NEW r \in Repos, Push(r)
  PROVE  Inv'
  BY BranchStep DEF Push, Inv, TypeOK

LEMMA RenameStep ==
  ASSUME Inv, NEW r \in Repos, NEW n \in Names, Rename(r, n)
  PROVE  Inv'
<1>1. named' \in [Repos -> Names]
  BY DEF Rename, Inv, TypeOK
<1> QED
  BY <1>1, BranchStep DEF Rename

LEMMA TickStep == Inv /\ Tick => Inv'
<1> SUFFICES ASSUME Inv, Tick PROVE Inv'
  OBVIOUS
<1>1. /\ TypeOK /\ now' = now + 1
      /\ UNCHANGED <<branch, named, clones, cut, sources, mu, token, calls, stops>>
  BY DEF Inv, Tick
<1>2. TypeOK'
  BY <1>1 DEF TypeOK
<1>3. ASSUME NEW x \in Callers PROVE CallInv(x)'
  <2>1. CallInv(x) /\ calls[x] \in CallTypes /\ now \in Nat
    BY <1>1 DEF Inv, TypeOK
  <2>2. Late(x)'
    BY <1>1, <2>1, SourcesAssumption DEF CallInv, Late, CallTypes
  <2> QED
    BY <1>1, <2>1, <2>2 DEF CallInv, Fresh, Broken, Dir, TakesToken
<1>4. DirsInv'
  BY <1>1 DEF Inv, DirsInv, Dir
<1> QED
  BY <1>2, <1>3, <1>4 DEF Inv

LEMMA StopStep == Inv /\ Stop => Inv'
<1> SUFFICES ASSUME Inv, Stop PROVE Inv'
  OBVIOUS
<1>1. /\ TypeOK /\ stops' = stops + 1 /\ sources' = {} /\ mu' = None /\ token' = 0
      /\ calls' = [c \in Callers |-> Idle] /\ UNCHANGED <<branch, named, now>>
  BY DEF Inv, Stop
<1>2. \/ /\ clones' = clones
         /\ cut' = cut \cup {Dir(c) : c \in {x \in Callers : calls[x].pc = "cloning"}}
      \/ clones' = [d \in Dirs |-> NoClone] /\ cut' = {}
  BY DEF Stop
<1>3. clones' \in [Dirs -> Clonings]
  BY <1>1, <1>2 DEF TypeOK, Clonings, NoClone, NoRefs
<1>4. cut' \subseteq Dirs
  BY <1>1, <1>2, DirTyped DEF Inv, TypeOK, CallInv, Busy
<1>5. TypeOK'
  BY <1>1, <1>3, <1>4, IdleTyped DEF TypeOK, Clonings
<1>6. \A x \in Callers : calls'[x].pc = "idle"
  BY <1>1 DEF Idle
<1>7. \A x \in Callers : CallInv(x)'
  BY <1>6 DEF CallInv, Busy, Fresh, Broken, Late
<1>8. DirsInv'
  <2>1. CASE clones' = [d \in Dirs |-> NoClone]
    BY <1>1, <2>1 DEF DirsInv, NoClone
  <2>2. CASE /\ clones' = clones
             /\ cut' = cut \cup {Dir(c) : c \in {x \in Callers : calls[x].pc = "cloning"}}
    BY <1>1, <2>2 DEF Inv, DirsInv
  <2> QED
    BY <1>2, <2>1, <2>2
<1> QED
  BY <1>5, <1>7, <1>8 DEF Inv

LEMMA NextInv == Inv /\ [Next]_vars => Inv'
<1> SUFFICES ASSUME Inv, [Next]_vars PROVE Inv'
  OBVIOUS
<1>1. CASE \E c \in Callers : Lock(c) \/ Step(c) \/ \E r \in Repos : Get(c, r)
  BY <1>1, LockStep, GetStep, LocalStep, AuthorizeStep, FailureSteps, FetchStep,
     ForwardStep, OpenStep, CloneStep DEF Step
<1>2. CASE (\E r \in Repos : Push(r) \/ \E n \in Names : Rename(r, n)) \/ Tick \/ Stop
  BY <1>2, PushStep, RenameStep, TickStep, StopStep
<1>3. CASE UNCHANGED vars
  <2>1. UNCHANGED <<branch, named, clones, cut, sources, mu, token, calls, now, stops>>
    BY <1>3 DEF vars
  <2>2. TypeOK' /\ DirsInv'
    BY <2>1 DEF Inv, TypeOK, DirsInv, Dir
  <2>3. \A x \in Callers : Fresh(x)' /\ Broken(x)' /\ Late(x)'
    BY <2>1 DEF Inv, CallInv, Fresh, Broken, Late, Dir
  <2>4. \A x \in Callers : CallInv(x)'
    BY <2>1, <2>3 DEF Inv, CallInv, Dir, TakesToken
  <2> QED
    BY <2>2, <2>4 DEF Inv
<1> QED
  BY <1>1, <1>2, <1>3 DEF Next

LEMMA Invariance == Spec => []Inv
  BY InitInv, NextInv, PTL DEF Spec

LEMMA InvImplies ==
  Inv => FreshOnReturn /\ BrokenOnlyByACut /\ TokensLastTheBuffer
  BY DEF Inv, CallInv, Fresh, Broken, Late, FreshOnReturn, BrokenOnlyByACut,
         TokensLastTheBuffer

\* reposource.go:86 For any callers, repositories and directories, colliding or
\* not, and branches of whatever names, a Source that was cloned for a caller, or
\* fetched while its clone is on the branch the fetch brought, shows the history
\* of its repository, no older than when it was asked for.
THEOREM SourcesFresh == Spec => []FreshOnReturn
  BY Invariance, InvImplies, PTL

\* gitsource.go:80 Nothing but a stop in the middle of a clone makes a
\* repository's directory unusable.
THEOREM OnlyCutsBreak == Spec => []BrokenOnlyByACut
  BY Invariance, InvImplies, PTL

\* provider.go:142 For any token lifetime longer than the refresh buffer, a
\* token is refused only in a request that runs for longer than that buffer.
THEOREM TokensLast == Spec => []TokensLastTheBuffer
  BY Invariance, InvImplies, PTL
==============================================================================
