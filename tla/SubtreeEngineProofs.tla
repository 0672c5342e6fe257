------------------------- MODULE SubtreeEngineProofs -------------------------
(***************************************************************************)
(* For any number of callers, keys and directories and any caps: the       *)
(* directories of the diff engine are removed exactly once and never under *)
(* a running job, the caps bound the jobs that run, a key is computed once *)
(* at a time, every call is answered with its own key's outcome, and the   *)
(* engine implements DiffService.                                          *)
(***************************************************************************)
EXTENDS SubtreeEngine, FiniteSetTheorems, TLAPS

\* The type of what the jobs and directories are.
JobTypes ==
  /\ pc \in [Callers -> Places]
  /\ step \in [Callers -> Steps]
  /\ dir \in [Callers -> Dirs \cup {None}]
  /\ present \subseteq Dirs
  /\ running \subseteq Job
  /\ sent \subseteq [job : Job, result : {"ok", "bounds", "error"}]
  /\ holding \subseteq Job
  /\ waiters \subseteq Job

\* A caller has a directory exactly while it queues with it or waits for a job
\* on it; each directory in existence is one caller's or one waiter's.
Owners ==
  /\ \A c \in Callers : dir[c] # None <=> pc[c] \in {"queued", "waiting"}
  /\ \A c \in Callers : dir[c] # None => dir[c] \in present
  /\ \A j \in waiters : j[1] \in present
  /\ \A c, f \in Callers : dir[c] = dir[f] /\ dir[c] # None => c = f
  /\ \A i, j \in waiters : i[1] = j[1] => i = j
  /\ \A c \in Callers : \A j \in waiters : dir[c] # j[1]
  /\ \A d \in present : (\E c \in Callers : dir[c] = d) \/ (\E j \in waiters : j[1] = d)

\* Somebody waits for every job that runs or has sent its result, which it does
\* once.
Awaited(j) ==
  \/ j \in waiters
  \/ \E c \in Callers : pc[c] = "waiting" /\ JobOf(c) = j

Jobs ==
  /\ \A j \in running : Awaited(j)
  /\ \A x \in sent : Awaited(x.job) /\ x.job \notin running
  /\ \A x, y \in sent : x.job = y.job => x = y
  /\ running \subseteq holding

DirInv == JobTypes /\ Owners /\ Jobs /\ misremoved = FALSE

-----------------------------------------------------------------------------
\* Steps of a caller that touch neither its directory nor its job.
Aside == UNCHANGED <<dir, present, running, sent, holding, waiters, misremoved>>

\* Such a step keeps the invariant if it neither begins nor ends a wait.
LEMMA AsideKeeps ==
  ASSUME DirInv, Aside,
         pc' \in [Callers -> Places], step' \in [Callers -> Steps],
         \A c \in Callers :
           \/ pc'[c] = pc[c] /\ step'[c] = step[c]
           \/ {pc[c], pc'[c]} \cap {"queued", "waiting"} = {}
  PROVE  DirInv'
<1>1. \A c \in Callers :
        /\ pc'[c] \in {"queued", "waiting"} <=> pc[c] \in {"queued", "waiting"}
        /\ pc'[c] = "waiting" <=> pc[c] = "waiting"
        /\ pc[c] = "waiting" => step'[c] = step[c]
  OBVIOUS
<1>2. JobTypes'
  BY DEF DirInv, JobTypes, Aside
<1>3. Owners'
  BY <1>1 DEF DirInv, Owners, Aside
<1>4. ASSUME NEW j, Awaited(j) PROVE Awaited(j)'
  BY <1>1, <1>4 DEF Awaited, JobOf, Aside
<1>5. Jobs'
  <2>1. \A j \in running : Awaited(j)'
    BY <1>4 DEF DirInv, Jobs
  <2>2. \A x \in sent : Awaited(x.job)'
    BY <1>4 DEF DirInv, Jobs
  <2> QED BY <2>1, <2>2 DEF DirInv, Jobs, Aside
<1> QED BY <1>2, <1>3, <1>5 DEF DirInv, Aside

-----------------------------------------------------------------------------
LEMMA CallKeeps ==
  ASSUME DirInv, NEW c \in Callers,
         \/ \E k \in Keys : Call(c, k)
         \/ Cancel(c) \/ FirstParentFails(c) \/ LookUp(c) \/ JoinFlight(c)
         \/ Recheck(c) \/ AddToCache(c) \/ EndFlight(c)
  PROVE  DirInv'
<1>1. pc \in [Callers -> Places] /\ step \in [Callers -> Steps]
  BY DEF DirInv, JobTypes
<1>2. Aside
  BY DEF Call, Cancel, FirstParentFails, LookUp, JoinFlight, Recheck, AddToCache,
         EndFlight, Aside, jobVars
<1>3. pc' \in [Callers -> Places] /\ step' \in [Callers -> Steps]
  <2>1. CASE AddToCache(c)
    BY <1>1, <2>1 DEF AddToCache, Move, Steps, Places
  <2>2. CASE EndFlight(c)
    BY <1>1, <2>2 DEF EndFlight, Places
  <2>3. CASE ~AddToCache(c) /\ ~EndFlight(c)
    <3>1. step' = step
      BY <2>3 DEF Call, Cancel, FirstParentFails, LookUp, JoinFlight, Recheck
    <3>2. pc' = pc \/ (\E to \in Places : pc' = [pc EXCEPT ![c] = to])
      BY <2>3 DEF Call, Cancel, FirstParentFails, LookUp, JoinFlight, Recheck, Move,
                   Places
    <3> QED BY <1>1, <3>1, <3>2
  <2> QED BY <2>1, <2>2, <2>3
<1>4. \A f \in Callers :
        \/ pc'[f] = pc[f] /\ step'[f] = step[f]
        \/ {pc[f], pc'[f]} \cap {"queued", "waiting"} = {}
  <2>1. CASE EndFlight(c)
    BY <1>1, <2>1 DEF EndFlight, Landed
  <2>2. CASE ~EndFlight(c)
    BY <1>1, <2>2 DEF Call, Cancel, FirstParentFails, LookUp, JoinFlight, Recheck,
                      AddToCache, Move
  <2> QED BY <2>1, <2>2
<1> QED BY <1>2, <1>3, <1>4, AsideKeeps

LEMMA NewDirKeeps ==
  ASSUME DirInv, NEW c \in Callers, NewDir(c)
  PROVE  DirInv'
<1> USE DEF DirInv, JobTypes
<1>1. CASE pc' = [pc EXCEPT ![c] = "computed"] /\ UNCHANGED <<step, dir, present>>
  <2>1. Aside /\ pc[c] = "dir"
    BY <1>1 DEF NewDir, Move, Aside
  <2>2. pc' \in [Callers -> Places] /\ step' \in [Callers -> Steps]
    BY <1>1 DEF Places
  <2>3. \A f \in Callers : pc'[f] = pc[f] \/ (f = c /\ pc'[f] = "computed")
    BY <1>1
  <2> QED BY <1>1, <2>1, <2>2, <2>3, AsideKeeps
<1>2. CASE \E d \in Dirs :
             /\ d \notin present
             /\ \A s \in Steps : <<d, s>> \notin holding
             /\ dir' = [dir EXCEPT ![c] = d]
             /\ present' = present \cup {d}
             /\ pc[c] = "dir" /\ pc' = [pc EXCEPT ![c] = "queued"]
             /\ step' = [step EXCEPT ![c] = "materialize"]
  <2>1. PICK d \in Dirs :
          /\ d \notin present
          /\ dir' = [dir EXCEPT ![c] = d]
          /\ present' = present \cup {d}
          /\ pc[c] = "dir" /\ pc' = [pc EXCEPT ![c] = "queued"]
          /\ step' = [step EXCEPT ![c] = "materialize"]
    BY <1>2
  <2>2. UNCHANGED <<running, sent, holding, waiters, misremoved>>
    BY DEF NewDir
  <2>3. JobTypes'
    <3>1. pc' \in [Callers -> Places]
      BY <2>1 DEF Places
    <3>2. step' \in [Callers -> Steps]
      BY <2>1 DEF Steps
    <3>3. dir' \in [Callers -> Dirs \cup {None}] /\ present' \subseteq Dirs
      BY <2>1
    <3> QED BY <3>1, <3>2, <3>3, <2>2
  <2>4. Owners'
    BY <2>1, <2>2, EngineAssumption DEF Owners
  <2>5. ASSUME NEW j, Awaited(j) PROVE Awaited(j)'
    BY <2>1, <2>2, <2>5 DEF Awaited, JobOf
  <2>6. Jobs'
    <3>1. \A j \in running : Awaited(j)'
      BY <2>5 DEF Jobs
    <3>2. \A x \in sent : Awaited(x.job)'
      BY <2>5 DEF Jobs
    <3> QED BY <3>1, <3>2, <2>2 DEF Jobs
  <2> QED BY <2>2, <2>3, <2>4, <2>6
<1> QED BY <1>1, <1>2 DEF NewDir, Move

LEMMA StartJobKeeps ==
  ASSUME DirInv, NEW c \in Callers, StartJob(c)
  PROVE  DirInv'
<1> USE DEF DirInv, JobTypes
<1>1. /\ pc[c] = "queued" /\ pc' = [pc EXCEPT ![c] = "waiting"]
      /\ running' = running \cup {JobOf(c)} /\ holding' = holding \cup {JobOf(c)}
      /\ UNCHANGED <<step, dir, present, sent, waiters, misremoved>>
  BY DEF StartJob, Move
<1>2. dir[c] \in Dirs /\ JobOf(c) \in Job
  <2>1. dir[c] # None
    BY <1>1 DEF Owners
  <2> QED BY <2>1 DEF JobOf, Job
<1>3. JobTypes'
  <2>1. pc' \in [Callers -> Places]
    BY <1>1 DEF Places
  <2> QED BY <1>1, <1>2, <2>1
<1>4. Owners'
  BY <1>1 DEF Owners
<1>5. ASSUME NEW j, Awaited(j) \/ j = JobOf(c) PROVE Awaited(j)'
  BY <1>1, <1>5 DEF Awaited, JobOf
<1>6. ~Awaited(JobOf(c))
  <2>1. JobOf(c) \notin waiters
    BY DEF Owners, JobOf
  <2>2. \A f \in Callers : pc[f] = "waiting" => JobOf(f) # JobOf(c)
    BY <1>1, <1>2, EngineAssumption DEF Owners, JobOf
  <2> QED BY <2>1, <2>2 DEF Awaited
<1>7. Jobs'
  <2>1. \A j \in running' : Awaited(j)'
    BY <1>1, <1>5 DEF Jobs
  <2>2. \A x \in sent : Awaited(x.job)' /\ x.job \notin running'
    BY <1>1, <1>5, <1>6 DEF Jobs
  <2> QED BY <1>1, <2>1, <2>2 DEF Jobs
<1> QED BY <1>1, <1>3, <1>4, <1>7

\* The owner of a directory gives it up and removes it.
LEMMA DropKeeps ==
  ASSUME JobTypes, Owners, NEW c \in Callers, dir[c] # None,
         NEW to \in Places \ {"queued", "waiting"},
         pc' = [pc EXCEPT ![c] = to], dir' = [dir EXCEPT ![c] = None],
         present' = present \ {dir[c]}, waiters' = waiters
  PROVE  Owners'
<1>1. \A f \in Callers \ {c} : dir'[f] = dir[f] /\ pc'[f] = pc[f] /\ (dir[f] # dir[c])
  BY DEF JobTypes, Owners
<1>2. dir'[c] = None /\ pc'[c] \notin {"queued", "waiting"}
  BY DEF JobTypes
<1>3. \A j \in waiters : j[1] # dir[c]
  BY DEF Owners
<1>4. \A f \in Callers : dir'[f] # None <=> pc'[f] \in {"queued", "waiting"}
  BY <1>1, <1>2 DEF Owners
<1>5. \A f \in Callers : dir'[f] # None => dir'[f] \in present'
  BY <1>1, <1>2 DEF Owners
<1>6. \A j \in waiters : j[1] \in present'
  BY <1>3 DEF Owners
<1>7. \A f, g \in Callers : dir'[f] = dir'[g] /\ dir'[f] # None => f = g
  BY <1>1, <1>2 DEF Owners
<1>8. \A f \in Callers : \A j \in waiters : dir'[f] # j[1]
  BY <1>1, <1>2, EngineAssumption DEF Owners, JobTypes, Job
<1>9. \A d \in present' :
        (\E f \in Callers : dir'[f] = d) \/ (\E j \in waiters : j[1] = d)
  BY <1>1 DEF Owners
<1> QED BY <1>4, <1>5, <1>6, <1>7, <1>8, <1>9 DEF Owners

\* No job is left that touches the directory of a caller that only queues.
LEMMA LeaveQueueKeeps ==
  ASSUME DirInv, NEW c \in Callers, LeaveQueue(c)
  PROVE  DirInv'
<1> USE DEF DirInv, JobTypes
<1>1. /\ pc[c] = "queued" /\ pc' = [pc EXCEPT ![c] = "computed"]
      /\ present' = present \ {dir[c]}
      /\ misremoved' = (misremoved \/ dir[c] \notin present)
      /\ dir' = [dir EXCEPT ![c] = None]
      /\ UNCHANGED <<step, running, sent, holding, waiters>>
  BY DEF LeaveQueue, Move, RemovedByLeaver, Removed
<1>2. dir[c] # None /\ dir[c] \in present
  BY <1>1 DEF Owners
<1>3. JobTypes'
  <2>1. pc' \in [Callers -> Places]
    BY <1>1 DEF Places
  <2>2. dir' \in [Callers -> Dirs \cup {None}]
    BY <1>1
  <2> QED BY <1>1, <2>1, <2>2
<1>4. Owners'
  BY <1>1, <1>2, DropKeeps DEF Places
<1>5. ASSUME NEW j, Awaited(j) PROVE Awaited(j)'
  BY <1>1, <1>5 DEF Awaited, JobOf
<1>6. Jobs'
  <2>1. \A j \in running : Awaited(j)'
    BY <1>5 DEF Jobs
  <2>2. \A x \in sent : Awaited(x.job)'
    BY <1>5 DEF Jobs
  <2> QED BY <1>1, <2>1, <2>2 DEF Jobs
<1> QED BY <1>1, <1>2, <1>3, <1>4, <1>6

\* A result is received: the caller keeps the directory for its next step, or
\* removes it.  Either way the job it waited for is over.
LEMMA ReceiveKeeps ==
  ASSUME DirInv, NEW c \in Callers, Receive(c)
  PROVE  DirInv'
<1> USE DEF DirInv, JobTypes
<1>1. PICK x \in sent : /\ x.job = JobOf(c) /\ sent' = sent \ {x}
                        /\ Materialized(c, x.result) \/ Produced(c, x.result)
  BY DEF Receive
<1>2. pc[c] = "waiting" /\ UNCHANGED <<running, holding, waiters>>
  BY DEF Receive
<1>3. dir[c] # None /\ dir[c] \in present
  BY <1>2 DEF Owners
<1>4. ASSUME NEW j, Awaited(j), j # JobOf(c),
             \A f \in Callers \ {c} : pc'[f] = pc[f] /\ dir'[f] = dir[f] /\ step'[f] = step[f]
      PROVE  Awaited(j)'
  BY <1>2, <1>4 DEF Awaited, JobOf
<1>5. JobOf(c) \notin running
  BY <1>1 DEF Jobs
<1>6. ASSUME \A f \in Callers \ {c} :
               pc'[f] = pc[f] /\ dir'[f] = dir[f] /\ step'[f] = step[f]
      PROVE  Jobs'
  <2>1. \A j \in running : Awaited(j)'
    BY <1>4, <1>5, <1>6 DEF Jobs
  <2>2. \A y \in sent' : y.job # JobOf(c) /\ Awaited(y.job)'
    BY <1>1, <1>4, <1>6 DEF Jobs
  <2> QED BY <1>1, <1>2, <2>1, <2>2 DEF Jobs
<1>7. CASE /\ pc' = [pc EXCEPT ![c] = "queued"]
           /\ step' = [step EXCEPT ![c] = "produce"]
           /\ UNCHANGED <<present, misremoved, dir>>
  <2>1. JobTypes'
    <3>1. pc' \in [Callers -> Places]
      BY <1>7 DEF Places
    <3>2. step' \in [Callers -> Steps]
      BY <1>7 DEF Steps
    <3> QED BY <1>1, <1>2, <1>7, <3>1, <3>2
  <2>2. Owners'
    BY <1>2, <1>3, <1>7 DEF Owners
  <2>3. Jobs'
    BY <1>6, <1>7
  <2> QED BY <1>7, <2>1, <2>2, <2>3
<1>8. CASE /\ \E to \in {"dir", "computed"} : pc' = [pc EXCEPT ![c] = to]
           /\ present' = present \ {dir[c]}
           /\ misremoved' = (misremoved \/ dir[c] \notin present)
           /\ dir' = [dir EXCEPT ![c] = None]
           /\ UNCHANGED step
  <2>1. PICK to \in {"dir", "computed"} : pc' = [pc EXCEPT ![c] = to]
    BY <1>8
  <2>2. JobTypes'
    <3>1. pc' \in [Callers -> Places]
      BY <2>1 DEF Places
    <3>2. dir' \in [Callers -> Dirs \cup {None}]
      BY <1>8
    <3> QED BY <1>1, <1>2, <1>8, <3>1, <3>2
  <2>3. Owners'
    BY <1>2, <1>3, <1>8, <2>1, DropKeeps DEF Places
  <2>4. Jobs'
    BY <1>6, <1>8, <2>1
  <2> QED BY <1>3, <1>8, <2>2, <2>3, <2>4
<1>9. ASSUME Materialized(c, x.result) PROVE DirInv'
  BY <1>7, <1>8, <1>9 DEF Materialized, Move, Kept, Removed
<1>10. ASSUME Produced(c, x.result) PROVE DirInv'
  BY <1>8, <1>10 DEF Produced, Move, Removed
<1> QED BY <1>1, <1>9, <1>10

\* The directory passes from the caller to the waiter of its job.
LEMMA AbandonKeeps ==
  ASSUME DirInv, NEW c \in Callers, NEW why, Abandon(c, why)
  PROVE  DirInv'
<1> USE DEF DirInv, JobTypes
<1>1. /\ pc[c] = "waiting" /\ pc' = [pc EXCEPT ![c] = "computed"]
      /\ waiters' = waiters \cup {JobOf(c)}
      /\ dir' = [dir EXCEPT ![c] = None]
      /\ UNCHANGED <<step, present, misremoved, running, sent, holding>>
  BY DEF Abandon, Move, LeftToWaiter, Kept
<1>2. dir[c] # None /\ dir[c] \in present /\ dir[c] \in Dirs
  BY <1>1 DEF Owners
<1>3. JobOf(c) \in Job /\ JobOf(c)[1] = dir[c]
  BY <1>2 DEF JobOf, Job
<1>4. JobTypes'
  <2>1. pc' \in [Callers -> Places]
    BY <1>1 DEF Places
  <2>2. dir' \in [Callers -> Dirs \cup {None}]
    BY <1>1
  <2> QED BY <1>1, <1>3, <2>1, <2>2
<1>5. Owners'
  <2>1. \A f \in Callers \ {c} : dir'[f] = dir[f] /\ dir[f] # dir[c] /\ pc'[f] = pc[f]
    BY <1>1, <1>2 DEF Owners
  <2>2. dir'[c] = None /\ pc'[c] = "computed"
    BY <1>1
  <2>3. \A j \in waiters' : j \in waiters \/ j = JobOf(c)
    BY <1>1
  <2>4. \A f \in Callers : \A j \in waiters' : dir'[f] # j[1]
    <3>1. \A j \in waiters' : j[1] \in Dirs
      BY <1>3, <2>3 DEF Job
    <3>2. \A j \in waiters' : dir'[c] # j[1]
      BY <2>2, <3>1, EngineAssumption
    <3>3. \A f \in Callers \ {c} : \A j \in waiters' : dir'[f] # j[1]
      BY <1>3, <2>1, <2>3 DEF Owners
    <3> QED BY <3>2, <3>3
  <2>5. \A i, j \in waiters' : i[1] = j[1] => i = j
    BY <1>3, <2>3 DEF Owners
  <2>6. \A d \in present :
          (\E f \in Callers : dir'[f] = d) \/ (\E j \in waiters' : j[1] = d)
    <3> SUFFICES ASSUME NEW d \in present
                 PROVE (\E f \in Callers : dir'[f] = d) \/ (\E j \in waiters' : j[1] = d)
      OBVIOUS
    <3>1. CASE d = dir[c]
      BY <1>1, <1>3, <3>1
    <3>2. CASE d # dir[c]
      BY <1>1, <2>1, <3>2 DEF Owners
    <3> QED BY <3>1, <3>2
  <2>7. \A f \in Callers : dir'[f] # None <=> pc'[f] \in {"queued", "waiting"}
    BY <2>1, <2>2 DEF Owners
  <2>8. \A f \in Callers : dir'[f] # None => dir'[f] \in present
    BY <2>1, <2>2 DEF Owners
  <2>9. \A j \in waiters' : j[1] \in present
    BY <1>2, <1>3, <2>3 DEF Owners
  <2>10. \A f, g \in Callers : dir'[f] = dir'[g] /\ dir'[f] # None => f = g
    BY <2>1, <2>2 DEF Owners
  <2> QED BY <1>1, <2>4, <2>5, <2>6, <2>7, <2>8, <2>9, <2>10 DEF Owners
<1>6. ASSUME NEW j, Awaited(j) PROVE Awaited(j)'
  BY <1>1, <1>6 DEF Awaited, JobOf
<1>7. Jobs'
  <2>1. \A j \in running : Awaited(j)'
    BY <1>6 DEF Jobs
  <2>2. \A x \in sent : Awaited(x.job)'
    BY <1>6 DEF Jobs
  <2> QED BY <1>1, <2>1, <2>2 DEF Jobs
<1> QED BY <1>1, <1>4, <1>5, <1>7

LEMMA JobEndsKeeps ==
  ASSUME DirInv, NEW j \in Job, JobEnds(j)
  PROVE  DirInv'
<1> USE DEF DirInv, JobTypes
<1>1. PICK r \in Results(j[2]) : sent' = sent \cup {[job |-> j, result |-> r]}
  BY DEF JobEnds
<1>2. /\ j \in running /\ running' = running \ {j}
      /\ UNCHANGED <<pc, step, dir, present, holding, waiters, misremoved>>
  BY DEF JobEnds, callVars
<1>3. r \in {"ok", "bounds", "error"}
  BY DEF Results
<1>4. JobTypes' /\ Owners'
  BY <1>1, <1>2, <1>3 DEF Owners
<1>5. ASSUME NEW i, Awaited(i) PROVE Awaited(i)'
  BY <1>2, <1>5 DEF Awaited, JobOf
<1>6. \A x \in sent : x.job # j
  BY <1>2 DEF Jobs
<1>7. Jobs'
  <2>1. \A i \in running' : Awaited(i)'
    BY <1>2, <1>5 DEF Jobs
  <2>2. \A x \in sent' : Awaited(x.job)' /\ x.job \notin running'
    BY <1>1, <1>2, <1>5 DEF Jobs
  <2>3. \A x, y \in sent' : x.job = y.job => x = y
    BY <1>1, <1>6 DEF Jobs
  <2> QED BY <1>2, <2>1, <2>2, <2>3 DEF Jobs
<1> QED BY <1>2, <1>4, <1>7

LEMMA JobReleasesKeeps ==
  ASSUME DirInv, NEW j \in Job, JobReleases(j)
  PROVE  DirInv'
<1> USE DEF DirInv, JobTypes
<1>1. /\ j \notin running /\ holding' = holding \ {j}
      /\ UNCHANGED <<pc, step, dir, present, running, sent, waiters, misremoved>>
  BY DEF JobReleases, Releases, callVars
<1>2. JobTypes' /\ Owners'
  BY <1>1 DEF Owners
<1>3. ASSUME NEW i, Awaited(i) PROVE Awaited(i)'
  BY <1>1, <1>3 DEF Awaited, JobOf
<1>4. Jobs'
  <2>1. \A i \in running : Awaited(i)'
    BY <1>3 DEF Jobs
  <2>2. \A x \in sent : Awaited(x.job)'
    BY <1>3 DEF Jobs
  <2> QED BY <1>1, <2>1, <2>2 DEF Jobs
<1> QED BY <1>1, <1>2, <1>4

\* The job is over when its waiter removes the directory.
LEMMA WaiterCleansKeeps ==
  ASSUME DirInv, NEW j \in Job, WaiterCleans(j)
  PROVE  DirInv'
<1> USE DEF DirInv, JobTypes
<1>1. PICK x \in sent : x.job = j /\ sent' = sent \ {x}
  BY DEF WaiterCleans
<1>2. /\ j \in waiters /\ waiters' = waiters \ {j}
      /\ present' = present \ {j[1]}
      /\ misremoved' = (misremoved \/ j[1] \notin present)
      /\ UNCHANGED <<pc, step, dir, running, holding>>
  BY DEF WaiterCleans, Removed, callVars
<1>3. j[1] \in present
  BY <1>2 DEF Owners
<1>4. JobTypes'
  BY <1>1, <1>2
<1>5. Owners'
  BY <1>2, <1>3 DEF Owners
<1>6. \A f \in Callers : pc[f] = "waiting" => JobOf(f) # j
  BY <1>2 DEF Owners, JobOf
<1>7. ASSUME NEW i, Awaited(i), i # j PROVE Awaited(i)'
  BY <1>2, <1>7 DEF Awaited, JobOf
<1>8. Jobs'
  <2>1. \A i \in running : Awaited(i)'
    BY <1>1, <1>7 DEF Jobs
  <2>2. \A y \in sent' : Awaited(y.job)'
    BY <1>1, <1>7 DEF Jobs
  <2> QED BY <1>1, <1>2, <2>1, <2>2 DEF Jobs
<1> QED BY <1>2, <1>3, <1>4, <1>5, <1>8

LEMMA DirInvariant == Spec => []DirInv
<1>1. Init => DirInv
  <2> SUFFICES ASSUME Init PROVE DirInv
    OBVIOUS
  <2>1. JobTypes
    <3>1. pc \in [Callers -> Places]
      BY DEF Init, Places
    <3>2. step \in [Callers -> Steps]
      BY DEF Init, Steps
    <3> QED BY <3>1, <3>2 DEF Init, JobTypes
  <2>2. Owners
    BY DEF Init, Owners
  <2>3. Jobs
    BY DEF Init, Jobs
  <2> QED BY <2>1, <2>2, <2>3 DEF Init, DirInv
<1>2. DirInv /\ [Next]_vars => DirInv'
  <2> SUFFICES ASSUME DirInv, [Next]_vars PROVE DirInv'
    OBVIOUS
  <2>1. ASSUME NEW c \in Callers, NEW k \in Keys, Call(c, k) PROVE DirInv'
    BY <2>1, CallKeeps
  <2>2. ASSUME NEW c \in Callers, Cancel(c) \/ FirstParentFails(c) PROVE DirInv'
    BY <2>2, CallKeeps
  <2>3. ASSUME NEW c \in Callers, CallerStep(c) PROVE DirInv'
    <3>1. CASE NewDir(c)
      BY <3>1, NewDirKeeps
    <3>2. CASE StartJob(c)
      BY <3>2, StartJobKeeps
    <3>3. CASE Receive(c)
      BY <3>3, ReceiveKeeps
    <3>4. CASE \/ LookUp(c) \/ JoinFlight(c) \/ Recheck(c)
               \/ AddToCache(c) \/ EndFlight(c)
      BY <3>4, CallKeeps
    <3> QED BY <2>3, <3>1, <3>2, <3>3, <3>4 DEF CallerStep
  <2>4. ASSUME NEW c \in Callers, LeaveQueue(c) PROVE DirInv'
    BY <2>4, LeaveQueueKeeps
  <2>5. ASSUME NEW c \in Callers, NEW why \in {"ceiling", "cancelled"}, Abandon(c, why)
        PROVE  DirInv'
    BY <2>5, AbandonKeeps
  <2>6. ASSUME NEW j \in Job, GoroutineStep(j) PROVE DirInv'
    BY <2>6, JobEndsKeeps, JobReleasesKeeps, WaiterCleansKeeps DEF GoroutineStep
  <2>7. CASE UNCHANGED vars
    <3>1. UNCHANGED <<pc, step, dir, present, running, sent, holding, waiters, misremoved>>
      BY <2>7 DEF vars, callVars, jobVars
    <3> QED BY <3>1 DEF DirInv, JobTypes, Owners, Jobs, Awaited, JobOf
  <2> QED BY <2>1, <2>2, <2>3, <2>4, <2>5, <2>6, <2>7 DEF Next
<1> QED BY <1>1, <1>2, PTL DEF Spec

\* Whatever is cancelled, timed out or failed and in whatever order: a directory
\* is removed exactly once, and not before the goroutine that fills or reads it
\* is done.
THEOREM DirsSafe == Spec => []DirsOutliveTheirJobs
<1>1. DirInv => DirsOutliveTheirJobs
  <2> SUFFICES ASSUME DirInv, NEW j \in running PROVE j[1] \in present
    BY DEF DirInv, DirsOutliveTheirJobs
  <2>1. Awaited(j)
    BY DEF DirInv, Jobs
  <2>2. CASE j \in waiters
    BY <2>2 DEF DirInv, Owners
  <2>3. CASE \E c \in Callers : pc[c] = "waiting" /\ JobOf(c) = j
    BY <2>3 DEF DirInv, Owners, JobOf
  <2> QED BY <2>1, <2>2, <2>3 DEF Awaited
<1> QED BY <1>1, DirInvariant, PTL

\* A directory in existence always has exactly one who will remove it.
THEOREM DirsOwned == Spec => []DirsAreOwned
<1>1. DirInv => DirsAreOwned
  <2> SUFFICES ASSUME DirInv, NEW d \in present
               PROVE  Cardinality({c \in Callers : dir[c] = d}
                                  \cup {j \in waiters : j[1] = d}) = 1
    BY DEF DirsAreOwned
  <2> DEFINE S == {c \in Callers : dir[c] = d} \cup {j \in waiters : j[1] = d}
  <2>1. d # None
    BY EngineAssumption DEF DirInv, JobTypes
  <2>2. \E x : S = {x}
    <3>1. ASSUME NEW c \in Callers, dir[c] = d PROVE S = {c}
      BY <2>1, <3>1 DEF DirInv, Owners
    <3>2. ASSUME NEW j \in waiters, j[1] = d PROVE S = {j}
      BY <3>2 DEF DirInv, Owners
    <3> QED BY <3>1, <3>2 DEF DirInv, Owners
  <2> QED BY <2>2, FS_Singleton
<1> QED BY <1>1, DirInvariant, PTL

-----------------------------------------------------------------------------
\* What bounds the running jobs: the slots, which outlive the jobs.
Slots(s) == {j \in holding : j[2] = s}

CapInv ==
  /\ running \subseteq holding
  /\ IsFiniteSet(holding)
  /\ \A s \in Steps : Cardinality(Slots(s)) <= Cap[s]

\* Only StartJob takes a slot, and only if there is one.
LEMMA StartJobTakesASlot ==
  ASSUME CapInv, NEW c \in Callers, step[c] \in Steps, StartJob(c)
  PROVE  CapInv'
<1>1. /\ running' = running \cup {JobOf(c)} /\ holding' = holding \cup {JobOf(c)}
      /\ Cardinality(Slots(step[c])) < Cap[step[c]]
  BY DEF StartJob, SlotFree, Slots
<1>2. IsFiniteSet(holding')
  BY <1>1, FS_AddElement DEF CapInv
<1>3. ASSUME NEW s \in Steps PROVE Cardinality(Slots(s))' <= Cap[s]
  <2>1. IsFiniteSet(Slots(s)) /\ Cardinality(Slots(s)) \in Nat
    BY FS_Subset, FS_CardinalityType DEF CapInv, Slots
  <2>2. CASE s = step[c]
    <3>1. Slots(s)' = Slots(s) \cup {JobOf(c)}
      BY <1>1, <2>2 DEF Slots, JobOf
    <3>2. Cardinality(Slots(s)') <= Cardinality(Slots(s)) + 1
      BY <2>1, <3>1, FS_AddElement
    <3>3. Cap[s] \in Nat /\ Cardinality(Slots(s)') \in Nat
      BY <2>1, <3>1, EngineAssumption, FS_AddElement, FS_CardinalityType
    <3> QED BY <1>1, <2>1, <2>2, <3>2, <3>3
  <2>3. CASE s # step[c]
    <3>1. Slots(s)' = Slots(s)
      BY <1>1, <2>3 DEF Slots, JobOf
    <3> QED BY <3>1 DEF CapInv
  <2> QED BY <2>2, <2>3
<1> QED BY <1>1, <1>2, <1>3 DEF CapInv

LEMMA SlotsOnlyReleased ==
  ASSUME CapInv, holding' \subseteq holding, running' \subseteq holding'
  PROVE  CapInv'
<1>1. IsFiniteSet(holding')
  BY FS_Subset DEF CapInv
<1>2. ASSUME NEW s \in Steps PROVE Cardinality(Slots(s))' <= Cap[s]
  <2>1. IsFiniteSet(Slots(s)) /\ Slots(s)' \subseteq Slots(s)
    BY FS_Subset DEF CapInv, Slots
  <2>2. /\ Cardinality(Slots(s)') <= Cardinality(Slots(s))
        /\ Cardinality(Slots(s)) \in Nat /\ Cardinality(Slots(s)') \in Nat
    BY <2>1, FS_Subset, FS_CardinalityType
  <2> QED BY <2>2, EngineAssumption DEF CapInv
<1> QED BY <1>1, <1>2 DEF CapInv

\* However many callers gave up on theirs, no more materializations or
\* productions run at a time than the caps allow.
THEOREM Caps == Spec => []CapsHold
<1>1. Init => CapInv
  <2> SUFFICES ASSUME Init PROVE CapInv
    OBVIOUS
  <2>1. holding = {} /\ running = {}
    BY DEF Init
  <2>2. \A s \in Steps : Slots(s) = {} /\ Cap[s] \in Nat
    BY <2>1, EngineAssumption DEF Slots
  <2> QED BY <2>1, <2>2, FS_EmptySet DEF CapInv
<1>2. DirInv /\ CapInv /\ [Next]_vars => CapInv'
  <2> SUFFICES ASSUME DirInv, CapInv, [Next]_vars PROVE CapInv'
    OBVIOUS
  <2>1. ASSUME NEW c \in Callers, StartJob(c) PROVE CapInv'
    BY <2>1, StartJobTakesASlot DEF DirInv, JobTypes
  <2>2. ASSUME NEW j \in Job, GoroutineStep(j) PROVE CapInv'
    <3>1. holding' \subseteq holding /\ running' \subseteq holding'
      BY <2>2 DEF GoroutineStep, JobEnds, JobReleases, Releases, WaiterCleans, CapInv
    <3> QED BY <3>1, SlotsOnlyReleased
  <2>3. CASE UNCHANGED <<holding, running>>
    BY <2>3, SlotsOnlyReleased DEF CapInv
  <2>4. ASSUME NEW c \in Callers, CallerStep(c), ~StartJob(c)
        PROVE  UNCHANGED <<holding, running>>
    BY <2>4 DEF CallerStep, LookUp, JoinFlight, Recheck, NewDir, Receive, AddToCache,
                EndFlight, jobVars
  <2>5. ASSUME \/ \E c \in Callers : \/ \E k \in Keys : Call(c, k)
                                    \/ Cancel(c) \/ FirstParentFails(c) \/ LeaveQueue(c)
                                    \/ \E why \in {"ceiling", "cancelled"} : Abandon(c, why)
               \/ UNCHANGED vars
        PROVE  UNCHANGED <<holding, running>>
    BY <2>5 DEF Call, Cancel, FirstParentFails, LeaveQueue, Abandon, vars, jobVars
  <2> QED BY <2>1, <2>2, <2>3, <2>4, <2>5 DEF Next
<1>3. CapInv => CapsHold
  <2> SUFFICES ASSUME CapInv, NEW s \in Steps
               PROVE  Cardinality({j \in running : j[2] = s}) <= Cap[s]
    BY DEF CapsHold
  <2> DEFINE R == {j \in running : j[2] = s}
  <2>1. IsFiniteSet(Slots(s)) /\ R \subseteq Slots(s)
    BY FS_Subset DEF CapInv, Slots
  <2>2. /\ Cardinality(R) <= Cardinality(Slots(s))
        /\ Cardinality(R) \in Nat /\ Cardinality(Slots(s)) \in Nat
    BY <2>1, FS_Subset, FS_CardinalityType
  <2> QED BY <2>2, EngineAssumption DEF CapInv
<1> QED BY <1>1, <1>2, <1>3, DirInvariant, PTL DEF Spec

-----------------------------------------------------------------------------
(* The cache and the flights.                                              *)

\* The rest of the types.
CallTypes ==
  /\ key \in [Callers -> Keys]
  /\ gone \in [Callers -> BOOLEAN]
  /\ side \in [Callers -> Sides]
  /\ outcome \in [Callers -> Outcome \cup {None}]
  /\ calls \in 0..MaxCalls
  /\ cache \in Seq(Outcome) /\ Len(cache) <= CacheEntries
  /\ flight \in [Keys -> Callers \cup {None}]

Leading(c) == pc[c] \in {"leading", "dir", "queued", "waiting", "computed", "added"}

\* Who leads is whom the flight of its key names, so a key has one leader; what
\* was computed is of the leader's key, and so is every answer.
FlightInv ==
  /\ \A c \in Callers : Leading(c) => flight[key[c]] = c
  /\ \A c \in Callers : Computing(c) => ~Cached(key[c])
  /\ \A c \in Callers : pc[c] \in {"computed", "added"} =>
       outcome[c] \in Outcome /\ outcome[c].key = key[c]
  /\ AnsweredByKey

\* Where the cache has an entry, it is the key's.
LEMMA EntryOfKey ==
  ASSUME cache \in Seq(Outcome), NEW k, Cached(k)
  PROVE  /\ Position(k) \in 1..Len(cache) /\ Entry(k) \in Outcome
         /\ Entry(k).key = k
<1>1. Position(k) \in DOMAIN cache /\ cache[Position(k)].key = k
  BY DEF Cached, Position
<1>2. DOMAIN cache = 1..Len(cache)
  OBVIOUS
<1> QED BY <1>1, <1>2 DEF Entry

\* Moving an entry to the front brings in none but the one in front.
LEMMA FrontMoved ==
  ASSUME cache \in Seq(Outcome), NEW i \in 1..Len(cache), NEW o \in Outcome
  PROVE  /\ MovedToFront(i, o) \in Seq(Outcome)
         /\ Len(MovedToFront(i, o)) = Len(cache)
         /\ \A n \in DOMAIN MovedToFront(i, o) :
              \/ MovedToFront(i, o)[n] = o
              \/ \E m \in DOMAIN cache : MovedToFront(i, o)[n] = cache[m]
<1> DEFINE moved == MovedToFront(i, o)
<1>1. Len(cache) \in Nat /\ DOMAIN cache = 1..Len(cache)
  OBVIOUS
<1>2. moved = [n \in 1..Len(cache) |->
                 IF n = 1 THEN o ELSE IF n <= i THEN cache[n - 1] ELSE cache[n]]
  BY <1>1 DEF MovedToFront
<1>3. \A n \in 1..Len(cache) :
        \/ moved[n] = o
        \/ \E m \in DOMAIN cache : moved[n] = cache[m]
  <2> SUFFICES ASSUME NEW n \in 1..Len(cache), n # 1
               PROVE  \E m \in DOMAIN cache : moved[n] = cache[m]
    BY <1>2
  <2>1. n - 1 \in DOMAIN cache /\ n \in DOMAIN cache
    BY <1>1
  <2> QED BY <1>2, <2>1
<1>4. \A n \in 1..Len(cache) : moved[n] \in Outcome
  BY <1>1, <1>3
<1>5. moved \in [1..Len(cache) -> Outcome]
  BY <1>2, <1>4
<1> HIDE DEF moved
<1>6. moved \in Seq(Outcome) /\ Len(moved) = Len(cache) /\ DOMAIN moved = 1..Len(cache)
  BY <1>1, <1>5
<1> QED BY <1>3, <1>6 DEF moved

\* What Get leaves of the cache.
LEMMA PromotedKeeps ==
  ASSUME CallTypes, NEW k, Cached(k), cache' = Promoted(k)
  PROVE  /\ cache' \in Seq(Outcome) /\ Len(cache') <= CacheEntries
         /\ \A j : Cached(j)' => Cached(j)
<1>1. /\ Position(k) \in 1..Len(cache) /\ Entry(k) \in Outcome
      /\ Entry(k) = cache[Position(k)]
  BY EntryOfKey DEF CallTypes, Entry
<1>2. /\ cache' \in Seq(Outcome) /\ Len(cache') = Len(cache)
      /\ \A n \in DOMAIN cache' : \E m \in DOMAIN cache : cache'[n] = cache[m]
  BY <1>1, FrontMoved DEF Promoted, CallTypes
<1> QED BY <1>2 DEF CallTypes, Cached

\* What Add makes of it.
LEMMA AddedKeeps ==
  ASSUME CallTypes, NEW o \in Outcome, cache' = Added(o)
  PROVE  /\ cache' \in Seq(Outcome) /\ Len(cache') <= CacheEntries
         /\ \A j : Cached(j)' => Cached(j) \/ j = o.key
<1> SUFFICES /\ cache' \in Seq(Outcome) /\ Len(cache') <= CacheEntries
             /\ \A n \in DOMAIN cache' :
                  cache'[n] = o \/ \E m \in DOMAIN cache : cache'[n] = cache[m]
  BY DEF Cached
<1>1. CASE Cached(o.key)
  <2>1. Position(o.key) \in 1..Len(cache) /\ cache' = MovedToFront(Position(o.key), o)
    BY <1>1, EntryOfKey DEF Added, CallTypes
  <2> QED BY <2>1, FrontMoved DEF CallTypes
<1>2. CASE ~Cached(o.key)
  <2> DEFINE size == IF Len(cache) < CacheEntries THEN Len(cache) + 1 ELSE CacheEntries
  <2>1. Len(cache) \in Nat /\ DOMAIN cache = 1..Len(cache) /\ CacheEntries \in Nat
    BY EngineAssumption DEF CallTypes
  <2>2. size \in Nat /\ size <= CacheEntries /\ size <= Len(cache) + 1
    BY <2>1 DEF CallTypes
  <2>3. cache' = [n \in 1..size |-> IF n = 1 THEN o ELSE cache[n - 1]]
    BY <1>2 DEF Added
  <2> HIDE DEF size
  <2>4. \A n \in 1..size : cache'[n] = o \/ \E m \in DOMAIN cache : cache'[n] = cache[m]
    <3> SUFFICES ASSUME NEW n \in 1..size, n # 1
                 PROVE  \E m \in DOMAIN cache : cache'[n] = cache[m]
      BY <2>3
    <3>1. n - 1 \in DOMAIN cache
      BY <2>1, <2>2
    <3> QED BY <2>3, <3>1
  <2>5. \A n \in 1..size : cache'[n] \in Outcome
    BY <2>1, <2>4 DEF CallTypes
  <2>6. cache' \in [1..size -> Outcome]
    BY <2>3, <2>5
  <2>7. cache' \in Seq(Outcome) /\ Len(cache') = size /\ DOMAIN cache' = 1..size
    BY <2>2, <2>6
  <2> QED BY <2>2, <2>4, <2>7
<1> QED BY <1>1, <1>2

\* What holds of the calls, typed.
CallInv == CallTypes /\ FlightInv

\* A leader goes on with its computation.
LEMMA ComputingKeeps ==
  ASSUME pc \in [Callers -> Places], CallInv, NEW c \in Callers, Computing(c),
         NEW to \in {"dir", "queued", "waiting", "computed"},
         pc' = [pc EXCEPT ![c] = to], UNCHANGED <<key, gone, calls, cache, flight>>,
         side' \in [Callers -> Sides],
         \/ outcome' = outcome /\ to # "computed"
         \/ \E kind \in Kinds, why \in Whys : Answer(c, kind, why)
  PROVE  CallInv'
<1> USE DEF CallInv, CallTypes
<1>1. ASSUME NEW f \in Callers \ {c}
      PROVE  pc'[f] = pc[f] /\ outcome'[f] = outcome[f]
  BY DEF Answer
<1>2. pc'[c] = to
  OBVIOUS
<1>3. CASE outcome' = outcome /\ to # "computed"
  <2>1. CallTypes'
    BY <1>3
  <2>2. FlightInv'
    BY <1>1, <1>2, <1>3 DEF FlightInv, AnsweredByKey, Leading, Computing, Cached
  <2> QED BY <2>1, <2>2
<1>4. ASSUME NEW kind \in Kinds, NEW why \in Whys, Answer(c, kind, why)
      PROVE  CallInv'
  <2>1. [key |-> key[c], kind |-> kind, why |-> why] \in Outcome
    BY DEF Outcome
  <2>2. outcome' = [outcome EXCEPT ![c] = [key |-> key[c], kind |-> kind, why |-> why]]
    BY <1>4 DEF Answer
  <2>3. CallTypes'
    BY <2>1, <2>2
  <2>4. outcome'[c] \in Outcome /\ outcome'[c].key = key[c]
    BY <2>1, <2>2
  <2>5. FlightInv'
    BY <1>1, <1>2, <2>4 DEF FlightInv, AnsweredByKey, Leading, Computing, Cached
  <2> QED BY <2>3, <2>5
<1> QED BY <1>3, <1>4

\* A call begins, or its client hangs up, or it has no first parent.
LEMMA CallBegins ==
  ASSUME pc \in [Callers -> Places], CallInv, NEW c \in Callers,
         (\E k \in Keys : Call(c, k)) \/ Cancel(c) \/ FirstParentFails(c)
  PROVE  CallInv'
<1> USE DEF CallInv, CallTypes
<1>1. ASSUME NEW k \in Keys, Call(c, k) PROVE CallInv'
  <2>1. /\ pc[c] = "idle" /\ pc' = [pc EXCEPT ![c] = "called"]
        /\ key' = [key EXCEPT ![c] = k] /\ outcome' = [outcome EXCEPT ![c] = None]
        /\ calls < MaxCalls /\ calls' = calls + 1
        /\ UNCHANGED <<gone, side, cache, flight>>
    BY <1>1 DEF Call, Move
  <2>2. calls' \in 0..MaxCalls
    BY <2>1, EngineAssumption
  <2>3. CallTypes'
    BY <2>1, <2>2
  <2>4. pc'[c] = "called"
    BY <2>1
  <2>5. \A f \in Callers \ {c} : pc'[f] = pc[f] /\ key'[f] = key[f] /\ outcome'[f] = outcome[f]
    BY <2>1
  <2>6. FlightInv'
    BY <2>1, <2>4, <2>5 DEF FlightInv, AnsweredByKey, Leading, Computing, Cached
  <2> QED BY <2>3, <2>6
<1>2. CASE Cancel(c)
  <2>1. UNCHANGED <<pc, key, side, outcome, calls, cache, flight>>
    BY <1>2 DEF Cancel
  <2>2. gone' \in [Callers -> BOOLEAN]
    BY <1>2 DEF Cancel
  <2> QED BY <2>1, <2>2 DEF FlightInv, AnsweredByKey, Leading, Computing, Cached
<1>3. CASE FirstParentFails(c)
  <2>1. PICK kind \in {"noPriorVersion", "internal"} : Answer(c, kind, "none")
    BY <1>3 DEF FirstParentFails
  <2>2. [key |-> key[c], kind |-> kind, why |-> "none"] \in Outcome
    BY DEF Outcome, Kinds, Whys
  <2>3. /\ pc' = [pc EXCEPT ![c] = "idle"] /\ gone' = [gone EXCEPT ![c] = FALSE]
        /\ UNCHANGED <<key, side, calls, cache, flight>>
    BY <1>3 DEF FirstParentFails, Move
  <2>4. outcome' = [outcome EXCEPT ![c] = [key |-> key[c], kind |-> kind, why |-> "none"]]
    BY <2>1 DEF Answer
  <2>5. CallTypes'
    BY <2>2, <2>3, <2>4
  <2>6. pc'[c] = "idle" /\ outcome'[c].key = key[c]
    BY <2>3, <2>4
  <2>7. \A f \in Callers \ {c} : pc'[f] = pc[f] /\ outcome'[f] = outcome[f]
    BY <2>3, <2>4
  <2>8. FlightInv'
    BY <2>3, <2>6, <2>7 DEF FlightInv, AnsweredByKey, Leading, Computing, Cached
  <2> QED BY <2>5, <2>8
<1> QED BY <1>1, <1>2, <1>3

\* A cached answer is its key's.
LEMMA LookUpKeeps ==
  ASSUME pc \in [Callers -> Places], CallInv, NEW c \in Callers, LookUp(c)
  PROVE  CallInv'
<1> USE DEF CallInv, CallTypes
<1>1. CASE Cached(key[c])
  <2>1. /\ pc' = [pc EXCEPT ![c] = "idle"]
        /\ outcome' = [outcome EXCEPT ![c] = Entry(key[c])]
        /\ gone' = [gone EXCEPT ![c] = FALSE] /\ cache' = Promoted(key[c])
        /\ UNCHANGED <<key, side, calls, flight>>
    BY <1>1 DEF LookUp, Move
  <2>2. Entry(key[c]) \in Outcome /\ Entry(key[c]).key = key[c]
    BY <1>1, EntryOfKey
  <2>3. /\ cache' \in Seq(Outcome) /\ Len(cache') <= CacheEntries
        /\ \A j : Cached(j)' => Cached(j)
    BY <1>1, <2>1, PromotedKeeps
  <2>4. CallTypes'
    BY <2>1, <2>2, <2>3
  <2>5. pc'[c] = "idle" /\ outcome'[c].key = key[c]
    BY <2>1, <2>2
  <2>6. \A f \in Callers \ {c} : pc'[f] = pc[f] /\ outcome'[f] = outcome[f]
    BY <2>1
  <2>7. FlightInv'
    BY <2>1, <2>3, <2>5, <2>6 DEF FlightInv, AnsweredByKey, Leading, Computing
  <2> QED BY <2>4, <2>7
<1>2. CASE ~Cached(key[c])
  <2>1. /\ pc' = [pc EXCEPT ![c] = "missed"]
        /\ UNCHANGED <<outcome, gone, cache, key, side, calls, flight>>
    BY <1>2 DEF LookUp, Move
  <2>2. pc'[c] = "missed" /\ \A f \in Callers \ {c} : pc'[f] = pc[f]
    BY <2>1
  <2>3. FlightInv'
    BY <2>1, <2>2 DEF FlightInv, AnsweredByKey, Leading, Computing, Cached
  <2> QED BY <2>1, <2>3
<1> QED BY <1>1, <1>2

\* Only a flight nobody leads gets a leader.
LEMMA JoinFlightKeeps ==
  ASSUME pc \in [Callers -> Places], CallInv, NEW c \in Callers, JoinFlight(c)
  PROVE  CallInv'
<1> USE DEF CallInv, CallTypes
<1>1. UNCHANGED <<key, gone, side, outcome, calls, cache>>
  BY DEF JoinFlight
<1>2. CASE flight[key[c]] = None
  <2>1. pc' = [pc EXCEPT ![c] = "leading"] /\ flight' = [flight EXCEPT ![key[c]] = c]
    BY <1>2 DEF JoinFlight, Move, FlightKey
  <2>2. pc'[c] = "leading" /\ \A f \in Callers \ {c} : pc'[f] = pc[f]
    BY <2>1
  <2>3. \A f \in Callers : Leading(f) => key[f] # key[c]
    BY <1>2, EngineAssumption DEF FlightInv
  <2>4. CallTypes'
    BY <1>1, <2>1
  <2>5. FlightInv'
    BY <1>1, <2>1, <2>2, <2>3 DEF FlightInv, AnsweredByKey, Leading, Computing, Cached
  <2> QED BY <2>4, <2>5
<1>3. CASE flight[key[c]] # None
  <2>1. pc' = [pc EXCEPT ![c] = "following"] /\ UNCHANGED flight
    BY <1>3 DEF JoinFlight, Move, FlightKey
  <2>2. pc'[c] = "following" /\ \A f \in Callers \ {c} : pc'[f] = pc[f]
    BY <2>1
  <2>3. FlightInv'
    BY <1>1, <2>1, <2>2 DEF FlightInv, AnsweredByKey, Leading, Computing, Cached
  <2> QED BY <1>1, <2>1, <2>3
<1> QED BY <1>2, <1>3

\* The second look keeps a cached key from being computed.
LEMMA RecheckKeeps ==
  ASSUME pc \in [Callers -> Places], CallInv, NEW c \in Callers, Recheck(c)
  PROVE  CallInv'
<1> USE DEF CallInv, CallTypes, CachedByNow
<1>1. pc[c] = "leading" /\ UNCHANGED <<key, gone, calls, flight>>
  BY DEF Recheck, Move
<1>2. CASE Cached(key[c])
  <2>1. /\ pc' = [pc EXCEPT ![c] = "added"] /\ UNCHANGED side
        /\ outcome' = [outcome EXCEPT ![c] = Entry(key[c])]
        /\ cache' = Promoted(key[c])
    BY <1>2 DEF Recheck, Move
  <2>2. Entry(key[c]) \in Outcome /\ Entry(key[c]).key = key[c]
    BY <1>2, EntryOfKey
  <2>3. /\ cache' \in Seq(Outcome) /\ Len(cache') <= CacheEntries
        /\ \A j : Cached(j)' => Cached(j)
    BY <1>2, <2>1, PromotedKeeps
  <2>4. CallTypes'
    BY <1>1, <2>1, <2>2, <2>3
  <2>5. pc'[c] = "added" /\ outcome'[c] \in Outcome /\ outcome'[c].key = key[c]
    BY <2>1, <2>2
  <2>6. \A f \in Callers \ {c} : pc'[f] = pc[f] /\ outcome'[f] = outcome[f]
    BY <2>1
  <2>7. FlightInv'
    BY <1>1, <2>1, <2>3, <2>5, <2>6 DEF FlightInv, AnsweredByKey, Leading, Computing
  <2> QED BY <2>4, <2>7
<1>3. CASE ~Cached(key[c])
  <2>1. /\ pc' = [pc EXCEPT ![c] = "dir"] /\ side' = [side EXCEPT ![c] = "old"]
        /\ UNCHANGED <<outcome, cache>>
    BY <1>3 DEF Recheck, Move
  <2>2. pc'[c] = "dir" /\ \A f \in Callers \ {c} : pc'[f] = pc[f]
    BY <2>1
  <2>3. CallTypes'
    BY <1>1, <2>1 DEF Sides
  <2>4. FlightInv'
    BY <1>1, <1>3, <2>1, <2>2 DEF FlightInv, AnsweredByKey, Leading, Computing, Cached
  <2> QED BY <2>3, <2>4
<1> QED BY <1>2, <1>3

\* What is added is of the one key its leader computes.
LEMMA AddToCacheKeeps ==
  ASSUME pc \in [Callers -> Places], CallInv, NEW c \in Callers, AddToCache(c)
  PROVE  CallInv'
<1> USE DEF CallInv, CallTypes
<1>1. /\ pc[c] = "computed" /\ pc' = [pc EXCEPT ![c] = "added"]
      /\ cache' = Added(outcome[c]) /\ side' = [side EXCEPT ![c] = "old"]
      /\ UNCHANGED <<key, gone, outcome, calls, flight>>
  BY DEF AddToCache, Move
<1>2. outcome[c] \in Outcome /\ outcome[c].key = key[c]
  BY <1>1 DEF FlightInv
<1>3. /\ cache' \in Seq(Outcome) /\ Len(cache') <= CacheEntries
      /\ \A j : Cached(j)' => Cached(j) \/ j = key[c]
  BY <1>1, <1>2, AddedKeeps
<1>4. CallTypes'
  BY <1>1, <1>3 DEF Sides
<1>5. pc'[c] = "added" /\ \A f \in Callers \ {c} : pc'[f] = pc[f]
  BY <1>1
<1>6. \A f \in Callers \ {c} : Computing(f) => key[f] # key[c]
  BY <1>1 DEF FlightInv, Leading, Computing
<1>7. FlightInv'
  BY <1>1, <1>2, <1>3, <1>5, <1>6 DEF FlightInv, AnsweredByKey, Leading, Computing
<1> QED BY <1>4, <1>7

\* Who lands with c has c's key.
LEMMA EndFlightKeeps ==
  ASSUME pc \in [Callers -> Places], CallInv, NEW c \in Callers, EndFlight(c)
  PROVE  CallInv'
<1> USE DEF CallInv, CallTypes
<1>1. /\ pc[c] = "added" /\ UNCHANGED <<key, side, calls, cache>>
      /\ pc' = [f \in Callers |-> IF f \in Landed(c) THEN "idle" ELSE pc[f]]
      /\ outcome' = [f \in Callers |->
                       IF f \in Landed(c) THEN outcome[c] ELSE outcome[f]]
      /\ gone' = [f \in Callers |-> f \notin Landed(c) /\ gone[f]]
      /\ flight' = [flight EXCEPT ![key[c]] = None]
  BY DEF EndFlight, FlightKey
<1>2. outcome[c] \in Outcome /\ outcome[c].key = key[c]
  BY <1>1 DEF FlightInv
<1>3. CallTypes'
  <2>1. gone' \in [Callers -> BOOLEAN]
    BY <1>1
  <2>2. outcome' \in [Callers -> Outcome \cup {None}]
    BY <1>1, <1>2
  <2>3. flight' \in [Keys -> Callers \cup {None}]
    BY <1>1
  <2> QED BY <1>1, <2>1, <2>2, <2>3
<1>4. \A f \in Landed(c) : f \in Callers /\ key[f] = key[c]
  BY DEF Landed, FlightKey
<1>5. \A f \in Callers \ Landed(c) :
        pc'[f] = pc[f] /\ outcome'[f] = outcome[f] /\ (Leading(f) => key[f] # key[c])
  BY <1>1 DEF FlightInv, Leading, Landed
<1>6. \A f \in Landed(c) : pc'[f] = "idle" /\ outcome'[f].key = key[f]
  BY <1>1, <1>2, <1>4
<1>7. FlightInv'
  BY <1>1, <1>5, <1>6 DEF FlightInv, AnsweredByKey, Leading, Computing, Cached
<1> QED BY <1>3, <1>7

\* The steps of materializeAndProduce.
LEMMA ComputationKeeps ==
  ASSUME DirInv, CallInv, NEW c \in Callers,
         \/ NewDir(c) \/ StartJob(c) \/ LeaveQueue(c) \/ Receive(c)
         \/ \E why \in {"ceiling", "cancelled"} : Abandon(c, why)
  PROVE  CallInv'
<1> DEFINE Goes(to) == pc' = [pc EXCEPT ![c] = to]
           Answered == \E kind \in Kinds, why \in Whys : Answer(c, kind, why)
<1>1. pc \in [Callers -> Places] /\ side \in [Callers -> Sides]
  BY DEF DirInv, JobTypes, CallInv, CallTypes
<1>2. UNCHANGED <<key, gone, calls, cache, flight>> /\ Computing(c)
  BY DEF NewDir, StartJob, LeaveQueue, Receive, Abandon, Move, Computing
<1>3. CASE NewDir(c)
  <2>1. side' = side
    BY <1>3 DEF NewDir
  <2>2. (Goes("queued") /\ outcome' = outcome) \/ (Goes("computed") /\ Answered)
    BY <1>3 DEF NewDir, Move, Kinds, Whys
  <2> QED BY <1>1, <1>2, <2>1, <2>2, ComputingKeeps
<1>4. CASE StartJob(c)
  <2>1. Goes("waiting") /\ UNCHANGED <<side, outcome>>
    BY <1>4 DEF StartJob, Move
  <2> QED BY <1>1, <1>2, <2>1, ComputingKeeps
<1>5. CASE LeaveQueue(c)
  <2>1. Goes("computed") /\ Answered /\ side' = side
    BY <1>5 DEF LeaveQueue, Move, Kinds, Whys
  <2> QED BY <1>1, <1>2, <2>1, ComputingKeeps
<1>6. ASSUME NEW why \in {"ceiling", "cancelled"}, Abandon(c, why) PROVE CallInv'
  <2>1. Goes("computed") /\ Answered /\ side' = side
    BY <1>6 DEF Abandon, Move, Kinds, Whys
  <2> QED BY <1>1, <1>2, <2>1, ComputingKeeps
<1>7. ASSUME NEW r, Materialized(c, r) PROVE CallInv'
  <2>1. side' = side
    BY <1>7 DEF Materialized
  <2>2. (Goes("queued") /\ outcome' = outcome) \/ (Goes("computed") /\ Answered)
    BY <1>7 DEF Materialized, Move, Kinds, Whys
  <2> QED BY <1>1, <1>2, <2>1, <2>2, ComputingKeeps
<1>8. ASSUME NEW r, Produced(c, r) PROVE CallInv'
  <2>1. side' \in [Callers -> Sides]
    BY <1>1, <1>8 DEF Produced, Sides
  <2>2. (Goes("dir") /\ outcome' = outcome) \/ (Goes("computed") /\ Answered)
    BY <1>8 DEF Produced, Move, Kinds, Whys
  <2> QED BY <1>1, <1>2, <2>1, <2>2, ComputingKeeps
<1> QED BY <1>3, <1>4, <1>5, <1>6, <1>7, <1>8 DEF Receive

LEMMA CallInvariant == Spec => []CallInv
<1>1. Init => CallInv
  <2> SUFFICES ASSUME Init PROVE CallInv
    OBVIOUS
  <2>1. ASSUME NEW c \in Callers PROVE key[c] \in Keys
    BY <2>1, EngineAssumption DEF Init
  <2>2. key \in [Callers -> Keys]
    BY <2>1 DEF Init
  <2>3. side \in [Callers -> Sides]
    BY DEF Init, Sides
  <2>4. cache = <<>> /\ cache \in Seq(Outcome) /\ Len(cache) <= CacheEntries /\ calls \in 0..MaxCalls
    BY EngineAssumption DEF Init
  <2>5. CallTypes
    BY <2>2, <2>3, <2>4 DEF Init, CallTypes
  <2>6. FlightInv
    BY DEF Init, FlightInv, AnsweredByKey, Leading, Computing
  <2> QED BY <2>5, <2>6 DEF CallInv
<1>2. DirInv /\ CallInv /\ [Next]_vars => CallInv'
  <2> SUFFICES ASSUME DirInv, CallInv, [Next]_vars PROVE CallInv'
    OBVIOUS
  <2>1. pc \in [Callers -> Places]
    BY DEF DirInv, JobTypes
  <2>2. ASSUME NEW c \in Callers,
               (\E k \in Keys : Call(c, k)) \/ Cancel(c) \/ FirstParentFails(c)
        PROVE  CallInv'
    BY <2>1, <2>2, CallBegins
  <2>3. ASSUME NEW c \in Callers, CallerStep(c) PROVE CallInv'
    <3>1. CASE LookUp(c)
      BY <2>1, <3>1, LookUpKeeps
    <3>2. CASE JoinFlight(c)
      BY <2>1, <3>2, JoinFlightKeeps
    <3>3. CASE Recheck(c)
      BY <2>1, <3>3, RecheckKeeps
    <3>4. CASE NewDir(c) \/ StartJob(c) \/ Receive(c)
      BY <3>4, ComputationKeeps
    <3>5. CASE AddToCache(c)
      BY <2>1, <3>5, AddToCacheKeeps
    <3>6. CASE EndFlight(c)
      BY <2>1, <3>6, EndFlightKeeps
    <3> QED BY <2>3, <3>1, <3>2, <3>3, <3>4, <3>5, <3>6 DEF CallerStep
  <2>4. ASSUME NEW c \in Callers,
               LeaveQueue(c) \/ \E why \in {"ceiling", "cancelled"} : Abandon(c, why)
        PROVE  CallInv'
    BY <2>4, ComputationKeeps
  <2>5. CASE UNCHANGED <<callVars, cache, flight>>
    <3>1. UNCHANGED <<pc, key, gone, side, outcome, calls, cache, flight>>
      BY <2>5 DEF callVars
    <3> QED BY <3>1 DEF CallInv, CallTypes, FlightInv, AnsweredByKey, Leading,
                        Computing, Cached
  <2>6. ASSUME NEW j \in Job, GoroutineStep(j) PROVE UNCHANGED <<callVars, cache, flight>>
    BY <2>6 DEF GoroutineStep, JobEnds, JobReleases, WaiterCleans
  <2>7. UNCHANGED vars => UNCHANGED <<callVars, cache, flight>>
    BY DEF vars
  <2> QED BY <2>2, <2>3, <2>4, <2>5, <2>6, <2>7 DEF Next
<1> QED BY <1>1, <1>2, DirInvariant, PTL DEF Spec

\* Every variable of the engine keeps its type, and the cache its capacity.
THEOREM EngineTyped == Spec => []TypeOK
<1>1. DirInv /\ CallInv => TypeOK
  BY DEF DirInv, JobTypes, CallInv, CallTypes, TypeOK
<1> QED BY <1>1, DirInvariant, CallInvariant, PTL

\* For any callers and keys: one key is computed by one caller at a time, and
\* never while the cache has it.
THEOREM OneComputation == Spec => []ComputedOnce
<1>1. CallInv => ComputedOnce
  BY DEF CallInv, FlightInv, ComputedOnce, Leading, Computing, FlightKey
<1> QED BY <1>1, CallInvariant, PTL

\* For any callers and keys: every call is answered with its own key's outcome,
\* be it cached, coalesced or computed.
THEOREM OwnAnswers == Spec => []AnsweredByKey
<1>1. CallInv => AnsweredByKey
  BY DEF CallInv, FlightInv
<1> QED BY <1>1, CallInvariant, PTL

-----------------------------------------------------------------------------
(* The engine implements DiffService.                                      *)

\* The cache has one entry for a key.
Distinct == \A i, j \in DOMAIN cache : cache[i].key = cache[j].key => i = j

LEMMA MemoryCounted ==
  ASSUME CallTypes, Distinct
  PROVE  Cardinality(Memory) = Len(cache) /\ Len(cache) \in Nat
<1>1. Len(cache) \in Nat /\ DOMAIN cache = 1..Len(cache) /\ cache \in [1..Len(cache) -> Outcome]
  BY DEF CallTypes
<1>2. cache \in Injection(1..Len(cache), Memory)
  BY <1>1 DEF Injection, IsInjective, Memory, Distinct
<1>3. cache \in Surjection(1..Len(cache), Memory)
  BY <1>1 DEF Surjection, Memory
<1>4. ExistsBijection(1..Len(cache), Memory)
  BY <1>2, <1>3 DEF ExistsBijection, Bijection
<1> QED BY <1>1, <1>4, FS_CountingElements

\* Get only moves an entry: the cache holds what it held.
LEMMA PromotedMemory ==
  ASSUME CallTypes, Distinct, NEW k, Cached(k), cache' = Promoted(k)
  PROVE  Distinct' /\ Memory' = Memory
<1> DEFINE p == Position(k)
           from == [n \in 1..Len(cache) |-> IF n = 1 THEN p ELSE IF n <= p THEN n - 1 ELSE n]
<1>1. /\ p \in 1..Len(cache) /\ Entry(k) = cache[p]
      /\ Len(cache) \in Nat /\ DOMAIN cache = 1..Len(cache)
  BY EntryOfKey DEF CallTypes, Entry
<1>2. cache' = [n \in 1..Len(cache) |->
                  IF n = 1 THEN cache[p] ELSE IF n <= p THEN cache[n - 1] ELSE cache[n]]
  BY <1>1 DEF Promoted, MovedToFront
<1> HIDE DEF p
<1>3. \A n \in 1..Len(cache) : from[n] \in 1..Len(cache) /\ cache'[n] = cache[from[n]]
  BY <1>1, <1>2
<1>4. \A n, m \in 1..Len(cache) : from[n] = from[m] => n = m
  BY <1>1
<1>5. \A m \in 1..Len(cache) : \E n \in 1..Len(cache) : from[n] = m
  <2> SUFFICES ASSUME NEW m \in 1..Len(cache)
               PROVE  \E n \in 1..Len(cache) : from[n] = m
    OBVIOUS
  <2> DEFINE n == IF m = p THEN 1 ELSE IF m < p THEN m + 1 ELSE m
  <2>1. n \in 1..Len(cache) /\ from[n] = m
    BY <1>1
  <2> QED BY <2>1
<1>6. DOMAIN cache' = 1..Len(cache)
  BY <1>2
<1> HIDE DEF from
<1>7. Distinct'
  BY <1>1, <1>3, <1>4, <1>6 DEF Distinct
<1>8. Memory' = Memory
  <2>1. Memory' = {cache'[n] : n \in 1..Len(cache)} /\ Memory = {cache[n] : n \in 1..Len(cache)}
    BY <1>1, <1>6 DEF Memory
  <2>2. \A n \in 1..Len(cache) : cache'[n] \in {cache[m] : m \in 1..Len(cache)}
    BY <1>3
  <2>3. \A m \in 1..Len(cache) : cache[m] \in {cache'[n] : n \in 1..Len(cache)}
    <3> SUFFICES ASSUME NEW m \in 1..Len(cache)
                 PROVE  cache[m] \in {cache'[n] : n \in 1..Len(cache)}
      OBVIOUS
    <3>1. PICK n \in 1..Len(cache) : from[n] = m
      BY <1>5
    <3> QED BY <1>3, <3>1
  <2> QED BY <2>1, <2>2, <2>3
<1> QED BY <1>7, <1>8

\* Add remembers o, and when the cache is full forgets one entry for it.
LEMMA AddedMemory ==
  ASSUME CallTypes, Distinct, NEW o \in Outcome, ~Cached(o.key), cache' = Added(o)
  PROVE  /\ Distinct'
         /\ \/ Cardinality(Memory) < CacheEntries /\ Memory' = Memory \cup {o}
            \/ /\ Cardinality(Memory) = CacheEntries
               /\ \E old \in Memory : Memory' = (Memory \ {old}) \cup {o}
<1> DEFINE size == IF Len(cache) < CacheEntries THEN Len(cache) + 1 ELSE CacheEntries
<1>1. /\ Len(cache) \in Nat /\ DOMAIN cache = 1..Len(cache)
      /\ CacheEntries \in Nat \ {0} /\ Len(cache) <= CacheEntries
  BY EngineAssumption DEF CallTypes
<1>2. size \in Nat \ {0} /\ size <= Len(cache) + 1
  BY <1>1
<1>3. /\ DOMAIN cache' = 1..size
      /\ \A n \in 1..size : cache'[n] = IF n = 1 THEN o ELSE cache[n - 1]
  BY DEF Added
<1>4. Cardinality(Memory) = Len(cache)
  BY MemoryCounted
<1>5. \A i \in DOMAIN cache : cache[i].key # o.key
  BY DEF Cached
<1>6. Len(cache) < CacheEntries => size = Len(cache) + 1
  OBVIOUS
<1>7. ~(Len(cache) < CacheEntries) => size = Len(cache) /\ Len(cache) = CacheEntries
  <2>1. \A a, b \in Nat : a <= b /\ ~(a < b) => a = b
    OBVIOUS
  <2>2. ~(Len(cache) < CacheEntries) => Len(cache) = CacheEntries
    BY <1>1, <2>1
  <2> QED BY <2>2
<1> HIDE DEF size
<1>8. \A n \in 1..size : n # 1 => n - 1 \in DOMAIN cache
  BY <1>1, <1>2
<1>9. Distinct'
  <2> SUFFICES ASSUME NEW n \in 1..size, NEW m \in 1..size, cache'[n].key = cache'[m].key
               PROVE  n = m
    BY <1>3 DEF Distinct
  <2>1. CASE n = 1 \/ m = 1
    BY <1>3, <1>5, <1>8, <2>1
  <2>2. CASE n # 1 /\ m # 1
    <3>1. n - 1 \in DOMAIN cache /\ m - 1 \in DOMAIN cache
          /\ cache[n - 1].key = cache[m - 1].key
      BY <1>3, <1>8, <2>2
    <3>2. n - 1 = m - 1
      BY <3>1 DEF Distinct
    <3> QED BY <1>2, <3>2
  <2> QED BY <2>1, <2>2
<1>10. Memory' = {o} \cup {cache[i] : i \in 1..size - 1}
  <2>1. Memory' = {cache'[n] : n \in 1..size}
    BY <1>3 DEF Memory
  <2>2. 1 \in 1..size /\ cache'[1] = o
    BY <1>2, <1>3
  <2>3. \A n \in 1..size : n # 1 => n - 1 \in 1..size - 1 /\ cache'[n] = cache[n - 1]
    BY <1>2, <1>3
  <2>4. \A i \in 1..size - 1 : i + 1 \in 1..size /\ cache'[i + 1] = cache[i]
    BY <1>2, <1>3
  <2> QED BY <2>1, <2>2, <2>3, <2>4
<1>11. CASE Len(cache) < CacheEntries
  <2>1. 1..size - 1 = DOMAIN cache
    BY <1>1, <1>6, <1>11
  <2> QED BY <1>4, <1>9, <1>10, <1>11, <2>1 DEF Memory
<1>12. CASE ~(Len(cache) < CacheEntries)
  <2> DEFINE last == cache[Len(cache)]
  <2>1. size = Len(cache) /\ Len(cache) = CacheEntries /\ Len(cache) \in DOMAIN cache
    <3>1. size = Len(cache) /\ Len(cache) = CacheEntries
      BY <1>7, <1>12
    <3>2. \A n \in Nat \ {0} : n \in 1..n
      OBVIOUS
    <3>3. Len(cache) \in 1..Len(cache)
      BY <1>1, <3>1, <3>2
    <3> QED BY <1>1, <3>1, <3>3
  <2>2. last \in Memory
    BY <2>1 DEF Memory
  <2>3. \A i \in DOMAIN cache : cache[i] = last => i = Len(cache)
    BY <2>1 DEF Distinct
  <2>4. \A i \in DOMAIN cache : i \in 1..size - 1 <=> i # Len(cache)
    BY <1>1, <2>1
  <2>5. 1..size - 1 \subseteq DOMAIN cache
    BY <1>1, <2>1
  <2> HIDE DEF last
  <2>6. {cache[i] : i \in 1..size - 1} = Memory \ {last}
    <3>1. ASSUME NEW i \in 1..size - 1 PROVE cache[i] \in Memory \ {last}
      BY <2>3, <2>4, <2>5 DEF Memory
    <3>2. ASSUME NEW x \in Memory \ {last} PROVE \E i \in 1..size - 1 : x = cache[i]
      <4>1. PICK i \in DOMAIN cache : x = cache[i]
        BY DEF Memory
      <4>2. i # Len(cache)
        BY <4>1 DEF last
      <4> QED BY <2>4, <4>1, <4>2
    <3> QED BY <3>1, <3>2
  <2>7. Memory' = (Memory \ {last}) \cup {o}
    BY <1>10, <2>6
  <2> QED BY <1>4, <1>9, <2>1, <2>2, <2>7
<1> QED BY <1>11, <1>12

\* The caller that a flight names leads it.
FlightLed ==
  \A k \in Keys : flight[k] # None => Leading(flight[k]) /\ key[flight[k]] = k

\* No entry comes in but the one of a key that the cache has not.
LEMMA DistinctKept ==
  ASSUME DirInv, CallInv, Distinct, [Next]_vars
  PROVE  Distinct'
<1> USE DEF CallInv
<1>1. CASE UNCHANGED cache
  BY <1>1 DEF Distinct
<1>2. ASSUME NEW c \in Callers, LookUp(c) \/ Recheck(c) PROVE Distinct'
  <2>1. UNCHANGED cache \/ (Cached(key[c]) /\ cache' = Promoted(key[c]))
    BY <1>2 DEF LookUp, Recheck, CachedByNow
  <2> QED BY <1>1, <2>1, PromotedMemory
<1>3. ASSUME NEW c \in Callers, AddToCache(c) PROVE Distinct'
  <2>1. pc[c] = "computed" /\ cache' = Added(outcome[c])
    BY <1>3 DEF AddToCache, Move
  <2>2. outcome[c] \in Outcome /\ ~Cached(outcome[c].key)
    BY <2>1 DEF FlightInv, Computing
  <2> QED BY <2>1, <2>2, AddedMemory
<1>4. ASSUME NEW c \in Callers,
             \/ \E k \in Keys : Call(c, k)
             \/ Cancel(c) \/ FirstParentFails(c) \/ LeaveQueue(c)
             \/ \E why \in {"ceiling", "cancelled"} : Abandon(c, why)
             \/ JoinFlight(c) \/ NewDir(c) \/ StartJob(c) \/ Receive(c) \/ EndFlight(c)
      PROVE  UNCHANGED cache
  BY <1>4 DEF Call, Cancel, FirstParentFails, LeaveQueue, Abandon, JoinFlight, NewDir,
              StartJob, Receive, EndFlight
<1>5. ASSUME NEW j \in Job, GoroutineStep(j) PROVE UNCHANGED cache
  BY <1>5 DEF GoroutineStep, JobEnds, JobReleases, WaiterCleans
<1>6. UNCHANGED vars => UNCHANGED cache
  BY DEF vars
<1> QED BY <1>1, <1>2, <1>3, <1>4, <1>5, <1>6 DEF Next, CallerStep

LEMMA FlightLedKept ==
  ASSUME DirInv, CallInv, FlightLed, [Next]_vars
  PROVE  FlightLed'
<1> USE DEF CallInv, CallTypes, DirInv, JobTypes
<1>1. ASSUME UNCHANGED <<key, flight>>, \A c \in Callers : Leading(c) => Leading(c)'
      PROVE  FlightLed'
  BY <1>1 DEF FlightLed
<1>2. ASSUME NEW c \in Callers, NEW k \in Keys, Call(c, k) PROVE FlightLed'
  <2>1. /\ pc[c] = "idle" /\ flight' = flight
        /\ \A f \in Callers \ {c} : pc'[f] = pc[f] /\ key'[f] = key[f]
    BY <1>2 DEF Call, Move
  <2>2. \A f \in Callers : Leading(f) => f # c
    BY <2>1 DEF Leading
  <2> QED BY <2>1, <2>2 DEF FlightLed, Leading
<1>3. ASSUME NEW c \in Callers, JoinFlight(c) PROVE FlightLed'
  <2>1. key' = key /\ pc[c] = "missed" /\ \A f \in Callers \ {c} : pc'[f] = pc[f]
    BY <1>3 DEF JoinFlight, Move
  <2>2. \A f \in Callers : Leading(f) => Leading(f)'
    BY <2>1 DEF Leading
  <2>3. CASE flight[key[c]] = None
    <3>1. pc'[c] = "leading" /\ flight' = [flight EXCEPT ![key[c]] = c]
      BY <1>3, <2>3 DEF JoinFlight, Move, FlightKey
    <3>2. Leading(c)'
      BY <3>1 DEF Leading
    <3> QED BY <2>1, <2>2, <3>1, <3>2 DEF FlightLed
  <2>4. CASE flight[key[c]] # None
    BY <1>1, <1>3, <2>1, <2>2, <2>4 DEF JoinFlight, FlightKey
  <2> QED BY <2>3, <2>4
<1>4. ASSUME NEW c \in Callers, EndFlight(c) PROVE FlightLed'
  <2>1. /\ key' = key /\ flight' = [flight EXCEPT ![key[c]] = None]
        /\ \A f \in Callers : f \notin Landed(c) => pc'[f] = pc[f]
    BY <1>4 DEF EndFlight, FlightKey
  <2>2. \A f \in Landed(c) : Leading(f) => f = c
    BY DEF Landed, Leading
  <2> QED BY <2>1, <2>2 DEF FlightLed, Leading
<1>5. ASSUME NEW c \in Callers,
             \/ Cancel(c) \/ FirstParentFails(c) \/ LeaveQueue(c)
             \/ \E why \in {"ceiling", "cancelled"} : Abandon(c, why)
             \/ LookUp(c) \/ Recheck(c) \/ NewDir(c) \/ StartJob(c) \/ Receive(c)
             \/ AddToCache(c)
      PROVE  UNCHANGED <<key, flight>> /\ \A f \in Callers : Leading(f) => Leading(f)'
  <2>1. UNCHANGED <<key, flight>>
    BY <1>5 DEF Cancel, FirstParentFails, LeaveQueue, Abandon, LookUp, Recheck, NewDir,
                StartJob, Receive, AddToCache
  <2>2. \/ pc' = pc
        \/ \E to \in {"dir", "queued", "waiting", "computed", "added"} :
             pc' = [pc EXCEPT ![c] = to]
        \/ ~Leading(c) /\ \E to \in Places : pc' = [pc EXCEPT ![c] = to]
    <3>1. CASE Cancel(c)
      BY <3>1 DEF Cancel
    <3>2. CASE FirstParentFails(c) \/ LookUp(c)
      BY <3>2 DEF FirstParentFails, LookUp, Move, Leading, Places
    <3>3. CASE \/ LeaveQueue(c) \/ \E why \in {"ceiling", "cancelled"} : Abandon(c, why)
               \/ Recheck(c) \/ NewDir(c) \/ StartJob(c) \/ AddToCache(c)
      BY <3>3 DEF LeaveQueue, Abandon, Recheck, NewDir, StartJob, AddToCache, Move
    <3>4. CASE Receive(c)
      BY <3>4 DEF Receive, Materialized, Produced, Move
    <3> QED BY <1>5, <3>1, <3>2, <3>3, <3>4
  <2>3. \A f \in Callers : Leading(f) => Leading(f)'
    BY <2>2 DEF Leading
  <2> QED BY <2>1, <2>3
<1>6. ASSUME NEW j \in Job, GoroutineStep(j) PROVE UNCHANGED <<pc, key, flight>>
  BY <1>6 DEF GoroutineStep, JobEnds, JobReleases, WaiterCleans, callVars
<1>7. UNCHANGED vars => UNCHANGED <<pc, key, flight>>
  BY DEF vars, callVars
<1>8. UNCHANGED <<pc, key, flight>> => FlightLed'
  BY DEF FlightLed, Leading
<1> HIDE DEF CallInv, CallTypes, DirInv, JobTypes
<1> QED BY <1>1, <1>2, <1>3, <1>4, <1>5, <1>6, <1>7, <1>8 DEF Next, CallerStep

ServiceInv == DirInv /\ CallInv /\ Distinct /\ FlightLed

LEMMA ServiceInvariant == Spec => []ServiceInv
<1>1. Init => Distinct /\ FlightLed
  BY DEF Init, Distinct, FlightLed
<1>2. DirInv /\ CallInv /\ Distinct /\ FlightLed /\ [Next]_vars => Distinct' /\ FlightLed'
  BY DistinctKept, FlightLedKept
<1> QED BY <1>1, <1>2, DirInvariant, CallInvariant, PTL DEF Spec, ServiceInv

ServiceTypes ==
  /\ pc \in [Callers -> Places] /\ key \in [Callers -> Keys]
  /\ outcome \in [Callers -> Outcome \cup {None}]
  /\ flight \in [Keys -> Callers \cup {None}] /\ None \notin Callers

LEMMA ServiceTyped ==
  ASSUME ServiceInv
  PROVE  ServiceTypes
  BY EngineAssumption DEF ServiceInv, DirInv, JobTypes, CallInv, CallTypes, ServiceTypes

\* What the service does not show: a computation that goes on, a call between its
\* two looks at the cache, and who does it.
LEMMA Unseen ==
  ASSUME ServiceTypes, UNCHANGED <<key, flight>>, Memory' = Memory,
         \A f \in Callers :
           \/ pc'[f] = pc[f] /\ outcome'[f] = outcome[f]
           \/ Computing(f) /\ Computing(f)'
           \/ pc[f] \in {"called", "missed"} /\ pc'[f] \in {"called", "missed"}
  PROVE  UNCHANGED Service!vars
<1>1. \A f \in Callers : /\ Stage(f)' = Stage(f) /\ Computing(f)' = Computing(f)
                         /\ pc'[f] = "idle" <=> pc[f] = "idle"
                         /\ pc'[f] = "added" <=> pc[f] = "added"
                         /\ pc[f] \in {"idle", "added"} => outcome'[f] = outcome[f]
  BY DEF Stage, Computing
<1>2. Stages' = Stages /\ Answers' = Answers /\ KeysComputed' = KeysComputed
  BY <1>1 DEF Stages, Answers, KeysComputed
<1>3. \A k \in Keys : Landing(k)' = Landing(k)
  BY <1>1 DEF Landing, ServiceTypes
<1>4. Landings' = Landings
  BY <1>3 DEF Landings
<1> QED BY <1>2, <1>4 DEF Service!vars

\* One call moves between stages, and no flight is about to land for it.
LEMMA OneMoves ==
  ASSUME ServiceTypes, NEW c \in Callers, NEW to \in Places,
         pc' = [pc EXCEPT ![c] = to], ~Computing(c), ~Computing(c)'
  PROVE  /\ Stages' = [Stages EXCEPT ![c] = Stage(c)']
         /\ \A f \in Callers : Computing(f)' = Computing(f)
         /\ key' = key => KeysComputed' = KeysComputed
<1>1. \A f \in Callers \ {c} : pc'[f] = pc[f]
  BY DEF ServiceTypes
<1>2. \A f \in Callers \ {c} : Stage(f)' = Stage(f)
  BY <1>1 DEF Stage
<1>3. \A f \in Callers : Computing(f)' = Computing(f)
  BY <1>1 DEF Computing
<1>4. Stages' = [f \in Callers |-> Stage(f)']
  BY DEF Stages
<1>5. Stages' = [Stages EXCEPT ![c] = Stage(c)']
  BY <1>2, <1>4 DEF Stages
<1> QED BY <1>3, <1>5 DEF KeysComputed

LEMMA CallRefines ==
  ASSUME ServiceInv, NEW c \in Callers, NEW k \in Keys, Call(c, k)
  PROVE  Service!Ask(c, k)
<1>1. ServiceTypes
  BY ServiceTyped
<1>2. /\ pc[c] = "idle" /\ pc' = [pc EXCEPT ![c] = "called"]
      /\ key' = [key EXCEPT ![c] = k] /\ outcome' = [outcome EXCEPT ![c] = None]
      /\ UNCHANGED <<cache, flight>>
  BY DEF Call, Move
<1>3. pc'[c] = "called" /\ \A f \in Callers \ {c} : /\ pc'[f] = pc[f] /\ key'[f] = key[f]
                                                  /\ outcome'[f] = outcome[f]
  BY <1>1, <1>2 DEF ServiceTypes
<1>4. ~Computing(c) /\ ~Computing(c)' /\ Stage(c) = "idle" /\ Stage(c)' = "asked"
  BY <1>2, <1>3 DEF Computing, Stage
<1>5. Stages' = [Stages EXCEPT ![c] = "asked"] /\ Stages[c] = "idle"
      /\ \A f \in Callers : Computing(f)' = Computing(f)
  BY <1>1, <1>2, <1>4, OneMoves DEF Places, Stages
<1>6. KeysComputed' = KeysComputed
  BY <1>3, <1>4, <1>5 DEF KeysComputed
<1>7. Answers' = [Answers EXCEPT ![c] = None]
  BY <1>2, <1>3 DEF Answers
<1>8. \A j \in Keys : flight[j] # c
  BY <1>2, EngineAssumption DEF ServiceInv, FlightLed, Leading
<1>9. \A j \in Keys : Landing(j)' = Landing(j)
  BY <1>1, <1>2, <1>3, <1>8 DEF Landing, ServiceTypes
<1>10. Landings' = Landings /\ Memory' = Memory
  BY <1>2, <1>9 DEF Landings, Memory
<1> QED BY <1>2, <1>5, <1>6, <1>7, <1>10 DEF Service!Ask, Service!Moves, Service!Told

\* A call is answered from its first stage.
LEMMA Answered ==
  ASSUME ServiceInv, NEW c \in Callers, pc[c] = "called",
         pc' = [pc EXCEPT ![c] = "idle"], NEW o, outcome' = [outcome EXCEPT ![c] = o],
         UNCHANGED <<key, flight>>
  PROVE  /\ Stages[c] = "asked" /\ Stages' = [Stages EXCEPT ![c] = "idle"]
         /\ Answers' = [Answers EXCEPT ![c] = o]
         /\ UNCHANGED <<KeysComputed, Landings>>
<1>1. ServiceTypes
  BY ServiceTyped
<1>2. pc'[c] = "idle" /\ outcome'[c] = o
      /\ \A f \in Callers \ {c} : pc'[f] = pc[f] /\ outcome'[f] = outcome[f]
  BY <1>1 DEF ServiceTypes
<1>3. ~Computing(c) /\ ~Computing(c)' /\ Stage(c) = "asked" /\ Stage(c)' = "idle"
  BY <1>2 DEF Computing, Stage
<1>4. /\ Stages' = [Stages EXCEPT ![c] = "idle"] /\ Stages[c] = "asked"
      /\ KeysComputed' = KeysComputed
  BY <1>1, <1>3, OneMoves DEF Places, Stages
<1>5. Answers' = [Answers EXCEPT ![c] = o]
  BY <1>2 DEF Answers
<1>6. \A j \in Keys : flight[j] # c
  BY EngineAssumption DEF ServiceInv, FlightLed, Leading
<1>7. \A j \in Keys : Landing(j)' = Landing(j)
  BY <1>1, <1>2, <1>6 DEF Landing, ServiceTypes
<1>8. Landings' = Landings
  BY <1>7 DEF Landings
<1> QED BY <1>4, <1>5, <1>8

LEMMA FirstParentFailsRefines ==
  ASSUME ServiceInv, NEW c \in Callers, FirstParentFails(c)
  PROVE  Service!Refuse(c)
<1>1. ServiceTypes
  BY ServiceTyped
<1>2. PICK kind \in {"noPriorVersion", "internal"} : Answer(c, kind, "none")
  BY DEF FirstParentFails
<1> DEFINE o == [key |-> key[c], kind |-> kind, why |-> "none"]
<1>3. o \in Refusals /\ o.key = key[c]
  BY <1>1 DEF ServiceTypes, Refusals, Outcome, Kinds, Whys
<1>4. /\ pc[c] = "called" /\ pc' = [pc EXCEPT ![c] = "idle"]
      /\ outcome' = [outcome EXCEPT ![c] = o] /\ UNCHANGED <<key, flight, cache>>
  BY <1>2 DEF FirstParentFails, Move, Answer
<1> HIDE DEF o
<1>5. /\ Stages[c] = "asked" /\ Stages' = [Stages EXCEPT ![c] = "idle"]
      /\ Answers' = [Answers EXCEPT ![c] = o]
      /\ UNCHANGED <<KeysComputed, Landings>>
  BY <1>4, Answered
<1>6. Memory' = Memory
  BY <1>4 DEF Memory
<1> QED BY <1>3, <1>4, <1>5, <1>6 DEF Service!Refuse, Service!Moves, Service!Told

\* What the cache holds of a key.
LEMMA EntryRemembered ==
  ASSUME ServiceInv, NEW k, Cached(k)
  PROVE  Entry(k) \in Service!Remembered(k) /\ Entry(k) \in Outcome
<1>1. /\ Position(k) \in 1..Len(cache) /\ Entry(k) \in Outcome /\ Entry(k).key = k
      /\ DOMAIN cache = 1..Len(cache)
  BY EntryOfKey DEF ServiceInv, CallInv, CallTypes
<1> QED BY <1>1 DEF Entry, Memory, Service!Remembered

LEMMA LookUpRefines ==
  ASSUME ServiceInv, NEW c \in Callers, LookUp(c)
  PROVE  Service!Recall(c) \/ UNCHANGED Service!vars
<1>1. ServiceTypes
  BY ServiceTyped
<1>2. CASE Cached(key[c])
  <2>1. /\ pc[c] = "called" /\ pc' = [pc EXCEPT ![c] = "idle"]
        /\ outcome' = [outcome EXCEPT ![c] = Entry(key[c])]
        /\ cache' = Promoted(key[c]) /\ UNCHANGED <<key, flight>>
    BY <1>2 DEF LookUp, Move
  <2>2. /\ Stages[c] = "asked" /\ Stages' = [Stages EXCEPT ![c] = "idle"]
        /\ Answers' = [Answers EXCEPT ![c] = Entry(key[c])]
        /\ UNCHANGED <<KeysComputed, Landings>>
    BY <2>1, Answered
  <2>3. Memory' = Memory
    BY <1>2, <2>1, PromotedMemory DEF ServiceInv, CallInv
  <2>4. Entry(key[c]) \in Service!Remembered(key[c])
    BY <1>2, EntryRemembered
  <2> QED BY <2>1, <2>2, <2>3, <2>4 DEF Service!Recall, Service!Moves, Service!Told
<1>3. CASE ~Cached(key[c])
  <2>1. /\ pc[c] = "called" /\ pc' = [pc EXCEPT ![c] = "missed"]
        /\ UNCHANGED <<key, flight, outcome, cache>>
    BY <1>3 DEF LookUp, Move
  <2>2. pc'[c] = "missed" /\ \A f \in Callers \ {c} : pc'[f] = pc[f]
    BY <1>1, <2>1 DEF ServiceTypes
  <2>3. Memory' = Memory
    BY <2>1 DEF Memory
  <2> QED BY <1>1, <2>1, <2>2, <2>3, Unseen
<1> QED BY <1>2, <1>3

LEMMA JoinFlightRefines ==
  ASSUME ServiceInv, NEW c \in Callers, JoinFlight(c)
  PROVE  Service!Await(c)
<1>1. ServiceTypes
  BY ServiceTyped
<1>2. /\ pc[c] = "missed" /\ UNCHANGED <<key, outcome, cache>>
      /\ \/ /\ flight[key[c]] = None /\ pc' = [pc EXCEPT ![c] = "leading"]
            /\ flight' = [flight EXCEPT ![key[c]] = c]
         \/ pc' = [pc EXCEPT ![c] = "following"] /\ flight' = flight
  BY DEF JoinFlight, Move, FlightKey
<1>3. pc'[c] \in {"leading", "following"} /\ \A f \in Callers \ {c} : pc'[f] = pc[f]
  BY <1>1, <1>2 DEF ServiceTypes
<1>4. ~Computing(c) /\ ~Computing(c)' /\ Stage(c) = "asked" /\ Stage(c)' = "awaits"
  BY <1>2, <1>3 DEF Computing, Stage
<1>5. /\ Stages' = [Stages EXCEPT ![c] = "awaits"] /\ Stages[c] = "asked"
      /\ KeysComputed' = KeysComputed
  <2>1. PICK to \in {"leading", "following"} : pc' = [pc EXCEPT ![c] = to]
    BY <1>2
  <2> QED BY <1>1, <1>2, <1>4, <2>1, OneMoves DEF Places, Stages
<1>6. Answers' = Answers
  BY <1>2, <1>3 DEF Answers
<1>7. \A j \in Keys : Landing(j)' = Landing(j)
  <2>1. \A j \in Keys : flight[j] # c
    BY <1>2, EngineAssumption DEF ServiceInv, FlightLed, Leading
  <2>2. \A j \in Keys : flight'[j] = flight[j] \/ (flight[j] = None /\ flight'[j] = c)
    BY <1>1, <1>2 DEF ServiceTypes
  <2> QED BY <1>1, <1>2, <1>3, <2>1, <2>2 DEF Landing, ServiceTypes
<1>8. Landings' = Landings /\ Memory' = Memory
  BY <1>2, <1>7 DEF Landings, Memory
<1> QED BY <1>2, <1>5, <1>6, <1>8 DEF Service!Await, Service!Moves

\* The caller that leads is alone with its key.
LEMMA LedAlone ==
  ASSUME ServiceInv, NEW c \in Callers, Leading(c)
  PROVE  /\ key[c] \in Keys /\ flight[key[c]] = c
         /\ \A f \in Callers \ {c} : Leading(f) => key[f] # key[c]
         /\ \A k \in Keys : flight[k] = c => k = key[c]
<1>1. ServiceTypes
  BY ServiceTyped
<1>2. \A f \in Callers : Leading(f) => flight[key[f]] = f
  BY DEF ServiceInv, CallInv, FlightInv
<1>3. c # None
  BY <1>1 DEF ServiceTypes
<1> QED BY <1>1, <1>2, <1>3 DEF ServiceInv, FlightLed, ServiceTypes

\* A step of c between places at which it leads.
LEMMA LeaderMoves ==
  ASSUME ServiceInv, NEW c \in Callers, Leading(c), Leading(c)',
         NEW to, pc' = [pc EXCEPT ![c] = to],
         UNCHANGED <<key, flight>>,
         \A f \in Callers \ {c} : outcome'[f] = outcome[f]
  PROVE  /\ Stages' = Stages /\ Answers' = Answers /\ Stages[c] = "awaits"
         /\ Landings' = [Landings EXCEPT ![key[c]] =
                            IF pc'[c] = "added" THEN outcome'[c] ELSE None]
         /\ KeysComputed' = (KeysComputed \ {key[c]})
                              \cup (IF Computing(c)' THEN {key[c]} ELSE {})
         /\ key[c] \in KeysComputed <=> Computing(c)
<1>1. ServiceTypes
  BY ServiceTyped
<1>2. pc'[c] = to /\ \A f \in Callers \ {c} : pc'[f] = pc[f]
  BY <1>1 DEF ServiceTypes
<1>3. /\ \A f \in Callers : Stage(f)' = Stage(f)
      /\ Stage(c) = "awaits" /\ pc[c] # "idle" /\ pc'[c] # "idle"
  BY <1>2 DEF Stage, Leading
<1>4. Stages' = Stages /\ Answers' = Answers /\ Stages[c] = "awaits"
  BY <1>2, <1>3 DEF Stages, Answers
<1>5. /\ key[c] \in Keys /\ flight[key[c]] = c
      /\ \A f \in Callers \ {c} : Leading(f) => key[f] # key[c]
      /\ \A k \in Keys : flight[k] = c => k = key[c]
  BY LedAlone
<1>6. \A k \in Keys : Landing(k)' =
         IF k = key[c] THEN (IF pc'[c] = "added" THEN outcome'[c] ELSE None) ELSE Landing(k)
  BY <1>1, <1>2, <1>5 DEF Landing, ServiceTypes
<1>7. Landings' = [Landings EXCEPT ![key[c]] =
                     IF pc'[c] = "added" THEN outcome'[c] ELSE None]
  BY <1>6 DEF Landings
<1>8. \A f \in Callers \ {c} : /\ Computing(f)' = Computing(f)
                             /\ Computing(f) => key[f] # key[c]
  BY <1>2, <1>5 DEF Computing, Leading
<1>9. /\ \A k : k \in KeysComputed <=> \E f \in Callers : Computing(f) /\ k = key[f]
      /\ \A k : k \in KeysComputed' <=> \E f \in Callers : Computing(f)' /\ k = key[f]
  BY DEF KeysComputed, Computing
<1>10. key[c] \in KeysComputed <=> Computing(c)
  BY <1>8, <1>9 DEF Computing
<1>11. ASSUME NEW k
       PROVE  k \in KeysComputed' <=>
                (k \in KeysComputed /\ k # key[c]) \/ (Computing(c)' /\ k = key[c])
  <2>1. CASE k = key[c]
    <3>1. k \in KeysComputed' <=> Computing(c)'
      BY <1>8, <1>9, <2>1 DEF Computing
    <3> QED BY <2>1, <3>1
  <2>2. CASE k # key[c]
    <3>1. k \in KeysComputed' <=> k \in KeysComputed
      BY <1>8, <1>9, <2>2 DEF Computing
    <3> QED BY <2>2, <3>1
  <2> QED BY <2>1, <2>2
<1>12. KeysComputed' = (KeysComputed \ {key[c]})
                         \cup (IF Computing(c)' THEN {key[c]} ELSE {})
  <2> DEFINE K == KeysComputed
             L == KeysComputed'
             is == Computing(c)'
  <2>1. \A k : k \in L <=> (k \in K /\ k # key[c]) \/ (is /\ k = key[c])
    BY <1>11
  <2> HIDE DEF K, L, is
  <2>2. L = (K \ {key[c]}) \cup (IF is THEN {key[c]} ELSE {})
    BY <2>1
  <2> QED BY <2>2 DEF K, L, is
<1> QED BY <1>4, <1>7, <1>10, <1>12

LEMMA RecheckRefines ==
  ASSUME ServiceInv, NEW c \in Callers, Recheck(c)
  PROVE  Service!Begin(key[c]) \/ Service!Reuse(key[c])
<1> DEFINE k == key[c]
<1>1. ServiceTypes
  BY ServiceTyped
<1>2. /\ pc[c] = "leading" /\ UNCHANGED <<key, flight>>
      /\ \/ /\ Cached(k) /\ pc' = [pc EXCEPT ![c] = "added"]
            /\ outcome' = [outcome EXCEPT ![c] = Entry(k)] /\ cache' = Promoted(k)
         \/ ~Cached(k) /\ pc' = [pc EXCEPT ![c] = "dir"] /\ UNCHANGED <<outcome, cache>>
  BY DEF Recheck, Move, CachedByNow
<1>3. /\ pc'[c] = IF Cached(k) THEN "added" ELSE "dir"
      /\ \A f \in Callers \ {c} : pc'[f] = pc[f] /\ outcome'[f] = outcome[f]
      /\ Cached(k) => outcome'[c] = Entry(k)
  BY <1>1, <1>2 DEF ServiceTypes
<1>4. Leading(c) /\ Leading(c)' /\ ~Computing(c) /\ (Computing(c)' <=> ~Cached(k))
  BY <1>2, <1>3 DEF Leading, Computing
<1>5. /\ Stages' = Stages /\ Answers' = Answers /\ Stages[c] = "awaits"
      /\ Landings' = [Landings EXCEPT ![k] =
                         IF pc'[c] = "added" THEN outcome'[c] ELSE None]
      /\ KeysComputed' = (KeysComputed \ {k}) \cup (IF Computing(c)' THEN {k} ELSE {})
      /\ k \in KeysComputed <=> Computing(c)
  <2>1. PICK to : pc' = [pc EXCEPT ![c] = to]
    BY <1>2
  <2> QED BY <1>2, <1>3, <1>4, <2>1, LeaderMoves
<1>6. k \in Keys /\ Landings[k] = None
  <2>1. k \in Keys /\ flight[k] = c
    BY <1>4, LedAlone
  <2> QED BY <1>2, <2>1 DEF Landings, Landing
<1>7. Service!Unserved(k)
  <2>1. c \in Service!Awaiting(k)
    BY <1>5 DEF Service!Awaiting
  <2> QED BY <1>4, <1>5, <1>6, <2>1 DEF Service!Unserved
<1>8. CASE Cached(k)
  <2>1. Landings' = [Landings EXCEPT ![k] = Entry(k)] /\ KeysComputed' = KeysComputed
    BY <1>3, <1>4, <1>5, <1>8
  <2>2. Memory' = Memory
    BY <1>2, <1>8, PromotedMemory DEF ServiceInv, CallInv
  <2>3. Entry(k) \in Service!Remembered(k)
    BY <1>8, EntryRemembered
  <2> QED BY <1>2, <1>5, <1>7, <2>1, <2>2, <2>3 DEF Service!Reuse
<1>9. CASE ~Cached(k)
  <2>1. Service!Remembered(k) = {}
    BY <1>9 DEF Service!Remembered, Memory, Cached
  <2>2. Landings' = Landings
    BY <1>3, <1>5, <1>6, <1>9 DEF Landings
  <2>3. KeysComputed' = KeysComputed \cup {k}
    BY <1>4, <1>5, <1>9
  <2>4. Memory' = Memory
    BY <1>2, <1>9 DEF Memory
  <2> QED BY <1>2, <1>5, <1>7, <2>1, <2>2, <2>3, <2>4 DEF Service!Begin
<1> QED BY <1>8, <1>9

LEMMA AddToCacheRefines ==
  ASSUME ServiceInv, NEW c \in Callers, AddToCache(c)
  PROVE  Service!Finish(key[c])
<1> DEFINE k == key[c]
           o == outcome[c]
<1>1. ServiceTypes
  BY ServiceTyped
<1>2. /\ pc[c] = "computed" /\ pc' = [pc EXCEPT ![c] = "added"]
      /\ cache' = Added(o) /\ UNCHANGED <<key, outcome, flight>>
  BY DEF AddToCache, Move
<1>3. o \in Outcome /\ o.key = k /\ ~Cached(o.key)
  BY <1>2 DEF ServiceInv, CallInv, FlightInv, Computing
<1>4. Leading(c) /\ Leading(c)' /\ Computing(c) /\ ~Computing(c)' /\ pc'[c] = "added"
  BY <1>1, <1>2 DEF Leading, Computing, ServiceTypes
<1>5. /\ Stages' = Stages /\ Answers' = Answers
      /\ Landings' = [Landings EXCEPT ![k] = o]
      /\ KeysComputed' = KeysComputed \ {k} /\ k \in KeysComputed
  BY <1>2, <1>4, LeaderMoves
<1>6. \/ Cardinality(Memory) < CacheEntries /\ Memory' = Memory \cup {o}
      \/ /\ Cardinality(Memory) = CacheEntries
         /\ \E old \in Memory : Memory' = (Memory \ {old}) \cup {o}
  BY <1>2, <1>3, AddedMemory DEF ServiceInv, CallInv
<1> HIDE DEF o, k
<1>7. Service!Cardinality(Memory) = Cardinality(Memory)
  BY DEF Service!Cardinality, Cardinality
<1>8. Service!Remember(o)
  BY <1>6, <1>7 DEF Service!Remember
<1>9. Service!Finish(k)
  BY <1>2, <1>3, <1>5, <1>8 DEF Service!Finish
<1> QED BY <1>9 DEF k

LEMMA EndFlightRefines ==
  ASSUME ServiceInv, NEW c \in Callers, EndFlight(c)
  PROVE  Service!Tell(key[c])
<1> DEFINE k == key[c]
<1>1. ServiceTypes
  BY ServiceTyped
<1>2. /\ pc[c] = "added" /\ UNCHANGED <<key, cache>>
      /\ pc' = [f \in Callers |-> IF f \in Landed(c) THEN "idle" ELSE pc[f]]
      /\ outcome' = [f \in Callers |-> IF f \in Landed(c) THEN outcome[c] ELSE outcome[f]]
      /\ flight' = [flight EXCEPT ![k] = None]
  BY DEF EndFlight, FlightKey
<1>3. /\ k \in Keys /\ flight[k] = c
      /\ \A f \in Callers \ {c} : Leading(f) => key[f] # k
      /\ \A j \in Keys : flight[j] = c => j = k
  BY <1>2, LedAlone DEF Leading
<1>4. Landings[k] = outcome[c] /\ outcome[c] # None
  <2>1. Landing(k) = outcome[c]
    BY <1>1, <1>2, <1>3 DEF Landing, ServiceTypes
  <2>2. outcome[c].key = key[c] /\ outcome[c] \in Outcome
    BY <1>2 DEF ServiceInv, CallInv, FlightInv
  <2>3. outcome[c] # None
    BY <2>2, EngineAssumption
  <2> QED BY <1>3, <2>1, <2>3 DEF Landings
<1>5. \A f \in Callers : f \in Landed(c) <=> Stages[f] = "awaits" /\ key[f] = k
  BY <1>1, <1>2, <1>3 DEF Landed, FlightKey, Stages, Stage, Leading, Places, ServiceTypes
<1>6. Landed(c) = Service!Awaiting(k)
  BY <1>5 DEF Service!Awaiting, Landed
<1>7. Stages' = [f \in Callers |-> IF f \in Landed(c) THEN "idle" ELSE Stages[f]]
  BY <1>2 DEF Stages, Stage
<1>8. Answers' = [f \in Callers |-> IF f \in Landed(c) THEN Landings[k] ELSE Answers[f]]
  BY <1>2, <1>4 DEF Answers
<1>9. KeysComputed' = KeysComputed
  <2>1. \A f \in Callers : Computing(f)' = Computing(f)
    BY <1>2 DEF Computing, Landed
  <2> QED BY <1>2, <2>1 DEF KeysComputed
<1>10. Landings' = [Landings EXCEPT ![k] = None]
  <2>1. \A j \in Keys : Landing(j)' = IF j = k THEN None ELSE Landing(j)
    <3> SUFFICES ASSUME NEW j \in Keys, j # k
                 PROVE  Landing(j)' = Landing(j)
      BY <1>1, <1>2 DEF Landing, ServiceTypes
    <3>1. flight'[j] = flight[j]
      BY <1>1, <1>2 DEF ServiceTypes
    <3>2. flight[j] # None => flight[j] \in Callers \ Landed(c)
      <4>1. flight[j] # None => Leading(flight[j]) /\ flight[j] # c /\ flight[j] \in Callers
        BY <1>1, <1>3 DEF ServiceInv, FlightLed, ServiceTypes
      <4> QED BY <4>1 DEF Landed, Leading
    <3> QED BY <1>2, <3>1, <3>2 DEF Landing
  <2> QED BY <2>1 DEF Landings
<1>11. Memory' = Memory
  BY <1>2 DEF Memory
<1> QED BY <1>2, <1>4, <1>6, <1>7, <1>8, <1>9, <1>10, <1>11 DEF Service!Tell

\* A step that computes, hangs up, or runs beside the calls.
LEMMA ComputingUnseen ==
  ASSUME ServiceInv, NEW c \in Callers,
         \/ Cancel(c) \/ LeaveQueue(c) \/ NewDir(c) \/ StartJob(c) \/ Receive(c)
         \/ \E why \in {"ceiling", "cancelled"} : Abandon(c, why)
  PROVE  UNCHANGED Service!vars
<1>1. ServiceTypes
  BY ServiceTyped
<1>2. UNCHANGED <<key, flight, cache>>
  BY DEF Cancel, LeaveQueue, NewDir, StartJob, Receive, Abandon
<1>3. Memory' = Memory
  BY <1>2 DEF Memory
<1>4. CASE Cancel(c)
  <2>1. pc' = pc /\ outcome' = outcome
    BY <1>4 DEF Cancel
  <2> QED BY <1>1, <1>2, <1>3, <2>1, Unseen
<1>5. CASE ~Cancel(c)
  <2>1. /\ pc[c] \in {"dir", "queued", "waiting"}
        /\ \E to \in {"dir", "queued", "waiting", "computed"} : pc' = [pc EXCEPT ![c] = to]
    <3>1. CASE \/ LeaveQueue(c) \/ NewDir(c) \/ StartJob(c)
               \/ \E why \in {"ceiling", "cancelled"} : Abandon(c, why)
      BY <3>1 DEF LeaveQueue, NewDir, StartJob, Abandon, Move
    <3>2. CASE Receive(c)
      BY <3>2 DEF Receive, Materialized, Produced, Move
    <3> QED BY <1>5, <3>1, <3>2
  <2>2. \E o : outcome' = [outcome EXCEPT ![c] = o]
    <3>1. UNCHANGED outcome => outcome' = [outcome EXCEPT ![c] = outcome[c]]
      BY <1>1 DEF ServiceTypes
    <3>2. CASE \/ LeaveQueue(c) \/ NewDir(c) \/ StartJob(c)
               \/ \E why \in {"ceiling", "cancelled"} : Abandon(c, why)
      BY <3>1, <3>2 DEF LeaveQueue, NewDir, StartJob, Abandon, Answer
    <3>3. CASE Receive(c)
      BY <3>1, <3>3 DEF Receive, Materialized, Produced, Answer
    <3> QED BY <1>5, <3>2, <3>3
  <2>3. /\ Computing(c) /\ Computing(c)'
        /\ \A f \in Callers \ {c} : pc'[f] = pc[f] /\ outcome'[f] = outcome[f]
    BY <1>1, <2>1, <2>2 DEF Computing, ServiceTypes
  <2> QED BY <1>1, <1>2, <1>3, <2>3, Unseen
<1> QED BY <1>4, <1>5

LEMMA BesidesUnseen ==
  ASSUME ServiceInv, UNCHANGED <<pc, key, outcome, flight, cache>>
  PROVE  UNCHANGED Service!vars
<1>1. Memory' = Memory
  BY DEF Memory
<1> QED BY <1>1, ServiceTyped, Unseen

LEMMA InitRefines == Init => Service!Init
<1> SUFFICES ASSUME Init PROVE Service!Init
  OBVIOUS
<1> USE DEF Init
<1>1. Stages = [c \in Callers |-> "idle"] /\ Answers = [c \in Callers |-> None]
  BY DEF Stages, Stage, Answers
<1>2. KeysComputed = {} /\ Memory = {}
  BY DEF KeysComputed, Computing, Memory
<1>3. Landings = [k \in Keys |-> None]
  BY DEF Landings, Landing
<1>4. key \in [Callers -> Keys]
  BY EngineAssumption
<1> HIDE DEF Init
<1> QED BY <1>1, <1>2, <1>3, <1>4 DEF Service!Init

LEMMA StepRefines ==
  ASSUME ServiceInv, [Next]_vars
  PROVE  [Service!Next]_(Service!vars)
<1>1. \A c \in Callers : key[c] \in Keys
  BY ServiceTyped DEF ServiceTypes
<1>2. ASSUME NEW c \in Callers, NEW k \in Keys, Call(c, k) PROVE Service!Next
  BY <1>2, CallRefines DEF Service!Next
<1>3. ASSUME NEW c \in Callers, FirstParentFails(c) PROVE Service!Next
  BY <1>3, FirstParentFailsRefines DEF Service!Next
<1>4. ASSUME NEW c \in Callers, LookUp(c) PROVE [Service!Next]_(Service!vars)
  BY <1>4, LookUpRefines DEF Service!Next
<1>5. ASSUME NEW c \in Callers, JoinFlight(c) PROVE Service!Next
  BY <1>5, JoinFlightRefines DEF Service!Next
<1>6. ASSUME NEW c \in Callers, Recheck(c) PROVE Service!Next
  BY <1>1, <1>6, RecheckRefines DEF Service!Next
<1>7. ASSUME NEW c \in Callers, AddToCache(c) PROVE Service!Next
  BY <1>1, <1>7, AddToCacheRefines DEF Service!Next
<1>8. ASSUME NEW c \in Callers, EndFlight(c) PROVE Service!Next
  BY <1>1, <1>8, EndFlightRefines DEF Service!Next
<1>9. ASSUME NEW c \in Callers,
             \/ Cancel(c) \/ LeaveQueue(c) \/ NewDir(c) \/ StartJob(c) \/ Receive(c)
             \/ \E why \in {"ceiling", "cancelled"} : Abandon(c, why)
      PROVE  UNCHANGED Service!vars
  BY <1>9, ComputingUnseen
<1>10. ASSUME NEW j \in Job, GoroutineStep(j) PROVE UNCHANGED Service!vars
  <2>1. UNCHANGED <<pc, key, outcome, flight, cache>>
    BY <1>10 DEF GoroutineStep, JobEnds, JobReleases, WaiterCleans, callVars
  <2> QED BY <2>1, BesidesUnseen
<1>11. CASE UNCHANGED vars
  <2>1. UNCHANGED <<pc, key, outcome, flight, cache>>
    BY <1>11 DEF vars, callVars
  <2> QED BY <2>1, BesidesUnseen
<1> QED BY <1>2, <1>3, <1>4, <1>5, <1>6, <1>7, <1>8, <1>9, <1>10, <1>11
           DEF Next, CallerStep

\* For any callers, keys, caps, cache size and bounds: the engine implements
\* DiffService, a call for a call and an answer for an answer.
THEOREM EngineImplementsService == Spec => ImplementsService
<1>1. Init => Service!Init
  BY InitRefines
<1>2. ServiceInv /\ [Next]_vars => [Service!Next]_(Service!vars)
  BY StepRefines
<1> QED BY <1>1, <1>2, ServiceInvariant, PTL DEF Spec, ImplementsService, Service!Spec
=============================================================================
