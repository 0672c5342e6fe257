----------------------------- MODULE RepoSources -----------------------------
(***************************************************************************)
(* The working copies of the tracked repositories: Cache.Get of            *)
(* internal/reposource with the clone, open, fetch and fast-forward of     *)
(* internal/gitsource and the token cache of internal/githubapp.           *)
(*                                                                         *)
(* The poller and every diff request call Get; one mutex is held across    *)
(* all of it.  Remotes are pushed to, the network fails, tokens expire     *)
(* while they are used, and the process stops at any point, with the clone *)
(* directories left behind or wiped.  A repository is one branch, and that *)
(* a counter of its states, so a push may as well rewrite it.  The branch  *)
(* has a name, which two repositories may not share and which may change.  *)
(***************************************************************************)
EXTENDS Naturals

CONSTANTS
  Callers,        \* the goroutines that call Get
  Repos,          \* repositories, as named in the config
  Local,          \* those named by a local path
  Https,          \* those named by an https:// URL (the rest is http://)
  Dirs,           \* clone directories
  clonePath,      \* the directory of each repository; may map two to one
  HasTokens,      \* is a GitHub App configured?
  Lifetime,       \* how long a token lives
  refreshBuffer,  \* how long before its expiry it is replaced
  Names,          \* names of branches
  FirstName,      \* the name each repository's branch has at first
  Detaches,       \* those whose HEAD may be on no branch when they are cloned
  None,           \* "nothing", and "nobody" for the mutex
  Renames,        \* those whose branch may get another name
  MaxPushes,      \* bound: pushes to and renamings of each repository (of a
                  \* local one there are none: nothing is fetched)
  MaxTime,        \* bound of the clock
  MaxStops        \* bound: stops of the process

\* What the constants are; a URL is not a path.
ASSUME SourcesAssumption ==
  /\ Local \subseteq Repos /\ Https \subseteq Repos \ Local
  /\ clonePath \in [Repos -> Dirs]
  /\ HasTokens \in BOOLEAN
  /\ Lifetime \in Nat /\ refreshBuffer \in Nat /\ refreshBuffer < Lifetime
  /\ FirstName \in [Repos -> Names]
  /\ Detaches \subseteq Repos /\ Renames \subseteq Repos \ Local
  /\ None \notin Callers \cup Repos \cup (Repos \X Nat) \cup Names
  /\ MaxPushes \in [Repos -> Nat] /\ MaxTime \in Nat /\ MaxStops \in Nat

VARIABLES
  branch,   \* the state each repository's branch is in, at its origin
  named,    \* what that branch is called there
  clones,   \* the clone directories
  cut,      \* history: directories whose clone a stop has cut short
  sources,  \* the repositories whose Source is in the Cache's map
  mu,       \* who holds the Cache's mutex
  token,    \* when the Provider's cached token expires, 0 for no token
  calls,    \* the calls of Get
  now,      \* the clock
  stops     \* stops of the process so far

vars == <<branch, named, clones, cut, sources, mu, token, calls, now, stops>>

\* Why a Get fails: somebody else (the network, the token endpoint, a path that
\* is not there), a token that expired, or the state of its clone.
Causes == {"unavailable", "expired", "broken"}

\* A call of Get: where it is, what it was called for and what the branch was
\* then, the token it took and when, the name of the branch its fetch brought,
\* and what it came to: how the Source it returned was obtained and the head it
\* had, or why it failed.  "unmoved" is a fetch that brought another branch than
\* the one the clone is on.
CallTypes ==
  [pc: {"idle", "waiting", "locked", "fetching", "forwarding", "opening",
        "cloning", "returned", "failed"},
   repo: Repos \cup {None}, asked: Nat, took: Nat, expires: Nat,
   brought: Names \cup {None},
   how: {"none", "fetched", "unmoved", "opened", "cloned"} \cup Causes,
   head: (Repos \X Nat) \cup {None}]

Idle ==
  [pc |-> "idle", repo |-> None, asked |-> 0, took |-> 0, expires |-> 0,
   brought |-> None, how |-> "none", head |-> None]

Waiting(r) ==
  [pc |-> "waiting", repo |-> r, asked |-> branch[r], took |-> 0, expires |-> 0,
   brought |-> None, how |-> "none", head |-> None]

\* A directory: nothing, what a cut clone left, or a clone with its
\* remote-tracking refs and the branch it is on, if any.
NoRefs == [n \in Names |-> None]

NoClone == [state |-> "none", on |-> None, tracking |-> NoRefs, head |-> None]

HalfClone == [state |-> "partial", on |-> None, tracking |-> NoRefs, head |-> None]

Tip(r) == <<r, branch[r]>>

\* Mutant: a clone that fails leaves its directory behind.
LeftBehind == HalfClone

\* A clone that fails takes its directory away again.
CleanedUp == NoClone

\* A clone is on the branch that the remote's HEAD is on, if on any.
ClonedFrom(r, on) ==
  [state |-> "whole", on |-> on,
   tracking |-> [NoRefs EXCEPT ![named[r]] = Tip(r)], head |-> Tip(r)]

isGitRepo(d) == clones[d].state # "none"

Init ==
  /\ branch = [r \in Repos |-> 0] /\ named = FirstName
  /\ clones = [d \in Dirs |-> NoClone] /\ cut = {}
  /\ sources = {} /\ mu = None /\ token = 0
  /\ calls = [c \in Callers |-> Idle]
  /\ now = 0 /\ stops = 0

----------------------------------------------------------------------------
(* The steps of Get.                                                       *)

Dir(c) == clonePath[calls[c].repo]

\* Mutant: a Get returns and keeps the mutex.
KeepsTheLock == mu' = mu

\* Get returns: its deferred Unlock runs.
Unlocks == mu' = None

\* A call that is over keeps what the properties speak of.
Returned(c, how, head) ==
  [pc |-> "returned", repo |-> calls[c].repo,
   asked |-> IF how \in {"opened", "unmoved"} THEN 0 ELSE calls[c].asked,
   took |-> 0, expires |-> 0, brought |-> None, how |-> how, head |-> head]

Failed(c, cause) ==
  [pc |-> "failed", repo |-> IF cause = "broken" THEN calls[c].repo ELSE None,
   asked |-> 0, took |-> IF cause = "expired" THEN calls[c].took ELSE 0,
   expires |-> 0, brought |-> None, how |-> cause, head |-> None]

Returns(c, how, head) ==
  calls' = [calls EXCEPT ![c] = Returned(c, how, head)] /\ Unlocks

Fails(c, cause) == calls' = [calls EXCEPT ![c] = Failed(c, cause)] /\ Unlocks

Get(c, r) ==
  /\ calls[c].pc \in {"idle", "returned", "failed"}
  /\ calls' = [calls EXCEPT ![c] = Waiting(r)]
  /\ UNCHANGED <<branch, named, clones, cut, sources, mu, token, now, stops>>

\* Mutant: the mutex guards the map alone, not the fetch.
NoLockHeld == TRUE

LockFree == mu = None

Lock(c) ==
  /\ calls[c].pc = "waiting" /\ LockFree
  /\ mu' = c
  /\ calls' = [calls EXCEPT ![c].pc = "locked"]
  /\ UNCHANGED <<branch, named, clones, cut, sources, token, now, stops>>

\* A local repository is opened once and never fetched.
GetLocal(c) ==
  LET r == calls[c].repo
  IN /\ calls[c].pc = "locked" /\ r \in Local
     /\ \/ Returns(c, "opened", Tip(r)) /\ sources' = sources \cup {r}
        \/ r \notin sources /\ Fails(c, "unavailable") /\ UNCHANGED sources
     /\ UNCHANGED <<branch, named, clones, cut, token, now, stops>>

\* Mutant: a cached token is used as long as it is valid.
ServedWhileValid == token > now

\* The cached token is good for longer than the refresh buffer.
ServedFromCache == now + refreshBuffer < token

\* authFor attaches a token to https:// repositories only.
TakesToken(r) == HasTokens /\ r \in Https

Authorized(c, pc, expires) ==
  [pc |-> pc, repo |-> calls[c].repo, asked |-> calls[c].asked,
   took |-> IF expires = 0 THEN 0 ELSE now, expires |-> expires,
   brought |-> None, how |-> "none", head |-> None]

\* authFor, then what comes next: the fetch of a Source in the map, the open
\* of a directory that looks like a clone, or the clone.
Authorize(c) ==
  LET r == calls[c].repo
      next == IF r \in sources THEN "fetching"
              ELSE IF isGitRepo(Dir(c)) THEN "opening" ELSE "cloning"
      Taking(e) == calls' = [calls EXCEPT ![c] = Authorized(c, next, e)]
  IN /\ calls[c].pc = "locked" /\ r \notin Local
     /\ \/ ~TakesToken(r) /\ Taking(0) /\ UNCHANGED token
        \/ TakesToken(r) /\ ServedFromCache /\ Taking(token) /\ UNCHANGED token
        \/ /\ TakesToken(r) /\ ~ServedFromCache
           /\ token' = now + Lifetime /\ Taking(token')
     /\ clones' = IF next = "cloning"
                    THEN [clones EXCEPT ![Dir(c)] = HalfClone] ELSE clones
     /\ UNCHANGED <<branch, named, cut, sources, mu, now, stops>>

\* The token endpoint does not answer with a token.
AuthorizeFails(c) ==
  /\ calls[c].pc = "locked"
  /\ TakesToken(calls[c].repo) /\ ~ServedFromCache
  /\ Fails(c, "unavailable")
  /\ UNCHANGED <<branch, named, clones, cut, sources, token, now, stops>>

\* The remote accepts the request.
Accepted(c) == TakesToken(calls[c].repo) => now < calls[c].expires

\* The ways a request to the remote fails.
RequestFails(c) == Fails(c, "unavailable") \/ (~Accepted(c) /\ Fails(c, "expired"))

Fetched(c) ==
  [pc |-> "forwarding", repo |-> calls[c].repo, asked |-> calls[c].asked,
   took |-> 0, expires |-> 0, brought |-> named[calls[c].repo],
   how |-> "none", head |-> None]

\* Fetch moves the remote-tracking ref of the repository's branch, whatever the
\* directory's clone is of; refs of branches that are gone stay.
Fetch(c) ==
  /\ calls[c].pc = "fetching" /\ Accepted(c)
  /\ clones' = [clones EXCEPT ![Dir(c)].tracking[named[calls[c].repo]] =
                  Tip(calls[c].repo)]
  /\ calls' = [calls EXCEPT ![c] = Fetched(c)]
  /\ UNCHANGED <<branch, named, cut, sources, mu, token, now, stops>>

\* A half-made clone may not have its remote either.
FetchFails(c) ==
  /\ calls[c].pc = "fetching"
  /\ \/ RequestFails(c)
     \/ clones[Dir(c)].state = "partial" /\ Fails(c, "broken")
  /\ UNCHANGED <<branch, named, clones, cut, sources, token, now, stops>>

\* What the branch of a clone is moved to: the remote-tracking ref of its own
\* name.  It stays where it is if there is none, or if HEAD is on no branch.
Forwarded(clone) ==
  IF clone.on = None \/ clone.tracking[clone.on] = None
    THEN clone.head ELSE clone.tracking[clone.on]

\* fastForwardToRemote.  A clone that was cut has a HEAD that resolves to
\* nothing.
Forward(c) ==
  /\ calls[c].pc = "forwarding"
  /\ LET clone == clones[Dir(c)]
         how == IF clone.on = calls[c].brought THEN "fetched" ELSE "unmoved"
     IN IF clone.state = "whole"
          THEN /\ clones' = [clones EXCEPT ![Dir(c)].head = Forwarded(clone)]
               /\ Returns(c, how, Forwarded(clone))
          ELSE Fails(c, "broken") /\ UNCHANGED clones
  /\ UNCHANGED <<branch, named, cut, sources, token, now, stops>>

\* An existing clone is opened without a fetch; a half-made one may open.
Open(c) ==
  /\ calls[c].pc = "opening"
  /\ \/ /\ Returns(c, "opened", clones[Dir(c)].head)
        /\ sources' = sources \cup {calls[c].repo}
     \/ /\ clones[Dir(c)].state = "partial" /\ Fails(c, "broken")
        /\ UNCHANGED sources
  /\ UNCHANGED <<branch, named, clones, cut, token, now, stops>>

Clone(c) ==
  /\ calls[c].pc = "cloning" /\ Accepted(c)
  /\ \E on \in {named[calls[c].repo]} \cup {None : r \in Detaches \cap {calls[c].repo}} :
       clones' = [clones EXCEPT ![Dir(c)] = ClonedFrom(calls[c].repo, on)]
  /\ sources' = sources \cup {calls[c].repo}
  /\ Returns(c, "cloned", Tip(calls[c].repo))
  /\ UNCHANGED <<branch, named, cut, token, now, stops>>

CloneFails(c) ==
  /\ calls[c].pc = "cloning"
  /\ RequestFails(c)
  /\ clones' = [clones EXCEPT ![Dir(c)] = CleanedUp]
  /\ UNCHANGED <<branch, named, cut, sources, token, now, stops>>

Step(c) ==
  \/ GetLocal(c) \/ Authorize(c) \/ AuthorizeFails(c)
  \/ Fetch(c) \/ FetchFails(c) \/ Forward(c)
  \/ Open(c) \/ Clone(c) \/ CloneFails(c)

----------------------------------------------------------------------------
(* The world around it.                                                    *)

Push(r) ==
  /\ branch[r] < MaxPushes[r]
  /\ branch' = [branch EXCEPT ![r] = @ + 1]
  /\ UNCHANGED <<named, clones, cut, sources, mu, token, calls, now, stops>>

\* The branch goes on under another name; the old one is gone.
Rename(r, n) ==
  /\ r \in Renames /\ branch[r] < MaxPushes[r] /\ n # named[r]
  /\ branch' = [branch EXCEPT ![r] = @ + 1]
  /\ named' = [named EXCEPT ![r] = n]
  /\ UNCHANGED <<clones, cut, sources, mu, token, calls, now, stops>>

Tick ==
  /\ now < MaxTime
  /\ now' = now + 1
  /\ UNCHANGED <<branch, named, clones, cut, sources, mu, token, calls, stops>>

\* The process stops and starts again, its directories kept or wiped.
Stop ==
  /\ stops < MaxStops /\ stops' = stops + 1
  /\ sources' = {} /\ mu' = None /\ token' = 0
  /\ calls' = [c \in Callers |-> Idle]
  /\ \/ UNCHANGED clones
        /\ cut' = cut \cup {Dir(c) : c \in {x \in Callers : calls[x].pc = "cloning"}}
     \/ clones' = [d \in Dirs |-> NoClone] /\ cut' = {}
  /\ UNCHANGED <<branch, named, now>>

Next ==
  \/ \E c \in Callers : Lock(c) \/ Step(c) \/ \E r \in Repos : Get(c, r)
  \/ \E r \in Repos : Push(r) \/ \E n \in Names : Rename(r, n)
  \/ Tick \/ Stop

\* A goroutine that can run runs, a request to a remote or to the token
\* endpoint is answered or fails, and a mutex that is given back again and
\* again goes to every goroutine that waits for it, as Go's does.  Nobody has
\* to call Get, push or stop the process.
Fairness == \A c \in Callers : WF_vars(Step(c)) /\ SF_vars(Lock(c))

Spec == Init /\ [][Next]_vars /\ Fairness
----------------------------------------------------------------------------
TypeOK ==
  /\ branch \in [Repos -> Nat] /\ \A r \in Repos : branch[r] <= MaxPushes[r]
  /\ named \in [Repos -> Names]
  /\ clones \in [Dirs -> [state: {"none", "partial", "whole"},
                          on: Names \cup {None},
                          tracking: [Names -> (Repos \X Nat) \cup {None}],
                          head: (Repos \X Nat) \cup {None}]]
  /\ cut \subseteq Dirs /\ sources \subseteq Repos
  /\ mu \in Callers \cup {None}
  /\ token \in Nat /\ now \in Nat /\ stops \in Nat
  /\ calls \in [Callers -> CallTypes]

\* A Source that was cloned for a caller, or fetched while its clone is on the
\* branch the fetch brought, shows the caller the history of the repository it
\* asked for, and nothing older than when it asked, whichever Gets of the same
\* or of a colliding repository ran beside it.  (reposource.go:86, of the
\* clones that fastForwardToRemote brings up to date: the others keep what they
\* have, gitsource.go:158-173.)
FreshOnReturn ==
  \A c \in Callers :
    calls[c].pc = "returned" /\ calls[c].how \in {"fetched", "cloned"} =>
      \E n \in calls[c].asked..branch[calls[c].repo] : calls[c].head = <<calls[c].repo, n>>

\* gitsource.go:80 A repository that cannot be opened, or has no head, is one
\* whose clone a stop cut short: no failure of the network, no concurrent Get
\* and no restart elsewhere makes a clone unusable.
BrokenOnlyByACut ==
  \A c \in Callers :
    \/ calls[c].pc = "failed" /\ calls[c].how = "broken"
    \/ calls[c].pc = "returned" /\ calls[c].head = None
    => Dir(c) \in cut

\* provider.go:142 A token is refused only in a request that has been running
\* for longer than the refresh buffer.
TokensLastTheBuffer ==
  \A c \in Callers :
    calls[c].pc = "failed" /\ calls[c].how = "expired" =>
      now > calls[c].took + refreshBuffer

\* reposource.go:90 However many Gets of whatever repositories queue behind the
\* one mutex, every one of them returns while the remotes answer.
EveryGetReturns ==
  \A c \in Callers :
    calls[c].pc = "waiting" ~> calls[c].pc \in {"idle", "returned", "failed"}
==============================================================================
