---------------------------- MODULE MCRepoSources ----------------------------
(* An instance of the working copies for TLC. *)
EXTENDS RepoSources

CONSTANTS app, apq, lib, shared, main, trunk

\* app and apq are two URLs that sanitize to one directory name.
Paths == [r \in Repos |-> shared]

\* app's branch may be renamed to what the other's is called; HEAD of apq may be
\* detached when it is cloned.
BranchNames == [r \in Repos |-> IF r = app THEN main ELSE trunk]

\* app is pushed to or renamed once; of apq, which is static, only whose history
\* a caller is shown matters.
Pushes == [r \in Repos |-> IF r = app THEN 1 ELSE 0]
==============================================================================
