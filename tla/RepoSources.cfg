\* Two callers of two https remotes that collide on one clone directory and
\* of a local repository.
SPECIFICATION Spec
CONSTANTS
  app = app
  apq = apq
  lib = lib
  shared = shared
  main = main
  trunk = trunk
  Callers = {c1, c2}
  Repos = {app, apq, lib}
  Local = {lib}
  Https = {app}
  Dirs = {shared}
  clonePath <- Paths
  HasTokens = TRUE
  Lifetime = 2
  refreshBuffer = 1
  Names = {main, trunk}
  FirstName <- BranchNames
  Detaches = {apq}
  None = None
  Renames = {app}
  MaxPushes <- Pushes
  MaxTime = 2
  MaxStops = 1
INVARIANTS
  FreshOnReturn
  BrokenOnlyByACut
  TokensLastTheBuffer
PROPERTIES
  EveryGetReturns
CHECK_DEADLOCK FALSE
