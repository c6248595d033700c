\* Every command that asks gets an answer; two daemons are never started for one.
SPECIFICATION FairSpec
CONSTANTS
  Commands = {c1, c2}
  MaxServers = 3
  Envs <- MCEnvs
  Scenarios <- MCScenarios
INVARIANTS OneDaemon FilesFollow
PROPERTY CommandsReturn
\* Everybody may have returned.
CHECK_DEADLOCK FALSE
