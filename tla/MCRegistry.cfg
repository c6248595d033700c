\* Two workers, one client, profiles that share a source.
SPECIFICATION FairSpec
CONSTANTS
  t1 = t1
  t2 = t2
  A = A
  B = B
  Workers = {w1, w2}
  Clients = {c1}
  Targets = {t1, t2}
  Profiles = {A, B}
  Declares <- MCDeclares
  NoProfile = none
  Kinds <- MCKinds
  Scenarios <- MCScenarios
  MaxIds = 6
  MaxTimers = 4
INVARIANTS NoFalseEnd ListsAgree OnlyRacesDouble ManualSurvives SwitchCleansUp
PROPERTY ExitsWhenIdle
\* Requests and connections may run out.
CHECK_DEADLOCK FALSE
