\* Two workers add the same target.
SPECIFICATION Spec
CONSTANTS
  t1 = t1
  t2 = t2
  A = A
  B = B
  Workers = {w1, w2}
  Clients = {c1}
  Targets = {t1, t2}
  Profiles = {A, B}
  Declares <- MCDeclares
  NoProfile = none
  Kinds <- MCKinds
  Scenarios <- MCAdds
  MaxIds = 6
  MaxTimers = 4
INVARIANT OneTailEach
