SPECIFICATION Spec
CONSTANTS
  d1 = d1
  d2 = d2
  f1 = f1
  f2 = f2
  m1 = m1
  r1 = r1
  r2 = r2
  Docs = {d1}
  Folders = {f1}
  Marks = {m1}
  Requests = {r1}
  Scopes <- RaceScopes
  NoDoc = NoDoc
  NoFile = NoFile
PROPERTY LifecycleRespected

CHECK_DEADLOCK FALSE
