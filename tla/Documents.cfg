SPECIFICATION Spec
CONSTANTS
  d1 = d1
  d2 = d2
  f1 = f1
  f2 = f2
  m1 = m1
  r1 = r1
  r2 = r2
  Docs = {d1, d2}
  Folders = {f1, f2}
  Marks = {m1}
  Requests = {r1, r2}
  Scopes <- DocumentScopes
  NoDoc = NoDoc
  NoFile = NoFile
SYMMETRY Symmetry
INVARIANT PdfOnDisk
INVARIANT SendFindsFile
INVARIANT NoDanglingReference
INVARIANT StatusHasDate
INVARIANT NoOrphanPdf
PROPERTY ImplementsLifecycle
CHECK_DEADLOCK FALSE
