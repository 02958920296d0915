SPECIFICATION MCSpec
CONSTANTS
  k1 = k1
  k2 = k2
  f1 = f1
  f2 = f2
  g1 = g1
  w1 = w1
  w2 = w2
  ok = ok
  SubmissionKeys = {k1, k2}
  Fingerprints = {f1, f2}
  Generations = {g1}
  Owners = {w1, w2}
  Outcomes = {ok}
  AssignedByStore = AssignedByStore
  NoOwner = NoOwner
  MaxAdmits = 2
  MaxTime = 2
  v1 = v1
  v2 = v2
  l1 = l1
  l2 = l2
  NoLock = NoLock
  NoArchive = NoArchive
  Versions = {v1, v2}
  Deletable = {v1}
  Locks = {l1, l2}
  TornWrites = TRUE
  MaxDraws = 2
  MaxBoots = 2
  NoValue = NoValue
  NoScope = NoScope
  NoClient = NoClient
  Scopes = {s1, s2}
  Keys = {a1, a2}
  Values = {b1}
  Clients = {c1, c2}
SYMMETRY Symmetries
INVARIANTS
  RunsAreExclusive TerminalHasReceipt
  RestoresAgree ArchivesAreWhole
PROPERTIES TerminalIsFinal ImplementsAtomicStore
CHECK_DEADLOCK FALSE
