SPECIFICATION Spec
CONSTANTS
  hub = hub  article = article
  None = None
  Sections = {hub, article}
  Hashes = {t1, t2}
  Targets = {concept}
  Order <- MCOrder
  Parent <- MCParent
  Keys <- MCKeys
  SkipOneIn = 2
  MaxEdits = 1
SYMMETRY Interchangeable
VIEW WithoutVectors
INVARIANTS
  NoOrphanParents
  BackfillCompletes
  ProbeRestores
