SPECIFICATION CatalogSpec
CHECK_DEADLOCK FALSE
CONSTANTS
  a1 = a1
  a2 = a2
  p = p
  q = q
  c = c
  d = d
  NULL = NULL
  Admins = {a1, a2}
  Packages = {p}
  Channels = {c, d}
INVARIANTS
  CatalogTypeOK SerialRequestsAgree
PROPERTIES
  CommitSetsBlacklist
SYMMETRY Symmetries
