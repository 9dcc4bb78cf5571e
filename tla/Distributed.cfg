SPECIFICATION Spec
CONSTANTS
  Nodes = {hub, edge}
  Hub = hub
  Clients = {c1, c2}
  Groups = {g1, g2}
  Tracks = {t1, t2}
  Instances = {i1}
  MaxChanges = 2
  NoRow = NoRow
  NoGroup = NoGroup
  NoMap = NoMap
  NoNode = NoNode
SYMMETRY Symmetry
INVARIANTS DistributedTypeOK LocalRowsFollowGroups ServingMapIsCurrent
PROPERTIES BrakeStaysLocal
