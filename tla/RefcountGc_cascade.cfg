CONSTANTS
  Nodes = {n1, n2, n3}
  Handles = {h1, h2, h3}
  Guards = {}
  Null = Null
SPECIFICATION Spec
INVARIANT HandlesLive
