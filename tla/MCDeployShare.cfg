SPECIFICATION DepSpec
CONSTANTS
  Nodes = {n1}
  Streams = {s1}
  Deps = {d1, d2}
  None = None
  Reconciler = Reconciler
  Addrs = {FALSE}
  Kinds = {"metal", "docker"}
  Kind <- MCKind
  MinVram <- MCMinVram
  Runners <- MCRunners
  Usable <- MCUsable
  Actives = {{}, {d1, d2}}
  Reports = {}
  ReapAfter = 0
  LostAfter = 0
  AvoidFor = 0
SYMMETRY Symmetry
VIEW View
INVARIANT SharingNeedsOverlap
