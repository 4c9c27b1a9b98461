SPECIFICATION ClusterFairSpec
CONSTANTS
  Nodes = {n1}
  Streams = {s1}
  Deps = {d1}
  None = None
  Reconciler = Reconciler
  Addrs = {FALSE}
  Kinds = {"metal", "docker"}
  Kind <- MCKind
  MinVram <- MCMinVram
  Runners <- MCRunners
  Usable <- MCUsable
  Actives = {{}, {d1}}
  Reports = {"PULLING", "READY", "FAILED", "STOPPED"}
  ReapAfter = 0
  LostAfter = 0
  AvoidFor = 1
  QueueSize = 1
  Window = 1
  MaxFaults = 1
PROPERTY ReadyKnown
