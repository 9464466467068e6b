CONSTANTS
  Channels = {c1, c2}
  Fds = {f1, f2}
SPECIFICATION Spec
INVARIANTS
  TypeOK
  KernelAgrees
  MapAgrees
  ActiveAlive
