SPECIFICATION Spec
CONSTANTS
  Procs = {p1, p2}
  Pids = {n1, n2, n3}
  NoPid = NoPid
  MaxDeaths = 0
INVARIANT SessionsSerialized
