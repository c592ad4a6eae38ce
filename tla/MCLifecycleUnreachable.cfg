SPECIFICATION Spec
CONSTANTS
  Procs = {p1, p2, p3}
  MaxEdits = 2
  Nobody = Nobody
  NoFile = NoFile
  Stale = Stale
  Torn = Torn
INVARIANT DaemonReachable
