SPECIFICATION Spec
CONSTANTS
  Hosts = {h1}
  NoHost = NoHost
  Workloads = 2
  Reps = 1
  Configs <- Plain
  Pendings <- FreshRun
INVARIANT ConfirmedHaveCeased
