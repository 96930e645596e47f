CONSTANTS
  alice = alice  t1 = t1  t2 = t2
  Tasks = {t1}
  Owners = {alice}
  Owner <- MCOwner
  Procs = {"p", "q"}
  Concurrency = 1
  Limit = 1
  Requests = {"delete_task", "delete_record"}
  Restarted = {"p", "q"}
  MaxSubmits = 2
  MaxStops = 0
  MaxFaults = 2
SPECIFICATION SpecImages
INVARIANTS GeneratedOnce RecordsAreHonest
PROPERTIES WorkersYield PairSettles
CHECK_DEADLOCK FALSE
