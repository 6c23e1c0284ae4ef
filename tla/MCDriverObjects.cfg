CONSTANTS
  Threads = {t1, t2}
  Creators = {t1}
  Players = {t1, t2}
  MaxObjects = 3
  MaxSurfaces = 2
  MaxJobs = 1
  MaxOf <- MCMaxOf
  SharedHandles = FALSE
SPECIFICATION Spec
INVARIANTS
  RefsExact
  RawExact
  AllOrNothing
