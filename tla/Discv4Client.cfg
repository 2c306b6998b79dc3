SPECIFICATION ClientSpec
CONSTANTS
  e1 = e1
  t1 = t1
  t2 = t2
  NoTask = NoTask
  Endpoints <- OneEndpoint
  Tasks <- TwoTasks
  MaxClock = 1
INVARIANTS NoDanglingEntries
PROPERTIES BondIsProven EveryTaskEnds
