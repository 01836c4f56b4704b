\* Two requests on certificates, trainings and the dashboard over two months.
SPECIFICATION Spec
CONSTANTS
  c1 = c1
  t1 = t1
  t2 = t2
  l1 = l1
  w1 = w1
  w2 = w2
  NoRow = NoRow
  NoDate = NoDate
  EmptyList = EmptyList
  NoList = NoList
  Certs <- OneCert
  Dates <- SecondDay
  Trainings <- TwoTrainings
  Days <- SecondDay
  Lists <- TwoLists
  Rates <- TwoRates
  Workers <- TwoWorkers
  MonthLength = 1
  LastDay = 1
SYMMETRY Symmetry
INVARIANTS
  TypeOK
  DecisionIsEarned
  RateExcessIsRaced
  WarnsUntilLastDay
PROPERTIES
  DecisionSettles
  AttendanceIsKept
