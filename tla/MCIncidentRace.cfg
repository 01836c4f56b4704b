\* Two requests race on one incident; failures, crashes and fair scheduling.
SPECIFICATION FairSpec
CONSTANTS
  i1 = i1
  m1 = m1
  m2 = m2
  w1 = w1
  w2 = w2
  NoMeasures = NoMeasures
  NoRow = NoRow
  NoIncident = NoIncident
  BadInput = BadInput
  NoInput = NoInput
  Incidents <- OnlyReported
  SeedIncidents <- NoSeed
  Measures <- TwoMeasures
  Workers <- TwoWorkers
INVARIANTS
  TypeOK
  StatusIsEarned
  MeasuresMatchStatus
  SuccessIsCommitted
PROPERTIES
  ClosedSettles
  EveryRequestEnds
