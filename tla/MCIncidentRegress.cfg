\* Two requests race: the status goes back.
SPECIFICATION Spec
CONSTANTS
  i1 = i1
  m1 = m1
  m2 = m2
  w1 = w1
  w2 = w2
  NoMeasures = NoMeasures
  NoRow = NoRow
  NoIncident = NoIncident
  BadInput = BadInput
  NoInput = NoInput
  Incidents <- OnlyReported
  SeedIncidents <- NoSeed
  Measures <- OneMeasure
  Workers <- TwoWorkers
PROPERTY
  StatusNeverRegresses
