\* The page of a manager, other clients, and a service that serves one at a time.
SPECIFICATION ScreenSpec
CONSTANTS
  i1 = i1
  m1 = m1
  m2 = m2
  w1 = w1
  c1 = c1
  c2 = c2
  NoMeasures = NoMeasures
  NoRow = NoRow
  NoIncident = NoIncident
  BadInput = BadInput
  NoInput = NoInput
  NoCall = NoCall
  NoIncidentShown = NoIncidentShown
  Nobody = Nobody
  Remark = m1
  Incidents <- OneIncident
  SeedIncidents <- NoSeed
  Measures <- TwoMeasures
  Workers <- OneWorker
  Slots <- TwoCalls
INVARIANT
  ConflictMeansMoved
PROPERTIES
  ImplementsLifecycle
  ShownNeverGoesBack
  SpinnerStops
