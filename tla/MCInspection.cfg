\* Two requests plan, execute and report; failures, crashes and fair scheduling.
SPECIFICATION FairSpec
CONSTANTS
  n1 = n1
  a = a
  b = b
  w1 = w1
  w2 = w2
  NoRow = NoRow
  NoInspection = NoInspection
  Free = Free
  Inspections <- OnlyCreated
  SeedInspections <- NoSeed
  Items <- TwoItems
  Workers <- TwoWorkers
  MaxSubmitted = 2
INVARIANTS
  TypeOK
  ReportConsistent
  AnswersAreTruthful
  SummaryMatchesItems
PROPERTIES
  ExecutedOnce
  AllOrNothing
  PlanIsFixed
  LocksAreReleased
