\* A client that keeps trying, twice a minute.
SPECIFICATION Spec
CONSTANTS
  c1 = c1
  c2 = c2
  NoBucket = NoBucket
  Clients <- OneClient
  Configured = 1
  Minute = 2
  MaxTime = 12
PROPERTY
  RefillsEveryMinute
