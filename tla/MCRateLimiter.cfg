\* Two clients, two requests a minute; the clock ticks three times a minute.
SPECIFICATION Spec
CONSTANTS
  c1 = c1
  c2 = c2
  NoBucket = NoBucket
  Clients <- TwoClients
  Configured = 2
  Minute = 3
  MaxTime = 12
INVARIANT
  TypeOK
PROPERTY
  NeverOverAdmits
