\* A start that is cut short between two accounts.
SPECIFICATION Spec
CONSTANTS
  SeedUsers = 4
  SeedRows = 16
  MaxRegistered = 2
  MaxFailures = 2
CHECK_DEADLOCK FALSE
INVARIANT
  ServingHasAccounts
