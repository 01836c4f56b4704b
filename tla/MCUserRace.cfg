\* Two requests race for one phone number.
SPECIFICATION Spec
CONSTANTS
  u1 = u1
  u2 = u2
  n1 = n1
  k1 = k1
  k2 = k2
  t1 = t1
  w1 = w1
  w2 = w2
  NoRow = NoRow
  NoAccount = NoAccount
  Blank = Blank
  Users <- TwoUsers
  Numbers <- OneNumber
  Passwords <- TwoPasswords
  Texts <- OneText
  AskedRoles <- AnyRole
  Workers <- TwoWorkers
SYMMETRY Symmetry
INVARIANTS
  TypeOK
  OnePerPhone
  TokensAreCurrent
PROPERTIES
  RegisteredCanLogIn
  RegistrationIsAtomic
