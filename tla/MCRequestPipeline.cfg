\* Three writing requests, any of them an upload, with failures and crashes.
SPECIFICATION Spec
CONSTANTS
  q1 = q1
  q2 = q2
  q3 = q3
  u1 = u1
  u2 = u2
  n1 = n1
  n2 = n2
  NoUser = NoUser
  NoName = NoName
  Nothing = Nothing
  Requests <- ThreeRequests
  Users <- TwoUsers
  Names <- TwoNames
SYMMETRY Alike
INVARIANTS
  TypeOK
  AnsweredIsRecorded
  UploadsComplete
PROPERTY
  TrailFollowsWrites
\* Every request is sent once.
CHECK_DEADLOCK FALSE
