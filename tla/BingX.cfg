CONSTANTS
  Owner = Owner
  None = None
  Conns = {c1, c2, c3, c4, c5}
  MaxAttempts = 1
  MaxConnects = 2
  A = A
  B = B
  loop = loop
  NoSignal = none
SPECIFICATION MCSpec
INVARIANTS
  ConnectionsBounded
  SoundUntilFault
PROPERTIES
  GivesUp
  OrphansEnd
