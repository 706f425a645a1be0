SPECIFICATION Spec
CONSTANTS
  User = {a}
  Session = {s1, s2}
  Token = {t1}
  Request = {r1, r2}
  MaxEpoch = 1
  None = None
SYMMETRY Symmetry
INVARIANTS OtherLoginsEnd LinkWorksOnce
PROPERTIES RevokedStaysRevoked
