CONSTANTS
  r1 = r1 r2 = r2 t1 = t1 t2 = t2 t3 = t3 s1 = s1 s2 = s2 u1 = u1 c1 = c1
  Users = {u1}
  Tokens = {t1, t2, t3}
  Sessions = {s1, s2}
  MaxOtps = 2
  Calls = {r1, r2}
  Clients = {c1}
  Scenes <- PasswordScene
  FailLimit = 2
  MaxFailures = 3
  MaxAttempts = 2
  MaxPasswords = 1
  Nobody = Nobody
CHECK_DEADLOCK FALSE
SPECIFICATION Spec
SYMMETRY Symmetry
INVARIANT NewPasswordSignsOut
