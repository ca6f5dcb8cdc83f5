SPECIFICATION SlSpec
CONSTANTS
  h1 = h1
  h2 = h2
  t1 = t1
  t2 = t2
  t3 = t3
  t4 = t4
  t5 = t5
  t6 = t6
  NoToken = NoToken
  SlHandler = {h1, h2}
  Ops = {"create", "list", "idle"}
  OneCreator = FALSE
  Token = {t1, t2, t3, t4, t5, t6}
  SlMaxFaults = 0
  MaxDisturbances = 1
SYMMETRY Symmetry
PROPERTIES IdleSparesActive
CHECK_DEADLOCK FALSE
