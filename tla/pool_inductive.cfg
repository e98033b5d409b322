SPECIFICATION Spec
CONSTANTS
  Provider = {p, q}
  Turn = {t1}
  Disconnect = {d1, d2}
  Modes = {"drain", "force"}
  MaxIterations = 1
  MaxGen = 2
INVARIANTS DisconnectsAreIsolated
CHECK_DEADLOCK FALSE
