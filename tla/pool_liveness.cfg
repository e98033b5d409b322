SPECIFICATION FairSpec
CONSTANTS
  Provider = {p}
  Turn = {t1}
  Disconnect = {d1, d2}
  Modes = {"drain", "force"}
  MaxIterations = 2
  MaxGen = 2
PROPERTIES ForceEnds DrainReturns
CHECK_DEADLOCK FALSE
