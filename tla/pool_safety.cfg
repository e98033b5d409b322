SPECIFICATION Spec
CONSTANTS
  Provider = {p}
  Turn = {t1, t2}
  Disconnect = {d1, d2}
  Modes = {"drain", "force"}
  MaxIterations = 1
  MaxGen = 2
INVARIANTS TypeOK LeasesCounted DrainedIsUnused ForceReachesEveryCall
PROPERTIES ImplementsLifecycle
SYMMETRY Symmetry
CHECK_DEADLOCK FALSE
