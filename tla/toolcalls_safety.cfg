SPECIFICATION Spec
CONSTANTS
  Tasks = {t1, t2}
  Tools = {"task"}
  MaxCalls = 2
  MaxAborts = 1
  Diversions = {"canvas", "screen"}
  None = None
INVARIANTS TypeOK  ServerMatchesCommand OneServer PromptsAreAwaited RefusedNeverRuns
PROPERTIES ServerIsKept
SYMMETRY Symmetry
CHECK_DEADLOCK FALSE
