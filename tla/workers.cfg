SPECIFICATION Spec
CONSTANTS
  MaxWorkers = 2
  MaxIterations = 2
  Provider = {"a", "b"}
  Model <- MCModel
  Owner <- MCOwner
  InitialModel = "a1"
  Commands = {"model", "use", "override", "resume", "disconnect", "abort", "tools"}
  MaxCommands = 2
INVARIANTS TypeOK FramesNest FramesAreTruthful IdleMeansNoTurn OverrideIsForOneTurn AnswersAreNotMixed
PROPERTIES HistoryIsKept
CHECK_DEADLOCK FALSE
