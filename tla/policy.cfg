SPECIFICATION Spec
CONSTANTS
  Session = {s1, s2}
  Calls <- MCCalls
  FrontMatter <- MCFrontMatter
  Edits <- MCEdits
  Root <- MCRoot
  Stems <- MCStems
  Dotenv = {".env"}
  Broken = Broken
  MaxAsked = 2
  MaxAnswers = 2
  MaxEdits = 1
INVARIANTS TypeOK FileAgrees
PROPERTIES AnswersDecide
SYMMETRY Symmetry
CHECK_DEADLOCK FALSE
