SPECIFICATION Spec
CONSTANTS
  Session = {s1}
  Calls <- MCCalls
  FrontMatter <- MCFrontMatter
  Edits <- MCEmptyFile
  Root <- MCRoot
  Stems <- MCStems
  Dotenv = {".env"}
  Broken = Broken
  MaxAsked = 2
  MaxAnswers = 2
  MaxEdits = 0
INVARIANTS NeverIsKept
CHECK_DEADLOCK FALSE
