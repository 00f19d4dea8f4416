CONSTANTS
  NumCandidates = 2
  Configs = {"strict", "lax"}
  Targets = {"nothing", "src", "etc"}
  Verdicts <- MCVerdicts
  Events <- MCEvents
  MaxChanges = 2
SPECIFICATION ValidateSpec
INVARIANTS
  TypeOK
  OneAnswer
  AnswersItsConfig
  AllowIsExplained
  ValidateForetells
  OkIsExplained
PROPERTIES
  Terminates
CHECK_DEADLOCK FALSE
