CONSTANTS
  MatchSpecs <- MCSpecs
  Words = {"push", "x"}
  Flags = {"f", "force", "r"}
  Values = {"x", "y"}
  MaxArgs = 2
SPECIFICATION EditSpec
PROPERTIES
  SpellingIsIrrelevant
  GrowthKeepsMatch
CHECK_DEADLOCK FALSE
