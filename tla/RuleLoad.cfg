CONSTANTS
  Words = {"kubectl", "git", "apply", "prod", "-n", "-n=prod", "-nprod", "--namespace", "--namespace=prod",
           "-chdir", "-chdir=prod", "-c", "-cprod"}
  Shape <- MCShape
  Forms <- MCForms
  Accepts <- MCAccepts
  Dashed = {"-n"}
  BadGlobs = {"["}
  BadRegexes = {"(", "["}
  Files <- MCFiles
SPECIFICATION Spec
INVARIANTS
  LoadedMeansFile
  LoadsUnlessBroken
  ValuesAreSeen
CHECK_DEADLOCK FALSE
