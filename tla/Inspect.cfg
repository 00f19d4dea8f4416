CONSTANTS
  Words = {"", ";", "--", "-c", "-n", "-nprod", "-it", "-rf", "--name", "--target", "--command",
           "bash", "docker", "kubectl", "gcloud", "nsenter", "rm", "git", "ls", "reboot",
           "run", "exec", "ssh", "push", "delete", "x", "ubuntu", "ct", "pod", "sidecar", "vm", "1234", "prod", "/etc",
           "'rm -rf /etc'", "'ls; git push'", "'bash -c rm -rf /etc'", "'kubectl -n prod delete'", "'reboot'", "$(git push)",
           "'bash -c reboot'", "'bash -c bash -c reboot'", "'bash -c $('", "$(", "$(bash -c reboot)"}
  Shape <- MCShape
  Tokens <- MCTokens
  Unclosed = {"$("}
  Inside <- MCInside
  Parsers <- MCParsers
  Configs <- MCConfigs
  Means <- MCMeans
  WithQuotes = FALSE
  Lines <- MCLines
SPECIFICATION InspectSpec
INVARIANTS
  InspectTypeOK
  AnswerIsDeserved
  WrappersHideNothing
  UnmarkedIsComplete
  MarkedWhenUnseen
  NestedInOrder
PROPERTIES
  MarksStay
  Terminates
CHECK_DEADLOCK FALSE
