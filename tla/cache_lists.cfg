SPECIFICATION Spec
CONSTANTS
  blocked = blocked
  local = local
  Name = {blocked, local}
  QType = {1, 28, 5, 15}
  HostsLines <- HostsFile
  UpstreamAnswers <- AnswersMixed
  MaxTtl = 2
  Grace = 1
  WordSize = 64
  MaxNode = 5
  MaxNow = 5
INVARIANTS TypeOK ListsIntact BlockedRefused HostsKept
PROPERTY KeepsPromise
CHECK_DEADLOCK FALSE
