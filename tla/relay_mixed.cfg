SPECIFICATION Spec
CONSTANTS
  NumQueries = 3
  Response = {r1}
  IdSpace = 3
  SemBound = 1
  c1 = c1
  c2 = c2
  x = x
  y = y
  blocked = blocked
  NoSock = NoSock
  NoQuestion = NoQuestion
  Client = {c1, c2}
  Question = {x, y, blocked}
  NameOf <- MCNameOf
  Hosts = {blocked}
  Sender <- MCSender
  ReqId <- MCReqId
  Asked <- MCAsked
  Malformed = {}
CONSTRAINT TwoAtOnce
INVARIANTS TypeOK ValidHasWaiter WokenForCause WaitersReachable
PROPERTY KeepsPromise
CHECK_DEADLOCK FALSE
