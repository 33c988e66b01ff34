SPECIFICATION FairApartSpec
CONSTANTS
  NumQueries = 4
  Response = {r1}
  IdSpace = 2
  SemBound = 1
  c1 = c1
  c2 = c2
  x = x
  y = y
  blocked = blocked
  NoSock = NoSock
  NoQuestion = NoQuestion
  Client = {c1, c2}
  Question = {x, y, blocked}
  NameOf <- MCNameOf
  Hosts = {blocked}
  Sender <- MCSender
  ReqId <- MCReqId
  Asked <- MCAsked
  Malformed = {4}
INVARIANT ValidHasWaiter
PROPERTY QueriesEnd
CHECK_DEADLOCK FALSE
