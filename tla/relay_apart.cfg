SPECIFICATION ApartSpec
CONSTANTS
  NumQueries = 3
  Response = {r1, r2}
  IdSpace = 4
  SemBound = 1
  c1 = c1
  c2 = c2
  x = x
  y = y
  blocked = blocked
  NoSock = NoSock
  NoQuestion = NoQuestion
  Client = {c1, c2}
  Question = {x, y, blocked}
  NameOf <- MCNameOf
  Hosts = {blocked}
  Sender <- MCSender
  ReqId <- MCReqId
  Asked <- MCAsked
  Malformed = {}
SYMMETRY ResponseSymmetry
INVARIANTS RightReply WaitersDistinct
CHECK_DEADLOCK FALSE
