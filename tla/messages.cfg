SPECIFICATION Spec
CONSTANTS
  TrieLength = 2
  KeyRoom = 5
  InitCapacity = 2
  Hash <- SumOfOctets
  Datagram <- Datagrams
  HostsLines <- HostsFile
  MaxTtl = 180
  RelayId = 9
  ClientId = 300
  HostsTtl = 11
  SoaData <- Soa
  MaxStored = 7
INVARIANTS TypeOK FoundIsStored HashMapSound RelayedSame ForwardedSame AnsweredSame
CHECK_DEADLOCK FALSE
