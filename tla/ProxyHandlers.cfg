SPECIFICATION FairSpec
CONSTANTS
  NPorts = 1
  MaxConns = 1
  MaxPackets = 3
  MaxEvents = 2
  PoolSize = 3
  Algos = {"naive", "dup2", "lightning"}
  WaitBootstrap = FALSE
  Fds <- MCFds
  Urls <- MCUrls
  Cats = {"tcp-listen", "tcp-read", "tcp-write", "udp-read", "udp-write"}
  Packets <- MCPackets
  Blank = Blank
  NoFd = NoFd
INVARIANT TypeOK
INVARIANT BuffersAccounted
INVARIANT TunnelOrder
INVARIANT WritersPumped
INVARIANT FoundBlank
PROPERTY HandlersReturn
CHECK_DEADLOCK FALSE
