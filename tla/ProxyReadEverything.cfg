SPECIFICATION Spec
CONSTANTS
  NPorts = 1
  MaxConns = 1
  MaxPackets = 2
  MaxEvents = 1
  PoolSize = 2
  Algos = {"naive"}
  WaitBootstrap = FALSE
  Fds <- MCFds
  Urls <- MCUrls
  Cats = {"tcp-listen", "tcp-read", "tcp-write", "udp-read", "udp-write"}
  Packets <- MCPackets
  Blank = Blank
  NoFd = NoFd
INVARIANT ReadEverything
CHECK_DEADLOCK FALSE
