SPECIFICATION Spec
CONSTANTS
  NPorts = 2
  MaxConns = 2
  MaxPackets = 1
  MaxEvents = 2
  PoolSize = 3
  Algos = {"naive", "dup2", "lightning"}
  WaitBootstrap = TRUE
  Fds <- MCFds
  Urls <- MCUrls
  Cats = {"tcp-listen", "tcp-read", "tcp-write", "udp-read", "udp-write"}
  Packets <- MCPackets
  Blank = Blank
  NoFd = NoFd
INVARIANT RegistryConsistent
INVARIANT BootstrapDrops
CHECK_DEADLOCK FALSE
