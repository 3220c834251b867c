SPECIFICATION FairSpec
CONSTANTS
  NLinks = 2
  NObjects = 13
  MaxFailures = 2
  MaxEvents = 3
  Fds <- MCFds
  Urls <- MCUrls
  Cats = {"set_timeout", "socks5", "tcp-read", "tcp-write"}
  NoFd = NoFd
INVARIANT TypeOK
INVARIANT RegistryConsistent
INVARIANT OneAttempt
INVARIANT BatchFresh
INVARIANT NoLinkLost
 
CHECK_DEADLOCK FALSE
