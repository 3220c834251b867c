SPECIFICATION Spec
CONSTANTS
  NLinks = 1
  NObjects = 11
  MaxFailures = 2
  MaxEvents = 3
  Fds <- MCFds
  Urls <- MCUrls
  Cats = {"set_timeout", "socks5", "tcp-read", "tcp-write"}
  NoFd = NoFd
PROPERTY RetriggerKept
CHECK_DEADLOCK FALSE
