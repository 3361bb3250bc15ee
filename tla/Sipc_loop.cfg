CONSTANTS
  Clients = {first, second, silent}
  None = None
  Junk = Junk
  server_cb = server_cb
  Callbacks = {server_cb}
  Events = {"read", "write"}
  Fds <- MCFds
  Litter = {3}
  MaxSends <- MCMaxSends
  first = first
  second = second
  silent = silent
  Servers = {s1, s2}
  Prefixes = {panel, desktop}
  NoPrefix = NoPrefix
  MaxSockets = 3
SPECIFICATION IpcSpec
INVARIANTS
  IpcTypeOK
  MessagesWhole
  ServesOpen
  SlotOfEach
  HolderServes
PROPERTIES
  MessagesArrive
\* Clients may all be gone and heard.
CHECK_DEADLOCK FALSE
