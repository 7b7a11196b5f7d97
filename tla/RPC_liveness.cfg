CONSTANTS
  c1 = c1
  c2 = c2
  Clients = {c1, c2}
  Nobody = Nobody
  Typed = {"call", "quit"}
  MaxCalls = 1
  Backlog = 2
  FdLimit = 2
  ForkMayFail = TRUE
  ClientsMayDie = TRUE
  InputMayEnd = TRUE
SPECIFICATION FairSpec
PROPERTIES
  ServerStops
  EveryCallAnswered
  QuitNoticedAtNextClient
  ImplementsRPCService
