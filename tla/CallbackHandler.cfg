SPECIFICATION FairSpec
CONSTANTS
  g1 = g1
  g2 = g2
  Guests = {g1, g2}
  WithChannel = {g1, g2}
  Resources <- MCResources
  Calls <- MCCalls
  Allowed <- MCAllowed
  Capacity = 1
  Workers = 1
  HasKubeClient = TRUE
  MayHang <- MCMayHang
  NoRequest = NoRequest
INVARIANTS
  TypeOK
  OneHolderPerAwaitedReply
  OnlyGrantedResources
PROPERTIES
  ImplementsService
  EveryCallReturns
  ShutdownCompletes
