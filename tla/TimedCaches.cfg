SPECIFICATION FairSpec
CONSTANTS
  subject = subject
  key1 = key1
  key2 = key2
  prod = prod
  leaf = leaf
  middle = middle
  joined = joined
  root = root
  noRekor = noRekor
  two = two
  one = one
  badUrl = badUrl
  t1 = t1
  t2 = t2
  Tasks = {t1, t2}
  Subjects = {subject}
  Signers = {key1, key2, badUrl, leaf, middle, joined, root, noRekor}
  Questions <- MCQuestions
  Met <- MCMet
  Text <- MCText
  MalformedPrefixes = {badUrl}
  MayHang = {"get_resource"}
  HasKubeClient = TRUE
  ShortLifetime = 1
  LongLifetime = 2
  RegistryLifetime = 2
  MaxVersions = 2
  MaxTime = 2
  MaxCalls = 3
  AnySigner = AnySigner
  NoChain = NoChain
  NoEntry = NoEntry
  NoQuestion = NoQuestion
CHECK_DEADLOCK FALSE
INVARIANTS
  TypeOK
  OneCallInsideEachCache
  NobodyWaitsInACircle
  AnswersAreRecent
  TrustedAsDemanded
PROPERTIES
  NeverGoesBack
  EveryCallEnds
