SPECIFICATION Spec
CONSTANTS
  Documents <- MCDocumentSet
  Clusters <- MCClusters
  PluralNames <- MCPluralNames
  NoNamespace = "no namespace"
  NoName = "no name"
  Requests <- MCRequests
  Mozilla <- MCMozilla
  Present = 2
  Word = 16
CHECK_DEADLOCK FALSE
INVARIANTS
  VerdictIsTheRule
  GatekeeperShowsWhatIsListed
  BothShowTheSame
  ScopesNeverMix
  TrustIsAnchored
