SPECIFICATION MCSpec
CONSTANTS
  PortBits = 3
  Resources = {"a", "b"}
  RuleLists <- MCRuleLists
  MaxRevision = 3
  Cluster = "c1"
  Objects <- MCObjects
  Endpoints <- MCEndpoints
  Protocols = {6, 17, 132}
  MaxPriority = 255
  LocalCluster = 0
  MaxClusters = 255
  Candidates <- MCCandidates
  Packets <- MCPackets
  MaxRecords = 3
INVARIANTS IndexDecidesAsOracle ObjectsMeanKubernetes DecisionsAgree
CHECK_DEADLOCK FALSE
