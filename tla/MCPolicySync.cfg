SPECIFICATION SyncSpec
CONSTANTS
  PortBits = 2
  MaxPriority = 255
  LocalCluster = 0
  MaxClusters = 255
  Cluster = "c1"
  AddrBits = 3
  Pods <- MCPods
  Subject <- MCSubject
  HostAddrs = {6}
  RemoteNodeAddrs = {3, 5}
  NodeLabels <- MCNodeLabels
  Objects <- MCObjects
  PodIf = 1
  UplinkIf = 2
  EndpointId = 7
  HostEndpoint = 99
  MaxChanges = 2
  MaxFailures = 1
 
PROPERTY MapsCatchUp
CHECK_DEADLOCK FALSE
