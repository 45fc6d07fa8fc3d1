SPECIFICATION FairSpec
CONSTANTS
  n1 = n1
  main = main
  roles = roles
  Addrs = {1}
  Nets = {n1}
  Clusters <- MCClusters
  MainCluster <- MCMain
  Associates <- MCAssociates
  max_attempts_num = 1
  MaxQueue = 3
  MaxAsks = 2
  MaxStreams = 2
  MaxOps = 3
INVARIANTS ClustersAgree StateMatchesAsk
PROPERTIES WokenUp
CHECK_DEADLOCK FALSE
