SPECIFICATION FairSpec
CONSTANTS
  st1 = st1
  st2 = st2
  ip1 = ip1
  ip2 = ip2
  Streams = {st1}
  IPs = {ip1}
  IpOf <- OneStream
  ConnectionTimeout = 1
  MaxSeq = 2
  MaxRuns = 2
  MaxArrivals = 3
  MaxTime = 2
INVARIANTS TypeOK GaugeCountsLiveClients LossNotOverstated QuietAfterTearDown
PROPERTIES IdleClientsLeave TearDownReturns
