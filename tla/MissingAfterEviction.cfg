SPECIFICATION Spec
CONSTANTS
  st1 = st1
  st2 = st2
  ip1 = ip1
  ip2 = ip2
  Streams = {st1, st2}
  IPs = {ip1, ip2}
  IpOf <- TwoAddresses
  ConnectionTimeout = 1
  MaxSeq = 2
  MaxRuns = 1
  MaxArrivals = 3
  MaxTime = 3
INVARIANT MissingDidNotArrive
