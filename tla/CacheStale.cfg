SPECIFICATION Spec
CONSTANTS
  p1 = p1  p2 = p2  k1 = k1  k2 = k2  k3 = k3  v1 = v1  v2 = v2
  b1 = b1  Absent = Absent  None = None
  Procs = {p1, p2}
  Keys = {k1, k2}  Vals = {v1, v2}
  Buckets = {b1}  BucketOf <- OneBucket
  NItems = 1  Policies <- StalePolicies
  LiveCap = 4
PROPERTY SetsAreKept
