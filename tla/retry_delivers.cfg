SPECIFICATION Spec
CONSTANTS
  i1 = i1
  s1 = s1
  i2 = i2
  s2 = s2
  Items = {i1, i2}
  Scanners = {s1, s2}
  Frequency = 1
  MaxDay = 1
  MaxCrashes = 1
  MaxDryRuns = 0
SYMMETRY ScanSymmetry
INVARIANT RetryDelivers
