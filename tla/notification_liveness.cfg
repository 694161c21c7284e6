SPECIFICATION FairSpec
CONSTANTS
  i1 = i1
  s1 = s1
  i2 = i2
  s2 = s2
  Items = {i1}
  Scanners = {s1, s2}
  Frequency = 2
  MaxDay = 2
  MaxCrashes = 1
  MaxDryRuns = 1
PROPERTY AlertsGetOut
