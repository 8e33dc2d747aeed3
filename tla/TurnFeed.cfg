SPECIFICATION FairSpec
CONSTANTS
  s1 = s1
  s2 = s2
  s3 = s3
  phone = phone
  tablet = tablet
  Absent = Absent
  Keep = Keep
  Keys = {k1}
  Statuses = {run}
  Streams = {s1, s2, s3}
  Device <- PhoneAndTablet
  MaxSubs = 2
  MaxPerDevice = 1
  MaxQueue = 1
  MaxMutations = 2
INVARIANT BacklogAddsUpToLast
INVARIANT SlotsGivenBack
PROPERTY StreamsComeToRest
CHECK_DEADLOCK FALSE
