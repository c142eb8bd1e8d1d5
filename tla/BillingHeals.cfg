SPECIFICATION FairSpec
CONSTANTS
  ana = ana
  s1 = s1
  s2 = s2
  w1 = w1
  w2 = w2
  Users = {ana}
  Subs = {s1}
  Owner <- OneOwner
  Workers = {w1}
  Sync = sync
  SyncEnabled = TRUE
  Erasable = {}
  Kinds <- SubscriptionKinds
  Minute = 1
  Period = 1
  Grace = 0
  Lookback = 9
  Retention = 9
  Redelivery = 1
  Latency = 1
  MaxTime = 3
  MaxChange = 1
  MaxVersions = 2
\* The clock and the gateway's changes are bounded: with nothing in flight the
\* model may stop.
CHECK_DEADLOCK FALSE
PROPERTIES
  CanceledLosesPremium
  OrphanBecomesKnown
