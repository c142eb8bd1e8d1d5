SPECIFICATION Spec
CONSTANTS
  ana = ana
  s1 = s1
  s2 = s2
  w1 = w1
  w2 = w2
  Users = {ana}
  Subs = {s1}
  Owner <- OneOwner
  Workers = {w1}
  Sync = sync
  SyncEnabled = FALSE
  Erasable = {ana}
  Kinds <- SetupKinds
  Minute = 1
  Period = 1
  Grace = 1
  Lookback = 3
  Retention = 9
  Redelivery = 3
  Latency = 1
  MaxTime = 2
  MaxChange = 1
  MaxVersions = 2
\* The clock and the gateway's changes are bounded: with nothing in flight the
\* model may stop.
CHECK_DEADLOCK FALSE
INVARIANTS
  SettledRowsCurrent
PROPERTIES
  
  CardNeverLost
