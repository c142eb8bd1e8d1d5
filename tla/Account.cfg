SPECIFICATION FairSpec
CONSTANTS
  r1 = r1
  r2 = r2
  Users = {ana}
  Requests = {r1, r2}
  Grace = 1
  Days = 1
  MaxTime = 2
INVARIANTS
  DenylistMirrorsTable
PROPERTIES
  OnlyLeaversErased
  CalmBanIsPermanent
  DeadlinesMet
\* The clock is bounded: with nothing in flight the model may stop.
CHECK_DEADLOCK FALSE
