SPECIFICATION MCSpec
CONSTANTS
  Users = {1, 2}
  Jobs = {"created", "promo", "s1", "s2", "s3", "join"}
  Groups = {{"created", "promo"}, {"s1", "s2"}, {"s3"}, {"join"}}
  Kind <- Kinds
  Target <- Targets
  Premium = {"s1", "s2", "s3"}
  Batch = 1
  Attempts = 2
  Gap = 1
  DISCOVERY_DAILY_CAP = 1
  MaxTime = 2
  MaxChanges <- Changes
  MaxFaults = 1
  Slots = {h1, h2}
  None = None
  Requests <- Bounds
  Until <- Clocks
  Author = "author"
  Guests = {p1, p2}
  Caches = {"public", "viewport"}
  MaxLinks = 2
  Ids = {1, 2, 3}
  Mine = {1, 2}
  SeriesOf <- InSeries
  HasImages = {2}
  DEFAULT_DURATION = 1
  SOON_THRESHOLD = 1
  RECENT_PAST = 1
  Horizon = 4
  MaxEdits = 1
  Limit = 2
  ViewportLimit = 1
  Creator = "creator"
  Friends = {"friend"}
  Strangers = {"stranger"}
  Blocked = {"foe"}
  Spots = {p1, p2}
  MAX_ACTIVE_SPOTS = 1
  SPOT_WINDOW = 2
  LEAD = 1
  SOON = 1
  MaxCrashes = 1
  Askers = {"user"}
  Places = {"bar", "club", "den"}
  Far = {"club"}
  Adult = {"den"}
  Social = {"bar", "den"}
  Ghost = "ghost"
  FREE_DAILY_QUOTA = 1
  PREMIUM_DAILY_QUOTA = 2
  MAX_SUGGESTIONS = 2
  MAX_PROFILE_QUERIES = 2
  MaxDay = 1
  HORIZON = 2
  MAX_OCCURRENCES = 3
  LastDate = 4
  MaxTouches = 1
  Windows = {p1, p2}
  MonthlyLimit = 1
  MaxDuration = 2
  EventDate = 3
  MonthLength = 2
  Owners = {"ana", "bia"}
  Tickets = {1, 2}
  RECEIPTS_BATCH_LIMIT = 2
  MaxLost = 1
  MaxMoves = 4
INVARIANTS
  EventsHold
  ListsHold
  
  FanoutsHold
PROPERTIES
  GroupsGraduate
  DeliversOnce
SYMMETRY Symmetry
CHECK_DEADLOCK FALSE
