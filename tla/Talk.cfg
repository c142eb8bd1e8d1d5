SPECIFICATION MCSpec
CONSTANTS
  Instances = {x1, x2}
  Convs = {c1}
  Reports = {r1}
  Versions = {1, 2, 3}
  MaxSends = 2
  MaxFaults = 1
  MaxCrashes = 1
  Requests <- Bounds
  MaxMessages = 2
  Others = {"comment"}
  Follow = "follow"
  Limit = 1
  MaxRows = 2
  Members = {1, 2, 3}
  Reporters = {x1, x2}
  Flagged = {"message"}
  Posts = {"post"}
  People = {"person"}
  Tickets = {"t1", "t2"}
  Albums = {"album"}
  Images = {"i1", "i2", "i3"}
  MAX_GALLERY_IMAGES = 1
  Authors = {x1, x2}
  Scopes = {"event", "post"}
  Ids = {"i1", "i2", "i3"}
  Accounts = {x1, x2}
  MaxTokens = 2
  Users = {1, 2}
  Emails = {"mail"}
  Usernames = {"n1", "n2"}
  Identities = {x1, x2}
  EmailOf <- SameEmail
  USERNAME_RETRY_ATTEMPTS = 2
  MaxSecrets = 2
  MaxBatches = 2
  Sockets = {"k1", "k2", "k3"}
  Client = "k1"
  MAX_SOCKETS_PER_USER = 2
  MAX_INBOUND_FRAMES_PER_WINDOW = 1
  Slots = {h1, h2}
  None = None
INVARIANTS
  KeysHold
  
  EvidenceHolds
  
  PersonHolds

  
SYMMETRY Symmetry
CHECK_DEADLOCK FALSE
