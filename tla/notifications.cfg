SPECIFICATION FairSpec
CONSTANTS
  Users = {u1}
  Msgs = {m1}
  Sockets = {s1, s2}
  Handlers = {h1, h2}
  NoUser = NoUser
  NoMsg = NoMsg
  NoSocket = NoSocket
  Channels = {"EMAIL", "IN_APP_PUSH"}
  Recent = 1
  Limit = 1
  MaxRetries = 1
  MaxRequests = 3
  MaxFaults = 1
INVARIANTS TypeOK NothingMissed NeverUnderstated DuplicatesAreFaults DoneIsStored FeedComplete
PROPERTIES EntryKept EachIsDelivered
CHECK_DEADLOCK FALSE
