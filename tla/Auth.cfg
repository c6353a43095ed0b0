\* One tab: a login or a registration, requests that fail together, a logout, a
\* reload, tokens that expire, a network that loses requests and answers.
SPECIFICATION FairSpec
CONSTANTS
  client1 = client1
  t1 = t1
  Tabs = {t1}
  Accounts = {client1}
  RoleOf <- RoleOfClient
  DataSlots = {"page"}
  Visited = {"register"}
  SessionCheck = TRUE
  MaxLogins = 1
  MaxReloads = 1
  MaxAbandoned = 1
  MaxNow = 2
INVARIANTS AuthTypeOK NoOrphanedRequest
PROPERTY RequestsSettle
CHECK_DEADLOCK FALSE
