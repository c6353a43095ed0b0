SPECIFICATION FairSpec
CONSTANTS
  agent1 = agent1
  client1 = client1
  Accounts = {agent1, client1}
  RoleOf <- RoleOfUsers
  Statuses = {"pending"}
  Visited = {"settings"}
  MaxEvents = 2
  MaxCalls = 1
INVARIANTS TypeOK OwnTour
PROPERTY SomethingShown
CHECK_DEADLOCK FALSE
