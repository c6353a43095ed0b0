\* Every screen for itself.
SPECIFICATION Spec
CONSTANTS
  user1 = user1
  user2 = user2
  tab1 = tab1
  tab2 = tab2
  tab3 = tab3
  NTabs = {tab1, tab2, tab3}
  NUserOf <- TabUsers
  NAgents = {user1}
  NProcesses = {process1, process2}
  process1 = process1
  process2 = process2
  MaxNotes = 2
  KeepLast = 1
  Viewers = {supplier1, client1}
  Quoters = {supplier1}
  Processes = {process1, process2}
  Writers = {supplier1}
  MaxMessages = 2
  MaxBreaks = 1
  QViewers = {client1, agent1}
  QClients = {client1}
  QLastStage = 2
  QMaxWrites = 3
  QMaxFaults = 1
  PRfqs = {a, b, c}
  PListed = {a, b}
  PEmpty = {c}
  PMaxAnswered = 1
  PMaxFiled = 1
  PMaxFaults = 1
  SMaxRows = 2
  SMaxFaults = 1
  BQuantities = {1, 2}
  BPrices = {1, 2}
  BMaxFaults = 1
  RMaxFaults = 1
INVARIANTS
  TypeOK
  
  OwnActionShown
  FiledAsCalculated
  CodeShownIsSent
  MinimumOrderMet
  OwnAnswerShown
SYMMETRY Alike
CHECK_DEADLOCK FALSE
