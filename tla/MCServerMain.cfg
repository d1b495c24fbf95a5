SPECIFICATION ServerSpec
CONSTANTS
  Threads = {0, 1, 2, 3, 4}
  MaxMsgs = 1
  Main = 0
  Clients <- MCClients
INVARIANTS
  TypeOK
  ExactlyOnceInOrder
  ExitIsComplete
PROPERTIES
  SignalledIsPrinted
  RequestsAreAnswered
  Exits
CHECK_DEADLOCK FALSE
