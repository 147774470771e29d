SPECIFICATION FairSpec
CONSTANTS
  Thread = {t1, t2}
  Client = {c1, c2}
  FileSession = {s1}
  NoClient = NoClient
INVARIANTS
  TypeOK
  OneHandlerPerConnection
  OneAccept
  NothingOutlivesTheServer
PROPERTIES
  RequestsAreAnswered
  SessionsEnd
  MainReturns
\* The program ends.
CHECK_DEADLOCK FALSE
