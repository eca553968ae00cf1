CONSTANTS
  s0 = s0
  s1 = s1
  pu = pu
  p0 = p0
  px = px
  NoWrite = NoWrite
  Serials <- MCSerials
  ListedSerials <- MCListed
  ZeroSerial = s0
  Passwords <- MCPasswords
  unique_password = pu
  first_time_password = p0
  QueueSize = 3
  MaxConns = 2
  MaxEvents = 2
SPECIFICATION LinkSpec
INVARIANTS
  LinkTypeOK
  OpensOnlyForAuthorised
  RunDecides
  NothingLeftBehind
  NotifiedBeforeOpen
  AnswersAsker
  NoStaleEvents
  HandlesSettle
PROPERTIES
  ImplementsDoor
  Connectable
