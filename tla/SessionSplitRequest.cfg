\* Requests longer than a session's read, and nothing else that is unusual.
SPECIFICATION Spec
CONSTANTS
  desk = desk
  phone = phone
  Clients <- MCClients
  MaxRequest = 2
  MaxReply = 1
  ReadSize = 1
  SendSize = 1
  AcceptFails = FALSE
  UnknownUsers = FALSE
INVARIANTS
  OnlySignalStops
