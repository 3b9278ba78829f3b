\* Replies longer than a client's read, and nothing else that is unusual.
SPECIFICATION FairSpec
CONSTANTS
  desk = desk
  phone = phone
  Clients <- MCClients
  MaxRequest = 1
  MaxReply = 2
  ReadSize = 1
  SendSize = 2
  AcceptFails = FALSE
  UnknownUsers = FALSE
PROPERTIES
  ClientsGetReports
