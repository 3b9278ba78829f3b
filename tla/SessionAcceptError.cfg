\* Accept fails, and nothing else is unusual.
SPECIFICATION FairSpec
CONSTANTS
  desk = desk
  phone = phone
  Clients <- MCClients
  MaxRequest = 1
  MaxReply = 1
  ReadSize = 1
  SendSize = 1
  AcceptFails = TRUE
  UnknownUsers = FALSE
PROPERTIES
  NoClientWaitsForEver
