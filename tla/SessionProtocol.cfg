\* Requests and replies in pieces, longer than one read or one write takes;
\* accept may fail, and a request may be about a user of an earlier run.
SPECIFICATION FairSpec
CONSTANTS
  desk = desk
  phone = phone
  Clients <- MCClients
  MaxRequest = 2
  MaxReply = 3
  ReadSize = 2
  SendSize = 2
  AcceptFails = TRUE
  UnknownUsers = TRUE
INVARIANTS
  SessionTypeOK
  NothingLost
PROPERTIES
  ServedClientsAnswered
  SessionsReleased
