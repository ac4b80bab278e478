SPECIFICATION Spec
CONSTANTS
  Sockets = {s1, s2}
  Peers = {p1, p2}
  Server = srv
  None = none
  Backlog = 2
  QueueLength = 1
  ConnectRepeats = 2
  Tasks = {"server", "client"}
  ListenerCloses = TRUE
INVARIANTS ConnectionInv OfferIsAcceptable
PROPERTIES ImplementsCustody OfferedAreAccepted TransientStatesEnd
CHECK_DEADLOCK FALSE
