SPECIFICATION Spec
CONSTANTS
  Udp = {"u1", "u2", "u3"}
  Tcp = {"c"}
  Tasks = {"reader", "selector"}
  Selector = "selector"
  MaxPort = 3
  ResetPort = 1
  Datagrams = {1, 2}
  MaxWaiting = 2
  MaxTcp = 2
  None = None
  Owner <- MCOwner
  Wants <- MCWants
  Casts <- MCCasts
INVARIANTS PortsAreUnique NobodyOversleeps ReadableHasData
PROPERTIES ImplementsMailboxes QuestionsAreAnswered
