CONSTANTS
  Senders = {alice, bob, eve}
  Allowed = {alice, bob}
  MaxRequests = 3
  MaxTime = 2
  Window = 2
  MaxPerWindow = 2
  MaxSessions = 2
  MaxPrincipals = 1
  MaxStateBytes = 6
  SessionTtl = 1
  OutboxTtl = 1
  MaxMessages = 2
  MaxOutbox = 2
  ReplySizes = {1, 4}
SYMMETRY Interchangeable
SPECIFICATION Spec
INVARIANTS StateBounded PrivateState RateKept
PROPERTY WrittenIsKept
