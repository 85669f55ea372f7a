CONSTANTS
  cli = cli
  daemon = daemon
  other = other
  fact = fact
  plan = plan
  Clients = {cli, daemon}
  Dreamer = cli
  Facts = {fact, plan}
  Dated = {plan}
  Drafts <- Saved
  MinCluster = 2
  MaxEntries = 3
  MaxStamps = 1
SPECIFICATION Spec
INVARIANTS SavedIsKept IndexAgrees DreamCleans
