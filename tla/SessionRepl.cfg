CONSTANTS
  Wishes = {{"kairos", "mcp", "gateway", "telegram"}}
  MaxInputs = 2
  MaxContext = 2
SPECIFICATION CliSpec
INVARIANT ReplKeepsServices
CHECK_DEADLOCK FALSE
