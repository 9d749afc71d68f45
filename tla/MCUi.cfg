SPECIFICATION UiSpec
CONSTANTS
  QueueLimit = 3
  FlushBelow = 2
  MaxKeys = 2
  MaxHosts = 2
  MaxEpoch = 2
  MaxOrders = 2
  Shells = {shell}
  RunTerminals = {run}
  Nothing = nothing
  AskLimit = 2
  MaxOwnerEpoch = 3
  MaxMoves = 1
  Pages = {"Branches", "Remotes"}
  Texts = {1}
  Keys = {"page", "review", "operation", "list"}
  IntentLimit = 3
  MaxNonce = 4
  MaxGitHosts = 2
  MaxWire = 1
INVARIANTS
    ActsOnTheHostSeen
    ExecutedWasConfirmed
    NothingLeftBehind
PROPERTIES
    TypedIsKept
    TakeoverWasConfirmed
CHECK_DEADLOCK FALSE
