SPECIFICATION FairSpec
CONSTANTS
  fetch1 = fetch1
  fetch2 = fetch2
  command = command
  root = root
  mate = mate
  host = host
  Call <- MCCall
  Host = {host}
  HostOf <- MCHostOf
  DeniedDomains = {}
  AllowedDomains = {}
  AllowListGiven = FALSE
  Managed = TRUE
  Turn = {root, mate}
  TurnOf <- MCTurnOf
  ToolOf <- MCToolOf
  KeyOf <- MCKeyOf
  Policies = {"onFailure", "unlessTrusted"}
  Sandboxes = {"restricted"}
  MayBeDenied = {command}
CHECK_DEADLOCK FALSE
INVARIANTS
  OneOwner
  VerdictIsAnswer
  SessionRemembers
  ChangesAlone
  NothingRunsUnasked
  NobodyWaitsInVain
PROPERTIES
  CallsEnd
