\* Chains of up to three pairs on a server that knows its resource and one that
\* does not, which change between two secrets and none; the refresh token
\* outlives the access token.
CONSTANTS
  None = None
  Grants <- MCGrants
  Clients = {"app", "cli"}
  Scopes = {"read", "write"}
  Servers = {"prod", "local"}
  Configured = {"prod"}
  old = old
  new = new
  Secrets = {old, new}
  AccessTtl = 1
  RefreshTtl = 2
  MaxPairs = 3
  MaxRedeploys = 2
SPECIFICATION Spec
SYMMETRY Symmetry
\* MaxPairs tokens may have been minted and all have expired
CHECK_DEADLOCK FALSE
INVARIANTS TypeOK RefreshOnlyWhereAllowed ScopeNeverWidens OnlyItsAudience RotationLogsOut
