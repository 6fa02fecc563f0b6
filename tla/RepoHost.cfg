CONSTANTS
  Lifetime <- MCLifetime
  NetworkOf <- MCNetworkOf
  HostLimits <- MCHostLimits
SPECIFICATION HostSpec
PROPERTIES
  AuthorizedIsServed
CHECK_DEADLOCK FALSE
