CONSTANTS
  OutRoutes <- MCOutRoutes
  InRoutes <- MCInRoutes
  Sources <- MCSources
  Modes <- MCNormalOnly
  PcmOpenResults <- MCOpenAlwaysOk

SPECIFICATION Spec

INVARIANT RoutingApplied
