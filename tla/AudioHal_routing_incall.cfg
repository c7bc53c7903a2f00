CONSTANTS
  OutRoutes <- MCOneOutRoute
  InRoutes <- MCOneInRoute
  Sources <- MCOneSource
  Modes <- MCModes
  PcmOpenResults <- MCOpenAlwaysOk

SPECIFICATION Spec

INVARIANT RoutingApplied
