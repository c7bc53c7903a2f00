CONSTANTS
  OutRoutes <- MCOneOutRoute
  InRoutes <- MCOneInRoute
  Sources <- MCOneSource
  Modes <- MCNormalOnly
  PcmOpenResults <- MCOpenMayFail

SPECIFICATION Spec

INVARIANT ActiveStreamsConsistent
