CONSTANTS
  OutRoutes <- MCOneOutRoute
  InRoutes <- MCOneInRoute
  Sources <- MCOneSource
  Modes <- MCNormalOnly
  PcmOpenResults <- MCOpenAlwaysOk

SPECIFICATION Spec

INVARIANT NoUseAfterFree
