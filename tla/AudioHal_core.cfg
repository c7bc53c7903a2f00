CONSTANTS
  OutRoutes <- MCNoOutRoute
  InRoutes <- MCNoInRoute
  Sources <- MCSources
  Modes <- MCModes
  PcmOpenResults <- MCOpenAlwaysOk

SPECIFICATION Spec

INVARIANT TypeOK
INVARIANT LocksReleasedOnReturn
INVARIANT ActiveStreamsConsistent
INVARIANT CaptureOpenedAfterPlayback
PROPERTY CallsReturn
