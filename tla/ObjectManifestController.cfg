CONSTANTS
  Manifest <- MCManifest
  Unreadable <- MCUnreadable
  Media <- MCMedia
  InitSegment <- MCInit
  BadURL <- MCBadURL
  ManifestURL = "manifest.mpd"
  Announced <- MCAnnounced
  Representation <- MCRepresentation
  AvailableFrom <- MCAvailableFrom
  UpdatePeriod <- MCUpdatePeriod
  Lifetime <- MCLifetime
  MaxManifests = 3
  MaxTime = 3
SPECIFICATION Spec
CHECK_DEADLOCK FALSE
INVARIANTS
  NothingAskedEarly
  OneRefresh
  RefreshGoesOn
  NoSegmentMissed
PROPERTIES
  ExtrasFetched
  AbortEnds
