SPECIFICATION FairSpec
CONSTANTS
  Handler = {f, g}
  Hosts = {m, n}
  Uploads = {v, w}
  MaxFaults = 1
INVARIANT UploadsRoundTrip
INVARIANT DamageHasACause
INVARIANT AssetsAreOriginals
INVARIANT NoFalseMiss
PROPERTY OriginalArrives
