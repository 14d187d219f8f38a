SPECIFICATION FairSpec
CONSTANTS
  Client = {"new", "other"}
  BuildsOf <- MCBuildsOf
  Playlist = {"raid", "survivors"}
  Sentinel = "sentinel"
  Absent = "none"
  HostsFirst = {"new"}
  Restamps = TRUE
  MaxPlayers = 2
  MaxRooms = 2
INVARIANT TypeOK
INVARIANT OnlyMatchesListed
INVARIANT OffersFit
PROPERTY Offered
