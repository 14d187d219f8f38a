SPECIFICATION Spec
CONSTANTS
  Client = {"new", "other"}
  BuildsOf <- MCBuildsOf
  Playlist = {"raid", "survivors"}
  Sentinel = "sentinel"
  Absent = "none"
  HostsFirst = {"new"}
  Restamps = FALSE
  MaxPlayers = 2
  MaxRooms = 2
INVARIANT OnlyMatchesListed
