SPECIFICATION RepoSpec
CONSTANTS
  MaxServers = 2
  MaxWrites = 1
  MaxSame = 1
  MaxBuilds = 3
  MaxFaults = 1
  Imported = 9
INVARIANTS
    LatestRepoWins
PROPERTIES
    KeepsLibrary
CHECK_DEADLOCK FALSE
