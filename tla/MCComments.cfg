CONSTANTS
  g = g
  h = h
  a = a
  b = b
  a1 = a1
  a2 = a2
  b1 = b1
  Providers <- MCProviders
  Rank <- MCRank
  MaxSettings = 1
  Repos <- MCRepos
  Served = a
  Changes <- MCChanges
  RepoOf <- MCRepoOf
  Info <- MCInfo
  Anchor <- MCAnchor
  MaxShows = 1
  MaxReplies = 1
  MaxMoves = 2
SPECIFICATION FairSpec
INVARIANT SettledShowsWanted
INVARIANT OneProviderAtWork
PROPERTY NeverOlder
PROPERTY PullsResume
CHECK_DEADLOCK FALSE
