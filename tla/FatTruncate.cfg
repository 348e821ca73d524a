CONSTANTS
  Entries = 6
  DirPaths <- MCDirs
  FilePaths <- MCFiles
  ClusterSize = 4
  MaxSize = 6
  FdMax = 2
  Slots = 3
  Lengths = {3}
  Offsets = {3}
  Values = {"x"}
  Listed <- MCListed
  Refused = 0
  Recycled = {}
  Habits = {"empty"}
SPECIFICATION Spec
INVARIANT FreeClustersCounted
