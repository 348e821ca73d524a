CONSTANTS
  Procs = {0, 1}
  tasks <- Tasks21
  Apps <- Apps21
  Active = {"other", "shell"}
  Blockers = {}
  Shells <- Shell
  Restartable = {}
  TtyTasks = {1, 2, 3}
  TtyProc <- TtyProc001
  TtyApp <- TtyApp112
  TtyShared = {"app"}
  TtyChannels = 2
  TtyBoxes = {1, 2, 3}
  TtyKeys = 2
  NbBuffers = 2
  BufferLines = 2
  NbContents = 6
SPECIFICATION MCFairSpec
INVARIANTS ProgramsSound PipelinesSound
PROPERTIES TasksRun KillsServed ExecsStart
