CONSTANTS
  Procs = {0, 1}
  tasks <- Tasks11
  Apps <- Apps11
  Active = {"shell"}
  Blockers <- First
  Shells <- Shell
  Restartable = {"app"}
  TtyTasks = {1, 2, 3}
  TtyProc <- TtyProc001
  TtyApp <- TtyApp112
  TtyShared = {"app"}
  TtyChannels = 2
  TtyBoxes = {1, 2, 3}
  TtyKeys = 2
  NbBuffers = 2
  BufferLines = 2
  NbContents = 6
SPECIFICATION AloneSpec
INVARIANT WaitHonoured
