CONSTANTS
  file1 = file1
  File = {file1}
  Relevant = {file1}
  MaxTimers = 2
  MaxFlights = 1
  NoPass = NoPass
  NoRequest = NoRequest
  MaxChanges = 3
  ImportOK = TRUE
  Panics = TRUE
  module1 = module1  module2 = module2  server = server  mcp = mcp
  path1 = path1  path2 = path2   text1 = text1  text2 = text2
  Path = {path1, path2}
  Text = {text1, text2}
  Absent = Absent
  Images <- MCImages
  DiskFails = TRUE
  SyncCrashes = {"copy", "prune"}
  MaxBoots = 4
  Module = {module1, module2}
  Opener = {server, mcp}
  Server = server
  MaxGen = 3
  MaxCrash = 1
SPECIFICATION FairProcess
INVARIANTS ProcessTypeOK JoinedBeforeClose ValidatedFirst PendingHasTimer FingerprintsBacked TreeMatchesSymbols AllClassified
PROPERTIES StopCompletes DropTaken OperatorFilesKept StandardMirrored
