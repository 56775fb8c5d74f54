SPECIFICATION LiveSpec
CONSTANTS
  Directories <- MCDirectories
  Files <- MCFiles
  Args <- MCArgs
  NumRetries = 2
  Timeout = 1
  MaxPath = 7
  MaxLost = 2
INVARIANTS FlowsAsAgreed FilesClosedButLost PwdLeadsBack
PROPERTIES CdupGoesUpByOne WorkerFreed
