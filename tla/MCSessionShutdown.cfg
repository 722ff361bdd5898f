CONSTANTS
  MaxPath = 5
  Args <- MCArgs
  Users <- MCUsers
  Accounts <- MCUsers
  AllowAnon = TRUE
  AllowLinks = FALSE
  InitDirs <- MCDirs
  InitFiles <- MCFiles
  Links = {}
  BlockSize = 1
  MaxOffset = 2
  MaxStor = 1
INIT Init
NEXT Next
INVARIANTS
  ShutdownHonoured
\* The worker process exits once ftp_main's loop has ended.
CHECK_DEADLOCK FALSE
