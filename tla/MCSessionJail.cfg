CONSTANTS
  MaxPath = 5
  Args <- MCLinkArgs
  Users <- MCUsers
  Accounts <- MCUsers
  AllowAnon = FALSE
  AllowLinks = FALSE
  InitDirs <- MCDirs
  InitFiles <- MCNoFiles
  Links <- MCLinks
  BlockSize = 1
  MaxOffset = 1
  MaxStor = 1
INIT Init
NEXT Next
INVARIANTS
  JailHolds
\* The worker process exits once ftp_main's loop has ended.
CHECK_DEADLOCK FALSE
