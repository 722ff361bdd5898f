\* read_cmd, parse_cmd, do_cmd and remove_cmd over a 4-byte buffer.
CONSTANTS
  LineLen = 4
  MaxStream = 5
INIT Init
NEXT Next
INVARIANTS
  TypeOK
  HandledAreSent
  EofHandledAll
\* ftp_main's loop ends for good once exit is set.
CHECK_DEADLOCK FALSE
