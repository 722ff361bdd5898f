\* main's start-up with every configuration file of up to 5 bytes.
CONSTANTS
  Table <- MCTable
  ConfigFiles <- MCFiles
  Keys <- MCKeys
INIT Init
NEXT Next
INVARIANTS
  ConfigLinesApplied
  CommandsDispatch
CHECK_DEADLOCK FALSE
