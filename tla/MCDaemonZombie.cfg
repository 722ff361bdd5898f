CONSTANTS
  p1 = p1
  p2 = p2
  p3 = p3
  Pids <- MCPids
  MaxClients = 2
  MaxPipe = 2
INIT Init
NEXT Next
\* The master exits once its loop has ended and its workers may all exit.
CHECK_DEADLOCK FALSE
SYMMETRY MCSym
INVARIANTS ZombiesReaped
