\* vfs_realpath and vfs_chdir over every short path.
CONSTANTS
  MaxPath = 7
  Inputs <- MCInputs
INIT Init
NEXT Next
INVARIANTS
  TypeOK
  ResolveMatchesReference
  ResolvedFitsBuffer
