\* Midnight and the last second of every day from 1970 through 2001, the
\* years around 2000, the one year before 2100 that is divisible by 400.
CONSTANT Times <- MCTimes
SPECIFICATION Spec
INVARIANT MdtmIsUtc
CHECK_DEADLOCK FALSE
