\* One throttled RETR of up to 6 full blocks at TransferRate 1 (1 kB/s)
\* over a network that takes no time: every delay is throttle_pause's own.
CONSTANTS
    Rate = 1
    Sizes = {4096}
    SendTimes = {0}
    MaxBlocks = 6
SPECIFICATION Spec
INVARIANT ThrottleBound
CHECK_DEADLOCK FALSE
