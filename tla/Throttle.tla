------------------------------ MODULE Throttle ------------------------------
(***************************************************************************)
(* The bandwidth cap of one data transfer: transfer_file and store_file   *)
(* (core.c) send a block, add its size to xfer_len and probe_len, and call *)
(* throttle_pause (throttle.c), which sleeps until the bytes of the        *)
(* current probe window have taken at least probe_len / rate milliseconds, *)
(* and starts a new window (reporting T_XFER to the master) once the       *)
(* window is older than 500 ms.                                            *)
(*                                                                         *)
(* Time is the integer number of milliseconds since the transfer started  *)
(* (gettimeofday at core.c:300); the network's share of each step is an    *)
(* input chosen from SendTimes.                                            *)
(***************************************************************************)
EXTENDS Integers

CONSTANTS
    Rate,       \* config.throttle_rate, in bytes per millisecond (kB/s)
    Sizes,      \* byte counts one splice_stream call can move
    SendTimes,  \* milliseconds one splice_stream call can take
    MaxBlocks   \* bound on the number of blocks of one transfer

ASSUME Rate \in Int /\ MaxBlocks \in Nat
ASSUME Sizes \subseteq Nat /\ SendTimes \subseteq Nat

\* The age after which throttle_pause starts a new probe window.
ProbeWindow == 500

VARIABLES
    now,        \* the wall clock, in ms since xfer_start
    probeStart, \* info.xfer_probe
    probeLen,   \* info.probe_len
    xferLen,    \* info.xfer_len
    blocks,     \* blocks sent so far
    phase       \* "send": in the splice loop; "pause": in throttle_pause

vars == <<now, probeStart, probeLen, xferLen, blocks, phase>>

\* transfer_file / store_file: xfer_start = xfer_probe = now, lengths 0.
Init ==
    /\ now = 0
    /\ probeStart = 0
    /\ probeLen = 0
    /\ xferLen = 0
    /\ blocks = 0
    /\ phase = "send"

\* One splice_stream call moving n bytes in d ms, then the additions to
\* xfer_len and probe_len that precede the call of throttle_pause.
Send(d, n) ==
    /\ phase = "send"
    /\ blocks < MaxBlocks
    /\ now' = now + d
    /\ xferLen' = xferLen + n
    /\ probeLen' = probeLen + n
    /\ blocks' = blocks + 1
    /\ phase' = "pause"
    /\ UNCHANGED probeStart

\* msecdiff(now, xfer_probe) and transfer_size are read before the window
\* may be reset; the sleep below uses them, not the new window.
SleepFor(diff, size) ==
    IF Rate < 1 \/ size \div Rate < diff THEN 0 ELSE size \div Rate - diff

\* throttle_pause, whole: the clock-skew early return, the window reset
\* (send_state(T_XFER), xfer_probe = now, probe_len = 0), and the
\* nanosleep of idealdiff - diff, resumed until it has fully elapsed.
Pause ==
    LET diff == now - probeStart
        size == probeLen
    IN  /\ phase = "pause"
        /\ phase' = "send"
        /\ UNCHANGED <<xferLen, blocks>>
        /\ IF diff < 0
             THEN /\ probeStart' = now
                  /\ UNCHANGED <<now, probeLen>>
             ELSE /\ probeStart' = IF diff > ProbeWindow THEN now ELSE probeStart
                  /\ probeLen' = IF diff > ProbeWindow THEN 0 ELSE probeLen
                  /\ now' = now + SleepFor(diff, size)

Next ==
    \/ \E d \in SendTimes, n \in Sizes : Send(d, n)
    \/ Pause

Spec == Init /\ [][Next]_vars

TypeOK ==
    /\ now \in Nat /\ probeStart \in Nat
    /\ probeLen \in Nat /\ xferLen \in Nat
    /\ blocks \in 0..MaxBlocks
    /\ phase \in {"send", "pause"}

(***************************************************************************)
(* spec.md section 8: with rate limit R, a transfer of B bytes takes at   *)
(* least B/R of wall-clock time, within one probe window's slack.  Checked *)
(* each time throttle_pause has returned to the send loop.                 *)
(***************************************************************************)
ThrottleBound ==
    phase = "send" /\ Rate >= 1 => xferLen <= Rate * (now + ProbeWindow)

=============================================================================
