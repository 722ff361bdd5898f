------------------------------- MODULE MCMdtm -------------------------------
EXTENDS Mdtm

\* Day starts and day ends over 1970-01-01 .. 2001-03-10.
MCTimes == { d * 86400 + s : d \in 0..11390, s \in {0, 86399} }

=============================================================================
