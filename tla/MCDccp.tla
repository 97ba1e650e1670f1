------------------------------- MODULE MCDccp -------------------------------
(* Small instances of Dccp for TLC. *)
EXTENDS Dccp, TLC
CONSTANTS w1, w2

\* Threads that send to one worker at the same time, threads that take its acks
\* at the same time, numbers that start again from zero, and two workers under
\* the one timer.
Senders == [nic |-> FALSE, tx |-> 2, rx |-> 1, to |-> {w1}, max_sent |-> 3]
Takers  == [nic |-> FALSE, tx |-> 1, rx |-> 2, to |-> {w1}, max_sent |-> 3]
Lap     == [nic |-> FALSE, tx |-> 1, rx |-> 1, to |-> {w1}, max_sent |-> 4]
Shared  == [nic |-> FALSE, tx |-> 1, rx |-> 1, to |-> {w1, w2}, max_sent |-> 2]
\* The first two in the versions for the NIC.
NicSenders == [Senders EXCEPT !.nic = TRUE]
NicTakers  == [Takers EXCEPT !.nic = TRUE]
SmallModes == {Senders, Takers, Lap, Shared, NicSenders, NicTakers}
=============================================================================
