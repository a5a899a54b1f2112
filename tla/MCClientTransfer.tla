-------------------------- MODULE MCClientTransfer --------------------------
(* ClientTransfer for TLC.  Files have one block (size 1), two (3), or     *)
(* three when they fill a packet (2).                                      *)
EXTENDS ClientTransfer

Good == [sizes |-> {2, 3}, requests |-> 4, faults |-> {},
         patient |-> TRUE, slow |-> FALSE, diskFaults |-> FALSE]
FullDisk == [Good EXCEPT !.requests = 3, !.diskFaults = TRUE]
Busy == [sizes |-> {1, 3}, requests |-> 3, faults |-> {"loss", "reorder"},
         patient |-> FALSE, slow |-> TRUE, diskFaults |-> TRUE]
AllWorlds == {Good, FullDisk, Busy}
=============================================================================
