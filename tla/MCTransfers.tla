---------------------------- MODULE MCTransfers ----------------------------
(* Transfers for TLC.  Clients differ only in their ids.  Files have one   *)
(* to three blocks: sizes 1, 3, 5, and 2 for one full packet.              *)
EXTENDS Transfers, TLC

Symmetry == Permutations(Ids)

Good == [sizes |-> {1, 2, 3}, feeds |-> {0, 1}, requests |-> 3,
         kinds |-> {"upload", "download"}, faults |-> {}, patient |-> TRUE,
         timeouts |-> FALSE, diskFaults |-> FALSE]

FullDisk == [Good EXCEPT !.requests = 2, !.diskFaults = TRUE]

Slow == [Good EXCEPT !.sizes = {1, 3}, !.requests = 2, !.kinds = {"upload"},
                     !.timeouts = TRUE]

Repeating == [Good EXCEPT !.sizes = {3}, !.feeds = {0}, !.requests = 2,
                          !.faults = {"reorder", "dup"}, !.patient = FALSE]

Lossy == [Repeating EXCEPT !.sizes = {1, 3}, !.faults = {"loss", "reorder"},
                           !.timeouts = TRUE]

Hostile == [Good EXCEPT !.sizes = {1}, !.requests = 2,
                        !.faults = {"loss", "reorder", "dup"},
                        !.patient = FALSE, !.timeouts = TRUE,
                        !.diskFaults = TRUE]

AllWorlds == {Good, FullDisk, Lossy, Repeating, Hostile}
SlowWorld == {Slow}
=============================================================================
