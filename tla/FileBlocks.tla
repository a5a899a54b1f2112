----------------------------- MODULE FileBlocks -----------------------------
(***************************************************************************)
(* Files cut into numbered blocks, and the array their blocks are put      *)
(* together in: what both ends of a transfer have in common.  A file is    *)
(* the index of the request it belongs to; a block of it is its number.    *)
(* Lengths are counted in half packets.                                    *)
(***************************************************************************)
EXTENDS Naturals, Sequences

CONSTANT Hole                   \* an element of an array nobody has set

MaxBlocks == 8                  \* INIT_CAP
FullLen == 2                    \* FILE_PACKET_SIZE
FileSizes == 0..FullLen * MaxBlocks     \* bound: what INIT_CAP packets hold
Uint16Size == 65536

(* ftransferrqs_new counts in 16 bits.  A file of k full packets gets k+2 *)
(* blocks: one of what lies beyond the file, and one that is empty.        *)
NumBlock(size) ==
  LET n == 1 + ((size \div FullLen) % Uint16Size)
      more == IF size % FullLen = 0 /\ size # 0 THEN 1 ELSE 0
  IN (n + more) % Uint16Size

Content(r, size) == [i \in 1..NumBlock(size) |-> [req |-> r, num |-> i]]

(* Every block is a full packet but the last. *)
BlockLen(size, i) == IF i = NumBlock(size) THEN size % FullLen ELSE FullLen

(* How much more than the file that is: a packet, if it fills its packets. *)
Beyond(size) == IF size % FullLen = 0 /\ size # 0 THEN FullLen ELSE 0

(* send_ftransfer_requests *)
Packets(r, size) == [i \in 1..NumBlock(size) |->
                      [block  |-> Content(r, size)[i],
                       len    |-> BlockLen(size, i),
                       copied |-> FALSE]]

(* Array.set: the array grows to the index, and the gap reads as zeros.    *)
SetBlock(blocks, i, b) ==
  [j \in 1..(IF i > Len(blocks) THEN i ELSE Len(blocks)) |->
     IF j = i THEN b ELSE IF j <= Len(blocks) THEN blocks[j] ELSE Hole]
=============================================================================
