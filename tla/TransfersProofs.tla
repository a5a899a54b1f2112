--------------------------- MODULE TransfersProofs ---------------------------
(***************************************************************************)
(* Proofs about Transfers.tla, for any set of registered users, any number *)
(* of requests, and whatever clients, network and clock may do.            *)
(***************************************************************************)
EXTENDS Transfers, FileBlocksProofs

Holding == {"store", "test", "feed", "number", "post", "write", "copy"}
Blocks == Block \cup {Hole}

(* What TypeOK leaves open: the number of a packet is that of a block of a *)
(* file, which is what keeps the array of a slot within its capacity.      *)
Fits(n) == \E size \in world.sizes : n <= NumBlock(size)
PacketsFit ==
  /\ \A id \in Ids : \A k \in DOMAIN net[id] : Fits(net[id][k].block.num)
  /\ udp.pc \in Holding => Fits(udp.packet.block.num)

TypeInv == TypeOK /\ PacketsFit

-----------------------------------------------------------------------------
(* What the typing says of the variables *)

LEMMA WorldFacts ==
  ASSUME TypeInv
  PROVE  /\ \A size \in world.sizes : /\ size \in Nat /\ size \in FileSizes
                                      /\ NumBlock(size) \in 0..MaxBlocks
         /\ world.feeds \subseteq Nat /\ world.requests \in 0..MaxRequests
         /\ MaxRequests \in Nat
<1>1. world \in Worlds
  BY DEF TypeInv, TypeOK
<1>2. \A size \in world.sizes : /\ size \in Nat /\ size \in FileSizes
                                /\ NumBlock(size) <= MaxBlocks
  BY <1>1, TransfersAssumption, SizesAddUp
<1>3. \A size \in world.sizes : NumBlock(size) \in 0..MaxBlocks
  BY <1>2, NumBlockType DEF MaxBlocks
<1> QED
  BY <1>1, <1>2, <1>3, TransfersAssumption

LEMMA ThreadFacts ==
  ASSUME TypeInv
  PROVE  /\ udp.pc \in Holding => udp.id \in Ids /\ udp.packet \in Packet
         /\ udp.pc \in Holding \ {"copy"} =>
              udp = [pc |-> udp.pc, id |-> udp.id, packet |-> udp.packet]
         /\ udp.pc = "copy" => udp.file \in 1..MaxRequests /\ udp.feed \in Nat
         /\ tcp.pc \in {"send", "clear", "zero"} =>
              tcp.id \in Ids /\ tcp = [pc |-> tcp.pc, id |-> tcp.id]
BY DEF TypeInv, TypeOK, Idle, Dead, Holding

LEMMA RecordTypes ==
  /\ \A s \in Slot : /\ s.active \in BOOLEAN /\ s.file \in 0..MaxRequests
                     /\ s.feed \in Nat /\ s.blocks \in Seq(Blocks)
                     /\ s.last \in 0..MaxBlocks /\ s.size \in Nat
  /\ \A p \in Packet : /\ p.block \in Block /\ p.block.req \in 1..MaxRequests
                       /\ p.block.num \in 1..MaxBlocks /\ p.len \in 0..FullLen
                       /\ p.copied \in BOOLEAN
BY DEF Slot, Packet, Block, Blocks

LEMMA ClearedType ==
  /\ Cleared \in Slot /\ Cleared.blocks = <<>> /\ Cleared.file = 0
  /\ \A r \in 1..MaxRequests, n \in Nat :
       Fresh(r, n) \in Slot /\ Fresh(r, n).blocks = <<>> /\ Fresh(r, n).file = r
<1>1. <<>> \in Seq(Block \cup {Hole})
  BY EmptySeq
<1>2. 0 \in 0..MaxRequests /\ 0 \in 0..MaxBlocks
  BY TransfersAssumption DEF MaxBlocks
<1>3. Cleared \in Slot /\ Cleared.blocks = <<>> /\ Cleared.file = 0
  BY <1>1, <1>2 DEF Cleared, Slot
<1>4. ASSUME NEW r \in 1..MaxRequests, NEW n \in Nat
      PROVE  Fresh(r, n) \in Slot /\ Fresh(r, n).blocks = <<>> /\ Fresh(r, n).file = r
  <2>1. r \in 0..MaxRequests
    BY TransfersAssumption
  <2> QED
    BY <1>3, <2>1 DEF Fresh, Slot
<1> QED
  BY <1>3, <1>4

(* Requests are only added. *)
LEMMA NewRequest ==
  ASSUME TypeInv, NEW q \in Request, reqs' = Append(reqs, q)
  PROVE  /\ reqs' \in Seq(Request) /\ Len(reqs') = Len(reqs) + 1
         /\ DOMAIN reqs = 1..Len(reqs) /\ Len(reqs) \in Nat
         /\ DOMAIN reqs' = 1..(Len(reqs) + 1)
         /\ \A r \in DOMAIN reqs : reqs'[r] = reqs[r]
         /\ reqs'[Len(reqs) + 1] = q
<1>1. reqs \in Seq(Request)
  BY DEF TypeInv, TypeOK
<1> QED
  BY <1>1, AppendProperties, LenProperties

(* A slot or the datagrams of a client are replaced. *)
LEMMA SlotTyped ==
  ASSUME TypeInv, NEW id \in Ids, NEW s \in Slot,
         s.blocks # <<>> => Fits(Len(s.blocks)),
         slot' = [slot EXCEPT ![id] = s], UNCHANGED world
  PROVE  /\ slot' \in [Ids -> Slot]
         /\ \A i \in Ids : slot'[i].blocks # <<>> =>
              \E size \in world'.sizes : Len(slot'[i].blocks) <= NumBlock(size)
         /\ \A i \in Ids : slot'[i] = IF i = id THEN s ELSE slot[i]
BY DEF TypeInv, TypeOK, Fits

LEMMA NetTyped ==
  ASSUME TypeInv, NEW id \in Ids, NEW q \in Seq(Packet),
         \A k \in DOMAIN q : Fits(q[k].block.num),
         net' = [net EXCEPT ![id] = q], UNCHANGED world
  PROVE  /\ net' \in [Ids -> Seq(Packet)]
         /\ \A i \in Ids : \A k \in DOMAIN net'[i] : Fits(net'[i][k].block.num)
         /\ \A i \in Ids : net'[i] = IF i = id THEN q ELSE net[i]
<1>1. net \in [Ids -> Seq(Packet)]
  BY DEF TypeInv, TypeOK
<1>2. \A i \in Ids : net'[i] = IF i = id THEN q ELSE net[i]
  BY <1>1
<1>3. \A i \in Ids : \A k \in DOMAIN net'[i] : Fits(net'[i][k].block.num)
  BY <1>2 DEF TypeInv, PacketsFit
<1> QED
  BY <1>1, <1>2, <1>3

(* One datagram less, and which ones are left. *)
LEMMA TakeOne ==
  ASSUME TypeInv, NEW id \in Ids, NEW k \in DOMAIN net[id]
  PROVE  /\ net[id][k] \in Packet /\ Fits(net[id][k].block.num)
         /\ RemoveAt(net[id], k) \in Seq(Packet)
         /\ \A j \in DOMAIN RemoveAt(net[id], k) :
              \E l \in DOMAIN net[id] : RemoveAt(net[id], k)[j] = net[id][l]
         /\ \A j \in DOMAIN RemoveAt(net[id], k) :
              Fits(RemoveAt(net[id], k)[j].block.num)
<1> DEFINE q == net[id]
<1>1. q \in Seq(Packet)
  BY DEF TypeInv, TypeOK
<1>2. Len(q) \in Nat /\ DOMAIN q = 1..Len(q) /\ q[k] \in Packet
  <2>1. Len(q) \in Nat /\ DOMAIN q = 1..Len(q)
    BY <1>1, LenProperties
  <2> QED
    BY <1>1, <2>1, ElementOfSeq
<1>3. /\ RemoveAt(q, k) \in Seq(Packet)
      /\ DOMAIN RemoveAt(q, k) = 1..(Len(q) - 1)
      /\ \A j \in 1..(Len(q) - 1) :
           RemoveAt(q, k)[j] = IF j < k THEN q[j] ELSE q[j + 1]
  BY <1>1, RemoveAtFacts
<1>4. ASSUME NEW j \in 1..(Len(q) - 1)
      PROVE  \E l \in DOMAIN q : RemoveAt(q, k)[j] = q[l]
  <2>1. j \in DOMAIN q /\ j + 1 \in DOMAIN q
    BY <1>2
  <2> QED
    BY <1>3, <2>1
<1>5. \A l \in DOMAIN q : Fits(q[l].block.num)
  BY DEF TypeInv, PacketsFit
<1> QED
  BY <1>2, <1>3, <1>4, <1>5

-----------------------------------------------------------------------------
LEMMA InitTypeInv == Init => TypeInv
<1> SUFFICES ASSUME Init
             PROVE  TypeInv
  OBVIOUS
<1>1. reqs \in Seq(Request) /\ Len(reqs) = 0 /\ posts \in Seq(Published)
  BY EmptySeq DEF Init
<1>2. slot \in [Ids -> Slot] /\ \A id \in Ids : slot[id].blocks = <<>>
  BY ClearedType DEF Init
<1>3. net \in [Ids -> Seq(Packet)] /\ \A id \in Ids : DOMAIN net[id] = {}
  BY EmptySeq DEF Init
<1> QED
  BY <1>1, <1>2, <1>3, TransfersAssumption
     DEF Init, TypeInv, TypeOK, PacketsFit, Idle, Holding

(* The packets of an upload, and the datagrams of its client once they are *)
(* sent: those it had, and these.                                          *)
LEMMA UploadPackets ==
  ASSUME TypeInv, NEW r \in 1..MaxRequests, NEW size \in world.sizes
  PROVE  /\ Packets(r, size) \in Seq(Packet)
         /\ NumBlock(size) \in Nat /\ Len(Packets(r, size)) = NumBlock(size)
         /\ \A k \in 1..NumBlock(size) :
              /\ Packets(r, size)[k] = [block |-> [req |-> r, num |-> k],
                                        len |-> BlockLen(size, k),
                                        copied |-> FALSE]
              /\ Fits(Packets(r, size)[k].block.num)
<1>1. size \in Nat /\ NumBlock(size) \in 0..MaxBlocks
  BY WorldFacts
<1>2. ASSUME NEW i \in 1..NumBlock(size)
      PROVE  [block |-> [req |-> r, num |-> i], len |-> BlockLen(size, i),
              copied |-> FALSE] \in Packet
  <2>1. i \in Nat /\ i \in 1..MaxBlocks
    BY <1>1 DEF MaxBlocks
  <2>2. BlockLen(size, i) \in 0..FullLen
    BY <1>1, <2>1, BlockLenFacts
  <2> QED
    BY <2>1, <2>2 DEF Packet, Block
<1>3. /\ Packets(r, size) \in Seq(Packet)
      /\ Len(Packets(r, size)) = NumBlock(size)
      /\ \A i \in 1..NumBlock(size) :
           Packets(r, size)[i] = [block |-> [req |-> r, num |-> i],
                                  len |-> BlockLen(size, i), copied |-> FALSE]
  BY <1>1, <1>2, PacketsFacts
<1>4. ASSUME NEW k \in 1..NumBlock(size)
      PROVE  Fits(Packets(r, size)[k].block.num)
  <2>1. Packets(r, size)[k] = [block |-> [req |-> r, num |-> k],
                               len |-> BlockLen(size, k), copied |-> FALSE]
    BY <1>3
  <2>2. NumBlock(size) \in Nat /\ k <= NumBlock(size)
    BY <1>1 DEF MaxBlocks
  <2> QED
    BY <2>1, <2>2 DEF Fits
<1> QED
  BY <1>1, <1>3, <1>4 DEF MaxBlocks

LEMMA UploadEffect ==
  ASSUME TypeInv, NEW id \in Ids, NEW n \in world.feeds, NEW size \in world.sizes,
         PrepareUpload(id, n, size)
  PROVE  LET r == Len(reqs) + 1
             q == [id |-> id, kind |-> "upload", feed |-> n, size |-> size]
         IN  /\ q \in Request /\ n \in Nat /\ r \in 1..MaxRequests
             /\ reqs' = Append(reqs, q)
             /\ slot' = [slot EXCEPT ![id] = Fresh(r, n)]
             /\ net' = [net EXCEPT ![id] = net[id] \o Packets(r, size)]
             /\ net[id] \o Packets(r, size) \in Seq(Packet)
             /\ \A k \in DOMAIN (net[id] \o Packets(r, size)) :
                  \/ k \in DOMAIN net[id]
                     /\ (net[id] \o Packets(r, size))[k] = net[id][k]
                  \/ \E j \in 1..NumBlock(size) :
                       (net[id] \o Packets(r, size))[k] = Packets(r, size)[j]
             /\ UNCHANGED <<world, udp, tcp, nfeeds, posts, files, up>>
<1> DEFINE r == Len(reqs) + 1
           q == [id |-> id, kind |-> "upload", feed |-> n, size |-> size]
           a == net[id]
           b == Packets(r, size)
<1>1. q \in Request /\ n \in Nat
  BY WorldFacts DEF Request
<1>2. r \in 1..MaxRequests
  <2>1. Len(reqs) \in Nat
    BY LenProperties DEF TypeInv, TypeOK
  <2> QED
    BY <2>1, WorldFacts DEF PrepareUpload
<1>3. /\ reqs' = Append(reqs, q) /\ slot' = [slot EXCEPT ![id] = Fresh(r, n)]
      /\ net' = [net EXCEPT ![id] = a \o b]
      /\ UNCHANGED <<world, udp, tcp, nfeeds, posts, files, up>>
  BY DEF PrepareUpload, SlotOf
<1>4. a \in Seq(Packet) /\ b \in Seq(Packet) /\ NumBlock(size) \in Nat
      /\ Len(b) = NumBlock(size)
  BY <1>2, UploadPackets DEF TypeInv, TypeOK
<1>5. Len(a) \in Nat /\ DOMAIN a = 1..Len(a)
  BY <1>4, LenProperties
<1> HIDE DEF a, b
<1>6. /\ a \o b \in Seq(Packet) /\ DOMAIN (a \o b) = 1..Len(a \o b)
      /\ Len(a \o b) = Len(a) + Len(b)
      /\ \A k \in 1..(Len(a) + Len(b)) :
           (a \o b)[k] = IF k <= Len(a) THEN a[k] ELSE b[k - Len(a)]
  BY <1>4, ConcatProperties, LenProperties
<1>7. ASSUME NEW k \in DOMAIN (a \o b)
      PROVE  \/ k \in DOMAIN a /\ (a \o b)[k] = a[k]
             \/ \E j \in 1..NumBlock(size) : (a \o b)[k] = b[j]
  <2>1. CASE k <= Len(a)
    BY <1>4, <1>5, <1>6, <2>1
  <2>2. CASE ~ (k <= Len(a))
    <3>1. k - Len(a) \in 1..NumBlock(size) /\ k \in 1..(Len(a) + Len(b))
      BY <1>4, <1>5, <1>6, <2>2
    <3> QED
      BY <1>6, <2>2, <3>1
  <2> QED
    BY <2>1, <2>2
<1> QED
  BY <1>1, <1>2, <1>3, <1>6, <1>7 DEF a, b

LEMMA UploadTypeInv ==
  ASSUME TypeInv, NEW id \in Ids, NEW n \in world.feeds, NEW size \in world.sizes,
         PrepareUpload(id, n, size)
  PROVE  TypeInv'
<1> DEFINE r == Len(reqs) + 1
           q == [id |-> id, kind |-> "upload", feed |-> n, size |-> size]
           d == net[id] \o Packets(r, size)
<1>1. /\ q \in Request /\ n \in Nat /\ r \in 1..MaxRequests
      /\ reqs' = Append(reqs, q)
      /\ slot' = [slot EXCEPT ![id] = Fresh(r, n)]
      /\ net' = [net EXCEPT ![id] = d] /\ d \in Seq(Packet)
      /\ UNCHANGED <<world, udp, tcp, nfeeds, posts, files, up>>
  BY UploadEffect
<1>2. reqs' \in Seq(Request) /\ Len(reqs') <= MaxRequests
  <2>1. reqs' \in Seq(Request) /\ Len(reqs') = r
    BY <1>1, NewRequest
  <2> QED
    BY <1>1, <2>1, WorldFacts
<1>3. /\ slot' \in [Ids -> Slot]
      /\ \A i \in Ids : slot'[i].blocks # <<>> =>
           \E s \in world'.sizes : Len(slot'[i].blocks) <= NumBlock(s)
  <2>1. Fresh(r, n) \in Slot /\ Fresh(r, n).blocks = <<>>
    BY <1>1, ClearedType
  <2> QED
    BY <1>1, <2>1, SlotTyped
<1>4. \A k \in DOMAIN d : Fits(d[k].block.num)
  <2>1. \A k \in DOMAIN net[id] : Fits(net[id][k].block.num)
    BY DEF TypeInv, PacketsFit
  <2>2. \A j \in 1..NumBlock(size) : Fits(Packets(r, size)[j].block.num)
    BY <1>1, UploadPackets
  <2>3. \A k \in DOMAIN d : \/ k \in DOMAIN net[id] /\ d[k] = net[id][k]
                            \/ \E j \in 1..NumBlock(size) : d[k] = Packets(r, size)[j]
    BY UploadEffect
  <2> HIDE DEF d
  <2> QED
    BY <2>1, <2>2, <2>3
<1> HIDE DEF d
<1>5. /\ net' \in [Ids -> Seq(Packet)]
      /\ \A i \in Ids : \A k \in DOMAIN net'[i] : Fits(net'[i][k].block.num)
  BY <1>1, <1>4, NetTyped
<1>6. PacketsFit'
  BY <1>1, <1>5 DEF TypeInv, PacketsFit, Fits
<1> QED
  BY <1>1, <1>2, <1>3, <1>5, <1>6 DEF TypeInv, TypeOK

LEMMA DownloadTypeInv ==
  ASSUME TypeInv, NEW id \in Ids, NEW f \in files, PrepareDownload(id, f)
  PROVE  TypeInv'
<1> DEFINE r == Len(reqs) + 1
           q == [id |-> id, kind |-> "download", feed |-> f.feed, size |-> 0]
<1>1. q \in Request /\ f.feed \in Nat
  BY DEF TypeInv, TypeOK, Request, Published, FileSizes, FullLen, MaxBlocks
<1>2. reqs' \in Seq(Request) /\ Len(reqs') = r /\ r \in 1..MaxRequests
  <2>1. reqs' = Append(reqs, q)
    BY DEF PrepareDownload
  <2>2. reqs' \in Seq(Request) /\ Len(reqs') = r /\ Len(reqs) \in Nat
    BY <1>1, <2>1, NewRequest
  <2> QED
    BY <2>2, WorldFacts DEF PrepareDownload
<1>3. /\ slot' \in [Ids -> Slot]
      /\ \A i \in Ids : slot'[i].blocks # <<>> =>
           \E s \in world'.sizes : Len(slot'[i].blocks) <= NumBlock(s)
  <2>1. Fresh(r, f.feed) \in Slot /\ Fresh(r, f.feed).blocks = <<>>
    BY <1>1, <1>2, ClearedType
  <2>2. slot' = [slot EXCEPT ![id] = Fresh(r, f.feed)] /\ world' = world
    BY DEF PrepareDownload, SlotOf
  <2> QED
    BY <2>1, <2>2, SlotTyped
<1>4. tcp' \in [pc : {"send", "clear", "zero"}, id : Ids]
      /\ UNCHANGED <<world, net, udp, nfeeds, posts, files, up>>
  BY DEF PrepareDownload
<1>5. PacketsFit'
  BY <1>4 DEF TypeInv, PacketsFit, Fits
<1>6. Len(reqs') <= MaxRequests
  BY <1>2, WorldFacts
<1> QED
  BY <1>2, <1>3, <1>4, <1>5, <1>6 DEF TypeInv, TypeOK

(* The TCP thread only ever empties slots. *)
LEMMA TcpTypeInv ==
  ASSUME TypeInv, \/ SendFile \/ ClearDownload \/ TimeoutZero
                  \/ \E id \in Ids : TimeoutFree(id)
  PROVE  TypeInv'
<1>1. UNCHANGED <<world, reqs, net, udp, nfeeds, posts, files, up>>
  BY DEF SendFile, ClearDownload, TimeoutZero, TimeoutFree
<1>2. PacketsFit'
  BY <1>1 DEF TypeInv, PacketsFit, Fits
<1>3. tcp' \in {Idle, Dead} \cup [pc : {"send", "clear", "zero"}, id : Ids]
  <2>1. CASE SendFile
    <3>1. tcp \in [pc : {"send", "clear", "zero"}, id : Ids]
      BY <2>1 DEF SendFile, TypeInv, TypeOK, Idle, Dead
    <3> QED
      BY <2>1, <3>1 DEF SendFile
  <2>2. CASE ~ SendFile
    BY <2>2 DEF ClearDownload, TimeoutZero, TimeoutFree
  <2> QED
    BY <2>1, <2>2
<1>4. slot' = slot \/ \E id \in Ids : slot' = [slot EXCEPT ![id] = Cleared]
  BY ThreadFacts DEF SendFile, ClearDownload, TimeoutZero, TimeoutFree, SlotOf
<1>5. /\ slot' \in [Ids -> Slot]
      /\ \A i \in Ids : slot'[i].blocks # <<>> =>
           \E s \in world'.sizes : Len(slot'[i].blocks) <= NumBlock(s)
  <2>1. CASE slot' = slot
    BY <1>1, <2>1 DEF TypeInv, TypeOK
  <2>2. ASSUME NEW id \in Ids, slot' = [slot EXCEPT ![id] = Cleared]
        PROVE  /\ slot' \in [Ids -> Slot]
               /\ \A i \in Ids : slot'[i].blocks # <<>> =>
                    \E s \in world'.sizes : Len(slot'[i].blocks) <= NumBlock(s)
    BY <1>1, <2>2, ClearedType, SlotTyped
  <2> QED
    BY <1>4, <2>1, <2>2
<1> QED
  BY <1>1, <1>2, <1>3, <1>5 DEF TypeInv, TypeOK

(* What the network does to a block is to lose it or to have it twice.     *)
LEMMA NetworkEffect ==
  ASSUME TypeInv, NEW id \in Ids, NEW k \in DOMAIN net[id],
         Lose(id, k) \/ Duplicate(id, k)
  PROVE  /\ \E q \in Seq(Packet) :
              /\ net' = [net EXCEPT ![id] = q]
              /\ \A j \in DOMAIN q : \E l \in DOMAIN net[id] :
                   q[j].block = net[id][l].block
         /\ UNCHANGED <<world, reqs, slot, udp, tcp, nfeeds, posts, files, up>>
<1>1. net[id] \in Seq(Packet)
  BY DEF TypeInv, TypeOK
<1>2. CASE Lose(id, k)
  <2> DEFINE q == RemoveAt(net[id], k)
  <2>1. net' = [net EXCEPT ![id] = q]
    BY <1>2 DEF Lose
  <2>2. q \in Seq(Packet) /\ \A j \in DOMAIN q : \E l \in DOMAIN net[id] : q[j] = net[id][l]
    BY TakeOne
  <2> HIDE DEF q
  <2>3. \A j \in DOMAIN q : \E l \in DOMAIN net[id] : q[j].block = net[id][l].block
    BY <2>2
  <2> QED
    BY <1>2, <2>1, <2>2, <2>3 DEF Lose
<1>3. CASE Duplicate(id, k)
  <2> DEFINE p == [net[id][k] EXCEPT !.copied = TRUE]
             a == [net[id] EXCEPT ![k] = p]
             q == Append(a, p)
  <2>1. net' = [net EXCEPT ![id] = q]
    BY <1>3 DEF Duplicate
  <2>2. p \in Packet /\ p.block = net[id][k].block
    <3>1. net[id][k] \in Packet
      BY TakeOne
    <3> QED
      BY <3>1 DEF Packet
  <2>3. k \in 1..Len(net[id]) /\ DOMAIN net[id] = 1..Len(net[id])
        /\ Len(net[id]) \in Nat
    BY <1>1, LenProperties
  <2> HIDE DEF p
  <2>4. /\ a \in Seq(Packet) /\ Len(a) = Len(net[id])
        /\ \A j \in 1..Len(net[id]) : a[j] = IF j = k THEN p ELSE net[id][j]
    BY <1>1, <2>2, <2>3, ExceptSeq
  <2>5. \A j \in 1..Len(a) : \E l \in DOMAIN net[id] : a[j].block = net[id][l].block
    BY <2>2, <2>3, <2>4
  <2> HIDE DEF a
  <2>6. /\ q \in Seq(Packet) /\ Len(q) = Len(a) + 1
        /\ \A j \in 1..Len(a) : q[j] = a[j]
        /\ q[Len(a) + 1] = p
    BY <2>2, <2>4, AppendProperties
  <2>7. DOMAIN q = 1..(Len(a) + 1)
    BY <2>6, LenProperties
  <2>8. \A j \in DOMAIN q : j \in 1..Len(a) \/ j = Len(a) + 1
    BY <2>3, <2>4, <2>7
  <2>9. \A j \in DOMAIN q : \E l \in DOMAIN net[id] : q[j].block = net[id][l].block
    BY <2>2, <2>5, <2>6, <2>8
  <2> QED
    BY <1>3, <2>1, <2>6, <2>9 DEF Duplicate
<1> QED
  BY <1>2, <1>3

LEMMA NetworkTypeInv ==
  ASSUME TypeInv, NEW id \in Ids, NEW k \in DOMAIN net[id],
         Lose(id, k) \/ Duplicate(id, k)
  PROVE  TypeInv'
<1>1. PICK q \in Seq(Packet) :
        /\ net' = [net EXCEPT ![id] = q]
        /\ \A j \in DOMAIN q : \E l \in DOMAIN net[id] : q[j].block = net[id][l].block
  BY NetworkEffect
<1>2. UNCHANGED <<world, reqs, slot, udp, tcp, nfeeds, posts, files, up>>
  BY NetworkEffect
<1>3. \A j \in DOMAIN q : Fits(q[j].block.num)
  BY <1>1 DEF TypeInv, PacketsFit
<1>4. /\ net' \in [Ids -> Seq(Packet)]
      /\ \A i \in Ids : \A j \in DOMAIN net'[i] : Fits(net'[i][j].block.num)
  BY <1>1, <1>2, <1>3, NetTyped
<1>5. PacketsFit'
  BY <1>2, <1>4 DEF TypeInv, PacketsFit, Fits
<1> QED
  BY <1>2, <1>4, <1>5 DEF TypeInv, TypeOK

LEMMA ReceiveTypeInv ==
  ASSUME TypeInv, NEW id \in Ids, NEW k \in DOMAIN net[id], Receive(id, k)
  PROVE  TypeInv'
<1>1. UNCHANGED <<world, reqs, slot, tcp, nfeeds, posts, files, up>>
  BY DEF Receive
<1>2. /\ net' \in [Ids -> Seq(Packet)]
      /\ \A i \in Ids : \A j \in DOMAIN net'[i] : Fits(net'[i][j].block.num)
  <2>1. net' = [net EXCEPT ![id] = RemoveAt(net[id], k)]
    BY DEF Receive
  <2> QED
    BY <1>1, <2>1, TakeOne, NetTyped
<1>3. udp' = udp \/ udp' = [pc |-> "store", id |-> id, packet |-> net[id][k]]
  BY DEF Receive
<1>4. net[id][k] \in Packet /\ Fits(net[id][k].block.num)
  BY TakeOne
<1>5. udp' \in {Idle, Dead}
              \cup [pc : {"store", "test", "feed", "number", "post", "write"},
                    id : Ids, packet : Packet]
              \cup [pc : {"copy"}, id : Ids, packet : Packet,
                    file : 1..MaxRequests, feed : Nat]
  BY <1>3, <1>4 DEF TypeInv, TypeOK
<1>6. PacketsFit'
  BY <1>1, <1>2, <1>3, <1>4 DEF TypeInv, PacketsFit, Fits
<1> QED
  BY <1>1, <1>2, <1>5, <1>6 DEF TypeInv, TypeOK

(* A packet put into its slot: the array grows to its number at most.      *)
LEMMA StorePacketType ==
  ASSUME TypeInv, NEW id \in Ids, NEW p \in Packet, Fits(p.block.num)
  PROVE  LET s == StorePacket(slot[id], p)
         IN  /\ s \in Slot
             /\ Fits(Len(s.blocks))
             /\ s.active = slot[id].active /\ s.file = slot[id].file
             /\ s.feed = slot[id].feed
             /\ s.blocks = SetBlock(slot[id].blocks, p.block.num, p.block)
             /\ s.last = LastPacket(slot[id], p)
             /\ s.size = slot[id].size + p.len
<1> DEFINE s == slot[id]
           b == SetBlock(s.blocks, p.block.num, p.block)
           l == LastPacket(s, p)
<1>1. s \in Slot /\ s.blocks \in Seq(Blocks) /\ s.last \in 0..MaxBlocks
      /\ s.size \in Nat
  BY RecordTypes DEF TypeInv, TypeOK
<1>2. /\ p.block \in Blocks /\ Hole \in Blocks /\ p.block.num \in 1..MaxBlocks
      /\ p.len \in 0..FullLen
  BY RecordTypes DEF Blocks
<1>3. /\ b \in Seq(Blocks)
      /\ Len(b) = IF p.block.num > Len(s.blocks) THEN p.block.num ELSE Len(s.blocks)
  <2> DEFINE c == s.blocks
             n == p.block.num
             e == p.block
  <2>1. c \in Seq(Blocks) /\ e \in Blocks /\ Hole \in Blocks /\ n \in Nat
    BY <1>1, <1>2 DEF MaxBlocks
  <2> HIDE DEF c, n, e
  <2>2. /\ SetBlock(c, n, e) \in Seq(Blocks)
        /\ Len(SetBlock(c, n, e)) = IF n > Len(c) THEN n ELSE Len(c)
    BY <2>1, SetBlockType
  <2> QED
    BY <2>2 DEF c, n, e
<1>4. Fits(Len(b))
  <2>1. CASE p.block.num > Len(s.blocks)
    BY <1>3, <2>1
  <2>2. CASE ~ (p.block.num > Len(s.blocks))
    <3>1. s.blocks # <<>>
      BY <1>2, <2>2, EmptySeq DEF MaxBlocks
    <3> QED
      BY <1>3, <2>2, <3>1 DEF TypeInv, TypeOK, Fits
  <2> QED
    BY <2>1, <2>2
<1>5. l \in 0..MaxBlocks
  BY <1>1, <1>2 DEF LastPacket, MaxBlocks
<1>6. s.size + p.len \in Nat
  BY <1>1, <1>2 DEF FullLen
<1>7. StorePacket(s, p) = [s EXCEPT !.last = l, !.blocks = b, !.size = s.size + p.len]
  BY DEF StorePacket, BlockIndex
<1> HIDE DEF s, b, l
<1>8. /\ StorePacket(s, p) \in Slot
      /\ StorePacket(s, p).active = s.active /\ StorePacket(s, p).file = s.file
      /\ StorePacket(s, p).feed = s.feed /\ StorePacket(s, p).blocks = b
      /\ StorePacket(s, p).last = l /\ StorePacket(s, p).size = s.size + p.len
  BY <1>1, <1>3, <1>5, <1>6, <1>7 DEF Slot, Blocks
<1> QED
  BY <1>4, <1>8 DEF s, b, l

LEMMA StoreTypeInv ==
  ASSUME TypeInv, Store
  PROVE  TypeInv'
<1>1. UNCHANGED <<world, reqs, net, tcp, nfeeds, posts, files, up>>
  BY DEF Store
<1>2. /\ udp.id \in Ids /\ udp.packet \in Packet /\ Fits(udp.packet.block.num)
      /\ udp' = [pc |-> "test", id |-> udp.id, packet |-> udp.packet]
  <2>1. udp.pc = "store" /\ udp' = [udp EXCEPT !.pc = "test"]
    BY DEF Store, Goto
  <2>2. udp = [pc |-> udp.pc, id |-> udp.id, packet |-> udp.packet]
    BY <2>1, ThreadFacts DEF Holding
  <2> QED
    BY <2>1, <2>2, ThreadFacts DEF Holding, TypeInv, PacketsFit
<1>3. /\ slot' \in [Ids -> Slot]
      /\ \A i \in Ids : slot'[i].blocks # <<>> =>
           \E s \in world'.sizes : Len(slot'[i].blocks) <= NumBlock(s)
  <2>1. slot' = [slot EXCEPT ![udp.id] = StorePacket(slot[udp.id], udp.packet)]
    BY DEF Store, SlotOf
  <2>2. /\ StorePacket(slot[udp.id], udp.packet) \in Slot
        /\ Fits(Len(StorePacket(slot[udp.id], udp.packet).blocks))
    BY <1>2, StorePacketType
  <2> QED
    BY <1>1, <1>2, <2>1, <2>2, SlotTyped
<1>4. PacketsFit'
  BY <1>1, <1>2 DEF TypeInv, PacketsFit, Fits, Holding
<1> QED
  BY <1>1, <1>2, <1>3, <1>4 DEF TypeInv, TypeOK

(* The steps of the UDP thread that leave the slots as they are.           *)
LEMMA UdpTypeInv ==
  ASSUME TypeInv, \/ StoreNowhere \/ TestComplete \/ OpenFeed \/ Announce
                  \/ AnnounceNowhere \/ OpenFile \/ OpenFileFails \/ OpenFeedFails
         \/ CopyFreed
  PROVE  TypeInv'
<1>1. UNCHANGED <<world, reqs, slot, net, tcp, files>> /\ up' \in BOOLEAN
  BY DEF StoreNowhere, TestComplete, OpenFeed, Announce, AnnounceNowhere,
         OpenFile, OpenFileFails, OpenFeedFails, CopyFreed, TypeInv, TypeOK
<1>2. nfeeds' \in Nat
  BY DEF StoreNowhere, TestComplete, OpenFeed, Announce, AnnounceNowhere,
         OpenFile, OpenFileFails, OpenFeedFails, CopyFreed, TypeInv, TypeOK
<1>3. \/ udp' = udp \/ udp' = Idle \/ udp' = Dead
      \/ /\ udp.id \in Ids /\ udp.packet \in Packet /\ Fits(udp.packet.block.num)
         /\ udp'.packet = udp.packet /\ udp'.id = udp.id
         /\ udp' \in [pc : {"store", "test", "feed", "number", "post", "write"},
                      id : Ids, packet : Packet]
                \cup [pc : {"copy"}, id : Ids, packet : Packet,
                      file : 1..MaxRequests, feed : Nat]
  <2>1. CASE udp.pc \in {"test", "feed", "post"}
             /\ udp' \in {Idle, Goto("feed"), Goto("number"), Goto("write")}
    <3>1. /\ udp.id \in Ids /\ udp.packet \in Packet /\ Fits(udp.packet.block.num)
          /\ udp = [pc |-> udp.pc, id |-> udp.id, packet |-> udp.packet]
      BY <2>1, ThreadFacts DEF Holding, TypeInv, PacketsFit
    <3> QED
      BY <2>1, <3>1 DEF Goto
  <2>2. CASE OpenFile
    <3>1. /\ udp.id \in Ids /\ udp.packet \in Packet /\ Fits(udp.packet.block.num)
      BY <2>2, ThreadFacts DEF OpenFile, Holding, TypeInv, PacketsFit
    <3>2. slot[udp.id] \in Slot /\ Mine = slot[udp.id]
      BY <3>1 DEF TypeInv, TypeOK, Mine, SlotOf
    <3>3. Mine.file \in 1..MaxRequests /\ Mine.feed \in Nat
      <4>1. Mine.file \in 0..MaxRequests /\ Mine.feed \in Nat
        BY <3>2, RecordTypes
      <4> QED
        BY <2>2, <4>1, TransfersAssumption DEF OpenFile, Writable
    <3> QED
      BY <2>2, <3>1, <3>3 DEF OpenFile
  <2>3. CASE udp' = udp \/ udp' = Idle \/ udp' = Dead
    BY <2>3
  <2> QED
    BY <2>1, <2>2, <2>3
       DEF StoreNowhere, TestComplete, OpenFeed, Announce, AnnounceNowhere,
           OpenFile, OpenFileFails, OpenFeedFails, CopyFreed
<1>4. PacketsFit'
  BY <1>1, <1>3 DEF TypeInv, PacketsFit, Fits, Holding, Idle, Dead
<1>5. posts' \in Seq(Published)
  <2>1. CASE Announce
    <3>1. slot[udp.id] \in Slot /\ Mine = slot[udp.id]
      BY <2>1, ThreadFacts DEF Announce, Holding, TypeInv, TypeOK, Mine, SlotOf
    <3>2. [file |-> Mine.file, feed |-> Mine.feed, size |-> Mine.size,
           blocks |-> Mine.blocks] \in Published
      BY <3>1, RecordTypes DEF Published, Blocks
    <3>3. posts \in Seq(Published)
      BY DEF TypeInv, TypeOK
    <3> QED
      BY <2>1, <3>2, <3>3, AppendProperties DEF Announce
  <2>2. CASE posts' = posts
    BY <2>2 DEF TypeInv, TypeOK
  <2> QED
    BY <2>1, <2>2 DEF StoreNowhere, TestComplete, OpenFeed, AnnounceNowhere,
                      OpenFile, OpenFileFails, OpenFeedFails, CopyFreed
<1>6. udp' \in {Idle, Dead}
              \cup [pc : {"store", "test", "feed", "number", "post", "write"},
                    id : Ids, packet : Packet]
              \cup [pc : {"copy"}, id : Ids, packet : Packet,
                    file : 1..MaxRequests, feed : Nat]
  BY <1>3 DEF TypeInv, TypeOK
<1> QED
  BY <1>1, <1>2, <1>4, <1>5, <1>6 DEF TypeInv, TypeOK

LEMMA NumberFeedTypeInv ==
  ASSUME TypeInv, NumberFeed
  PROVE  TypeInv'
<1>1. UNCHANGED <<world, reqs, net, tcp, nfeeds, posts, files, up>>
  BY DEF NumberFeed
<1>2. /\ udp.id \in Ids /\ udp.packet \in Packet /\ Fits(udp.packet.block.num)
      /\ udp' = [pc |-> "post", id |-> udp.id, packet |-> udp.packet]
  <2>1. udp.pc = "number" /\ udp' = [udp EXCEPT !.pc = "post"]
    BY DEF NumberFeed, Goto
  <2>2. udp = [pc |-> udp.pc, id |-> udp.id, packet |-> udp.packet]
    BY <2>1, ThreadFacts DEF Holding
  <2> QED
    BY <2>1, <2>2, ThreadFacts DEF Holding, TypeInv, PacketsFit
<1>3. /\ slot' \in [Ids -> Slot]
      /\ \A i \in Ids : slot'[i].blocks # <<>> =>
           \E s \in world'.sizes : Len(slot'[i].blocks) <= NumBlock(s)
  <2> DEFINE n == IF slot[udp.id].feed = 0 THEN nfeeds ELSE slot[udp.id].feed
             s == [slot[udp.id] EXCEPT !.feed = n]
  <2>1. slot' = [slot EXCEPT ![udp.id] = s]
    BY DEF NumberFeed, SlotOf
  <2>2. slot[udp.id] \in Slot /\ n \in Nat
    BY <1>2, RecordTypes DEF TypeInv, TypeOK
  <2> HIDE DEF n
  <2>3. s \in Slot /\ s.blocks = slot[udp.id].blocks
    BY <2>2 DEF Slot
  <2>4. s.blocks # <<>> => Fits(Len(s.blocks))
    BY <1>2, <2>3 DEF TypeInv, TypeOK, Fits
  <2> QED
    BY <1>1, <1>2, <2>1, <2>3, <2>4, SlotTyped
<1>4. PacketsFit'
  BY <1>1, <1>2 DEF TypeInv, PacketsFit, Fits, Holding
<1> QED
  BY <1>1, <1>2, <1>3, <1>4 DEF TypeInv, TypeOK

LEMMA CopyFileTypeInv ==
  ASSUME TypeInv, CopyFile
  PROVE  TypeInv'
<1>1. UNCHANGED <<world, reqs, net, tcp, nfeeds, posts, up>> /\ udp' = Idle
  BY DEF CopyFile
<1>2. udp.id \in Ids /\ udp.file \in 1..MaxRequests /\ udp.feed \in Nat
  BY ThreadFacts DEF CopyFile, Holding
<1>3. slot[udp.id] \in Slot /\ Mine = slot[udp.id]
  BY <1>2 DEF TypeInv, TypeOK, Mine, SlotOf
<1>4. files' \in SUBSET Published
  <2>1. udp.file \in 0..MaxRequests
    BY <1>2, TransfersAssumption
  <2>2. [file |-> udp.file, feed |-> udp.feed, size |-> Mine.size,
         blocks |-> Mine.blocks] \in Published
    BY <1>2, <1>3, <2>1, RecordTypes DEF Published, Blocks
  <2> QED
    BY <2>2 DEF CopyFile, TypeInv, TypeOK
<1>5. /\ slot' \in [Ids -> Slot]
      /\ \A i \in Ids : slot'[i].blocks # <<>> =>
           \E s \in world'.sizes : Len(slot'[i].blocks) <= NumBlock(s)
  <2>1. slot' = [slot EXCEPT ![udp.id] = Cleared]
    BY DEF CopyFile, AfterWrite, SlotOf
  <2> QED
    BY <1>1, <1>2, <2>1, ClearedType, SlotTyped
<1>6. PacketsFit'
  BY <1>1 DEF TypeInv, PacketsFit, Fits, Holding, Idle
<1> QED
  BY <1>1, <1>4, <1>5, <1>6 DEF TypeInv, TypeOK

LEMMA DeliverableInNet ==
  \A id \in Ids : Deliverable(id) \subseteq DOMAIN net[id]
BY DEF Deliverable

(* Whatever packets come, in whatever order and however often, and         *)
(* whatever slot the timeout check clears, no array grows beyond the       *)
(* blocks of the largest file.                                             *)
THEOREM TypeCorrect == Spec => []TypeInv
<1>1. TypeInv /\ UNCHANGED vars => TypeInv'
  BY DEF vars, TypeInv, TypeOK, PacketsFit, Fits
<1>2. TypeInv /\ [Next]_vars => TypeInv'
  <2> SUFFICES ASSUME TypeInv, Next
               PROVE  TypeInv'
    BY <1>1
  <2>1. CASE \E id \in Ids : ClientAsks(id)
    BY <2>1, UploadTypeInv, DownloadTypeInv DEF ClientAsks
  <2>2. CASE TcpStep \/ \E id \in Ids : TimeoutFree(id)
    BY <2>2, TcpTypeInv DEF TcpStep
  <2>3. CASE Network
    BY <2>3, NetworkTypeInv DEF Network
  <2>4. CASE UdpStep
    BY <2>4, ReceiveTypeInv, DeliverableInNet, StoreTypeInv, UdpTypeInv,
       NumberFeedTypeInv, CopyFileTypeInv DEF UdpStep
  <2> QED
    BY <2>1, <2>2, <2>3, <2>4 DEF Next
<1> QED
  BY InitTypeInv, <1>2, PTL DEF Spec

(* TypeOK of Transfers.tla.                                                *)
THEOREM TypeSafety == Spec => []TypeOK
BY TypeCorrect, PTL DEF TypeInv

-----------------------------------------------------------------------------
(* Isolation *)

(* Request r is one of client id, and so are the blocks. *)
Owns(id, r) == r \in DOMAIN reqs /\ reqs[r].id = id
OwnsAll(id, blocks) == \A i \in DOMAIN blocks :
                         blocks[i] # Hole => Owns(id, blocks[i].req)

(* The datagrams of a client, its slot and the packet and file the UDP     *)
(* thread has in hand all stem from requests of that client.               *)
NetOwned == \A id \in Ids : \A k \in DOMAIN net[id] : Owns(id, net[id][k].block.req)
HeldOwned == /\ udp.pc \in Holding => Owns(udp.id, udp.packet.block.req)
             /\ udp.pc = "copy" => Owns(udp.id, udp.file)
SlotsOwned == \A id \in Ids : /\ slot[id].file # 0 => Owns(id, slot[id].file)
                              /\ OwnsAll(id, slot[id].blocks)
FilesOwned == \A f \in files : \E id \in Ids : /\ Owns(id, f.file)
                                               /\ OwnsAll(id, f.blocks)

OwnInv == NetOwned /\ HeldOwned /\ SlotsOwned /\ FilesOwned

LEMMA InitOwnInv == Init => OwnInv
BY DEF Init, OwnInv, NetOwned, HeldOwned, SlotsOwned, FilesOwned, OwnsAll,
       Cleared, Idle, Holding

(* Requests keep their client. *)
LEMMA OwnsKept ==
  ASSUME \A r \in DOMAIN reqs : r \in DOMAIN reqs' /\ reqs'[r] = reqs[r]
  PROVE  /\ \A id, r : Owns(id, r) => Owns(id, r)'
         /\ \A id, b : OwnsAll(id, b) => OwnsAll(id, b)'
BY DEF Owns, OwnsAll

(* The steps that accept a request r of client id. *)
LEMMA RequestOwnInv ==
  ASSUME TypeInv, OwnInv, NEW id \in Ids, NEW q \in Request, q.id = id,
         NEW n \in Nat, NEW r \in 1..MaxRequests, r = Len(reqs) + 1,
         reqs' = Append(reqs, q),
         slot' = [slot EXCEPT ![id] = Fresh(r, n)],
         \A i \in Ids : \A k \in DOMAIN net'[i] :
           \/ \E l \in DOMAIN net[i] : net'[i][k] = net[i][l]
           \/ i = id /\ net'[i][k].block.req = r,
         UNCHANGED <<udp, files>>
  PROVE  OwnInv'
<1>1. \A p \in DOMAIN reqs : p \in DOMAIN reqs' /\ reqs'[p] = reqs[p]
  <2>1. Len(reqs) \in Nat /\ DOMAIN reqs = 1..Len(reqs)
        /\ DOMAIN reqs' = 1..(Len(reqs) + 1)
        /\ \A p \in DOMAIN reqs : reqs'[p] = reqs[p]
    BY NewRequest
  <2> QED
    BY <2>1
<1>2. /\ \A i, p : Owns(i, p) => Owns(i, p)'
      /\ \A i, b : OwnsAll(i, b) => OwnsAll(i, b)'
  BY <1>1, OwnsKept
<1>3. Owns(id, r)'
  <2>1. /\ DOMAIN reqs' = 1..(Len(reqs) + 1) /\ Len(reqs) \in Nat
        /\ reqs'[r] = q
    BY NewRequest
  <2> QED
    BY <2>1 DEF Owns
<1>4. NetOwned'
  BY <1>2, <1>3 DEF OwnInv, NetOwned
<1>5. HeldOwned'
  BY <1>2 DEF OwnInv, HeldOwned
<1>6. SlotsOwned'
  <2>1. /\ Fresh(r, n).blocks = <<>>
        /\ Fresh(r, n).file = r
    BY ClearedType
  <2>2. \A i \in Ids : slot'[i] = IF i = id THEN Fresh(r, n) ELSE slot[i]
    BY DEF TypeInv, TypeOK
  <2>3. OwnsAll(id, <<>>)'
    BY DEF OwnsAll
  <2> QED
    BY <1>2, <1>3, <2>1, <2>2, <2>3 DEF OwnInv, SlotsOwned
<1>7. FilesOwned'
  BY <1>2 DEF OwnInv, FilesOwned
<1> QED
  BY <1>4, <1>5, <1>6, <1>7 DEF OwnInv

(* Steps that make no request, leave each slot or clear it, and only pass  *)
(* on packets.                                                             *)
LEMMA PassOwnInv ==
  ASSUME TypeInv, OwnInv, UNCHANGED reqs,
         \A i \in Ids : \A k \in DOMAIN net'[i] :
           \E l \in DOMAIN net[i] : net'[i][k].block = net[i][l].block,
         \A i \in Ids : /\ slot'[i].file \in {slot[i].file, 0}
                        /\ slot'[i].blocks \in {slot[i].blocks, <<>>},
         UNCHANGED files, HeldOwned'
  PROVE  OwnInv'
<1>1. /\ \A i, r : Owns(i, r)' <=> Owns(i, r)
      /\ \A i, b : OwnsAll(i, b)' <=> OwnsAll(i, b)
  BY DEF Owns, OwnsAll
<1>2. NetOwned'
  BY <1>1 DEF OwnInv, NetOwned
<1>3. SlotsOwned'
  <2>1. \A i : OwnsAll(i, <<>>)
    BY DEF OwnsAll
  <2> QED
    BY <1>1, <2>1 DEF OwnInv, SlotsOwned
<1>4. FilesOwned'
  BY <1>1 DEF OwnInv, FilesOwned
<1> QED
  BY <1>2, <1>3, <1>4 DEF OwnInv

LEMMA ClientOwnInv ==
  ASSUME TypeInv, OwnInv, NEW id \in Ids, ClientAsks(id)
  PROVE  OwnInv'
<1>1. ASSUME NEW n \in world.feeds, NEW size \in world.sizes,
             PrepareUpload(id, n, size)
      PROVE  OwnInv'
  <2>1. Len(reqs) + 1 \in 1..MaxRequests
    BY <1>1, UploadEffect
  <2>2. PICK r \in 1..MaxRequests : r = Len(reqs) + 1
    BY <2>1
  <2> DEFINE q == [id |-> id, kind |-> "upload", feed |-> n, size |-> size]
             d == net[id] \o Packets(r, size)
  <2>3. /\ q \in Request /\ n \in Nat
        /\ reqs' = Append(reqs, q)
        /\ slot' = [slot EXCEPT ![id] = Fresh(r, n)]
        /\ net' = [net EXCEPT ![id] = d]
        /\ UNCHANGED <<udp, files>>
    BY <1>1, <2>2, UploadEffect
  <2>4. \A k \in DOMAIN d : \/ k \in DOMAIN net[id] /\ d[k] = net[id][k]
                            \/ \E j \in 1..NumBlock(size) : d[k] = Packets(r, size)[j]
    <3> DEFINE e == net[id] \o Packets(Len(reqs) + 1, size)
    <3>1. \A k \in DOMAIN e :
            \/ k \in DOMAIN net[id] /\ e[k] = net[id][k]
            \/ \E j \in 1..NumBlock(size) : e[k] = Packets(Len(reqs) + 1, size)[j]
      BY <1>1, UploadEffect
    <3> QED
      BY <2>2, <3>1
  <2>5. \A j \in 1..NumBlock(size) : Packets(r, size)[j].block.req = r
    BY DEF Packets, Content
  <2>6. \A i \in Ids : net'[i] = IF i = id THEN d ELSE net[i]
    BY <2>3 DEF TypeInv, TypeOK
  <2> HIDE DEF d
  <2>7. \A i \in Ids : \A k \in DOMAIN net'[i] :
          \/ \E l \in DOMAIN net[i] : net'[i][k] = net[i][l]
          \/ i = id /\ net'[i][k].block.req = r
    BY <2>4, <2>5, <2>6
  <2> QED
    BY <2>2, <2>3, <2>7, RequestOwnInv
<1>2. ASSUME NEW f \in files, PrepareDownload(id, f)
      PROVE  OwnInv'
  <2> DEFINE q == [id |-> id, kind |-> "download", feed |-> f.feed, size |-> 0]
  <2>1. q \in Request /\ f.feed \in Nat /\ q.id = id
    BY DEF TypeInv, TypeOK, Request, Published, FileSizes, FullLen, MaxBlocks
  <2>2. Len(reqs) + 1 \in 1..MaxRequests
    <3>1. Len(reqs) \in Nat
      BY LenProperties DEF TypeInv, TypeOK
    <3> QED
      BY <1>2, <3>1, WorldFacts DEF PrepareDownload
  <2>3. /\ reqs' = Append(reqs, q)
        /\ slot' = [slot EXCEPT ![id] = Fresh(Len(reqs) + 1, f.feed)]
        /\ UNCHANGED <<net, udp, files>>
    BY <1>2 DEF PrepareDownload, SlotOf
  <2>4. \A i \in Ids : \A k \in DOMAIN net'[i] :
          \E l \in DOMAIN net[i] : net'[i][k] = net[i][l]
    BY <2>3
  <2> QED
    BY <2>1, <2>2, <2>3, <2>4, RequestOwnInv
<1> QED
  BY <1>1, <1>2 DEF ClientAsks

LEMMA TcpOwnInv ==
  ASSUME TypeInv, OwnInv, \/ SendFile \/ ClearDownload \/ TimeoutZero
                          \/ \E id \in Ids : TimeoutFree(id)
  PROVE  OwnInv'
<1>1. UNCHANGED <<reqs, net, udp, files>>
  BY DEF SendFile, ClearDownload, TimeoutZero, TimeoutFree
<1>2. slot' = slot \/ \E id \in Ids : slot' = [slot EXCEPT ![id] = Cleared]
  BY ThreadFacts DEF SendFile, ClearDownload, TimeoutZero, TimeoutFree, SlotOf
<1>3. \A i \in Ids : /\ slot'[i].file \in {slot[i].file, 0}
                     /\ slot'[i].blocks \in {slot[i].blocks, <<>>}
  BY <1>2, ClearedType DEF TypeInv, TypeOK
<1>4. HeldOwned'
  BY <1>1 DEF OwnInv, HeldOwned, Owns
<1>5. \A i \in Ids : \A k \in DOMAIN net'[i] :
        \E l \in DOMAIN net[i] : net'[i][k].block = net[i][l].block
  BY <1>1
<1> QED
  BY <1>1, <1>3, <1>4, <1>5, PassOwnInv

LEMMA NetworkOwnInv ==
  ASSUME TypeInv, OwnInv, NEW id \in Ids, NEW k \in DOMAIN net[id],
         Lose(id, k) \/ Duplicate(id, k)
  PROVE  OwnInv'
<1>1. PICK q \in Seq(Packet) :
        /\ net' = [net EXCEPT ![id] = q]
        /\ \A j \in DOMAIN q : \E l \in DOMAIN net[id] : q[j].block = net[id][l].block
  BY NetworkEffect
<1>2. UNCHANGED <<reqs, slot, udp, files>>
  BY NetworkEffect
<1>3. \A i \in Ids : net'[i] = IF i = id THEN q ELSE net[i]
  BY <1>1 DEF TypeInv, TypeOK
<1>4. \A i \in Ids : \A j \in DOMAIN net'[i] :
        \E l \in DOMAIN net[i] : net'[i][j].block = net[i][l].block
  BY <1>1, <1>3
<1>5. HeldOwned'
  BY <1>2 DEF OwnInv, HeldOwned, Owns
<1> QED
  BY <1>2, <1>4, <1>5, PassOwnInv

LEMMA ReceiveOwnInv ==
  ASSUME TypeInv, OwnInv, NEW id \in Ids, NEW k \in DOMAIN net[id], Receive(id, k)
  PROVE  OwnInv'
<1> DEFINE q == RemoveAt(net[id], k)
<1>1. UNCHANGED <<reqs, slot, files>> /\ net' = [net EXCEPT ![id] = q]
  BY DEF Receive
<1>2. \A j \in DOMAIN q : \E l \in DOMAIN net[id] : q[j] = net[id][l]
  BY TakeOne
<1> HIDE DEF q
<1>3. \A i \in Ids : net'[i] = IF i = id THEN q ELSE net[i]
  BY <1>1 DEF TypeInv, TypeOK
<1>4. \A i \in Ids : \A j \in DOMAIN net'[i] :
        \E l \in DOMAIN net[i] : net'[i][j].block = net[i][l].block
  BY <1>2, <1>3
<1>5. HeldOwned'
  <2>1. Owns(id, net[id][k].block.req)
    BY DEF OwnInv, NetOwned
  <2>2. udp' = udp \/ udp' = [pc |-> "store", id |-> id, packet |-> net[id][k]]
    BY DEF Receive
  <2> QED
    BY <1>1, <2>1, <2>2 DEF OwnInv, HeldOwned, Owns
<1> QED
  BY <1>1, <1>4, <1>5, PassOwnInv

LEMMA StoreOwnInv ==
  ASSUME TypeInv, OwnInv, Store
  PROVE  OwnInv'
<1> DEFINE p == udp.packet
           s == slot[udp.id]
           t == StorePacket(s, p)
<1>1. /\ udp.id \in Ids /\ p \in Packet /\ Fits(p.block.num) /\ udp.pc = "store"
      /\ Owns(udp.id, p.block.req)
  BY ThreadFacts DEF Store, Holding, TypeInv, PacketsFit, OwnInv, HeldOwned
<1>2. t.file = s.file /\ t.blocks = SetBlock(s.blocks, p.block.num, p.block)
  BY <1>1, StorePacketType
<1>3. UNCHANGED <<reqs, net, files>>
      /\ \A i \in Ids : slot'[i] = IF i = udp.id THEN t ELSE slot[i]
  BY DEF Store, SlotOf, TypeInv, TypeOK
<1>4. /\ \A i, r : Owns(i, r)' <=> Owns(i, r)
      /\ \A i, b : OwnsAll(i, b)' <=> OwnsAll(i, b)
  BY <1>3 DEF Owns, OwnsAll
<1>5. OwnsAll(udp.id, t.blocks)
  <2> DEFINE c == s.blocks
             n == p.block.num
             e == p.block
  <2>1. c \in Seq(Blocks) /\ e \in Blocks /\ Hole \in Blocks /\ n \in Nat
    <3>1. s \in Slot
      BY <1>1 DEF TypeInv, TypeOK
    <3>2. c \in Seq(Blocks)
      BY <3>1, RecordTypes
    <3>3. p.block \in Block /\ p.block.num \in 1..MaxBlocks
      BY <1>1, RecordTypes
    <3>4. n \in Nat
      BY <3>3 DEF MaxBlocks
    <3> QED
      BY <3>2, <3>3, <3>4 DEF Blocks
  <2>2. OwnsAll(udp.id, c) /\ Owns(udp.id, e.req)
    BY <1>1 DEF OwnInv, SlotsOwned
  <2>3. t.blocks = SetBlock(c, n, e)
    BY <1>2
  <2> HIDE DEF c, n, e, t
  <2>4. /\ DOMAIN SetBlock(c, n, e) = 1..Len(SetBlock(c, n, e))
        /\ DOMAIN c = 1..Len(c)
    BY <2>1, SetBlockType, LenProperties
  <2>5. \A j \in 1..Len(SetBlock(c, n, e)) :
          \/ j = n /\ SetBlock(c, n, e)[j] = e
          \/ j \in 1..Len(c) /\ SetBlock(c, n, e)[j] = c[j]
          \/ SetBlock(c, n, e)[j] = Hole
    BY <2>1, SetBlockElement
  <2> QED
    BY <2>2, <2>3, <2>4, <2>5 DEF OwnsAll
<1> HIDE DEF t
<1>6. SlotsOwned'
  BY <1>2, <1>3, <1>4, <1>5 DEF OwnInv, SlotsOwned
<1>7. HeldOwned'
  <2>1. udp'.pc = "test" /\ udp'.id = udp.id /\ udp'.packet = p
    <3>1. udp = [pc |-> "store", id |-> udp.id, packet |-> p]
      BY <1>1, ThreadFacts DEF Holding
    <3> QED
      BY <3>1 DEF Store, Goto
  <2> QED
    BY <1>1, <1>4, <2>1 DEF HeldOwned
<1>8. NetOwned' /\ FilesOwned'
  BY <1>3, <1>4 DEF OwnInv, NetOwned, FilesOwned
<1> QED
  BY <1>6, <1>7, <1>8 DEF OwnInv

LEMMA UdpOwnInv ==
  ASSUME TypeInv, OwnInv,
         \/ StoreNowhere \/ TestComplete \/ OpenFeed \/ NumberFeed \/ Announce
         \/ AnnounceNowhere \/ OpenFile \/ OpenFileFails \/ OpenFeedFails
         \/ CopyFreed
  PROVE  OwnInv'
<1>1. UNCHANGED <<reqs, net, files>>
  BY DEF StoreNowhere, TestComplete, OpenFeed, NumberFeed, Announce,
         AnnounceNowhere, OpenFile, OpenFileFails, OpenFeedFails, CopyFreed
<1>2. \A i \in Ids : slot'[i].file = slot[i].file /\ slot'[i].blocks = slot[i].blocks
  <2>1. CASE NumberFeed
    <3>1. PICK n : slot' = [slot EXCEPT ![udp.id] = [slot[udp.id] EXCEPT !.feed = n]]
      BY <2>1 DEF NumberFeed, SlotOf
    <3>2. slot \in [Ids -> Slot]
      BY DEF TypeInv, TypeOK
    <3> QED
      BY <3>1, <3>2 DEF Slot
  <2>2. CASE ~ NumberFeed
    BY <2>2 DEF StoreNowhere, TestComplete, OpenFeed, Announce,
         AnnounceNowhere, OpenFile, OpenFileFails, OpenFeedFails, CopyFreed
  <2> QED
    BY <2>1, <2>2
<1>3. HeldOwned'
  <2>1. CASE OpenFile
    <3>1. udp.id \in Ids /\ Owns(udp.id, udp.packet.block.req)
      BY <2>1, ThreadFacts DEF OpenFile, Holding, OwnInv, HeldOwned
    <3>2. Owns(udp.id, slot[udp.id].file)
      BY <2>1, <3>1 DEF OpenFile, Writable, Mine, SlotOf, OwnInv, SlotsOwned
    <3> QED
      BY <1>1, <2>1, <3>1, <3>2 DEF OpenFile, HeldOwned, Owns, Mine, SlotOf
  <2>2. CASE udp.pc \in Holding \ {"copy"} /\ udp' \in {Goto("feed"), Goto("number"),
                                                        Goto("post"), Goto("write")}
    <3>1. udp = [pc |-> udp.pc, id |-> udp.id, packet |-> udp.packet]
      BY <2>2, ThreadFacts
    <3>2. udp'.id = udp.id /\ udp'.packet = udp.packet /\ udp'.pc # "copy"
      BY <2>2, <3>1 DEF Goto
    <3> QED
      BY <1>1, <2>2, <3>2 DEF OwnInv, HeldOwned, Owns
  <2>3. CASE udp' = udp \/ udp' = Idle \/ udp' = Dead
    BY <1>1, <2>3 DEF OwnInv, HeldOwned, Owns, Idle, Dead, Holding
  <2> QED
    BY <2>1, <2>2, <2>3
       DEF StoreNowhere, TestComplete, OpenFeed, NumberFeed, Announce,
           AnnounceNowhere, OpenFile, OpenFileFails, OpenFeedFails, CopyFreed, Holding
<1>4. \A i \in Ids : \A k \in DOMAIN net'[i] :
        \E l \in DOMAIN net[i] : net'[i][k].block = net[i][l].block
  BY <1>1
<1> QED
  BY <1>1, <1>2, <1>3, <1>4, PassOwnInv

LEMMA CopyFileOwnInv ==
  ASSUME TypeInv, OwnInv, CopyFile
  PROVE  OwnInv'
<1> DEFINE f == [file |-> udp.file, feed |-> udp.feed, size |-> Mine.size,
                 blocks |-> Mine.blocks]
<1>1. /\ UNCHANGED <<reqs, net>> /\ udp' = Idle /\ files' = files \cup {f}
      /\ slot' = [slot EXCEPT ![udp.id] = Cleared]
  BY DEF CopyFile, SlotOf, AfterWrite
<1>2. udp.pc = "copy" /\ udp.id \in Ids
  BY ThreadFacts DEF CopyFile, Holding
<1>3. Owns(udp.id, udp.file) /\ OwnsAll(udp.id, Mine.blocks)
  BY <1>2 DEF OwnInv, HeldOwned, SlotsOwned, Mine, SlotOf
<1>4. /\ \A i, r : Owns(i, r)' <=> Owns(i, r)
      /\ \A i, b : OwnsAll(i, b)' <=> OwnsAll(i, b)
  BY <1>1 DEF Owns, OwnsAll
<1>5. FilesOwned'
  BY <1>1, <1>2, <1>3, <1>4 DEF OwnInv, FilesOwned
<1>6. SlotsOwned'
  <2>1. \A i : OwnsAll(i, <<>>)
    BY DEF OwnsAll
  <2>2. \A i \in Ids : slot'[i] = IF i = udp.id THEN Cleared ELSE slot[i]
    BY <1>1 DEF TypeInv, TypeOK
  <2> QED
    BY <1>4, <2>1, <2>2, ClearedType DEF OwnInv, SlotsOwned
<1>7. NetOwned' /\ HeldOwned'
  BY <1>1, <1>4 DEF OwnInv, NetOwned, HeldOwned, Idle, Holding
<1> QED
  BY <1>5, <1>6, <1>7 DEF OwnInv

THEOREM Ownership == Spec => []OwnInv
<1>1. TypeInv /\ OwnInv /\ [Next]_vars => OwnInv'
  <2> SUFFICES ASSUME TypeInv, OwnInv, [Next]_vars
               PROVE  OwnInv'
    OBVIOUS
  <2>1. CASE \E id \in Ids : ClientAsks(id)
    BY <2>1, ClientOwnInv
  <2>2. CASE TcpStep \/ \E id \in Ids : TimeoutFree(id)
    BY <2>2, TcpOwnInv DEF TcpStep
  <2>3. CASE Network
    BY <2>3, NetworkOwnInv DEF Network
  <2>4. CASE UdpStep
    BY <2>4, ReceiveOwnInv, DeliverableInNet, StoreOwnInv, UdpOwnInv,
       CopyFileOwnInv DEF UdpStep
  <2>5. CASE UNCHANGED vars
    BY <2>5 DEF vars, OwnInv, NetOwned, HeldOwned, SlotsOwned, FilesOwned,
                OwnsAll, Owns
  <2> QED
    BY <2>1, <2>2, <2>3, <2>4, <2>5 DEF Next
<1> QED
  BY InitOwnInv, <1>1, TypeCorrect, PTL DEF Spec

(* However packets are lost, repeated and overtaken and slots cleared and  *)
(* reused, no slot and no file has blocks of two clients (data.c:397).     *)
THEOREM ClientsApart == Spec => []Isolation
<1>1. OwnInv => Isolation
  BY DEF OwnInv, SlotsOwned, FilesOwned, OwnsAll, Owns, Isolation, OneClient
<1> QED
  BY <1>1, Ownership, PTL

-----------------------------------------------------------------------------
(* Announcements *)

Posted(r) == \E i \in DOMAIN posts : posts[i].file = r

(* What is announced was asked for, and a slot whose file is announced is  *)
(* the one the UDP thread is about to write and clear.                     *)
PostsAsked == \A i \in DOMAIN posts : posts[i].file \in 0..Len(reqs)
PostedInHand ==
  \A id \in Ids :
    slot[id].file # 0 /\ Posted(slot[id].file) =>
      udp.pc = "dead" \/ (udp.pc \in {"write", "copy"} /\ udp.id = id)

OnceInv == OncePerRequest /\ PostsAsked /\ PostedInHand

LEMMA InitOnceInv == Init => OnceInv
BY EmptySeq DEF Init, OnceInv, OncePerRequest, PostsAsked, PostedInHand, Cleared

(* Steps that announce nothing, and leave each slot its file or clear it,  *)
(* while the UDP thread stays where it is with an announced file, or had   *)
(* none.                                                                   *)
LEMMA SilentOnceInv ==
  ASSUME TypeInv, OnceInv, UNCHANGED posts,
         Len(reqs) \in Nat, Len(reqs') \in Nat, Len(reqs) <= Len(reqs'),
         \A i \in Ids : slot'[i].file \in {slot[i].file, 0, Len(reqs) + 1},
         \/ UNCHANGED udp
         \/ udp.pc \notin {"write", "copy", "dead"}
         \/ udp'.pc = "dead"
         \/ udp.pc = "write" /\ udp'.pc = "copy" /\ udp'.id = udp.id
         \/ udp.pc = "copy" /\ slot'[udp.id].file = 0
  PROVE  OnceInv'
<1>1. \A r : Posted(r)' <=> Posted(r)
  BY DEF Posted
<1>2. ~ Posted(Len(reqs) + 1)
  <2>1. ~ (Len(reqs) + 1 \in 0..Len(reqs))
    OBVIOUS
  <2> QED
    BY <2>1 DEF OnceInv, PostsAsked, Posted
<1>3. PostedInHand'
  <2> SUFFICES ASSUME NEW i \in Ids, slot'[i].file # 0, Posted(slot'[i].file)
               PROVE  \/ udp'.pc = "dead"
                      \/ udp'.pc \in {"write", "copy"} /\ udp'.id = i
    BY <1>1 DEF PostedInHand, Posted
  <2>1. slot'[i].file = slot[i].file
    BY <1>2
  <2>2. udp.pc = "dead" \/ (udp.pc \in {"write", "copy"} /\ udp.id = i)
    BY <2>1 DEF OnceInv, PostedInHand
  <2> QED
    BY <2>2
<1>4. PostsAsked'
  BY DEF OnceInv, PostsAsked
<1>5. OncePerRequest'
  BY DEF OnceInv, OncePerRequest
<1> QED
  BY <1>3, <1>4, <1>5 DEF OnceInv

LEMMA AnnounceOnceInv ==
  ASSUME TypeInv, OwnInv, OnceInv, Announce
  PROVE  OnceInv'
<1> DEFINE m == [file |-> Mine.file, feed |-> Mine.feed, size |-> Mine.size,
                 blocks |-> Mine.blocks]
           n == Len(posts)
           own == slot[udp.id].file
<1>1. /\ udp.pc = "post" /\ udp.id \in Ids
      /\ udp' = [pc |-> "write", id |-> udp.id, packet |-> udp.packet]
  <2>1. udp.pc = "post" /\ udp' = [udp EXCEPT !.pc = "write"]
    BY DEF Announce, Goto
  <2>2. udp = [pc |-> udp.pc, id |-> udp.id, packet |-> udp.packet]
    BY <2>1, ThreadFacts DEF Holding
  <2> QED
    BY <2>1, <2>2, ThreadFacts DEF Holding
<1>2. UNCHANGED <<reqs, slot>> /\ posts' = Append(posts, m) /\ m.file = own
  BY DEF Announce, Mine, SlotOf
<1>3. /\ n \in Nat /\ DOMAIN posts = 1..n /\ DOMAIN posts' = 1..(n + 1)
      /\ \A i \in 1..n : posts'[i] = posts[i]
      /\ posts'[n + 1] = m
  <2>1. slot[udp.id] \in Slot /\ Mine = slot[udp.id]
    BY <1>1 DEF TypeInv, TypeOK, Mine, SlotOf
  <2>2. m \in Published
    BY <2>1, RecordTypes DEF Published, Blocks
  <2>3. posts \in Seq(Published)
    BY DEF TypeInv, TypeOK
  <2> HIDE DEF m
  <2>4. /\ posts' \in Seq(Published) /\ Len(posts') = n + 1
        /\ \A i \in 1..n : posts'[i] = posts[i]
        /\ posts'[n + 1] = m
    BY <1>2, <2>2, <2>3, AppendProperties
  <2> QED
    BY <2>3, <2>4, LenProperties
<1>4. own # 0 => ~ Posted(own)
  BY <1>1 DEF OnceInv, PostedInHand
<1>5. \A i \in 1..n : posts[i].file = own => own = 0
  BY <1>3, <1>4 DEF Posted
<1>6. posts'[n + 1].file = own
  BY <1>2, <1>3
<1> HIDE DEF n, m
<1>7. OncePerRequest'
  <2> SUFFICES ASSUME NEW i \in 1..(n + 1), NEW j \in 1..(n + 1),
                      posts'[i].file = posts'[j].file, posts'[i].file # 0
               PROVE  i = j
    BY <1>3 DEF OncePerRequest
  <2>1. (i \in 1..n \/ i = n + 1) /\ (j \in 1..n \/ j = n + 1)
    BY <1>3
  <2>2. CASE i \in 1..n /\ j \in 1..n
    BY <1>3, <2>2 DEF OnceInv, OncePerRequest
  <2>3. CASE i \in 1..n /\ j = n + 1
    BY <1>3, <1>5, <1>6, <2>3
  <2>4. CASE i = n + 1 /\ j \in 1..n
    BY <1>3, <1>5, <1>6, <2>4
  <2> QED
    BY <2>1, <2>2, <2>3, <2>4
<1>8. PostsAsked'
  <2>1. own \in 0..Len(reqs)
    <3>1. Len(reqs) \in Nat /\ DOMAIN reqs = 1..Len(reqs)
      BY LenProperties DEF TypeInv, TypeOK
    <3>2. own = 0 \/ own \in DOMAIN reqs
      BY <1>1 DEF OwnInv, SlotsOwned, Owns
    <3> QED
      BY <3>1, <3>2
  <2>2. \A i \in 1..(n + 1) : i \in 1..n \/ i = n + 1
    BY <1>3
  <2> QED
    BY <1>2, <1>3, <1>6, <2>1, <2>2 DEF OnceInv, PostsAsked
<1>9. PostedInHand'
  <2> SUFFICES ASSUME NEW i \in Ids, slot[i].file # 0, Posted(slot[i].file)'
               PROVE  i = udp.id
    BY <1>1, <1>2 DEF PostedInHand, Posted
  <2>1. PICK j \in 1..(n + 1) : posts'[j].file = slot[i].file
    BY <1>2, <1>3 DEF Posted
  <2>2. j \in 1..n \/ j = n + 1
    BY <1>3
  <2>3. CASE j \in 1..n
    <3>1. Posted(slot[i].file)
      BY <1>3, <2>1, <2>3 DEF Posted
    <3> QED
      BY <1>1, <3>1 DEF OnceInv, PostedInHand
  <2>4. CASE j = n + 1
    <3>1. own = slot[i].file
      BY <1>6, <2>1, <2>4
    <3>2. reqs[own].id = udp.id /\ reqs[own].id = i
      BY <1>1, <3>1 DEF OwnInv, SlotsOwned, Owns
    <3> QED
      BY <3>2
  <2> QED
    BY <2>2, <2>3, <2>4
<1> QED
  BY <1>7, <1>8, <1>9 DEF OnceInv

LEMMA OnceStep ==
  ASSUME TypeInv, OwnInv, OnceInv, [Next]_vars
  PROVE  OnceInv'
<1>1. Len(reqs) \in Nat /\ Len(reqs) <= Len(reqs)
  <2>1. Len(reqs) \in Nat
    BY LenProperties DEF TypeInv, TypeOK
  <2> QED
    BY <2>1
<1>2. ASSUME NEW id \in Ids, ClientAsks(id)
      PROVE  OnceInv'
  <2>1. PICK q \in Request, n \in Nat :
          /\ reqs' = Append(reqs, q)
          /\ slot' = [slot EXCEPT ![id] = Fresh(Len(reqs) + 1, n)]
          /\ Len(reqs) + 1 \in 1..MaxRequests
    <3>1. CASE \E f \in files : PrepareDownload(id, f)
      <4>1. PICK f \in files : PrepareDownload(id, f)
        BY <3>1
      <4> DEFINE q == [id |-> id, kind |-> "download", feed |-> f.feed, size |-> 0]
      <4>2. q \in Request /\ f.feed \in Nat
        BY DEF TypeInv, TypeOK, Request, Published, FileSizes, FullLen, MaxBlocks
      <4>3. reqs' = Append(reqs, q)
            /\ slot' = [slot EXCEPT ![id] = Fresh(Len(reqs) + 1, f.feed)]
        BY <4>1 DEF PrepareDownload, SlotOf
      <4>4. Len(reqs) + 1 \in 1..MaxRequests
        BY <1>1, <4>1, WorldFacts DEF PrepareDownload
      <4> HIDE DEF q
      <4> QED
        BY <4>2, <4>3, <4>4
    <3>2. CASE \E n \in world.feeds, size \in world.sizes : PrepareUpload(id, n, size)
      BY <3>2, UploadEffect
    <3> QED
      BY <1>2, <3>1, <3>2 DEF ClientAsks
  <2>2. UNCHANGED <<udp, posts>>
    BY <1>2 DEF ClientAsks, PrepareUpload, PrepareDownload
  <2>3. Len(reqs') \in Nat /\ Len(reqs) <= Len(reqs')
    <3>1. Len(reqs') = Len(reqs) + 1
      BY <2>1, NewRequest
    <3> QED
      BY <1>1, <3>1
  <2>4. \A i \in Ids : slot'[i].file \in {slot[i].file, 0, Len(reqs) + 1}
    BY <2>1, ClearedType DEF TypeInv, TypeOK
  <2> QED
    BY <1>1, <2>2, <2>3, <2>4, SilentOnceInv
<1>3. CASE TcpStep \/ \E id \in Ids : TimeoutFree(id)
  <2>1. UNCHANGED <<reqs, udp, posts>>
    BY <1>3 DEF TcpStep, SendFile, ClearDownload, TimeoutZero, TimeoutFree
  <2>2. slot' = slot \/ \E id \in Ids : slot' = [slot EXCEPT ![id] = Cleared]
    BY <1>3, ThreadFacts
       DEF TcpStep, SendFile, ClearDownload, TimeoutZero, TimeoutFree, SlotOf
  <2>3. \A i \in Ids : slot'[i].file \in {slot[i].file, 0, Len(reqs) + 1}
    BY <2>2, ClearedType DEF TypeInv, TypeOK
  <2> QED
    BY <1>1, <2>1, <2>3, SilentOnceInv
<1>4. CASE Network \/ UNCHANGED vars
  <2>1. UNCHANGED <<reqs, slot, udp, posts>>
    BY <1>4 DEF Network, Lose, Duplicate, vars
  <2> QED
    BY <1>1, <2>1, SilentOnceInv
<1>5. CASE Announce
  BY <1>5, AnnounceOnceInv
<1>6. CASE \/ \E id \in Ids : \E k \in Deliverable(id) : Receive(id, k)
           \/ Store \/ StoreNowhere \/ TestComplete \/ OpenFeed \/ NumberFeed
           \/ AnnounceNowhere
  <2>1. udp.pc \notin {"write", "copy", "dead"} /\ UNCHANGED <<reqs, posts>>
    BY <1>6 DEF Receive, Store, StoreNowhere, TestComplete, OpenFeed,
                NumberFeed, AnnounceNowhere
  <2>2. \A i \in Ids : slot'[i].file = slot[i].file
    <3>1. slot \in [Ids -> Slot]
      BY DEF TypeInv, TypeOK
    <3>2. CASE Store
      <4>1. /\ udp.id \in Ids /\ udp.packet \in Packet /\ Fits(udp.packet.block.num)
        BY <3>2, ThreadFacts DEF Store, Holding, TypeInv, PacketsFit
      <4>2. StorePacket(slot[udp.id], udp.packet).file = slot[udp.id].file
        BY <4>1, StorePacketType
      <4> QED
        BY <3>1, <3>2, <4>1, <4>2 DEF Store, SlotOf
    <3>3. CASE NumberFeed
      <4>1. PICK n : slot' = [slot EXCEPT ![udp.id] = [slot[udp.id] EXCEPT !.feed = n]]
        BY <3>3 DEF NumberFeed, SlotOf
      <4> QED
        BY <3>1, <4>1 DEF Slot
    <3>4. CASE slot' = slot
      BY <3>4
    <3> QED
      BY <1>6, <3>2, <3>3, <3>4 DEF Receive, StoreNowhere, TestComplete,
                                    OpenFeed, AnnounceNowhere
  <2> QED
    BY <1>1, <2>1, <2>2, SilentOnceInv
<1>7. CASE OpenFile \/ OpenFileFails \/ OpenFeedFails
         \/ CopyFreed
  <2>1. UNCHANGED <<reqs, slot, posts>>
    BY <1>7 DEF OpenFile, OpenFileFails, OpenFeedFails, CopyFreed
  <2>2. \/ UNCHANGED udp \/ udp'.pc = "dead"
        \/ udp.pc = "write" /\ udp'.pc = "copy" /\ udp'.id = udp.id
    BY <1>7 DEF OpenFile, OpenFileFails, OpenFeedFails, CopyFreed, Dead
  <2> QED
    BY <1>1, <2>1, <2>2, SilentOnceInv
<1>8. CASE CopyFile
  <2>1. UNCHANGED <<reqs, posts>> /\ udp.pc = "copy" /\ udp.id \in Ids
        /\ slot' = [slot EXCEPT ![udp.id] = Cleared]
    BY <1>8, ThreadFacts DEF CopyFile, Holding, SlotOf, AfterWrite
  <2>2. \A i \in Ids : slot'[i] = IF i = udp.id THEN Cleared ELSE slot[i]
    BY <2>1 DEF TypeInv, TypeOK
  <2>3. /\ \A i \in Ids : slot'[i].file \in {slot[i].file, 0, Len(reqs) + 1}
        /\ slot'[udp.id].file = 0
    BY <2>1, <2>2, ClearedType
  <2> QED
    BY <1>1, <2>1, <2>3, SilentOnceInv
<1> QED
  BY <1>2, <1>3, <1>4, <1>5, <1>6, <1>7, <1>8 DEF Next, UdpStep

(* A request is announced at most once, whatever the network repeats and   *)
(* whatever the timeout check clears meanwhile (data.c:404-407, 452).      *)
THEOREM AnnouncedOnce == Spec => []OncePerRequest
<1>1. OnceInv => OncePerRequest
  BY DEF OnceInv
<1> QED
  BY <1>1, InitOnceInv, OnceStep, TypeCorrect, Ownership, PTL DEF Spec

-----------------------------------------------------------------------------
(* Transfers on a good network *)

NotHeld(id) == udp.pc \in Holding => udp.id # id
NotServed(id) == tcp.pc \in {"send", "clear", "zero"} => tcp.id # id

(* The slot of a client is free, or lent to a download, or has the first   *)
(* blocks of an upload, whose other packets are under way in order.        *)
Resting(id) == /\ ~ slot[id].active /\ net[id] = <<>>
               /\ NotHeld(id) /\ NotServed(id)
Downloading(id) == /\ slot[id].active /\ slot[id].file # 0 /\ net[id] = <<>>
                   /\ NotHeld(id)
                   /\ \/ tcp.pc = "dead"
                      \/ tcp.pc \in {"send", "clear"} /\ tcp.id = id

Had(id) == Len(slot[id].blocks)
Size(id) == reqs[slot[id].file].size
Total(id) == NumBlock(Size(id))
Next1(id) == IF udp.pc = "store" /\ udp.id = id THEN Had(id) + 1 ELSE Had(id)

SlotFilled(id) ==
  /\ slot[id].active /\ slot[id].file \in DOMAIN reqs
  /\ reqs[slot[id].file].kind = "upload"
  /\ slot[id].blocks = FirstBlocks(slot[id].file, Had(id))
  /\ slot[id].last = IF Had(id) = Total(id) THEN Total(id) ELSE 0
  /\ slot[id].size = IF Had(id) = Total(id) /\ Had(id) # 0
                     THEN Size(id) + Beyond(Size(id)) ELSE FullLen * Had(id)
NetFollows(id) ==
  /\ Next1(id) <= Total(id) /\ Len(net[id]) = Total(id) - Next1(id)
  /\ \A k \in DOMAIN net[id] :
       net[id][k] = Packets(slot[id].file, Size(id))[Next1(id) + k]
HandFollows(id) ==
  udp.pc \in Holding /\ udp.id = id =>
    /\ udp.pc = "store" =>
         udp.packet = Packets(slot[id].file, Size(id))[Had(id) + 1]
    /\ udp.pc = "test" => Had(id) # 0
    /\ udp.pc \notin {"store", "test"} => Had(id) # 0 /\ Had(id) = Total(id)
    /\ udp.pc = "post" => slot[id].feed # 0
    /\ udp.pc = "copy" => udp.file = slot[id].file
Uploading(id) == SlotFilled(id) /\ NetFollows(id) /\ HandFollows(id) /\ NotServed(id)

AllWhole == /\ \A i \in DOMAIN posts : Whole(posts[i]) /\ posts[i].file \in DOMAIN reqs
            /\ \A f \in files : Whole(f) /\ f.file \in DOMAIN reqs
(* What may end a thread is the disk, and slots time out once the UDP      *)
(* thread has ended.                                                       *)
ThreadsLive ==
  /\ up /\ nfeeds # 0
  /\ tcp.pc = "zero" => udp.pc = "dead"
  /\ udp.pc = "dead" \/ tcp.pc = "dead" => world.diskFaults

InOrder(id) == Resting(id) \/ Downloading(id) \/ Uploading(id)
Punctual == Orderly /\ ~ world.timeouts
CalmInv == Punctual => /\ AllWhole /\ ThreadsLive
                       /\ udp.pc # "dead" => \A id \in Ids : InOrder(id)

LEMMA InitCalmInv == Init => CalmInv
BY DEF Init, CalmInv, InOrder, Resting, NotHeld, NotServed, AllWhole,
       ThreadsLive, Idle, Holding, Cleared

(* What an upload under way says of the numbers. *)
LEMMA UploadingFacts ==
  ASSUME TypeInv, NEW id \in Ids, Uploading(id)
  PROVE  /\ Had(id) \in Nat /\ Total(id) \in Nat
         /\ Size(id) \in FileSizes /\ Size(id) \in Nat
         /\ Next1(id) \in Nat /\ Had(id) <= Total(id)
         /\ slot[id] \in Slot /\ net[id] \in Seq(Packet)
         /\ DOMAIN net[id] = 1..Len(net[id]) /\ Len(net[id]) \in Nat
<1>1. slot[id] \in Slot /\ net[id] \in Seq(Packet)
  BY DEF TypeInv, TypeOK
<1>2. slot[id].blocks \in Seq(Blocks)
  BY <1>1, RecordTypes
<1>3. Had(id) \in Nat
  BY <1>2, LenProperties DEF Had
<1>4. Size(id) \in FileSizes /\ Size(id) \in Nat
  <2>1. reqs \in Seq(Request) /\ slot[id].file \in DOMAIN reqs
    BY DEF TypeInv, TypeOK, Uploading, SlotFilled
  <2>2. reqs[slot[id].file] \in Request
    BY <2>1, LenProperties
  <2> QED
    BY <2>2, SizesAddUp DEF Size, Request
<1>5. Total(id) \in Nat
  BY <1>4, NumBlockType DEF Total
<1>6. Next1(id) \in Nat /\ Had(id) <= Next1(id)
  BY <1>3 DEF Next1
<1>7. Had(id) <= Total(id)
  BY <1>3, <1>5, <1>6 DEF Uploading, NetFollows
<1> QED
  BY <1>1, <1>3, <1>4, <1>5, <1>6, <1>7, LenProperties

(* A client that a step is not about. *)
LEMMA Bystander ==
  ASSUME NEW i \in Ids, InOrder(i), slot'[i] = slot[i], net'[i] = net[i],
         \A r \in DOMAIN reqs : r \in DOMAIN reqs' /\ reqs'[r] = reqs[r],
         udp' = udp \/ (NotHeld(i) /\ NotHeld(i)'),
         tcp' = tcp \/ (NotServed(i) /\ NotServed(i)' /\ tcp.pc # "dead")
  PROVE  InOrder(i)'
<1>1. CASE Resting(i)
  BY <1>1 DEF Resting, InOrder, NotHeld, NotServed
<1>2. CASE Downloading(i)
  BY <1>2 DEF Downloading, InOrder, NotHeld, NotServed
<1>3. CASE Uploading(i)
  <2>1. /\ Had(i)' = Had(i) /\ Size(i)' = Size(i) /\ Total(i)' = Total(i)
        /\ slot[i].file \in DOMAIN reqs
    BY <1>3 DEF Uploading, SlotFilled, Had, Size, Total
  <2>2. Next1(i)' = Next1(i)
    BY <2>1 DEF Next1, NotHeld, Holding
  <2>3. SlotFilled(i)'
    BY <1>3, <2>1 DEF Uploading, SlotFilled
  <2>4. NetFollows(i)'
    BY <1>3, <2>1, <2>2 DEF Uploading, NetFollows
  <2>5. HandFollows(i)'
    BY <1>3, <2>1 DEF Uploading, HandFollows, NotHeld
  <2>6. NotServed(i)'
    BY <1>3 DEF Uploading, NotServed
  <2> QED
    BY <2>3, <2>4, <2>5, <2>6 DEF Uploading, InOrder
<1> QED
  BY <1>1, <1>2, <1>3 DEF InOrder

(* What was published stays whole. *)
LEMMA WholeKept ==
  ASSUME AllWhole, \A r \in DOMAIN reqs : r \in DOMAIN reqs' /\ reqs'[r] = reqs[r],
         posts' = posts, files' = files
  PROVE  AllWhole'
BY DEF AllWhole, Whole

(* An upload starts with an empty slot and all its packets under way.      *)
LEMMA UploadCalmInv ==
  ASSUME TypeInv, CalmInv, Punctual, udp.pc # "dead", NEW id \in Ids,
         NEW fd \in world.feeds, NEW size \in world.sizes, PrepareUpload(id, fd, size)
  PROVE  CalmInv'
<1>1. Len(reqs) + 1 \in 1..MaxRequests
  BY UploadEffect
<1>2. PICK r \in 1..MaxRequests : r = Len(reqs) + 1
  BY <1>1
<1> DEFINE q == [id |-> id, kind |-> "upload", feed |-> fd, size |-> size]
           n == NumBlock(size)
<1>3. /\ q \in Request /\ fd \in Nat /\ reqs' = Append(reqs, q)
      /\ slot' = [slot EXCEPT ![id] = Fresh(r, fd)]
      /\ net' = [net EXCEPT ![id] = net[id] \o Packets(r, size)]
      /\ UNCHANGED <<world, udp, tcp, nfeeds, posts, files, up>>
  BY <1>2, UploadEffect
<1>4. /\ \A p \in DOMAIN reqs : p \in DOMAIN reqs' /\ reqs'[p] = reqs[p]
      /\ r \in DOMAIN reqs' /\ reqs'[r] = q
  <2>1. /\ DOMAIN reqs = 1..Len(reqs) /\ Len(reqs) \in Nat
        /\ DOMAIN reqs' = 1..(Len(reqs) + 1)
        /\ \A p \in DOMAIN reqs : reqs'[p] = reqs[p]
        /\ reqs'[Len(reqs) + 1] = q
    BY <1>3, NewRequest
  <2> QED
    BY <1>2, <2>1
<1>5. /\ slot \in [Ids -> Slot] /\ net \in [Ids -> Seq(Packet)]
      /\ net[id] = <<>> /\ ~ slot[id].active /\ tcp.pc = "idle"
  BY DEF PrepareUpload, Quiet, Punctual, Orderly, TypeInv, TypeOK
<1>6. NotHeld(id)
  BY <1>5 DEF CalmInv, InOrder, Resting, Downloading, Uploading, SlotFilled
<1>7. /\ n \in Nat /\ Packets(r, size) \in Seq(Packet) /\ Len(Packets(r, size)) = n
  BY UploadPackets
<1>8. net'[id] = Packets(r, size)
  BY <1>3, <1>5, <1>7, ConcatEmptySeq
<1>9. /\ slot'[id].active /\ slot'[id].file = r /\ slot'[id].blocks = <<>>
      /\ slot'[id].last = 0 /\ slot'[id].size = 0
  <2>1. slot'[id] = Fresh(r, fd)
    BY <1>3, <1>5
  <2> QED
    BY <2>1 DEF Fresh, Cleared
<1>10. /\ Had(id)' = 0 /\ Size(id)' = size /\ Total(id)' = n /\ Next1(id)' = 0
  <2>1. Had(id)' = 0
    BY <1>9, EmptySeq DEF Had
  <2>2. Size(id)' = size /\ Total(id)' = n
    BY <1>4, <1>9 DEF Size, Total
  <2> QED
    BY <1>3, <1>6, <2>1, <2>2 DEF Next1, NotHeld, Holding
<1> HIDE DEF n
<1>11. SlotFilled(id)'
  <2>1. FirstBlocks(r, 0) = <<>>
    BY FirstBlocksLen
  <2> QED
    BY <1>4, <1>7, <1>9, <1>10, <2>1 DEF SlotFilled, FullLen
<1>12. NetFollows(id)'
  <2>1. DOMAIN net'[id] = 1..n
    BY <1>7, <1>8, LenProperties
  <2>2. \A k \in 1..n : 0 + k = k
    BY <1>7
  <2>3. \A k \in DOMAIN net'[id] : net'[id][k] = Packets(r, size)[0 + k]
    BY <1>8, <2>1, <2>2
  <2>4. 0 <= n /\ Len(net'[id]) = n - 0
    BY <1>7, <1>8
  <2> QED
    BY <1>9, <1>10, <2>3, <2>4 DEF NetFollows
<1>13. InOrder(id)'
  BY <1>3, <1>5, <1>6, <1>11, <1>12
     DEF InOrder, Uploading, HandFollows, NotHeld, NotServed
<1>14. \A i \in Ids : InOrder(i)'
  <2> SUFFICES ASSUME NEW i \in Ids, i # id
               PROVE  InOrder(i)'
    BY <1>13
  <2>1. slot'[i] = slot[i] /\ net'[i] = net[i] /\ InOrder(i)
    BY <1>3, <1>5 DEF CalmInv
  <2> QED
    BY <1>3, <1>4, <2>1, Bystander
<1>15. AllWhole' /\ ThreadsLive'
  BY <1>3, <1>4, WholeKept DEF CalmInv, ThreadsLive
<1> QED
  BY <1>14, <1>15 DEF CalmInv

(* A download only borrows the slot. *)
LEMMA DownloadCalmInv ==
  ASSUME TypeInv, CalmInv, Punctual, udp.pc # "dead",
         NEW id \in Ids, NEW f \in files,
         PrepareDownload(id, f)
  PROVE  CalmInv'
<1> DEFINE q == [id |-> id, kind |-> "download", feed |-> f.feed, size |-> 0]
<1>1. Len(reqs) \in Nat /\ Len(reqs) + 1 \in 1..MaxRequests
  <2>1. Len(reqs) \in Nat
    BY LenProperties DEF TypeInv, TypeOK
  <2> QED
    BY <2>1, WorldFacts DEF PrepareDownload
<1>2. PICK r \in 1..MaxRequests : r = Len(reqs) + 1
  BY <1>1
<1>3. /\ q \in Request /\ reqs' = Append(reqs, q)
      /\ slot' = [slot EXCEPT ![id] = Fresh(r, f.feed)]
      /\ tcp' = [pc |-> "send", id |-> id]
      /\ UNCHANGED <<world, net, udp, nfeeds, posts, files, up>>
  <2>1. q \in Request
    BY DEF TypeInv, TypeOK, Request, Published, FileSizes, FullLen, MaxBlocks
  <2> QED
    BY <1>2, <2>1 DEF PrepareDownload, SlotOf
<1>4. \A p \in DOMAIN reqs : p \in DOMAIN reqs' /\ reqs'[p] = reqs[p]
  <2>1. /\ DOMAIN reqs = 1..Len(reqs) /\ DOMAIN reqs' = 1..(Len(reqs) + 1)
        /\ \A p \in DOMAIN reqs : reqs'[p] = reqs[p]
    BY <1>3, NewRequest
  <2> QED
    BY <1>1, <2>1
<1>5. /\ slot \in [Ids -> Slot]
      /\ net[id] = <<>> /\ ~ slot[id].active /\ tcp.pc = "idle"
  BY DEF PrepareDownload, Quiet, Punctual, Orderly, TypeInv, TypeOK
<1>6. NotHeld(id)
  BY <1>5 DEF CalmInv, InOrder, Resting, Downloading, Uploading, SlotFilled
<1>7. slot'[id].active /\ slot'[id].file = r
  <2>1. slot'[id] = Fresh(r, f.feed)
    BY <1>3, <1>5
  <2> QED
    BY <2>1 DEF Fresh, Cleared
<1>8. InOrder(id)'
  BY <1>2, <1>3, <1>5, <1>6, <1>7 DEF InOrder, Downloading, NotHeld
<1>9. \A i \in Ids : InOrder(i)'
  <2> SUFFICES ASSUME NEW i \in Ids, i # id
               PROVE  InOrder(i)'
    BY <1>8
  <2>1. slot'[i] = slot[i] /\ net'[i] = net[i] /\ InOrder(i)
    BY <1>3, <1>5 DEF CalmInv
  <2>2. NotServed(i) /\ NotServed(i)' /\ tcp.pc # "dead"
    BY <1>3, <1>5 DEF NotServed
  <2> QED
    BY <1>3, <1>4, <2>1, <2>2, Bystander
<1>10. AllWhole' /\ ThreadsLive'
  BY <1>3, <1>4, WholeKept DEF CalmInv, ThreadsLive
<1> QED
  BY <1>9, <1>10 DEF CalmInv

(* The TCP thread is busy with a slot lent to a download, and the timeout  *)
(* check finds nothing.                                                    *)
LEMMA TcpCalmInv ==
  ASSUME TypeInv, CalmInv, Punctual, udp.pc # "dead",
         \/ SendFile \/ ClearDownload \/ TimeoutZero
         \/ \E id \in Ids : TimeoutFree(id)
  PROVE  CalmInv'
<1>1. /\ UNCHANGED <<world, reqs, net, udp, nfeeds, posts, files, up>>
      /\ tcp.pc \in {"send", "clear"} /\ (SendFile \/ ClearDownload)
  BY DEF SendFile, ClearDownload, TimeoutZero, TimeoutFree, Punctual,
         CalmInv, ThreadsLive
<1>2. PICK id \in Ids : id = tcp.id
  BY <1>1, ThreadFacts
<1>3. Downloading(id) /\ tcp = [pc |-> tcp.pc, id |-> id]
  BY <1>1, <1>2, ThreadFacts
     DEF CalmInv, InOrder, Resting, Uploading, NotServed
<1>4. slot \in [Ids -> Slot]
  BY DEF TypeInv, TypeOK
<1>5. CASE SendFile
  <2>1. /\ slot' = slot
        /\ \/ tcp' = [pc |-> "clear", id |-> id]
           \/ tcp' = Dead /\ world.diskFaults
    BY <1>2, <1>3, <1>5 DEF SendFile, SlotOf, Downloading
  <2>2. \A i \in Ids : InOrder(i)'
    <3> SUFFICES ASSUME NEW i \in Ids
                 PROVE  InOrder(i)'
      OBVIOUS
    <3>1. CASE i = id
      BY <1>1, <1>3, <2>1, <3>1 DEF Downloading, InOrder, NotHeld, Dead
    <3>2. CASE i # id
      <4>1. NotServed(i) /\ NotServed(i)' /\ InOrder(i)
        BY <1>1, <1>2, <1>3, <2>1, <3>2 DEF NotServed, CalmInv, Dead
      <4> QED
        BY <1>1, <2>1, <4>1, Bystander
    <3> QED
      BY <3>1, <3>2
  <2> QED
    BY <1>1, <2>1, <2>2, WholeKept DEF CalmInv, ThreadsLive, Dead
<1>6. CASE ClearDownload
  <2>1. slot' = [slot EXCEPT ![id] = Cleared] /\ tcp' = Idle
    BY <1>2, <1>6 DEF ClearDownload, SlotOf
  <2>2. \A i \in Ids : InOrder(i)'
    <3> SUFFICES ASSUME NEW i \in Ids
                 PROVE  InOrder(i)'
      OBVIOUS
    <3>1. CASE i = id
      <4>1. ~ slot'[i].active
        BY <1>4, <2>1, <3>1 DEF Cleared
      <4> QED
        BY <1>1, <1>3, <2>1, <3>1, <4>1
           DEF Downloading, Resting, InOrder, NotHeld, NotServed, Idle
    <3>2. CASE i # id
      <4>1. NotServed(i) /\ NotServed(i)' /\ InOrder(i) /\ slot'[i] = slot[i]
        BY <1>1, <1>2, <1>3, <1>4, <2>1, <3>2 DEF NotServed, CalmInv, Idle
      <4> QED
        BY <1>1, <4>1, Bystander
    <3> QED
      BY <3>1, <3>2
  <2> QED
    BY <1>1, <2>1, <2>2, WholeKept DEF CalmInv, ThreadsLive, Idle
<1> QED
  BY <1>1, <1>5, <1>6

(* The next packet of the upload is the first under way.                   *)
LEMMA ReceiveCalmInv ==
  ASSUME TypeInv, CalmInv, Punctual, udp.pc # "dead",
         NEW id \in Ids, NEW k \in Deliverable(id),
         Receive(id, k)
  PROVE  CalmInv'
<1> DEFINE q == RemoveAt(net[id], 1)
<1>1. k = 1 /\ 1 \in DOMAIN net[id]
  BY DEF Deliverable, Punctual, Orderly
<1>2. net[id] # <<>> /\ net[id] \in Seq(Packet)
  <2>1. net[id] \in Seq(Packet)
    BY DEF TypeInv, TypeOK
  <2>2. 1 \in 1..Len(net[id])
    BY <1>1, <2>1, LenProperties
  <2> QED
    BY <2>1, <2>2, EmptySeq
<1>3. Uploading(id)
  BY <1>2 DEF CalmInv, InOrder, Resting, Downloading
<1>4. slot[id].active /\ udp.pc = "idle"
  BY <1>3 DEF Uploading, SlotFilled, Receive
<1>5. /\ net' = [net EXCEPT ![id] = q]
      /\ udp' = [pc |-> "store", id |-> id, packet |-> net[id][1]]
      /\ UNCHANGED <<world, reqs, slot, tcp, nfeeds, posts, files, up>>
  BY <1>1, <1>4 DEF Receive, SlotOf
<1>6. net'[id] = q /\ \A i \in Ids : i # id => net'[i] = net[i]
  BY <1>5 DEF TypeInv, TypeOK
<1>7. /\ Had(id) \in Nat /\ Total(id) \in Nat /\ Len(net[id]) \in Nat
      /\ DOMAIN net[id] = 1..Len(net[id])
  BY <1>3, UploadingFacts
<1>8. /\ Next1(id) = Had(id) /\ Had(id) <= Total(id)
      /\ Len(net[id]) = Total(id) - Had(id)
      /\ \A j \in DOMAIN net[id] :
           net[id][j] = Packets(slot[id].file, Size(id))[Had(id) + j]
  BY <1>3, <1>4 DEF Next1, Uploading, NetFollows
<1>9. /\ Had(id)' = Had(id) /\ Size(id)' = Size(id) /\ Total(id)' = Total(id)
      /\ Next1(id)' = Had(id) + 1
  BY <1>5 DEF Had, Size, Total, Next1
<1>10. /\ Len(q) = Len(net[id]) - 1 /\ DOMAIN q = 1..(Len(net[id]) - 1)
       /\ \A j \in 1..(Len(net[id]) - 1) : q[j] = net[id][j + 1]
  <2>1. /\ Len(q) = Len(net[id]) - 1 /\ DOMAIN q = 1..(Len(net[id]) - 1)
        /\ \A j \in 1..(Len(net[id]) - 1) :
             q[j] = IF j < 1 THEN net[id][j] ELSE net[id][j + 1]
    BY <1>1, <1>2, RemoveAtFacts
  <2>2. \A j \in 1..(Len(net[id]) - 1) : ~ (j < 1)
    BY <1>7
  <2> QED
    BY <2>1, <2>2
<1> HIDE DEF q
<1>11. NetFollows(id)'
  <2>1. Had(id) + 1 <= Total(id) /\ Len(q) = Total(id) - (Had(id) + 1)
    BY <1>1, <1>7, <1>8, <1>10
  <2>2. ASSUME NEW j \in DOMAIN q
        PROVE  q[j] = Packets(slot[id].file, Size(id))[(Had(id) + 1) + j]
    <3>1. j + 1 \in DOMAIN net[id] /\ Had(id) + (j + 1) = (Had(id) + 1) + j
          /\ j \in 1..(Len(net[id]) - 1)
      BY <1>7, <1>10
    <3> QED
      BY <1>8, <1>10, <3>1
  <2> QED
    BY <1>5, <1>6, <1>9, <2>1, <2>2 DEF NetFollows
<1>12. HandFollows(id)'
  <2>1. net[id][1] = Packets(slot[id].file, Size(id))[Had(id) + 1]
    BY <1>1, <1>8
  <2> QED
    BY <1>5, <1>9, <2>1 DEF HandFollows
<1>13. SlotFilled(id)'
  BY <1>3, <1>5, <1>9 DEF Uploading, SlotFilled
<1>14. InOrder(id)'
  BY <1>3, <1>5, <1>11, <1>12, <1>13 DEF InOrder, Uploading, NotServed
<1>15. \A i \in Ids : InOrder(i)'
  <2> SUFFICES ASSUME NEW i \in Ids, i # id
               PROVE  InOrder(i)'
    BY <1>14
  <2>1. NotHeld(i) /\ NotHeld(i)' /\ InOrder(i)
    BY <1>4, <1>5 DEF NotHeld, Holding, CalmInv
  <2> QED
    BY <1>5, <1>6, <2>1, Bystander
<1>16. AllWhole' /\ ThreadsLive'
  BY <1>5, WholeKept DEF CalmInv, ThreadsLive
<1> QED
  BY <1>15, <1>16 DEF CalmInv

(* Whoever's packet the UDP thread has in hand is uploading. *)
LEMMA InHand ==
  ASSUME TypeInv, CalmInv, Punctual, udp.pc # "dead",
         udp.pc \in Holding
  PROVE  \E id \in Ids : id = udp.id /\ Uploading(id) /\ Mine = slot[id]
                         /\ ~ Freed(udp.id)
<1>1. udp.id \in Ids
  BY ThreadFacts
<1>2. Uploading(udp.id)
  BY <1>1 DEF CalmInv, InOrder, Resting, Downloading, NotHeld
<1>3. ~ Freed(udp.id)
  BY DEF Freed, CalmInv, ThreadsLive
<1> QED
  BY <1>1, <1>2, <1>3 DEF Mine, SlotOf

(* The packet in hand is the next block, and the last one if it is short.  *)
LEMMA StoreCalmInv ==
  ASSUME TypeInv, CalmInv, Punctual, udp.pc # "dead",
         Store
  PROVE  CalmInv'
<1>1. udp.pc = "store" /\ udp.pc \in Holding
  BY DEF Store, Holding
<1>2. PICK id \in Ids : id = udp.id /\ Uploading(id)
  BY <1>1, InHand
<1> DEFINE p == udp.packet
           s == slot[id]
           t == StorePacket(s, p)
           m == Had(id)
           n == Total(id)
           r == slot[id].file
<1>3. /\ m \in Nat /\ n \in Nat /\ Size(id) \in Nat
  BY <1>2, UploadingFacts
<1>4. /\ m + 1 <= n /\ Len(net[id]) = n - (m + 1)
      /\ \A k \in DOMAIN net[id] : net[id][k] = Packets(r, Size(id))[(m + 1) + k]
  BY <1>1, <1>2 DEF Uploading, NetFollows, Next1
<1>5. /\ p \in Packet /\ Fits(p.block.num)
  BY <1>1, ThreadFacts DEF TypeInv, PacketsFit
<1>6. /\ p.block = [req |-> r, num |-> m + 1] /\ p.block.num = m + 1
      /\ p.len = BlockLen(Size(id), m + 1)
  <2>1. p = Packets(r, Size(id))[m + 1]
    BY <1>1, <1>2 DEF Uploading, HandFollows
  <2>2. m + 1 \in 1..NumBlock(Size(id))
    BY <1>3, <1>4 DEF Total
  <2> QED
    BY <2>1, <2>2 DEF Packets, Content
<1>7. /\ t.active = s.active /\ t.file = s.file
      /\ t.blocks = SetBlock(s.blocks, m + 1, [req |-> r, num |-> m + 1])
      /\ t.last = LastPacket(s, p) /\ t.size = s.size + p.len
  BY <1>5, <1>6, StorePacketType
<1>8. /\ UNCHANGED <<world, reqs, net, tcp, nfeeds, posts, files, up>>
      /\ slot' = [slot EXCEPT ![id] = t]
      /\ udp' = [pc |-> "test", id |-> id, packet |-> p]
  <2>1. udp = [pc |-> udp.pc, id |-> udp.id, packet |-> udp.packet]
    BY <1>1, ThreadFacts
  <2> QED
    BY <1>2, <2>1 DEF Store, SlotOf, Goto
<1>9. slot'[id] = t /\ \A i \in Ids : i # id => slot'[i] = slot[i]
  BY <1>8 DEF TypeInv, TypeOK
<1>10. t.blocks = FirstBlocks(r, m + 1) /\ Len(t.blocks) = m + 1
  <2>1. s.blocks = FirstBlocks(r, m)
    BY <1>2 DEF Uploading, SlotFilled
  <2>2. m + 1 \in Nat
    BY <1>3
  <2> QED
    BY <1>3, <1>7, <2>1, <2>2, SetNextBlock, FirstBlocksLen
<1>11. m # n /\ s.last = 0 /\ s.size = FullLen * m
  <2>1. m # n
    BY <1>3, <1>4
  <2> QED
    BY <1>2, <2>1 DEF Uploading, SlotFilled
<1>12. /\ p.len < FullLen <=> m + 1 = n
       /\ p.len = IF m + 1 = n THEN Size(id) % FullLen ELSE FullLen
  <2>1. m + 1 \in Nat /\ n = NumBlock(Size(id))
    BY <1>3 DEF Total
  <2> QED
    BY <1>3, <1>6, <2>1, BlockLenFacts DEF BlockLen
<1>13. t.last = IF m + 1 = n THEN n ELSE 0
  BY <1>6, <1>7, <1>11, <1>12 DEF LastPacket
<1>14. t.size = IF m + 1 = n THEN Size(id) + Beyond(Size(id))
               ELSE FullLen * (m + 1)
  <2>1. CASE m + 1 = n
    <3>1. m = NumBlock(Size(id)) - 1
      BY <1>3, <2>1 DEF Total
    <3> QED
      BY <1>2, <1>7, <1>11, <1>12, <2>1, <3>1, UploadingFacts, SizesAddUp
  <2>2. CASE m + 1 # n
    <3>1. FullLen * m + FullLen = FullLen * (m + 1)
      BY <1>3 DEF FullLen
    <3> QED
      BY <1>7, <1>11, <1>12, <2>2, <3>1
  <2> QED
    BY <2>1, <2>2
<1>15. /\ Had(id)' = m + 1 /\ Size(id)' = Size(id) /\ Total(id)' = n
       /\ Next1(id)' = m + 1
  <2>1. Had(id)' = m + 1 /\ Size(id)' = Size(id) /\ Total(id)' = n
    BY <1>7, <1>8, <1>9, <1>10 DEF Had, Size, Total
  <2> QED
    BY <1>8, <2>1 DEF Next1
<1> HIDE DEF t, m, n
<1>16. SlotFilled(id)'
  <2>1. m + 1 # 0
    BY <1>3
  <2> QED
    BY <1>2, <1>7, <1>8, <1>9, <1>10, <1>13, <1>14, <1>15, <2>1
       DEF Uploading, SlotFilled
<1>17. NetFollows(id)'
  BY <1>4, <1>7, <1>8, <1>9, <1>15 DEF NetFollows
<1>18. HandFollows(id)'
  <2>1. m + 1 # 0
    BY <1>3
  <2> QED
    BY <1>8, <1>15, <2>1 DEF HandFollows
<1>19. InOrder(id)'
  BY <1>2, <1>8, <1>16, <1>17, <1>18 DEF InOrder, Uploading, NotServed
<1>20. \A i \in Ids : InOrder(i)'
  <2> SUFFICES ASSUME NEW i \in Ids, i # id
               PROVE  InOrder(i)'
    BY <1>19
  <2>1. NotHeld(i) /\ NotHeld(i)' /\ InOrder(i)
    BY <1>2, <1>8 DEF NotHeld, CalmInv
  <2> QED
    BY <1>8, <1>9, <2>1, Bystander
<1>21. AllWhole' /\ ThreadsLive'
  BY <1>8, WholeKept DEF CalmInv, ThreadsLive
<1> QED
  BY <1>20, <1>21 DEF CalmInv

(* Once the array is as long as the last block says, the file is in.       *)
LEMMA HandMovesOn ==
  ASSUME TypeInv, CalmInv, Punctual, udp.pc # "dead",
         NEW id \in Ids, id = udp.id,
         udp.pc \in Holding \ {"store"},
         UNCHANGED <<reqs, net, tcp>>,
         slot' = slot \/ \E n \in Nat :
                           slot' = [slot EXCEPT ![id] = [slot[id] EXCEPT !.feed = n]],
         \/ udp' = Idle
         \/ /\ udp'.pc \in Holding \ {"store"} /\ udp'.id = id
            /\ HandFollows(id)'
  PROVE  \A i \in Ids : InOrder(i)'
<1>1. Uploading(id)
  BY InHand
<1>2. /\ slot'[id].active = slot[id].active /\ slot'[id].file = slot[id].file
      /\ slot'[id].blocks = slot[id].blocks /\ slot'[id].last = slot[id].last
      /\ slot'[id].size = slot[id].size
      /\ \A i \in Ids : i # id => slot'[i] = slot[i]
  <2>1. slot \in [Ids -> Slot] /\ slot[id] \in Slot
    BY DEF TypeInv, TypeOK
  <2>2. CASE slot' = slot
    BY <2>2
  <2>3. ASSUME NEW n \in Nat,
               slot' = [slot EXCEPT ![id] = [slot[id] EXCEPT !.feed = n]]
        PROVE  /\ slot'[id].active = slot[id].active
               /\ slot'[id].file = slot[id].file
               /\ slot'[id].blocks = slot[id].blocks
               /\ slot'[id].last = slot[id].last /\ slot'[id].size = slot[id].size
               /\ \A i \in Ids : i # id => slot'[i] = slot[i]
    <3>1. slot'[id] = [slot[id] EXCEPT !.feed = n]
      BY <2>1, <2>3
    <3> QED
      BY <2>1, <2>3, <3>1 DEF Slot
  <2> QED
    BY <2>2, <2>3
<1>3. /\ Had(id)' = Had(id) /\ Size(id)' = Size(id) /\ Total(id)' = Total(id)
      /\ Next1(id)' = Next1(id)
  <2>1. Had(id)' = Had(id) /\ Size(id)' = Size(id) /\ Total(id)' = Total(id)
    BY <1>2 DEF Had, Size, Total
  <2> QED
    BY <2>1 DEF Next1, Idle
<1>4. SlotFilled(id)'
  BY <1>1, <1>2, <1>3 DEF Uploading, SlotFilled
<1>5. NetFollows(id)'
  BY <1>1, <1>2, <1>3 DEF Uploading, NetFollows
<1>6. HandFollows(id)'
  BY DEF HandFollows, Idle, Holding
<1>7. InOrder(id)'
  BY <1>1, <1>4, <1>5, <1>6 DEF InOrder, Uploading, NotServed
<1> SUFFICES ASSUME NEW i \in Ids, i # id
             PROVE  InOrder(i)'
  BY <1>7
<1>8. NotHeld(i) /\ NotHeld(i)' /\ InOrder(i)
  BY DEF NotHeld, Idle, Holding, CalmInv
<1> QED
  BY <1>2, <1>8, Bystander

LEMMA UdpCalmInv ==
  ASSUME TypeInv, CalmInv, Punctual, udp.pc # "dead",
         \/ TestComplete \/ OpenFeed \/ NumberFeed \/ OpenFile
  PROVE  CalmInv'
<1>1. /\ UNCHANGED <<world, reqs, net, tcp, posts, files, up>>
      /\ udp.pc \in {"test", "feed", "number", "write"}
      /\ udp.pc \in Holding \ {"store", "copy"} /\ udp.pc \in Holding
  BY DEF TestComplete, OpenFeed, NumberFeed, OpenFile, Holding
<1>2. PICK id \in Ids : id = udp.id /\ Uploading(id) /\ Mine = slot[id]
  BY <1>1, InHand
<1>3. udp = [pc |-> udp.pc, id |-> id, packet |-> udp.packet]
  BY <1>1, <1>2, ThreadFacts
<1>4. HandFollows(id)
  BY <1>2 DEF Uploading
<1>5. nfeeds # 0 /\ nfeeds \in Nat
  BY DEF CalmInv, ThreadsLive, TypeInv, TypeOK
<1>6. /\ Had(id)' = Had(id) /\ Total(id)' = Total(id)
      /\ udp'.pc \notin {"post", "copy"} =>
           (udp'.pc \in Holding \ {"store"} /\ udp'.id = id
            /\ Had(id) # 0 /\ (udp'.pc = "test" \/ Had(id) = Total(id))
            => HandFollows(id)')
  <2>1. slot'[id].blocks = slot[id].blocks /\ slot'[id].file = slot[id].file
    <3>1. slot \in [Ids -> Slot] /\ slot[id] \in Slot
      BY DEF TypeInv, TypeOK
    <3>2. CASE NumberFeed
      <4>1. PICK n : slot' = [slot EXCEPT ![id] = [slot[id] EXCEPT !.feed = n]]
        BY <1>2, <3>2 DEF NumberFeed, SlotOf
      <4>2. slot'[id] = [slot[id] EXCEPT !.feed = n]
        BY <3>1, <4>1
      <4> QED
        BY <3>1, <4>2 DEF Slot
    <3>3. CASE ~ NumberFeed
      BY <3>3 DEF TestComplete, OpenFeed, OpenFile
    <3> QED
      BY <3>2, <3>3
  <2>2. Had(id)' = Had(id) /\ Total(id)' = Total(id)
    BY <1>1, <2>1 DEF Had, Total, Size
  <2> QED
    BY <2>2 DEF HandFollows
<1>7. CASE TestComplete
  <2>1. slot' = slot /\ nfeeds' = nfeeds
    BY <1>7 DEF TestComplete
  <2>2. udp' = Idle \/ (udp' = [pc |-> "feed", id |-> id, packet |-> udp.packet]
                        /\ Had(id) = slot[id].last)
    BY <1>2, <1>3, <1>7 DEF TestComplete, Goto, Complete, Had
  <2>3. udp' # Idle => Had(id) = Total(id) /\ Had(id) # 0
    BY <1>2, <1>4, <1>7, <2>2 DEF TestComplete, HandFollows, Uploading,
                                  SlotFilled, Holding
  <2>4. \/ udp' = Idle
        \/ /\ udp'.pc \in Holding \ {"store"} /\ udp'.id = id
           /\ HandFollows(id)'
    BY <1>6, <2>2, <2>3 DEF Holding
  <2>5. \A i \in Ids : InOrder(i)'
    BY <1>1, <1>2, <2>1, <2>4, HandMovesOn
  <2> QED
    BY <1>1, <2>1, <2>2, <2>5, WholeKept DEF CalmInv, ThreadsLive, Idle
<1>8. CASE ~ TestComplete
  <2>1. Had(id) # 0 /\ Had(id) = Total(id)
    BY <1>1, <1>2, <1>4, <1>8 DEF HandFollows, OpenFeed, NumberFeed, OpenFile
  <2>2. CASE OpenFeed
    <3>1. slot' = slot /\ nfeeds' \in Nat /\ nfeeds' # 0
          /\ udp' = [pc |-> "number", id |-> id, packet |-> udp.packet]
      BY <1>3, <1>5, <2>2 DEF OpenFeed, Goto
    <3>2. udp'.pc \in Holding \ {"store"} /\ udp'.id = id /\ HandFollows(id)'
      BY <1>6, <2>1, <3>1 DEF Holding
    <3>3. \A i \in Ids : InOrder(i)'
      BY <1>1, <1>2, <3>1, <3>2, HandMovesOn
    <3> QED
      BY <1>1, <3>1, <3>3, WholeKept DEF CalmInv, ThreadsLive
  <2>3. CASE NumberFeed
    <3> DEFINE n == IF slot[id].feed = 0 THEN nfeeds ELSE slot[id].feed
    <3>1. /\ slot' = [slot EXCEPT ![id] = [slot[id] EXCEPT !.feed = n]]
          /\ nfeeds' = nfeeds
          /\ udp' = [pc |-> "post", id |-> id, packet |-> udp.packet]
      BY <1>2, <1>3, <2>3 DEF NumberFeed, Goto, SlotOf
    <3>2. slot \in [Ids -> Slot] /\ slot[id] \in Slot /\ n \in Nat /\ n # 0
      BY <1>5, RecordTypes DEF TypeInv, TypeOK
    <3> HIDE DEF n
    <3>3. slot'[id] = [slot[id] EXCEPT !.feed = n]
      BY <3>1, <3>2
    <3>4. slot'[id].feed # 0
      BY <3>2, <3>3 DEF Slot
    <3>5. udp'.pc \in Holding \ {"store"} /\ udp'.id = id /\ HandFollows(id)'
      BY <1>6, <2>1, <3>1, <3>4 DEF Holding, HandFollows
    <3>6. \A i \in Ids : InOrder(i)'
      BY <1>1, <1>2, <3>1, <3>2, <3>5, HandMovesOn
    <3> QED
      BY <1>1, <3>1, <3>6, WholeKept DEF CalmInv, ThreadsLive
  <2>4. CASE OpenFile
    <3>1. /\ slot' = slot /\ nfeeds' = nfeeds
          /\ udp' = [pc |-> "copy", id |-> id, packet |-> udp.packet,
                     file |-> slot[id].file, feed |-> slot[id].feed]
      BY <1>2, <2>4 DEF OpenFile
    <3>2. udp'.pc \in Holding \ {"store"} /\ udp'.id = id /\ HandFollows(id)'
      BY <1>6, <2>1, <3>1 DEF Holding, HandFollows
    <3>3. \A i \in Ids : InOrder(i)'
      BY <1>1, <1>2, <3>1, <3>2, HandMovesOn
    <3> QED
      BY <1>1, <3>1, <3>3, WholeKept DEF CalmInv, ThreadsLive
  <2> QED
    BY <1>8, <2>2, <2>3, <2>4
<1> QED
  BY <1>7, <1>8

(* A slot that is full has the whole file. *)
LEMMA FullIsWhole ==
  ASSUME TypeInv, NEW id \in Ids, Uploading(id), Had(id) # 0, Had(id) = Total(id)
  PROVE  LET s == slot[id]
         IN  /\ s.file # 0 /\ s.file \in DOMAIN reqs
             /\ reqs[s.file].kind = "upload"
             /\ s.blocks = Content(s.file, reqs[s.file].size)
             /\ s.size = reqs[s.file].size + Beyond(reqs[s.file].size)
<1>1. reqs \in Seq(Request) /\ slot[id].file \in DOMAIN reqs
  BY DEF TypeInv, TypeOK, Uploading, SlotFilled
<1>2. slot[id].file # 0
  BY <1>1, LenProperties
<1>3. slot[id].blocks = FirstBlocks(slot[id].file, Total(id))
  BY DEF Uploading, SlotFilled
<1>4. Content(slot[id].file, Size(id)) = FirstBlocks(slot[id].file, Total(id))
  BY DEF Content, FirstBlocks, Total
<1> QED
  BY <1>1, <1>2, <1>3, <1>4 DEF Uploading, SlotFilled, Size

LEMMA AnnounceCalmInv ==
  ASSUME TypeInv, CalmInv, Punctual, udp.pc # "dead",
         Announce
  PROVE  CalmInv'
<1>1. udp.pc = "post" /\ udp.pc \in Holding /\ udp.pc \in Holding \ {"store", "copy"}
  BY DEF Announce, Holding
<1>2. PICK id \in Ids : id = udp.id /\ Uploading(id) /\ Mine = slot[id]
  BY <1>1, InHand
<1>3. udp = [pc |-> udp.pc, id |-> id, packet |-> udp.packet]
  BY <1>1, <1>2, ThreadFacts
<1> DEFINE m == [file |-> Mine.file, feed |-> Mine.feed, size |-> Mine.size,
                 blocks |-> Mine.blocks]
<1>4. /\ UNCHANGED <<world, reqs, slot, net, tcp, nfeeds, files, up>>
      /\ posts' = Append(posts, m)
      /\ udp' = [pc |-> "write", id |-> id, packet |-> udp.packet]
  BY <1>3 DEF Announce, Goto
<1>5. Had(id) # 0 /\ Had(id) = Total(id)
  BY <1>1, <1>2 DEF Uploading, HandFollows
<1>6. Whole(m) /\ m.file \in DOMAIN reqs
  BY <1>2, <1>5, FullIsWhole DEF Whole
<1>7. HandFollows(id)'
  BY <1>4, <1>5 DEF HandFollows, Had, Total, Size
<1>8. \A i \in Ids : InOrder(i)'
  BY <1>1, <1>2, <1>4, <1>7, HandMovesOn DEF Holding
<1>9. \A i \in DOMAIN posts' : \/ i \in DOMAIN posts /\ posts'[i] = posts[i]
                               \/ posts'[i] = m
  <2>1. m \in Published
    <3>1. slot[id] \in Slot
      BY DEF TypeInv, TypeOK
    <3> QED
      BY <1>2, <3>1, RecordTypes DEF Published, Blocks
  <2>2. posts \in Seq(Published)
    BY DEF TypeInv, TypeOK
  <2> HIDE DEF m
  <2>3. /\ Len(posts) \in Nat /\ DOMAIN posts = 1..Len(posts)
        /\ DOMAIN posts' = 1..(Len(posts) + 1)
        /\ \A i \in 1..Len(posts) : posts'[i] = posts[i]
        /\ posts'[Len(posts) + 1] = m
    BY <1>4, <2>1, <2>2, AppendProperties, LenProperties
  <2>4. \A i \in 1..(Len(posts) + 1) : i \in 1..Len(posts) \/ i = Len(posts) + 1
    BY <2>3
  <2> QED
    BY <2>3, <2>4
<1> HIDE DEF m
<1>10. AllWhole'
  <2>1. \A x : Whole(x)' <=> Whole(x)
    BY <1>4 DEF Whole
  <2> QED
    BY <1>4, <1>6, <1>9, <2>1 DEF CalmInv, AllWhole
<1> QED
  BY <1>4, <1>8, <1>10 DEF CalmInv, ThreadsLive

LEMMA CopyCalmInv ==
  ASSUME TypeInv, CalmInv, Punctual, udp.pc # "dead",
         CopyFile
  PROVE  CalmInv'
<1>1. udp.pc = "copy" /\ udp.pc \in Holding
  BY DEF CopyFile, Holding
<1>2. PICK id \in Ids : id = udp.id /\ Uploading(id) /\ Mine = slot[id]
  BY <1>1, InHand
<1> DEFINE f == [file |-> udp.file, feed |-> udp.feed, size |-> Mine.size,
                 blocks |-> Mine.blocks]
<1>3. /\ UNCHANGED <<world, reqs, net, tcp, nfeeds, posts, up>>
      /\ slot' = [slot EXCEPT ![id] = Cleared] /\ udp' = Idle
      /\ files' = files \cup {f}
  BY <1>2 DEF CopyFile, SlotOf, AfterWrite
<1>4. Had(id) # 0 /\ Had(id) = Total(id) /\ udp.file = slot[id].file
  BY <1>1, <1>2 DEF Uploading, HandFollows
<1>5. Whole(f) /\ f.file \in DOMAIN reqs
  BY <1>2, <1>4, FullIsWhole DEF Whole
<1>6. AllWhole'
  <2>1. \A x : Whole(x)' <=> Whole(x)
    BY <1>3 DEF Whole
  <2> HIDE DEF f
  <2> QED
    BY <1>3, <1>5, <2>1 DEF CalmInv, AllWhole
<1>7. net[id] = <<>>
  <2>1. /\ Total(id) \in Nat /\ net[id] \in Seq(Packet) /\ Next1(id) = Had(id)
        /\ Len(net[id]) = Total(id) - Next1(id)
    BY <1>1, <1>2, UploadingFacts DEF Uploading, NetFollows, Next1
  <2>2. Len(net[id]) = 0
    BY <1>4, <2>1
  <2> QED
    BY <2>1, <2>2, EmptySeq
<1>8. slot'[id] = Cleared /\ \A i \in Ids : i # id => slot'[i] = slot[i]
  BY <1>3 DEF TypeInv, TypeOK
<1>9. InOrder(id)'
  BY <1>2, <1>3, <1>7, <1>8 DEF InOrder, Resting, Uploading, NotHeld,
                               NotServed, Cleared, Idle, Holding
<1>10. \A i \in Ids : InOrder(i)'
  <2> SUFFICES ASSUME NEW i \in Ids, i # id
               PROVE  InOrder(i)'
    BY <1>9
  <2>1. NotHeld(i) /\ NotHeld(i)' /\ InOrder(i)
    BY <1>2, <1>3 DEF NotHeld, CalmInv, Idle, Holding
  <2> QED
    BY <1>3, <1>8, <2>1, Bystander
<1> QED
  BY <1>3, <1>6, <1>10 DEF CalmInv, ThreadsLive, Idle

(* No access goes where nothing is. *)
LEMMA NoAccident ==
  ASSUME TypeInv, CalmInv, Punctual, udp.pc # "dead"
  PROVE  /\ ~ (StoreNowhere \/ AnnounceNowhere \/ CopyFreed)
         /\ OpenFileFails \/ OpenFeedFails => world.diskFaults
<1>1. udp.pc \in Holding =>
        /\ ~ Freed(udp.id) /\ Mine.active /\ Mine.file # 0
        /\ reqs[Mine.file].kind = "upload"
        /\ udp.pc = "post" => Mine.feed # 0
  <2> SUFFICES ASSUME udp.pc \in Holding
               PROVE  /\ ~ Freed(udp.id) /\ Mine.active /\ Mine.file # 0
                      /\ reqs[Mine.file].kind = "upload"
                      /\ udp.pc = "post" => Mine.feed # 0
    OBVIOUS
  <2>1. PICK id \in Ids : /\ id = udp.id /\ Uploading(id) /\ Mine = slot[id]
                          /\ ~ Freed(udp.id)
    BY InHand
  <2>2. slot[id].file # 0
    <3>1. reqs \in Seq(Request) /\ slot[id].file \in DOMAIN reqs
      BY <2>1 DEF TypeInv, TypeOK, Uploading, SlotFilled
    <3> QED
      BY <3>1, LenProperties
  <2> QED
    BY <2>1, <2>2 DEF Uploading, SlotFilled, HandFollows
<1> QED
  BY <1>1 DEF StoreNowhere, AnnounceNowhere, OpenFileFails, OpenFeedFails, CopyFreed,
              Writable, Holding

LEMMA DiskCalmInv ==
  ASSUME TypeInv, CalmInv, Punctual, udp.pc # "dead",
         OpenFileFails \/ OpenFeedFails
  PROVE  CalmInv'
<1>1. /\ UNCHANGED <<world, reqs, tcp, posts, files, up>>
      /\ udp' = Dead /\ nfeeds' \in {nfeeds, nfeeds + 1}
  BY DEF OpenFileFails, OpenFeedFails
<1>2. world.diskFaults /\ AllWhole /\ ThreadsLive
  BY NoAccident DEF CalmInv
<1>3. nfeeds' # 0
  BY <1>1, <1>2 DEF ThreadsLive, TypeInv, TypeOK
<1>4. AllWhole'
  BY <1>1, <1>2, WholeKept
<1> QED
  BY <1>1, <1>2, <1>3, <1>4 DEF CalmInv, ThreadsLive, Dead

(* Nothing is published any more once the UDP thread has ended.            *)
LEMMA EndedCalmInv ==
  ASSUME TypeInv, CalmInv, Punctual, udp.pc = "dead", [Next]_vars
  PROVE  CalmInv'
<1>1. UNCHANGED <<world, udp, nfeeds, posts, files, up>>
  <2>1. CASE \E id \in Ids : ClientAsks(id) \/ TimeoutFree(id)
    BY <2>1 DEF ClientAsks, PrepareUpload, PrepareDownload, TimeoutFree
  <2>2. CASE Network
    BY <2>2 DEF Network, Lose, Duplicate
  <2>3. CASE TcpStep
    BY <2>3 DEF TcpStep, SendFile, ClearDownload, TimeoutZero
  <2>4. CASE UdpStep
    BY <2>4 DEF UdpStep, Receive, Store, StoreNowhere, TestComplete,
             OpenFeed, OpenFeedFails, NumberFeed, Announce, AnnounceNowhere,
             OpenFile, OpenFileFails, CopyFile, CopyFreed
  <2> QED
    BY <2>1, <2>2, <2>3, <2>4 DEF Next, vars
<1>2. \A r \in DOMAIN reqs : r \in DOMAIN reqs' /\ reqs'[r] = reqs[r]
  <2>1. CASE reqs' = reqs
    BY <2>1
  <2>2. CASE reqs' # reqs
    <3>1. PICK q \in Request : reqs' = Append(reqs, q)
      <4>1. PICK id \in Ids : ClientAsks(id)
        BY <2>2 DEF Next, TimeoutFree, Network, Lose, Duplicate, TcpStep,
             SendFile, ClearDownload, TimeoutZero, UdpStep, Receive, Store,
             StoreNowhere, TestComplete, OpenFeed, OpenFeedFails, NumberFeed,
             Announce, AnnounceNowhere, OpenFile, OpenFileFails, CopyFile,
             CopyFreed, vars
      <4>2. CASE \E n \in world.feeds, size \in world.sizes : PrepareUpload(id, n, size)
        BY <4>2, UploadEffect
      <4>3. CASE \E f \in files : PrepareDownload(id, f)
        <5>1. PICK f \in files : PrepareDownload(id, f)
          BY <4>3
        <5>2. [id |-> id, kind |-> "download", feed |-> f.feed, size |-> 0] \in Request
          BY DEF TypeInv, TypeOK, Request, Published, FileSizes, FullLen, MaxBlocks
        <5> QED
          BY <5>1, <5>2 DEF PrepareDownload
      <4> QED
        BY <4>1, <4>2, <4>3 DEF ClientAsks
    <3>2. /\ Len(reqs) \in Nat /\ DOMAIN reqs = 1..Len(reqs)
          /\ DOMAIN reqs' = 1..(Len(reqs) + 1)
          /\ \A r \in DOMAIN reqs : reqs'[r] = reqs[r]
      BY <3>1, NewRequest
    <3> QED
      BY <3>2
  <2> QED
    BY <2>1, <2>2
<1>3. AllWhole'
  BY <1>1, <1>2, WholeKept DEF CalmInv
<1> QED
  BY <1>1, <1>3 DEF CalmInv, ThreadsLive

THEOREM CalmCorrect == Spec => []CalmInv
<1>1. TypeInv /\ CalmInv /\ [Next]_vars => CalmInv'
  <2> SUFFICES ASSUME TypeInv, CalmInv, Punctual, udp.pc # "dead", [Next]_vars
               PROVE  CalmInv'
    <3>1. [Next]_vars => UNCHANGED world
      BY DEF Next, ClientAsks, PrepareUpload, PrepareDownload, TimeoutFree,
             Network, Lose, Duplicate, TcpStep, SendFile, ClearDownload,
             TimeoutZero, UdpStep, Receive, Store, StoreNowhere, TestComplete,
             OpenFeed, OpenFeedFails, NumberFeed, Announce, AnnounceNowhere,
             OpenFile, OpenFileFails, CopyFile, CopyFreed, vars
    <3>2. [Next]_vars /\ ~ Punctual => CalmInv'
      BY <3>1 DEF CalmInv, Punctual, Orderly
    <3> QED
      BY <3>2, EndedCalmInv
  <2>1. CASE \E id \in Ids : ClientAsks(id)
    BY <2>1, UploadCalmInv, DownloadCalmInv DEF ClientAsks
  <2>2. CASE TcpStep \/ \E id \in Ids : TimeoutFree(id)
    BY <2>2, TcpCalmInv DEF TcpStep
  <2>3. CASE Network
    BY <2>3 DEF Network, Lose, Duplicate, Punctual, Orderly
  <2>4. CASE UdpStep
    BY <2>4, ReceiveCalmInv, StoreCalmInv, UdpCalmInv, AnnounceCalmInv,
       CopyCalmInv, NoAccident, DiskCalmInv DEF UdpStep
  <2>5. CASE UNCHANGED vars
    <3>1. \A i \in Ids : InOrder(i)'
      BY <2>5, Bystander DEF vars, CalmInv
    <3> QED
      BY <2>5, <3>1, WholeKept DEF vars, CalmInv, ThreadsLive
  <2> QED
    BY <2>1, <2>2, <2>3, <2>4, <2>5 DEF Next
<1> QED
  BY InitCalmInv, <1>1, TypeCorrect, PTL DEF Spec

(* While clients wait, the network keeps order, nothing times out and no   *)
(* call for a directory or a file fails, no transfer stops a thread or     *)
(* makes an invalid access (tcp_server.c:127-130, udp_server.c:27-28).     *)
THEOREM CalmServerLives == Spec => []ServerLives
<1>1. CalmInv => ServerLives
  BY DEF CalmInv, ThreadsLive, ServerLives, Calm, Punctual
<1> QED
  BY <1>1, CalmCorrect, PTL

(* If nothing times out, and even when the disk fails, whatever is         *)
(* announced or written is a file somebody sent: its blocks in order, and  *)
(* its size, or one packet more if it fills its packets (data.c:422).      *)
THEOREM PublishesWhole == Spec => [](~ world.timeouts => PublishedWhole)
<1>1. CalmInv => (~ world.timeouts => PublishedWhole)
  BY DEF CalmInv, AllWhole, PublishedWhole, Punctual
<1> QED
  BY <1>1, CalmCorrect, PTL
=============================================================================
