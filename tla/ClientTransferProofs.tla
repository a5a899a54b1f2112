------------------------ MODULE ClientTransferProofs ------------------------
(***************************************************************************)
(* Proofs about ClientTransfer.tla, for any number of requests, and        *)
(* whatever user, network and clock may do.                                *)
(***************************************************************************)
EXTENDS ClientTransfer, FileBlocksProofs

Blocks == Block \cup {Hole}
Request == [kind : {"download", "upload"}, size : FileSizes]

(* What TypeOK leaves open: files and datagrams are of the sizes there     *)
(* are, and a transfer that is active is one that was asked for.           *)
Fits(n) == \E size \in world.sizes : n <= NumBlock(size)
PacketsFit == \A r \in Requests :
                /\ \A k \in DOMAIN todo[r] : Fits(todo[r][k].block.num)
                /\ \A k \in DOMAIN net[r] : Fits(net[r][k].block.num)
Asked == /\ Len(reqs) <= MaxRequests
         /\ \A r \in DOMAIN reqs : reqs[r].size \in world.sizes
         /\ slot.active => slot.file \in DOMAIN reqs

TypeInv == TypeOK /\ PacketsFit /\ Asked

(* The UDP thread finds its socket in the slot, where it is open unless    *)
(* the thread is about to take it out.                                     *)
SlotSocketOpen ==
  slot.sfd # 0 /\ udp.pc \notin {"reset", "fail", "dead"} => slot.sfd \in open
SocketInv == PollsOpenSocket /\ SlotSocketOpen

(* On a good network, with a user who waits: *)
Quiet(r) == todo[r] = <<>> /\ net[r] = <<>>
UdpIdle == udp.pc \in {"wait", "asleep"}
Polled(r) == [Fresh(r) EXCEPT !.sfd = r]

(* A new transfer is only prepared while the UDP thread has none, *)
MenuInv ==
  /\ menu.pc = "socket" => UdpIdle /\ slot = Fresh(menu.req)
  /\ menu.pc = "ask" => udp.pc \notin {"recv", "reset"} /\ slot = Polled(menu.req)
  /\ menu.pc \in {"socket", "ask"} =>
       Quiet(menu.req) /\ reqs[menu.req].kind = "download"
  /\ menu.pc \in {"offer", "open", "send"} => UdpIdle /\ slot.sfd = 0

(* the thread polls the socket in the slot, *)
UdpInv ==
  /\ udp.pc \in {"wait", "asleep", "check", "poll", "recv", "reset"}
  /\ udp.pc \in {"check", "poll", "recv"} => slot.sfd = udp.fds /\ slot.sfd # 0

(* where the datagrams on their way are what the slot does not have yet.   *)
Had == Len(slot.blocks)
Total(r) == NumBlock(reqs[r].size)
NthPacket(r, i) == [block |-> [req |-> r, num |-> i],
                    len |-> BlockLen(reqs[r].size, i), copied |-> FALSE]
Follows(r) ==
  /\ Had + Len(net[r]) + Len(todo[r]) = Total(r)
  /\ \A k \in DOMAIN net[r] : net[r][k] = NthPacket(r, Had + k)
  /\ \A k \in DOMAIN todo[r] : todo[r][k] = NthPacket(r, Had + Len(net[r]) + k)
Downloading(r) ==
  /\ slot.active /\ slot.file = r
  /\ r \in DOMAIN reqs /\ reqs[r].kind = "download"
  /\ slot.blocks = FirstBlocks(r, Had) /\ slot.last = 0
  /\ slot.size = FullLen * Had
  /\ (Had = 0 /\ Quiet(r)) \/ Follows(r)
SlotInv == slot.sfd # 0 /\ udp.pc # "reset" => Downloading(slot.sfd)

Whole(f) == /\ reqs[f.file].kind = "download"
            /\ f.blocks = Content(f.file, reqs[f.file].size)
            /\ f.size = reqs[f.file].size + Beyond(reqs[f.file].size)
SavedInv == /\ \A f \in saved : f.file \in DOMAIN reqs /\ Whole(f)
            /\ \A r \in Requests : r \notin DOMAIN reqs => Quiet(r)
            /\ ~ stray

(* The first two no longer hold once the UDP thread has failed to save a   *)
(* file, but then it saves and closes nothing more.                        *)
Ended == udp.pc \in {"fail", "dead"}
CalmInv == Calm => SavedInv /\ (~ Ended => MenuInv /\ UdpInv /\ SlotInv)

-----------------------------------------------------------------------------
(* What the typing says of the variables *)

LEMMA WorldFacts ==
  ASSUME TypeInv
  PROVE  /\ \A size \in world.sizes : /\ size \in Nat /\ size \in FileSizes
                                      /\ NumBlock(size) \in 0..MaxBlocks
         /\ world.requests \in 0..MaxRequests /\ MaxRequests \in Nat
         /\ Len(reqs) \in Nat /\ DOMAIN reqs = 1..Len(reqs)
         /\ DOMAIN reqs \subseteq Requests
<1>1. world \in Worlds
  BY DEF TypeInv, TypeOK
<1>2. \A size \in world.sizes : /\ size \in Nat /\ size \in FileSizes
                                /\ NumBlock(size) <= MaxBlocks
  BY <1>1, ClientTransferAssumption, SizesAddUp
<1>3. \A size \in world.sizes : NumBlock(size) \in 0..MaxBlocks
  BY <1>2, NumBlockType DEF MaxBlocks
<1>4. Len(reqs) \in Nat /\ DOMAIN reqs = 1..Len(reqs) /\ Len(reqs) <= MaxRequests
  <2>1. reqs \in Seq(Request)
    BY DEF TypeInv, TypeOK, Request
  <2> QED
    BY <2>1, LenProperties DEF TypeInv, Asked
<1> QED
  BY <1>1, <1>2, <1>3, <1>4, ClientTransferAssumption DEF Requests

LEMMA RecordTypes ==
  /\ \A s \in Slot : /\ s.active \in BOOLEAN /\ s.file \in 0..MaxRequests
                     /\ s.sfd \in 0..MaxRequests /\ s.blocks \in Seq(Blocks)
                     /\ s.last \in 0..MaxBlocks /\ s.size \in Nat
  /\ \A p \in Packet : /\ p.block \in Block /\ p.block.req \in Requests
                       /\ p.block.num \in 1..MaxBlocks /\ p.len \in 0..FullLen
BY DEF Slot, Packet, Block, Blocks

LEMMA ClearedType ==
  /\ Cleared \in Slot /\ Cleared.blocks = <<>> /\ ~ Cleared.active
  /\ Cleared.sfd = 0
  /\ \A r \in Requests :
       /\ Fresh(r) \in Slot /\ Fresh(r).blocks = <<>> /\ Fresh(r).file = r
       /\ Fresh(r).active /\ Fresh(r).sfd = 0 /\ Fresh(r).last = 0
       /\ Fresh(r).size = 0
<1>1. <<>> \in Seq(Block \cup {Hole})
  BY EmptySeq
<1>2. 0 \in 0..MaxRequests /\ 0 \in 0..MaxBlocks
  BY ClientTransferAssumption DEF MaxBlocks
<1>3. Cleared \in Slot
  BY <1>1, <1>2 DEF Cleared, Slot
<1>4. ASSUME NEW r \in Requests
      PROVE  Fresh(r) \in Slot
  <2>1. r \in 0..MaxRequests
    BY ClientTransferAssumption DEF Requests
  <2> QED
    BY <1>3, <2>1 DEF Fresh, Slot
<1> QED
  BY <1>3, <1>4 DEF Cleared, Fresh

(* Requests are only added. *)
LEMMA NewRequest ==
  ASSUME TypeInv, NEW q \in Request, reqs' = Append(reqs, q)
  PROVE  /\ reqs' \in Seq(Request) /\ Len(reqs') = Len(reqs) + 1
         /\ DOMAIN reqs' = 1..(Len(reqs) + 1)
         /\ \A r \in DOMAIN reqs : r \in DOMAIN reqs' /\ reqs'[r] = reqs[r]
         /\ reqs'[Len(reqs) + 1] = q
<1>1. reqs \in Seq(Request)
  BY DEF TypeInv, TypeOK, Request
<1> QED
  BY <1>1, AppendProperties, LenProperties

(* A queue of datagrams is replaced. *)
LEMMA QueueTyped ==
  ASSUME NEW f \in [Requests -> Seq(Packet)], NEW r \in Requests,
         NEW q \in Seq(Packet), \A k \in DOMAIN q : Fits(q[k].block.num),
         \A i \in Requests : \A k \in DOMAIN f[i] : Fits(f[i][k].block.num)
  PROVE  /\ [f EXCEPT ![r] = q] \in [Requests -> Seq(Packet)]
         /\ \A i \in Requests : [f EXCEPT ![r] = q][i] = IF i = r THEN q ELSE f[i]
         /\ \A i \in Requests : \A k \in DOMAIN [f EXCEPT ![r] = q][i] :
              Fits([f EXCEPT ![r] = q][i][k].block.num)
<1>1. [f EXCEPT ![r] = q] \in [Requests -> Seq(Packet)]
  OBVIOUS
<1>2. \A i \in Requests : [f EXCEPT ![r] = q][i] = IF i = r THEN q ELSE f[i]
  OBVIOUS
<1>3. ASSUME NEW i \in Requests, NEW k \in DOMAIN [f EXCEPT ![r] = q][i]
      PROVE  Fits([f EXCEPT ![r] = q][i][k].block.num)
  <2>1. CASE i = r
    BY <1>2, <1>3, <2>1
  <2>2. CASE i # r
    BY <1>2, <1>3, <2>2
  <2> QED
    BY <2>1, <2>2
<1> QED
  BY <1>1, <1>2, <1>3

(* One datagram less, and which ones are left. *)
LEMMA TakeOne ==
  ASSUME TypeInv, NEW r \in Requests, NEW k \in DOMAIN net[r]
  PROVE  /\ net[r][k] \in Packet /\ Fits(net[r][k].block.num)
         /\ RemoveAt(net[r], k) \in Seq(Packet)
         /\ \A j \in DOMAIN RemoveAt(net[r], k) :
              Fits(RemoveAt(net[r], k)[j].block.num)
<1>1. net[r] \in Seq(Packet)
  BY DEF TypeInv, TypeOK
<1>2. Len(net[r]) \in Nat /\ DOMAIN net[r] = 1..Len(net[r]) /\ k \in 1..Len(net[r])
  BY <1>1, LenProperties
<1>3. \A j \in DOMAIN net[r] : Fits(net[r][j].block.num)
  BY DEF TypeInv, PacketsFit
<1>4. /\ RemoveAt(net[r], k) \in Seq(Packet)
      /\ DOMAIN RemoveAt(net[r], k) = 1..(Len(net[r]) - 1)
      /\ \A j \in 1..(Len(net[r]) - 1) :
           RemoveAt(net[r], k)[j] = IF j < k THEN net[r][j] ELSE net[r][j + 1]
  BY <1>1, RemoveAtFacts
<1>5. ASSUME NEW j \in 1..(Len(net[r]) - 1)
      PROVE  Fits(RemoveAt(net[r], k)[j].block.num)
  <2>1. j \in DOMAIN net[r] /\ j + 1 \in DOMAIN net[r]
    BY <1>2
  <2> QED
    BY <1>3, <1>4, <2>1
<1> QED
  BY <1>1, <1>3, <1>4, <1>5, ElementOfSeq, <1>2

LEMMA StoredType ==
  ASSUME TypeInv, NEW p \in Packet, Fits(p.block.num)
  PROVE  LET s == Stored(p)
         IN  /\ s \in Slot
             /\ s.blocks # <<>> => Fits(Len(s.blocks))
             /\ s.active = slot.active /\ s.file = slot.file /\ s.sfd = slot.sfd
             /\ slot.active =>
                  /\ s.blocks = SetBlock(slot.blocks, p.block.num, p.block)
                  /\ s.last = LastPacket(slot, p)
                  /\ s.size = slot.size + p.len
<1> DEFINE c == slot.blocks
           n == p.block.num
           e == p.block
           l == LastPacket(slot, p)
           b == SetBlock(c, n, e)
<1>1. slot \in Slot /\ c \in Seq(Blocks) /\ slot.last \in 0..MaxBlocks
      /\ slot.size \in Nat
  BY RecordTypes DEF TypeInv, TypeOK
<1>2. /\ e \in Blocks /\ Hole \in Blocks /\ n \in 1..MaxBlocks /\ p.len \in 0..FullLen
  BY RecordTypes DEF Blocks
<1>3. b \in Seq(Blocks) /\ Len(b) = IF n > Len(c) THEN n ELSE Len(c)
  <2>1. n \in Nat
    BY <1>2 DEF MaxBlocks
  <2> HIDE DEF c, n, e
  <2> QED
    BY <1>1, <1>2, <2>1, SetBlockType
<1>4. Fits(Len(b))
  <2>1. CASE n > Len(c)
    BY <1>3, <2>1
  <2>2. CASE ~ (n > Len(c))
    <3>1. c # <<>>
      BY <1>2, <2>2, EmptySeq DEF MaxBlocks
    <3> QED
      BY <1>3, <2>2, <3>1 DEF TypeInv, TypeOK, Fits
  <2> QED
    BY <2>1, <2>2
<1>5. l \in 0..MaxBlocks /\ slot.size + p.len \in Nat
  BY <1>1, <1>2 DEF LastPacket, MaxBlocks, FullLen
<1>6. CASE ~ slot.active
  <2>1. Stored(p) = slot
    BY <1>6 DEF Stored
  <2> QED
    BY <1>1, <1>6, <2>1 DEF TypeInv, TypeOK, Fits
<1>7. CASE slot.active
  <2>1. Stored(p) = [slot EXCEPT !.last = l, !.blocks = b, !.size = slot.size + p.len]
    BY <1>7 DEF Stored, BlockIndex
  <2> HIDE DEF b, l
  <2>2. /\ Stored(p) \in Slot
        /\ Stored(p).active = slot.active /\ Stored(p).file = slot.file
        /\ Stored(p).sfd = slot.sfd /\ Stored(p).blocks = b
        /\ Stored(p).last = l /\ Stored(p).size = slot.size + p.len
    BY <1>1, <1>3, <1>5, <2>1 DEF Slot, Blocks
  <2> QED
    BY <1>4, <2>2 DEF b, l
<1> QED
  BY <1>6, <1>7

-----------------------------------------------------------------------------
(* Type correctness *)

LEMMA InitTypeInv == Init => TypeInv
<1> SUFFICES ASSUME Init
             PROVE  TypeInv
  OBVIOUS
<1>1. reqs \in Seq(Request) /\ Len(reqs) = 0 /\ DOMAIN reqs = {}
  BY EmptySeq DEF Init
<1>2. slot \in Slot /\ slot.blocks = <<>> /\ ~ slot.active
  BY ClearedType DEF Init
<1>3. /\ todo \in [Requests -> Seq(Packet)] /\ net \in [Requests -> Seq(Packet)]
      /\ \A r \in Requests : DOMAIN todo[r] = {} /\ DOMAIN net[r] = {}
  BY EmptySeq DEF Init
<1>4. /\ world \in Worlds /\ menu = [pc |-> "idle"]
      /\ udp = [pc |-> "wait", fds |-> 0]
      /\ open \subseteq Requests /\ stray \in BOOLEAN /\ saved \in SUBSET File
  BY DEF Init
<1>5. 0 \in 0..MaxRequests
  BY ClientTransferAssumption
<1>6. TypeOK
  BY <1>1, <1>2, <1>3, <1>4, <1>5 DEF TypeOK, Request
<1>7. PacketsFit /\ Asked
  BY <1>1, <1>2, <1>3, <1>4, <1>5 DEF PacketsFit, Asked
<1> QED
  BY <1>6, <1>7 DEF TypeInv

(* The slot alone changes, for one that is typed. *)
LEMMA SlotTyped ==
  ASSUME TypeInv, UNCHANGED <<world, reqs>>, slot' \in Slot,
         slot'.blocks # <<>> => Fits(Len(slot'.blocks)),
         slot'.active => slot'.file \in DOMAIN reqs
  PROVE  /\ slot'.blocks # <<>> =>
              \E size \in world'.sizes : Len(slot'.blocks) <= NumBlock(size)
         /\ Asked'
BY DEF TypeInv, Asked, Fits

LEMMA AskTypeInv ==
  ASSUME TypeInv, User
  PROVE  TypeInv'
<1>1. PICK size \in world.sizes, kind \in {"download", "upload"} :
        /\ Ready /\ NewTransfer(kind, size)
        /\ menu' \in [pc : {"socket", "offer"}, req : {NextRequest}]
  BY DEF User, AskDownload, AskUpload
<1>2. /\ reqs' \in Seq(Request) /\ Len(reqs') = Len(reqs) + 1
      /\ DOMAIN reqs' = 1..(Len(reqs) + 1)
      /\ \A r \in DOMAIN reqs : reqs'[r] = reqs[r]
      /\ reqs'[Len(reqs) + 1] = [kind |-> kind, size |-> size]
  <2>1. [kind |-> kind, size |-> size] \in Request
    BY WorldFacts DEF Request
  <2>2. reqs' = Append(reqs, [kind |-> kind, size |-> size])
    BY <1>1 DEF NewTransfer
  <2> QED
    BY <2>1, <2>2, NewRequest
<1>3. NextRequest \in Requests /\ NextRequest \in DOMAIN reqs' /\ Len(reqs') <= MaxRequests
  BY <1>1, <1>2, WorldFacts DEF Ready, NextRequest, Requests
<1>4. UNCHANGED <<world, udp, todo, net, open, stray, saved>>
      /\ slot' = Fresh(NextRequest)
  BY <1>1 DEF NewTransfer
<1>5. slot' \in Slot /\ slot'.blocks = <<>> /\ slot'.file = NextRequest
  BY <1>3, <1>4, ClearedType
<1>6. PacketsFit'
  BY <1>4 DEF TypeInv, PacketsFit, Fits
<1>7. Asked'
  <2>1. \A r \in DOMAIN reqs' : reqs'[r].size \in world.sizes
    <3> SUFFICES ASSUME NEW r \in DOMAIN reqs'
                 PROVE  reqs'[r].size \in world.sizes
      OBVIOUS
    <3>1. r \in DOMAIN reqs \/ r = Len(reqs) + 1
      BY <1>2, WorldFacts
    <3> QED
      BY <1>2, <3>1 DEF TypeInv, Asked
  <2> QED
    BY <1>3, <1>4, <1>5, <2>1 DEF Asked
<1>8. menu' \in [pc : {"socket", "ask", "offer", "signal", "open", "send"},
                 req : DOMAIN reqs']
  BY <1>1, <1>3
<1> QED
  BY <1>2, <1>4, <1>5, <1>6, <1>7, <1>8 DEF TypeInv, TypeOK, Request

LEMMA MenuThread ==
  ASSUME TypeInv
  PROVE  /\ menu.pc \in {"socket", "ask", "offer", "signal", "open", "send"} =>
              menu.req \in DOMAIN reqs /\ menu = [pc |-> menu.pc, req |-> menu.req]
         /\ udp.fds \in 0..MaxRequests /\ udp = [pc |-> udp.pc, fds |-> udp.fds]
BY DEF TypeInv, TypeOK

(* Nothing but the menu's own place, the packets to be sent or the slot.   *)
LEMMA MenuTypeInv ==
  ASSUME TypeInv, Server \/ MenuStep
  PROVE  TypeInv'
<1>1. UNCHANGED <<world, reqs, net, saved>>
  BY DEF Server, Accept, Refuse, LoseServer, MenuStep, SetAddress, Signal,
         OpenUpload, FinishUpload, UploadFails, netVars, fileVars
<1>2. menu' \in {[pc |-> "idle"], [pc |-> "dead"]}
               \cup [pc : {"socket", "ask", "offer", "signal", "open", "send"},
                     req : DOMAIN reqs']
  <2>1. CASE menu' \in {[pc |-> "idle"], [pc |-> "dead"]}
    BY <2>1
  <2>2. ASSUME NEW l \in {"ask", "signal", "open", "send"},
               menu' = [menu EXCEPT !.pc = l],
               menu.pc \in {"socket", "ask", "offer", "open"}
        PROVE  menu' \in [pc : {"socket", "ask", "offer", "signal", "open", "send"},
                          req : DOMAIN reqs']
    BY <1>1, <2>2, MenuThread
  <2> QED
    BY <2>1, <2>2 DEF Server, Accept, Refuse, LoseServer, MenuStep, SetAddress,
                      Signal, OpenUpload, FinishUpload, UploadFails
<1>3. udp' \in [pc : {"wait", "asleep", "check", "poll", "recv", "reset",
                      "fail", "dead"}, fds : 0..MaxRequests]
  <2>1. udp' = udp \/ udp' = Awakened
    BY DEF Server, Accept, Refuse, LoseServer, MenuStep, SetAddress, Signal,
           OpenUpload, FinishUpload, UploadFails, netVars, fileVars
  <2> QED
    BY <2>1 DEF TypeInv, TypeOK, Awakened
<1>4. /\ slot' \in Slot
      /\ slot'.blocks # <<>> => Fits(Len(slot'.blocks))
      /\ slot'.active => slot'.file \in DOMAIN reqs
  <2>1. CASE slot' = slot
    BY <2>1 DEF TypeInv, TypeOK, Asked, Fits
  <2>2. CASE SetAddress /\ slot' = [slot EXCEPT !.sfd = menu.req]
    <3>1. menu.req \in 0..MaxRequests
      <4>1. menu.req \in DOMAIN reqs
        BY <2>2, MenuThread DEF SetAddress
      <4> QED
        BY <4>1, WorldFacts DEF Requests
    <3>2. slot \in Slot
      BY DEF TypeInv, TypeOK
    <3>3. /\ slot' \in Slot /\ slot'.blocks = slot.blocks
          /\ slot'.active = slot.active /\ slot'.file = slot.file
      BY <2>2, <3>1, <3>2 DEF Slot
    <3> QED
      BY <3>3 DEF TypeInv, TypeOK, Asked, Fits
  <2>3. CASE slot' = Cleared
    BY <2>3, ClearedType
  <2> QED
    BY <2>1, <2>2, <2>3
       DEF Server, Accept, Refuse, LoseServer, MenuStep, SetAddress, Signal,
           OpenUpload, FinishUpload, UploadFails, netVars, fileVars
<1>5. open' \subseteq Requests /\ stray' \in BOOLEAN
  <2>1. CASE SetAddress
    <3>1. menu.req \in Requests
      BY <2>1, MenuThread, WorldFacts DEF SetAddress
    <3> QED
      BY <2>1, <3>1 DEF SetAddress, TypeInv, TypeOK
  <2>2. CASE ~ SetAddress
    BY <2>2 DEF Server, Accept, Refuse, LoseServer, MenuStep, Signal,
                OpenUpload, FinishUpload, UploadFails, fileVars, TypeInv, TypeOK
  <2> QED
    BY <2>1, <2>2
<1>6. /\ todo' \in [Requests -> Seq(Packet)]
      /\ \A r \in Requests : \A k \in DOMAIN todo'[r] : Fits(todo'[r][k].block.num)
  <2>1. CASE Accept /\ menu.pc = "ask"
    <3>1. PICK r \in DOMAIN reqs : r = menu.req
      BY <2>1, MenuThread
    <3>2. PICK size \in world.sizes : size = reqs[r].size
      BY DEF TypeInv, Asked
    <3>3. r \in Requests /\ size \in Nat /\ NumBlock(size) \in 0..MaxBlocks
      BY WorldFacts
    <3>4. \A i \in 1..NumBlock(size) :
            [block |-> [req |-> r, num |-> i], len |-> BlockLen(size, i),
             copied |-> FALSE] \in Packet
      <4> SUFFICES ASSUME NEW i \in 1..NumBlock(size)
                   PROVE  [block |-> [req |-> r, num |-> i],
                           len |-> BlockLen(size, i), copied |-> FALSE] \in Packet
        OBVIOUS
      <4>1. i \in 1..MaxBlocks /\ i \in Nat
        BY <3>3 DEF MaxBlocks
      <4>2. BlockLen(size, i) \in 0..FullLen
        BY <3>3, <4>1, BlockLenFacts
      <4> QED
        BY <3>3, <4>1, <4>2 DEF Packet, Block
    <3>5. /\ Packets(r, size) \in Seq(Packet)
          /\ DOMAIN Packets(r, size) = 1..NumBlock(size)
          /\ \A i \in 1..NumBlock(size) : Packets(r, size)[i] =
               [block |-> [req |-> r, num |-> i], len |-> BlockLen(size, i),
                copied |-> FALSE]
      BY <3>3, <3>4, PacketsFacts
    <3>6. \A k \in DOMAIN Packets(r, size) : Fits(Packets(r, size)[k].block.num)
      <4> SUFFICES ASSUME NEW k \in 1..NumBlock(size)
                   PROVE  Fits(Packets(r, size)[k].block.num)
        BY <3>5
      <4>1. Packets(r, size)[k].block.num = k /\ k <= NumBlock(size)
        BY <3>3, <3>5
      <4> QED
        BY <4>1 DEF Fits
    <3>7. todo' = [todo EXCEPT ![r] = Packets(r, size)]
      BY <2>1, <3>1, <3>2 DEF Accept
    <3>8. /\ todo \in [Requests -> Seq(Packet)]
          /\ \A i \in Requests : \A k \in DOMAIN todo[i] : Fits(todo[i][k].block.num)
      BY DEF TypeInv, TypeOK, PacketsFit
    <3> QED
      BY <3>3, <3>5, <3>6, <3>7, <3>8, QueueTyped
  <2>2. CASE todo' = todo
    BY <2>2 DEF TypeInv, TypeOK, PacketsFit
  <2> QED
    BY <2>1, <2>2
       DEF Server, Accept, Refuse, LoseServer, MenuStep, SetAddress, Signal,
           OpenUpload, FinishUpload, UploadFails, netVars, fileVars
<1>7. PacketsFit'
  BY <1>1, <1>6 DEF TypeInv, PacketsFit, Fits
<1>8. Asked' /\ (slot'.blocks # <<>> =>
                   \E size \in world'.sizes : Len(slot'.blocks) <= NumBlock(size))
  BY <1>1, <1>4, SlotTyped
<1> QED
  BY <1>1, <1>2, <1>3, <1>4, <1>5, <1>6, <1>7, <1>8 DEF TypeInv, TypeOK

LEMMA NetworkTypeInv ==
  ASSUME TypeInv, Network
  PROVE  TypeInv'
<1>1. UNCHANGED <<world, reqs, menu, udp, slot, open, stray, saved>>
  BY DEF Network, ServerSends, Lose, fileVars
<1>2. /\ todo \in [Requests -> Seq(Packet)] /\ net \in [Requests -> Seq(Packet)]
      /\ \A r \in Requests :
           /\ \A k \in DOMAIN todo[r] : Fits(todo[r][k].block.num)
           /\ \A k \in DOMAIN net[r] : Fits(net[r][k].block.num)
  BY DEF TypeInv, TypeOK, PacketsFit
<1>3. /\ todo' \in [Requests -> Seq(Packet)] /\ net' \in [Requests -> Seq(Packet)]
      /\ \A r \in Requests :
           /\ \A k \in DOMAIN todo'[r] : Fits(todo'[r][k].block.num)
           /\ \A k \in DOMAIN net'[r] : Fits(net'[r][k].block.num)
  <2>1. ASSUME NEW r \in Requests, ServerSends(r)
        PROVE  /\ todo' \in [Requests -> Seq(Packet)]
               /\ net' \in [Requests -> Seq(Packet)]
               /\ \A i \in Requests :
                    /\ \A k \in DOMAIN todo'[i] : Fits(todo'[i][k].block.num)
                    /\ \A k \in DOMAIN net'[i] : Fits(net'[i][k].block.num)
    <3> DEFINE q == todo[r]
               a == Append(net[r], Head(q))
    <3>1. q \in Seq(Packet) /\ q # <<>> /\ net[r] \in Seq(Packet)
      BY <1>2, <2>1 DEF ServerSends
    <3>2. /\ Len(q) \in Nat /\ DOMAIN q = 1..Len(q) /\ Len(q) >= 1
          /\ Head(q) = q[1] /\ q[1] \in Packet
      BY <3>1, LenProperties, EmptySeq, ElementOfSeq
    <3>3. /\ Tail(q) \in Seq(Packet) /\ DOMAIN Tail(q) = 1..(Len(q) - 1)
          /\ \A k \in 1..(Len(q) - 1) : Tail(q)[k] = q[k + 1]
      BY <3>1, HeadTailProperties, LenProperties
    <3>4. \A k \in DOMAIN Tail(q) : Fits(Tail(q)[k].block.num)
      <4> SUFFICES ASSUME NEW k \in 1..(Len(q) - 1)
                   PROVE  Fits(Tail(q)[k].block.num)
        BY <3>3
      <4>1. k + 1 \in DOMAIN q
        BY <3>2
      <4> QED
        BY <1>2, <3>3, <4>1
    <3>5. /\ a \in Seq(Packet) /\ DOMAIN a = 1..(Len(net[r]) + 1)
          /\ \A k \in 1..Len(net[r]) : a[k] = net[r][k]
          /\ a[Len(net[r]) + 1] = q[1]
          /\ Len(net[r]) \in Nat /\ DOMAIN net[r] = 1..Len(net[r])
      BY <3>1, <3>2, AppendProperties, LenProperties
    <3>6. \A k \in DOMAIN a : Fits(a[k].block.num)
      <4> SUFFICES ASSUME NEW k \in DOMAIN a
                   PROVE  Fits(a[k].block.num)
        OBVIOUS
      <4>1. k \in DOMAIN net[r] \/ k = Len(net[r]) + 1
        BY <3>5
      <4>2. 1 \in DOMAIN q
        BY <3>2
      <4> QED
        BY <1>2, <3>5, <4>1, <4>2
    <3>7. todo' = [todo EXCEPT ![r] = Tail(q)] /\ net' = [net EXCEPT ![r] = a]
      BY <2>1 DEF ServerSends
    <3> HIDE DEF q, a
    <3>8. /\ [todo EXCEPT ![r] = Tail(q)] \in [Requests -> Seq(Packet)]
          /\ \A i \in Requests : \A k \in DOMAIN [todo EXCEPT ![r] = Tail(q)][i] :
               Fits([todo EXCEPT ![r] = Tail(q)][i][k].block.num)
      BY <1>2, <3>3, <3>4, QueueTyped
    <3>9. /\ [net EXCEPT ![r] = a] \in [Requests -> Seq(Packet)]
          /\ \A i \in Requests : \A k \in DOMAIN [net EXCEPT ![r] = a][i] :
               Fits([net EXCEPT ![r] = a][i][k].block.num)
      BY <1>2, <3>5, <3>6, QueueTyped
    <3> QED
      BY <3>7, <3>8, <3>9
  <2>2. ASSUME NEW r \in Requests, NEW k \in DOMAIN net[r], Lose(r, k)
        PROVE  /\ todo' = todo /\ net' \in [Requests -> Seq(Packet)]
               /\ \A i \in Requests :
                    \A j \in DOMAIN net'[i] : Fits(net'[i][j].block.num)
    <3>1. PICK q : q = RemoveAt(net[r], k)
      OBVIOUS
    <3>2. q \in Seq(Packet) /\ \A j \in DOMAIN q : Fits(q[j].block.num)
      BY <3>1, TakeOne
    <3>3. todo' = todo /\ net' = [net EXCEPT ![r] = q]
      BY <2>2, <3>1 DEF Lose
    <3> QED
      BY <1>2, <3>2, <3>3, QueueTyped
  <2> QED
    BY <1>2, <2>1, <2>2 DEF Network
<1>4. PacketsFit'
  BY <1>1, <1>3 DEF PacketsFit, Fits
<1> QED
  BY <1>1, <1>3, <1>4 DEF TypeInv, TypeOK, Asked

(* What the UDP thread takes in, and what it makes of the slot. *)
LEMMA ReceiveTypeInv ==
  ASSUME TypeInv, NEW r \in Requests, NEW k \in DOMAIN net[r], r = udp.fds,
         AddPacket(k) \/ SaveFile(k) \/ SaveFails(k)
  PROVE  TypeInv'
<1>1. PICK p : p = net[r][k]
  OBVIOUS
<1>2. PICK s : s = Stored(p)
  OBVIOUS
<1>3. p \in Packet /\ Fits(p.block.num)
  BY <1>1, TakeOne
<1>4. /\ s \in Slot /\ (s.blocks # <<>> => Fits(Len(s.blocks)))
      /\ s.active = slot.active /\ s.file = slot.file
  BY <1>2, <1>3, StoredType
<1>5. net' = [net EXCEPT ![r] = RemoveAt(net[r], k)]
      /\ UNCHANGED <<world, reqs, todo, menu>>
  BY DEF AddPacket, SaveFile, SaveFails, Take
<1>6. slot' \in {s, Cleared}
  BY <1>1, <1>2 DEF AddPacket, SaveFile, SaveFails
<1>7. /\ slot' \in Slot /\ Asked'
      /\ slot'.blocks # <<>> =>
           \E size \in world'.sizes : Len(slot'.blocks) <= NumBlock(size)
  <2>1. slot' \in Slot /\ (slot'.blocks # <<>> => Fits(Len(slot'.blocks)))
        /\ (slot'.active => slot'.file \in DOMAIN reqs)
    BY <1>4, <1>6, ClearedType DEF TypeInv, Asked
  <2> QED
    BY <1>5, <2>1, SlotTyped
<1>8. /\ net' \in [Requests -> Seq(Packet)] /\ PacketsFit'
  <2>1. PICK q : q = RemoveAt(net[r], k)
    OBVIOUS
  <2>2. q \in Seq(Packet) /\ \A j \in DOMAIN q : Fits(q[j].block.num)
    BY <2>1, TakeOne
  <2>3. /\ net \in [Requests -> Seq(Packet)]
        /\ \A i \in Requests : \A j \in DOMAIN net[i] : Fits(net[i][j].block.num)
    BY DEF TypeInv, TypeOK, PacketsFit
  <2>4. /\ net' \in [Requests -> Seq(Packet)]
        /\ \A i \in Requests : \A j \in DOMAIN net'[i] : Fits(net'[i][j].block.num)
    BY <1>5, <2>1, <2>2, <2>3, QueueTyped
  <2> QED
    BY <1>5, <2>4 DEF TypeInv, PacketsFit, Fits
<1>9. udp' \in {udp, Goto("reset"), Goto("fail")}
  BY DEF AddPacket, SaveFile, SaveFails
<1>10. udp' \in [pc : {"wait", "asleep", "check", "poll", "recv", "reset",
                       "fail", "dead"}, fds : 0..MaxRequests]
  BY <1>9 DEF TypeInv, TypeOK, Goto
<1>11. open' \subseteq Requests /\ stray' \in BOOLEAN
  BY DEF AddPacket, SaveFile, SaveFails, Close, TypeInv, TypeOK
<1>12. saved' \in SUBSET File
  <2>1. CASE SaveFile(k)
    <3>1. saved' = saved \cup {[file |-> s.file, blocks |-> s.blocks, size |-> s.size]}
          /\ s.active
      BY <1>1, <1>2, <2>1 DEF SaveFile, Full
    <3>2. s.file \in Requests
      BY <1>4, <3>1, WorldFacts DEF TypeInv, Asked
    <3>3. s.blocks \in Seq(Block \cup {Hole}) /\ s.size \in Nat
      BY <1>4, RecordTypes DEF Blocks
    <3>4. [file |-> s.file, blocks |-> s.blocks, size |-> s.size] \in File
      BY <3>2, <3>3 DEF File
    <3>5. saved \subseteq File
      BY DEF TypeInv, TypeOK
    <3> QED
      BY <3>1, <3>4, <3>5
  <2>2. CASE saved' = saved
    BY <2>2 DEF TypeInv, TypeOK
  <2> QED
    BY <2>1, <2>2 DEF AddPacket, SaveFails
<1> QED
  BY <1>5, <1>7, <1>8, <1>10, <1>11, <1>12 DEF TypeInv, TypeOK

(* The other steps of the UDP thread. *)
LEMMA UdpTypeInv ==
  ASSUME TypeInv, \/ Wait \/ CheckTimeout \/ CheckPasses \/ Poll \/ PollTimeout
                  \/ RecvNothing \/ Reset \/ Wake
  PROVE  TypeInv'
<1>1. UNCHANGED <<world, reqs, todo, net, menu, saved>>
  BY DEF Wait, CheckTimeout, CheckPasses, Poll, PollTimeout, RecvNothing, Reset,
         Wake, netVars, fileVars
<1>2. slot \in Slot /\ slot.sfd \in 0..MaxRequests
  BY RecordTypes DEF TypeInv, TypeOK
<1>3. udp' \in [pc : {"wait", "asleep", "check", "poll", "recv", "reset",
                      "fail", "dead"}, fds : 0..MaxRequests]
  <2>1. \/ \E l \in {"wait", "asleep", "check", "poll", "recv", "reset", "fail",
                     "dead"} : udp' = Goto(l)
        \/ udp' = [pc |-> "check", fds |-> slot.sfd]
    BY DEF Wait, CheckTimeout, CheckPasses, Poll, PollTimeout, RecvNothing, Reset,
           Wake, AfterSilence
  <2> QED
    BY <1>2, <2>1 DEF TypeInv, TypeOK, Goto
<1>4. /\ slot' \in Slot
      /\ slot'.blocks # <<>> => Fits(Len(slot'.blocks))
      /\ slot'.active => slot'.file \in DOMAIN reqs
  <2>1. CASE slot' = slot
    BY <2>1 DEF TypeInv, TypeOK, Asked, Fits
  <2>2. CASE slot' = Cleared
    BY <2>2, ClearedType
  <2>3. CASE slot' = [slot EXCEPT !.sfd = 0]
    <3>1. /\ slot' \in Slot /\ slot'.blocks = slot.blocks
          /\ slot'.active = slot.active /\ slot'.file = slot.file
      BY <1>2, <2>3, ClientTransferAssumption DEF Slot
    <3> QED
      BY <3>1 DEF TypeInv, TypeOK, Asked, Fits
  <2> QED
    BY <2>1, <2>2, <2>3
       DEF Wait, CheckTimeout, CheckPasses, Poll, PollTimeout, RecvNothing, Reset,
           Wake, fileVars
<1>5. Asked' /\ (slot'.blocks # <<>> =>
                   \E size \in world'.sizes : Len(slot'.blocks) <= NumBlock(size))
  BY <1>1, <1>4, SlotTyped
<1>6. open' \subseteq Requests /\ stray' \in BOOLEAN
  BY DEF Wait, CheckTimeout, CheckPasses, Poll, PollTimeout, RecvNothing, Reset,
         Wake, fileVars, Close, TypeInv, TypeOK
<1>7. PacketsFit'
  BY <1>1 DEF TypeInv, PacketsFit, Fits
<1> QED
  BY <1>1, <1>3, <1>4, <1>5, <1>6, <1>7 DEF TypeInv, TypeOK

THEOREM TypeCorrect == Spec => []TypeInv
<1>1. TypeInv /\ UNCHANGED vars => TypeInv'
  BY DEF vars, TypeInv, TypeOK, PacketsFit, Fits, Asked
<1>2. TypeInv /\ [Next]_vars => TypeInv'
  <2> SUFFICES ASSUME TypeInv, Next
               PROVE  TypeInv'
    BY <1>1
  <2>1. CASE UdpStep
    BY <2>1, UdpTypeInv, ReceiveTypeInv DEF UdpStep
  <2> QED
    BY <2>1, AskTypeInv, MenuTypeInv, UdpTypeInv, NetworkTypeInv DEF Next
<1> QED
  BY InitTypeInv, <1>2, PTL DEF Spec

(* TypeOK of ClientTransfer.tla: what is received stays within the blocks  *)
(* of the largest file (data.c:110-123).                                   *)
THEOREM TypeSafety == Spec => []TypeOK
BY TypeCorrect, PTL DEF TypeInv

-----------------------------------------------------------------------------
(* The socket that is polled *)

(* Whoever closes the socket in the slot takes it out, or is about to.     *)
THEOREM SocketsOpen == Spec => []SocketInv
<1>1. Init => SocketInv
  BY DEF Init, SocketInv, PollsOpenSocket, SlotSocketOpen, Cleared
<1>2. TypeInv /\ SocketInv /\ [Next]_vars => SocketInv'
  <2> SUFFICES ASSUME TypeInv, SocketInv, [Next]_vars
               PROVE  SocketInv'
    OBVIOUS
  <2> USE DEF SocketInv, PollsOpenSocket, SlotSocketOpen
  <2>1. Cleared.sfd = 0 /\ \A r : Fresh(r).sfd = 0
    BY DEF Cleared, Fresh
  <2>2. \A l : Goto(l).pc = l /\ Goto(l).fds = udp.fds
    BY MenuThread DEF Goto
  <2>3. CASE User
    BY <2>1, <2>3 DEF User, AskDownload, AskUpload, NewTransfer
  <2>4. CASE SetAddress
    <3>1. slot' = slot \/ slot'.sfd = menu.req
      BY <2>4 DEF SetAddress, TypeInv, TypeOK, Slot
    <3> QED
      BY <2>4, <3>1 DEF SetAddress
  <2>5. CASE Server \/ Signal \/ OpenUpload \/ FinishUpload
             \/ UploadFails
    <3>1. UNCHANGED open /\ (slot' = slot \/ slot' = Cleared)
      BY <2>5 DEF Server, Accept, Refuse, LoseServer, Signal, OpenUpload,
                  FinishUpload, UploadFails, fileVars
    <3>2. \/ udp' = udp
          \/ udp.pc = "asleep" /\ udp'.pc = "wait"
      BY <2>5, MenuThread DEF Server, Accept, Refuse, LoseServer, Signal, OpenUpload,
                  FinishUpload, UploadFails, netVars, fileVars, Awakened
    <3> QED
      BY <2>1, <3>1, <3>2
  <2>6. CASE Wait
    BY <2>2, <2>6 DEF Wait, fileVars
  <2>7. CASE CheckTimeout
    BY <2>1, <2>2, <2>7 DEF CheckTimeout
  <2>8. CASE CheckPasses \/ Poll \/ RecvNothing \/ Wake
    BY <2>2, <2>8 DEF CheckPasses, Poll, RecvNothing, Wake, fileVars
  <2>9. CASE PollTimeout
    BY <2>2, <2>9 DEF PollTimeout, AfterSilence
  <2>10. CASE Reset
    <3>1. slot'.sfd = 0
      BY <2>10 DEF Reset, TypeInv, TypeOK, Slot
    <3>2. udp'.pc \in {"wait", "dead"}
      BY <2>2, <2>10 DEF Reset
    <3> QED
      BY <3>1, <3>2
  <2>11. ASSUME NEW r \in Requests, NEW k \in DOMAIN net[r], r = udp.fds,
                AddPacket(k) \/ SaveFile(k) \/ SaveFails(k)
         PROVE  SocketInv'
    <3>1. PICK s : s = Stored(net[r][k])
      OBVIOUS
    <3>2. s.sfd = slot.sfd
      BY <3>1, TakeOne, StoredType
    <3>3. CASE AddPacket(k)
      BY <2>11, <3>1, <3>2, <3>3 DEF AddPacket
    <3>4. CASE SaveFile(k) \/ SaveFails(k)
      BY <2>1, <2>2, <3>4 DEF SaveFile, SaveFails
    <3> QED
      BY <2>11, <3>3, <3>4
  <2>12. CASE Network \/ UNCHANGED vars
    BY <2>12 DEF Network, ServerSends, Lose, fileVars, vars
  <2> QED
    BY <2>3, <2>4, <2>5, <2>6, <2>7, <2>8, <2>9, <2>10, <2>11, <2>12
       DEF Next, MenuStep, UdpStep
<1> QED
  BY <1>1, <1>2, TypeCorrect, PTL DEF Spec

(* However the slot is taken over meanwhile, the UDP thread never polls a  *)
(* socket that was closed (udp_client.c:47-88).                            *)
THEOREM NeverPollsClosed == Spec => []PollsOpenSocket
BY SocketsOpen, PTL DEF SocketInv

-----------------------------------------------------------------------------
(* A good network, and a user who waits *)

LEMMA InitCalmInv == Init => CalmInv
<1> SUFFICES ASSUME Init
             PROVE  MenuInv /\ UdpInv /\ SlotInv /\ SavedInv
  BY DEF CalmInv
<1>1. slot.sfd = 0 /\ menu.pc = "idle" /\ udp.pc = "wait"
  BY DEF Init, Cleared
<1>2. SavedInv
  BY DEF Init, SavedInv, Quiet
<1> QED
  BY <1>1, <1>2 DEF MenuInv, UdpInv, SlotInv

(* Whatever has been saved stays whole. *)
LEMMA SavedKept ==
  ASSUME SavedInv, saved' = saved, stray' = stray,
         \A r \in DOMAIN reqs : r \in DOMAIN reqs' /\ reqs'[r] = reqs[r],
         \A r \in Requests : r \notin DOMAIN reqs' => Quiet(r)'
  PROVE  SavedInv'
<1>1. ASSUME NEW f \in saved
      PROVE  f.file \in DOMAIN reqs' /\ Whole(f)'
  BY <1>1 DEF SavedInv, Whole
<1> QED
  BY <1>1 DEF SavedInv

(* A slot that keeps its contents, with datagrams that stay where they are. *)
LEMMA DownloadingKept ==
  ASSUME NEW r, Downloading(r),
         slot' = slot, todo'[r] = todo[r], net'[r] = net[r], reqs' = reqs
  PROVE  Downloading(r)'
<1>1. Had' = Had /\ Total(r)' = Total(r)
  BY DEF Had, Total
<1>2. Quiet(r) => Quiet(r)'
  BY DEF Quiet
<1>3. Follows(r) => Follows(r)'
  BY <1>1 DEF Follows, NthPacket
<1> QED
  BY <1>1, <1>2, <1>3 DEF Downloading

LEMMA AskCalmInv ==
  ASSUME TypeInv, CalmInv, Calm, ~ Ended, User
  PROVE  CalmInv'
<1>1. PICK n : n = NextRequest
  OBVIOUS
<1>2. PICK size \in world.sizes, kind \in {"download", "upload"} :
        /\ Ready /\ NewTransfer(kind, size)
        /\ \/ kind = "download" /\ menu' = [pc |-> "socket", req |-> n]
           \/ menu' = [pc |-> "offer", req |-> n]
  BY <1>1 DEF User, AskDownload, AskUpload
<1>3. udp.pc = "asleep" /\ n \in Requests /\ n \notin DOMAIN reqs
  BY <1>1, <1>2, WorldFacts DEF Ready, Calm, Ended, NextRequest, Requests
<1>4. /\ UNCHANGED <<world, udp, todo, net, open, stray, saved>>
      /\ slot' = Fresh(n)
  BY <1>1, <1>2 DEF NewTransfer
<1>5. /\ DOMAIN reqs' = 1..(Len(reqs) + 1)
      /\ \A r \in DOMAIN reqs : r \in DOMAIN reqs' /\ reqs'[r] = reqs[r]
      /\ reqs'[n] = [kind |-> kind, size |-> size]
  <2>1. [kind |-> kind, size |-> size] \in Request
    BY WorldFacts DEF Request
  <2>2. reqs' = Append(reqs, [kind |-> kind, size |-> size])
    BY <1>2 DEF NewTransfer
  <2> QED
    BY <1>1, <2>1, <2>2, NewRequest DEF NextRequest
<1>6. slot'.sfd = 0
  BY <1>3, <1>4, ClearedType
<1>7. Quiet(n)'
  <2>1. Quiet(n)
    BY <1>3 DEF CalmInv, SavedInv
  <2> QED
    BY <1>4, <2>1 DEF Quiet
<1>8. MenuInv'
  <2>1. UdpIdle'
    BY <1>3, <1>4 DEF UdpIdle
  <2>2. CASE kind = "download" /\ menu' = [pc |-> "socket", req |-> n]
    <3>1. menu'.pc = "socket" /\ menu'.req = n /\ reqs'[n].kind = "download"
      BY <1>5, <2>2
    <3> QED
      BY <1>4, <1>7, <2>1, <3>1 DEF MenuInv, Fresh, Cleared, Quiet
  <2>3. CASE menu' = [pc |-> "offer", req |-> n]
    BY <1>6, <2>1, <2>3 DEF MenuInv
  <2> QED
    BY <1>2, <2>2, <2>3
<1>9. UdpInv' /\ SlotInv'
  BY <1>3, <1>4, <1>6 DEF UdpInv, SlotInv
<1>10. SavedInv'
  <2>1. SavedInv /\ \A r \in Requests : r \notin DOMAIN reqs => Quiet(r)
    BY DEF CalmInv, SavedInv
  <2>2. \A r \in Requests : r \notin DOMAIN reqs' => Quiet(r)'
    BY <1>4, <1>5, <2>1 DEF Quiet
  <2> QED
    BY <1>4, <1>5, <2>1, <2>2, SavedKept
<1> QED
  BY <1>8, <1>9, <1>10 DEF CalmInv

(* The socket goes into the slot it was opened for. *)
LEMMA SetAddressCalmInv ==
  ASSUME TypeInv, CalmInv, Calm, ~ Ended, SetAddress
  PROVE  CalmInv'
<1>1. MenuInv /\ UdpInv /\ SavedInv
  BY DEF CalmInv
<1>2. PICK r \in DOMAIN reqs : r = menu.req /\ menu = [pc |-> "socket", req |-> r]
  BY MenuThread DEF SetAddress
<1>3. /\ r \in Requests /\ UdpIdle /\ slot = Fresh(r) /\ Quiet(r)
      /\ reqs[r].kind = "download"
  BY <1>1, <1>2, WorldFacts DEF MenuInv
<1>4. slot.active /\ slot \in Slot
  BY <1>3, ClearedType
<1>5. /\ slot' = [slot EXCEPT !.sfd = r] /\ menu' = [pc |-> "ask", req |-> r]
      /\ UNCHANGED <<world, reqs, todo, net, udp, stray, saved>>
  BY <1>2, <1>4 DEF SetAddress, netVars
<1>6. /\ slot'.sfd = r /\ slot'.active /\ slot'.file = r /\ slot'.blocks = <<>>
      /\ slot'.last = 0 /\ slot'.size = 0
  BY <1>3, <1>4, <1>5, ClearedType DEF Slot
<1>7. slot' = Polled(r)
  BY <1>3, <1>5 DEF Polled
<1>8. Downloading(r)'
  <2>1. Len(slot'.blocks) = 0 /\ FirstBlocks(r, 0) = <<>> /\ FullLen * 0 = 0
    BY <1>6, FirstBlocksLen, EmptySeq DEF FullLen
  <2>2. Had' = 0
    BY <2>1 DEF Had
  <2> QED
    BY <1>3, <1>5, <1>6, <2>1, <2>2 DEF Downloading, Quiet
<1>9. MenuInv'
  <2>1. menu'.pc = "ask" /\ menu'.req = r
    BY <1>5
  <2>2. slot' = Polled(menu'.req)
    BY <1>7, <2>1
  <2> QED
    BY <1>1, <1>3, <1>5, <2>1, <2>2 DEF MenuInv, UdpIdle, Quiet, Polled, Fresh, Cleared
<1>10. UdpInv'
  BY <1>1, <1>3, <1>5 DEF UdpInv, UdpIdle
<1>11. SlotInv'
  BY <1>6, <1>8 DEF SlotInv
<1>12. SavedInv'
  BY <1>1, <1>5, SavedKept DEF SavedInv, Quiet
<1> QED
  BY <1>9, <1>10, <1>11, <1>12 DEF CalmInv

(* The server's answer, and what the menu does after it. *)
LEMMA AcceptDownload ==
  ASSUME TypeInv, CalmInv, Calm, ~ Ended, Accept, menu.pc = "ask"
  PROVE  CalmInv'
<1>1. MenuInv /\ UdpInv /\ SlotInv /\ SavedInv
  BY DEF CalmInv
<1>2. PICK r \in DOMAIN reqs : r = menu.req
  BY MenuThread
<1>3. PICK size \in world.sizes : size = reqs[r].size
  BY DEF TypeInv, Asked
<1>4. /\ r \in Requests /\ slot = Polled(r) /\ Quiet(r)
      /\ udp.pc \notin {"recv", "reset"}
  BY <1>1, <1>2, WorldFacts DEF MenuInv
<1>5. /\ slot.sfd = r /\ slot.blocks = <<>> /\ r # 0
  <2>1. Fresh(r) \in Slot /\ Fresh(r).blocks = <<>>
    BY <1>4, ClearedType
  <2>2. r # 0
    BY <1>4 DEF Requests
  <2> QED
    BY <1>4, <2>1, <2>2 DEF Polled, Slot
<1>6. Downloading(r)
  BY <1>1, <1>4, <1>5 DEF SlotInv
<1>7. /\ todo' = [todo EXCEPT ![r] = Packets(r, size)]
      /\ menu'.pc = "signal"
      /\ UNCHANGED <<world, reqs, udp, net, slot, stray, saved>>
  BY <1>2, <1>3, MenuThread DEF Accept, fileVars
<1>8. /\ todo'[r] = Packets(r, size)
      /\ \A i \in Requests : i # r => todo'[i] = todo[i]
  BY <1>4, <1>7 DEF TypeInv, TypeOK
<1>9. /\ size \in Nat /\ NumBlock(size) \in 0..MaxBlocks
  BY WorldFacts
<1>10. /\ Len(Packets(r, size)) = NumBlock(size)
       /\ DOMAIN Packets(r, size) = 1..NumBlock(size)
       /\ \A i \in 1..NumBlock(size) : Packets(r, size)[i] = NthPacket(r, i)
  <2> DEFINE S == {[block |-> [req |-> r, num |-> i], len |-> BlockLen(size, i),
                    copied |-> FALSE] : i \in 1..NumBlock(size)}
  <2>1. \A i \in 1..NumBlock(size) :
          [block |-> [req |-> r, num |-> i], len |-> BlockLen(size, i),
           copied |-> FALSE] \in S
    OBVIOUS
  <2> HIDE DEF S
  <2>2. /\ Len(Packets(r, size)) = NumBlock(size)
        /\ DOMAIN Packets(r, size) = 1..NumBlock(size)
        /\ \A i \in 1..NumBlock(size) : Packets(r, size)[i] =
             [block |-> [req |-> r, num |-> i], len |-> BlockLen(size, i),
              copied |-> FALSE]
    BY <1>9, <2>1, PacketsFacts
  <2> QED
    BY <1>3, <2>2 DEF NthPacket
<1>11. Follows(r)'
  <2>1. Had' = 0 /\ Total(r)' = NumBlock(size)
    BY <1>3, <1>5, <1>7, EmptySeq DEF Had, Total
  <2>2. net'[r] = <<>> /\ Len(net'[r]) = 0 /\ DOMAIN net'[r] = {}
    BY <1>4, <1>7, EmptySeq DEF Quiet
  <2>3. \A k \in 1..NumBlock(size) : todo'[r][k] = NthPacket(r, 0 + 0 + k)'
    <3> SUFFICES ASSUME NEW k \in 1..NumBlock(size)
                 PROVE  todo'[r][k] = NthPacket(r, 0 + 0 + k)'
      OBVIOUS
    <3>1. 0 + 0 + k = k
      OBVIOUS
    <3>2. NthPacket(r, k)' = NthPacket(r, k)
      BY <1>7 DEF NthPacket
    <3> QED
      BY <1>8, <1>10, <3>1, <3>2
  <2>4. 0 + 0 + Len(todo'[r]) = NumBlock(size)
    BY <1>8, <1>9, <1>10
  <2> QED
    BY <1>8, <1>10, <2>1, <2>2, <2>3, <2>4 DEF Follows
<1>12. Downloading(r)'
  <2>1. Had' = Had
    BY <1>7 DEF Had
  <2> QED
    BY <1>6, <1>7, <1>11, <2>1 DEF Downloading
<1>13. MenuInv' /\ UdpInv' /\ SlotInv'
  BY <1>1, <1>5, <1>7, <1>12 DEF MenuInv, UdpInv, SlotInv
<1>14. SavedInv'
  <2>1. \A i \in Requests : i \notin DOMAIN reqs' => Quiet(i)'
    BY <1>1, <1>2, <1>7, <1>8 DEF SavedInv, Quiet
  <2> QED
    BY <1>1, <1>7, <2>1, SavedKept
<1> QED
  BY <1>13, <1>14 DEF CalmInv

LEMMA MenuCalmInv ==
  ASSUME TypeInv, CalmInv, Calm, ~ Ended, Server \/ MenuStep
  PROVE  CalmInv'
<1>1. MenuInv /\ UdpInv /\ SlotInv /\ SavedInv
  BY DEF CalmInv
<1>2. CASE Refuse \/ LoseServer \/ OpenUpload \/ Signal \/ (Accept /\ menu.pc = "offer")
  <2>1. UNCHANGED <<world, reqs, todo, net, slot, saved, stray>>
    BY <1>2 DEF Refuse, LoseServer, OpenUpload, Signal, Accept, netVars, fileVars
  <2>2. \/ udp' = udp
        \/ udp.pc = "asleep" /\ udp'.pc = "wait" /\ menu.pc = "signal"
    BY <1>2, MenuThread DEF Refuse, LoseServer, OpenUpload, Signal, Accept, Awakened,
                            netVars, fileVars
  <2>3. \/ menu'.pc \in {"idle", "dead"}
        \/ menu.pc \in {"offer", "open"} /\ menu'.pc \in {"open", "send"} /\ udp' = udp
    BY <1>2, MenuThread DEF Refuse, LoseServer, OpenUpload, Signal, Accept
  <2>4. MenuInv'
    BY <1>1, <2>1, <2>3 DEF MenuInv, UdpIdle
  <2>5. UdpInv' /\ (udp'.pc = "reset" <=> udp.pc = "reset")
    BY <1>1, <2>1, <2>2 DEF UdpInv
  <2>6. SlotInv'
    <3> SUFFICES ASSUME slot'.sfd # 0, udp'.pc # "reset"
                 PROVE  Downloading(slot.sfd)'
      BY <2>1 DEF SlotInv, Downloading
    <3>1. PICK r : r = slot.sfd
      OBVIOUS
    <3>2. Downloading(r)
      BY <1>1, <2>1, <2>5, <3>1 DEF SlotInv
    <3>3. Downloading(r)'
      BY <2>1, <3>2, DownloadingKept
    <3> QED
      BY <2>1, <3>1, <3>3 DEF Downloading
  <2>7. SavedInv'
    BY <1>1, <2>1, SavedKept DEF SavedInv, Quiet
  <2> QED
    BY <2>4, <2>5, <2>6, <2>7 DEF CalmInv
<1>3. CASE FinishUpload \/ UploadFails
  <2>1. UdpIdle /\ slot.sfd = 0
    BY <1>1, <1>3 DEF FinishUpload, UploadFails, MenuInv
  <2>2. /\ slot'.sfd = 0 /\ menu'.pc \in {"idle", "dead"}
        /\ UNCHANGED <<world, reqs, todo, net, udp, saved, stray>>
    BY <1>3, <2>1, ClearedType DEF FinishUpload, UploadFails, netVars
  <2>3. MenuInv' /\ UdpInv' /\ SlotInv'
    BY <1>1, <2>1, <2>2 DEF MenuInv, UdpInv, SlotInv, UdpIdle
  <2>4. SavedInv'
    BY <1>1, <2>2, SavedKept DEF SavedInv, Quiet
  <2> QED
    BY <2>3, <2>4 DEF CalmInv
<1> QED
  BY <1>2, <1>3, SetAddressCalmInv, AcceptDownload DEF Server, MenuStep, Accept

(* A datagram comes: those on their way are the same. *)
LEMMA SentCalmInv ==
  ASSUME TypeInv, CalmInv, Calm, ~ Ended, NEW r \in Requests, ServerSends(r)
  PROVE  CalmInv'
<1>1. MenuInv /\ UdpInv /\ SlotInv /\ SavedInv
  BY DEF CalmInv
<1> DEFINE q == todo[r]
           a == net[r]
<1>2. q \in Seq(Packet) /\ a \in Seq(Packet) /\ q # <<>>
  BY DEF ServerSends, TypeInv, TypeOK
<1>3. /\ Len(q) \in Nat /\ Len(q) >= 1 /\ DOMAIN q = 1..Len(q) /\ Head(q) = q[1]
      /\ q[1] \in Packet /\ Len(a) \in Nat /\ DOMAIN a = 1..Len(a)
  BY <1>2, LenProperties, EmptySeq, ElementOfSeq
<1>4. /\ DOMAIN Tail(q) = 1..(Len(q) - 1) /\ Len(Tail(q)) = Len(q) - 1
      /\ \A k \in 1..(Len(q) - 1) : Tail(q)[k] = q[k + 1]
  BY <1>2, HeadTailProperties, LenProperties
<1>5. /\ DOMAIN Append(a, q[1]) = 1..(Len(a) + 1)
      /\ Len(Append(a, q[1])) = Len(a) + 1
      /\ \A k \in 1..Len(a) : Append(a, q[1])[k] = a[k]
      /\ Append(a, q[1])[Len(a) + 1] = q[1]
  BY <1>2, <1>3, AppendProperties, LenProperties
<1>6. /\ todo' = [todo EXCEPT ![r] = Tail(q)]
      /\ net' = [net EXCEPT ![r] = Append(a, q[1])]
      /\ UNCHANGED <<world, reqs, menu, udp, slot, open, stray, saved>>
  BY <1>3 DEF ServerSends, fileVars
<1>7. /\ todo'[r] = Tail(q) /\ net'[r] = Append(a, q[1])
      /\ \A i \in Requests : i # r => todo'[i] = todo[i] /\ net'[i] = net[i]
  BY <1>6 DEF TypeInv, TypeOK
<1>8. ~ Quiet(r) /\ \A i \in Requests : Quiet(i) => Quiet(i)'
  BY <1>2, <1>7 DEF Quiet
<1>9. Follows(r) => Follows(r)'
  <2> SUFFICES ASSUME Follows(r)
               PROVE  Follows(r)'
    OBVIOUS
  <2>1. Had' = Had /\ Total(r)' = Total(r) /\ \A i : NthPacket(r, i)' = NthPacket(r, i)
    BY <1>6 DEF Had, Total, NthPacket
  <2>2. Had \in Nat
    <3>1. slot.blocks \in Seq(Blocks)
      BY RecordTypes DEF TypeInv, TypeOK
    <3> QED
      BY <3>1, LenProperties DEF Had
  <2>3. /\ Had + Len(a) + Len(q) = Total(r)
        /\ \A k \in DOMAIN a : a[k] = NthPacket(r, Had + k)
        /\ \A k \in DOMAIN q : q[k] = NthPacket(r, Had + Len(a) + k)
    BY DEF Follows
  <2> HIDE DEF q, a
  <2>4. Had + (Len(a) + 1) + (Len(q) - 1) = Total(r)
    BY <1>3, <2>2, <2>3
  <2>5. ASSUME NEW k \in 1..(Len(a) + 1)
        PROVE  Append(a, q[1])[k] = NthPacket(r, Had + k)
    <3>1. CASE k \in 1..Len(a)
      BY <1>3, <1>5, <2>3, <3>1
    <3>2. CASE k = Len(a) + 1
      <4>1. Had + Len(a) + 1 = Had + k /\ 1 \in DOMAIN q
        BY <1>3, <2>2, <3>2
      <4> QED
        BY <1>5, <2>3, <3>2, <4>1
    <3> QED
      BY <1>3, <3>1, <3>2
  <2>6. ASSUME NEW k \in 1..(Len(q) - 1)
        PROVE  Tail(q)[k] = NthPacket(r, Had + (Len(a) + 1) + k)
    <3>1. k + 1 \in DOMAIN q /\ Had + Len(a) + (k + 1) = Had + (Len(a) + 1) + k
      BY <1>3, <2>2
    <3> QED
      BY <1>4, <2>3, <3>1
  <2>7. (Had + Len(net[r]) + Len(todo[r]) = Total(r))'
    BY <1>4, <1>5, <1>7, <2>1, <2>4, Zenon
  <2>8. (\A k \in DOMAIN net[r] : net[r][k] = NthPacket(r, Had + k))'
    BY <1>5, <1>7, <2>1, <2>5
  <2>9. (\A k \in DOMAIN todo[r] :
           todo[r][k] = NthPacket(r, Had + Len(net[r]) + k))'
    BY <1>4, <1>5, <1>7, <2>1, <2>6
  <2> QED
    BY <2>7, <2>8, <2>9 DEF Follows
<1>10. MenuInv'
  <2>1. menu.pc \in {"socket", "ask"} => menu.req \in Requests
    BY MenuThread, WorldFacts
  <2>2. PICK m : m = menu.req
    OBVIOUS
  <2>3. menu.pc \in {"socket", "ask"} => Quiet(m)'
    BY <1>1, <1>8, <2>1, <2>2 DEF MenuInv
  <2> QED
    BY <1>1, <1>6, <2>2, <2>3 DEF MenuInv, UdpIdle, Quiet, Polled, Fresh, Cleared
<1>11. UdpInv'
  BY <1>1, <1>6 DEF UdpInv
<1>12. SlotInv'
  <2> SUFFICES ASSUME slot.sfd # 0, udp.pc # "reset"
               PROVE  SlotInv'
    BY <1>6 DEF SlotInv
  <2>1. PICK i : i = slot.sfd
    OBVIOUS
  <2>2. Downloading(i)
    BY <1>1, <2>1 DEF SlotInv
  <2>3. Downloading(i)'
    <3>1. CASE i = r
      <4>1. Follows(r)'
        BY <1>8, <1>9, <2>2, <3>1 DEF Downloading
      <4>2. Had' = Had
        BY <1>6 DEF Had
      <4> QED
        BY <1>6, <2>2, <3>1, <4>1, <4>2 DEF Downloading
    <3>2. CASE i # r
      <4>1. i \in Requests
        BY <2>2, WorldFacts DEF Downloading
      <4> QED
        BY <1>6, <1>7, <2>2, <3>2, <4>1, DownloadingKept
    <3> QED
      BY <3>1, <3>2
  <2> QED
    BY <1>6, <2>1, <2>3 DEF SlotInv, Downloading
<1>13. SavedInv'
  BY <1>1, <1>6, <1>8, SavedKept DEF SavedInv
<1> QED
  BY <1>10, <1>11, <1>12, <1>13 DEF CalmInv

(* The UDP thread, between datagrams *)
LEMMA UdpCalmInv ==
  ASSUME TypeInv, CalmInv, Calm, ~ Ended,
         \/ Wait \/ CheckTimeout \/ CheckPasses \/ Poll \/ PollTimeout
         \/ RecvNothing \/ Reset \/ Wake
  PROVE  CalmInv'
<1>1. MenuInv /\ UdpInv /\ SlotInv /\ SavedInv /\ ~ world.slow
  BY DEF CalmInv, Calm
<1>2. ~ CheckTimeout /\ udp.pc # "fail"
  BY <1>1 DEF CheckTimeout, UdpInv
<1>3. \A l : Goto(l).pc = l /\ Goto(l).fds = udp.fds
  BY MenuThread DEF Goto
<1>4. UNCHANGED <<world, reqs, todo, net, menu, saved>>
  BY DEF Wait, CheckTimeout, CheckPasses, Poll, PollTimeout, RecvNothing, Reset,
         Wake, netVars, fileVars
<1>5. stray' = stray
  <2>1. CASE PollTimeout
    <3>1. stray' = (stray \/ udp.fds \notin open) /\ udp.fds \in open
      BY <2>1 DEF PollTimeout, Close
    <3> QED
      BY <1>1, <3>1 DEF SavedInv, TypeInv, TypeOK
  <2>2. CASE ~ PollTimeout
    BY <1>2, <2>2 DEF Wait, CheckPasses, Poll, RecvNothing, Reset, Wake, fileVars
  <2> QED
    BY <2>1, <2>2
<1>6. menu.pc = "ask" => /\ slot.sfd = menu.req /\ net[slot.sfd] = <<>>
  BY <1>1 DEF MenuInv, Polled, Fresh, Cleared, Quiet
<1>7. menu.pc = "socket" => slot.sfd = 0
  BY <1>1 DEF MenuInv, Fresh, Cleared
<1>8. SavedInv'
  BY <1>1, <1>4, <1>5, SavedKept DEF SavedInv, Quiet
<1>9. CASE Reset
  <2>1. slot'.sfd = 0 /\ udp'.pc = "wait" /\ udp.pc = "reset"
    BY <1>2, <1>3, <1>9 DEF Reset, TypeInv, TypeOK, Slot
  <2>2. menu.pc \notin {"socket", "ask", "offer", "open", "send"}
    BY <1>1, <2>1 DEF MenuInv, UdpIdle
  <2>3. MenuInv' /\ UdpInv' /\ SlotInv'
    BY <1>4, <2>1, <2>2 DEF MenuInv, UdpInv, SlotInv
  <2> QED
    BY <1>8, <2>3 DEF CalmInv
<1>10. CASE ~ Reset
  <2>1. slot' = slot
    BY <1>2, <1>10 DEF Wait, CheckPasses, Poll, PollTimeout, RecvNothing, Wake,
                       fileVars
  <2>2. UdpInv'
    BY <1>1, <1>2, <1>3, <1>10, <2>1
       DEF Wait, CheckPasses, Poll, PollTimeout, RecvNothing, Wake, AfterSilence,
           UdpInv
  <2>3. /\ menu.pc \in {"socket", "offer", "open", "send"} => udp'.pc \in {"wait", "asleep"}
    BY <1>1, <1>2, <1>3, <1>7, <1>10
       DEF Wait, CheckPasses, Poll, PollTimeout, RecvNothing, Wake, MenuInv, UdpIdle
  <2>4. menu.pc = "ask" => udp'.pc \notin {"recv", "reset"}
    <3> SUFFICES ASSUME menu.pc = "ask"
                 PROVE  udp'.pc \notin {"recv", "reset"}
      OBVIOUS
    <3>1. ~ Poll
      BY <1>1, <1>6 DEF Poll, UdpInv
    <3>2. ~ PollTimeout
      BY <1>1, <1>6 DEF PollTimeout, Silent, UdpInv
    <3>3. udp.pc \notin {"recv", "reset"}
      BY <1>1 DEF MenuInv
    <3> QED
      BY <1>2, <1>3, <1>10, <3>1, <3>2, <3>3 DEF Wait, CheckPasses, RecvNothing, Wake
  <2>5. MenuInv'
    BY <1>1, <1>4, <2>1, <2>3, <2>4 DEF MenuInv, UdpIdle, Quiet, Polled, Fresh, Cleared
  <2>6. SlotInv'
    <3> SUFFICES ASSUME slot.sfd # 0, udp.pc # "reset"
                 PROVE  SlotInv'
      BY <1>2, <1>10, <2>1
         DEF SlotInv, Wait, CheckPasses, Poll, PollTimeout, RecvNothing, Wake
    <3>1. PICK r : r = slot.sfd
      OBVIOUS
    <3>2. Downloading(r)'
      BY <1>1, <1>4, <2>1, <3>1, DownloadingKept DEF SlotInv
    <3> QED
      BY <2>1, <3>1, <3>2 DEF SlotInv, Downloading
  <2> QED
    BY <1>8, <2>2, <2>5, <2>6 DEF CalmInv
<1> QED
  BY <1>9, <1>10

(* The next datagram, what the slot becomes, and when the file is in. *)
LEMMA NextDatagram ==
  ASSUME TypeInv, CalmInv, Calm, ~ Ended, udp.pc = "recv", NEW r \in Requests, r = udp.fds,
         NEW k \in DOMAIN net[r], k \in Deliverable(udp.fds)
  PROVE  /\ k = 1 /\ slot.sfd = r /\ Downloading(r) /\ Follows(r)
         /\ Had \in Nat /\ Total(r) \in Nat /\ Had + 1 <= Total(r)
         /\ reqs[r].size \in Nat
         /\ LET s == Stored(net[r][k])
            IN  /\ s.active /\ s.file = r /\ s.sfd = r
                /\ s.blocks = FirstBlocks(r, Had + 1) /\ Len(s.blocks) = Had + 1
                /\ Full(s) <=> Had + 1 = Total(r)
                /\ Had + 1 # Total(r) => s.last = 0 /\ s.size = FullLen * (Had + 1)
                /\ Had + 1 = Total(r) => s.size = reqs[r].size + Beyond(reqs[r].size)
<1>1. MenuInv /\ UdpInv /\ SlotInv
  BY DEF CalmInv
<1>2. slot.sfd = r /\ Downloading(r)
  BY <1>1 DEF UdpInv, SlotInv
<1>3. k = 1
  BY DEF Deliverable, Calm
<1>4. /\ net[r] \in Seq(Packet) /\ todo[r] \in Seq(Packet) /\ slot \in Slot
      /\ slot.blocks \in Seq(Blocks)
  BY RecordTypes DEF TypeInv, TypeOK
<1>5. /\ Len(net[r]) \in Nat /\ Len(net[r]) >= 1 /\ DOMAIN net[r] = 1..Len(net[r])
      /\ Len(todo[r]) \in Nat /\ net[r] # <<>>
  BY <1>3, <1>4, LenProperties, EmptySeq
<1>6. Follows(r)
  BY <1>2, <1>5 DEF Downloading, Quiet
<1> DEFINE m == Had
           n == Total(r)
           size == reqs[r].size
           p == net[r][k]
           s == Stored(p)
<1>7. m \in Nat
  BY <1>4, LenProperties DEF Had
<1>8. size \in Nat /\ size \in FileSizes
  BY <1>2, WorldFacts DEF Downloading, TypeInv, Asked
<1>9. n = NumBlock(size) /\ n \in Nat
  BY <1>8, NumBlockType DEF Total
<1>10. m + 1 <= n
  <2>1. m + Len(net[r]) + Len(todo[r]) = n
    BY <1>6 DEF Follows
  <2>2. \A x, y, z \in Nat : y >= 1 => x + 1 <= x + y + z
    OBVIOUS
  <2> HIDE DEF m, n
  <2> QED
    BY <1>5, <1>7, <2>1, <2>2
<1>11. p \in Packet /\ Fits(p.block.num)
  BY TakeOne
<1>12. /\ p.block = [req |-> r, num |-> m + 1] /\ p.block.num = m + 1
       /\ p.len = BlockLen(size, m + 1)
  <2>1. p = NthPacket(r, m + 1)
    BY <1>3, <1>6 DEF Follows
  <2> QED
    BY <2>1 DEF NthPacket
<1>13. /\ s.active = slot.active /\ s.file = slot.file /\ s.sfd = slot.sfd
       /\ slot.active =>
            /\ s.blocks = SetBlock(slot.blocks, m + 1, [req |-> r, num |-> m + 1])
            /\ s.last = LastPacket(slot, p)
            /\ s.size = slot.size + p.len
  BY <1>11, <1>12, StoredType
<1>14. /\ slot.active /\ slot.file = r /\ slot.last = 0 /\ slot.size = FullLen * m
       /\ slot.blocks = FirstBlocks(r, m)
  BY <1>2 DEF Downloading
<1>15. s.blocks = FirstBlocks(r, m + 1) /\ Len(s.blocks) = m + 1
  <2>1. m + 1 \in Nat
    BY <1>7
  <2> HIDE DEF m, s
  <2> QED
    BY <1>7, <1>13, <1>14, <2>1, SetNextBlock, FirstBlocksLen
<1>16. p.len < FullLen <=> m + 1 = n
  <2>1. m + 1 \in Nat
    BY <1>7
  <2> QED
    BY <1>8, <1>9, <1>12, <2>1, BlockLenFacts
<1>17. CASE m + 1 = n
  <2>1. s.last = m + 1
    BY <1>12, <1>13, <1>14, <1>16, <1>17 DEF LastPacket
  <2>2. p.len = size % FullLen
    BY <1>9, <1>12, <1>17 DEF BlockLen
  <2>3. m = NumBlock(size) - 1
    BY <1>7, <1>9, <1>17
  <2>4. s.size = size + Beyond(size)
    BY <1>8, <1>13, <1>14, <2>2, <2>3, SizesAddUp
  <2>5. Full(s)
    BY <1>13, <1>14, <1>15, <2>1 DEF Full, Complete
  <2> QED
    BY <1>2, <1>3, <1>6, <1>7, <1>8, <1>9, <1>10, <1>13, <1>14, <1>15, <1>17, <2>4, <2>5
<1>18. CASE m + 1 # n
  <2>1. s.last = 0
    BY <1>13, <1>14, <1>16, <1>18 DEF LastPacket
  <2>2. p.len = FullLen
    BY <1>9, <1>12, <1>18 DEF BlockLen
  <2>3. FullLen * m + FullLen = FullLen * (m + 1)
    BY <1>7 DEF FullLen
  <2>4. s.size = FullLen * (m + 1)
    BY <1>13, <1>14, <2>2, <2>3
  <2>5. ~ Full(s)
    <3>1. m + 1 # 0
      BY <1>7
    <3> QED
      BY <1>15, <2>1, <3>1 DEF Full, Complete
  <2> QED
    BY <1>2, <1>3, <1>6, <1>7, <1>8, <1>9, <1>10, <1>13, <1>14, <1>15, <1>18, <2>1, <2>4,
       <2>5
<1> QED
  BY <1>17, <1>18

LEMMA ReceiveCalmInv ==
  ASSUME TypeInv, SocketInv, CalmInv, Calm, ~ Ended, NEW r \in Requests, r = udp.fds,
         NEW k \in DOMAIN net[r], AddPacket(k) \/ SaveFile(k) \/ SaveFails(k)
  PROVE  CalmInv'
<1>1. MenuInv /\ UdpInv /\ SavedInv
  BY DEF CalmInv
<1>2. udp.pc = "recv" /\ k \in Deliverable(udp.fds)
  BY DEF AddPacket, SaveFile, SaveFails, Take
<1>3. PICK s : s = Stored(net[r][k])
  OBVIOUS
<1>4. PICK m : m = Had
  OBVIOUS
<1>5. /\ k = 1 /\ slot.sfd = r /\ Downloading(r) /\ Follows(r)
      /\ m \in Nat /\ Total(r) \in Nat /\ m + 1 <= Total(r)
      /\ reqs[r].size \in Nat
      /\ s.active /\ s.file = r /\ s.sfd = r
      /\ s.blocks = FirstBlocks(r, m + 1) /\ Len(s.blocks) = m + 1
      /\ Full(s) <=> m + 1 = Total(r)
      /\ m + 1 # Total(r) => s.last = 0 /\ s.size = FullLen * (m + 1)
      /\ m + 1 = Total(r) => s.size = reqs[r].size + Beyond(reqs[r].size)
  BY <1>2, <1>3, <1>4, NextDatagram
<1>6. r \in open /\ r # 0
  BY <1>2 DEF SocketInv, PollsOpenSocket, Requests
<1>7. r \in DOMAIN reqs /\ reqs[r].kind = "download"
  BY <1>5 DEF Downloading
<1> DEFINE a == net[r]
           q == RemoveAt(a, 1)
<1>9. a \in Seq(Packet) /\ 1 \in DOMAIN a
  BY <1>5 DEF TypeInv, TypeOK
<1>10. Len(a) \in Nat /\ DOMAIN a = 1..Len(a)
  BY <1>9, LenProperties
<1>11. /\ Len(q) = Len(a) - 1 /\ DOMAIN q = 1..(Len(a) - 1)
       /\ \A j \in 1..(Len(a) - 1) : q[j] = a[j + 1]
  <2>1. /\ Len(q) = Len(a) - 1 /\ DOMAIN q = 1..(Len(a) - 1)
        /\ \A j \in 1..(Len(a) - 1) : q[j] = IF j < 1 THEN a[j] ELSE a[j + 1]
    BY <1>9, RemoveAtFacts
  <2>2. \A j \in 1..(Len(a) - 1) : ~ (j < 1)
    BY <1>10
  <2> QED
    BY <2>1, <2>2
<1>12. /\ net' = [net EXCEPT ![r] = q] /\ UNCHANGED <<world, reqs, todo, menu>>
  BY <1>5 DEF AddPacket, SaveFile, SaveFails, Take
<1>13. net'[r] = q /\ \A i \in Requests : i # r => net'[i] = net[i]
  BY <1>12 DEF TypeInv, TypeOK
<1>14. menu.pc \notin {"socket", "ask", "offer", "open", "send"}
  BY <1>1, <1>2 DEF MenuInv, UdpIdle
<1>15. MenuInv'
  BY <1>12, <1>14 DEF MenuInv
<1>16. \A i \in Requests : i \notin DOMAIN reqs' => Quiet(i)'
  BY <1>1, <1>7, <1>12, <1>13 DEF SavedInv, Quiet
<1>17. CASE AddPacket(k)
  <2>1. slot' = s /\ UNCHANGED <<udp, open, stray, saved>> /\ m + 1 # Total(r)
    BY <1>3, <1>5, <1>17 DEF AddPacket
  <2>2. UdpInv'
    BY <1>1, <1>5, <2>1 DEF UdpInv
  <2>3. /\ Had' = m + 1 /\ Total(r)' = Total(r)
        /\ \A i : NthPacket(r, i)' = NthPacket(r, i)
    BY <1>5, <1>12, <2>1 DEF Had, Total, NthPacket
  <2>4. Follows(r)'
    <3>1. Len(todo[r]) \in Nat
      <4>1. todo[r] \in Seq(Packet)
        BY DEF TypeInv, TypeOK
      <4> QED
        BY <4>1, LenProperties
    <3>2. /\ m + Len(a) + Len(todo[r]) = Total(r)
          /\ \A j \in DOMAIN a : a[j] = NthPacket(r, m + j)
          /\ \A j \in DOMAIN todo[r] : todo[r][j] = NthPacket(r, m + Len(a) + j)
      BY <1>4, <1>5 DEF Follows
    <3> HIDE DEF a, q
    <3>3. (m + 1) + Len(q) + Len(todo[r]) = Total(r) /\ m + Len(a) = (m + 1) + Len(q)
      <4>1. m \in Nat /\ Len(a) \in Nat /\ Len(q) = Len(a) - 1
        BY <1>5, <1>10, <1>11
      <4>2. m + Len(a) = (m + 1) + Len(q)
        BY <4>1
      <4>3. m + Len(a) + Len(todo[r]) = Total(r)
        BY <3>2
      <4> QED
        BY <4>2, <4>3
    <3>4. ASSUME NEW j \in 1..(Len(a) - 1)
          PROVE  q[j] = NthPacket(r, (m + 1) + j)
      <4>1. j + 1 \in DOMAIN a /\ m + (j + 1) = (m + 1) + j
        BY <1>5, <1>10
      <4> QED
        BY <1>11, <3>2, <4>1
    <3> QED
      BY <1>11, <1>12, <1>13, <2>3, <3>2, <3>3, <3>4 DEF Follows
  <2>5. Downloading(r)'
    BY <1>5, <1>7, <1>12, <2>1, <2>3, <2>4 DEF Downloading
  <2>6. SlotInv'
    BY <1>5, <2>1, <2>5 DEF SlotInv
  <2>7. SavedInv'
    BY <1>1, <1>12, <1>16, <2>1, SavedKept
  <2> QED
    BY <1>15, <2>2, <2>6, <2>7 DEF CalmInv
<1>18. CASE SaveFile(k)
  <2>1. /\ m + 1 = Total(r) /\ slot' = Cleared /\ udp' = Goto("reset")
        /\ saved' = saved \cup {[file |-> s.file, blocks |-> s.blocks, size |-> s.size]}
        /\ stray' = (stray \/ r \notin open)
    BY <1>3, <1>5, <1>18 DEF SaveFile, Close, ClosedAtEnd
  <2>2. slot'.sfd = 0 /\ udp'.pc = "reset"
    BY <2>1, ClearedType, MenuThread DEF Goto
  <2>3. UdpInv' /\ SlotInv'
    BY <2>2 DEF UdpInv, SlotInv
  <2>4. \A f \in saved : f.file \in DOMAIN reqs' /\ Whole(f)'
    BY <1>1, <1>12 DEF SavedInv, Whole
  <2>5. ASSUME NEW f, f = [file |-> s.file, blocks |-> s.blocks, size |-> s.size]
        PROVE  f.file \in DOMAIN reqs' /\ Whole(f)'
    <3>1. f.file = r /\ f.blocks = FirstBlocks(r, Total(r))
          /\ f.size = reqs[r].size + Beyond(reqs[r].size)
      BY <1>5, <2>1, <2>5
    <3>2. FirstBlocks(r, Total(r)) = Content(r, reqs[r].size)
      BY DEF FirstBlocks, Content, Total
    <3> QED
      BY <1>7, <1>12, <3>1, <3>2 DEF Whole
  <2>6. SavedInv'
    BY <1>1, <1>6, <1>16, <2>1, <2>4, <2>5 DEF SavedInv
  <2> QED
    BY <1>15, <2>3, <2>6 DEF CalmInv
<1>19. CASE SaveFails(k)
  <2>1. udp'.pc = "fail" /\ UNCHANGED <<stray, saved>>
    BY <1>19, MenuThread DEF SaveFails, Goto
  <2>2. SavedInv'
    BY <1>1, <1>12, <1>16, <2>1, SavedKept
  <2> QED
    BY <2>1, <2>2 DEF CalmInv, Ended
<1> QED
  BY <1>17, <1>18, <1>19

LEMMA EndedCalmInv ==
  ASSUME TypeInv, CalmInv, Calm, Ended, [Next]_vars
  PROVE  CalmInv'
<1>1. UNCHANGED <<saved, stray>> /\ Ended'
  <2>1. CASE User
    BY <2>1 DEF User, AskDownload, AskUpload, NewTransfer, Ended
  <2>2. CASE Server \/ MenuStep
    BY <2>2 DEF Server, Accept, Refuse, LoseServer, MenuStep, SetAddress, Signal,
         Awakened, OpenUpload, FinishUpload, UploadFails, netVars, fileVars, Ended
  <2>3. CASE UdpStep \/ Wake
    <3>1. Reset /\ udp' = Goto(IF udp.pc = "reset" THEN "wait" ELSE "dead")
      BY <2>3 DEF UdpStep, Wait, CheckTimeout, CheckPasses, Poll, PollTimeout,
           RecvNothing, Reset, AddPacket, SaveFile, SaveFails, Take, Wake, Ended
    <3> QED
      BY <3>1, MenuThread DEF Reset, Goto, Ended
  <2>4. CASE Network \/ UNCHANGED vars
    BY <2>4 DEF Network, ServerSends, Lose, fileVars, vars, Ended
  <2> QED
    BY <2>1, <2>2, <2>3, <2>4 DEF Next
<1>2. CASE User
  <2>1. PICK size \in world.sizes, kind \in {"download", "upload"} :
          NewTransfer(kind, size)
    BY <1>2 DEF User, AskDownload, AskUpload
  <2>2. [kind |-> kind, size |-> size] \in Request
    BY WorldFacts DEF Request
  <2>3. /\ reqs' = Append(reqs, [kind |-> kind, size |-> size])
        /\ UNCHANGED <<todo, net>>
    BY <2>1 DEF NewTransfer
  <2>4. \A r \in DOMAIN reqs : r \in DOMAIN reqs' /\ reqs'[r] = reqs[r]
    BY <2>2, <2>3, NewRequest
  <2>5. \A r \in Requests : r \notin DOMAIN reqs' => Quiet(r)'
    BY <2>3, <2>4 DEF CalmInv, SavedInv, Quiet
  <2>6. SavedInv'
    BY <1>1, <2>4, <2>5, SavedKept DEF CalmInv
  <2> QED
    BY <1>1, <2>6 DEF CalmInv
<1>3. CASE ~ User
  <2>1. reqs' = reqs
    BY <1>3 DEF Next, Server, Accept, Refuse, LoseServer, MenuStep, SetAddress,
         Signal, OpenUpload, FinishUpload, UploadFails, UdpStep, Wait, CheckTimeout,
         CheckPasses, Poll, PollTimeout, RecvNothing, Reset, AddPacket, SaveFile,
         SaveFails, Take, Wake, Network, ServerSends, Lose, vars, netVars
  <2>2. ASSUME NEW r \in Requests, r \notin DOMAIN reqs
        PROVE  Quiet(r)'
    <3>1. todo[r] = <<>> /\ net[r] = <<>>
      BY <2>2 DEF CalmInv, SavedInv, Quiet
    <3>2. todo \in [Requests -> Seq(Packet)] /\ net \in [Requests -> Seq(Packet)]
      BY DEF TypeInv, TypeOK
    <3>3. DOMAIN net[r] = {}
      BY <3>1
    <3>4. CASE Accept /\ menu.pc = "ask"
      <4>1. menu.req # r
        BY <2>2, <3>4, MenuThread
      <4> QED
        BY <3>1, <3>2, <3>4, <4>1 DEF Accept, Quiet
    <3>5. CASE Network
      BY <3>1, <3>2, <3>3, <3>5 DEF Network, ServerSends, Lose, Quiet
    <3>6. ASSUME NEW i \in Requests, NEW k \in DOMAIN net[i], i = udp.fds, Take(k)
          PROVE  Quiet(r)'
      BY <3>1, <3>2, <3>3, <3>6 DEF Take, Quiet
    <3>7. CASE UNCHANGED <<todo, net>>
      BY <3>1, <3>7 DEF Quiet
    <3> QED
      BY <1>3, <3>4, <3>5, <3>6, <3>7
         DEF Next, Server, Accept, Refuse, LoseServer, MenuStep, SetAddress,
             Signal, OpenUpload, FinishUpload, UploadFails, UdpStep, Wait,
             CheckTimeout, CheckPasses, Poll, PollTimeout, RecvNothing, Reset,
             AddPacket, SaveFile, SaveFails, Wake, vars, netVars
  <2>3. SavedInv'
    BY <1>1, <2>1, <2>2, SavedKept DEF CalmInv
  <2> QED
    BY <1>1, <2>3 DEF CalmInv
<1> QED
  BY <1>2, <1>3

THEOREM CalmCorrect == Spec => []CalmInv
<1>1. TypeInv /\ SocketInv /\ CalmInv /\ [Next]_vars => CalmInv'
  <2> SUFFICES ASSUME TypeInv, SocketInv, CalmInv, Calm, ~ Ended, [Next]_vars
               PROVE  CalmInv'
    <3>1. [Next]_vars => UNCHANGED world
      BY DEF Next, User, AskDownload, AskUpload, NewTransfer, Server, Accept, Refuse,
             LoseServer, MenuStep, SetAddress, Signal, OpenUpload, FinishUpload, UploadFails,
             UdpStep, Wait, CheckTimeout, CheckPasses, Poll, PollTimeout, RecvNothing,
             Reset, AddPacket, SaveFile, SaveFails, Take, Wake, Network, ServerSends,
             Lose, vars, netVars
    <3>2. [Next]_vars /\ ~ Calm => CalmInv'
      BY <3>1 DEF CalmInv, Calm
    <3> QED
      BY <3>2, EndedCalmInv
  <2>1. CASE Network
    BY <2>1, SentCalmInv DEF Network, Lose, Calm
  <2>2. CASE UdpStep \/ Wake
    BY <2>2, UdpCalmInv, ReceiveCalmInv DEF UdpStep
  <2>3. CASE UNCHANGED vars
    BY <2>3 DEF vars, CalmInv, Calm, Ended, MenuInv, UdpInv, SlotInv, SavedInv, Downloading,
                Follows, Quiet, Had, Total, NthPacket, Whole, UdpIdle
  <2> QED
    BY <2>1, <2>2, <2>3, AskCalmInv, MenuCalmInv DEF Next
<1> QED
  BY InitCalmInv, <1>1, TypeCorrect, SocketsOpen, PTL DEF Spec

(* On a good network, with a user who waits, what is saved is a file that  *)
(* was asked for: its blocks in order, and its size, or one packet more if *)
(* it fills its packets (client/data.c:350-371, request.c:122-124).        *)
THEOREM SavesWhole == Spec => []DownloadWhole
<1>1. CalmInv => DownloadWhole
  BY DEF CalmInv, SavedInv, Whole, DownloadWhole
<1> QED
  BY <1>1, CalmCorrect, PTL

(* ... and the client closes no descriptor but those of sockets it has     *)
(* open (client/data.c:367, 385, udp_client.c:60).                         *)
THEOREM ClosesOwn == Spec => []NoStrayClose
<1>1. CalmInv => NoStrayClose
  BY DEF CalmInv, SavedInv, NoStrayClose
<1> QED
  BY <1>1, CalmCorrect, PTL
=============================================================================
