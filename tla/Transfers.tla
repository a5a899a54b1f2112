----------------------------- MODULE Transfers -----------------------------
(***************************************************************************)
(* File transfers on the server: m_tranfer_files, one slot for each user   *)
(* id, shared by the two threads of the server.                            *)
(*                                                                         *)
(* A client asks for an upload on a TCP connection and then sends the      *)
(* blocks of the file as datagrams.  The TCP thread prepares the slot, the *)
(* UDP thread fills it and, when it takes the file for complete, announces *)
(* it with a post, writes it and clears the slot.  A download borrows the  *)
(* slot of its client while the file is sent.  These hold m_tranfer_mutex; *)
(* the timeout check of the TCP loop clears slots without it.              *)
(***************************************************************************)
EXTENDS FileBlocks, FiniteSets, SequencesExt

CONSTANTS
  Ids,          \* the ids of the registered users
  MaxRequests,  \* bound: upload and download requests
  Worlds        \* what clients, network, clock and disk may do

(* A world says which sizes files have, which feed numbers uploads ask     *)
(* for, how many requests of which kinds there are, what the network does, *)
(* whether clients wait for the end of a transfer to ask for another,      *)
(* whether one may last longer than FT_TIMEOUT_SEC, and whether a call for *)
(* a directory or a file may fail whatever its path is: the disk is full,  *)
(* permissions lack, the directory of a feed does not exist.               *)
ASSUME TransfersAssumption ==
  /\ IsFiniteSet(Ids) /\ MaxRequests \in Nat
  /\ \A w \in Worlds :
       /\ w.sizes \subseteq FileSizes
       /\ \A size \in w.sizes : NumBlock(size) <= MaxBlocks
       /\ w.feeds \subseteq {0, 1} /\ w.requests \in 0..MaxRequests
       /\ w.kinds \subseteq {"upload", "download"}
       /\ w.faults \subseteq {"loss", "reorder", "dup"}
       /\ w.patient \in BOOLEAN /\ w.timeouts \in BOOLEAN /\ w.diskFaults \in BOOLEAN

VARIABLES
  world,        \* the one of Worlds this is
  reqs,         \* the transfers asked for and accepted; a file is its index
  slot,         \* m_tranfer_files
  net,          \* the datagrams of each client that are under way
  udp,          \* the UDP thread: it holds the mutex except in idle and dead
  tcp,          \* the TCP thread, busy with a slot
  nfeeds,       \* m_feeds.length
  posts,        \* the announcements posted, in order
  files,        \* the files written
  up            \* the process has not been killed by an invalid access

vars == <<world, reqs, slot, net, udp, tcp, nfeeds, posts, files, up>>

Request == [id : Ids, kind : {"upload", "download"}, feed : Nat,
            size : FileSizes]
Block == [req : 1..MaxRequests, num : 1..MaxBlocks]
Packet == [block : Block, len : 0..FullLen, copied : BOOLEAN]
Slot == [active : BOOLEAN, file : 0..MaxRequests, feed : Nat,
         blocks : Seq(Block \cup {Hole}), last : 0..MaxBlocks, size : Nat]

-----------------------------------------------------------------------------
(* The slots *)

(* What transfer_clear leaves: file 0 is the empty name. *)
Cleared == [active |-> FALSE, file |-> 0, feed |-> 0, blocks |-> <<>>,
            last |-> 0, size |-> 0]

Fresh(r, n) == [Cleared EXCEPT !.active = TRUE, !.file = r, !.feed = n]

SlipSlotOf(id) == CHOOSE i \in Ids : TRUE       \* one slot for everybody
SlotOf(id) == id

(* The array of this slot is freed, and the slot not zeroed yet. *)
Freed(id) == tcp.pc = "zero" /\ tcp.id = id

LockFree == udp.pc \in {"idle", "dead"}
Idle == [pc |-> "idle"]
Dead == [pc |-> "dead"]

-----------------------------------------------------------------------------
(* The TCP thread *)

Quiet(id) == net[id] = <<>> /\ ~ slot[id].active

(* prepare_upload_request and transfer_new; once answered, the client      *)
(* sends the whole file.                                                   *)
PrepareUpload(id, n, size) ==
  LET r == Len(reqs) + 1 IN
  /\ up /\ tcp.pc = "idle" /\ LockFree
  /\ "upload" \in world.kinds /\ r <= world.requests
  /\ world.patient => Quiet(id)
  /\ n <= nfeeds
  /\ reqs' = Append(reqs, [id |-> id, kind |-> "upload", feed |-> n,
                           size |-> size])
  /\ slot' = [slot EXCEPT ![SlotOf(id)] = Fresh(r, n)]
  /\ net' = [net EXCEPT ![id] = @ \o Packets(r, size)]
  /\ UNCHANGED <<world, udp, tcp, nfeeds, posts, files, up>>

(* prepare_download_request, for a file that exists. *)
PrepareDownload(id, f) ==
  LET r == Len(reqs) + 1 IN
  /\ up /\ tcp.pc = "idle" /\ LockFree
  /\ "download" \in world.kinds /\ r <= world.requests
  /\ world.patient => Quiet(id)
  /\ reqs' = Append(reqs, [id |-> id, kind |-> "download", feed |-> f.feed,
                           size |-> 0])
  /\ slot' = [slot EXCEPT ![SlotOf(id)] = Fresh(r, f.feed)]
  /\ tcp' = [pc |-> "send", id |-> id]
  /\ UNCHANGED <<world, net, udp, nfeeds, posts, files, up>>

(* handle_file_dowload: get_tranfer_file_path waits for the mutex.  open   *)
(* fails, and ends the loop, if the slot holds no name or the disk fails.  *)
SendFile ==
  LET s == slot[SlotOf(tcp.id)] IN
  /\ up /\ tcp.pc = "send" /\ LockFree
  /\ \/ s.file # 0 /\ tcp' = [tcp EXCEPT !.pc = "clear"]
     \/ (s.file = 0 \/ world.diskFaults) /\ tcp' = Dead
  /\ UNCHANGED <<world, reqs, slot, net, udp, nfeeds, posts, files, up>>

(* id_clear_transfer *)
ClearDownload ==
  /\ up /\ tcp.pc = "clear" /\ LockFree
  /\ slot' = [slot EXCEPT ![SlotOf(tcp.id)] = Cleared]
  /\ tcp' = Idle
  /\ UNCHANGED <<world, reqs, net, udp, nfeeds, posts, files, up>>

(* check_transfers_timeout takes no mutex: it frees the array of a slot,   *)
(* then zeroes the slot.  Once the UDP thread has ended, every transfer    *)
(* lasts too long.                                                         *)
SlipTimedOut(s) == s.active /\ s.last # 0       \* only when the end came in
TimedOut(s) == s.active

TimeoutFree(id) ==
  /\ up /\ tcp.pc = "idle"
  /\ world.timeouts \/ udp.pc = "dead"
  /\ TimedOut(slot[id])
  /\ tcp' = [pc |-> "zero", id |-> id]
  /\ UNCHANGED <<world, reqs, slot, net, udp, nfeeds, posts, files, up>>

TimeoutZero ==
  /\ up /\ tcp.pc = "zero"
  /\ slot' = [slot EXCEPT ![tcp.id] = Cleared]
  /\ tcp' = Idle
  /\ UNCHANGED <<world, reqs, net, udp, nfeeds, posts, files, up>>

-----------------------------------------------------------------------------
(* The network: a datagram may be lost, overtaken, or delivered twice. *)

Lose(id, k) ==
  /\ "loss" \in world.faults
  /\ net' = [net EXCEPT ![id] = RemoveAt(@, k)]
  /\ UNCHANGED <<world, reqs, slot, udp, tcp, nfeeds, posts, files, up>>

Duplicate(id, k) ==             \* bound: a datagram is copied at most once
  /\ "dup" \in world.faults
  /\ ~ net[id][k].copied
  /\ LET p == [net[id][k] EXCEPT !.copied = TRUE] IN
     net' = [net EXCEPT ![id] = Append([@ EXCEPT ![k] = p], p)]
  /\ UNCHANGED <<world, reqs, slot, udp, tcp, nfeeds, posts, files, up>>

Deliverable(id) == IF "reorder" \in world.faults THEN DOMAIN net[id]
                   ELSE DOMAIN net[id] \cap {1}

-----------------------------------------------------------------------------
(* The UDP thread: add_packet, one action for each use it makes of the     *)
(* slot between which the timeout check can clear it.                      *)

Mine == slot[SlotOf(udp.id)]
Goto(l) == [udp EXCEPT !.pc = l]

(* A packet nobody asked for is dropped. *)
Receive(id, k) ==
  /\ up /\ udp.pc = "idle"
  /\ k \in Deliverable(id)
  /\ net' = [net EXCEPT ![id] = RemoveAt(@, k)]
  /\ udp' = IF slot[SlotOf(id)].active
            THEN [pc |-> "store", id |-> id, packet |-> net[id][k]]
            ELSE udp
  /\ UNCHANGED <<world, reqs, slot, tcp, nfeeds, posts, files, up>>

SlipBlockIndex(p) == p.block.num + 1    \* counting from 1 twice
BlockIndex(p) == p.block.num

SlipLastPacket(s, p) == IF p.len < FullLen THEN p.block.num - 1 ELSE s.last
LastPacket(s, p) == IF p.len < FullLen THEN p.block.num ELSE s.last

StorePacket(s, p) ==
  [s EXCEPT !.last = LastPacket(s, p),
            !.blocks = SetBlock(@, BlockIndex(p), p.block),
            !.size = @ + p.len]

Store ==
  /\ up /\ udp.pc = "store"
  /\ ~ Freed(udp.id) /\ Mine.active
  /\ slot' = [slot EXCEPT ![SlotOf(udp.id)] = StorePacket(@, udp.packet)]
  /\ udp' = Goto("test")
  /\ UNCHANGED <<world, reqs, net, tcp, nfeeds, posts, files, up>>

(* The array was freed, or its set pointer zeroed, after the test of       *)
(* active: the access kills the process.                                   *)
StoreNowhere ==
  /\ up /\ udp.pc = "store"
  /\ Freed(udp.id) \/ ~ Mine.active
  /\ up' = FALSE
  /\ UNCHANGED <<world, reqs, slot, net, udp, tcp, nfeeds, posts, files>>

SlipComplete(s) == Len(s.blocks) >= s.last
Complete(s) == Len(s.blocks) = s.last

TestComplete ==
  /\ up /\ udp.pc = "test"
  /\ udp' = IF Complete(Mine) THEN Goto("feed") ELSE Idle
  /\ UNCHANGED <<world, reqs, slot, net, tcp, nfeeds, posts, files, up>>

(* A file sent to feed 0 opens a feed; Feeds.tla has its steps.  The feed  *)
(* is there already when mkdir fails, which ends the loop.                 *)
OpenFeed ==
  /\ up /\ udp.pc = "feed"
  /\ nfeeds' = IF Mine.feed = 0 THEN nfeeds + 1 ELSE nfeeds
  /\ udp' = Goto("number")
  /\ UNCHANGED <<world, reqs, slot, net, tcp, posts, files, up>>

OpenFeedFails ==
  /\ up /\ udp.pc = "feed" /\ Mine.feed = 0 /\ world.diskFaults
  /\ nfeeds' = nfeeds + 1
  /\ udp' = Dead
  /\ UNCHANGED <<world, reqs, slot, net, tcp, posts, files, up>>

NumberFeed ==
  /\ up /\ udp.pc = "number"
  /\ slot' = [slot EXCEPT ![SlotOf(udp.id)].feed = IF @ = 0 THEN nfeeds ELSE @]
  /\ udp' = Goto("post")
  /\ UNCHANGED <<world, reqs, net, tcp, nfeeds, posts, files, up>>

(* The post says the name and the size.  A slot zeroed since names feed 0, *)
(* which post_new cannot dereference.                                      *)
Announce ==
  /\ up /\ udp.pc = "post" /\ Mine.feed # 0
  /\ posts' = Append(posts, [file |-> Mine.file, feed |-> Mine.feed,
                             size |-> Mine.size, blocks |-> Mine.blocks])
  /\ udp' = Goto("write")
  /\ UNCHANGED <<world, reqs, slot, net, tcp, nfeeds, files, up>>

AnnounceNowhere ==
  /\ up /\ udp.pc = "post" /\ Mine.feed = 0
  /\ up' = FALSE
  /\ UNCHANGED <<world, reqs, slot, net, udp, tcp, nfeeds, posts, files>>

(* write_file.  An empty name is the directory of the feed, and the name a *)
(* download left in the slot is a path below it: open can create neither.  *)
(* It may fail for any other name too, and the loop ends.                  *)
Writable(s) == s.file # 0 /\ reqs[s.file].kind = "upload"

OpenFile ==
  /\ up /\ udp.pc = "write" /\ Writable(Mine)
  /\ udp' = [pc |-> "copy", id |-> udp.id, packet |-> udp.packet,
             file |-> Mine.file, feed |-> Mine.feed]
  /\ UNCHANGED <<world, reqs, slot, net, tcp, nfeeds, posts, files, up>>

OpenFileFails ==
  /\ up /\ udp.pc = "write"
  /\ ~ Writable(Mine) \/ world.diskFaults
  /\ udp' = Dead
  /\ UNCHANGED <<world, reqs, slot, net, tcp, nfeeds, posts, files, up>>

SlipAfterWrite(s) == s              \* transfer_clear is forgotten
AfterWrite(s) == Cleared

(* The rest of write_file, with the size and the array as they are now,    *)
(* and transfer_clear.                                                     *)
CopyFile ==
  /\ up /\ udp.pc = "copy" /\ ~ Freed(udp.id)
  /\ files' = files \cup {[file |-> udp.file, feed |-> udp.feed,
                           size |-> Mine.size, blocks |-> Mine.blocks]}
  /\ slot' = [slot EXCEPT ![SlotOf(udp.id)] = AfterWrite(@)]
  /\ udp' = Idle
  /\ UNCHANGED <<world, reqs, net, tcp, nfeeds, posts, up>>

(* memcpy from the array the timeout check has freed. *)
CopyFreed ==
  /\ up /\ udp.pc = "copy" /\ Freed(udp.id)
  /\ up' = FALSE
  /\ UNCHANGED <<world, reqs, slot, net, udp, tcp, nfeeds, posts, files>>

-----------------------------------------------------------------------------
Init ==
  /\ world \in Worlds
  /\ reqs = <<>>
  /\ slot = [id \in Ids |-> Cleared]
  /\ net = [id \in Ids |-> <<>>]
  /\ udp = Idle /\ tcp = Idle
  /\ nfeeds = 1
  /\ posts = <<>>
  /\ files = {}
  /\ up = TRUE

ClientAsks(id) ==
  \/ \E n \in world.feeds, size \in world.sizes : PrepareUpload(id, n, size)
  \/ \E f \in files : PrepareDownload(id, f)

Network == \E id \in Ids : \E k \in DOMAIN net[id] :
             Lose(id, k) \/ Duplicate(id, k)

TcpStep == SendFile \/ ClearDownload \/ TimeoutZero

UdpStep == \/ \E id \in Ids : \E k \in Deliverable(id) : Receive(id, k)
           \/ Store \/ StoreNowhere \/ TestComplete
           \/ OpenFeed \/ OpenFeedFails \/ NumberFeed \/ Announce \/ AnnounceNowhere
           \/ OpenFile \/ OpenFileFails \/ CopyFile \/ CopyFreed

Next == \/ \E id \in Ids : ClientAsks(id) \/ TimeoutFree(id)
        \/ Network \/ TcpStep \/ UdpStep

Spec == Init /\ [][Next]_vars

(* The threads go on; poll returns at least every FT_TIMEOUT_SEC, and the  *)
(* loop then looks at every slot.                                          *)
Fairness == /\ WF_vars(TcpStep) /\ WF_vars(UdpStep)
            /\ \A id \in Ids : WF_vars(TimeoutFree(id))
FairSpec == Spec /\ Fairness

-----------------------------------------------------------------------------
(* Properties *)

Published == [file : 0..MaxRequests, feed : Nat, size : Nat,
              blocks : Seq(Block \cup {Hole})]

(* Slots, datagrams and threads keep their shape, a thread that works on a *)
(* packet has one, and the blocks of a slot stay within those of the       *)
(* largest file (data.c:312-457).                                          *)
TypeOK ==
  /\ world \in Worlds
  /\ reqs \in Seq(Request) /\ Len(reqs) <= MaxRequests
  /\ slot \in [Ids -> Slot]
  /\ \A id \in Ids : slot[id].blocks # <<>> =>
       \E size \in world.sizes : Len(slot[id].blocks) <= NumBlock(size)
  /\ net \in [Ids -> Seq(Packet)]
  /\ udp \in {Idle, Dead}
            \cup [pc : {"store", "test", "feed", "number", "post", "write"},
                  id : Ids, packet : Packet]
            \cup [pc : {"copy"}, id : Ids, packet : Packet,
                  file : 1..MaxRequests, feed : Nat]
  /\ tcp \in {Idle, Dead} \cup [pc : {"send", "clear", "zero"}, id : Ids]
  /\ nfeeds \in Nat
  /\ posts \in Seq(Published) /\ files \in SUBSET Published
  /\ up \in BOOLEAN

(* On a network that keeps order, with clients that wait, a file is        *)
(* announced and written when all its packets are in ("Tous les paquets    *)
(* sont recus, ecriture du fichier sur le disque", data.c:422): its blocks *)
(* are those that were sent, in order, and the size the post announces is  *)
(* that of the file, or one packet more if that is what was sent.          *)
Orderly == world.faults = {} /\ world.patient
Whole(x) == /\ x.file # 0
            /\ x.blocks = Content(x.file, reqs[x.file].size)
            /\ x.size = reqs[x.file].size + Beyond(reqs[x.file].size)
PublishedWhole == Orderly => /\ \A i \in DOMAIN posts : Whole(posts[i])
                             /\ \A f \in files : Whole(f)

(* A request is announced at most once, whatever the network repeats and   *)
(* however the timeout check interferes (data.c:404-407, 452).             *)
OncePerRequest ==
  \A i, j \in DOMAIN posts :
    posts[i].file = posts[j].file /\ posts[i].file # 0 => i = j

(* Uploads do not mix: a slot, and the file made of it, hold blocks of one *)
(* client only (data.c:397).                                               *)
OneClient(f, blocks) ==
  \A i \in DOMAIN blocks :
    blocks[i] # Hole /\ f # 0 => reqs[blocks[i].req].id = reqs[f].id
Isolation == /\ \A id \in Ids : OneClient(slot[id].file, slot[id].blocks)
             /\ \A f \in files : OneClient(f.file, f.blocks)

(* As long as nothing times out either, and every call for a directory or  *)
(* a file that may succeed does, transfers never stop the server           *)
(* (tcp_server.c:127-130, udp_server.c:27-28) ...                          *)
Calm == Orderly /\ ~ world.timeouts /\ ~ world.diskFaults
ServerLives == Calm => up /\ udp.pc # "dead" /\ tcp.pc # "dead"

(* ... and an upload that was accepted is written in the end               *)
(* (data.c:312-457).                                                       *)
UploadWritten(r) == \E f \in files : f.file = r
UploadsComplete ==
  \A r \in 1..MaxRequests :
    (Calm /\ r \in DOMAIN reqs /\ reqs[r].kind = "upload") ~> UploadWritten(r)

(* A transfer the network made impossible to complete does not keep its    *)
(* slot for ever, unless the TCP thread has ended (data.c:345-359).        *)
SlotsReleased ==
  \A id \in Ids : slot[id].active ~> ~ slot[id].active \/ ~ up \/ tcp.pc = "dead"
=============================================================================
