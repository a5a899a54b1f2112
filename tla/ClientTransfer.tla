--------------------------- MODULE ClientTransfer ---------------------------
(***************************************************************************)
(* File transfers on the client: m_tranfer_file, one slot for uploads and  *)
(* downloads, shared by the menu thread and the UDP thread.                *)
(*                                                                         *)
(* For a download the menu thread prepares the slot, opens a socket, asks  *)
(* the server and wakes the UDP thread, which receives the file on the     *)
(* socket it finds in the slot and saves it.  For an upload the slot only  *)
(* keeps the path of the file until it has been sent.  The server is seen  *)
(* through its answers and the datagrams it sends.                         *)
(***************************************************************************)
EXTENDS FileBlocks, SequencesExt

CONSTANTS
  MaxRequests,  \* bound: transfers asked for
  Worlds        \* what user, network, clock and disk may do

(* A world says which sizes files have, how many transfers are asked for,  *)
(* what the network does, whether the user waits until the UDP thread is   *)
(* done, whether FT_TIMEOUT_SEC may pass during a transfer or an answer,   *)
(* and whether a call for a file may fail whatever its path is: there is   *)
(* no home, the disk is full, permissions lack.                            *)
ASSUME ClientTransferAssumption ==
  /\ MaxRequests \in Nat
  /\ \A w \in Worlds :
       /\ w.sizes \subseteq FileSizes
       /\ \A size \in w.sizes : NumBlock(size) <= MaxBlocks
       /\ w.requests \in 0..MaxRequests
       /\ w.faults \subseteq {"loss", "reorder"}
       /\ w.patient \in BOOLEAN /\ w.slow \in BOOLEAN /\ w.diskFaults \in BOOLEAN

VARIABLES
  world,        \* the one of Worlds this is
  reqs,         \* the transfers asked for; a file is the index of its request
  slot,         \* m_tranfer_file
  menu,         \* the menu thread
  udp,          \* the UDP thread, and the socket it polls
  todo,         \* the datagrams the server has still to send
  net,          \* the datagrams that have come to each socket
  open,         \* the sockets open; that of a download is its index
  stray,        \* a descriptor was closed that no open socket has
  saved         \* the files written under the user's home

vars == <<world, reqs, slot, menu, udp, todo, net, open, stray, saved>>
fileVars == <<slot, open, stray, saved>>
netVars == <<world, reqs, todo, net>>

Requests == 1..MaxRequests
Block == [req : Requests, num : 1..MaxBlocks]
Packet == [block : Block, len : 0..FullLen, copied : {FALSE}]
Slot == [active : BOOLEAN, file : 0..MaxRequests, sfd : 0..MaxRequests,
         blocks : Seq(Block \cup {Hole}), last : 0..MaxBlocks, size : Nat]

(* What transfer_clear leaves: the empty path, and descriptor 0. *)
Cleared == [active |-> FALSE, file |-> 0, sfd |-> 0, blocks |-> <<>>,
            last |-> 0, size |-> 0]
Fresh(r) == [Cleared EXCEPT !.active = TRUE, !.file = r]

Close(s) == /\ open' = open \ {s}
            /\ stray' = (stray \/ s \notin open)

-----------------------------------------------------------------------------
(* The menu thread *)

NextRequest == Len(reqs) + 1

(* A user who sees that the thread has nothing more to do. *)
Ready == /\ menu.pc = "idle" /\ NextRequest <= world.requests
         /\ world.patient => udp.pc \in {"asleep", "dead"}

(* transfer_new, which replaces whatever transfer there is. *)
NewTransfer(kind, size) ==
  /\ reqs' = Append(reqs, [kind |-> kind, size |-> size])
  /\ slot' = Fresh(NextRequest)
  /\ UNCHANGED <<world, udp, todo, net, open, stray, saved>>

(* create_rqdl *)
AskDownload(size) ==
  /\ Ready
  /\ NewTransfer("download", size)
  /\ menu' = [pc |-> "socket", req |-> NextRequest]

(* create_transfer_address *)
SetAddress ==
  /\ menu.pc = "socket"
  /\ open' = open \cup {menu.req}
  /\ slot' = IF slot.active THEN [slot EXCEPT !.sfd = menu.req] ELSE slot
  /\ menu' = [menu EXCEPT !.pc = "ask"]
  /\ UNCHANGED <<udp, stray, saved, netVars>>

(* create_request for an upload *)
AskUpload ==
  /\ Ready
  /\ \E size \in world.sizes : NewTransfer("upload", size)
  /\ menu' = [pc |-> "offer", req |-> NextRequest]

Accept ==
  /\ menu.pc \in {"ask", "offer"}
  /\ IF menu.pc = "ask"
     THEN /\ todo' = [todo EXCEPT ![menu.req] =
                        Packets(menu.req, reqs[menu.req].size)]
          /\ menu' = [menu EXCEPT !.pc = "signal"]
     ELSE /\ menu' = [menu EXCEPT !.pc = "open"]
          /\ UNCHANGED todo
  /\ UNCHANGED <<world, reqs, udp, net, fileVars>>

(* An error is printed, and the transfer stays prepared. *)
Refuse ==
  /\ menu.pc \in {"ask", "offer"}
  /\ menu' = [pc |-> "idle"]
  /\ UNCHANGED <<udp, netVars, fileVars>>

(* Connecting, sending or receiving fails: the loop ends. *)
LoseServer ==
  /\ menu.pc \in {"ask", "offer"}
  /\ menu' = [pc |-> "dead"]
  /\ UNCHANGED <<udp, netVars, fileVars>>

(* signal_transfer, which takes no mutex. *)
SlipAwakened == udp                     \* nobody is signalled
Awakened == IF udp.pc = "asleep" THEN [udp EXCEPT !.pc = "wait"] ELSE udp

Signal ==
  /\ menu.pc = "signal"
  /\ udp' = Awakened
  /\ menu' = [pc |-> "idle"]
  /\ UNCHANGED <<netVars, fileVars>>

(* create_ftransfer_requests opens the path the slot holds by now.  If it  *)
(* is empty, or the disk fails, the loop ends.                             *)
OpenUpload ==
  /\ menu.pc = "open"
  /\ \/ slot.file # 0 /\ menu' = [menu EXCEPT !.pc = "send"]
     \/ (slot.file = 0 \/ world.diskFaults) /\ menu' = [pc |-> "dead"]
  /\ UNCHANGED <<udp, netVars, fileVars>>

(* The file is sent, and clear_current_transfer. *)
FinishUpload ==
  /\ menu.pc = "send"
  /\ slot' = Cleared
  /\ menu' = [pc |-> "idle"]
  /\ UNCHANGED <<udp, open, stray, saved, netVars>>

(* No socket, which leaves the slot, or a packet cannot be sent: the loop  *)
(* ends.                                                                   *)
UploadFails ==
  /\ menu.pc = "send"
  /\ slot' \in {slot, Cleared}
  /\ menu' = [pc |-> "dead"]
  /\ UNCHANGED <<udp, open, stray, saved, netVars>>

-----------------------------------------------------------------------------
(* The server and the network *)

ServerSends(r) ==
  /\ todo[r] # <<>>
  /\ todo' = [todo EXCEPT ![r] = Tail(@)]
  /\ net' = [net EXCEPT ![r] = Append(@, Head(todo[r]))]
  /\ UNCHANGED <<world, reqs, menu, udp, fileVars>>

Lose(r, k) ==
  /\ "loss" \in world.faults /\ r \in open
  /\ net' = [net EXCEPT ![r] = RemoveAt(@, k)]
  /\ UNCHANGED <<world, reqs, todo, menu, udp, fileVars>>

Deliverable(r) == IF "reorder" \in world.faults THEN DOMAIN net[r]
                  ELSE DOMAIN net[r] \cap {1}

-----------------------------------------------------------------------------
(* The UDP thread: udp_client_loop *)

Goto(l) == [udp EXCEPT !.pc = l]

(* wait_transfer *)
Wait ==
  /\ udp.pc = "wait"
  /\ udp' = IF slot.sfd = 0 THEN Goto("asleep")
            ELSE [pc |-> "check", fds |-> slot.sfd]
  /\ UNCHANGED <<menu, netVars, fileVars>>

(* pthread_cond_wait may return without a signal. *)
Wake ==
  /\ udp.pc = "asleep"
  /\ udp' = Goto("wait")
  /\ UNCHANGED <<menu, netVars, fileVars>>

(* check_transfer_timeout *)
CheckTimeout ==
  /\ udp.pc = "check" /\ world.slow /\ slot.active
  /\ Close(slot.sfd)
  /\ slot' = Cleared
  /\ udp' = Goto("wait")
  /\ UNCHANGED <<saved, menu, netVars>>

CheckPasses ==
  /\ udp.pc = "check"
  /\ udp' = Goto("poll")
  /\ UNCHANGED <<menu, netVars, fileVars>>

Poll ==
  /\ udp.pc = "poll" /\ udp.fds \in open
  /\ net[udp.fds] # <<>>
  /\ udp' = Goto("recv")
  /\ UNCHANGED <<menu, netVars, fileVars>>

(* Nothing came for FT_TIMEOUT_SEC. *)
SlipSilent(s) == FALSE                  \* poll without a timeout
Silent(s) == /\ net[s] = <<>>
             /\ world.slow \/ (todo[s] = <<>>
                         /\ ~ (menu.pc = "ask" /\ menu.req = s))

SlipAfterSilence == "wait"              \* the socket stays in the slot
AfterSilence == "reset"

PollTimeout ==
  /\ udp.pc = "poll" /\ udp.fds \in open
  /\ Silent(udp.fds)
  /\ Close(udp.fds)
  /\ udp' = Goto(AfterSilence)
  /\ UNCHANGED <<slot, saved, menu, netVars>>

(* The socket has no more for now. *)
RecvNothing ==
  /\ udp.pc = "recv" /\ net[udp.fds] = <<>>
  /\ udp' = Goto("check")
  /\ UNCHANGED <<menu, netVars, fileVars>>

Take(k) ==
  /\ udp.pc = "recv" /\ k \in Deliverable(udp.fds)
  /\ net' = [net EXCEPT ![udp.fds] = RemoveAt(@, k)]
  /\ UNCHANGED <<world, reqs, todo, menu>>

SlipBlockIndex(p) == p.block.num + 1    \* counting from 1 twice
BlockIndex(p) == p.block.num

SlipLastPacket(s, p) == IF p.len < FullLen THEN p.block.num - 1 ELSE s.last
LastPacket(s, p) == IF p.len < FullLen THEN p.block.num ELSE s.last

SlipComplete(s) == Len(s.blocks) >= s.last
Complete(s) == Len(s.blocks) = s.last

(* The slot with one more packet; a packet nobody asked for is dropped.    *)
Stored(p) ==
  IF ~ slot.active THEN slot
  ELSE [slot EXCEPT !.last = LastPacket(slot, p),
                    !.blocks = SetBlock(@, BlockIndex(p), p.block),
                    !.size = @ + p.len]

Full(s) == s.active /\ Complete(s)

(* add_packet, before the last packet *)
AddPacket(k) ==
  /\ Take(k)
  /\ ~ Full(Stored(net[udp.fds][k]))
  /\ slot' = Stored(net[udp.fds][k])
  /\ UNCHANGED <<udp, open, stray, saved>>

(* transfer_clear comes after close. *)
SlipClosedAtEnd(s) == 0                 \* cleared, then closed
ClosedAtEnd(s) == s.sfd

SaveFile(k) ==
  LET s == Stored(net[udp.fds][k]) IN
  /\ Take(k)
  /\ Full(s)
  /\ saved' = saved \cup {[file |-> s.file, blocks |-> s.blocks,
                           size |-> s.size]}
  /\ Close(ClosedAtEnd(s))
  /\ slot' = Cleared
  /\ udp' = Goto("reset")

(* write_file cannot create the file: the path in the slot is that of an   *)
(* upload, below no directory there is, or the disk fails.                 *)
SaveFails(k) ==
  LET s == Stored(net[udp.fds][k]) IN
  /\ Take(k)
  /\ Full(s)
  /\ reqs[s.file].kind = "upload" \/ world.diskFaults
  /\ slot' = s
  /\ udp' = Goto("fail")
  /\ UNCHANGED <<open, stray, saved>>

(* reset_transfer_socket, in a critical section of its own *)
Reset ==
  /\ udp.pc \in {"reset", "fail"}
  /\ slot' = [slot EXCEPT !.sfd = 0]
  /\ udp' = Goto(IF udp.pc = "reset" THEN "wait" ELSE "dead")
  /\ UNCHANGED <<open, stray, saved, menu, netVars>>

-----------------------------------------------------------------------------
Init ==
  /\ world \in Worlds
  /\ reqs = <<>>
  /\ slot = Cleared
  /\ menu = [pc |-> "idle"]
  /\ udp = [pc |-> "wait", fds |-> 0]
  /\ todo = [r \in Requests |-> <<>>]
  /\ net = [r \in Requests |-> <<>>]
  /\ open = {}
  /\ stray = FALSE
  /\ saved = {}

User == (\E size \in world.sizes : AskDownload(size)) \/ AskUpload

Server == Accept \/ Refuse \/ LoseServer

MenuStep == SetAddress \/ Signal \/ OpenUpload \/ FinishUpload \/ UploadFails

UdpStep ==
  \/ Wait \/ CheckTimeout \/ CheckPasses \/ Poll \/ PollTimeout
  \/ RecvNothing \/ Reset
  \/ \E r \in Requests : \E k \in DOMAIN net[r] :
       r = udp.fds /\ (AddPacket(k) \/ SaveFile(k) \/ SaveFails(k))

Network == \E r \in Requests :
             ServerSends(r) \/ \E k \in DOMAIN net[r] : Lose(r, k)

Next == User \/ Server \/ MenuStep \/ UdpStep \/ Wake \/ Network

Spec == Init /\ [][Next]_vars

(* Both threads go on, and the server sends what it has accepted to send.  *)
Fairness == /\ WF_vars(MenuStep) /\ WF_vars(UdpStep)
            /\ \A r \in Requests : WF_vars(ServerSends(r))
FairSpec == Spec /\ Fairness

-----------------------------------------------------------------------------
(* Properties *)

File == [file : Requests, blocks : Seq(Block \cup {Hole}), size : Nat]

(* The slot, the datagrams and the threads keep their shape, and the       *)
(* blocks received stay within those of the largest file (data.c:110-123,  *)
(* 335-375).                                                               *)
TypeOK ==
  /\ world \in Worlds
  /\ reqs \in Seq([kind : {"download", "upload"}, size : FileSizes])
  /\ slot \in Slot
  /\ slot.blocks # <<>> =>
       \E size \in world.sizes : Len(slot.blocks) <= NumBlock(size)
  /\ menu \in {[pc |-> "idle"], [pc |-> "dead"]}
             \cup [pc : {"socket", "ask", "offer", "signal", "open", "send"},
                   req : DOMAIN reqs]
  /\ udp \in [pc : {"wait", "asleep", "check", "poll", "recv", "reset",
                    "fail", "dead"}, fds : 0..MaxRequests]
  /\ todo \in [Requests -> Seq(Packet)] /\ net \in [Requests -> Seq(Packet)]
  /\ open \subseteq Requests /\ stray \in BOOLEAN
  /\ saved \in SUBSET File

(* On a good network, with a user who waits, what is saved is a file that  *)
(* was asked for, with all its blocks in order (client/data.c:350-371),    *)
(* although one slot serves every transfer.  Its size is that of the file, *)
(* or one packet more if it fills its packets and that is what was sent    *)
(* (request.c:122-124).                                                    *)
Calm == world.faults = {} /\ world.patient /\ ~ world.slow
DownloadWhole ==
  Calm => \A f \in saved :
            /\ reqs[f.file].kind = "download"
            /\ f.blocks = Content(f.file, reqs[f.file].size)
            /\ f.size = reqs[f.file].size + Beyond(reqs[f.file].size)

(* The client then only closes sockets it has open: the descriptor in a    *)
(* zeroed slot is that of the user's terminal (client/data.c:367, 385,     *)
(* udp_client.c:60).                                                       *)
NoStrayClose == Calm => ~ stray

(* Whatever the user does meanwhile, the UDP thread never polls a socket   *)
(* that was closed, where poll would return at once for ever               *)
(* (udp_client.c:47-88).                                                   *)
PollsOpenSocket == udp.pc \in {"check", "poll", "recv"} => udp.fds \in open

(* A download the server accepts is then saved in the end, as long as the  *)
(* disk does not fail: the signal that announces it is not lost and its    *)
(* socket is not forgotten (client/data.c:403-418, udp_client.c:71-89).    *)
DownloadsSaved ==
  \A r \in Requests :
    (Calm /\ ~ world.diskFaults /\ menu.pc = "signal" /\ menu.req = r) ~>
      \E f \in saved : f.file = r

(* However many datagrams get lost and however often the slot is taken     *)
(* over, the UDP thread comes back to wait for the next download when time *)
(* passes                                                                  *)
(* (udp_client.c:47-67).                                                   *)
UdpComesBack == world.slow /\ udp.pc = "check" ~> udp.pc \in {"wait", "dead"}
=============================================================================
