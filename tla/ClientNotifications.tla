------------------------ MODULE ClientNotifications ------------------------
(***************************************************************************)
(* Notifications on the client.  The menu thread subscribes to feeds and   *)
(* prints what has come; the notifications thread sleeps until there is a  *)
(* subscription, then polls their sockets and puts what it receives in the *)
(* queue of the feed.                                                      *)
(*                                                                         *)
(* The queue is filled under the mutex of m_subscriptions and emptied      *)
(* under none, so it is modelled pointer by pointer.  A subscription points*)
(* to its queue in m_notification, which moves when it grows.  Feed k is   *)
(* that of the k-th subscription, and a node is the message in it; 0 is    *)
(* NULL.                                                                   *)
(***************************************************************************)
EXTENDS Naturals, FiniteSetsExt, SequencesExt

CONSTANTS
  InitCap,      \* the elements an array starts with
  MaxSubs,      \* bound: subscriptions
  MaxMsgs       \* bound: notifications that arrive

ASSUME ClientNotificationsAssumption ==
  InitCap \in Nat \ {0} /\ MaxSubs \in Nat /\ MaxMsgs \in Nat

VARIABLES
  queues,       \* m_notification: the queue of each feed
  place,        \* where it is in memory: how often it has moved
  cap,          \* its capacity
  subs,         \* m_subscriptions: descriptor, place of the queue
  next,         \* the nodes' pointers
  freed,        \* the nodes freed
  menu,         \* the menu thread
  center,       \* the notifications thread, and its m_fds
  sockets,      \* the feed whose group each open socket is in
  net,          \* the datagrams each socket has
  arrived,      \* those it ever had, by feed
  shown,        \* what the menu printed, by feed
  overlap,      \* a queue was filled and emptied at the same time
  up            \* the process has not been killed by an invalid access

tableVars == <<place, cap, subs>>
sharedVars == <<queues, tableVars, next, freed>>
outsideVars == <<sockets, net, arrived>>
vars == <<sharedVars, menu, center, outsideVars, shown, overlap, up>>

Msgs == 1..MaxMsgs
Node == 0..MaxMsgs
NULL == 0
Empty == [head |-> NULL, tail |-> NULL, length |-> 0]   \* queue_init

Goto(thread, l) == [thread EXCEPT !.pc = l]

(* NULL is read, or memory that was freed.  *)
Killed == up' = FALSE /\ UNCHANGED <<sharedVars, menu, center, shown, overlap>>

-----------------------------------------------------------------------------
(* The menu thread: client_callback for a subscription *)

(* The socket gets the lowest descriptor but that of the connection.  When *)
(* bind fails or the group cannot be joined it is closed, and used as if   *)
(* it were not.                                                            *)
Subscribe(joined) ==
  LET fd == Len(sockets) + 1
      k == Len(queues) + 1 IN
  /\ up /\ menu.pc = "idle" /\ k <= MaxSubs
  /\ sockets' = IF joined THEN Append(sockets, k) ELSE sockets
  /\ net' = IF joined THEN Append(net, <<>>) ELSE net
  /\ menu' = [menu EXCEPT !.pc = "notif", !.fd = fd]
  /\ UNCHANGED <<sharedVars, center, arrived, shown, overlap, up>>

(* subscription_add, under the mutex of m_notification: realloc may leave  *)
(* the array where it is.                                                  *)
AddQueue ==
  /\ up /\ menu.pc = "notif"
  /\ queues' = Append(queues, Empty)
  /\ IF Len(queues) < cap THEN UNCHANGED <<cap, place>>
     ELSE cap' = 2 * cap /\ place' \in {place, place + 1}
  /\ menu' = Goto(menu, "subscribe")
  /\ UNCHANGED <<subs, next, freed, center, outsideVars, shown, overlap, up>>

(* Then, under the other, which add_notif holds while it enqueues.  Only   *)
(* the first subscription is signalled.                                    *)
Enqueuing == center.pc \in {"first", "link", "tail", "count", "counted"}

SlipSignalled(n) == n - 1 = 1   \* the length before the append
Signalled(n) == n = 1

AddSubscription ==
  /\ up /\ menu.pc = "subscribe" /\ ~ Enqueuing
  /\ subs' = Append(subs, [fd |-> menu.fd, place |-> place])
  /\ center' = IF Signalled(Len(subs')) /\ center.pc = "asleep"
               THEN Goto(center, "wait") ELSE center
  /\ menu' = Goto(menu, "idle")
  /\ UNCHANGED <<queues, place, cap, next, freed, outsideVars, shown, overlap,
                 up>>

-----------------------------------------------------------------------------
(* The menu thread: print_notif, which takes the feeds in turn.  menu.k is *)
(* the feed, menu.node what dequeue returns.                               *)

Queue == queues[menu.k]
SetQueue(q) == queues' = [queues EXCEPT ![menu.k] = q]

PrintNotif ==
  /\ up /\ menu.pc = "idle" /\ queues # <<>>
  /\ menu' = [menu EXCEPT !.pc = "look", !.k = 1]
  /\ UNCHANGED <<sharedVars, center, outsideVars, shown, overlap, up>>

(* The length is 0: on to the next feed. *)
NoMore ==
  /\ up /\ menu.pc = "look" /\ Queue.length = 0
  /\ menu' = IF menu.k < Len(queues) THEN [menu EXCEPT !.k = @ + 1]
             ELSE Goto(menu, "idle")
  /\ UNCHANGED <<sharedVars, center, outsideVars, shown, overlap, up>>

(* dequeue *)
SlipMore(q) == q.length > 2
More(q) == q.length > 1

Dequeue ==
  /\ up /\ menu.pc = "look" /\ Queue.length # 0
  /\ menu' = [menu EXCEPT !.node = Queue.head,
                          !.pc = IF More(Queue) THEN "next" ELSE "empty"]
  /\ overlap' = (overlap \/ (Enqueuing /\ center.k = menu.k))
  /\ UNCHANGED <<sharedVars, center, outsideVars, shown, up>>

Unlink ==
  /\ up /\ menu.pc \in {"next", "empty"}
  /\ \/ /\ menu.pc = "empty"
        /\ SetQueue([Queue EXCEPT !.head = NULL, !.tail = NULL])
        /\ menu' = Goto(menu, "uncount")
        /\ UNCHANGED <<tableVars, next, freed, center, shown, overlap, up>>
     \/ /\ menu.pc = "next" /\ Queue.head # NULL
        /\ SetQueue([Queue EXCEPT !.head = next[Queue.head]])
        /\ menu' = Goto(menu, "uncount")
        /\ UNCHANGED <<tableVars, next, freed, center, shown, overlap, up>>
     \/ menu.pc = "next" /\ Queue.head = NULL /\ Killed
  /\ UNCHANGED outsideVars

(* length is read, and written: no atomic access. *)
Uncount ==
  /\ up /\ menu.pc = "uncount"
  /\ menu' = [menu EXCEPT !.pc = "uncounted", !.n = Queue.length]
  /\ UNCHANGED <<sharedVars, center, outsideVars, shown, overlap, up>>

Uncounted ==
  /\ up /\ menu.pc = "uncounted"
  /\ SetQueue([Queue EXCEPT !.length = menu.n - 1])
  /\ menu' = [menu EXCEPT !.pc = "show", !.n = 0]
  /\ UNCHANGED <<tableVars, next, freed, center, outsideVars, shown, overlap,
                 up>>

(* The end of dequeue, the message is printed, and node_free. *)
Show ==
  /\ up /\ menu.pc = "show"
  /\ \/ /\ menu.node # NULL
        /\ next' = [next EXCEPT ![menu.node] = NULL]
        /\ freed' = freed \cup {menu.node}
        /\ shown' = [shown EXCEPT ![menu.k] = Append(@, menu.node)]
        /\ menu' = [menu EXCEPT !.pc = "look", !.node = NULL]
        /\ UNCHANGED <<queues, tableVars, center, overlap, up>>
     \/ menu.node = NULL /\ Killed
  /\ UNCHANGED outsideVars

-----------------------------------------------------------------------------
(* The network *)

Arrivals == UNION {Range(arrived[k]) : k \in DOMAIN arrived}

Arrive(fd) ==
  /\ up /\ Msgs \ Arrivals # {}
  /\ LET m == Min(Msgs \ Arrivals) IN
     /\ net' = [net EXCEPT ![fd] = Append(@, m)]
     /\ arrived' = [arrived EXCEPT ![sockets[fd]] = Append(@, m)]
  /\ UNCHANGED <<sharedVars, menu, center, sockets, shown, overlap, up>>

-----------------------------------------------------------------------------
(* The notifications thread: notifications_center_loop *)

(* wait_notif *)
Wait ==
  /\ up /\ center.pc = "wait"
  /\ center' = Goto(center, IF subs = <<>> THEN "asleep" ELSE "refresh")
  /\ UNCHANGED <<sharedVars, menu, outsideVars, shown, overlap, up>>

(* pthread_cond_wait may return without a signal. *)
Wake ==
  /\ up /\ center.pc = "asleep"
  /\ center' = Goto(center, "wait")
  /\ UNCHANGED <<sharedVars, menu, outsideVars, shown, overlap, up>>

(* refresh_fds: the new subscriptions *)
SlipRefreshed(fds) == fds \o [k \in DOMAIN subs |-> subs[k].fd]
Refreshed(fds) ==
  fds \o SubSeq([k \in DOMAIN subs |-> subs[k].fd], Len(fds) + 1, Len(subs))

Refresh ==
  /\ up /\ center.pc = "refresh"
  /\ center' = [center EXCEPT !.pc = "poll", !.fds = Refreshed(@)]
  /\ UNCHANGED <<sharedVars, menu, outsideVars, shown, overlap, up>>

(* poll: the first socket that has something to read is read until it has  *)
(* nothing more, and then on, for recvfrom waits: the thread never comes   *)
(* back to the others.                                                     *)
Readable == {i \in DOMAIN center.fds : /\ center.fds[i] \in DOMAIN net
                                      /\ net[center.fds[i]] # <<>>}

Poll ==
  /\ up /\ center.pc = "poll" /\ Readable # {}
  /\ center' = [center EXCEPT !.pc = "recv", !.fd = center.fds[Min(Readable)]]
  /\ UNCHANGED <<sharedVars, menu, outsideVars, shown, overlap, up>>

(* After a minute, or at once because of a descriptor that is closed.      *)
PollNothing ==
  /\ up /\ center.pc = "poll" /\ Readable = {}
  /\ center' = Goto(center, "refresh")
  /\ UNCHANGED <<sharedVars, menu, outsideVars, shown, overlap, up>>

Receive ==
  /\ up /\ center.pc = "recv" /\ net[center.fd] # <<>>
  /\ center' = [center EXCEPT !.pc = "add", !.msg = Head(net[center.fd])]
  /\ net' = [net EXCEPT ![center.fd] = Tail(@)]
  /\ UNCHANGED <<sharedVars, menu, sockets, arrived, shown, overlap, up>>

-----------------------------------------------------------------------------
(* add_notif, and enqueue *)

Target == queues[center.k]
SetTarget(q) == queues' = [queues EXCEPT ![center.k] = q]

SlipSubscriptionOf(fd) == 1     \* any will do
SubscriptionOf(fd) == Min({k \in DOMAIN subs : subs[k].fd = fd})

AddNotif ==
  /\ up /\ center.pc = "add"
  /\ LET k == SubscriptionOf(center.fd) IN
     /\ center' = [center EXCEPT !.k = k,
                     !.pc = IF queues[k].length = 0 THEN "first" ELSE "link"]
     /\ overlap' = (overlap \/ (menu.k = k /\ menu.pc \in
                      {"next", "empty", "uncount", "uncounted", "show"}))
  /\ UNCHANGED <<sharedVars, menu, outsideVars, shown, up>>

InPlace == subs[center.k].place = place

LinkFirst ==
  /\ up /\ center.pc = "first" /\ InPlace
  /\ SetTarget([Target EXCEPT !.head = center.msg, !.tail = center.msg])
  /\ center' = Goto(center, "count")
  /\ UNCHANGED <<tableVars, next, freed, menu, outsideVars, shown, overlap,
                 up>>

Link ==
  /\ up /\ center.pc = "link" /\ InPlace /\ Target.tail # NULL
  /\ next' = IF Target.tail \in freed THEN next
             ELSE [next EXCEPT ![Target.tail] = center.msg]
  /\ center' = Goto(center, "tail")
  /\ UNCHANGED <<queues, tableVars, freed, menu, outsideVars, shown, overlap,
                 up>>

MoveTail ==
  /\ up /\ center.pc = "tail" /\ InPlace
  /\ SetTarget([Target EXCEPT !.tail = center.msg])
  /\ center' = Goto(center, "count")
  /\ UNCHANGED <<tableVars, next, freed, menu, outsideVars, shown, overlap,
                 up>>

Count ==
  /\ up /\ center.pc = "count" /\ InPlace
  /\ center' = [center EXCEPT !.pc = "counted", !.n = Target.length]
  /\ UNCHANGED <<sharedVars, menu, outsideVars, shown, overlap, up>>

Counted ==
  /\ up /\ center.pc = "counted" /\ InPlace
  /\ SetTarget([Target EXCEPT !.length = center.n + 1])
  /\ center' = [center EXCEPT !.pc = "recv", !.msg = NULL, !.n = 0]
  /\ UNCHANGED <<tableVars, next, freed, menu, outsideVars, shown, overlap,
                 up>>

(* The array of queues has moved since the subscription was made: what is  *)
(* left of it takes the message, or the access kills the process.          *)
EnqueueElsewhere ==
  /\ up /\ Enqueuing /\ ~ InPlace
  /\ center' = [center EXCEPT !.pc = "recv", !.msg = NULL, !.n = 0]
  /\ UNCHANGED <<sharedVars, menu, outsideVars, shown, overlap, up>>

EnqueueKills ==
  /\ \/ Enqueuing /\ ~ InPlace
     \/ center.pc = "link" /\ Target.tail \in freed \cup {NULL}
  /\ up /\ Killed /\ UNCHANGED outsideVars

-----------------------------------------------------------------------------
Init ==
  /\ queues = <<>> /\ place = 0 /\ cap = InitCap
  /\ subs = <<>>
  /\ next = [m \in Msgs |-> NULL] /\ freed = {}
  /\ menu = [pc |-> "idle", fd |-> 0, k |-> 0, node |-> NULL, n |-> 0]
  /\ center = [pc |-> "wait", fds |-> <<>>, fd |-> 0, msg |-> NULL, k |-> 0,
               n |-> 0]
  /\ sockets = <<>> /\ net = <<>>
  /\ arrived = [k \in 1..MaxSubs |-> <<>>]
  /\ shown = [k \in 1..MaxSubs |-> <<>>]
  /\ overlap = FALSE /\ up = TRUE

User == (\E joined \in BOOLEAN : Subscribe(joined)) \/ PrintNotif

MenuStep ==
  \/ AddQueue \/ AddSubscription
  \/ NoMore \/ Dequeue \/ Unlink \/ Uncount \/ Uncounted \/ Show

CenterStep ==
  \/ Wait \/ Refresh \/ Poll \/ PollNothing \/ Receive
  \/ AddNotif \/ LinkFirst \/ Link \/ MoveTail \/ Count \/ Counted
  \/ EnqueueElsewhere \/ EnqueueKills

Next == \/ User \/ MenuStep \/ CenterStep \/ Wake
        \/ \E fd \in DOMAIN sockets : Arrive(fd)

Spec == Init /\ [][Next]_vars

(* Both threads go on.  Nothing is assumed of the user, nor of datagrams.  *)
Fairness == WF_vars(MenuStep) /\ WF_vars(CenterStep)
FairSpec == Spec /\ Fairness

-----------------------------------------------------------------------------
(* Properties *)

(* The locals of the threads fit where they are, the descriptors polled    *)
(* are those of the first subscriptions, and no pointer of a queue or of a *)
(* subscription leads outside, though queues may be wrong once they have   *)
(* been filled and emptied at the same time (client/data.c:163-277).       *)
TypeOK ==
  /\ queues \in Seq([head : Node, tail : Node, length : Nat])
  /\ place \in Nat /\ cap \in Nat /\ Len(queues) <= cap
  /\ subs \in Seq([fd : 1..MaxSubs, place : 0..place])
  /\ Len(subs) \in {Len(queues), Len(queues) - 1}
  /\ next \in [Msgs -> Node] /\ freed \subseteq Msgs
  /\ \A k \in DOMAIN queues : queues[k].head \notin freed
  /\ menu.pc \in {"idle", "notif", "subscribe", "look", "next", "empty",
                  "uncount", "uncounted", "show"}
  /\ menu.pc \in {"look", "next", "empty", "uncount", "uncounted", "show"} =>
       menu.k \in DOMAIN queues
  /\ menu.node \in Node \ freed /\ menu.n \in Nat
  /\ menu.pc = "uncounted" => menu.n > 0
  /\ center.pc \in {"wait", "asleep", "refresh", "poll", "recv", "add",
                    "first", "link", "tail", "count", "counted"}
  /\ Enqueuing => center.k \in DOMAIN subs /\ center.msg \in Msgs
  /\ Len(center.fds) <= Len(subs)
  /\ \A k \in DOMAIN center.fds : center.fds[k] = subs[k].fd
  /\ center.pc = "recv" => center.fd \in DOMAIN net
  /\ sockets \in Seq(1..MaxSubs) /\ Len(net) = Len(sockets)

(* What is printed under a feed came on its group, in order and nothing    *)
(* twice, even when the queue is filled while it is printed, unless a      *)
(* socket was closed and its descriptor given to another subscription      *)
(* (tcp_client.c:121-150, 198-225, client/data.c:197-218, queue.c:20-66).  *)
Joined == \A k \in DOMAIN queues : \E fd \in DOMAIN sockets : sockets[fd] = k
ShownInOrder ==
  Joined => \A k \in DOMAIN queues : \A i, j \in DOMAIN shown[k] :
              /\ shown[k][i] \in Range(arrived[k])
              /\ i < j => shown[k][i] < shown[k][j]

(* What came for a feed is printed, or in its queue, or still to be read,  *)
(* as long as queues do not move and none is filled while it is printed:   *)
(* the mutex does not see to that (client/data.c:197-254).                 *)
AtRest(k) == /\ center.k = k => ~ Enqueuing
             /\ center.pc = "add" => SubscriptionOf(center.fd) # k
             /\ menu.k = k => menu.pc \in {"idle", "notif", "subscribe",
                                           "look"}
Chain(k) ==
  LET node[i \in 1..queues[k].length] ==
        IF i = 1 THEN queues[k].head ELSE next[node[i - 1]]
  IN [i \in 1..queues[k].length |-> node[i]]

NothingLost ==
  up /\ Joined /\ ~ overlap /\ place = 0 =>
    \A k \in DOMAIN subs : AtRest(k) =>
      shown[k] \o Chain(k) \o net[subs[k].fd] = arrived[k]

(* The thread is woken by the first subscription, and takes whatever comes *)
(* on its socket.  With a second subscription it may not: it stays with    *)
(* the socket it read from first (notifications_center.c:12-68,            *)
(* client/data.c:100-108, 186-192).                                        *)
Waiting(fd) == fd \in DOMAIN net /\ net[fd] # <<>>
NotificationsTaken ==
  \A fd \in 1..MaxSubs :
    Waiting(fd) ~> ~ Waiting(fd) \/ Len(queues) > 1 \/ ~ up
=============================================================================
