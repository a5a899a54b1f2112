--------------------- MODULE ClientNotificationsProofs ---------------------
(***************************************************************************)
(* Proofs about ClientNotifications.tla, for any capacity of the arrays    *)
(* and any number of subscriptions and notifications.                      *)
(***************************************************************************)
EXTENDS ClientNotifications, NaturalsInduction, WellFoundedInduction,
        SequenceTheorems, TLAPS

(* The notifications thread has read from a socket, and stays with it.     *)
Reading == center.pc \in {"recv", "add", "first", "link", "tail", "count",
                          "counted"}
(* It holds a message, which is in no queue yet.                           *)
InHand == center.pc \in {"add", "first", "link"}
(* The menu thread is in dequeue, or prints what it got.                   *)
Emptying == menu.pc \in {"next", "empty", "uncount", "uncounted", "show"}

QueueType == [head : Node, tail : Node, length : Nat]
SubType == [fd : 1..MaxSubs, place : Nat]
MenuType == [pc : {"idle", "notif", "subscribe", "look", "next", "empty",
                   "uncount", "uncounted", "show"},
             fd : 0..MaxSubs, k : 0..MaxSubs, node : Node, n : Nat]
CenterType == [pc : {"wait", "asleep", "refresh", "poll", "recv", "add",
                     "first", "link", "tail", "count", "counted"},
               fds : Seq(1..MaxSubs), fd : 0..MaxSubs, msg : Node,
               k : 0..MaxSubs, n : Nat]

-----------------------------------------------------------------------------
(* The inductive invariants *)

TableTyped ==
  /\ queues \in Seq(QueueType) /\ Len(queues) <= MaxSubs
  /\ place \in Nat /\ cap \in Nat \ {0} /\ Len(queues) <= cap
  /\ subs \in Seq(SubType)
  /\ \A k \in DOMAIN subs : subs[k].place <= place
  /\ Len(queues) = Len(subs) + IF menu.pc = "subscribe" THEN 1 ELSE 0

MenuTyped ==
  /\ menu \in MenuType
  /\ menu.pc \in {"notif", "subscribe"} => menu.fd # 0
  /\ menu.pc = "notif" => Len(queues) < MaxSubs
  /\ menu.pc = "look" \/ Emptying => menu.k \in DOMAIN queues

CenterTyped ==
  /\ center \in CenterType
  /\ Len(center.fds) <= Len(subs)
  /\ \A k \in DOMAIN center.fds : center.fds[k] = subs[k].fd
  /\ Reading => /\ center.fd \in DOMAIN net
                /\ \E k \in DOMAIN subs : subs[k].fd = center.fd
  /\ Enqueuing \/ center.pc = "add" => center.msg # NULL
  /\ Enqueuing => center.k # 0

OutsideTyped ==
  /\ sockets \in Seq(1..MaxSubs)
  /\ Len(sockets) <= Len(queues) + IF menu.pc = "notif" THEN 1 ELSE 0
  /\ net \in Seq(Seq(Msgs)) /\ Len(net) = Len(sockets)
  /\ arrived \in [1..MaxSubs -> Seq(Msgs)]
  /\ shown \in [1..MaxSubs -> Seq(Msgs)]

(* Only one queue is ever filled, that of the socket read from.            *)
OneQueue ==
  /\ center.k # 0 => Reading /\ center.k \in DOMAIN subs
                     /\ center.k = SubscriptionOf(center.fd)
  /\ \A k \in DOMAIN queues : k # center.k => queues[k] = Empty
  /\ \A k \in DOMAIN shown : k # center.k => shown[k] = <<>>

TypeInv ==
  /\ TableTyped /\ MenuTyped /\ CenterTyped /\ OutsideTyped /\ OneQueue
  /\ next \in [Msgs -> Node] /\ freed \subseteq Msgs
  /\ overlap \in BOOLEAN /\ up \in BOOLEAN

(* Messages come in the order of their numbers.                            *)
ArrivedInOrder ==
  /\ \A m \in Arrivals : 1..m \subseteq Arrivals
  /\ \A k \in DOMAIN arrived : \A i, j \in DOMAIN arrived[k] :
       i < j => arrived[k][i] < arrived[k][j]
  /\ \A fd \in DOMAIN net : \A i, j \in DOMAIN net[fd] :
       i < j => net[fd][i] < net[fd][j]
  /\ \A fd \in DOMAIN net : Range(net[fd]) \subseteq Range(arrived[sockets[fd]])

(* The nodes the queues, the threads and the heap know, and the messages   *)
(* that are still to be enqueued: these come later.                        *)
Placed == {queues[k].head : k \in DOMAIN queues}
          \cup {queues[k].tail : k \in DOMAIN queues}
          \cup {next[m] : m \in Msgs} \cup freed \cup {menu.node}
          \cup (IF center.pc = "tail" THEN {center.msg} ELSE {})
Fresh == (IF Reading THEN Range(net[center.fd]) ELSE {})
         \cup (IF InHand THEN {center.msg} ELSE {})

PlacedEarlier ==
  /\ \A x \in Placed : \A m \in Fresh : x < m
  /\ \A x \in Placed : x # NULL =>
       Reading /\ x \in Range(arrived[sockets[center.fd]])
  /\ center.pc = "add" \/ Enqueuing =>
       center.msg \in Range(arrived[sockets[center.fd]])
  /\ InHand => \A m \in Range(net[center.fd]) : center.msg < m

(* Along a queue the numbers rise, and what was freed was before its head. *)
HeadsRise ==
  /\ \A m \in Msgs : next[m] = NULL \/ m < next[m]
  /\ \A k \in DOMAIN queues : queues[k].head # NULL =>
       \A m \in freed : m < queues[k].head
  /\ center.pc = "first" => queues[center.k].length = 0
  /\ menu.pc \in {"next", "empty", "uncount", "uncounted"} =>
       queues[menu.k].length # 0
  /\ menu.pc = "uncounted" => menu.n # 0
  /\ menu.pc \in {"next", "empty"} => menu.node = queues[menu.k].head
  /\ menu.pc \in {"uncount", "uncounted", "show"} =>
       \A k \in DOMAIN queues : queues[k].head # NULL =>
                                  menu.node < queues[k].head
  /\ Emptying /\ menu.node # NULL => \A m \in freed : m < menu.node
  /\ Emptying => menu.k = center.k
  /\ ~ Emptying => menu.node = NULL

ShownRises ==
  \A k \in DOMAIN shown :
    /\ Range(shown[k]) \subseteq freed
    /\ \A i, j \in DOMAIN shown[k] : i < j => shown[k][i] < shown[k][j]

OrderInv == ArrivedInOrder /\ PlacedEarlier /\ HeadsRise /\ ShownRises

(* When every subscription got its socket, the descriptor of each is the   *)
(* number of its feed.                                                     *)
JoinInv == Joined =>
  /\ \A fd \in DOMAIN sockets : sockets[fd] = fd
  /\ \/ Len(sockets) = Len(queues)
     \/ menu.pc = "notif" /\ Len(sockets) = Len(queues) + 1
  /\ menu.pc = "notif" => menu.fd = Len(queues) + 1
  /\ menu.pc = "subscribe" => menu.fd = Len(queues)
  /\ \A k \in DOMAIN subs : subs[k].fd = k
  /\ \A k \in DOMAIN arrived : k \notin DOMAIN sockets => arrived[k] = <<>>

(* Where the messages of the feed that is read are, as numbers: A came, t  *)
(* of them have been read, and the first of them are printed, which is S.  *)
(* The queue of the feed counts Counting of them, its tail is at Tailed    *)
(* and its pointers lead to Linked; the nodes up to Left have left it.     *)
(* mpc, node and n are the menu thread's while it empties that queue, cpc, *)
(* msg and cn the notifications thread's.                                  *)
One(p) == IF p THEN 1 ELSE 0
Counting(t, cpc) == t - One(cpc # "recv")
Tailed(t, cpc) == t - One(cpc \in {"add", "first", "link", "tail"})
Linked(t, cpc) == t - One(cpc \in {"add", "first", "link"})
Left(s, mpc) == s + One(mpc \in {"uncount", "uncounted", "show"})

Chained(A, t, S, s, head, tail, nx, mpc, cpc) ==
  /\ \A i \in 1..s : S[i] = A[i]
  /\ Left(s, mpc) < Tailed(t, cpc) => head = A[Left(s, mpc) + 1]
                                     /\ tail = A[Tailed(t, cpc)]
  /\ \A i \in 1..(Linked(t, cpc) - 1) : Left(s, mpc) < i => nx[A[i]] = A[i + 1]

Counts(t, s, length, mpc, n, cpc, cn) ==
  /\ length + s + One(mpc = "show") = Counting(t, cpc)
  /\ mpc = "next" => length > 1
  /\ mpc = "empty" => length = 1
  /\ mpc = "uncounted" => n = length /\ n # 0
  /\ mpc = "uncount" => length # 0
  /\ cpc = "first" => length = 0
  /\ cpc \in {"link", "tail"} => length # 0
  /\ cpc = "counted" => cn = length

Holding(A, t, s, mpc, node, cpc, msg) ==
  /\ mpc # "look" => cpc \in {"recv", "add"} /\ s < t /\ node = A[s + 1]
  /\ cpc # "recv" => t # 0 /\ msg = A[t]

InLine(A, t, S, s, head, tail, length, nx, mpc, node, n, cpc, msg, cn) ==
  /\ Chained(A, t, S, s, head, tail, nx, mpc, cpc)
  /\ Counts(t, s, length, mpc, n, cpc, cn)
  /\ Holding(A, t, s, mpc, node, cpc, msg)

MenuAt(k) == IF Emptying /\ menu.k = k THEN menu.pc ELSE "look"
Taken(k) == Len(arrived[k]) - Len(net[k])
Kept(k) ==
  /\ Len(net[k]) <= Len(arrived[k])
  /\ \A i \in DOMAIN net[k] : net[k][i] = arrived[k][Taken(k) + i]
  /\ InLine(arrived[k], Taken(k), shown[k], Len(shown[k]), queues[k].head,
            queues[k].tail, queues[k].length, next, MenuAt(k), menu.node,
            menu.n, center.pc, center.msg, center.n)

Good == up /\ Joined /\ ~ overlap /\ place = 0
KeptInv == Good =>
  /\ \A fd \in DOMAIN net : fd # center.fd => net[fd] = arrived[fd]
  /\ ~ Reading => center.fd = 0
  /\ Reading => Kept(center.fd)

-----------------------------------------------------------------------------
(* What the typing says of the variables *)

LEMMA LeastNumber ==
  ASSUME NEW T, T \subseteq Nat, T # {}
  PROVE  Min(T) \in T /\ \A n \in T : Min(T) <= n
<1> DEFINE Before == {ss \in Nat \X Nat : ss[1] < ss[2]}
<1>1. IsWellFoundedOn(Before, Nat)
  BY NatLessThanWellFounded DEF OpToRel
<1>2. PICK m \in T : \A n \in T : ~ (<<n, m>> \in Before)
  BY <1>1, WFMin
<1>3. ASSUME NEW n \in T
      PROVE  m <= n
  <2>1. <<n, m>> \in Nat \X Nat /\ ~ (<<n, m>> \in Before)
    BY <1>2
  <2> QED
    BY <2>1
<1> QED
  BY <1>2, <1>3 DEF Min

LEMMA TypeFacts ==
  ASSUME TypeInv
  PROVE  /\ Len(queues) \in 0..MaxSubs /\ DOMAIN queues = 1..Len(queues)
         /\ \A k \in DOMAIN queues : /\ queues[k] \in QueueType
                                     /\ queues[k].head \in Node
                                     /\ queues[k].tail \in Node
                                     /\ queues[k].length \in Nat
         /\ Len(subs) \in 0..Len(queues) /\ DOMAIN subs = 1..Len(subs)
         /\ \A k \in DOMAIN subs : /\ subs[k].fd \in 1..MaxSubs
                                   /\ subs[k].place \in 0..place
         /\ Len(sockets) \in Nat /\ DOMAIN sockets = 1..Len(sockets)
         /\ \A fd \in DOMAIN sockets : sockets[fd] \in 1..MaxSubs
         /\ Len(net) = Len(sockets) /\ DOMAIN net = DOMAIN sockets
         /\ \A fd \in DOMAIN net : net[fd] \in Seq(Msgs)
         /\ DOMAIN arrived = 1..MaxSubs /\ DOMAIN shown = 1..MaxSubs
         /\ \A k \in 1..MaxSubs : arrived[k] \in Seq(Msgs) /\ shown[k] \in Seq(Msgs)
         /\ MaxSubs \in Nat /\ MaxMsgs \in Nat
<1>1. /\ MaxSubs \in Nat /\ MaxMsgs \in Nat
      /\ queues \in Seq(QueueType) /\ subs \in Seq(SubType)
      /\ sockets \in Seq(1..MaxSubs) /\ net \in Seq(Seq(Msgs))
      /\ arrived \in [1..MaxSubs -> Seq(Msgs)]
      /\ shown \in [1..MaxSubs -> Seq(Msgs)]
  BY ClientNotificationsAssumption DEF TypeInv, TableTyped, OutsideTyped
<1>2. /\ Len(queues) \in Nat /\ queues \in [1..Len(queues) -> QueueType]
      /\ DOMAIN queues = 1..Len(queues)
      /\ Len(subs) \in Nat /\ subs \in [1..Len(subs) -> SubType]
      /\ DOMAIN subs = 1..Len(subs)
      /\ Len(sockets) \in Nat /\ sockets \in [1..Len(sockets) -> 1..MaxSubs]
      /\ DOMAIN sockets = 1..Len(sockets)
      /\ Len(net) \in Nat /\ net \in [1..Len(net) -> Seq(Msgs)]
      /\ DOMAIN net = 1..Len(net)
  BY <1>1, LenProperties
<1>3. /\ Len(queues) <= MaxSubs /\ Len(subs) <= Len(queues)
      /\ Len(net) = Len(sockets) /\ place \in Nat
      /\ \A k \in DOMAIN subs : subs[k].place <= place
  BY <1>2 DEF TypeInv, TableTyped, OutsideTyped
<1>4. \A k \in DOMAIN queues : /\ queues[k] \in QueueType
                               /\ queues[k].head \in Node
                               /\ queues[k].tail \in Node
                               /\ queues[k].length \in Nat
  BY <1>2 DEF QueueType
<1>5. \A k \in DOMAIN subs : /\ subs[k].fd \in 1..MaxSubs
                             /\ subs[k].place \in Nat
  BY <1>2 DEF SubType
<1>6. \A k \in DOMAIN subs : subs[k].place \in 0..place
  BY <1>3, <1>5
<1>7. /\ Len(queues) \in 0..MaxSubs /\ Len(subs) \in 0..Len(queues)
      /\ DOMAIN net = DOMAIN sockets
  BY <1>1, <1>2, <1>3
<1>8. /\ \A fd \in DOMAIN sockets : sockets[fd] \in 1..MaxSubs
      /\ \A fd \in DOMAIN net : net[fd] \in Seq(Msgs)
      /\ DOMAIN arrived = 1..MaxSubs /\ DOMAIN shown = 1..MaxSubs
      /\ \A k \in 1..MaxSubs : arrived[k] \in Seq(Msgs) /\ shown[k] \in Seq(Msgs)
  BY <1>1, <1>2
<1> QED
  BY <1>1, <1>2, <1>3, <1>4, <1>5, <1>6, <1>7, <1>8

LEMMA ThreadFacts ==
  ASSUME TypeInv
  PROVE  /\ menu.pc \in {"idle", "notif", "subscribe", "look", "next", "empty",
                         "uncount", "uncounted", "show"}
         /\ menu.fd \in 0..MaxSubs /\ menu.k \in 0..MaxSubs
         /\ menu.node \in Node /\ menu.n \in Nat
         /\ center.pc \in {"wait", "asleep", "refresh", "poll", "recv", "add",
                           "first", "link", "tail", "count", "counted"}
         /\ center.fds \in Seq(1..MaxSubs) /\ Len(center.fds) \in 0..Len(subs)
         /\ DOMAIN center.fds = 1..Len(center.fds)
         /\ center.fd \in 0..MaxSubs /\ center.k \in 0..MaxSubs
         /\ center.msg \in Node /\ center.n \in Nat
<1>1. /\ menu \in MenuType /\ center \in CenterType
      /\ Len(center.fds) <= Len(subs)
  BY DEF TypeInv, MenuTyped, CenterTyped
<1>2. center.fds \in Seq(1..MaxSubs)
  BY <1>1 DEF CenterType
<1>3. Len(center.fds) \in Nat /\ DOMAIN center.fds = 1..Len(center.fds)
  BY <1>2, LenProperties
<1> QED
  BY <1>1, <1>2, <1>3, TypeFacts DEF MenuType, CenterType

(* The subscription a descriptor is of is the first one with it, and later *)
(* ones change nothing.                                                    *)
LEMMA SubscriptionFound ==
  ASSUME TypeInv, NEW fd, \E k \in DOMAIN subs : subs[k].fd = fd
  PROVE  /\ SubscriptionOf(fd) \in DOMAIN subs
         /\ subs[SubscriptionOf(fd)].fd = fd
         /\ \A k \in DOMAIN subs : subs[k].fd = fd => SubscriptionOf(fd) <= k
<1> DEFINE T == {k \in DOMAIN subs : subs[k].fd = fd}
<1>1. T \subseteq Nat /\ T # {}
  BY TypeFacts
<1>2. Min(T) \in T /\ \A n \in T : Min(T) <= n
  BY <1>1, LeastNumber
<1> QED
  BY <1>2 DEF SubscriptionOf

LEMMA SubscriptionStays ==
  ASSUME TypeInv, AddSubscription, NEW fd, \E k \in DOMAIN subs : subs[k].fd = fd,
         subs' \in Seq(SubType), Len(subs') = Len(subs) + 1,
         \A k \in DOMAIN subs : subs'[k] = subs[k]
  PROVE  Min({k \in DOMAIN subs' : subs'[k].fd = fd}) = SubscriptionOf(fd)
<1> DEFINE T == {k \in DOMAIN subs' : subs'[k].fd = fd}
           s == SubscriptionOf(fd)
<1>1. /\ DOMAIN subs' = 1..(Len(subs) + 1) /\ DOMAIN subs = 1..Len(subs)
      /\ Len(subs) \in Nat
  BY TypeFacts, LenProperties
<1>2. /\ s \in DOMAIN subs /\ subs[s].fd = fd
      /\ \A k \in DOMAIN subs : subs[k].fd = fd => s <= k
  BY SubscriptionFound
<1>3. s \in T
  BY <1>1, <1>2
<1>4. T \subseteq Nat
  BY <1>1
<1>5. Min(T) \in T /\ \A n \in T : Min(T) <= n
  BY <1>3, <1>4, LeastNumber
<1>6. \A n \in T : s <= n
  BY <1>1, <1>2
<1>7. Min(T) \in Nat /\ s \in Nat /\ Min(T) <= s /\ s <= Min(T)
  BY <1>3, <1>4, <1>5, <1>6
<1> QED
  BY <1>7

-----------------------------------------------------------------------------
(* Type correctness *)

LEMMA InitTypeInv == Init => TypeInv
<1> SUFFICES ASSUME Init
             PROVE  TypeInv
  OBVIOUS
<1>1. MaxSubs \in Nat /\ InitCap \in Nat \ {0} /\ MaxMsgs \in Nat /\ 0 \in Node
  BY ClientNotificationsAssumption DEF Node
<1>2. /\ queues = <<>> /\ subs = <<>> /\ sockets = <<>> /\ net = <<>>
      /\ center.fds = <<>> /\ menu.pc = "idle" /\ center.pc = "wait"
      /\ center.k = 0
  BY DEF Init
<1>3. /\ <<>> \in Seq(QueueType) /\ <<>> \in Seq(SubType)
      /\ <<>> \in Seq(1..MaxSubs) /\ <<>> \in Seq(Seq(Msgs)) /\ <<>> \in Seq(Msgs)
      /\ Len(<<>>) = 0 /\ DOMAIN <<>> = {}
  BY EmptySeq
<1>4. TableTyped
  BY <1>1, <1>2, <1>3 DEF Init, TableTyped
<1>5. MenuTyped
  <2>1. menu = [pc |-> "idle", fd |-> 0, k |-> 0, node |-> 0, n |-> 0]
    BY DEF Init, NULL
  <2>2. menu \in MenuType /\ menu.pc = "idle"
    BY <1>1, <2>1 DEF MenuType
  <2> QED
    BY <2>2 DEF MenuTyped, Emptying
<1>6. CenterTyped
  <2>1. center = [pc |-> "wait", fds |-> <<>>, fd |-> 0, msg |-> 0, k |-> 0,
                  n |-> 0]
    BY DEF Init, NULL
  <2>2. center \in CenterType /\ center.pc = "wait" /\ center.fds = <<>>
    BY <1>1, <1>3, <2>1 DEF CenterType
  <2> QED
    BY <1>2, <1>3, <2>2 DEF CenterTyped, Reading, Enqueuing
<1>7. OutsideTyped
  BY <1>1, <1>2, <1>3 DEF Init, OutsideTyped
<1>8. OneQueue
  BY <1>2, <1>3 DEF Init, OneQueue
<1> QED
  BY <1>1, <1>4, <1>5, <1>6, <1>7, <1>8 DEF Init, TypeInv, NULL

(* Steps that change only where the menu thread is. *)
LEMMA MenuMovesTypeInv ==
  ASSUME TypeInv, MenuTyped', UNCHANGED <<sharedVars, center, outsideVars, shown>>,
         menu.pc \in {"notif", "subscribe"} <=> menu'.pc \in {"notif", "subscribe"},
         menu'.pc = menu.pc \/ menu.pc \notin {"notif", "subscribe"},
         overlap' \in BOOLEAN, up' \in BOOLEAN
  PROVE  TypeInv'
<1>1. MenuTyped' /\ next' \in [Msgs -> Node] /\ freed' \subseteq Msgs
  BY DEF TypeInv, sharedVars
<1>2. TableTyped' /\ CenterTyped' /\ OutsideTyped' /\ OneQueue'
  BY DEF TypeInv, sharedVars, tableVars, outsideVars, TableTyped, CenterTyped,
         OutsideTyped, OneQueue, Reading, Enqueuing, SubscriptionOf
<1> QED
  BY <1>1, <1>2 DEF TypeInv

(* Steps that change only where the notifications thread is. *)
LEMMA CenterMovesTypeInv ==
  ASSUME TypeInv, CenterTyped', UNCHANGED <<sharedVars, menu, sockets, arrived, shown>>,
         net' \in Seq(Seq(Msgs)), Len(net') = Len(net),
         center'.k = center.k, center'.fd = center.fd \/ center.k = 0,
         Reading => Reading', overlap' \in BOOLEAN, up' \in BOOLEAN
  PROVE  TypeInv'
<1>1. /\ TableTyped' /\ MenuTyped' /\ next' \in [Msgs -> Node]
      /\ freed' \subseteq Msgs
  BY DEF TypeInv, sharedVars, tableVars, TableTyped, MenuTyped, Emptying
<1>2. OutsideTyped'
  BY DEF TypeInv, OutsideTyped, sharedVars
<1>3. OneQueue'
  BY DEF TypeInv, OneQueue, sharedVars, tableVars, SubscriptionOf
<1> QED
  BY <1>1, <1>2, <1>3 DEF TypeInv

LEMMA SubscribeEffect ==
  ASSUME TypeInv, NEW joined \in BOOLEAN, Subscribe(joined)
  PROVE  /\ UNCHANGED <<sharedVars, center, arrived, shown, overlap, up>>
         /\ menu.pc = "idle" /\ menu' \in MenuType /\ menu'.pc = "notif"
         /\ menu'.fd = Len(sockets) + 1 /\ menu'.k = menu.k
         /\ menu'.node = menu.node /\ menu'.n = menu.n
         /\ Len(queues) + 1 \in 1..MaxSubs /\ Len(sockets) <= Len(queues)
         /\ sockets' \in Seq(1..MaxSubs) /\ net' \in Seq(Seq(Msgs))
         /\ Len(net') = Len(sockets')
         /\ \A fd \in DOMAIN net : /\ fd \in DOMAIN net' /\ net'[fd] = net[fd]
                                  /\ sockets'[fd] = sockets[fd]
         /\ \/ sockets' = sockets /\ net' = net
            \/ /\ Len(sockets') = Len(sockets) + 1
               /\ DOMAIN sockets' = 1..(Len(sockets) + 1)
               /\ DOMAIN net' = 1..(Len(sockets) + 1)
               /\ net'[Len(sockets) + 1] = <<>>
               /\ sockets'[Len(sockets) + 1] = Len(queues) + 1
<1> DEFINE n == Len(sockets)
           fd == n + 1
           k == Len(queues) + 1
<1>1. /\ k \in 1..MaxSubs /\ fd \in 0..MaxSubs /\ n \in Nat
      /\ Len(queues) \in Nat /\ menu.pc = "idle" /\ n <= Len(queues)
  BY TypeFacts DEF Subscribe, TypeInv, OutsideTyped
<1>2. /\ UNCHANGED <<sharedVars, center, arrived, shown, overlap, up>>
      /\ menu' = [menu EXCEPT !.pc = "notif", !.fd = fd]
      /\ sockets' = IF joined THEN Append(sockets, k) ELSE sockets
      /\ net' = IF joined THEN Append(net, <<>>) ELSE net
  BY DEF Subscribe
<1>3. /\ menu' \in MenuType /\ menu'.pc = "notif" /\ menu'.fd = fd
      /\ menu'.k = menu.k /\ menu'.node = menu.node /\ menu'.n = menu.n
  <2>1. menu \in MenuType
    BY DEF TypeInv, MenuTyped
  <2> HIDE DEF fd
  <2> QED
    BY <1>1, <1>2, <2>1 DEF MenuType
<1>4. /\ sockets \in Seq(1..MaxSubs) /\ net \in Seq(Seq(Msgs))
      /\ Len(net) = n /\ <<>> \in Seq(Msgs)
      /\ DOMAIN net = 1..n /\ DOMAIN sockets = 1..n
  BY EmptySeq, LenProperties DEF TypeInv, OutsideTyped
<1>5. CASE joined
  <2>1. sockets' = Append(sockets, k) /\ net' = Append(net, <<>>)
    BY <1>2, <1>5
  <2>2. /\ sockets' \in Seq(1..MaxSubs) /\ Len(sockets') = n + 1
        /\ net' \in Seq(Seq(Msgs)) /\ Len(net') = n + 1
        /\ \A i \in 1..n : sockets'[i] = sockets[i] /\ net'[i] = net[i]
        /\ sockets'[n + 1] = k /\ net'[n + 1] = <<>>
    BY <1>1, <1>4, <2>1, AppendProperties
  <2>3. DOMAIN sockets' = 1..(n + 1) /\ DOMAIN net' = 1..(n + 1)
    BY <2>2, LenProperties
  <2>4. \A i \in 1..n : i \in 1..(n + 1)
    BY <1>1
  <2> QED
    BY <1>1, <1>2, <1>3, <1>4, <2>2, <2>3, <2>4
<1>6. CASE ~ joined
  BY <1>1, <1>2, <1>3, <1>4, <1>6
<1> QED
  BY <1>5, <1>6

LEMMA SubscribeTypeInv ==
  ASSUME TypeInv, NEW joined \in BOOLEAN, Subscribe(joined)
  PROVE  TypeInv'
<1>1. /\ UNCHANGED <<sharedVars, center, arrived, shown, overlap, up>>
      /\ menu.pc = "idle" /\ menu'.pc = "notif"
  BY SubscribeEffect
<1>2. Len(queues) \in Nat /\ Len(sockets) \in Nat /\ MaxSubs \in Nat
  BY TypeFacts
<1>3. MenuTyped'
  <2>1. menu' \in MenuType /\ menu'.fd # 0
    BY <1>2, SubscribeEffect
  <2>2. Len(queues') < MaxSubs
    BY <1>1, <1>2, SubscribeEffect DEF sharedVars
  <2> QED
    BY <1>1, <2>1, <2>2 DEF MenuTyped, Emptying
<1>4. OutsideTyped'
  <2>1. Len(sockets') <= Len(queues') + 1
    <3>1. Len(sockets') \in {Len(sockets), Len(sockets) + 1}
          /\ Len(sockets) <= Len(queues)
      BY SubscribeEffect
    <3>2. queues' = queues
      BY <1>1 DEF sharedVars
    <3> QED
      BY <1>2, <3>1, <3>2
  <2> QED
    BY <1>1, <2>1, SubscribeEffect DEF OutsideTyped, TypeInv
<1>5. TableTyped' /\ OneQueue'
  BY <1>1 DEF TypeInv, TableTyped, OneQueue, sharedVars, tableVars,
     Reading, SubscriptionOf
<1>6. CenterTyped'
  <2>1. \A fd \in DOMAIN net : fd \in DOMAIN net'
    BY SubscribeEffect
  <2> QED
    BY <1>1, <2>1 DEF TypeInv, CenterTyped, sharedVars, tableVars, Reading,
       Enqueuing
<1> QED
  BY <1>1, <1>3, <1>4, <1>5, <1>6 DEF TypeInv, sharedVars

LEMMA AddQueueTypeInv ==
  ASSUME TypeInv, AddQueue
  PROVE  TypeInv'
<1> DEFINE n == Len(queues)
<1>1. /\ n \in Nat /\ n < MaxSubs /\ Len(subs) = n /\ menu.pc = "notif"
      /\ menu.fd # 0 /\ menu \in MenuType /\ DOMAIN queues = 1..n
  BY TypeFacts DEF AddQueue, TypeInv, TableTyped, MenuTyped
<1>2. /\ queues' = Append(queues, Empty)
      /\ menu' = [menu EXCEPT !.pc = "subscribe"]
      /\ UNCHANGED <<subs, next, freed, center, outsideVars, shown, overlap, up>>
  BY DEF AddQueue, Goto
<1>3. /\ queues' \in Seq(QueueType) /\ Len(queues') = n + 1
      /\ DOMAIN queues' = 1..(n + 1)
      /\ \A k \in 1..n : queues'[k] = queues[k]
      /\ queues'[n + 1] = Empty
  <2>1. queues \in Seq(QueueType) /\ Empty \in QueueType
    BY TypeFacts DEF TypeInv, TableTyped, Empty, QueueType, Node, NULL
  <2>2. /\ queues' \in Seq(QueueType) /\ Len(queues') = n + 1
        /\ \A k \in 1..n : queues'[k] = queues[k]
        /\ queues'[n + 1] = Empty
    BY <1>2, <2>1, AppendProperties
  <2> QED
    BY <2>2, LenProperties
<1>4. menu' \in MenuType /\ menu'.pc = "subscribe" /\ menu'.fd = menu.fd
  BY <1>1, <1>2 DEF MenuType
<1>5. /\ cap' \in Nat \ {0} /\ place' \in Nat /\ place <= place'
      /\ n + 1 <= cap'
  BY <1>1 DEF AddQueue, TypeInv, TableTyped
<1>6. \A k \in DOMAIN subs' : subs'[k].place <= place'
  <2> SUFFICES ASSUME NEW k \in DOMAIN subs
               PROVE  subs[k].place <= place'
    BY <1>2
  <2>1. subs[k].place \in Nat /\ subs[k].place <= place /\ place \in Nat
    BY TypeFacts DEF TypeInv, TableTyped
  <2> QED
    BY <1>5, <2>1
<1>7. TableTyped'
  <2>1. Len(queues') = Len(subs') + 1
    BY <1>1, <1>2, <1>3
  <2> QED
    <3>1. subs \in Seq(SubType)
      BY DEF TypeInv, TableTyped
    <3>2. MaxSubs \in Nat
      BY TypeFacts
    <3> HIDE DEF n
    <3>3. n + 1 <= MaxSubs
      BY <1>1, <3>2
    <3> QED
      BY <1>2, <1>3, <1>4, <1>5, <1>6, <2>1, <3>1, <3>3 DEF TableTyped
<1>8. MenuTyped'
  BY <1>1, <1>4 DEF MenuTyped, Emptying
<1>9. CenterTyped'
  BY <1>2 DEF TypeInv, CenterTyped, Reading, Enqueuing, outsideVars
<1>10. OutsideTyped'
  <2>1. Len(sockets) <= n + 1 /\ Len(queues') = n + 1 /\ Len(sockets) \in Nat
    BY <1>1, <1>3, TypeFacts DEF TypeInv, OutsideTyped
  <2>2. Len(sockets) <= Len(queues') + 0
    BY <1>1, <2>1
  <2> QED
    BY <1>2, <1>4, <2>2 DEF TypeInv, OutsideTyped, outsideVars
<1>11. OneQueue'
  <2>1. \A k \in 1..(n + 1) : k # center.k => queues'[k] = Empty
    <3> SUFFICES ASSUME NEW k \in 1..(n + 1), k # center.k
                 PROVE  queues'[k] = Empty
      OBVIOUS
    <3>1. k \in 1..n \/ k = n + 1
      BY <1>1
    <3> QED
      BY <1>1, <1>3, <3>1 DEF TypeInv, OneQueue
  <2> QED
    BY <1>2, <1>3, <2>1 DEF TypeInv, OneQueue, Reading, SubscriptionOf
<1> QED
  BY <1>2, <1>7, <1>8, <1>9, <1>10, <1>11 DEF TypeInv

LEMMA AddSubscriptionEffect ==
  ASSUME TypeInv, AddSubscription
  PROVE  /\ subs' \in Seq(SubType) /\ Len(subs') = Len(subs) + 1
         /\ DOMAIN subs' = 1..(Len(subs) + 1)
         /\ \A k \in DOMAIN subs : subs'[k] = subs[k]
         /\ subs'[Len(subs) + 1] = [fd |-> menu.fd, place |-> place]
         /\ Len(queues) = Len(subs) + 1
         /\ menu' = [menu EXCEPT !.pc = "idle"] /\ menu' \in MenuType
         /\ center' \in CenterType
         /\ ~ Enqueuing /\ ~ Enqueuing'
         /\ center'.fds = center.fds /\ center'.fd = center.fd
         /\ center'.k = center.k /\ center'.msg = center.msg
         /\ Reading' <=> Reading
         /\ center'.pc = "add" <=> center.pc = "add"
<1>1. /\ menu \in MenuType /\ menu.fd # 0 /\ subs \in Seq(SubType)
      /\ center \in CenterType /\ place \in Nat /\ menu.pc = "subscribe"
      /\ Len(queues) = Len(subs) + 1
  BY DEF AddSubscription, TypeInv, TableTyped, MenuTyped, CenterTyped
<1>2. [fd |-> menu.fd, place |-> place] \in SubType
  BY <1>1, TypeFacts DEF SubType, MenuType
<1>3. subs' = Append(subs, [fd |-> menu.fd, place |-> place])
  BY DEF AddSubscription
<1>4. /\ subs' \in Seq(SubType) /\ Len(subs') = Len(subs) + 1
      /\ \A k \in 1..Len(subs) : subs'[k] = subs[k]
      /\ subs'[Len(subs) + 1] = [fd |-> menu.fd, place |-> place]
  BY <1>1, <1>2, <1>3, AppendProperties
<1>5. DOMAIN subs' = 1..(Len(subs) + 1) /\ DOMAIN subs = 1..Len(subs)
  BY <1>4, TypeFacts, LenProperties
<1>6. menu' = [menu EXCEPT !.pc = "idle"] /\ menu' \in MenuType
  BY <1>1 DEF AddSubscription, Goto, MenuType
<1>7. \/ center' = center
      \/ center.pc = "asleep" /\ center' = [center EXCEPT !.pc = "wait"]
  BY DEF AddSubscription, Goto
<1>8. /\ center' \in CenterType
      /\ \/ center'.pc = center.pc
         \/ center.pc = "asleep" /\ center'.pc = "wait"
      /\ center'.fds = center.fds /\ center'.fd = center.fd
      /\ center'.k = center.k /\ center'.msg = center.msg
  BY <1>1, <1>7 DEF CenterType
<1>9. ~ Enqueuing
  BY DEF AddSubscription
<1> QED
  BY <1>1, <1>4, <1>5, <1>6, <1>8, <1>9 DEF Enqueuing, Reading

LEMMA AddSubscriptionTypeInv ==
  ASSUME TypeInv, AddSubscription
  PROVE  TypeInv'
<1> DEFINE n == Len(subs)
<1>0. /\ UNCHANGED <<queues, place, cap, next, freed, outsideVars, shown,
                     overlap, up>>
      /\ menu.pc = "subscribe" /\ menu'.pc = "idle"
  BY AddSubscriptionEffect DEF AddSubscription, MenuType
<1>1. n \in Nat /\ DOMAIN subs = 1..n /\ DOMAIN subs' = 1..(n + 1)
  BY AddSubscriptionEffect, TypeFacts
<1>2. TableTyped'
  <2>1. \A k \in 1..(n + 1) : subs'[k].place <= place
    <3> SUFFICES ASSUME NEW k \in 1..(n + 1)
                 PROVE  subs'[k].place <= place
      OBVIOUS
    <3>1. place \in Nat
      BY DEF TypeInv, TableTyped
    <3>2. CASE k \in 1..n
      BY <1>1, <3>2, AddSubscriptionEffect DEF TypeInv, TableTyped
    <3>3. CASE k = n + 1
      BY <3>1, <3>3, AddSubscriptionEffect
    <3> QED
      BY <1>1, <3>2, <3>3
  <2>2. Len(queues) = Len(subs') + 0
    BY <1>1, AddSubscriptionEffect
  <2> QED
    BY <1>0, <1>1, <2>1, <2>2, AddSubscriptionEffect DEF TypeInv, TableTyped
<1>3. MenuTyped'
  BY <1>0, AddSubscriptionEffect DEF MenuTyped, Emptying
<1>4. OutsideTyped'
  BY <1>0 DEF TypeInv, OutsideTyped, outsideVars
<1>5. CenterTyped'
  <2>1. Len(center.fds) \in 0..n /\ DOMAIN center.fds = 1..Len(center.fds)
    BY ThreadFacts
  <2>2. Len(center'.fds) <= Len(subs')
    BY <1>1, <2>1, AddSubscriptionEffect
  <2>3. ASSUME NEW k \in DOMAIN center'.fds
        PROVE  center'.fds[k] = subs'[k].fd
    <3>1. k \in DOMAIN center.fds /\ k \in DOMAIN subs
      BY <1>1, <2>1, <2>3, AddSubscriptionEffect
    <3> QED
      BY <3>1, AddSubscriptionEffect DEF TypeInv, CenterTyped
  <2>4. Reading' => /\ center'.fd \in DOMAIN net'
                    /\ \E k \in DOMAIN subs' : subs'[k].fd = center'.fd
    <3> SUFFICES ASSUME Reading
                 PROVE  /\ center'.fd \in DOMAIN net'
                        /\ \E k \in DOMAIN subs' : subs'[k].fd = center'.fd
      BY AddSubscriptionEffect
    <3>1. center.fd \in DOMAIN net /\ \E k \in DOMAIN subs : subs[k].fd = center.fd
      BY DEF TypeInv, CenterTyped
    <3>2. PICK k \in DOMAIN subs : subs[k].fd = center.fd
      BY <3>1
    <3>3. k \in DOMAIN subs' /\ subs'[k].fd = center'.fd
      BY <1>1, <3>2, AddSubscriptionEffect
    <3> QED
      BY <1>0, <3>1, <3>3, AddSubscriptionEffect DEF outsideVars
  <2> QED
    BY <2>2, <2>3, <2>4, AddSubscriptionEffect DEF TypeInv, CenterTyped
<1>6. OneQueue'
  <2>1. ASSUME center.k # 0
        PROVE  center'.k = SubscriptionOf(center.fd)'
    <3>1. /\ center.k = SubscriptionOf(center.fd)
          /\ \E k \in DOMAIN subs : subs[k].fd = center.fd
      BY <2>1 DEF TypeInv, OneQueue, CenterTyped
    <3> DEFINE fd == center.fd
    <3>2. Min({k \in DOMAIN subs' : subs'[k].fd = fd}) = SubscriptionOf(fd)
      BY <3>1, AddSubscriptionEffect, SubscriptionStays
    <3> QED
      BY <3>1, <3>2, AddSubscriptionEffect DEF SubscriptionOf
  <2>2. center.k # 0 => Reading' /\ center.k \in DOMAIN subs'
    BY <1>1, AddSubscriptionEffect DEF TypeInv, OneQueue
  <2> QED
    BY <1>0, <2>1, <2>2, AddSubscriptionEffect DEF TypeInv, OneQueue
<1> QED
  BY <1>0, <1>2, <1>3, <1>4, <1>5, <1>6 DEF TypeInv

(* A queue is changed in place. *)
LEMMA QueueChange ==
  ASSUME TypeInv, NEW k \in DOMAIN queues, NEW q \in QueueType,
         queues' = [queues EXCEPT ![k] = q]
  PROVE  /\ queues' \in Seq(QueueType) /\ Len(queues') = Len(queues)
         /\ DOMAIN queues' = DOMAIN queues
         /\ queues'[k] = q
         /\ \A j \in DOMAIN queues : j # k => queues'[j] = queues[j]
<1>1. queues \in Seq(QueueType) /\ DOMAIN queues = 1..Len(queues)
  BY TypeFacts DEF TypeInv, TableTyped
<1>2. /\ queues' \in Seq(QueueType) /\ Len(queues') = Len(queues)
      /\ \A j \in 1..Len(queues) : queues'[j] = IF j = k THEN q ELSE queues[j]
  BY <1>1, ExceptSeq
<1> QED
  BY <1>1, <1>2, LenProperties

LEMMA QueueChangeTypeInv ==
  ASSUME TypeInv, NEW k \in DOMAIN queues, NEW q \in QueueType,
         queues' = [queues EXCEPT ![k] = q], k = center.k,
         MenuTyped', CenterTyped', center'.k = center.k,
         center'.fd = center.fd, Reading' <=> Reading,
         menu'.pc = menu.pc \/ {menu.pc, menu'.pc} \cap {"notif", "subscribe"} = {},
         UNCHANGED <<tableVars, freed, outsideVars, shown, overlap, up>>,
         next' \in [Msgs -> Node]
  PROVE  TypeInv'
<1>1. TableTyped'
  BY QueueChange DEF TypeInv, TableTyped, tableVars
<1>2. OutsideTyped'
  BY QueueChange DEF TypeInv, OutsideTyped, outsideVars
<1>3. OneQueue'
  BY QueueChange DEF TypeInv, OneQueue, tableVars, SubscriptionOf
<1> QED
  BY <1>1, <1>2, <1>3 DEF TypeInv

LEMMA PrintingTypeInv ==
  ASSUME TypeInv, PrintNotif \/ NoMore \/ Dequeue \/ Uncount
  PROVE  TypeInv'
<1>0. /\ menu \in MenuType /\ DOMAIN queues = 1..Len(queues)
      /\ Len(queues) \in 0..MaxSubs /\ MaxSubs \in Nat
  BY TypeFacts DEF TypeInv, MenuTyped
<1>1. /\ UNCHANGED <<sharedVars, center, outsideVars, shown, up>>
      /\ overlap' \in BOOLEAN
  BY DEF PrintNotif, NoMore, Dequeue, Uncount, TypeInv
<1>2. /\ menu' \in MenuType /\ menu'.k \in DOMAIN queues
      /\ menu.pc \notin {"notif", "subscribe"}
      /\ menu'.pc \notin {"notif", "subscribe"}
  <2>1. CASE PrintNotif
    <3>1. Len(queues) # 0
      BY <2>1, EmptySeq DEF PrintNotif, TypeInv, TableTyped
    <3>2. 1 \in 0..MaxSubs /\ 1 \in DOMAIN queues
      BY <1>0, <3>1
    <3> QED
      BY <1>0, <2>1, <3>2 DEF PrintNotif, MenuType
  <2>2. CASE NoMore
    <3>1. menu.k \in DOMAIN queues /\ menu.pc = "look"
      BY <2>2 DEF NoMore, TypeInv, MenuTyped
    <3>2. CASE menu.k < Len(queues)
      <4>1. menu.k + 1 \in DOMAIN queues /\ menu.k + 1 \in 0..MaxSubs
        BY <1>0, <3>1, <3>2
      <4> QED
        BY <1>0, <2>2, <3>2, <4>1 DEF NoMore, MenuType
    <3>3. CASE ~ (menu.k < Len(queues))
      BY <1>0, <2>2, <3>1, <3>3 DEF NoMore, Goto, MenuType
    <3> QED
      BY <3>2, <3>3
  <2>3. CASE Dequeue
    <3>1. menu.k \in DOMAIN queues /\ Queue.head \in Node
      BY <2>3, TypeFacts DEF Dequeue, Queue, TypeInv, MenuTyped
    <3> QED
      BY <1>0, <2>3, <3>1 DEF Dequeue, MenuType
  <2>4. CASE Uncount
    <3>1. menu.k \in DOMAIN queues /\ Queue.length \in Nat
      BY <2>4, TypeFacts DEF Uncount, Queue, TypeInv, MenuTyped, Emptying
    <3> QED
      BY <1>0, <2>4, <3>1 DEF Uncount, MenuType
  <2> QED
    BY <2>1, <2>2, <2>3, <2>4
<1>3. MenuTyped'
  BY <1>1, <1>2 DEF MenuTyped, Emptying, sharedVars
<1> QED
  BY <1>1, <1>2, <1>3, MenuMovesTypeInv DEF TypeInv

LEMMA UnlinkEffect ==
  ASSUME TypeInv, HeadsRise, Unlink, up'
  PROVE  /\ menu.k \in DOMAIN queues /\ menu.k = center.k
         /\ menu' = [menu EXCEPT !.pc = "uncount"] /\ menu' \in MenuType
         /\ menu.pc \in {"next", "empty"}
         /\ UNCHANGED <<tableVars, next, freed, center, outsideVars, shown,
                        overlap, up>>
         /\ \E q \in QueueType :
              /\ queues' = [queues EXCEPT ![menu.k] = q]
              /\ q.length = Queue.length
              /\ \/ menu.pc = "empty" /\ q.head = NULL /\ q.tail = NULL
                 \/ /\ menu.pc = "next" /\ Queue.head \in Msgs
                    /\ q.head = next[Queue.head] /\ q.tail = Queue.tail
<1>1. /\ menu.pc \in {"next", "empty"} /\ menu \in MenuType
      /\ menu.k \in DOMAIN queues /\ Queue \in QueueType
      /\ next \in [Msgs -> Node] /\ NULL \in Node
      /\ UNCHANGED outsideVars /\ ~ Killed
  BY TypeFacts DEF Unlink, TypeInv, MenuTyped, Emptying, Queue, Killed, Node, NULL
<1>2. menu.k = center.k
  <2>1. queues[menu.k].length # 0
    BY <1>1 DEF HeadsRise
  <2> QED
    BY <1>1, <2>1 DEF TypeInv, OneQueue, Empty
<1>3. menu' = [menu EXCEPT !.pc = "uncount"] /\ menu' \in MenuType
  BY <1>1 DEF Unlink, Goto, MenuType
<1>4. UNCHANGED <<tableVars, next, freed, center, outsideVars, shown, overlap, up>>
  BY <1>1 DEF Unlink
<1>5. CASE menu.pc = "empty"
  <2> DEFINE q == [Queue EXCEPT !.head = NULL, !.tail = NULL]
  <2>1. /\ q \in QueueType /\ q.length = Queue.length
        /\ q.head = NULL /\ q.tail = NULL
    BY <1>1 DEF QueueType
  <2>2. queues' = [queues EXCEPT ![menu.k] = q]
    BY <1>1, <1>5 DEF Unlink, SetQueue
  <2> QED
    BY <1>1, <1>2, <1>3, <1>4, <1>5, <2>1, <2>2
<1>6. CASE menu.pc = "next"
  <2>1. Queue.head \in Node /\ Queue.head # NULL
    BY <1>1, <1>6 DEF Unlink, QueueType
  <2>2. Queue.head \in Msgs
    BY <2>1, TypeFacts DEF Node, Msgs, NULL
  <2> DEFINE q == [Queue EXCEPT !.head = next[Queue.head]]
  <2>3. /\ q \in QueueType /\ q.length = Queue.length
        /\ q.head = next[Queue.head] /\ q.tail = Queue.tail
    BY <1>1, <2>2 DEF QueueType
  <2>4. queues' = [queues EXCEPT ![menu.k] = q]
    BY <1>1, <1>6 DEF Unlink, SetQueue
  <2> QED
    BY <1>1, <1>2, <1>3, <1>4, <1>6, <2>2, <2>3, <2>4
<1> QED
  BY <1>1, <1>5, <1>6

LEMMA UnlinkTypeInv ==
  ASSUME TypeInv, HeadsRise, Unlink, up'
  PROVE  TypeInv'
<1>1. PICK q \in QueueType : queues' = [queues EXCEPT ![menu.k] = q]
  BY UnlinkEffect
<1>2. /\ menu.k \in DOMAIN queues /\ menu.k = center.k
      /\ menu' \in MenuType /\ menu'.pc = "uncount" /\ menu'.k = menu.k
      /\ menu.pc \notin {"notif", "subscribe"}
  BY UnlinkEffect DEF MenuType
<1>3. UNCHANGED <<tableVars, next, freed, center, outsideVars, shown, overlap, up>>
  BY UnlinkEffect
<1>4. Len(queues') = Len(queues) /\ DOMAIN queues' = DOMAIN queues
  BY <1>1, <1>2, QueueChange
<1>5. MenuTyped'
  BY <1>2, <1>4 DEF MenuTyped, Emptying
<1>6. CenterTyped'
  BY <1>3 DEF TypeInv, CenterTyped, tableVars, outsideVars, Reading, Enqueuing
<1>7. next' \in [Msgs -> Node] /\ (Reading' <=> Reading)
  BY <1>3 DEF TypeInv, Reading
<1> QED
  BY <1>1, <1>2, <1>3, <1>5, <1>6, <1>7, QueueChangeTypeInv

(* The process is killed where it stands. *)
LEMMA KilledTypeInv ==
  ASSUME TypeInv, Killed, UNCHANGED outsideVars
  PROVE  TypeInv'
BY DEF TypeInv, Killed, TableTyped, MenuTyped, CenterTyped, OutsideTyped,
       OneQueue, sharedVars, tableVars, outsideVars, Reading, Enqueuing,
       Emptying, SubscriptionOf

LEMMA UncountedEffect ==
  ASSUME TypeInv, HeadsRise, Uncounted
  PROVE  /\ menu.k \in DOMAIN queues /\ menu.k = center.k /\ menu.pc = "uncounted"
         /\ menu' \in MenuType /\ menu'.pc = "show" /\ menu'.k = menu.k
         /\ menu'.node = menu.node /\ menu'.fd = menu.fd
         /\ UNCHANGED <<tableVars, next, freed, center, outsideVars, shown,
                        overlap, up>>
         /\ \E q \in QueueType :
              /\ queues' = [queues EXCEPT ![menu.k] = q]
              /\ q.length = menu.n - 1 /\ menu.n # 0
              /\ q.head = Queue.head /\ q.tail = Queue.tail
<1>1. /\ menu.pc = "uncounted" /\ menu \in MenuType /\ menu.k \in DOMAIN queues
      /\ Queue \in QueueType /\ menu.n \in Nat /\ menu.n # 0
  BY TypeFacts, ThreadFacts
     DEF Uncounted, TypeInv, MenuTyped, Emptying, Queue, HeadsRise
<1>2. menu.k = center.k
  BY <1>1 DEF HeadsRise, TypeInv, OneQueue, Empty
<1> DEFINE q == [Queue EXCEPT !.length = menu.n - 1]
<1>3. /\ q \in QueueType /\ q.length = menu.n - 1
      /\ q.head = Queue.head /\ q.tail = Queue.tail
  BY <1>1 DEF QueueType
<1>4. queues' = [queues EXCEPT ![menu.k] = q]
  BY DEF Uncounted, SetQueue
<1>5. /\ menu' \in MenuType /\ menu'.pc = "show" /\ menu'.k = menu.k
      /\ menu'.node = menu.node /\ menu'.fd = menu.fd
  BY <1>1 DEF Uncounted, MenuType
<1> QED
  BY <1>1, <1>2, <1>3, <1>4, <1>5 DEF Uncounted

LEMMA UncountedTypeInv ==
  ASSUME TypeInv, HeadsRise, Uncounted
  PROVE  TypeInv'
<1>1. PICK q \in QueueType : queues' = [queues EXCEPT ![menu.k] = q]
  BY UncountedEffect
<1>2. /\ menu.k \in DOMAIN queues /\ menu.k = center.k
      /\ menu' \in MenuType /\ menu'.pc = "show" /\ menu'.k = menu.k
      /\ menu.pc \notin {"notif", "subscribe"}
  BY UncountedEffect
<1>3. UNCHANGED <<tableVars, next, freed, center, outsideVars, shown, overlap, up>>
  BY UncountedEffect
<1>4. Len(queues') = Len(queues) /\ DOMAIN queues' = DOMAIN queues
  BY <1>1, <1>2, QueueChange
<1>5. MenuTyped'
  BY <1>2, <1>4 DEF MenuTyped, Emptying
<1>6. CenterTyped'
  BY <1>3 DEF TypeInv, CenterTyped, tableVars, outsideVars, Reading, Enqueuing
<1>7. next' \in [Msgs -> Node] /\ (Reading' <=> Reading)
  BY <1>3 DEF TypeInv, Reading
<1> QED
  BY <1>1, <1>2, <1>3, <1>5, <1>6, <1>7, QueueChangeTypeInv

LEMMA ShowEffect ==
  ASSUME TypeInv, Show, up'
  PROVE  /\ menu.pc = "show" /\ menu.node \in Msgs /\ menu.k \in DOMAIN queues
         /\ menu.k \in 1..MaxSubs
         /\ UNCHANGED <<queues, tableVars, center, outsideVars, overlap, up>>
         /\ menu' = [menu EXCEPT !.pc = "look", !.node = NULL]
         /\ menu' \in MenuType
         /\ next' = [next EXCEPT ![menu.node] = NULL]
         /\ next' \in [Msgs -> Node]
         /\ freed' = freed \cup {menu.node}
         /\ shown' \in [1..MaxSubs -> Seq(Msgs)]
         /\ shown'[menu.k] = Append(shown[menu.k], menu.node)
         /\ \A k \in 1..MaxSubs : k # menu.k => shown'[k] = shown[k]
<1>1. /\ menu.pc = "show" /\ menu \in MenuType /\ menu.k \in DOMAIN queues
      /\ next \in [Msgs -> Node] /\ ~ Killed
      /\ NULL \in Node
  BY TypeFacts DEF Show, TypeInv, MenuTyped, Emptying, Killed, Node, NULL
<1>2. /\ menu.node # NULL
      /\ UNCHANGED <<queues, tableVars, center, outsideVars, overlap, up>>
      /\ menu' = [menu EXCEPT !.pc = "look", !.node = NULL]
      /\ next' = [next EXCEPT ![menu.node] = NULL]
      /\ freed' = freed \cup {menu.node}
      /\ shown' = [shown EXCEPT ![menu.k] = Append(@, menu.node)]
  BY <1>1 DEF Show
<1>3. menu.node \in Msgs
  BY <1>2, ThreadFacts, TypeFacts DEF Node, Msgs, NULL
<1>4. menu.k \in 1..MaxSubs
  BY <1>1, TypeFacts
<1>5. Append(shown[menu.k], menu.node) \in Seq(Msgs)
  BY <1>3, <1>4, TypeFacts, AppendProperties
<1>6. shown \in [1..MaxSubs -> Seq(Msgs)]
  BY DEF TypeInv, OutsideTyped
<1>7. /\ shown' \in [1..MaxSubs -> Seq(Msgs)]
      /\ shown'[menu.k] = Append(shown[menu.k], menu.node)
      /\ \A k \in 1..MaxSubs : k # menu.k => shown'[k] = shown[k]
  BY <1>2, <1>4, <1>5, <1>6
<1>8. menu' \in MenuType /\ next' \in [Msgs -> Node]
  BY <1>1, <1>2, <1>3 DEF MenuType
<1> QED
  BY <1>1, <1>2, <1>3, <1>4, <1>7, <1>8

(* What is shown was at the head of the one queue that is filled. *)
LEMMA ShowTypeInv ==
  ASSUME TypeInv, Show, up', menu.k = center.k
  PROVE  TypeInv'
<1>1. /\ menu.pc = "show" /\ menu' \in MenuType
      /\ menu'.pc = "look" /\ menu'.k = menu.k /\ menu.k \in DOMAIN queues
      /\ UNCHANGED <<queues, tableVars, center, outsideVars, overlap, up>>
      /\ freed' \subseteq Msgs /\ next' \in [Msgs -> Node]
  BY ShowEffect DEF MenuType, TypeInv
<1>2. TableTyped'
  BY <1>1 DEF TypeInv, TableTyped, tableVars
<1>3. MenuTyped'
  BY <1>1 DEF MenuTyped, Emptying
<1>4. CenterTyped'
  BY <1>1 DEF TypeInv, CenterTyped, tableVars, outsideVars, Reading, Enqueuing
<1>5. OutsideTyped'
  BY <1>1, ShowEffect DEF TypeInv, OutsideTyped, outsideVars
<1>6. OneQueue'
  BY <1>1, ShowEffect, TypeFacts
  DEF TypeInv, OneQueue, tableVars, Reading, SubscriptionOf
<1> QED
  BY <1>1, <1>2, <1>3, <1>4, <1>5, <1>6 DEF TypeInv

LEMMA ArriveEffect ==
  ASSUME TypeInv, NEW fd \in DOMAIN sockets, Arrive(fd)
  PROVE  \E m \in Msgs :
           /\ m \notin Arrivals /\ \A j \in Msgs : j \notin Arrivals => m <= j
           /\ fd \in DOMAIN net /\ sockets[fd] \in 1..MaxSubs
           /\ net' \in Seq(Seq(Msgs)) /\ Len(net') = Len(net)
           /\ DOMAIN net' = DOMAIN net
           /\ net'[fd] = Append(net[fd], m)
           /\ \A e \in DOMAIN net : e # fd => net'[e] = net[e]
           /\ arrived' \in [1..MaxSubs -> Seq(Msgs)]
           /\ arrived'[sockets[fd]] = Append(arrived[sockets[fd]], m)
           /\ \A k \in 1..MaxSubs : k # sockets[fd] => arrived'[k] = arrived[k]
           /\ UNCHANGED <<sharedVars, menu, center, sockets, shown, overlap, up>>
<1> DEFINE T == Msgs \ Arrivals
           m == Min(T)
           k == sockets[fd]
<1>1. T \subseteq Nat /\ T # {}
  BY TypeFacts DEF Arrive, Msgs
<1>2. m \in T /\ \A j \in T : m <= j
  BY <1>1, LeastNumber
<1>3. /\ fd \in DOMAIN net /\ k \in 1..MaxSubs /\ net[fd] \in Seq(Msgs)
      /\ arrived[k] \in Seq(Msgs)
  BY TypeFacts
<1>4. Append(net[fd], m) \in Seq(Msgs) /\ Append(arrived[k], m) \in Seq(Msgs)
  BY <1>2, <1>3, AppendProperties
<1>5. /\ net' = [net EXCEPT ![fd] = Append(net[fd], m)]
      /\ arrived' = [arrived EXCEPT ![k] = Append(arrived[k], m)]
      /\ UNCHANGED <<sharedVars, menu, center, sockets, shown, overlap, up>>
  BY DEF Arrive
<1> HIDE DEF m, k
<1>6. net \in Seq(Seq(Msgs)) /\ DOMAIN net = 1..Len(net)
      /\ arrived \in [1..MaxSubs -> Seq(Msgs)]
  BY LenProperties DEF TypeInv, OutsideTyped
<1>7. /\ net' \in Seq(Seq(Msgs)) /\ Len(net') = Len(net)
      /\ \A e \in 1..Len(net) : net'[e] = IF e = fd THEN Append(net[fd], m)
                                          ELSE net[e]
  BY <1>3, <1>4, <1>5, <1>6, ExceptSeq
<1>8. DOMAIN net' = DOMAIN net
  BY <1>6, <1>7, LenProperties
<1>9. /\ arrived' \in [1..MaxSubs -> Seq(Msgs)]
      /\ arrived'[k] = Append(arrived[k], m)
      /\ \A j \in 1..MaxSubs : j # k => arrived'[j] = arrived[j]
  BY <1>3, <1>4, <1>5, <1>6
<1>10. m \in Msgs /\ m \notin Arrivals /\ \A j \in Msgs : j \notin Arrivals => m <= j
  BY <1>2
<1> QED
  BY <1>3, <1>5, <1>6, <1>7, <1>8, <1>9, <1>10 DEF k

LEMMA ArriveTypeInv ==
  ASSUME TypeInv, NEW fd \in DOMAIN sockets, Arrive(fd)
  PROVE  TypeInv'
<1>1. /\ net' \in Seq(Seq(Msgs)) /\ Len(net') = Len(net)
      /\ DOMAIN net' = DOMAIN net
      /\ arrived' \in [1..MaxSubs -> Seq(Msgs)]
      /\ UNCHANGED <<sharedVars, menu, center, sockets, shown, overlap, up>>
  BY ArriveEffect
<1> QED
  BY <1>1 DEF TypeInv, TableTyped, MenuTyped, CenterTyped, OutsideTyped,
       OneQueue, sharedVars, tableVars, Reading, Enqueuing, Emptying,
       SubscriptionOf

(* refresh_fds polls exactly the subscriptions there are.                  *)
LEMMA RefreshedAll ==
  ASSUME TypeInv
  PROVE  /\ Refreshed(center.fds) \in Seq(1..MaxSubs)
         /\ Len(Refreshed(center.fds)) = Len(subs)
         /\ DOMAIN Refreshed(center.fds) = DOMAIN subs
         /\ \A k \in DOMAIN subs : Refreshed(center.fds)[k] = subs[k].fd
<1> DEFINE n == Len(center.fds)
           m == Len(subs)
           s == [k \in DOMAIN subs |-> subs[k].fd]
           t == SubSeq(s, n + 1, m)
<1>1. /\ m \in Nat /\ n \in 0..m /\ DOMAIN subs = 1..m
      /\ \A k \in 1..m : subs[k].fd \in 1..MaxSubs
      /\ center.fds \in Seq(1..MaxSubs)
      /\ DOMAIN center.fds = 1..n
      /\ \A k \in 1..n : center.fds[k] = subs[k].fd
  BY TypeFacts, ThreadFacts DEF TypeInv, CenterTyped
<1>2. \A k \in 1..m : s[k] = subs[k].fd
  BY <1>1
<1> HIDE DEF n, m, s
<1>3. \A i \in (n + 1)..m : s[i] \in 1..MaxSubs
  BY <1>1, <1>2
<1>4. /\ t \in Seq(1..MaxSubs)
      /\ Len(t) = IF n + 1 <= m THEN m - (n + 1) + 1 ELSE 0
      /\ \A i \in 1..(m - (n + 1) + 1) : t[i] = s[n + 1 + i - 1]
  BY <1>1, <1>3, SubSeqProperties
<1> HIDE DEF t
<1>5. Len(t) = m - n
  <2>1. \A x \in Nat : \A y \in 0..x, z \in Nat :
          z = (IF y + 1 <= x THEN x - (y + 1) + 1 ELSE 0) => z = x - y
    OBVIOUS
  <2>2. Len(t) \in Nat
    BY <1>4, LenProperties
  <2> QED
    BY <1>1, <1>4, <2>1, <2>2
<1>6. /\ center.fds \o t \in Seq(1..MaxSubs)
      /\ Len(center.fds \o t) = n + Len(t)
      /\ \A i \in 1..(n + Len(t)) :
           (center.fds \o t)[i] = IF i <= n THEN center.fds[i] ELSE t[i - n]
  BY <1>1, <1>4, ConcatProperties DEF n
<1>7. n + Len(t) = m
  BY <1>1, <1>5
<1>8. ASSUME NEW k \in 1..m
      PROVE  (center.fds \o t)[k] = subs[k].fd
  <2>1. CASE k <= n
    <3>1. k \in 1..n /\ k \in 1..(n + Len(t))
      BY <1>1, <1>7, <2>1
    <3>2. (center.fds \o t)[k] = center.fds[k]
      BY <1>6, <2>1, <3>1
    <3> QED
      BY <1>1, <3>1, <3>2
  <2>2. CASE k > n
    <3>1. k - n \in 1..(m - (n + 1) + 1) /\ n + 1 + (k - n) - 1 = k
      BY <1>1, <2>2
    <3>2. t[k - n] = s[k]
      BY <1>4, <3>1
    <3> QED
      BY <1>1, <1>2, <1>6, <1>7, <2>2, <3>2
  <2>3. k \in Nat /\ n \in Nat
    BY <1>1
  <2>4. k <= n \/ k > n
    BY <2>3
  <2> QED
    BY <2>1, <2>2, <2>4
<1>9. Refreshed(center.fds) = center.fds \o t
  BY DEF Refreshed, s, t, n, m
<1>10. DOMAIN (center.fds \o t) = 1..m
  BY <1>6, <1>7, LenProperties
<1> QED
  BY <1>1, <1>6, <1>7, <1>8, <1>9, <1>10 DEF m

LEMMA WaitingTypeInv ==
  ASSUME TypeInv, Wait \/ Wake \/ Refresh \/ PollNothing
  PROVE  /\ TypeInv'
         /\ UNCHANGED <<sharedVars, menu, outsideVars, shown, overlap, up>>
         /\ ~ Reading /\ ~ Reading' /\ ~ InHand /\ ~ InHand'
         /\ center'.k = center.k /\ center'.fd = center.fd
         /\ center'.msg = center.msg
         /\ center'.pc \in {"wait", "asleep", "refresh", "poll"}
<1>1. /\ UNCHANGED <<sharedVars, menu, outsideVars, shown, overlap, up>>
      /\ center \in CenterType /\ center.pc \in {"wait", "asleep", "refresh", "poll"}
  BY DEF Wait, Wake, Refresh, PollNothing, TypeInv, CenterTyped
<1>2. /\ center' \in CenterType
      /\ center'.pc \in {"wait", "asleep", "refresh", "poll"}
      /\ center'.k = center.k /\ center'.fd = center.fd
      /\ center'.msg = center.msg
      /\ \/ center'.fds = center.fds
         \/ center'.fds = Refreshed(center.fds)
  <2>1. Refreshed(center.fds) \in Seq(1..MaxSubs)
    BY RefreshedAll
  <2>2. CASE Wait \/ Wake \/ PollNothing
    BY <1>1, <2>2 DEF Wait, Wake, PollNothing, Goto, CenterType
  <2>3. CASE Refresh
    BY <1>1, <2>1, <2>3 DEF Refresh, CenterType
  <2> QED
    BY <2>2, <2>3
<1>3. ~ Reading /\ ~ Reading' /\ ~ Enqueuing' /\ ~ InHand /\ ~ InHand'
  BY <1>1, <1>2 DEF Reading, Enqueuing, InHand
<1>4. /\ Len(center'.fds) <= Len(subs)
      /\ \A k \in DOMAIN center'.fds : center'.fds[k] = subs[k].fd
  BY <1>2, RefreshedAll, TypeFacts DEF TypeInv, CenterTyped
<1>5. CenterTyped'
  BY <1>1, <1>2, <1>3, <1>4 DEF CenterTyped, sharedVars, tableVars
<1>6. /\ net' \in Seq(Seq(Msgs)) /\ Len(net') = Len(net)
      /\ overlap' \in BOOLEAN /\ up' \in BOOLEAN
      /\ UNCHANGED <<sockets, arrived>>
  BY <1>1 DEF TypeInv, OutsideTyped, outsideVars
<1> QED
  BY <1>1, <1>2, <1>3, <1>5, <1>6, CenterMovesTypeInv

LEMMA PollEffect ==
  ASSUME TypeInv, Poll
  PROVE  /\ UNCHANGED <<sharedVars, menu, outsideVars, shown, overlap, up>>
         /\ center.pc = "poll" /\ center' \in CenterType
         /\ center'.pc = "recv" /\ center'.fds = center.fds
         /\ center'.fd \in DOMAIN net
         /\ center'.k = center.k /\ center.k = 0 /\ center'.msg = center.msg
         /\ \E k \in DOMAIN subs : subs[k].fd = center'.fd
<1>1. /\ center \in CenterType /\ center.pc = "poll"
      /\ Readable \subseteq Nat /\ Readable # {}
  BY ThreadFacts DEF Poll, TypeInv, CenterTyped, Readable
<1>2. Min(Readable) \in Readable
  BY <1>1, LeastNumber
<1> DEFINE i == Min(Readable)
           fd == center.fds[i]
<1>3. i \in DOMAIN center.fds /\ fd \in DOMAIN net /\ fd = subs[i].fd
  BY <1>2 DEF Readable, TypeInv, CenterTyped
<1>4. i \in DOMAIN subs /\ fd \in 0..MaxSubs
  <2>1. i \in DOMAIN subs
    <3>1. /\ DOMAIN center.fds = 1..Len(center.fds)
          /\ Len(center.fds) \in 0..Len(subs)
      BY ThreadFacts
    <3>2. DOMAIN subs = 1..Len(subs) /\ Len(subs) \in Nat
      BY TypeFacts
    <3> HIDE DEF i
    <3> QED
      BY <1>3, <3>1, <3>2
  <2> QED
    BY <1>3, <2>1, TypeFacts
<1>5. /\ center' = [center EXCEPT !.pc = "recv", !.fd = fd]
      /\ UNCHANGED <<sharedVars, menu, outsideVars, shown, overlap, up>>
  BY DEF Poll
<1>6. center.k = 0
  BY <1>1 DEF TypeInv, OneQueue, Reading
<1> HIDE DEF i, fd
<1>7. /\ center' \in CenterType /\ center'.pc = "recv" /\ center'.fd = fd
      /\ center'.fds = center.fds /\ center'.k = center.k
      /\ center'.msg = center.msg
  BY <1>1, <1>4, <1>5 DEF CenterType
<1> QED
  BY <1>1, <1>3, <1>4, <1>5, <1>6, <1>7

LEMMA PollTypeInv ==
  ASSUME TypeInv, Poll
  PROVE  TypeInv'
<1>1. CenterTyped'
  BY PollEffect DEF TypeInv, CenterTyped, Enqueuing, sharedVars, tableVars,
     outsideVars
<1>2. Reading'
  BY PollEffect DEF Reading
<1>3. /\ net' \in Seq(Seq(Msgs)) /\ Len(net') = Len(net)
      /\ overlap' \in BOOLEAN /\ up' \in BOOLEAN
      /\ UNCHANGED <<sockets, arrived>>
  BY PollEffect DEF TypeInv, OutsideTyped, outsideVars
<1> QED
  BY <1>1, <1>2, <1>3, PollEffect, CenterMovesTypeInv

LEMMA ReceiveEffect ==
  ASSUME TypeInv, Receive
  PROVE  /\ UNCHANGED <<sharedVars, menu, sockets, arrived, shown, overlap, up>>
         /\ center.pc = "recv" /\ center' \in CenterType
         /\ center'.pc = "add" /\ center'.fds = center.fds
         /\ center'.fd = center.fd /\ center.fd \in DOMAIN net
         /\ center'.k = center.k
         /\ center'.msg = net[center.fd][1] /\ center'.msg \in Msgs
         /\ net[center.fd] \in Seq(Msgs) /\ Len(net[center.fd]) \in Nat \ {0}
         /\ net' \in Seq(Seq(Msgs)) /\ Len(net') = Len(net)
         /\ DOMAIN net' = DOMAIN net
         /\ net'[center.fd] \in Seq(Msgs)
         /\ Len(net'[center.fd]) = Len(net[center.fd]) - 1
         /\ DOMAIN net'[center.fd] = 1..(Len(net[center.fd]) - 1)
         /\ \A i \in 1..(Len(net[center.fd]) - 1) :
              net'[center.fd][i] = net[center.fd][i + 1]
         /\ \A e \in DOMAIN net : e # center.fd => net'[e] = net[e]
<1> DEFINE fd == center.fd
           s == net[fd]
<1>1. /\ center \in CenterType /\ center.pc = "recv" /\ fd \in DOMAIN net
      /\ s \in Seq(Msgs) /\ s # <<>>
  BY TypeFacts DEF Receive, TypeInv, CenterTyped, Reading
<1>2. /\ Len(s) \in Nat \ {0} /\ Head(s) = s[1]
      /\ Tail(s) \in Seq(Msgs) /\ Len(Tail(s)) = Len(s) - 1
      /\ \A i \in 1..Len(Tail(s)) : Tail(s)[i] = s[i + 1]
  BY <1>1, EmptySeq, HeadTailProperties
<1>3. s[1] \in Msgs
  BY <1>1, <1>2, ElementOfSeq
<1>4. s[1] \in Node
  BY <1>3, TypeFacts DEF Msgs, Node
<1>5. /\ center' = [center EXCEPT !.pc = "add", !.msg = s[1]]
      /\ net' = [net EXCEPT ![fd] = Tail(s)]
      /\ UNCHANGED <<sharedVars, menu, sockets, arrived, shown, overlap, up>>
  BY <1>2 DEF Receive
<1>6. net \in Seq(Seq(Msgs)) /\ DOMAIN net = 1..Len(net)
  BY LenProperties DEF TypeInv, OutsideTyped
<1> HIDE DEF fd, s
<1>7. /\ net' \in Seq(Seq(Msgs)) /\ Len(net') = Len(net)
      /\ \A e \in 1..Len(net) : net'[e] = IF e = fd THEN Tail(s) ELSE net[e]
  BY <1>1, <1>2, <1>5, <1>6, ExceptSeq
<1>8. DOMAIN net' = DOMAIN net /\ net'[fd] = Tail(s)
  BY <1>1, <1>6, <1>7, LenProperties
<1>9. /\ center' \in CenterType /\ center'.pc = "add"
      /\ center'.fds = center.fds /\ center'.fd = center.fd
      /\ center'.k = center.k /\ center'.msg = s[1]
  BY <1>1, <1>4, <1>5 DEF CenterType
<1>10. DOMAIN Tail(s) = 1..(Len(s) - 1)
  BY <1>2, LenProperties
<1> QED
  BY <1>1, <1>2, <1>3, <1>5, <1>6, <1>7, <1>8, <1>9, <1>10 DEF s, fd

LEMMA ReceiveTypeInv ==
  ASSUME TypeInv, Receive
  PROVE  TypeInv'
<1>1. Reading /\ Reading' /\ ~ Enqueuing' /\ center'.msg # NULL
  <2>1. center.pc = "recv" /\ center'.pc = "add" /\ center'.msg \in Msgs
    BY ReceiveEffect
  <2> QED
    BY <2>1 DEF Reading, Enqueuing, Msgs, NULL
<1>2. CenterTyped'
  BY <1>1, ReceiveEffect DEF TypeInv, CenterTyped, sharedVars, tableVars
<1>3. overlap' \in BOOLEAN /\ up' \in BOOLEAN
  BY ReceiveEffect DEF TypeInv
<1> QED
  BY <1>1, <1>2, <1>3, ReceiveEffect, CenterMovesTypeInv

LEMMA AddNotifEffect ==
  ASSUME TypeInv, AddNotif
  PROVE  /\ UNCHANGED <<sharedVars, menu, outsideVars, shown, up>>
         /\ overlap' = (overlap \/ (menu.k = center'.k /\ Emptying))
         /\ overlap' \in BOOLEAN
         /\ center.pc = "add" /\ center' \in CenterType
         /\ center'.pc = IF queues[center'.k].length = 0 THEN "first" ELSE "link"
         /\ center'.fds = center.fds /\ center'.fd = center.fd
         /\ center'.msg = center.msg
         /\ center'.k = SubscriptionOf(center.fd) /\ center'.k \in DOMAIN subs
         /\ center'.k \in DOMAIN queues
         /\ center.k # 0 => center.k = center'.k
         /\ Reading /\ Reading' /\ InHand /\ InHand' /\ Enqueuing'
<1> DEFINE k == SubscriptionOf(center.fd)
<1>1. center \in CenterType /\ center.pc = "add" /\ Reading
  BY DEF AddNotif, TypeInv, CenterTyped, Reading
<1>2. \E j \in DOMAIN subs : subs[j].fd = center.fd
  BY <1>1 DEF TypeInv, CenterTyped
<1>3. k \in DOMAIN subs
  BY <1>2, SubscriptionFound
<1>4. k \in DOMAIN queues /\ k \in 0..MaxSubs
  BY <1>3, TypeFacts
<1>5. center.k # 0 => center.k = k
  BY DEF TypeInv, OneQueue
<1>6. /\ center' = [center EXCEPT !.k = k,
                      !.pc = IF queues[k].length = 0 THEN "first" ELSE "link"]
      /\ UNCHANGED <<sharedVars, menu, outsideVars, shown, up>>
      /\ overlap' = (overlap \/ (menu.k = k /\ Emptying))
  BY DEF AddNotif, Emptying
<1> HIDE DEF k
<1>7. /\ center' \in CenterType /\ center'.k = k /\ center'.fd = center.fd
      /\ center'.pc = IF queues[k].length = 0 THEN "first" ELSE "link"
      /\ center'.fds = center.fds /\ center'.msg = center.msg
  BY <1>1, <1>4, <1>6 DEF CenterType
<1>8. overlap' \in BOOLEAN
  BY <1>6 DEF TypeInv
<1>9. InHand /\ InHand' /\ Reading' /\ Enqueuing'
  BY <1>1, <1>7 DEF InHand, Reading, Enqueuing
<1> QED
  BY <1>1, <1>3, <1>4, <1>5, <1>6, <1>7, <1>8, <1>9 DEF k

LEMMA AddNotifTypeInv ==
  ASSUME TypeInv, AddNotif
  PROVE  TypeInv'
<1>1. CenterTyped'
  <2>1. center'.k # 0
    BY AddNotifEffect, TypeFacts
  <2> QED
    BY <2>1, AddNotifEffect DEF TypeInv, CenterTyped, sharedVars, tableVars,
       outsideVars
<1>2. TableTyped' /\ MenuTyped'
  BY AddNotifEffect DEF TypeInv, sharedVars, tableVars, TableTyped, MenuTyped,
     Emptying
<1>3. OutsideTyped'
  BY AddNotifEffect DEF TypeInv, OutsideTyped, sharedVars, outsideVars
<1>4. OneQueue'
  <2>1. UNCHANGED <<queues, subs, shown>>
    BY AddNotifEffect DEF sharedVars, tableVars
  <2>2. SubscriptionOf(center.fd)' = SubscriptionOf(center.fd)
    BY <2>1, AddNotifEffect DEF SubscriptionOf
  <2>3. center.k = 0 => /\ \A j \in DOMAIN queues : queues[j] = Empty
                        /\ \A j \in DOMAIN shown : shown[j] = <<>>
    BY TypeFacts DEF TypeInv, OneQueue
  <2> QED
    BY <2>1, <2>2, <2>3, AddNotifEffect DEF TypeInv, OneQueue
<1> QED
  BY <1>1, <1>2, <1>3, <1>4, AddNotifEffect DEF TypeInv, sharedVars

(* Where a message is enqueued is a queue. *)
LEMMA TargetFacts ==
  ASSUME TypeInv, Enqueuing
  PROVE  /\ center.k \in DOMAIN queues /\ center.k \in DOMAIN subs
         /\ Target \in QueueType /\ Target.length \in Nat
         /\ Target.head \in Node /\ Target.tail \in Node
         /\ center.msg \in Msgs /\ center.msg \in Node
         /\ center \in CenterType /\ next \in [Msgs -> Node]
<1>1. center.k \in DOMAIN subs
  BY DEF TypeInv, CenterTyped, OneQueue
<1>2. center.k \in DOMAIN queues
  BY <1>1, TypeFacts
<1>3. center.msg \in Node /\ center.msg # NULL
  BY ThreadFacts DEF TypeInv, CenterTyped
<1>4. center.msg \in Msgs
  BY <1>3, TypeFacts DEF Node, Msgs, NULL
<1> QED
  BY <1>1, <1>2, <1>3, <1>4, TypeFacts DEF Target, TypeInv, CenterTyped

(* The writes of enqueue in the queue, in one form. *)
LEMMA EnqueueWrite ==
  ASSUME TypeInv, LinkFirst \/ MoveTail \/ Counted
  PROVE  /\ Enqueuing /\ center.k \in DOMAIN queues
         /\ UNCHANGED <<tableVars, next, freed, menu, outsideVars, shown,
                        overlap, up>>
         /\ center' \in CenterType
         /\ center'.fds = center.fds /\ center'.fd = center.fd
         /\ center'.k = center.k
         /\ Reading /\ Reading' /\ ~ InHand'
         /\ \E q \in QueueType :
              /\ queues' = [queues EXCEPT ![center.k] = q]
              /\ \/ /\ LinkFirst /\ center.pc = "first" /\ center'.pc = "count"
                    /\ q.head = center.msg /\ q.tail = center.msg
                    /\ q.length = Target.length /\ center'.msg = center.msg
                 \/ /\ MoveTail /\ center.pc = "tail" /\ center'.pc = "count"
                    /\ q.head = Target.head /\ q.tail = center.msg
                    /\ q.length = Target.length /\ center'.msg = center.msg
                 \/ /\ Counted /\ center.pc = "counted" /\ center'.pc = "recv"
                    /\ q.head = Target.head /\ q.tail = Target.tail
                    /\ q.length = center.n + 1 /\ center'.msg = NULL
<1>1. Enqueuing
  BY DEF LinkFirst, MoveTail, Counted, Enqueuing
<1>2. /\ center.k \in DOMAIN queues /\ Target \in QueueType
      /\ center.msg \in Node /\ center \in CenterType /\ center.n \in Nat
      /\ NULL \in Node
  BY <1>1, TargetFacts, ThreadFacts, TypeFacts DEF Node, NULL
<1>3. CASE LinkFirst
  <2> DEFINE q == [Target EXCEPT !.head = center.msg, !.tail = center.msg]
  <2>1. /\ q \in QueueType /\ q.head = center.msg /\ q.tail = center.msg
        /\ q.length = Target.length
    BY <1>2 DEF QueueType
  <2>2. /\ queues' = [queues EXCEPT ![center.k] = q]
        /\ center.pc = "first" /\ center' = [center EXCEPT !.pc = "count"]
        /\ UNCHANGED <<tableVars, next, freed, menu, outsideVars, shown,
                       overlap, up>>
    BY <1>3 DEF LinkFirst, SetTarget, Goto
  <2>3. /\ center' \in CenterType /\ center'.pc = "count"
        /\ center'.fds = center.fds /\ center'.fd = center.fd
        /\ center'.k = center.k /\ center'.msg = center.msg
    BY <1>2, <2>2 DEF CenterType
  <2> QED
    BY <1>1, <1>2, <1>3, <2>1, <2>2, <2>3 DEF Reading, InHand
<1>4. CASE MoveTail
  <2> DEFINE q == [Target EXCEPT !.tail = center.msg]
  <2>1. /\ q \in QueueType /\ q.head = Target.head /\ q.tail = center.msg
        /\ q.length = Target.length
    BY <1>2 DEF QueueType
  <2>2. /\ queues' = [queues EXCEPT ![center.k] = q]
        /\ center.pc = "tail" /\ center' = [center EXCEPT !.pc = "count"]
        /\ UNCHANGED <<tableVars, next, freed, menu, outsideVars, shown,
                       overlap, up>>
    BY <1>4 DEF MoveTail, SetTarget, Goto
  <2>3. /\ center' \in CenterType /\ center'.pc = "count"
        /\ center'.fds = center.fds /\ center'.fd = center.fd
        /\ center'.k = center.k /\ center'.msg = center.msg
    BY <1>2, <2>2 DEF CenterType
  <2> QED
    BY <1>1, <1>2, <1>4, <2>1, <2>2, <2>3 DEF Reading, InHand
<1>5. CASE Counted
  <2> DEFINE q == [Target EXCEPT !.length = center.n + 1]
  <2>1. /\ q \in QueueType /\ q.head = Target.head /\ q.tail = Target.tail
        /\ q.length = center.n + 1
    BY <1>2 DEF QueueType
  <2>2. /\ queues' = [queues EXCEPT ![center.k] = q]
        /\ center.pc = "counted"
        /\ center' = [center EXCEPT !.pc = "recv", !.msg = NULL, !.n = 0]
        /\ UNCHANGED <<tableVars, next, freed, menu, outsideVars, shown,
                       overlap, up>>
    BY <1>5 DEF Counted, SetTarget
  <2>3. /\ center' \in CenterType /\ center'.pc = "recv"
        /\ center'.fds = center.fds /\ center'.fd = center.fd
        /\ center'.k = center.k /\ center'.msg = NULL
    BY <1>2, <2>2 DEF CenterType
  <2> QED
    BY <1>1, <1>2, <1>5, <2>1, <2>2, <2>3 DEF Reading, InHand
<1> QED
  BY <1>3, <1>4, <1>5

LEMMA EnqueueWriteTypeInv ==
  ASSUME TypeInv, LinkFirst \/ MoveTail \/ Counted
  PROVE  TypeInv'
<1>1. PICK q \in QueueType : queues' = [queues EXCEPT ![center.k] = q]
  BY EnqueueWrite
<1>2. /\ center.k \in DOMAIN queues /\ Enqueuing /\ Reading /\ Reading'
      /\ UNCHANGED <<tableVars, next, freed, menu, outsideVars, shown, overlap,
                     up>>
  BY EnqueueWrite
<1>3. Len(queues') = Len(queues) /\ DOMAIN queues' = DOMAIN queues
  BY <1>1, <1>2, QueueChange
<1>4. MenuTyped'
  BY <1>2, <1>3 DEF TypeInv, MenuTyped, Emptying
<1>5. CenterTyped'
  <2>1. center.msg \in Msgs /\ center.k # 0
    BY <1>2, TargetFacts DEF TypeInv, CenterTyped
  <2>2. center'.pc \in {"count", "recv"}
        /\ (center'.pc = "count" => center'.msg = center.msg)
    BY EnqueueWrite
  <2>3. Enqueuing' \/ center'.pc = "add" => center'.msg # NULL
    BY <2>1, <2>2 DEF Enqueuing, Msgs, NULL
  <2> QED
    BY <1>2, <2>1, <2>3, EnqueueWrite DEF TypeInv, CenterTyped, tableVars,
       outsideVars
<1>6. next' \in [Msgs -> Node]
  BY <1>2 DEF TypeInv
<1>7. center'.k = center.k /\ center'.fd = center.fd
  BY EnqueueWrite
<1> QED
  BY <1>1, <1>2, <1>4, <1>5, <1>6, <1>7, QueueChangeTypeInv

(* The other steps of enqueue change next at most. *)
LEMMA LinkEffect ==
  ASSUME TypeInv, Link
  PROVE  /\ Enqueuing /\ center.pc = "link" /\ Target.tail \in Msgs
         /\ UNCHANGED <<queues, tableVars, freed, menu, outsideVars, shown,
                        overlap, up>>
         /\ center' \in CenterType /\ center'.pc = "tail"
         /\ center'.fds = center.fds /\ center'.fd = center.fd
         /\ center'.k = center.k /\ center'.msg = center.msg
         /\ next' \in [Msgs -> Node]
         /\ \A m \in Msgs : m # Target.tail => next'[m] = next[m]
         /\ Target.tail \in freed => next' = next
         /\ Target.tail \notin freed => next'[Target.tail] = center.msg
<1>1. Enqueuing /\ center.pc = "link" /\ Target.tail # NULL
  BY DEF Link, Enqueuing
<1>2. /\ Target.tail \in Node /\ center.msg \in Node /\ center \in CenterType
      /\ next \in [Msgs -> Node]
  BY <1>1, TargetFacts
<1>3. Target.tail \in Msgs
  BY <1>1, <1>2, TypeFacts DEF Node, Msgs, NULL
<1>4. /\ center' = [center EXCEPT !.pc = "tail"]
      /\ UNCHANGED <<queues, tableVars, freed, menu, outsideVars, shown,
                     overlap, up>>
      /\ next' = IF Target.tail \in freed THEN next
                 ELSE [next EXCEPT ![Target.tail] = center.msg]
  BY DEF Link, Goto
<1>5. /\ center' \in CenterType /\ center'.pc = "tail"
      /\ center'.fds = center.fds /\ center'.fd = center.fd
      /\ center'.k = center.k /\ center'.msg = center.msg
  BY <1>2, <1>4 DEF CenterType
<1> QED
  BY <1>1, <1>2, <1>3, <1>4, <1>5

LEMMA CountEffect ==
  ASSUME TypeInv, Count
  PROVE  /\ Enqueuing /\ center.pc = "count"
         /\ UNCHANGED <<sharedVars, menu, outsideVars, shown, overlap, up>>
         /\ center' \in CenterType /\ center'.pc = "counted"
         /\ center'.fds = center.fds /\ center'.fd = center.fd
         /\ center'.k = center.k /\ center'.msg = center.msg
         /\ center'.n = Target.length
<1>1. Enqueuing /\ center.pc = "count"
  BY DEF Count, Enqueuing
<1>2. center \in CenterType /\ Target.length \in Nat
  BY <1>1, TargetFacts
<1>3. /\ center' = [center EXCEPT !.pc = "counted", !.n = Target.length]
      /\ UNCHANGED <<sharedVars, menu, outsideVars, shown, overlap, up>>
  BY DEF Count
<1> QED
  BY <1>1, <1>2, <1>3 DEF CenterType

LEMMA ElsewhereEffect ==
  ASSUME TypeInv, EnqueueElsewhere
  PROVE  /\ Enqueuing /\ ~ InPlace
         /\ UNCHANGED <<sharedVars, menu, outsideVars, shown, overlap, up>>
         /\ center' \in CenterType /\ center'.pc = "recv"
         /\ center'.fds = center.fds /\ center'.fd = center.fd
         /\ center'.k = center.k /\ center'.msg = NULL
<1>1. Enqueuing /\ ~ InPlace
  BY DEF EnqueueElsewhere
<1>2. center \in CenterType /\ NULL \in Node
  BY <1>1, TargetFacts, TypeFacts DEF Node, NULL
<1>3. /\ center' = [center EXCEPT !.pc = "recv", !.msg = NULL, !.n = 0]
      /\ UNCHANGED <<sharedVars, menu, outsideVars, shown, overlap, up>>
  BY DEF EnqueueElsewhere
<1> QED
  BY <1>1, <1>2, <1>3 DEF CenterType

LEMMA EnqueueTypeInv ==
  ASSUME TypeInv, Link \/ Count \/ EnqueueElsewhere
  PROVE  TypeInv'
<1>1. /\ Enqueuing
      /\ UNCHANGED <<queues, tableVars, freed, menu, outsideVars, shown,
                     overlap, up>>
      /\ center' \in CenterType /\ center'.pc \in {"tail", "counted", "recv"}
      /\ center'.fds = center.fds /\ center'.fd = center.fd
      /\ center'.k = center.k
      /\ center'.pc # "recv" => center'.msg = center.msg
      /\ next' \in [Msgs -> Node]
  <2>1. CASE Link
    BY <2>1, LinkEffect
  <2>2. CASE Count
    BY <2>2, CountEffect DEF sharedVars, TypeInv
  <2>3. CASE EnqueueElsewhere
    BY <2>3, ElsewhereEffect DEF sharedVars, TypeInv
  <2> QED
    BY <2>1, <2>2, <2>3
<1>2. Reading /\ Reading' /\ center.msg # NULL /\ center.k # 0
  BY <1>1 DEF Reading, Enqueuing, TypeInv, CenterTyped
<1>3. TableTyped' /\ MenuTyped' /\ OutsideTyped'
  BY <1>1 DEF TypeInv, TableTyped, MenuTyped, OutsideTyped, tableVars,
     outsideVars, Emptying
<1>4. CenterTyped'
  <2>1. Enqueuing' \/ center'.pc = "add" => center'.msg # NULL
    BY <1>1, <1>2 DEF Enqueuing
  <2> QED
    BY <1>1, <1>2, <2>1 DEF TypeInv, CenterTyped, tableVars, outsideVars
<1>5. OneQueue'
  BY <1>1, <1>2 DEF TypeInv, OneQueue, tableVars, SubscriptionOf
<1> QED
  BY <1>1, <1>3, <1>4, <1>5 DEF TypeInv

LEMMA TypeStep ==
  ASSUME TypeInv, HeadsRise, [Next]_vars
  PROVE  TypeInv'
<1>1. CASE User
  BY <1>1, SubscribeTypeInv, PrintingTypeInv DEF User
<1>2. CASE Unlink
  <2>1. CASE up'
    BY <1>2, <2>1, UnlinkTypeInv
  <2>2. CASE ~ up'
    BY <1>2, <2>2, KilledTypeInv DEF Unlink
  <2> QED
    BY <2>1, <2>2
<1>3. CASE Show
  <2>1. CASE up'
    <3>1. menu.k = center.k
      BY <1>3 DEF Show, HeadsRise, Emptying
    <3> QED
      BY <1>3, <2>1, <3>1, ShowTypeInv
  <2>2. CASE ~ up'
    BY <1>3, <2>2, KilledTypeInv DEF Show
  <2> QED
    BY <2>1, <2>2
<1>4. CASE MenuStep
  BY <1>2, <1>3, <1>4, AddQueueTypeInv, AddSubscriptionTypeInv,
     PrintingTypeInv, UncountedTypeInv DEF MenuStep
<1>5. CASE EnqueueKills
  BY <1>5, KilledTypeInv DEF EnqueueKills
<1>6. CASE CenterStep
  BY <1>5, <1>6, WaitingTypeInv, PollTypeInv, ReceiveTypeInv, AddNotifTypeInv,
     EnqueueWriteTypeInv, EnqueueTypeInv DEF CenterStep
<1>7. CASE UNCHANGED vars
  BY <1>7 DEF TypeInv, vars, TableTyped, MenuTyped, CenterTyped, OutsideTyped,
     OneQueue, sharedVars, tableVars, outsideVars, Reading, Enqueuing,
     Emptying, SubscriptionOf
<1> QED
  BY <1>1, <1>4, <1>6, <1>7, WaitingTypeInv, ArriveTypeInv DEF Next

-----------------------------------------------------------------------------
(* The order of the messages *)

LEMMA InitOrderInv == Init => OrderInv
<1> SUFFICES ASSUME Init
             PROVE  OrderInv
  OBVIOUS
<1>1. /\ queues = <<>> /\ net = <<>> /\ sockets = <<>> /\ freed = {}
      /\ next = [m \in Msgs |-> NULL]
      /\ menu.pc = "idle" /\ menu.node = NULL /\ center.pc = "wait"
      /\ arrived = [k \in 1..MaxSubs |-> <<>>]
      /\ shown = [k \in 1..MaxSubs |-> <<>>]
  BY DEF Init
<1>2. DOMAIN <<>> = {} /\ Range(<<>>) = {}
  BY DEF Range
<1>3. Arrivals = {}
  BY <1>1, <1>2 DEF Arrivals
<1>4. ArrivedInOrder
  BY <1>1, <1>2, <1>3 DEF ArrivedInOrder
<1>5. ~ Reading /\ ~ InHand /\ ~ Enqueuing /\ ~ Emptying
  BY <1>1 DEF Reading, InHand, Enqueuing, Emptying
<1>6. \A x \in Placed : x = NULL
  BY <1>1, <1>2 DEF Placed
<1>7. PlacedEarlier
  BY <1>1, <1>5, <1>6 DEF PlacedEarlier, Fresh
<1>8. HeadsRise
  BY <1>1, <1>2, <1>5 DEF HeadsRise
<1>9. ShownRises
  BY <1>1, <1>2 DEF ShownRises
<1> QED
  BY <1>4, <1>7, <1>8, <1>9 DEF OrderInv

LEMMA RangeAppend ==
  ASSUME NEW S, NEW s \in Seq(S), NEW e \in S
  PROVE  /\ Range(Append(s, e)) = Range(s) \cup {e}
         /\ DOMAIN Append(s, e) = 1..(Len(s) + 1)
<1>1. /\ Append(s, e) \in Seq(S) /\ Len(Append(s, e)) = Len(s) + 1
      /\ \A i \in 1..Len(s) : Append(s, e)[i] = s[i]
      /\ Append(s, e)[Len(s) + 1] = e
  BY AppendProperties
<1>2. /\ DOMAIN s = 1..Len(s) /\ DOMAIN Append(s, e) = 1..(Len(s) + 1)
      /\ Len(s) \in Nat
  BY <1>1, LenProperties
<1>3. Range(Append(s, e)) \subseteq Range(s) \cup {e}
  <2> SUFFICES ASSUME NEW i \in 1..(Len(s) + 1)
               PROVE  Append(s, e)[i] \in Range(s) \cup {e}
    BY <1>2 DEF Range
  <2>1. i \in 1..Len(s) \/ i = Len(s) + 1
    BY <1>2
  <2> QED
    BY <1>1, <1>2, <2>1 DEF Range
<1>4. Range(s) \subseteq Range(Append(s, e))
  <2> SUFFICES ASSUME NEW i \in 1..Len(s)
               PROVE  s[i] \in Range(Append(s, e))
    BY <1>2 DEF Range
  <2>1. i \in 1..(Len(s) + 1)
    BY <1>2
  <2> QED
    BY <1>1, <1>2, <2>1 DEF Range
<1>5. e \in Range(Append(s, e))
  <2>1. Len(s) + 1 \in 1..(Len(s) + 1)
    BY <1>2
  <2> QED
    BY <1>1, <1>2, <2>1 DEF Range
<1> QED
  BY <1>2, <1>3, <1>4, <1>5

LEMMA ArrivalsFacts ==
  ASSUME TypeInv
  PROVE  /\ Arrivals \subseteq Msgs
         /\ \A m : m \in Arrivals <=> \E k \in 1..MaxSubs : m \in Range(arrived[k])
         /\ \A k \in 1..MaxSubs : Range(arrived[k]) \subseteq Msgs
         /\ \A fd \in DOMAIN net : Range(net[fd]) \subseteq Msgs
<1>1. \A m : m \in Arrivals <=> \E k \in 1..MaxSubs : m \in Range(arrived[k])
  BY TypeFacts DEF Arrivals
<1>2. ASSUME NEW s \in Seq(Msgs)
      PROVE  Range(s) \subseteq Msgs
  BY LenProperties DEF Range
<1> QED
  BY <1>1, <1>2, TypeFacts

(* A new message has the greatest number so far. *)
LEMMA ArrivesLast ==
  ASSUME TypeInv, ArrivedInOrder, NEW m \in Msgs, m \notin Arrivals
  PROVE  \A a \in Arrivals : a < m
<1> SUFFICES ASSUME NEW a \in Arrivals, ~ (a < m)
             PROVE  FALSE
  OBVIOUS
<1>1. a \in Nat /\ m \in Nat \ {0}
  BY ArrivalsFacts, TypeFacts DEF Msgs
<1>2. m \in 1..a
  BY <1>1
<1> QED
  BY <1>2 DEF ArrivedInOrder

LEMMA ArriveArrived ==
  ASSUME TypeInv, ArrivedInOrder, NEW fd \in DOMAIN sockets, Arrive(fd)
  PROVE  ArrivedInOrder'
<1>1. PICK m \in Msgs :
         /\ m \notin Arrivals /\ \A j \in Msgs : j \notin Arrivals => m <= j
         /\ fd \in DOMAIN net /\ sockets[fd] \in 1..MaxSubs
         /\ net' \in Seq(Seq(Msgs)) /\ Len(net') = Len(net)
         /\ DOMAIN net' = DOMAIN net
         /\ net'[fd] = Append(net[fd], m)
         /\ \A e \in DOMAIN net : e # fd => net'[e] = net[e]
         /\ arrived' \in [1..MaxSubs -> Seq(Msgs)]
         /\ arrived'[sockets[fd]] = Append(arrived[sockets[fd]], m)
         /\ \A k \in 1..MaxSubs : k # sockets[fd] => arrived'[k] = arrived[k]
         /\ UNCHANGED <<sharedVars, menu, center, sockets, shown, overlap, up>>
  BY ArriveEffect
<1> DEFINE g == sockets[fd]
<1>2. /\ net[fd] \in Seq(Msgs) /\ arrived[g] \in Seq(Msgs)
      /\ g \in 1..MaxSubs /\ DOMAIN arrived = 1..MaxSubs
      /\ DOMAIN arrived' = 1..MaxSubs
  BY <1>1, TypeFacts
<1>3. \A a \in Arrivals : a < m
  BY <1>1, ArrivesLast
<1>4. /\ Range(net'[fd]) = Range(net[fd]) \cup {m}
      /\ Range(arrived'[g]) = Range(arrived[g]) \cup {m}
      /\ DOMAIN net'[fd] = 1..(Len(net[fd]) + 1)
      /\ DOMAIN arrived'[g] = 1..(Len(arrived[g]) + 1)
  BY <1>1, <1>2, RangeAppend
<1>5. Arrivals' = Arrivals \cup {m}
  <2>1. \A x : x \in Arrivals' <=> \E k \in 1..MaxSubs : x \in Range(arrived'[k])
    BY <1>2 DEF Arrivals
  <2>2. \A x : x \in Arrivals <=> \E k \in 1..MaxSubs : x \in Range(arrived[k])
    BY ArrivalsFacts
  <2>3. ASSUME NEW x
        PROVE  x \in Arrivals' <=> x \in Arrivals \cup {m}
    BY <1>1, <1>2, <1>4, <2>1, <2>2
  <2> QED
    BY <2>3
<1>6. \A a \in Arrivals' : 1..a \subseteq Arrivals'
  <2> SUFFICES ASSUME NEW j \in 1..m, j # m
               PROVE  j \in Arrivals
    BY <1>5 DEF ArrivedInOrder
  <2>1. j \in Msgs /\ j < m
    BY TypeFacts DEF Msgs
  <2> QED
    BY <1>1, <2>1 DEF Msgs
<1>7. ASSUME NEW s \in Seq(Msgs), Range(s) \subseteq Arrivals,
             \A i, j \in DOMAIN s : i < j => s[i] < s[j],
             NEW i \in DOMAIN Append(s, m), NEW j \in DOMAIN Append(s, m), i < j
      PROVE  Append(s, m)[i] < Append(s, m)[j]
  <2>1. /\ DOMAIN s = 1..Len(s) /\ Len(s) \in Nat
        /\ DOMAIN Append(s, m) = 1..(Len(s) + 1)
        /\ \A l \in 1..Len(s) : Append(s, m)[l] = s[l]
        /\ Append(s, m)[Len(s) + 1] = m
    BY AppendProperties, RangeAppend, LenProperties
  <2>2. i \in 1..Len(s) /\ (j \in 1..Len(s) \/ j = Len(s) + 1)
    BY <1>7, <2>1
  <2>3. s[i] \in Arrivals
    BY <1>7, <2>1, <2>2 DEF Range
  <2>4. s[i] < m
    BY <1>3, <2>3
  <2> QED
    BY <1>7, <2>1, <2>2, <2>4
<1>8. /\ Range(arrived[g]) \subseteq Arrivals /\ Range(net[fd]) \subseteq Arrivals
  BY <1>1, <1>2, ArrivalsFacts DEF ArrivedInOrder
<1>9. \A k \in DOMAIN arrived' : \A i, j \in DOMAIN arrived'[k] :
        i < j => arrived'[k][i] < arrived'[k][j]
  <2> SUFFICES ASSUME NEW k \in 1..MaxSubs, NEW i \in DOMAIN arrived'[k],
                      NEW j \in DOMAIN arrived'[k], i < j
               PROVE  arrived'[k][i] < arrived'[k][j]
    BY <1>2
  <2>1. CASE k # g
    BY <1>1, <1>2, <2>1 DEF ArrivedInOrder
  <2>2. CASE k = g
    <3>1. arrived'[k] = Append(arrived[g], m)
      BY <1>1, <2>2
    <3>2. \A a, b \in DOMAIN arrived[g] : a < b => arrived[g][a] < arrived[g][b]
      BY <1>2 DEF ArrivedInOrder
    <3> QED
      BY <1>2, <1>7, <1>8, <3>1, <3>2
  <2> QED
    BY <2>1, <2>2
<1>10. \A e \in DOMAIN net' : \A i, j \in DOMAIN net'[e] :
         i < j => net'[e][i] < net'[e][j]
  <2> SUFFICES ASSUME NEW e \in DOMAIN net, NEW i \in DOMAIN net'[e],
                      NEW j \in DOMAIN net'[e], i < j
               PROVE  net'[e][i] < net'[e][j]
    BY <1>1
  <2>1. CASE e # fd
    BY <1>1, <2>1 DEF ArrivedInOrder
  <2>2. CASE e = fd
    <3>1. net'[e] = Append(net[fd], m)
      BY <1>1, <2>2
    <3>2. \A a, b \in DOMAIN net[fd] : a < b => net[fd][a] < net[fd][b]
      BY <1>1 DEF ArrivedInOrder
    <3> QED
      BY <1>2, <1>7, <1>8, <3>1, <3>2
  <2> QED
    BY <2>1, <2>2
<1>11. ASSUME NEW e \in DOMAIN net'
       PROVE  Range(net'[e]) \subseteq Range(arrived'[sockets'[e]])
  <2>1. e \in DOMAIN net /\ sockets'[e] = sockets[e] /\ sockets[e] \in 1..MaxSubs
    BY <1>1, TypeFacts
  <2>2. Range(arrived[sockets[e]]) \subseteq Range(arrived'[sockets[e]])
    BY <1>1, <1>4, <2>1
  <2>3. Range(net[e]) \subseteq Range(arrived[sockets[e]])
    BY <2>1 DEF ArrivedInOrder
  <2>4. CASE e = fd
    BY <1>4, <2>1, <2>2, <2>3, <2>4
  <2>5. CASE e # fd
    BY <1>1, <2>1, <2>2, <2>3, <2>5
  <2> QED
    BY <2>4, <2>5
<1> QED
  BY <1>6, <1>9, <1>10, <1>11 DEF ArrivedInOrder

(* A new socket has nothing to read, and what is read leaves the rest in   *)
(* its order.                                                              *)
LEMMA SubscribeArrived ==
  ASSUME TypeInv, ArrivedInOrder, NEW joined \in BOOLEAN, Subscribe(joined)
  PROVE  ArrivedInOrder'
<1>1. /\ arrived' = arrived /\ Len(sockets) \in Nat /\ DOMAIN net = 1..Len(sockets)
      /\ \A fd \in DOMAIN net : /\ fd \in DOMAIN net' /\ net'[fd] = net[fd]
                               /\ sockets'[fd] = sockets[fd]
      /\ \/ sockets' = sockets /\ net' = net
         \/ /\ DOMAIN net' = 1..(Len(sockets) + 1)
            /\ net'[Len(sockets) + 1] = <<>>
  BY SubscribeEffect, TypeFacts
<1>2. \A fd \in DOMAIN net' : fd \in DOMAIN net \/ net'[fd] = <<>>
  BY <1>1
<1>3. DOMAIN <<>> = {} /\ Range(<<>>) = {}
  BY DEF Range
<1>4. Arrivals' = Arrivals
  BY <1>1 DEF Arrivals
<1>5. ASSUME NEW fd \in DOMAIN net'
      PROVE  /\ \A i, j \in DOMAIN net'[fd] : i < j => net'[fd][i] < net'[fd][j]
             /\ Range(net'[fd]) \subseteq Range(arrived'[sockets'[fd]])
  <2>1. CASE fd \in DOMAIN net
    BY <1>1, <2>1 DEF ArrivedInOrder
  <2>2. CASE net'[fd] = <<>>
    BY <1>3, <2>2
  <2> QED
    BY <1>2, <2>1, <2>2
<1> QED
  BY <1>1, <1>4, <1>5 DEF ArrivedInOrder

LEMMA ReceiveArrived ==
  ASSUME TypeInv, ArrivedInOrder, Receive
  PROVE  /\ ArrivedInOrder'
         /\ \A m \in Range(net'[center.fd]) : /\ m \in Range(net[center.fd])
                                              /\ center'.msg < m
         /\ center'.msg \in Range(net[center.fd])
<1> DEFINE c == center.fd
<1>1. PICK n \in Nat \ {0} : /\ n = Len(net[c]) /\ DOMAIN net[c] = 1..n
                             /\ DOMAIN net'[c] = 1..(n - 1)
  <2>1. net[c] \in Seq(Msgs) /\ Len(net[c]) \in Nat \ {0}
    BY ReceiveEffect
  <2>2. DOMAIN net[c] = 1..Len(net[c])
    BY <2>1, LenProperties
  <2> QED
    BY <2>1, <2>2, ReceiveEffect
<1>2. /\ UNCHANGED <<sockets, arrived>> /\ DOMAIN net' = DOMAIN net
      /\ c \in DOMAIN net /\ center'.msg = net[c][1]
      /\ \A i \in 1..(n - 1) : net'[c][i] = net[c][i + 1]
      /\ \A e \in DOMAIN net : e # c => net'[e] = net[e]
  BY <1>1, ReceiveEffect
<1>3. \A i \in 1..(n - 1) : i + 1 \in 1..n /\ i < i + 1 /\ 1 < i + 1
  BY <1>1
<1>4. 1 \in 1..n
  BY <1>1
<1>5. \A i, j \in 1..n : i < j => net[c][i] < net[c][j]
  BY <1>1, <1>2 DEF ArrivedInOrder
<1>6. \A i, j \in 1..(n - 1) : i < j => net'[c][i] < net'[c][j]
  <2> SUFFICES ASSUME NEW i \in 1..(n - 1), NEW j \in 1..(n - 1), i < j
               PROVE  net'[c][i] < net'[c][j]
    OBVIOUS
  <2>1. i + 1 < j + 1
    OBVIOUS
  <2> QED
    BY <1>2, <1>3, <1>5, <2>1
<1>7. \A m \in Range(net'[c]) : m \in Range(net[c]) /\ center'.msg < m
  BY <1>1, <1>2, <1>3, <1>4, <1>5 DEF Range
<1>8. center'.msg \in Range(net[c])
  BY <1>1, <1>2, <1>4 DEF Range
<1>9. Arrivals' = Arrivals
  BY <1>2 DEF Arrivals
<1>10. ASSUME NEW fd \in DOMAIN net'
       PROVE  /\ \A i, j \in DOMAIN net'[fd] : i < j => net'[fd][i] < net'[fd][j]
              /\ Range(net'[fd]) \subseteq Range(arrived'[sockets'[fd]])
  <2>1. CASE fd = c
    BY <1>1, <1>2, <1>6, <1>7, <2>1 DEF ArrivedInOrder
  <2>2. CASE fd # c
    BY <1>2, <2>2 DEF ArrivedInOrder
  <2> QED
    BY <2>1, <2>2
<1>11. ArrivedInOrder'
  BY <1>2, <1>9, <1>10 DEF ArrivedInOrder
<1> QED
  BY <1>7, <1>8, <1>11

(* Only these three steps change what is outside. *)
LEMMA OutsideStays ==
  ASSUME [Next]_vars
  PROVE  \/ UNCHANGED outsideVars
         \/ \E joined \in BOOLEAN : Subscribe(joined)
         \/ Receive
         \/ \E fd \in DOMAIN sockets : Arrive(fd)
<1>1. CASE PrintNotif \/ MenuStep
  BY <1>1 DEF MenuStep, PrintNotif, AddQueue, AddSubscription, NoMore, Dequeue,
     Unlink, Uncount, Uncounted, Show
<1>2. CASE CenterStep /\ ~ Receive
  BY <1>2 DEF CenterStep, Wait, Refresh, Poll, PollNothing, AddNotif, LinkFirst,
     Link, MoveTail, Count, Counted, EnqueueElsewhere, EnqueueKills
<1>3. CASE Wake \/ UNCHANGED vars
  BY <1>3 DEF Wake, vars
<1> QED
  BY <1>1, <1>2, <1>3 DEF Next, User

LEMMA ArrivedStep ==
  ASSUME TypeInv, ArrivedInOrder, [Next]_vars
  PROVE  ArrivedInOrder'
<1>1. CASE UNCHANGED outsideVars
  BY <1>1 DEF outsideVars, ArrivedInOrder, Arrivals
<1> QED
  BY <1>1, OutsideStays, SubscribeArrived, ReceiveArrived, ArriveArrived

-----------------------------------------------------------------------------
(* Messages that are placed came before those that are not. *)

(* All that a step does but Poll, Receive and Arrive: the nodes known are  *)
(* not new, or the message in hand is one of them from now on.             *)
LEMMA PlacedKept ==
  ASSUME TypeInv, PlacedEarlier, UNCHANGED arrived,
         Reading' <=> Reading,
         Reading => /\ center'.fd = center.fd
                    /\ sockets'[center.fd] = sockets[center.fd]
                    /\ net'[center.fd] = net[center.fd],
         InHand' => InHand,
         center'.pc = "add" \/ Enqueuing' =>
           (center.pc = "add" \/ Enqueuing) /\ center'.msg = center.msg,
         \A x \in Placed' : x = NULL \/ x \in Placed
                            \/ (x = center.msg /\ InHand /\ ~ InHand')
  PROVE  PlacedEarlier'
<1>1. /\ Reading => center.fd \in DOMAIN net
      /\ \A fd \in DOMAIN net : Range(net[fd]) \subseteq Msgs
      /\ \A m \in Msgs : m \in Nat /\ NULL < m
      /\ center.pc = "add" \/ Enqueuing => center.msg \in Msgs
  <2>1. \A m \in Msgs : m \in Nat /\ NULL < m
    BY TypeFacts DEF Msgs, NULL
  <2>2. /\ Reading => center.fd \in DOMAIN net
        /\ center.pc = "add" \/ Enqueuing => center.msg # NULL
    BY DEF TypeInv, CenterTyped
  <2>3. center.msg # NULL => center.msg \in Msgs
    BY ThreadFacts, TypeFacts DEF Msgs, Node, NULL
  <2> QED
    BY <2>1, <2>2, <2>3, ArrivalsFacts
<1>2. InHand => (center.pc = "add" \/ Enqueuing) /\ Reading
  BY DEF InHand, Enqueuing, Reading
<1>3. InHand' => (center'.pc = "add" \/ Enqueuing') /\ Reading'
  BY DEF InHand, Enqueuing, Reading
<1>4. \A m \in Fresh' : m \in Fresh /\ m \in Msgs
  BY <1>1, <1>2, <1>3 DEF Fresh
<1>5. ASSUME NEW x \in Placed', NEW m \in Fresh'
      PROVE  x < m
  <2>1. CASE x = NULL
    BY <1>1, <1>4, <2>1
  <2>2. CASE x \in Placed
    BY <1>4, <2>2 DEF PlacedEarlier
  <2>3. CASE x = center.msg /\ InHand /\ ~ InHand'
    <3>1. m \in Range(net[center.fd])
      BY <1>2, <2>3 DEF Fresh
    <3> QED
      BY <2>3, <3>1 DEF PlacedEarlier
  <2> QED
    BY <2>1, <2>2, <2>3
<1>6. ASSUME NEW x \in Placed', x # NULL
      PROVE  Reading' /\ x \in Range(arrived'[sockets'[center'.fd]])
  <2>1. CASE x \in Placed
    BY <1>6, <2>1 DEF PlacedEarlier
  <2>2. CASE x = center.msg /\ InHand
    BY <1>2, <2>2 DEF PlacedEarlier
  <2> QED
    BY <1>6, <2>1, <2>2
<1>7. center'.pc = "add" \/ Enqueuing' =>
        center'.msg \in Range(arrived'[sockets'[center'.fd]])
  <2>1. center.pc = "add" \/ Enqueuing => Reading
    BY DEF Enqueuing, Reading
  <2> QED
    BY <2>1 DEF PlacedEarlier
<1>8. InHand' => \A m \in Range(net'[center'.fd]) : center'.msg < m
  BY <1>2, <1>3 DEF PlacedEarlier
<1> QED
  BY <1>5, <1>6, <1>7, <1>8 DEF PlacedEarlier

LEMMA MenuPlaced ==
  ASSUME TypeInv, OrderInv, UNCHANGED <<center, outsideVars>>,
         \A x \in Placed' : x = NULL \/ x \in Placed
  PROVE  PlacedEarlier'
BY PlacedKept DEF OrderInv, Reading, InHand, Enqueuing, outsideVars

LEMMA SubscribePlaced ==
  ASSUME TypeInv, OrderInv, NEW joined \in BOOLEAN, Subscribe(joined)
  PROVE  PlacedEarlier'
<1>1. /\ UNCHANGED <<sharedVars, center, arrived>> /\ menu'.node = menu.node
      /\ \A fd \in DOMAIN net : /\ net'[fd] = net[fd]
                               /\ sockets'[fd] = sockets[fd]
  BY SubscribeEffect
<1>2. Reading => center.fd \in DOMAIN net
  BY DEF TypeInv, CenterTyped
<1>3. Placed' = Placed
  BY <1>1 DEF Placed, sharedVars
<1> QED
  BY <1>1, <1>2, <1>3, PlacedKept DEF OrderInv, Reading, InHand, Enqueuing

LEMMA AddQueuePlaced ==
  ASSUME TypeInv, OrderInv, AddQueue
  PROVE  PlacedEarlier'
<1>1. /\ queues \in Seq(QueueType) /\ Len(queues) \in Nat /\ DOMAIN queues = 1..Len(queues)
      /\ Empty \in QueueType
  BY TypeFacts, ClientNotificationsAssumption
     DEF TypeInv, TableTyped, QueueType, Empty, Node, NULL
<1>2. /\ DOMAIN queues' = 1..(Len(queues) + 1)
      /\ \A k \in 1..Len(queues) : queues'[k] = queues[k]
      /\ queues'[Len(queues) + 1] = Empty
  BY <1>1, AppendProperties, RangeAppend DEF AddQueue
<1>3. /\ \A k \in DOMAIN queues : k \in DOMAIN queues' /\ queues'[k] = queues[k]
      /\ \A k \in DOMAIN queues' : k \in DOMAIN queues \/ queues'[k] = Empty
  BY <1>1, <1>2
<1>4. /\ UNCHANGED <<next, freed, center, outsideVars>> /\ menu'.node = menu.node
  BY DEF AddQueue, Goto
<1>5. \A x \in Placed' : x = NULL \/ x \in Placed
  BY <1>3, <1>4 DEF Placed, Empty
<1> QED
  BY <1>4, <1>5, MenuPlaced

LEMMA AddSubscriptionPlaced ==
  ASSUME TypeInv, OrderInv, AddSubscription
  PROVE  PlacedEarlier'
<1>1. /\ UNCHANGED <<queues, next, freed, outsideVars>>
      /\ menu'.node = menu.node
      /\ center'.fd = center.fd /\ center'.msg = center.msg
      /\ center'.pc = center.pc \/ (center.pc = "asleep" /\ center'.pc = "wait")
  BY DEF AddSubscription, Goto
<1>2. Placed' = Placed
  BY <1>1 DEF Placed
<1> QED
  BY <1>1, <1>2, PlacedKept DEF OrderInv, Reading, InHand, Enqueuing, outsideVars

LEMMA PrintingEffect ==
  ASSUME TypeInv
  PROVE  /\ PrintNotif => /\ UNCHANGED <<sharedVars, center, outsideVars, shown,
                                         overlap, up>>
                          /\ menu.pc = "idle" /\ menu'.pc = "look"
                          /\ menu'.k = 1 /\ menu'.node = menu.node
                          /\ menu'.fd = menu.fd
         /\ NoMore => /\ UNCHANGED <<sharedVars, center, outsideVars, shown,
                                     overlap, up>>
                      /\ menu.pc = "look" /\ menu'.pc \in {"look", "idle"}
                      /\ menu'.node = menu.node /\ menu'.fd = menu.fd
         /\ Dequeue => /\ UNCHANGED <<sharedVars, center, outsideVars, shown, up>>
                       /\ menu.pc = "look" /\ menu.k \in DOMAIN queues
                       /\ queues[menu.k].length # 0
                       /\ menu'.pc = IF queues[menu.k].length > 1 THEN "next"
                                     ELSE "empty"
                       /\ menu'.k = menu.k /\ menu'.fd = menu.fd
                       /\ menu'.node = queues[menu.k].head /\ menu'.n = menu.n
                       /\ overlap' = (overlap \/ (Enqueuing /\ center.k = menu.k))
         /\ Uncount => /\ UNCHANGED <<sharedVars, center, outsideVars, shown,
                                      overlap, up>>
                       /\ menu.pc = "uncount" /\ menu'.pc = "uncounted"
                       /\ menu'.k = menu.k /\ menu'.node = menu.node
                       /\ menu'.fd = menu.fd /\ menu'.n = queues[menu.k].length
                       /\ menu.k \in DOMAIN queues
<1>1. menu \in MenuType /\ (menu.pc = "look" \/ Emptying => menu.k \in DOMAIN queues)
  BY DEF TypeInv, MenuTyped
<1>2. ASSUME PrintNotif
      PROVE  /\ UNCHANGED <<sharedVars, center, outsideVars, shown, overlap, up>>
             /\ menu.pc = "idle" /\ menu'.pc = "look"
             /\ menu'.k = 1 /\ menu'.node = menu.node /\ menu'.fd = menu.fd
  BY <1>1, <1>2 DEF PrintNotif, MenuType
<1>3. ASSUME NoMore
      PROVE  /\ UNCHANGED <<sharedVars, center, outsideVars, shown, overlap, up>>
             /\ menu.pc = "look" /\ menu'.pc \in {"look", "idle"}
             /\ menu'.node = menu.node /\ menu'.fd = menu.fd
  BY <1>1, <1>3 DEF NoMore, MenuType, Goto
<1>4. ASSUME Dequeue
      PROVE  /\ UNCHANGED <<sharedVars, center, outsideVars, shown, up>>
             /\ menu.pc = "look" /\ queues[menu.k].length # 0
             /\ menu'.pc = IF queues[menu.k].length > 1 THEN "next" ELSE "empty"
             /\ menu'.k = menu.k /\ menu'.fd = menu.fd
             /\ menu'.node = queues[menu.k].head /\ menu'.n = menu.n
             /\ overlap' = (overlap \/ (Enqueuing /\ center.k = menu.k))
  BY <1>1, <1>4 DEF Dequeue, MenuType, Queue, More
<1>5. ASSUME Uncount
      PROVE  /\ UNCHANGED <<sharedVars, center, outsideVars, shown, overlap, up>>
             /\ menu.pc = "uncount" /\ menu'.pc = "uncounted"
             /\ menu'.k = menu.k /\ menu'.node = menu.node
             /\ menu'.fd = menu.fd /\ menu'.n = queues[menu.k].length
  BY <1>1, <1>5 DEF Uncount, MenuType, Queue
<1> QED
  BY <1>1, <1>2, <1>3, <1>4, <1>5 DEF Emptying

LEMMA PrintingPlaced ==
  ASSUME TypeInv, OrderInv, PrintNotif \/ NoMore \/ Dequeue \/ Uncount
  PROVE  PlacedEarlier'
<1>1. /\ UNCHANGED <<queues, next, freed, center, outsideVars>>
      /\ \/ menu'.node = menu.node
         \/ \E k \in DOMAIN queues : menu'.node = queues[k].head
  BY PrintingEffect DEF sharedVars
<1>2. \A x \in Placed' : x = NULL \/ x \in Placed
  BY <1>1 DEF Placed
<1> QED
  BY <1>1, <1>2, MenuPlaced

LEMMA UnlinkPlaced ==
  ASSUME TypeInv, OrderInv, Unlink, up'
  PROVE  PlacedEarlier'
<1>1. /\ menu.k \in DOMAIN queues /\ menu'.node = menu.node
      /\ UNCHANGED <<next, freed, center, outsideVars>>
  BY UnlinkEffect DEF OrderInv, MenuType
<1>2. PICK q \in QueueType :
        /\ queues' = [queues EXCEPT ![menu.k] = q]
        /\ q.head = NULL \/ \E m \in Msgs : q.head = next[m]
        /\ q.tail = NULL \/ q.tail = queues[menu.k].tail
  BY UnlinkEffect DEF OrderInv, Queue
<1>3. /\ DOMAIN queues' = DOMAIN queues /\ queues'[menu.k] = q
      /\ \A j \in DOMAIN queues : j # menu.k => queues'[j] = queues[j]
  BY <1>1, <1>2, QueueChange
<1>4. \A x \in Placed' : x = NULL \/ x \in Placed
  BY <1>1, <1>2, <1>3 DEF Placed
<1> QED
  BY <1>1, <1>4, MenuPlaced

LEMMA UncountedPlaced ==
  ASSUME TypeInv, OrderInv, Uncounted
  PROVE  PlacedEarlier'
<1>1. /\ menu.k \in DOMAIN queues /\ menu'.node = menu.node
      /\ UNCHANGED <<next, freed, center, outsideVars>>
  BY UncountedEffect DEF OrderInv
<1>2. PICK q \in QueueType :
        /\ queues' = [queues EXCEPT ![menu.k] = q]
        /\ q.head = queues[menu.k].head /\ q.tail = queues[menu.k].tail
  BY UncountedEffect DEF OrderInv, Queue
<1>3. /\ DOMAIN queues' = DOMAIN queues /\ queues'[menu.k] = q
      /\ \A j \in DOMAIN queues : j # menu.k => queues'[j] = queues[j]
  BY <1>1, <1>2, QueueChange
<1>4. \A x \in Placed' : x = NULL \/ x \in Placed
  BY <1>1, <1>2, <1>3 DEF Placed
<1> QED
  BY <1>1, <1>4, MenuPlaced

LEMMA ShowPlaced ==
  ASSUME TypeInv, OrderInv, Show, up'
  PROVE  PlacedEarlier'
<1>1. /\ UNCHANGED <<queues, center, outsideVars>>
      /\ menu'.node = NULL /\ freed' = freed \cup {menu.node}
      /\ next' = [next EXCEPT ![menu.node] = NULL] /\ next \in [Msgs -> Node]
  BY ShowEffect DEF MenuType, TypeInv, MenuTyped
<1>2. \A m \in Msgs : next'[m] = NULL \/ next'[m] = next[m]
  BY <1>1
<1>3. \A x \in Placed' : x = NULL \/ x \in Placed
  BY <1>1, <1>2 DEF Placed
<1> QED
  BY <1>1, <1>3, MenuPlaced

LEMMA WaitingPlaced ==
  ASSUME TypeInv, OrderInv, Wait \/ Wake \/ Refresh \/ PollNothing
  PROVE  PlacedEarlier'
<1>1. /\ UNCHANGED <<sharedVars, menu, outsideVars, shown, overlap, up>>
      /\ ~ Reading /\ ~ Reading' /\ ~ InHand /\ ~ InHand'
  BY WaitingTypeInv
<1>2. center'.pc # "tail" /\ center'.pc # "add" /\ ~ Enqueuing'
  BY <1>1 DEF Reading, Enqueuing
<1>3. \A x \in Placed' : x \in Placed
  BY <1>1, <1>2 DEF Placed, sharedVars
<1> QED
  BY <1>1, <1>2, <1>3, PlacedKept DEF OrderInv, outsideVars

(* Nothing is placed before a socket has been read from. *)
LEMMA PollPlaced ==
  ASSUME TypeInv, OrderInv, Poll
  PROVE  PlacedEarlier'
<1>1. /\ UNCHANGED <<sharedVars, menu, outsideVars>> /\ center.pc = "poll"
      /\ center'.pc = "recv" /\ center'.fd \in DOMAIN net
  BY PollEffect
<1>2. ~ Reading /\ Reading' /\ ~ InHand' /\ ~ Enqueuing' /\ center'.pc # "add"
  BY <1>1 DEF Reading, InHand, Enqueuing
<1>3. \A x \in Placed' : x \in Placed
  BY <1>1 DEF Placed, sharedVars
<1>4. \A x \in Placed' : x = NULL
  BY <1>2, <1>3 DEF OrderInv, PlacedEarlier
<1>5. \A m \in Fresh' : m \in Nat /\ NULL < m
  <2>1. Fresh' \subseteq Range(net[center'.fd])
    BY <1>1, <1>2 DEF Fresh, outsideVars
  <2>2. Fresh' \subseteq Msgs
    BY <1>1, <2>1, ArrivalsFacts
  <2> QED
    BY <2>2, TypeFacts DEF Msgs, NULL
<1> QED
  BY <1>2, <1>4, <1>5 DEF PlacedEarlier

LEMMA ReceivePlaced ==
  ASSUME TypeInv, OrderInv, Receive
  PROVE  PlacedEarlier'
<1> DEFINE c == center.fd
<1>1. /\ UNCHANGED <<sharedVars, menu, sockets, arrived>>
      /\ center.pc = "recv" /\ center'.pc = "add" /\ center'.fd = c
      /\ c \in DOMAIN net
  BY ReceiveEffect
<1>2. Reading /\ Reading' /\ ~ InHand /\ InHand' /\ ~ Enqueuing'
  BY <1>1 DEF Reading, InHand, Enqueuing
<1>3. /\ \A m \in Range(net'[c]) : m \in Range(net[c]) /\ center'.msg < m
      /\ center'.msg \in Range(net[c])
  BY ReceiveArrived DEF OrderInv
<1>4. \A x \in Placed' : x \in Placed
  BY <1>1 DEF Placed, sharedVars
<1>5. \A m \in Fresh' : m \in Fresh
  BY <1>1, <1>2, <1>3 DEF Fresh
<1>6. center'.msg \in Range(arrived[sockets[c]])
  BY <1>1, <1>3 DEF OrderInv, ArrivedInOrder
<1> QED
  BY <1>1, <1>2, <1>3, <1>4, <1>5, <1>6 DEF OrderInv, PlacedEarlier

(* What has just come is after all that came before. *)
LEMMA ArrivePlaced ==
  ASSUME TypeInv, OrderInv, NEW fd \in DOMAIN sockets, Arrive(fd)
  PROVE  PlacedEarlier'
<1>1. PICK m \in Msgs :
         /\ m \notin Arrivals
         /\ fd \in DOMAIN net /\ sockets[fd] \in 1..MaxSubs
         /\ net'[fd] = Append(net[fd], m)
         /\ \A e \in DOMAIN net : e # fd => net'[e] = net[e]
         /\ arrived'[sockets[fd]] = Append(arrived[sockets[fd]], m)
         /\ \A k \in 1..MaxSubs : k # sockets[fd] => arrived'[k] = arrived[k]
         /\ UNCHANGED <<sharedVars, menu, center, sockets>>
  BY ArriveEffect
<1>2. /\ \A e \in DOMAIN net : net[e] \in Seq(Msgs) /\ sockets[e] \in 1..MaxSubs
      /\ \A k \in 1..MaxSubs : arrived[k] \in Seq(Msgs)
      /\ Reading => center.fd \in DOMAIN net
      /\ m \in Nat /\ NULL < m
  BY TypeFacts DEF TypeInv, CenterTyped, Msgs, NULL
<1>3. /\ Range(net'[fd]) = Range(net[fd]) \cup {m}
      /\ Range(arrived'[sockets[fd]]) = Range(arrived[sockets[fd]]) \cup {m}
  BY <1>1, <1>2, RangeAppend
<1>4. \A k \in 1..MaxSubs : Range(arrived[k]) \subseteq Range(arrived'[k])
  BY <1>1, <1>3
<1>5. \A e \in DOMAIN net : Range(net'[e]) \subseteq Range(net[e]) \cup {m}
  BY <1>1, <1>3
<1>6. \A a \in Arrivals : a < m
  BY <1>1, ArrivesLast DEF OrderInv
<1>7. /\ Reading' <=> Reading
      /\ InHand' <=> InHand
      /\ Enqueuing' <=> Enqueuing
      /\ Placed' = Placed
  BY <1>1 DEF Reading, InHand, Enqueuing, Placed, sharedVars
<1>8. Reading => \A a \in Range(arrived[sockets[center.fd]]) : a < m
  BY <1>2, <1>6, ArrivalsFacts
<1>9. center.pc = "add" \/ Enqueuing => Reading
  BY DEF Enqueuing, Reading
<1>10. ASSUME NEW x \in Placed', NEW f \in Fresh'
       PROVE  x < f
  <2>1. f \in Fresh \/ (f = m /\ Reading)
    BY <1>1, <1>2, <1>5, <1>7 DEF Fresh
  <2>2. CASE f \in Fresh
    BY <1>7, <2>2 DEF OrderInv, PlacedEarlier
  <2>3. CASE f = m /\ Reading
    BY <1>2, <1>7, <1>8, <2>3 DEF OrderInv, PlacedEarlier
  <2> QED
    BY <2>1, <2>2, <2>3
<1>11. Reading => Range(arrived[sockets[center.fd]])
                    \subseteq Range(arrived'[sockets'[center'.fd]])
  BY <1>1, <1>2, <1>4
<1>12. InHand' => \A j \in Range(net'[center'.fd]) : center'.msg < j
  <2> SUFFICES ASSUME InHand, NEW j \in Range(net'[center.fd])
               PROVE  center.msg < j
    BY <1>1, <1>7
  <2>1. Reading /\ (center.pc = "add" \/ Enqueuing)
    BY DEF InHand, Reading, Enqueuing
  <2>2. j \in Range(net[center.fd]) \/ j = m
    BY <1>2, <1>5, <2>1
  <2> QED
    BY <1>8, <2>1, <2>2 DEF OrderInv, PlacedEarlier
<1> QED
  BY <1>1, <1>7, <1>9, <1>10, <1>11, <1>12 DEF OrderInv, PlacedEarlier

LEMMA AddNotifPlaced ==
  ASSUME TypeInv, OrderInv, AddNotif
  PROVE  PlacedEarlier'
<1>1. /\ UNCHANGED <<sharedVars, menu, outsideVars>> /\ center.pc = "add"
      /\ center'.pc \in {"first", "link"} /\ center'.fd = center.fd
      /\ center'.msg = center.msg
      /\ Reading /\ Reading' /\ InHand /\ InHand'
  BY AddNotifEffect
<1>2. \A x \in Placed' : x \in Placed
  BY <1>1 DEF Placed, sharedVars
<1> QED
  BY <1>1, <1>2, PlacedKept DEF OrderInv, outsideVars

LEMMA EnqueueWritePlaced ==
  ASSUME TypeInv, OrderInv, LinkFirst \/ MoveTail \/ Counted
  PROVE  PlacedEarlier'
<1>1. /\ Enqueuing /\ center.k \in DOMAIN queues
      /\ UNCHANGED <<next, freed, menu, outsideVars>>
      /\ center'.fd = center.fd /\ Reading /\ Reading' /\ ~ InHand'
  BY EnqueueWrite
<1>2. PICK q \in QueueType :
        /\ queues' = [queues EXCEPT ![center.k] = q]
        /\ \/ /\ center.pc = "first" /\ center'.pc = "count"
              /\ q.head = center.msg /\ q.tail = center.msg
              /\ center'.msg = center.msg
           \/ /\ center.pc = "tail" /\ center'.pc = "count"
              /\ q.head = queues[center.k].head /\ q.tail = center.msg
              /\ center'.msg = center.msg
           \/ /\ center.pc = "counted" /\ center'.pc = "recv"
              /\ q.head = queues[center.k].head
              /\ q.tail = queues[center.k].tail
  BY EnqueueWrite DEF Target
<1>3. /\ DOMAIN queues' = DOMAIN queues /\ queues'[center.k] = q
      /\ \A j \in DOMAIN queues : j # center.k => queues'[j] = queues[j]
  BY <1>1, <1>2, QueueChange
<1>4. \A x \in Placed' : x \in Placed \/ (x = center.msg /\ InHand /\ ~ InHand')
  BY <1>1, <1>2, <1>3 DEF Placed, InHand
<1>5. center'.pc = "add" \/ Enqueuing' => center'.msg = center.msg
  BY <1>2 DEF Enqueuing
<1> QED
  BY <1>1, <1>4, <1>5, PlacedKept DEF OrderInv, outsideVars

LEMMA LinkPlaced ==
  ASSUME TypeInv, OrderInv, Link
  PROVE  PlacedEarlier'
<1>1. /\ Enqueuing /\ center.pc = "link"
      /\ UNCHANGED <<queues, freed, menu, outsideVars>>
      /\ center'.pc = "tail" /\ center'.fd = center.fd
      /\ center'.msg = center.msg
      /\ \A m \in Msgs : next'[m] = next[m] \/ next'[m] = center.msg
  BY LinkEffect
<1>2. Reading /\ Reading' /\ InHand /\ ~ InHand' /\ Enqueuing'
  BY <1>1 DEF Reading, InHand, Enqueuing
<1>3. \A x \in Placed' : x \in Placed \/ x = center.msg
  BY <1>1 DEF Placed
<1> QED
  BY <1>1, <1>2, <1>3, PlacedKept DEF OrderInv, outsideVars

LEMMA CountPlaced ==
  ASSUME TypeInv, OrderInv, Count \/ EnqueueElsewhere
  PROVE  PlacedEarlier'
<1>1. /\ UNCHANGED <<sharedVars, menu, outsideVars>> /\ Enqueuing
      /\ center'.fd = center.fd
      /\ \/ center'.pc = "counted" /\ center'.msg = center.msg
         \/ center'.pc = "recv"
  BY CountEffect, ElsewhereEffect
<1>2. Reading /\ Reading' /\ ~ InHand' /\ (Enqueuing' => center'.msg = center.msg)
  BY <1>1 DEF Reading, InHand, Enqueuing
<1>3. \A x \in Placed' : x \in Placed
  BY <1>1 DEF Placed, sharedVars
<1> QED
  BY <1>1, <1>2, <1>3, PlacedKept DEF OrderInv, outsideVars

LEMMA StopsPlaced ==
  ASSUME TypeInv, OrderInv, UNCHANGED vars \/ (Killed /\ UNCHANGED outsideVars)
  PROVE  PlacedEarlier'
<1>1. UNCHANGED <<sharedVars, menu, center, outsideVars>>
  BY DEF vars, Killed
<1>2. \A x \in Placed' : x \in Placed
  BY <1>1 DEF Placed, sharedVars
<1> QED
  BY <1>1, <1>2, MenuPlaced

LEMMA PlacedStep ==
  ASSUME TypeInv, OrderInv, [Next]_vars
  PROVE  PlacedEarlier'
<1>1. CASE User \/ Wake \/ \E fd \in DOMAIN sockets : Arrive(fd)
  BY <1>1, SubscribePlaced, PrintingPlaced, WaitingPlaced, ArrivePlaced DEF User
<1>2. CASE MenuStep
  <2>1. Unlink => up' \/ (Killed /\ UNCHANGED outsideVars)
    BY DEF Unlink
  <2>2. Show => up' \/ (Killed /\ UNCHANGED outsideVars)
    BY DEF Show
  <2> QED
    BY <1>2, <2>1, <2>2, AddQueuePlaced, AddSubscriptionPlaced, PrintingPlaced,
       UnlinkPlaced, UncountedPlaced, ShowPlaced, StopsPlaced DEF MenuStep
<1>3. CASE CenterStep
  <2>1. EnqueueKills => Killed /\ UNCHANGED outsideVars
    BY DEF EnqueueKills
  <2> QED
    BY <1>3, <2>1, WaitingPlaced, PollPlaced, ReceivePlaced, AddNotifPlaced,
       EnqueueWritePlaced, LinkPlaced, CountPlaced, StopsPlaced DEF CenterStep
<1>4. CASE UNCHANGED vars
  BY <1>4, StopsPlaced
<1> QED
  BY <1>1, <1>2, <1>3, <1>4 DEF Next

-----------------------------------------------------------------------------
(* The numbers rise along a queue. *)

LEMMA HeadsKept ==
  ASSUME HeadsRise, UNCHANGED <<queues, next, freed>>, center'.k = center.k,
         center'.pc = "first" => center.pc = "first",
         menu' = menu \/ (~ Emptying /\ ~ Emptying' /\ menu'.node = menu.node)
  PROVE  HeadsRise'
<1>1. CASE menu' = menu
  BY <1>1 DEF HeadsRise, Emptying
<1>2. CASE ~ Emptying /\ ~ Emptying' /\ menu'.node = menu.node
  <2>1. menu'.pc \notin {"next", "empty", "uncount", "uncounted", "show"}
    BY <1>2 DEF Emptying
  <2> QED
    BY <1>2, <2>1 DEF HeadsRise
<1> QED
  BY <1>1, <1>2

LEMMA AddQueueHeads ==
  ASSUME TypeInv, HeadsRise, AddQueue
  PROVE  HeadsRise'
<1>1. /\ queues \in Seq(QueueType) /\ Len(queues) \in Nat /\ DOMAIN queues = 1..Len(queues)
      /\ Empty \in QueueType
  BY TypeFacts, ClientNotificationsAssumption
     DEF TypeInv, TableTyped, QueueType, Empty, Node, NULL
<1>2. /\ DOMAIN queues' = 1..(Len(queues) + 1)
      /\ \A k \in 1..Len(queues) : queues'[k] = queues[k]
      /\ queues'[Len(queues) + 1] = Empty
  BY <1>1, AppendProperties, RangeAppend DEF AddQueue
<1>3. /\ \A k \in DOMAIN queues : queues'[k] = queues[k]
      /\ \A k \in DOMAIN queues' : k \in DOMAIN queues \/ queues'[k].head = NULL
  BY <1>1, <1>2 DEF Empty
<1>4. /\ UNCHANGED <<next, freed, center>> /\ menu'.node = menu.node
      /\ menu.pc = "notif" /\ menu'.pc = "subscribe"
  <2>1. menu \in MenuType
    BY DEF TypeInv, MenuTyped
  <2> QED
    BY <2>1 DEF AddQueue, Goto, MenuType
<1>5. center.pc = "first" => center.k \in DOMAIN queues
  BY TypeFacts DEF TypeInv, CenterTyped, OneQueue, Enqueuing
<1> QED
  BY <1>3, <1>4, <1>5 DEF HeadsRise, Emptying

LEMMA DequeueHeads ==
  ASSUME TypeInv, HeadsRise, Dequeue
  PROVE  HeadsRise'
<1>1. /\ UNCHANGED <<queues, next, freed, center>>
      /\ menu.k \in DOMAIN queues /\ menu'.k = menu.k
      /\ queues[menu.k].length # 0
      /\ menu'.pc \in {"next", "empty"} /\ menu'.node = queues[menu.k].head
  BY PrintingEffect DEF sharedVars
<1>2. menu.k = center.k
  BY <1>1 DEF TypeInv, OneQueue, Empty
<1>3. menu'.pc \notin {"uncount", "uncounted", "show"} /\ Emptying'
  BY <1>1 DEF Emptying
<1> QED
  BY <1>1, <1>2, <1>3 DEF HeadsRise

LEMMA UnlinkHeads ==
  ASSUME TypeInv, HeadsRise, Unlink, up'
  PROVE  HeadsRise'
<1> DEFINE k == menu.k
<1>1. /\ UNCHANGED <<next, freed, center>>
      /\ k \in DOMAIN queues /\ k = center.k
      /\ menu.pc \in {"next", "empty"} /\ menu'.pc = "uncount"
      /\ menu'.k = k /\ menu'.node = menu.node
  BY UnlinkEffect DEF MenuType
<1>2. PICK q \in QueueType :
        /\ queues' = [queues EXCEPT ![k] = q]
        /\ q.length = queues[k].length
        /\ \/ menu.pc = "empty" /\ q.head = NULL
           \/ queues[k].head \in Msgs /\ q.head = next[queues[k].head]
  BY UnlinkEffect DEF Queue
<1>3. /\ DOMAIN queues' = DOMAIN queues /\ queues'[k] = q
      /\ \A j \in DOMAIN queues : j # k => queues'[j] = queues[j]
  BY <1>1, <1>2, QueueChange
<1>4. \A j \in DOMAIN queues : j # k => queues[j].head = NULL
  BY <1>1 DEF TypeInv, OneQueue, Empty
<1>5. q.head # NULL => /\ queues[k].head \in Msgs
                       /\ queues[k].head < q.head /\ queues[k].head # NULL
  <2>1. \A m \in Msgs : m # NULL
    BY TypeFacts DEF Msgs, NULL
  <2> QED
    BY <1>2, <2>1 DEF HeadsRise
<1>6. q.head # NULL => \A m \in freed : m < q.head
  <2> SUFFICES ASSUME q.head # NULL, NEW m \in freed
               PROVE  m < q.head
    OBVIOUS
  <2>1. m < queues[k].head /\ queues[k].head < q.head
    BY <1>1, <1>5 DEF HeadsRise
  <2>2. m \in Nat /\ queues[k].head \in Nat /\ q.head \in Nat
    BY <1>1, <1>5, TypeFacts DEF TypeInv, Msgs, Node, QueueType
  <2> QED
    BY <2>1, <2>2
<1>7. \A j \in DOMAIN queues' : queues'[j].head # NULL =>
        j = k /\ (\A m \in freed : m < queues'[j].head)
              /\ menu.node < queues'[j].head
  BY <1>1, <1>3, <1>4, <1>5, <1>6 DEF HeadsRise
<1>8. queues'[k].length # 0 /\ (center.pc = "first" => queues'[center.k].length = 0)
  BY <1>1, <1>2, <1>3 DEF HeadsRise
<1> QED
  BY <1>1, <1>7, <1>8 DEF HeadsRise, Emptying

LEMMA UncountHeads ==
  ASSUME TypeInv, HeadsRise, Uncount
  PROVE  HeadsRise'
<1>1. /\ UNCHANGED <<queues, next, freed, center>>
      /\ menu.pc = "uncount" /\ menu'.pc = "uncounted"
      /\ menu'.k = menu.k /\ menu'.node = menu.node
      /\ menu'.n = queues[menu.k].length
  BY PrintingEffect DEF sharedVars
<1> QED
  BY <1>1 DEF HeadsRise, Emptying

(* The length the notifications thread found to be 0 is not that of the    *)
(* queue the menu thread takes from.                                       *)
LEMMA UncountedHeads ==
  ASSUME TypeInv, HeadsRise, Uncounted
  PROVE  HeadsRise'
<1> DEFINE k == menu.k
<1>1. /\ UNCHANGED <<next, freed, center>>
      /\ k \in DOMAIN queues /\ k = center.k
      /\ menu.pc = "uncounted" /\ menu'.pc = "show"
      /\ menu'.k = k /\ menu'.node = menu.node
  BY UncountedEffect
<1>2. PICK q \in QueueType : /\ queues' = [queues EXCEPT ![k] = q]
                             /\ q.head = queues[k].head
  BY UncountedEffect DEF Queue
<1>3. /\ DOMAIN queues' = DOMAIN queues /\ queues'[k] = q
      /\ \A j \in DOMAIN queues : j # k => queues'[j] = queues[j]
  BY <1>1, <1>2, QueueChange
<1>4. \A j \in DOMAIN queues : queues'[j].head = queues[j].head
  BY <1>2, <1>3
<1>5. center.pc # "first"
  BY <1>1 DEF HeadsRise
<1> QED
  BY <1>1, <1>3, <1>4, <1>5 DEF HeadsRise, Emptying

LEMMA ShowHeads ==
  ASSUME TypeInv, HeadsRise, Show, up'
  PROVE  HeadsRise'
<1>1. /\ UNCHANGED <<queues, center>> /\ menu.pc = "show" /\ menu.node \in Msgs
      /\ menu'.pc = "look" /\ menu'.node = NULL /\ menu'.k = menu.k
      /\ next' = [next EXCEPT ![menu.node] = NULL] /\ next \in [Msgs -> Node]
      /\ freed' = freed \cup {menu.node}
  BY ShowEffect DEF MenuType, TypeInv, MenuTyped
<1>2. \A m \in Msgs : next'[m] = NULL \/ next'[m] = next[m]
  BY <1>1
<1>3. \A k \in DOMAIN queues : queues[k].head # NULL =>
        \A m \in freed' : m < queues[k].head
  BY <1>1 DEF HeadsRise
<1> QED
  BY <1>1, <1>2, <1>3 DEF HeadsRise, Emptying

LEMMA AddNotifHeads ==
  ASSUME TypeInv, HeadsRise, AddNotif
  PROVE  HeadsRise'
<1>1. /\ UNCHANGED <<queues, next, freed, menu>>
      /\ center'.pc = IF queues[center'.k].length = 0 THEN "first" ELSE "link"
      /\ center.k # 0 => center.k = center'.k
  BY AddNotifEffect DEF sharedVars
<1>2. Emptying => center.k # 0
  BY TypeFacts DEF HeadsRise, TypeInv, MenuTyped
<1>3. Emptying => menu'.k = center'.k
  BY <1>1, <1>2 DEF HeadsRise
<1>4. center'.pc = "first" => queues'[center'.k].length = 0
  BY <1>1
<1>5. Emptying' <=> Emptying
  BY <1>1 DEF Emptying
<1> QED
  BY <1>1, <1>3, <1>4, <1>5 DEF HeadsRise

(* The head changes for a queue that had no node, and is the newest then. *)
LEMMA EnqueueWriteHeads ==
  ASSUME TypeInv, OrderInv, LinkFirst \/ MoveTail \/ Counted
  PROVE  HeadsRise'
<1> DEFINE k == center.k
<1>1. /\ k \in DOMAIN queues /\ center'.k = k /\ Enqueuing
      /\ UNCHANGED <<next, freed, menu>>
  BY EnqueueWrite
<1>2. PICK q \in QueueType :
        /\ queues' = [queues EXCEPT ![k] = q]
        /\ \/ /\ center.pc = "first" /\ center'.pc = "count"
              /\ q.head = center.msg /\ q.length = queues[k].length
           \/ /\ center'.pc = "count"
              /\ q.head = queues[k].head /\ q.length = queues[k].length
           \/ /\ center'.pc = "recv"
              /\ q.head = queues[k].head /\ q.length = center.n + 1
  BY EnqueueWrite DEF Target
<1>3. /\ DOMAIN queues' = DOMAIN queues /\ queues'[k] = q
      /\ \A j \in DOMAIN queues : j # k => queues'[j] = queues[j]
  BY <1>1, <1>2, QueueChange
<1>4. center'.pc # "first" /\ (Emptying' <=> Emptying)
  BY <1>1, <1>2 DEF Emptying
<1>5. center.n + 1 # 0
  BY ThreadFacts
<1>6. Emptying => menu.k \in DOMAIN queues
  BY DEF TypeInv, MenuTyped
<1>7. menu.pc \in {"next", "empty", "uncount", "uncounted"} =>
        queues'[menu.k].length # 0
  <2>1. CASE menu.k = k
    BY <1>2, <1>3, <1>5, <2>1 DEF OrderInv, HeadsRise
  <2>2. CASE menu.k # k
    BY <1>3, <1>6, <2>2 DEF OrderInv, HeadsRise, Emptying
  <2> QED
    BY <2>1, <2>2
<1>8. CASE \A j \in DOMAIN queues : queues'[j].head = queues[j].head
  BY <1>1, <1>3, <1>4, <1>6, <1>7, <1>8 DEF OrderInv, HeadsRise, Emptying
<1>9. CASE center.pc = "first" /\ q.head = center.msg
  <2>1. InHand /\ queues[k].length = 0
    BY <1>9 DEF InHand, OrderInv, HeadsRise
  <2>2. center.msg \in Fresh /\ menu.node \in Placed /\ freed \subseteq Placed
    BY <2>1 DEF Fresh, Placed
  <2>3. menu.node < center.msg /\ \A m \in freed : m < center.msg
    BY <2>2 DEF OrderInv, PlacedEarlier
  <2>4. menu.pc \notin {"next", "empty"}
    <3>1. menu.pc \in {"next", "empty"} => menu.k = k /\ queues[menu.k].length # 0
      BY DEF OrderInv, HeadsRise, Emptying
    <3> QED
      BY <2>1, <3>1
  <2>5. \A j \in DOMAIN queues' : queues'[j].head # NULL =>
          /\ \A m \in freed : m < queues'[j].head
          /\ menu.pc \in {"uncount", "uncounted", "show"} =>
               menu.node < queues'[j].head
    BY <1>3, <1>9, <2>3 DEF OrderInv, HeadsRise
  <2> QED
    BY <1>1, <1>4, <1>7, <2>4, <2>5 DEF OrderInv, HeadsRise
<1> QED
  BY <1>2, <1>3, <1>8, <1>9

LEMMA LinkHeads ==
  ASSUME TypeInv, OrderInv, Link
  PROVE  HeadsRise'
<1>1. /\ Enqueuing /\ center.pc = "link" /\ center'.pc = "tail"
      /\ UNCHANGED <<queues, freed, menu>> /\ center'.k = center.k
      /\ \A m \in Msgs : m # Target.tail => next'[m] = next[m]
      /\ next' = next \/ next'[Target.tail] = center.msg
  BY LinkEffect
<1>2. Target.tail < center.msg
  <2>1. center.msg \in Fresh
    BY <1>1 DEF Fresh, InHand
  <2>2. Target.tail \in Placed
    BY TargetFacts, <1>1 DEF Placed, Target
  <2> QED
    BY <2>1, <2>2 DEF OrderInv, PlacedEarlier
<1>3. \A m \in Msgs : next'[m] = NULL \/ m < next'[m]
  BY <1>1, <1>2 DEF OrderInv, HeadsRise
<1>4. Emptying' <=> Emptying
  BY <1>1 DEF Emptying
<1> QED
  BY <1>1, <1>3, <1>4 DEF OrderInv, HeadsRise

LEMMA HeadsStep ==
  ASSUME TypeInv, OrderInv, [Next]_vars
  PROVE  HeadsRise'
<1>1. CASE User \/ Wake \/ \E fd \in DOMAIN sockets : Arrive(fd)
  <2>1. CASE \E joined \in BOOLEAN : Subscribe(joined)
    <3>1. PICK joined \in BOOLEAN : Subscribe(joined)
      BY <2>1
    <3>2. /\ UNCHANGED <<sharedVars, center>> /\ menu'.node = menu.node
          /\ menu.pc = "idle" /\ menu'.pc = "notif"
      BY <3>1, SubscribeEffect
    <3> QED
      BY <3>2, HeadsKept DEF OrderInv, sharedVars, Emptying
  <2>2. CASE PrintNotif
    <3>1. /\ UNCHANGED <<sharedVars, center>> /\ menu'.node = menu.node
          /\ menu.pc = "idle" /\ menu'.pc = "look"
      BY <2>2, PrintingEffect
    <3> QED
      BY <3>1, HeadsKept DEF OrderInv, sharedVars, Emptying
  <2>3. CASE Wake
    <3>1. /\ UNCHANGED <<sharedVars, menu>> /\ center'.k = center.k
          /\ center'.pc # "first"
      BY <2>3, WaitingTypeInv DEF Reading
    <3> QED
      BY <3>1, HeadsKept DEF OrderInv, sharedVars
  <2>4. CASE \E fd \in DOMAIN sockets : Arrive(fd)
    BY <2>4, HeadsKept DEF Arrive, OrderInv, sharedVars
  <2> QED
    BY <1>1, <2>1, <2>2, <2>3, <2>4 DEF User
<1>2. ASSUME UNCHANGED vars \/ Killed
      PROVE  HeadsRise'
  BY <1>2, HeadsKept DEF vars, Killed, OrderInv, sharedVars
<1>3. CASE MenuStep
  <2>1. CASE AddSubscription
    <3>1. /\ UNCHANGED <<queues, next, freed>> /\ center'.k = center.k
          /\ menu' = [menu EXCEPT !.pc = "idle"] /\ menu.pc = "subscribe"
          /\ center'.pc # "first" /\ menu \in MenuType
      BY <2>1, AddSubscriptionEffect
         DEF AddSubscription, Enqueuing, TypeInv, MenuTyped
    <3>2. menu'.pc = "idle" /\ menu'.node = menu.node
      BY <3>1 DEF MenuType
    <3> QED
      BY <3>1, <3>2, HeadsKept DEF OrderInv, Emptying
  <2>2. CASE NoMore
    <3>1. /\ UNCHANGED <<sharedVars, center>> /\ menu'.node = menu.node
          /\ menu.pc = "look" /\ menu'.pc \in {"look", "idle"}
      BY <2>2, PrintingEffect
    <3> QED
      BY <3>1, HeadsKept DEF OrderInv, sharedVars, Emptying
  <2>3. Unlink => up' \/ Killed
    BY DEF Unlink
  <2>4. Show => up' \/ Killed
    BY DEF Show
  <2> QED
    BY <1>2, <1>3, <2>1, <2>2, <2>3, <2>4, AddQueueHeads, DequeueHeads,
       UnlinkHeads, UncountHeads, UncountedHeads, ShowHeads DEF MenuStep, OrderInv
<1>4. CASE CenterStep
  <2>1. CASE Wait \/ Refresh \/ PollNothing
    <3>1. /\ UNCHANGED <<sharedVars, menu>> /\ center'.k = center.k
          /\ center'.pc # "first"
      BY <2>1, WaitingTypeInv DEF Reading
    <3> QED
      BY <3>1, HeadsKept DEF OrderInv, sharedVars
  <2>2. CASE Poll \/ Receive \/ Count \/ EnqueueElsewhere
    <3>1. /\ UNCHANGED <<sharedVars, menu>> /\ center'.k = center.k
          /\ center'.pc # "first"
      BY <2>2, PollEffect, ReceiveEffect, CountEffect, ElsewhereEffect
    <3> QED
      BY <3>1, HeadsKept DEF OrderInv, sharedVars
  <2>3. EnqueueKills => Killed
    BY DEF EnqueueKills
  <2> QED
    BY <1>2, <1>4, <2>1, <2>2, <2>3, AddNotifHeads, EnqueueWriteHeads, LinkHeads
       DEF CenterStep, OrderInv
<1> QED
  BY <1>1, <1>2, <1>3, <1>4 DEF Next

(* What is printed was freed after all that was printed before it. *)
LEMMA ShowRises ==
  ASSUME TypeInv, OrderInv, Show, up'
  PROVE  ShownRises'
<1>1. PICK k \in 1..MaxSubs, n \in Msgs :
        /\ shown[k] \in Seq(Msgs) /\ freed' = freed \cup {n}
        /\ DOMAIN shown = 1..MaxSubs /\ DOMAIN shown' = 1..MaxSubs
        /\ shown'[k] = Append(shown[k], n)
        /\ \A j \in 1..MaxSubs : j # k => shown'[j] = shown[j]
        /\ menu.node = n /\ menu.pc = "show"
  <2>1. shown' \in [1..MaxSubs -> Seq(Msgs)]
    BY ShowEffect
  <2> QED
    BY <2>1, ShowEffect, TypeFacts
<1>2. \A m \in freed : m < n
  <2>1. n # NULL
    BY <1>1, TypeFacts DEF Msgs, NULL
  <2> QED
    BY <1>1, <2>1 DEF OrderInv, HeadsRise, Emptying
<1>3. /\ Range(shown'[k]) = Range(shown[k]) \cup {n}
      /\ Len(shown[k]) \in Nat /\ DOMAIN shown[k] = 1..Len(shown[k])
      /\ DOMAIN shown'[k] = 1..(Len(shown[k]) + 1)
      /\ \A i \in 1..Len(shown[k]) : shown'[k][i] = shown[k][i]
      /\ shown'[k][Len(shown[k]) + 1] = n
  BY <1>1, RangeAppend, AppendProperties, LenProperties
<1>4. ASSUME NEW i \in DOMAIN shown'[k], NEW j \in DOMAIN shown'[k], i < j
      PROVE  shown'[k][i] < shown'[k][j]
  <2>1. i \in 1..Len(shown[k]) /\ (j \in 1..Len(shown[k]) \/ j = Len(shown[k]) + 1)
    BY <1>3, <1>4
  <2>2. shown[k][i] \in freed
    BY <1>1, <1>3, <2>1 DEF OrderInv, ShownRises, Range
  <2> QED
    BY <1>1, <1>2, <1>3, <1>4, <2>1, <2>2 DEF OrderInv, ShownRises
<1>5. ASSUME NEW j \in 1..MaxSubs
      PROVE  /\ Range(shown'[j]) \subseteq freed'
             /\ \A a, b \in DOMAIN shown'[j] : a < b => shown'[j][a] < shown'[j][b]
  <2>1. CASE j = k
    BY <1>1, <1>3, <1>4, <2>1 DEF OrderInv, ShownRises
  <2>2. CASE j # k
    BY <1>1, <2>2 DEF OrderInv, ShownRises
  <2> QED
    BY <2>1, <2>2
<1> QED
  BY <1>1, <1>5 DEF ShownRises

LEMMA ShownStays ==
  ASSUME [Next]_vars, ~ Show
  PROVE  UNCHANGED <<shown, freed>>
<1>1. CASE MenuStep
  BY <1>1 DEF MenuStep, AddQueue, AddSubscription, NoMore, Dequeue, Unlink,
     Uncount, Uncounted, Killed, sharedVars
<1>2. CASE CenterStep
  BY <1>2 DEF CenterStep, Wait, Refresh, Poll, PollNothing, Receive, AddNotif,
     LinkFirst, Link, MoveTail, Count, Counted, EnqueueElsewhere, EnqueueKills,
     Killed, sharedVars
<1>3. CASE User \/ Wake \/ \E fd \in DOMAIN sockets : Arrive(fd)
  BY <1>3 DEF User, Subscribe, PrintNotif, Wake, Arrive, sharedVars
<1>4. CASE UNCHANGED vars
  BY <1>4 DEF vars, sharedVars
<1> QED
  BY <1>1, <1>2, <1>3, <1>4 DEF Next

LEMMA OrderStep ==
  ASSUME TypeInv, OrderInv, [Next]_vars
  PROVE  OrderInv'
<1>1. ShownRises'
  <2>1. CASE UNCHANGED <<shown, freed>>
    BY <2>1 DEF OrderInv, ShownRises
  <2>2. Show => up' \/ UNCHANGED <<shown, freed>>
    BY DEF Show, Killed, sharedVars
  <2> QED
    BY <2>1, <2>2, ShownStays, ShowRises
<1> QED
  BY <1>1, ArrivedStep, PlacedStep, HeadsStep DEF OrderInv

THEOREM TypeCorrect == Spec => [](TypeInv /\ OrderInv)
<1>1. Init => TypeInv /\ OrderInv
  BY InitTypeInv, InitOrderInv
<1>2. TypeInv /\ OrderInv /\ [Next]_vars => (TypeInv /\ OrderInv)'
  <2> SUFFICES ASSUME TypeInv, OrderInv, [Next]_vars
               PROVE  TypeInv' /\ OrderInv'
    OBVIOUS
  <2>1. TypeInv'
    BY TypeStep DEF OrderInv
  <2>2. OrderInv'
    BY OrderStep
  <2> QED
    BY <2>1, <2>2
<1> QED
  BY <1>1, <1>2, PTL DEF Spec

LEMMA TypeInvTypeOK == TypeInv /\ OrderInv => TypeOK
<1> SUFFICES ASSUME TypeInv, OrderInv
             PROVE  TypeOK
  OBVIOUS
<1>1. /\ queues \in Seq([head : Node, tail : Node, length : Nat])
      /\ place \in Nat /\ cap \in Nat /\ Len(queues) <= cap
      /\ next \in [Msgs -> Node] /\ freed \subseteq Msgs
      /\ sockets \in Seq(1..MaxSubs) /\ Len(net) = Len(sockets)
  BY DEF TypeInv, TableTyped, OutsideTyped, QueueType
<1>2. subs \in Seq([fd : 1..MaxSubs, place : 0..place])
  <2>1. subs \in Seq(SubType) /\ \A k \in DOMAIN subs : subs[k] \in SubType
    BY LenProperties DEF TypeInv, TableTyped
  <2>2. \A k \in DOMAIN subs : subs[k] \in [fd : 1..MaxSubs, place : 0..place]
    BY <2>1, TypeFacts DEF SubType
  <2>3. PICK n \in Nat : subs \in [1..n -> SubType]
    BY <2>1, LenProperties
  <2>4. subs \in [1..n -> [fd : 1..MaxSubs, place : 0..place]]
    BY <2>2, <2>3
  <2>5. \A S : subs \in [1..n -> S] => subs \in Seq(S)
    BY <2>3, SeqDef
  <2> QED
    BY <2>4, <2>5
<1>3. Len(subs) \in {Len(queues), Len(queues) - 1}
  BY TypeFacts DEF TypeInv, TableTyped
<1>4. \A m \in freed : m # NULL
  BY <1>1, TypeFacts DEF Msgs, NULL
<1>5. \A k \in DOMAIN queues : queues[k].head \notin freed
  <2> SUFFICES ASSUME NEW k \in DOMAIN queues, queues[k].head \in freed
               PROVE  FALSE
    OBVIOUS
  <2>1. queues[k].head < queues[k].head
    BY <1>4 DEF OrderInv, HeadsRise
  <2>2. queues[k].head \in Nat
    BY TypeFacts DEF Node
  <2> QED
    BY <2>1, <2>2
<1>6. menu.node \in Node \ freed
  <2> SUFFICES ASSUME menu.node \in freed
               PROVE  FALSE
    BY ThreadFacts
  <2>1. menu.node < menu.node
    BY <1>4 DEF OrderInv, HeadsRise
  <2>2. menu.node \in Nat
    BY ThreadFacts, TypeFacts DEF Node
  <2> QED
    BY <2>1, <2>2
<1>7. /\ menu.pc \in {"idle", "notif", "subscribe", "look", "next", "empty",
                      "uncount", "uncounted", "show"}
      /\ menu.pc \in {"look", "next", "empty", "uncount", "uncounted", "show"} =>
           menu.k \in DOMAIN queues
      /\ menu.n \in Nat
      /\ menu.pc = "uncounted" => menu.n > 0
  <2>1. menu.pc = "uncounted" => menu.n # 0
    BY DEF OrderInv, HeadsRise
  <2>2. menu.pc \in {"look", "next", "empty", "uncount", "uncounted", "show"} =>
          menu.k \in DOMAIN queues
    BY DEF TypeInv, MenuTyped, Emptying
  <2> QED
    BY <2>1, <2>2, ThreadFacts
<1>8. Enqueuing => center.k \in DOMAIN subs /\ center.msg \in Msgs
  BY TargetFacts
<1>9. /\ Len(center.fds) <= Len(subs)
      /\ \A k \in DOMAIN center.fds : center.fds[k] = subs[k].fd
      /\ center.pc = "recv" => center.fd \in DOMAIN net
  BY DEF TypeInv, CenterTyped, Reading
<1> QED
  BY <1>1, <1>2, <1>3, <1>5, <1>6, <1>7, <1>8, <1>9, ThreadFacts DEF TypeOK

(* The threads' locals and the pointers of the queues are what the code    *)
(* takes them for, whatever the threads do at the same time: no queue      *)
(* begins with freed memory, and the nodes printed have not been freed.    *)
THEOREM TypeSafety == Spec => []TypeOK
BY TypeCorrect, TypeInvTypeOK, PTL

-----------------------------------------------------------------------------
(* Descriptors and feeds *)

LEMMA InitJoinInv == Init => JoinInv
BY DEF Init, JoinInv

LEMMA JoinKept ==
  ASSUME JoinInv, UNCHANGED <<sockets, subs, arrived>>,
         Len(queues') = Len(queues), DOMAIN queues' = DOMAIN queues,
         \/ menu'.pc = menu.pc /\ menu'.fd = menu.fd
         \/ {menu.pc, menu'.pc} \cap {"notif", "subscribe"} = {}
  PROVE  JoinInv'
<1>1. Joined' <=> Joined
  BY DEF Joined
<1> QED
  BY <1>1 DEF JoinInv

LEMMA SubscribeJoined ==
  ASSUME TypeInv, NEW joined \in BOOLEAN, Subscribe(joined), Joined'
  PROVE  Joined
<1>1. PICK n \in Nat, l \in Nat : Len(queues) = n /\ Len(sockets) = l
  <2>1. Len(queues) \in Nat /\ Len(sockets) \in Nat
    BY TypeFacts
  <2> QED
    BY <2>1
<1>2. DOMAIN queues = 1..n /\ queues' = queues
  BY <1>1, TypeFacts, SubscribeEffect DEF sharedVars
<1>3. DOMAIN sockets = 1..l
  BY <1>1, TypeFacts
<1>4. \/ sockets' = sockets
      \/ DOMAIN sockets' = 1..(l + 1) /\ sockets'[l + 1] = n + 1
  BY <1>1, SubscribeEffect
<1>5. \A fd \in DOMAIN sockets : sockets'[fd] = sockets[fd]
  BY SubscribeEffect, TypeFacts
<1> SUFFICES ASSUME NEW k \in 1..n
             PROVE  \E fd \in DOMAIN sockets : sockets[fd] = k
  BY <1>2 DEF Joined
<1>6. PICK fd \in DOMAIN sockets' : sockets'[fd] = k
  BY <1>2 DEF Joined
<1>7. fd \in DOMAIN sockets \/ sockets'[fd] = n + 1
  <2>1. \A j \in 1..(l + 1) : j \in 1..l \/ j = l + 1
    OBVIOUS
  <2> QED
    BY <1>3, <1>4, <1>6, <2>1
<1>8. k # n + 1
  OBVIOUS
<1> QED
  BY <1>5, <1>6, <1>7, <1>8

LEMMA AddQueueJoined ==
  ASSUME TypeInv, AddQueue, Joined'
  PROVE  /\ Joined /\ Len(queues) \in Nat
         /\ \E fd \in DOMAIN sockets : sockets[fd] = Len(queues) + 1
<1>1. /\ queues \in Seq(QueueType) /\ Empty \in QueueType
      /\ Len(queues) \in Nat /\ DOMAIN queues = 1..Len(queues)
  BY TypeFacts, ClientNotificationsAssumption
     DEF TypeInv, TableTyped, QueueType, Empty, Node, NULL
<1>2. PICK n \in Nat : Len(queues) = n
  <2>1. Len(queues) \in Nat
    BY <1>1
  <2> QED
    BY <2>1
<1>3. DOMAIN queues' = 1..(n + 1)
  BY <1>1, <1>2, AppendProperties, RangeAppend DEF AddQueue
<1>4. \A k \in 1..(n + 1) : \E fd \in DOMAIN sockets : sockets[fd] = k
  BY <1>3 DEF Joined, AddQueue, outsideVars
<1>5. n + 1 \in 1..(n + 1) /\ 1..n \subseteq 1..(n + 1)
  OBVIOUS
<1> QED
  BY <1>1, <1>2, <1>4, <1>5 DEF Joined

LEMMA SubscribeJoin ==
  ASSUME TypeInv, JoinInv, NEW joined \in BOOLEAN, Subscribe(joined)
  PROVE  JoinInv'
<1>1. PICK n \in Nat, l \in Nat : Len(queues) = n /\ Len(sockets) = l
  <2>1. Len(queues) \in Nat /\ Len(sockets) \in Nat
    BY TypeFacts
  <2> QED
    BY <2>1
<1>2. DOMAIN queues = 1..n
  BY <1>1, TypeFacts
<1>3. DOMAIN sockets = 1..l
  BY <1>1, TypeFacts
<1>4. /\ menu.pc = "idle" /\ menu'.pc = "notif" /\ menu'.fd = l + 1
      /\ UNCHANGED <<queues, subs, arrived>>
  BY <1>1, SubscribeEffect DEF sharedVars, tableVars
<1>5. \/ sockets' = sockets
      \/ /\ Len(sockets') = l + 1
         /\ DOMAIN sockets' = 1..(l + 1)
         /\ sockets'[l + 1] = n + 1
  BY <1>1, SubscribeEffect
<1>6. \A fd \in DOMAIN sockets : sockets'[fd] = sockets[fd]
  BY SubscribeEffect, TypeFacts
<1>7. Len(queues') = n
  BY <1>1, <1>4
<1> SUFFICES ASSUME Joined'
             PROVE  /\ \A fd \in DOMAIN sockets' : sockets'[fd] = fd
                    /\ Len(sockets') = n \/ Len(sockets') = n + 1
                    /\ l + 1 = n + 1
                    /\ \A k \in DOMAIN subs : subs[k].fd = k
                    /\ \A k \in DOMAIN arrived : k \notin DOMAIN sockets' =>
                                                   arrived[k] = <<>>
  BY <1>4, <1>7 DEF JoinInv
<1>8. Joined
  BY SubscribeJoined
<1>9. /\ \A fd \in DOMAIN sockets : sockets[fd] = fd
      /\ l = n
      /\ \A k \in DOMAIN subs : subs[k].fd = k
      /\ \A k \in DOMAIN arrived : k \notin DOMAIN sockets => arrived[k] = <<>>
  BY <1>1, <1>4, <1>8 DEF JoinInv
<1>10. CASE sockets' = sockets
  BY <1>1, <1>9, <1>10
<1>11. CASE /\ Len(sockets') = l + 1
            /\ DOMAIN sockets' = 1..(l + 1)
            /\ sockets'[l + 1] = n + 1
  <2>1. \A j \in 1..(l + 1) : j \in 1..l \/ j = l + 1
    OBVIOUS
  <2>2. \A j \in 1..l : j \in 1..(l + 1)
    OBVIOUS
  <2>3. \A fd \in DOMAIN sockets' : sockets'[fd] = fd
    BY <1>3, <1>6, <1>9, <1>11, <2>1
  <2>4. \A k : k \notin DOMAIN sockets' => k \notin DOMAIN sockets
    BY <1>3, <1>11, <2>2
  <2> QED
    BY <1>9, <1>11, <2>3, <2>4
<1> QED
  BY <1>5, <1>10, <1>11

LEMMA AddQueueJoin ==
  ASSUME TypeInv, JoinInv, AddQueue
  PROVE  JoinInv'
<1>1. /\ queues \in Seq(QueueType) /\ Empty \in QueueType /\ menu \in MenuType
      /\ Len(queues) \in Nat /\ DOMAIN queues = 1..Len(queues)
      /\ Len(sockets) \in Nat /\ DOMAIN sockets = 1..Len(sockets)
  BY TypeFacts, ClientNotificationsAssumption
     DEF TypeInv, TableTyped, QueueType, Empty, Node, NULL, MenuTyped
<1>2. PICK n \in Nat : Len(queues) = n
  <2>1. Len(queues) \in Nat
    BY <1>1
  <2> QED
    BY <2>1
<1>3. DOMAIN queues' = 1..(n + 1) /\ Len(queues') = n + 1
  BY <1>1, <1>2, AppendProperties, RangeAppend DEF AddQueue
<1>4. /\ menu.pc = "notif" /\ menu'.pc = "subscribe" /\ menu'.fd = menu.fd
      /\ UNCHANGED <<sockets, subs, arrived>>
  BY <1>1 DEF AddQueue, Goto, MenuType, outsideVars
<1> SUFFICES ASSUME Joined'
             PROVE  /\ \A fd \in DOMAIN sockets : sockets[fd] = fd
                    /\ Len(sockets) = n + 1
                    /\ menu.fd = n + 1
                    /\ \A k \in DOMAIN subs : subs[k].fd = k
                    /\ \A k \in DOMAIN arrived : k \notin DOMAIN sockets =>
                                                   arrived[k] = <<>>
  BY <1>3, <1>4 DEF JoinInv
<1>6. Joined /\ \E fd \in DOMAIN sockets : sockets[fd] = n + 1
  BY <1>2, AddQueueJoined
<1>7. /\ \A fd \in DOMAIN sockets : sockets[fd] = fd
      /\ Len(sockets) = n \/ Len(sockets) = n + 1
      /\ menu.fd = n + 1
      /\ \A k \in DOMAIN subs : subs[k].fd = k
      /\ \A k \in DOMAIN arrived : k \notin DOMAIN sockets => arrived[k] = <<>>
  BY <1>2, <1>4, <1>6 DEF JoinInv
<1>8. n + 1 \in 1..Len(sockets)
  BY <1>1, <1>6, <1>7
<1>9. \A l \in Nat : n + 1 \in 1..l => l # n
  OBVIOUS
<1>10. Len(sockets) = n + 1
  <2>1. Len(sockets) \in Nat
    BY <1>1
  <2> QED
    BY <1>7, <1>8, <1>9, <2>1
<1> QED
  BY <1>7, <1>10

LEMMA AddSubscriptionJoin ==
  ASSUME TypeInv, JoinInv, AddSubscription
  PROVE  JoinInv'
<1>1. PICK n \in Nat : Len(subs) = n
  <2>1. Len(subs) \in Nat
    BY TypeFacts
  <2> QED
    BY <2>1
<1>2. /\ DOMAIN subs = 1..n /\ DOMAIN subs' = 1..(n + 1)
      /\ \A k \in DOMAIN subs : subs'[k] = subs[k]
      /\ subs'[n + 1].fd = menu.fd
  BY <1>1, AddSubscriptionEffect, TypeFacts
<1>3. Len(queues) = n + 1
  BY <1>1, AddSubscriptionEffect
<1>4. menu.pc = "subscribe" /\ menu'.pc = "idle"
  BY DEF AddSubscription, Goto, TypeInv, MenuTyped, MenuType
<1>5. UNCHANGED <<queues, sockets, arrived>>
  BY DEF AddSubscription, outsideVars
<1>6. Joined' <=> Joined
  BY <1>5 DEF Joined
<1>7. Joined => /\ menu.fd = n + 1
                /\ \A k \in DOMAIN subs : subs[k].fd = k
  BY <1>3, <1>4 DEF JoinInv
<1>8. Joined => \A k \in DOMAIN subs' : subs'[k].fd = k
  <2>1. \A j \in 1..(n + 1) : j \in 1..n \/ j = n + 1
    OBVIOUS
  <2> QED
    BY <1>2, <1>7, <2>1
<1> QED
  BY <1>4, <1>5, <1>6, <1>8 DEF JoinInv

LEMMA ArriveJoin ==
  ASSUME TypeInv, JoinInv, NEW fd \in DOMAIN sockets, Arrive(fd)
  PROVE  JoinInv'
<1>1. /\ UNCHANGED <<queues, subs, menu, sockets>>
      /\ DOMAIN arrived = 1..MaxSubs /\ DOMAIN arrived' = 1..MaxSubs
      /\ \A k \in 1..MaxSubs : k # sockets[fd] => arrived'[k] = arrived[k]
  BY ArriveEffect, TypeFacts DEF sharedVars, tableVars
<1>2. Joined' <=> Joined
  BY <1>1 DEF Joined
<1>3. Joined => \A k \in DOMAIN arrived' : k \notin DOMAIN sockets =>
                                             arrived'[k] = <<>>
  BY <1>1 DEF JoinInv
<1> QED
  BY <1>1, <1>2, <1>3 DEF JoinInv

(* All other steps leave the number of queues and the descriptors alone. *)
LEMMA OthersJoin ==
  ASSUME TypeInv, OrderInv, [Next]_vars,
         ~ AddQueue, ~ AddSubscription,
         ~ \E joined \in BOOLEAN : Subscribe(joined),
         ~ \E fd \in DOMAIN sockets : Arrive(fd)
  PROVE  /\ UNCHANGED <<sockets, subs, place, arrived>>
         /\ Len(queues') = Len(queues) /\ DOMAIN queues' = DOMAIN queues
         /\ \/ menu' = menu
            \/ {menu.pc, menu'.pc} \cap {"notif", "subscribe"} = {}
<1>1. CASE PrintNotif \/ NoMore \/ Dequeue \/ Uncount
  BY <1>1, PrintingEffect DEF sharedVars, tableVars, outsideVars
<1>2. CASE (Unlink /\ up') \/ Uncounted
  <2>1. /\ menu.k \in DOMAIN queues
        /\ UNCHANGED <<tableVars, outsideVars>>
        /\ {menu.pc, menu'.pc} \cap {"notif", "subscribe"} = {}
        /\ \E q \in QueueType : queues' = [queues EXCEPT ![menu.k] = q]
    BY <1>2, UnlinkEffect, UncountedEffect DEF OrderInv, MenuType
  <2> QED
    BY <2>1, QueueChange DEF tableVars, outsideVars
<1>3. CASE Show /\ up'
  BY <1>3, ShowEffect DEF MenuType, tableVars, outsideVars
<1>4. CASE Killed /\ UNCHANGED outsideVars
  BY <1>4 DEF Killed, sharedVars, tableVars, outsideVars
<1>5. CASE Wait \/ Wake \/ Refresh \/ PollNothing
  BY <1>5, WaitingTypeInv DEF sharedVars, tableVars, outsideVars
<1>6. CASE Poll \/ Receive \/ AddNotif
  BY <1>6, PollEffect, ReceiveEffect, AddNotifEffect
     DEF sharedVars, tableVars, outsideVars
<1>7. CASE LinkFirst \/ MoveTail \/ Counted
  <2>1. /\ center.k \in DOMAIN queues
        /\ UNCHANGED <<tableVars, outsideVars, menu>>
        /\ \E q \in QueueType : queues' = [queues EXCEPT ![center.k] = q]
    BY <1>7, EnqueueWrite
  <2> QED
    BY <2>1, QueueChange DEF tableVars, outsideVars
<1>8. CASE Link \/ Count \/ EnqueueElsewhere
  BY <1>8, LinkEffect, CountEffect, ElsewhereEffect
     DEF sharedVars, tableVars, outsideVars
<1>9. CASE UNCHANGED vars
  BY <1>9 DEF vars, sharedVars, tableVars, outsideVars
<1>10. /\ Unlink \/ Show => up' \/ (Killed /\ UNCHANGED outsideVars)
       /\ EnqueueKills => Killed /\ UNCHANGED outsideVars
  BY DEF Unlink, Show, EnqueueKills
<1> QED
  BY <1>1, <1>2, <1>3, <1>4, <1>5, <1>6, <1>7, <1>8, <1>9, <1>10
     DEF Next, User, MenuStep, CenterStep

LEMMA JoinStep ==
  ASSUME TypeInv, OrderInv, JoinInv, [Next]_vars
  PROVE  JoinInv'
<1>1. CASE \/ AddQueue \/ AddSubscription
           \/ \E joined \in BOOLEAN : Subscribe(joined)
           \/ \E fd \in DOMAIN sockets : Arrive(fd)
  BY <1>1, AddQueueJoin, AddSubscriptionJoin, SubscribeJoin, ArriveJoin
<1>2. CASE ~ (\/ AddQueue \/ AddSubscription
              \/ \E joined \in BOOLEAN : Subscribe(joined)
              \/ \E fd \in DOMAIN sockets : Arrive(fd))
  BY <1>2, OthersJoin, JoinKept
<1> QED
  BY <1>1, <1>2

THEOREM JoinCorrect == Spec => [](TypeInv /\ OrderInv /\ JoinInv)
<1>1. Init => JoinInv
  BY InitJoinInv
<1>2. TypeInv /\ OrderInv /\ JoinInv /\ [Next]_vars => JoinInv'
  BY JoinStep
<1> QED
  BY <1>1, <1>2, TypeCorrect, PTL DEF Spec

LEMMA OrderShownInOrder == TypeInv /\ OrderInv /\ JoinInv => ShownInOrder
<1> SUFFICES ASSUME TypeInv, OrderInv, JoinInv, Joined, NEW k \in DOMAIN queues,
                    NEW i \in DOMAIN shown[k], NEW j \in DOMAIN shown[k]
             PROVE  /\ shown[k][i] \in Range(arrived[k])
                    /\ i < j => shown[k][i] < shown[k][j]
  BY DEF ShownInOrder
<1>1. k \in 1..MaxSubs /\ DOMAIN shown = 1..MaxSubs
  BY TypeFacts
<1>2. i < j => shown[k][i] < shown[k][j]
  BY <1>1 DEF OrderInv, ShownRises
<1>3. k = center.k
  <2>1. DOMAIN <<>> = {}
    OBVIOUS
  <2> QED
    BY <1>1, <2>1 DEF TypeInv, OneQueue
<1>4. Reading /\ k \in DOMAIN subs /\ k = SubscriptionOf(center.fd)
  BY <1>1, <1>3 DEF TypeInv, OneQueue
<1>5. subs[k].fd = center.fd
  BY <1>4, SubscriptionFound DEF TypeInv, CenterTyped
<1>6. center.fd = k /\ center.fd \in DOMAIN net /\ sockets[k] = k
  BY <1>4, <1>5, TypeFacts DEF JoinInv, TypeInv, CenterTyped
<1>7. shown[k][i] \in freed
  BY <1>1 DEF OrderInv, ShownRises, Range
<1>8. shown[k][i] \in Placed /\ shown[k][i] # NULL
  BY <1>7, TypeFacts DEF Placed, TypeInv, Msgs, NULL
<1> QED
  BY <1>2, <1>6, <1>8 DEF OrderInv, PlacedEarlier

(* What is printed under a feed came on its group, in the order in which   *)
(* it came and nothing twice, even while the queue is being filled, when   *)
(* every subscription got its socket.                                      *)
THEOREM ShownOrdered == Spec => []ShownInOrder
BY JoinCorrect, OrderShownInOrder, PTL

-----------------------------------------------------------------------------
(* The queue of the feed that is read, step by step: the notifications     *)
(* thread                                                                  *)

LEMMA TakesNext ==
  ASSUME NEW A, NEW t \in Nat, NEW S, NEW s \in Nat, NEW head, NEW tail,
         NEW length, NEW nx, NEW mpc, NEW node, NEW n, NEW msg, NEW cn,
         NEW u \in Nat, u = t + 1, NEW m, m = A[u],
         InLine(A, t, S, s, head, tail, length, nx, mpc, node,
                n, "recv", msg, cn)
  PROVE  InLine(A, u, S, s, head, tail, length, nx, mpc, node, n, "add", m, cn)
<1> USE DEF InLine
<1>1. /\ Tailed(t, "recv") = t /\ Tailed(t + 1, "add") = t
      /\ Linked(t, "recv") = t /\ Linked(t + 1, "add") = t
      /\ Counting(t, "recv") = t /\ Counting(t + 1, "add") = t
  BY DEF Tailed, Linked, Counting, One
<1>2. Chained(A, t + 1, S, s, head, tail, nx, mpc, "add")
  BY <1>1 DEF Chained
<1>3. Counts(t + 1, s, length, mpc, n, "add", cn)
  BY <1>1 DEF Counts
<1>4. Holding(A, t + 1, s, mpc, node, "add", A[t + 1])
  BY DEF Holding
<1> QED
  BY <1>2, <1>3, <1>4

LEMMA BeginsToEnqueue ==
  ASSUME NEW A, NEW t \in Nat, NEW S, NEW s \in Nat, NEW head, NEW tail,
         NEW length, NEW nx, NEW node, NEW n, NEW msg, NEW cn,
         NEW cpc \in {"first", "link"}, cpc = "first" <=> length = 0,
         InLine(A, t, S, s, head, tail, length, nx, "look", node,
                n, "add", msg, cn)
  PROVE  InLine(A, t, S, s, head, tail, length, nx, "look", node,
                n, cpc, msg, cn)
<1> USE DEF InLine
<1>1. /\ Tailed(t, cpc) = Tailed(t, "add") /\ Linked(t, cpc) = Linked(t, "add")
      /\ Counting(t, cpc) = Counting(t, "add")
  BY DEF Tailed, Linked, Counting, One
<1> QED
  BY <1>1 DEF Chained, Counts, Holding

LEMMA FirstLinked ==
  ASSUME NEW A, NEW t \in Nat, NEW S, NEW s \in Nat, NEW head, NEW tail,
         NEW length \in Nat, NEW nx, NEW node, NEW n, NEW msg, NEW cn,
         InLine(A, t, S, s, head, tail, length, nx, "look", node,
                n, "first", msg, cn)
  PROVE  InLine(A, t, S, s, msg, msg, length, nx, "look", node,
                n, "count", msg, cn)
<1> USE DEF InLine
<1>1. /\ Tailed(t, "count") = t /\ Linked(t, "count") = t
      /\ Counting(t, "first") = t - 1 /\ Counting(t, "count") = t - 1
      /\ Left(s, "look") = s /\ One("look" = "show") = 0
  BY DEF Tailed, Linked, Counting, Left, One
<1>2. length = 0 /\ s = t - 1 /\ msg = A[t]
  BY <1>1 DEF Counts, Holding
<1>3. \A i \in 1..(t - 1) : ~ (s < i)
  BY <1>2
<1>4. Chained(A, t, S, s, msg, msg, nx, "look", "count")
  BY <1>1, <1>2, <1>3 DEF Chained
<1>5. Counts(t, s, length, "look", n, "count", cn)
  BY <1>1 DEF Counts
<1> QED
  BY <1>4, <1>5 DEF Holding

(* The pointer of the last node is set, which makes ny of nx.              *)
Pointed(A, t, tail, msg, nx, ny) ==
  /\ \A i \in 1..(t - 1) : A[i] # tail => ny[A[i]] = nx[A[i]]
  /\ \A i \in 1..(t - 2) : A[i] # A[t - 1]
  /\ ny[tail] = msg

LEMMA NextLinked ==
  ASSUME NEW A, NEW t \in Nat, NEW S, NEW s \in Nat, NEW head, NEW tail,
         NEW length \in Nat, NEW nx, NEW ny, NEW node, NEW n, NEW msg, NEW cn,
         InLine(A, t, S, s, head, tail, length, nx, "look", node,
                n, "link", msg, cn),
         Pointed(A, t, tail, msg, nx, ny)
  PROVE  InLine(A, t, S, s, head, tail, length, ny, "look", node,
                n, "tail", msg, cn)
<1> USE DEF InLine, Pointed
<1>1. /\ Tailed(t, "link") = t - 1 /\ Tailed(t, "tail") = t - 1
      /\ Linked(t, "link") = t - 1 /\ Linked(t, "tail") = t
      /\ Counting(t, "link") = t - 1 /\ Counting(t, "tail") = t - 1
      /\ Left(s, "look") = s /\ One("look" = "show") = 0
  BY DEF Tailed, Linked, Counting, Left, One
<1>2. length # 0 /\ length + s = t - 1 /\ msg = A[t]
  BY <1>1 DEF Counts, Holding
<1>3. s < t - 1 /\ t - 1 \in Nat
  BY <1>2
<1>4. tail = A[t - 1]
  BY <1>1, <1>3 DEF Chained
<1>5. ASSUME NEW i \in 1..(t - 1), s < i
      PROVE  ny[A[i]] = A[i + 1]
  <2>1. CASE i = t - 1
    <3>1. i + 1 = t
      BY <2>1
    <3> QED
      BY <1>2, <1>4, <2>1, <3>1
  <2>2. CASE i # t - 1
    <3>1. i \in 1..(t - 2) /\ i \in 1..((t - 1) - 1)
      BY <2>2
    <3>2. nx[A[i]] = A[i + 1]
      BY <1>1, <1>5, <3>1 DEF Chained
    <3> QED
      BY <1>4, <3>1, <3>2
  <2> QED
    BY <2>1, <2>2
<1>6. Chained(A, t, S, s, head, tail, ny, "look", "tail")
  BY <1>1, <1>5 DEF Chained
<1>7. Counts(t, s, length, "look", n, "tail", cn)
  BY <1>1, <1>2 DEF Counts
<1> QED
  BY <1>6, <1>7 DEF Holding

LEMMA TailMoved ==
  ASSUME NEW A, NEW t \in Nat, NEW S, NEW s \in Nat, NEW head, NEW tail,
         NEW length \in Nat, NEW nx, NEW node, NEW n, NEW msg, NEW cn,
         InLine(A, t, S, s, head, tail, length, nx, "look", node,
                n, "tail", msg, cn)
  PROVE  InLine(A, t, S, s, head, msg, length, nx, "look", node,
                n, "count", msg, cn)
<1> USE DEF InLine
<1>1. /\ Tailed(t, "tail") = t - 1 /\ Tailed(t, "count") = t
      /\ Linked(t, "tail") = t /\ Linked(t, "count") = t
      /\ Counting(t, "tail") = t - 1 /\ Counting(t, "count") = t - 1
      /\ Left(s, "look") = s /\ One("look" = "show") = 0
  BY DEF Tailed, Linked, Counting, Left, One
<1>2. length # 0 /\ length + s = t - 1 /\ msg = A[t]
  BY <1>1 DEF Counts, Holding
<1>3. s < t - 1
  BY <1>2
<1>4. Chained(A, t, S, s, head, msg, nx, "look", "count")
  BY <1>1, <1>2, <1>3 DEF Chained
<1>5. Counts(t, s, length, "look", n, "count", cn)
  BY <1>1 DEF Counts
<1> QED
  BY <1>4, <1>5 DEF Holding

LEMMA LengthCounted ==
  ASSUME NEW A, NEW t \in Nat, NEW S, NEW s \in Nat, NEW head, NEW tail,
         NEW length \in Nat, NEW nx, NEW node, NEW n, NEW msg, NEW cn, NEW m,
         NEW l, l = cn + 1
  PROVE  /\ InLine(A, t, S, s, head, tail, length, nx, "look", node,
                n, "count", msg, cn)
            => InLine(A, t, S, s, head, tail, length, nx, "look", node,
                n, "counted", msg, length)
         /\ InLine(A, t, S, s, head, tail, length, nx, "look", node,
                n, "counted", msg, cn)
            => InLine(A, t, S, s, head, tail, l, nx, "look", node, n,
                      "recv", m, 0)
<1> USE DEF InLine
<1>1. /\ Tailed(t, "count") = t /\ Linked(t, "count") = t
      /\ Tailed(t, "counted") = t /\ Linked(t, "counted") = t
      /\ Tailed(t, "recv") = t /\ Linked(t, "recv") = t
      /\ Counting(t, "count") = t - 1 /\ Counting(t, "counted") = t - 1
      /\ Counting(t, "recv") = t /\ One("look" = "show") = 0
  BY DEF Tailed, Linked, Counting, One
<1> QED
  BY <1>1 DEF Chained, Counts, Holding

-----------------------------------------------------------------------------
(* The menu thread *)

LEMMA WhileLooking ==
  ASSUME NEW A, NEW t, NEW S, NEW s, NEW head, NEW tail, NEW length, NEW nx,
         NEW node, NEW n, NEW cpc, NEW msg, NEW cn, NEW r, NEW m,
         InLine(A, t, S, s, head, tail, length, nx, "look", node, n, cpc, msg,
                cn)
  PROVE  InLine(A, t, S, s, head, tail, length, nx, "look", r, m, cpc, msg, cn)
BY DEF InLine, Counts, Holding

LEMMA TakesHead ==
  ASSUME NEW A, NEW t \in Nat, NEW S, NEW s \in Nat, NEW head, NEW tail,
         NEW length \in Nat, NEW nx, NEW node, NEW n, NEW msg, NEW cn,
         NEW cpc \in {"recv", "add"}, NEW mpc, length # 0,
         mpc = IF length > 1 THEN "next" ELSE "empty",
         InLine(A, t, S, s, head, tail, length, nx, "look", node,
                n, cpc, msg, cn)
  PROVE  InLine(A, t, S, s, head, tail, length, nx, mpc, head,
                n, cpc, msg, cn)
<1> USE DEF InLine
<1>1. /\ Tailed(t, cpc) = Counting(t, cpc) /\ Counting(t, cpc) <= t
      /\ Counting(t, cpc) \in Int
      /\ Left(s, "look") = s /\ Left(s, mpc) = s
      /\ One("look" = "show") = 0 /\ One(mpc = "show") = 0
  BY DEF Tailed, Counting, Left, One
<1>2. length + s = Counting(t, cpc)
  BY <1>1 DEF Counts
<1>3. s < Tailed(t, cpc) /\ s < t
  BY <1>1, <1>2
<1>4. Chained(A, t, S, s, head, tail, nx, mpc, cpc)
  BY <1>1 DEF Chained
<1>5. Counts(t, s, length, mpc, n, cpc, cn)
  <2>1. mpc \in {"next", "empty"} /\ (mpc = "next" => length > 1)
        /\ (mpc = "empty" => length = 1)
    OBVIOUS
  <2> QED
    BY <1>1, <2>1 DEF Counts
<1>6. Holding(A, t, s, mpc, head, cpc, msg)
  BY <1>1, <1>3 DEF Holding, Chained
<1> QED
  BY <1>4, <1>5, <1>6

LEMMA HeadUnlinked ==
  ASSUME NEW A, NEW t \in Nat, NEW S, NEW s \in Nat, NEW head, NEW tail,
         NEW length \in Nat, NEW nx, NEW node, NEW n, NEW msg, NEW cn,
         NEW cpc \in {"recv", "add"}, NEW mpc \in {"next", "empty"},
         NEW h, NEW l, mpc = "next" => h = nx[head] /\ l = tail,
         InLine(A, t, S, s, head, tail, length, nx, mpc, node,
                n, cpc, msg, cn)
  PROVE  InLine(A, t, S, s, h, l, length, nx, "uncount", node,
                n, cpc, msg, cn)
<1> USE DEF InLine
<1>1. /\ Tailed(t, cpc) = Counting(t, cpc) /\ Linked(t, cpc) = Counting(t, cpc)
      /\ Counting(t, cpc) \in Int
      /\ Left(s, mpc) = s /\ Left(s, "uncount") = s + 1
      /\ One(mpc = "show") = 0 /\ One("uncount" = "show") = 0
  BY DEF Tailed, Linked, Counting, Left, One
<1>2. length + s = Counting(t, cpc) /\ length # 0
  BY <1>1 DEF Counts
<1>3. s + 1 < Counting(t, cpc) => h = A[s + 2] /\ l = A[Counting(t, cpc)]
  <2> SUFFICES ASSUME s + 1 < Counting(t, cpc)
               PROVE  h = A[s + 2] /\ l = A[Counting(t, cpc)]
    OBVIOUS
  <2>1. mpc = "next"
    BY <1>2 DEF Counts
  <2>2. head = A[s + 1] /\ tail = A[Counting(t, cpc)]
    BY <1>1 DEF Chained
  <2>3. s + 1 \in 1..(Counting(t, cpc) - 1) /\ s < s + 1 /\ (s + 1) + 1 = s + 2
    BY <1>1
  <2>4. nx[A[s + 1]] = A[s + 2]
    BY <1>1, <2>3 DEF Chained
  <2> QED
    BY <2>1, <2>2, <2>4
<1>4. \A i \in 1..(Counting(t, cpc) - 1) : s + 1 < i => nx[A[i]] = A[i + 1]
  <2>1. \A i \in 1..(Counting(t, cpc) - 1) : s + 1 < i => s < i
    BY <1>1
  <2> QED
    BY <1>1, <2>1 DEF Chained
<1>5. (s + 1) + 1 = s + 2
  OBVIOUS
<1>6. Chained(A, t, S, s, h, l, nx, "uncount", cpc)
  BY <1>1, <1>3, <1>4, <1>5 DEF Chained
<1>7. Counts(t, s, length, "uncount", n, cpc, cn)
  BY <1>1, <1>2 DEF Counts
<1> QED
  BY <1>6, <1>7 DEF Holding

LEMMA HeadForgotten ==
  ASSUME NEW A, NEW t \in Nat, NEW S, NEW s \in Nat, NEW head, NEW tail,
         NEW length \in Nat, NEW nx, NEW node, NEW n, NEW msg, NEW cn,
         NEW cpc \in {"recv", "add"}, NEW mpc \in {"next", "empty"}, NEW q,
         mpc = "next" => q.head = nx[head] /\ q.tail = tail,
         InLine(A, t, S, s, head, tail, length, nx, mpc, node, n, cpc, msg, cn)
  PROVE  InLine(A, t, S, s, q.head, q.tail, length, nx, "uncount", node, n, cpc,
                msg, cn)
<1> DEFINE h == q.head
           l == q.tail
<1>1. mpc = "next" => h = nx[head] /\ l = tail
  OBVIOUS
<1> HIDE DEF h, l
<1>2. InLine(A, t, S, s, h, l, length, nx, "uncount", node, n, cpc, msg, cn)
  BY <1>1, HeadUnlinked
<1> QED
  BY <1>2 DEF h, l

LEMMA LengthUncounted ==
  ASSUME NEW A, NEW t \in Nat, NEW S, NEW s \in Nat, NEW head, NEW tail,
         NEW length \in Nat, NEW nx, NEW node, NEW n, NEW m, NEW msg, NEW cn,
         NEW cpc \in {"recv", "add"}
  PROVE  /\ InLine(A, t, S, s, head, tail, length, nx, "uncount", node,
                n, cpc, msg, cn)
            => InLine(A, t, S, s, head, tail, length, nx, "uncounted", node,
                length, cpc, msg, cn)
         /\ InLine(A, t, S, s, head, tail, length, nx, "uncounted", node,
                n, cpc, msg, cn)
            => InLine(A, t, S, s, head, tail, n - 1, nx, "show", node,
                m, cpc, msg, cn)
<1> USE DEF InLine
<1>1. /\ Left(s, "uncount") = s + 1 /\ Left(s, "uncounted") = s + 1
      /\ Left(s, "show") = s + 1 /\ Counting(t, cpc) \in Int
      /\ One("uncount" = "show") = 0 /\ One("uncounted" = "show") = 0
      /\ One("show" = "show") = 1
  BY DEF Left, One, Counting
<1>2. ASSUME Counts(t, s, length, "uncount", n, cpc, cn)
      PROVE  Counts(t, s, length, "uncounted", length, cpc, cn)
  BY <1>1, <1>2 DEF Counts
<1>3. ASSUME Counts(t, s, length, "uncounted", n, cpc, cn)
      PROVE  Counts(t, s, n - 1, "show", m, cpc, cn)
  BY <1>1, <1>3 DEF Counts
<1> QED
  BY <1>1, <1>2, <1>3 DEF Chained, Holding

(* A node is printed, which makes R of S, and its pointer is cleared, which *)
(* makes ny of nx.                                                         *)
Printed(S, s, R, node) == (\A i \in 1..s : R[i] = S[i]) /\ R[s + 1] = node
Cleared(A, t, s, node, nx, ny) ==
  /\ \A i \in 1..t : A[i] # node => ny[A[i]] = nx[A[i]]
  /\ \A i \in 1..t : s + 1 < i => A[i] # A[s + 1]

LEMMA HeadShown ==
  ASSUME NEW A, NEW t \in Nat, NEW S, NEW s \in Nat, NEW head, NEW tail,
         NEW length \in Nat, NEW nx, NEW ny, NEW R, NEW node, NEW m, NEW n,
         NEW msg, NEW cn, NEW cpc \in {"recv", "add"}, NEW r \in Nat,
         r = s + 1,
         InLine(A, t, S, s, head, tail, length, nx, "show", node,
                n, cpc, msg, cn),
         Printed(S, s, R, node), Cleared(A, t, s, node, nx, ny)
  PROVE  InLine(A, t, R, r, head, tail, length, ny, "look", m, n, cpc, msg,
                cn)
<1> USE DEF InLine, Printed, Cleared
<1>1. /\ Left(s, "show") = s + 1 /\ Left(s + 1, "look") = s + 1
      /\ Linked(t, cpc) <= t /\ Linked(t, cpc) \in Int /\ Counting(t, cpc) \in Int
      /\ One("look" = "show") = 0 /\ One("show" = "show") = 1
  BY DEF Left, One, Linked, Counting
<1>2. node = A[s + 1]
  BY DEF Holding
<1>3. \A i \in 1..(s + 1) : R[i] = A[i]
  <2>1. \A i \in 1..(s + 1) : i \in 1..s \/ i = s + 1
    OBVIOUS
  <2> QED
    BY <1>2, <2>1 DEF Chained
<1>4. \A i \in 1..(Linked(t, cpc) - 1) : s + 1 < i => ny[A[i]] = A[i + 1]
  <2> SUFFICES ASSUME NEW i \in 1..(Linked(t, cpc) - 1), s + 1 < i
               PROVE  ny[A[i]] = A[i + 1]
    OBVIOUS
  <2>1. i \in 1..t
    BY <1>1
  <2>2. nx[A[i]] = A[i + 1]
    BY <1>1 DEF Chained
  <2> QED
    BY <1>2, <2>1, <2>2
<1>5. Chained(A, t, R, s + 1, head, tail, ny, "look", cpc)
  BY <1>1, <1>3, <1>4 DEF Chained
<1>6. Counts(t, s + 1, length, "look", n, cpc, cn)
  BY <1>1 DEF Counts
<1>7. InLine(A, t, R, s + 1, head, tail, length, ny, "look", m, n, cpc, msg,
             cn)
  BY <1>5, <1>6 DEF Holding
<1> QED
  BY <1>7

(* A message that comes changes nothing in the queue. *)
SameUpTo(A, B, t) == \A i \in 1..t : B[i] = A[i]

LEMMA ComesLater ==
  ASSUME NEW A, NEW B, NEW t \in Nat, NEW S, NEW s \in Nat, NEW head, NEW tail,
         NEW length \in Nat, NEW nx, NEW mpc, NEW node, NEW n, NEW msg, NEW cn,
         NEW cpc, InLine(A, t, S, s, head, tail, length, nx, mpc, node,
                n, cpc, msg, cn), SameUpTo(A, B, t)
  PROVE  InLine(B, t, S, s, head, tail, length, nx, mpc, node,
                n, cpc, msg, cn)
<1> USE DEF InLine, SameUpTo
<1>1. /\ Tailed(t, cpc) <= t /\ Tailed(t, cpc) \in Int
      /\ Linked(t, cpc) <= t /\ Linked(t, cpc) \in Int
      /\ Left(s, mpc) \in {s, s + 1}
      /\ Counting(t, cpc) <= t /\ Counting(t, cpc) \in Int
      /\ One(mpc = "show") \in {0, 1}
  BY DEF Tailed, Linked, Left, One, Counting
<1>2. length + s + One(mpc = "show") = Counting(t, cpc)
  BY DEF Counts
<1>3. s <= t
  BY <1>1, <1>2
<1>4. \A i \in 1..s : S[i] = B[i]
  <2>1. \A i \in 1..s : i \in 1..t
    BY <1>3
  <2> QED
    BY <2>1 DEF Chained
<1>5. Left(s, mpc) < Tailed(t, cpc) => head = B[Left(s, mpc) + 1]
                                     /\ tail = B[Tailed(t, cpc)]
  <2>1. Left(s, mpc) < Tailed(t, cpc) => /\ Left(s, mpc) + 1 \in 1..t
                                         /\ Tailed(t, cpc) \in 1..t
    BY <1>1
  <2> QED
    BY <2>1 DEF Chained
<1>6. \A i \in 1..(Linked(t, cpc) - 1) : Left(s, mpc) < i => nx[B[i]] = B[i + 1]
  <2>1. \A i \in 1..(Linked(t, cpc) - 1) : i \in 1..t /\ i + 1 \in 1..t
    BY <1>1
  <2> QED
    BY <2>1 DEF Chained
<1>7. Holding(B, t, s, mpc, node, cpc, msg)
  <2>1. s < t => s + 1 \in 1..t
    OBVIOUS
  <2>2. t # 0 => t \in 1..t
    OBVIOUS
  <2> QED
    BY <2>1, <2>2 DEF Holding
<1> QED
  BY <1>4, <1>5, <1>6, <1>7 DEF Chained

-----------------------------------------------------------------------------
(* Nothing is lost. *)

LEMMA GoodBefore ==
  ASSUME TypeInv, OrderInv, [Next]_vars, Good'
  PROVE  Good
<1>1. up /\ ~ overlap
  <2>1. up /\ (overlap' = overlap \/ Dequeue \/ AddNotif)
    <3>1. CASE MenuStep
      BY <3>1 DEF MenuStep, AddQueue, AddSubscription, NoMore, Unlink, Dequeue,
         Uncount, Uncounted, Show, Killed
    <3>2. CASE CenterStep
      BY <3>2 DEF CenterStep, Wait, Refresh, Poll, PollNothing, Receive, AddNotif,
         LinkFirst, Link, MoveTail, Count, Counted, EnqueueElsewhere,
         EnqueueKills, Killed
    <3>3. CASE User \/ Wake \/ \E fd \in DOMAIN sockets : Arrive(fd)
      BY <3>3 DEF User, Subscribe, PrintNotif, Wake, Arrive
    <3>4. CASE UNCHANGED vars
      BY <3>4 DEF vars, Good
    <3> QED
      BY <3>1, <3>2, <3>3, <3>4 DEF Next
  <2>2. ~ overlap' /\ overlap \in BOOLEAN
    BY DEF Good, TypeInv
  <2>3. Dequeue => ~ overlap
    BY <2>2, PrintingEffect
  <2>4. AddNotif => ~ overlap
    BY <2>2, AddNotifEffect
  <2> QED
    BY <2>1, <2>2, <2>3, <2>4
<1>2. Joined /\ place = 0
  <2>1. CASE AddQueue
    <3>1. place \in Nat /\ (place' = place \/ place' = place + 1)
      BY <2>1 DEF AddQueue, TypeInv, TableTyped
    <3>2. place = 0
      BY <3>1 DEF Good
    <3> QED
      BY <2>1, <3>2, AddQueueJoined DEF Good
  <2>2. CASE \E joined \in BOOLEAN : Subscribe(joined)
    <3>1. place' = place
      BY <2>2, SubscribeEffect DEF sharedVars, tableVars
    <3> QED
      BY <2>2, <3>1, SubscribeJoined DEF Good
  <2>3. CASE AddSubscription \/ \E fd \in DOMAIN sockets : Arrive(fd)
    BY <2>3 DEF AddSubscription, Arrive, sharedVars, tableVars, outsideVars,
       Good, Joined
  <2>4. CASE ~ (\/ AddQueue \/ AddSubscription
                \/ \E joined \in BOOLEAN : Subscribe(joined)
                \/ \E fd \in DOMAIN sockets : Arrive(fd))
    BY <2>4, OthersJoin DEF Good, Joined
  <2> QED
    BY <2>1, <2>2, <2>3, <2>4
<1> QED
  BY <1>1, <1>2 DEF Good

(* The feed that is read has the number of its descriptor, and its queue   *)
(* is not filled while it is emptied.                                      *)
LEMMA ReadFacts ==
  ASSUME TypeInv, OrderInv, JoinInv, KeptInv, Good, Reading
  PROVE  \E c \in 1..MaxSubs :
           /\ center.fd = c /\ c \in DOMAIN net /\ c \in DOMAIN queues
           /\ c \in DOMAIN subs /\ sockets[c] = c /\ SubscriptionOf(c) = c
           /\ center.k \in {0, c} /\ (Enqueuing => center.k = c)
           /\ Emptying => menu.k = c /\ MenuAt(c) = menu.pc /\ ~ Enqueuing
           /\ ~ Emptying => MenuAt(c) = "look"
           /\ Taken(c) \in Nat /\ Taken(c) <= Len(arrived[c])
           /\ Len(shown[c]) \in Nat /\ queues[c].length \in Nat
           /\ InLine(arrived[c], Taken(c), shown[c], Len(shown[c]),
                     queues[c].head, queues[c].tail, queues[c].length, next,
                     MenuAt(c), menu.node, menu.n, center.pc, center.msg,
                     center.n)
<1>1. PICK c \in DOMAIN subs : subs[c].fd = center.fd
  BY DEF TypeInv, CenterTyped
<1>2. center.fd = c /\ sockets[c] = c /\ c \in DOMAIN net
  BY <1>1, TypeFacts DEF JoinInv, Good, TypeInv, CenterTyped
<1>3. c \in DOMAIN queues /\ c \in 1..MaxSubs
  BY <1>1, TypeFacts
<1>4. SubscriptionOf(c) = c
  <2>1. SubscriptionOf(c) \in DOMAIN subs /\ subs[SubscriptionOf(c)].fd = c
    BY <1>1, <1>2, SubscriptionFound
  <2> QED
    BY <2>1 DEF JoinInv, Good
<1>5. center.k \in {0, c} /\ (Enqueuing => center.k = c)
  BY <1>2, <1>4 DEF TypeInv, OneQueue, CenterTyped
<1>6. Emptying => menu.k = c
  <2>1. Emptying => menu.k \in DOMAIN queues /\ menu.k = center.k
    BY DEF TypeInv, MenuTyped, OrderInv, HeadsRise
  <2> QED
    BY <1>5, <2>1, TypeFacts
<1>7. /\ Emptying => MenuAt(c) = menu.pc /\ menu.pc # "look"
      /\ ~ Emptying => MenuAt(c) = "look"
  BY <1>6 DEF MenuAt, Emptying
<1>8. Kept(c)
  BY <1>2 DEF KeptInv
<1>9. Emptying => ~ Enqueuing
  BY <1>7, <1>8 DEF Kept, InLine, Holding, Enqueuing
<1>10. /\ Len(arrived[c]) \in Nat /\ Len(net[c]) \in Nat /\ Len(shown[c]) \in Nat
       /\ queues[c].length \in Nat
  BY <1>2, <1>3, TypeFacts, LenProperties
<1>11. Taken(c) \in Nat /\ Taken(c) <= Len(arrived[c])
  <2>1. \A x, y \in Nat : y <= x => x - y \in Nat /\ x - y <= x
    OBVIOUS
  <2>2. Len(net[c]) <= Len(arrived[c])
    BY <1>8 DEF Kept
  <2> QED
    BY <1>10, <2>1, <2>2 DEF Taken
<1> QED
  BY <1>1, <1>2, <1>3, <1>4, <1>5, <1>6, <1>7, <1>8, <1>9, <1>10, <1>11
     DEF Kept

(* A step inside: neither what came nor what was read changes. *)
LEMMA KeptStays ==
  ASSUME KeptInv, Good, Reading, NEW c, center.fd = c, center'.fd = c,
         Reading', UNCHANGED <<net, arrived>>,
         InLine(arrived[c], Taken(c), shown'[c], Len(shown'[c]),
                queues'[c].head, queues'[c].tail, queues'[c].length, next',
                MenuAt(c)', menu'.node, menu'.n, center'.pc, center'.msg,
                center'.n)
  PROVE  KeptInv'
<1>1. Taken(c)' = Taken(c)
  BY DEF Taken
<1>2. Kept(c)
  BY DEF KeptInv
<1>3. Kept(c)'
  BY <1>1, <1>2 DEF Kept
<1> QED
  BY <1>3 DEF KeptInv

LEMMA KeptAlone ==
  ASSUME TypeInv, OrderInv, JoinInv, KeptInv, Good,
         UNCHANGED <<arrived, net, shown, next>>,
         \A k \in DOMAIN queues : queues'[k] = queues[k],
         ~ Emptying, ~ Emptying',
         center' = center \/ (~ Reading /\ ~ Reading' /\ center'.fd = center.fd)
  PROVE  KeptInv'
<1>1. CASE ~ Reading
  BY <1>1 DEF KeptInv, Reading
<1>2. CASE Reading /\ center' = center
  <2>1. PICK c \in 1..MaxSubs :
          /\ center.fd = c /\ c \in DOMAIN queues /\ MenuAt(c) = "look"
          /\ InLine(arrived[c], Taken(c), shown[c], Len(shown[c]),
                    queues[c].head, queues[c].tail, queues[c].length, next,
                    MenuAt(c), menu.node, menu.n, center.pc, center.msg,
                    center.n)
    BY <1>2, ReadFacts
  <2>2. MenuAt(c)' = "look"
    BY DEF MenuAt
  <2>3. InLine(arrived[c], Taken(c), shown[c], Len(shown[c]),
               queues[c].head, queues[c].tail, queues[c].length, next, "look",
               menu'.node, menu'.n, center.pc, center.msg, center.n)
    BY <2>1, WhileLooking
  <2>4. queues'[c] = queues[c] /\ shown' = shown /\ next' = next
    BY <2>1
  <2>5. Reading'
    BY <1>2 DEF Reading
  <2> QED
    BY <1>2, <2>1, <2>2, <2>3, <2>4, <2>5, KeptStays
<1> QED
  BY <1>1, <1>2

LEMMA AddQueueKept ==
  ASSUME TypeInv, OrderInv, JoinInv, KeptInv, Good, AddQueue
  PROVE  KeptInv'
<1>1. /\ queues \in Seq(QueueType) /\ Empty \in QueueType /\ menu \in MenuType
      /\ DOMAIN queues = 1..Len(queues)
  BY TypeFacts, ClientNotificationsAssumption
     DEF TypeInv, TableTyped, QueueType, Empty, Node, NULL, MenuTyped
<1>2. \A k \in DOMAIN queues : queues'[k] = queues[k]
  BY <1>1, AppendProperties DEF AddQueue
<1>3. menu.pc = "notif" /\ menu'.pc = "subscribe"
  BY <1>1 DEF AddQueue, Goto, MenuType
<1> QED
  BY <1>2, <1>3, KeptAlone DEF AddQueue, Emptying, outsideVars

LEMMA AddSubscriptionKept ==
  ASSUME TypeInv, OrderInv, JoinInv, KeptInv, Good, AddSubscription
  PROVE  KeptInv'
<1>1. menu.pc = "subscribe" /\ menu'.pc = "idle"
  BY DEF AddSubscription, Goto, TypeInv, MenuTyped, MenuType
<1>2. center' = center \/ (~ Reading /\ ~ Reading' /\ center'.fd = center.fd)
  <2>1. CASE center.pc = "asleep"
    <3>1. ~ Reading
      BY <2>1 DEF Reading
    <3> QED
      BY <3>1, AddSubscriptionEffect
  <2>2. CASE center.pc # "asleep"
    BY <2>2 DEF AddSubscription
  <2> QED
    BY <2>1, <2>2
<1> QED
  BY <1>1, <1>2, KeptAlone DEF AddSubscription, Emptying, outsideVars

LEMMA PrintingKept ==
  ASSUME TypeInv, OrderInv, JoinInv, KeptInv, Good, PrintNotif \/ NoMore
  PROVE  KeptInv'
<1>1. /\ UNCHANGED <<sharedVars, center, outsideVars, shown>>
      /\ menu.pc \in {"idle", "look"} /\ menu'.pc \in {"idle", "look"}
  BY PrintingEffect
<1> QED
  BY <1>1, KeptAlone DEF sharedVars, outsideVars, Emptying

LEMMA WaitingKept ==
  ASSUME TypeInv, KeptInv, Good, Wait \/ Wake \/ Refresh \/ PollNothing
  PROVE  KeptInv'
<1>1. /\ UNCHANGED outsideVars /\ ~ Reading /\ ~ Reading'
      /\ center'.fd = center.fd
  BY WaitingTypeInv
<1> QED
  BY <1>1 DEF KeptInv, outsideVars

LEMMA DequeueKept ==
  ASSUME TypeInv, OrderInv, JoinInv, KeptInv, Good, Dequeue, ~ overlap'
  PROVE  KeptInv'
<1>1. /\ UNCHANGED <<sharedVars, center, outsideVars, shown, up>>
      /\ menu.pc = "look" /\ menu.k \in DOMAIN queues
      /\ queues[menu.k].length # 0
      /\ menu'.pc = IF queues[menu.k].length > 1 THEN "next" ELSE "empty"
      /\ menu'.k = menu.k /\ menu'.node = queues[menu.k].head
      /\ menu'.n = menu.n
      /\ ~ (Enqueuing /\ center.k = menu.k)
  BY PrintingEffect
<1>2. menu.k = center.k /\ center.k # 0
  BY <1>1, TypeFacts DEF TypeInv, OneQueue, Empty
<1>3. Reading
  BY <1>2 DEF TypeInv, OneQueue
<1>4. PICK c \in 1..MaxSubs :
        /\ center.fd = c /\ center.k \in {0, c} /\ c \in DOMAIN queues
        /\ ~ Emptying => MenuAt(c) = "look"
        /\ Taken(c) \in Nat /\ Len(shown[c]) \in Nat
        /\ queues[c].length \in Nat
        /\ InLine(arrived[c], Taken(c), shown[c], Len(shown[c]),
                  queues[c].head, queues[c].tail, queues[c].length, next,
                  MenuAt(c), menu.node, menu.n, center.pc, center.msg,
                  center.n)
  BY <1>3, ReadFacts
<1>5. menu.k = c /\ MenuAt(c) = "look" /\ MenuAt(c)' = menu'.pc
  BY <1>1, <1>2, <1>4 DEF MenuAt, Emptying
<1>6. center.pc \in {"recv", "add"}
  BY <1>1, <1>2, <1>3 DEF Enqueuing, Reading
<1>7. /\ InLine(arrived[c], Taken(c), shown[c], Len(shown[c]),
                queues[c].head, queues[c].tail, queues[c].length, next,
                menu'.pc, queues[c].head, menu.n, center.pc, center.msg,
                center.n)
  <2>1. /\ InLine(arrived[c], Taken(c), shown[c], Len(shown[c]),
                  queues[c].head, queues[c].tail, queues[c].length, next,
                  "look", menu.node, menu.n, center.pc, center.msg,
                  center.n)
    BY <1>4, <1>5
  <2>2. /\ queues[c].length # 0
        /\ menu'.pc = IF queues[c].length > 1 THEN "next" ELSE "empty"
    BY <1>1, <1>5
  <2>3. /\ Taken(c) \in Nat /\ Len(shown[c]) \in Nat
        /\ queues[c].length \in Nat
    BY <1>4
  <2> QED
    BY <1>6, <2>1, <2>2, <2>3, TakesHead
<1>8. Reading' /\ UNCHANGED <<queues, next, net, arrived, shown, center>>
  BY <1>1, <1>3 DEF Reading, sharedVars, outsideVars
<1> QED
  BY <1>1, <1>3, <1>4, <1>5, <1>7, <1>8, KeptStays

(* While the menu thread empties a queue the other is at a socket.  *)
LEMMA EmptyingFacts ==
  ASSUME TypeInv, OrderInv, JoinInv, KeptInv, Good, Emptying
  PROVE  /\ Reading /\ center.pc \in {"recv", "add"}
         /\ \E c \in 1..MaxSubs :
              /\ center.fd = c /\ c \in DOMAIN queues /\ menu.k = c
              /\ Taken(c) \in Nat /\ Len(shown[c]) \in Nat
              /\ Taken(c) <= Len(arrived[c]) /\ queues[c].length \in Nat
              /\ InLine(arrived[c], Taken(c), shown[c], Len(shown[c]),
                        queues[c].head, queues[c].tail, queues[c].length,
                        next, menu.pc, menu.node, menu.n, center.pc,
                        center.msg, center.n)
<1>1. Reading
  <2>1. menu.k \in DOMAIN queues /\ menu.k = center.k
    BY DEF TypeInv, MenuTyped, OrderInv, HeadsRise
  <2> QED
    BY <2>1, TypeFacts DEF TypeInv, OneQueue
<1>2. ~ Enqueuing
  BY <1>1, ReadFacts
<1>3. center.pc \in {"recv", "add"}
  BY <1>1, <1>2 DEF Reading, Enqueuing
<1> QED
  BY <1>1, <1>3, ReadFacts

LEMMA UnlinkKept ==
  ASSUME TypeInv, OrderInv, JoinInv, KeptInv, Good, Unlink, up'
  PROVE  KeptInv'
<1>1. /\ menu.k \in DOMAIN queues /\ menu.pc \in {"next", "empty"}
      /\ menu'.pc = "uncount" /\ menu'.k = menu.k /\ menu'.node = menu.node
      /\ menu'.n = menu.n
      /\ UNCHANGED <<next, center, net, arrived, shown>>
  BY UnlinkEffect DEF OrderInv, MenuType, outsideVars
<1>2. PICK q \in QueueType :
        /\ queues' = [queues EXCEPT ![menu.k] = q]
        /\ q.length = queues[menu.k].length
        /\ menu.pc = "next" => /\ q.head = next[queues[menu.k].head]
                               /\ q.tail = queues[menu.k].tail
  BY UnlinkEffect DEF OrderInv, Queue
<1>3. queues'[menu.k] = q
  BY <1>1, <1>2, QueueChange
<1>4. Emptying
  BY <1>1 DEF Emptying
<1>5. Reading /\ center.pc \in {"recv", "add"}
  BY <1>4, EmptyingFacts
<1>6. PICK c \in 1..MaxSubs :
        /\ center.fd = c /\ menu.k = c
        /\ Taken(c) \in Nat /\ Len(shown[c]) \in Nat
        /\ queues[c].length \in Nat
        /\ InLine(arrived[c], Taken(c), shown[c], Len(shown[c]),
                  queues[c].head, queues[c].tail, queues[c].length, next,
                  menu.pc, menu.node, menu.n, center.pc, center.msg,
                  center.n)
  BY <1>4, EmptyingFacts
<1>7. menu.pc = "next" => q.head = next[queues[c].head] /\ q.tail = queues[c].tail
  BY <1>2, <1>6
<1>8. InLine(arrived[c], Taken(c), shown[c], Len(shown[c]), q.head, q.tail,
             queues[c].length, next, "uncount", menu.node, menu.n, center.pc,
             center.msg, center.n)
  <2>1. PICK t \in Nat, l \in Nat, s \in Nat, m \in {"next", "empty"},
             p \in {"recv", "add"} :
          /\ t = Taken(c) /\ l = queues[c].length /\ s = Len(shown[c])
          /\ m = menu.pc /\ p = center.pc
    BY <1>1, <1>5, <1>6
  <2>2. InLine(arrived[c], t, shown[c], s, queues[c].head, queues[c].tail, l,
               next, m, menu.node, menu.n, p, center.msg, center.n)
    BY <1>6, <2>1
  <2>3. m = "next" => q.head = next[queues[c].head] /\ q.tail = queues[c].tail
    BY <1>7, <2>1
  <2>4. InLine(arrived[c], t, shown[c], s, q.head, q.tail, l, next, "uncount",
               menu.node, menu.n, p, center.msg, center.n)
    <3>1. t \in Nat /\ l \in Nat /\ s \in Nat /\ m \in {"next", "empty"}
          /\ p \in {"recv", "add"}
      BY <2>1
    <3> QED
      BY <2>2, <2>3, <3>1, HeadForgotten
  <2> QED
    BY <2>1, <2>4
<1>9. MenuAt(c)' = "uncount" /\ queues'[c] = q /\ q.length = queues[c].length
  BY <1>1, <1>2, <1>3, <1>6 DEF MenuAt, Emptying
<1>10. Reading' /\ center' = center
  BY <1>1, <1>5 DEF Reading
<1> QED
  BY <1>1, <1>5, <1>6, <1>8, <1>9, <1>10, KeptStays

LEMMA UncountKept ==
  ASSUME TypeInv, OrderInv, JoinInv, KeptInv, Good, Uncount
  PROVE  KeptInv'
<1>1. /\ menu.pc = "uncount" /\ menu'.pc = "uncounted" /\ menu'.k = menu.k
      /\ menu'.node = menu.node /\ menu'.n = queues[menu.k].length
      /\ UNCHANGED <<queues, next, center, net, arrived, shown>>
  BY PrintingEffect DEF sharedVars, outsideVars
<1>2. Emptying
  BY <1>1 DEF Emptying
<1>3. Reading /\ center.pc \in {"recv", "add"}
  BY <1>2, EmptyingFacts
<1>4. PICK c \in 1..MaxSubs :
        /\ center.fd = c /\ menu.k = c
        /\ Taken(c) \in Nat /\ Len(shown[c]) \in Nat
        /\ queues[c].length \in Nat
        /\ InLine(arrived[c], Taken(c), shown[c], Len(shown[c]),
                  queues[c].head, queues[c].tail, queues[c].length, next,
                  menu.pc, menu.node, menu.n, center.pc, center.msg,
                  center.n)
  BY <1>2, EmptyingFacts
<1>5. InLine(arrived[c], Taken(c), shown[c], Len(shown[c]), queues[c].head,
             queues[c].tail, queues[c].length, next, "uncounted", menu.node,
             queues[c].length, center.pc, center.msg, center.n)
  <2>1. PICK t \in Nat, l \in Nat, s \in Nat, p \in {"recv", "add"} :
          /\ t = Taken(c) /\ l = queues[c].length /\ s = Len(shown[c])
          /\ p = center.pc
    BY <1>3, <1>4
  <2>2. InLine(arrived[c], t, shown[c], s, queues[c].head, queues[c].tail, l,
               next, "uncount", menu.node, menu.n, p, center.msg, center.n)
    BY <1>1, <1>4, <2>1
  <2>3. t \in Nat /\ l \in Nat /\ s \in Nat /\ p \in {"recv", "add"}
    BY <2>1
  <2>4. InLine(arrived[c], t, shown[c], s, queues[c].head, queues[c].tail, l,
               next, "uncounted", menu.node, l, p, center.msg, center.n)
    BY <2>2, <2>3, LengthUncounted
  <2> QED
    BY <2>1, <2>4
<1>6. MenuAt(c)' = "uncounted" /\ menu'.n = queues[c].length
  BY <1>1, <1>4 DEF MenuAt, Emptying
<1>7. Reading' /\ center' = center
  BY <1>1, <1>3 DEF Reading
<1> QED
  BY <1>1, <1>3, <1>4, <1>5, <1>6, <1>7, KeptStays

LEMMA UncountedKept ==
  ASSUME TypeInv, OrderInv, JoinInv, KeptInv, Good, Uncounted
  PROVE  KeptInv'
<1>1. /\ menu.k \in DOMAIN queues /\ menu.pc = "uncounted"
      /\ menu'.pc = "show" /\ menu'.k = menu.k /\ menu'.node = menu.node
      /\ UNCHANGED <<next, center, net, arrived, shown>>
  BY UncountedEffect DEF OrderInv, outsideVars
<1>2. PICK q \in QueueType :
        /\ queues' = [queues EXCEPT ![menu.k] = q]
        /\ q.length = menu.n - 1
        /\ q.head = queues[menu.k].head /\ q.tail = queues[menu.k].tail
  BY UncountedEffect DEF OrderInv, Queue
<1>3. queues'[menu.k] = q
  BY <1>1, <1>2, QueueChange
<1>4. Emptying
  BY <1>1 DEF Emptying
<1>5. Reading /\ center.pc \in {"recv", "add"}
  BY <1>4, EmptyingFacts
<1>6. PICK c \in 1..MaxSubs :
        /\ center.fd = c /\ menu.k = c
        /\ Taken(c) \in Nat /\ Len(shown[c]) \in Nat
        /\ queues[c].length \in Nat
        /\ InLine(arrived[c], Taken(c), shown[c], Len(shown[c]),
                  queues[c].head, queues[c].tail, queues[c].length, next,
                  menu.pc, menu.node, menu.n, center.pc, center.msg,
                  center.n)
  BY <1>4, EmptyingFacts
<1>7. InLine(arrived[c], Taken(c), shown[c], Len(shown[c]), queues[c].head,
             queues[c].tail, menu.n - 1, next, "show", menu.node, menu'.n,
             center.pc, center.msg, center.n)
  <2>1. PICK t \in Nat, l \in Nat, s \in Nat, p \in {"recv", "add"} :
          /\ t = Taken(c) /\ l = queues[c].length /\ s = Len(shown[c])
          /\ p = center.pc
    BY <1>5, <1>6
  <2>2. InLine(arrived[c], t, shown[c], s, queues[c].head, queues[c].tail, l,
               next, "uncounted", menu.node, menu.n, p, center.msg, center.n)
    BY <1>1, <1>6, <2>1
  <2>3. t \in Nat /\ l \in Nat /\ s \in Nat /\ p \in {"recv", "add"}
    BY <2>1
  <2>4. InLine(arrived[c], t, shown[c], s, queues[c].head, queues[c].tail,
               menu.n - 1, next, "show", menu.node, menu'.n, p, center.msg,
               center.n)
    BY <2>2, <2>3, LengthUncounted
  <2> QED
    BY <2>1, <2>4
<1>8. /\ MenuAt(c)' = "show" /\ queues'[c] = q /\ q.length = menu.n - 1
      /\ q.head = queues[c].head /\ q.tail = queues[c].tail
  BY <1>1, <1>2, <1>3, <1>6 DEF MenuAt, Emptying
<1>9. Reading' /\ center' = center
  BY <1>1, <1>5 DEF Reading
<1> QED
  BY <1>1, <1>5, <1>6, <1>7, <1>8, <1>9, KeptStays

(* The messages that came for a feed are all different.  *)
LEMMA CameRising ==
  ASSUME TypeInv, OrderInv, NEW c \in 1..MaxSubs
  PROVE  /\ arrived[c] \in Seq(Msgs) /\ Len(arrived[c]) \in Nat
         /\ DOMAIN arrived[c] = 1..Len(arrived[c])
         /\ \A i \in 1..Len(arrived[c]) : arrived[c][i] \in Msgs
         /\ \A i, j \in 1..Len(arrived[c]) :
              i < j => arrived[c][i] < arrived[c][j]
<1>1. /\ arrived[c] \in Seq(Msgs) /\ Len(arrived[c]) \in Nat
      /\ DOMAIN arrived[c] = 1..Len(arrived[c])
  BY TypeFacts, LenProperties
<1>2. c \in DOMAIN arrived
  BY TypeFacts
<1>3. \A i, j \in DOMAIN arrived[c] : i < j => arrived[c][i] < arrived[c][j]
  BY <1>2 DEF OrderInv, ArrivedInOrder
<1>4. \A i \in 1..Len(arrived[c]) : arrived[c][i] \in Msgs
  BY <1>1, ElementOfSeq
<1> QED
  BY <1>1, <1>3, <1>4

LEMMA ShowKept ==
  ASSUME TypeInv, OrderInv, JoinInv, KeptInv, Good, Show, up'
  PROVE  KeptInv'
<1>1. /\ menu.pc = "show" /\ menu'.pc = "look" /\ menu.node \in Msgs
      /\ menu.k \in 1..MaxSubs /\ UNCHANGED <<queues, center, net, arrived>>
      /\ next' = [next EXCEPT ![menu.node] = NULL] /\ menu \in MenuType
      /\ shown'[menu.k] = Append(shown[menu.k], menu.node)
  BY ShowEffect DEF MenuType, outsideVars, TypeInv, MenuTyped
<1>2. Emptying
  BY <1>1 DEF Emptying
<1>3. Reading /\ center.pc \in {"recv", "add"}
  BY <1>2, EmptyingFacts
<1>4. PICK c \in 1..MaxSubs :
        /\ center.fd = c /\ menu.k = c
        /\ Taken(c) \in Nat /\ Len(shown[c]) \in Nat
        /\ Taken(c) <= Len(arrived[c]) /\ queues[c].length \in Nat
        /\ InLine(arrived[c], Taken(c), shown[c], Len(shown[c]),
                  queues[c].head, queues[c].tail, queues[c].length, next,
                  menu.pc, menu.node, menu.n, center.pc, center.msg,
                  center.n)
  BY <1>2, EmptyingFacts
<1>5. PICK t \in Nat, l \in Nat, s \in Nat, p \in {"recv", "add"} :
        /\ t = Taken(c) /\ l = queues[c].length /\ Len(shown[c]) = s
        /\ p = center.pc
  BY <1>3, <1>4
<1>6. t \in Nat /\ l \in Nat /\ s \in Nat /\ p \in {"recv", "add"}
  BY <1>5
<1>7. /\ \A i \in 1..s : shown'[c][i] = shown[c][i]
      /\ shown'[c][s + 1] = menu.node /\ Len(shown'[c]) = s + 1
  <2>1. shown[c] \in Seq(Msgs) /\ menu.node \in Msgs
    BY <1>1, TypeFacts
  <2>2. shown'[c] = Append(shown[c], menu.node)
    BY <1>1, <1>4
  <2>3. /\ Len(shown'[c]) = Len(shown[c]) + 1
        /\ \A i \in 1..Len(shown[c]) : shown'[c][i] = shown[c][i]
        /\ shown'[c][Len(shown[c]) + 1] = menu.node
    BY <2>1, <2>2, AppendProperties
  <2> QED
    BY <1>5, <2>3
<1>8. /\ \A i \in 1..t : arrived[c][i] \in Msgs
      /\ \A i, j \in 1..t : i < j => arrived[c][i] < arrived[c][j]
  <2>1. \A i \in 1..t : i \in 1..Len(arrived[c])
    BY <1>4, <1>5, CameRising
  <2> QED
    BY <2>1, CameRising
<1>9. \A i \in 1..t : arrived[c][i] # menu.node =>
        next'[arrived[c][i]] = next[arrived[c][i]]
  BY <1>1, <1>8 DEF TypeInv
<1>10. \A i \in 1..t : s + 1 < i => arrived[c][i] # arrived[c][s + 1]
  <2> SUFFICES ASSUME NEW i \in 1..t, s + 1 < i
               PROVE  arrived[c][i] # arrived[c][s + 1]
    OBVIOUS
  <2>1. s + 1 \in 1..t
    BY <1>6
  <2>2. arrived[c][s + 1] < arrived[c][i] /\ arrived[c][i] \in Nat
    BY <1>8, <2>1, TypeFacts DEF Msgs
  <2> QED
    BY <2>2
<1>11. InLine(arrived[c], t, shown[c], s, queues[c].head, queues[c].tail, l,
              next, "show", menu.node, menu.n, p, center.msg, center.n)
  BY <1>1, <1>4, <1>5
<1>12. InLine(arrived[c], t, shown'[c], s + 1, queues[c].head,
              queues[c].tail, l, next', "look", menu'.node, menu'.n, p,
              center.msg, center.n)
  <2>1. PICK r \in Nat : r = s + 1
    BY <1>6
  <2>2. r \in Nat /\ r = s + 1
    BY <2>1
  <2>3. Printed(shown[c], s, shown'[c], menu.node)
    BY <1>7 DEF Printed
  <2>4. Cleared(arrived[c], t, s, menu.node, next, next')
    BY <1>9, <1>10 DEF Cleared
  <2>5. InLine(arrived[c], t, shown'[c], r, queues[c].head, queues[c].tail, l,
               next', "look", menu'.node, menu'.n, p, center.msg, center.n)
    <3>1. InLine(arrived[c], t, shown'[c], r, queues[c].head, queues[c].tail,
                 l, next', "look", menu'.node, menu.n, p, center.msg, center.n)
      BY <1>6, <1>11, <2>2, <2>3, <2>4, HeadShown
    <3> QED
      BY <3>1, WhileLooking
  <2> QED
    BY <2>2, <2>5
<1>14. MenuAt(c)' = "look"
  BY <1>1 DEF MenuAt, Emptying
<1>15. Reading' /\ center' = center /\ queues' = queues
  BY <1>1, <1>3 DEF Reading
<1> QED
  BY <1>1, <1>3, <1>4, <1>5, <1>7, <1>12, <1>14, <1>15, KeptStays

(* While the notifications thread fills a queue the menu thread is at none. *)
LEMMA EnqueuingFacts ==
  ASSUME TypeInv, OrderInv, JoinInv, KeptInv, Good, Enqueuing
  PROVE  /\ Reading /\ ~ Emptying
         /\ \E c \in 1..MaxSubs :
              /\ center.fd = c /\ center.k = c /\ c \in DOMAIN queues
              /\ c \in DOMAIN subs
              /\ Taken(c) \in Nat /\ Len(shown[c]) \in Nat
              /\ Taken(c) <= Len(arrived[c]) /\ queues[c].length \in Nat
              /\ InLine(arrived[c], Taken(c), shown[c], Len(shown[c]),
                        queues[c].head, queues[c].tail, queues[c].length,
                        next, "look", menu.node, menu.n, center.pc,
                        center.msg, center.n)
<1>1. Reading
  BY DEF Enqueuing, Reading
<1>2. ~ Emptying
  BY <1>1, ReadFacts
<1> QED
  BY <1>1, <1>2, ReadFacts

LEMMA WriteKept ==
  ASSUME TypeInv, OrderInv, JoinInv, KeptInv, Good,
         LinkFirst \/ MoveTail \/ Counted
  PROVE  KeptInv'
<1>1. /\ Enqueuing /\ center.k \in DOMAIN queues /\ center'.fd = center.fd
      /\ Reading' /\ UNCHANGED <<next, menu, net, arrived, shown>>
  BY EnqueueWrite DEF outsideVars
<1>2. PICK q \in QueueType :
        /\ queues' = [queues EXCEPT ![center.k] = q]
        /\ \/ /\ LinkFirst /\ center.pc = "first" /\ center'.pc = "count"
              /\ q.head = center.msg /\ q.tail = center.msg
              /\ q.length = Target.length /\ center'.msg = center.msg
           \/ /\ MoveTail /\ center.pc = "tail" /\ center'.pc = "count"
              /\ q.head = Target.head /\ q.tail = center.msg
              /\ q.length = Target.length /\ center'.msg = center.msg
           \/ /\ Counted /\ center.pc = "counted" /\ center'.pc = "recv"
              /\ q.head = Target.head /\ q.tail = Target.tail
              /\ q.length = center.n + 1 /\ center'.msg = NULL
  BY EnqueueWrite
<1>3. queues'[center.k] = q
  BY <1>1, <1>2, QueueChange
<1>4. Reading /\ ~ Emptying
  BY <1>1, EnqueuingFacts
<1>5. PICK c \in 1..MaxSubs :
        /\ center.fd = c /\ center.k = c
        /\ Taken(c) \in Nat /\ Len(shown[c]) \in Nat
        /\ queues[c].length \in Nat
        /\ InLine(arrived[c], Taken(c), shown[c], Len(shown[c]),
                  queues[c].head, queues[c].tail, queues[c].length, next,
                  "look", menu.node, menu.n, center.pc, center.msg, center.n)
  BY <1>1, EnqueuingFacts
<1>6. PICK t \in Nat, l \in Nat, s \in Nat :
        t = Taken(c) /\ l = queues[c].length /\ s = Len(shown[c])
  BY <1>5
<1>7. t \in Nat /\ l \in Nat /\ s \in Nat
  BY <1>6
<1>8. InLine(arrived[c], t, shown[c], s, q.head, q.tail, q.length, next,
             "look", menu.node, menu.n, center'.pc, center'.msg, center'.n)
  <2>1. CASE LinkFirst
    <3>1. InLine(arrived[c], t, shown[c], s, queues[c].head, queues[c].tail, l,
                 next, "look", menu.node, menu.n, "first", center.msg,
                 center.n)
      BY <1>2, <1>5, <1>6, <2>1 DEF LinkFirst
    <3>2. InLine(arrived[c], t, shown[c], s, center.msg, center.msg, l,
                 next, "look", menu.node, menu.n, "count", center.msg,
                 center.n)
      BY <1>7, <3>1, FirstLinked
    <3>3. /\ q.head = center.msg /\ q.tail = center.msg /\ q.length = l
          /\ center'.pc = "count" /\ center'.msg = center.msg
      BY <1>2, <1>5, <1>6, <2>1 DEF LinkFirst, Target
    <3>4. center'.n = center.n
      BY <2>1 DEF LinkFirst, Goto, TypeInv, CenterTyped, CenterType
    <3> QED
      BY <3>2, <3>3, <3>4
  <2>2. CASE MoveTail
    <3>1. InLine(arrived[c], t, shown[c], s, queues[c].head, queues[c].tail, l,
                 next, "look", menu.node, menu.n, "tail", center.msg,
                 center.n)
      BY <1>2, <1>5, <1>6, <2>2 DEF MoveTail
    <3>2. InLine(arrived[c], t, shown[c], s, queues[c].head, center.msg, l,
                 next, "look", menu.node, menu.n, "count", center.msg,
                 center.n)
      BY <1>7, <3>1, TailMoved
    <3>3. /\ q.head = queues[c].head /\ q.tail = center.msg /\ q.length = l
          /\ center'.pc = "count" /\ center'.msg = center.msg
      BY <1>2, <1>5, <1>6, <2>2 DEF MoveTail, Target
    <3>4. center'.n = center.n
      BY <2>2 DEF MoveTail, Goto, TypeInv, CenterTyped, CenterType
    <3> QED
      BY <3>2, <3>3, <3>4
  <2>3. CASE Counted
    <3>1. InLine(arrived[c], t, shown[c], s, queues[c].head, queues[c].tail, l,
                 next, "look", menu.node, menu.n, "counted", center.msg,
                 center.n)
      BY <1>2, <1>5, <1>6, <2>3 DEF Counted
    <3>2. /\ q.head = queues[c].head /\ q.tail = queues[c].tail
          /\ q.length = center.n + 1 /\ center'.pc = "recv"
      BY <1>2, <1>5, <2>3 DEF Counted, Target
    <3>3. center'.n = 0
      BY <2>3 DEF Counted, TypeInv, CenterTyped, CenterType
    <3>4. InLine(arrived[c], t, shown[c], s, queues[c].head, queues[c].tail,
                 q.length, next, "look", menu.node, menu.n, "recv",
                 center'.msg, 0)
      BY <1>7, <3>1, <3>2, LengthCounted
    <3> QED
      BY <3>2, <3>3, <3>4
  <2> QED
    BY <2>1, <2>2, <2>3
<1>9. MenuAt(c)' = "look" /\ queues'[c] = q
  BY <1>1, <1>3, <1>4, <1>5 DEF MenuAt, Emptying
<1> QED
  BY <1>1, <1>4, <1>5, <1>6, <1>8, <1>9, KeptStays

LEMMA CountKept ==
  ASSUME TypeInv, OrderInv, JoinInv, KeptInv, Good, Count
  PROVE  KeptInv'
<1>1. /\ Enqueuing /\ center.pc = "count" /\ center'.pc = "counted"
      /\ center'.fd = center.fd /\ center'.msg = center.msg
      /\ center'.n = queues[center.k].length
      /\ UNCHANGED <<queues, next, menu, net, arrived, shown>>
  BY CountEffect DEF sharedVars, outsideVars, Target
<1>2. Reading /\ ~ Emptying
  BY <1>1, EnqueuingFacts
<1>3. PICK c \in 1..MaxSubs :
        /\ center.fd = c /\ center.k = c
        /\ Taken(c) \in Nat /\ Len(shown[c]) \in Nat
        /\ queues[c].length \in Nat
        /\ InLine(arrived[c], Taken(c), shown[c], Len(shown[c]),
                  queues[c].head, queues[c].tail, queues[c].length, next,
                  "look", menu.node, menu.n, center.pc, center.msg, center.n)
  BY <1>1, EnqueuingFacts
<1>4. InLine(arrived[c], Taken(c), shown[c], Len(shown[c]), queues[c].head,
             queues[c].tail, queues[c].length, next, "look", menu.node,
             menu.n, "counted", center.msg, queues[c].length)
  <2>1. PICK t \in Nat, l \in Nat, s \in Nat :
          t = Taken(c) /\ l = queues[c].length /\ s = Len(shown[c])
    BY <1>3
  <2>2. t \in Nat /\ l \in Nat /\ s \in Nat
    BY <2>1
  <2>3. InLine(arrived[c], t, shown[c], s, queues[c].head, queues[c].tail, l,
               next, "look", menu.node, menu.n, "count", center.msg, center.n)
    BY <1>1, <1>3, <2>1
  <2>4. InLine(arrived[c], t, shown[c], s, queues[c].head, queues[c].tail, l,
               next, "look", menu.node, menu.n, "counted", center.msg, l)
    BY <2>2, <2>3, LengthCounted
  <2> QED
    BY <2>1, <2>4
<1>5. MenuAt(c)' = "look" /\ Reading'
  BY <1>1, <1>2 DEF MenuAt, Emptying, Reading
<1> QED
  BY <1>1, <1>2, <1>3, <1>4, <1>5, KeptStays

LEMMA AddNotifKept ==
  ASSUME TypeInv, OrderInv, JoinInv, KeptInv, Good, AddNotif, ~ overlap'
  PROVE  KeptInv'
<1>1. /\ center.pc = "add" /\ center'.fd = center.fd
      /\ center'.k = SubscriptionOf(center.fd) /\ center'.msg = center.msg
      /\ center'.pc = IF queues[center'.k].length = 0 THEN "first" ELSE "link"
      /\ ~ (menu.k = center'.k /\ Emptying)
      /\ Reading /\ Reading'
      /\ UNCHANGED <<queues, next, menu, net, arrived, shown>>
  BY AddNotifEffect DEF sharedVars, outsideVars
<1>2. center'.n = center.n
  BY DEF AddNotif, TypeInv, CenterTyped, CenterType
<1>3. PICK c \in 1..MaxSubs :
        /\ center.fd = c /\ SubscriptionOf(c) = c
        /\ Emptying => menu.k = c
        /\ ~ Emptying => MenuAt(c) = "look"
        /\ Taken(c) \in Nat /\ Len(shown[c]) \in Nat
        /\ queues[c].length \in Nat
        /\ InLine(arrived[c], Taken(c), shown[c], Len(shown[c]),
                  queues[c].head, queues[c].tail, queues[c].length, next,
                  MenuAt(c), menu.node, menu.n, center.pc, center.msg,
                  center.n)
  BY <1>1, ReadFacts
<1>4. center'.k = c /\ ~ Emptying /\ MenuAt(c) = "look"
  BY <1>1, <1>3
<1>5. InLine(arrived[c], Taken(c), shown[c], Len(shown[c]), queues[c].head,
             queues[c].tail, queues[c].length, next, "look", menu.node,
             menu.n, center'.pc, center.msg, center.n)
  <2>1. PICK t \in Nat, l \in Nat, s \in Nat, p \in {"first", "link"} :
          /\ t = Taken(c) /\ l = queues[c].length /\ s = Len(shown[c])
          /\ p = center'.pc
    BY <1>1, <1>3
  <2>2. t \in Nat /\ l \in Nat /\ s \in Nat /\ p \in {"first", "link"}
    BY <2>1
  <2>3. p = "first" <=> l = 0
    BY <1>1, <1>4, <2>1
  <2>4. InLine(arrived[c], t, shown[c], s, queues[c].head, queues[c].tail, l,
               next, "look", menu.node, menu.n, "add", center.msg, center.n)
    BY <1>1, <1>3, <1>4, <2>1
  <2>5. InLine(arrived[c], t, shown[c], s, queues[c].head, queues[c].tail, l,
               next, "look", menu.node, menu.n, p, center.msg, center.n)
    BY <2>2, <2>3, <2>4, BeginsToEnqueue
  <2> QED
    BY <2>1, <2>5
<1>6. MenuAt(c)' = "look"
  BY <1>1, <1>4 DEF MenuAt, Emptying
<1> QED
  BY <1>1, <1>2, <1>3, <1>5, <1>6, KeptStays

LEMMA LastOfQueue ==
  ASSUME NEW A, NEW t \in Nat, NEW S, NEW s \in Nat, NEW head, NEW tail,
         NEW length \in Nat, NEW nx, NEW node, NEW n, NEW msg, NEW cn,
         InLine(A, t, S, s, head, tail, length, nx, "look", node, n, "link",
                msg, cn)
  PROVE  s + 1 \in 1..(t - 1) /\ head = A[s + 1] /\ tail = A[t - 1]
<1>1. /\ Tailed(t, "link") = t - 1 /\ Counting(t, "link") = t - 1
      /\ Left(s, "look") = s /\ One("look" = "show") = 0
  BY DEF Tailed, Counting, Left, One
<1>2. length # 0 /\ length + s = t - 1
  BY <1>1 DEF InLine, Counts
<1>3. s < t - 1
  BY <1>2
<1> QED
  BY <1>1, <1>3 DEF InLine, Chained

LEMMA LinkKept ==
  ASSUME TypeInv, OrderInv, JoinInv, KeptInv, Good, Link
  PROVE  KeptInv'
<1>1. /\ Enqueuing /\ center.pc = "link" /\ center'.pc = "tail"
      /\ center'.fd = center.fd /\ center'.msg = center.msg
      /\ Target.tail \in Msgs
      /\ \A m \in Msgs : m # Target.tail => next'[m] = next[m]
      /\ Target.tail \notin freed => next'[Target.tail] = center.msg
      /\ UNCHANGED <<queues, menu, net, arrived, shown>>
  BY LinkEffect DEF outsideVars
<1>2. center'.n = center.n
  BY DEF Link, Goto, TypeInv, CenterTyped, CenterType
<1>3. Reading /\ ~ Emptying
  BY <1>1, EnqueuingFacts
<1>4. PICK c \in 1..MaxSubs :
        /\ center.fd = c /\ center.k = c /\ c \in DOMAIN queues
        /\ Taken(c) \in Nat /\ Len(shown[c]) \in Nat
        /\ Taken(c) <= Len(arrived[c]) /\ queues[c].length \in Nat
        /\ InLine(arrived[c], Taken(c), shown[c], Len(shown[c]),
                  queues[c].head, queues[c].tail, queues[c].length, next,
                  "look", menu.node, menu.n, center.pc, center.msg, center.n)
  BY <1>1, EnqueuingFacts
<1>5. PICK t \in Nat, l \in Nat, s \in Nat :
        t = Taken(c) /\ l = queues[c].length /\ s = Len(shown[c])
  BY <1>4
<1>6. t \in Nat /\ l \in Nat /\ s \in Nat
  BY <1>5
<1>7. InLine(arrived[c], t, shown[c], s, queues[c].head, queues[c].tail, l,
             next, "look", menu.node, menu.n, "link", center.msg, center.n)
  BY <1>1, <1>4, <1>5
<1>8. /\ s + 1 \in 1..(t - 1) /\ queues[c].head = arrived[c][s + 1]
      /\ queues[c].tail = arrived[c][t - 1]
  <2>1. s + 1 \in 1..(t - 1)
    BY <1>6, <1>7, LastOfQueue
  <2>2. queues[c].head = arrived[c][s + 1]
    BY <1>6, <1>7, LastOfQueue
  <2>3. queues[c].tail = arrived[c][t - 1]
    BY <1>6, <1>7, LastOfQueue
  <2> QED
    BY <2>1, <2>2, <2>3
<1>9. /\ \A i \in 1..t : arrived[c][i] \in Msgs
      /\ \A i, j \in 1..t : i < j => arrived[c][i] < arrived[c][j]
  <2>1. \A i \in 1..t : i \in 1..Len(arrived[c])
    BY <1>4, <1>5, CameRising
  <2> QED
    BY <2>1, CameRising
<1>10. queues[c].tail \notin freed
  <2>1. /\ t - 1 \in 1..t /\ s + 1 \in 1..t /\ s + 1 <= t - 1
    BY <1>6, <1>8
  <2>2. queues[c].head \in Nat /\ queues[c].tail \in Nat
        /\ queues[c].head # NULL /\ queues[c].head <= queues[c].tail
    <3>1. queues[c].head \in Msgs /\ queues[c].tail \in Msgs
      BY <1>8, <1>9, <2>1
    <3>2. \A x \in Msgs : x \in Nat /\ x # NULL
      BY TypeFacts DEF Msgs, NULL
    <3>3. s + 1 = t - 1 \/ s + 1 < t - 1
      BY <1>6, <2>1
    <3>4. queues[c].head = queues[c].tail \/ queues[c].head < queues[c].tail
      BY <1>8, <1>9, <2>1, <3>3
    <3>5. queues[c].head \in Nat /\ queues[c].tail \in Nat
          /\ queues[c].head # NULL
      BY <3>1, <3>2
    <3> QED
      BY <3>4, <3>5
  <2>3. \A m \in freed : m < queues[c].head
    BY <1>4, <2>2 DEF OrderInv, HeadsRise
  <2> QED
    BY <2>2, <2>3
<1>11. Pointed(arrived[c], t, queues[c].tail, center.msg, next, next')
  <2>1. \A i \in 1..(t - 1) : i \in 1..t
    BY <1>6
  <2>2. \A i \in 1..(t - 1) : arrived[c][i] # queues[c].tail =>
          next'[arrived[c][i]] = next[arrived[c][i]]
    BY <1>1, <1>4, <1>9, <2>1 DEF Target
  <2>3. \A i \in 1..(t - 2) : arrived[c][i] # arrived[c][t - 1]
    <3> SUFFICES ASSUME NEW i \in 1..(t - 2)
                 PROVE  arrived[c][i] # arrived[c][t - 1]
      OBVIOUS
    <3>1. i \in 1..t /\ t - 1 \in 1..t /\ i < t - 1
      BY <1>6
    <3>2. arrived[c][i] < arrived[c][t - 1] /\ arrived[c][i] \in Nat
      BY <1>9, <3>1, TypeFacts DEF Msgs
    <3> QED
      BY <3>2
  <2>4. next'[queues[c].tail] = center.msg
    BY <1>1, <1>4, <1>10 DEF Target
  <2> QED
    BY <2>2, <2>3, <2>4 DEF Pointed
<1>12. InLine(arrived[c], t, shown[c], s, queues[c].head, queues[c].tail, l,
              next', "look", menu.node, menu.n, "tail", center.msg, center.n)
  BY <1>6, <1>7, <1>11, NextLinked
<1>13. MenuAt(c)' = "look" /\ Reading'
  BY <1>1, <1>3 DEF MenuAt, Emptying, Reading
<1> QED
  BY <1>1, <1>2, <1>3, <1>4, <1>5, <1>12, <1>13, KeptStays

LEMMA ReceiveKept ==
  ASSUME TypeInv, OrderInv, JoinInv, KeptInv, Good, Receive
  PROVE  KeptInv'
<1>1. /\ center.pc = "recv" /\ center'.pc = "add" /\ center'.fd = center.fd
      /\ center'.msg = net[center.fd][1]
      /\ Len(net[center.fd]) \in Nat \ {0}
      /\ DOMAIN net' = DOMAIN net
      /\ Len(net'[center.fd]) = Len(net[center.fd]) - 1
      /\ DOMAIN net'[center.fd] = 1..(Len(net[center.fd]) - 1)
      /\ \A i \in 1..(Len(net[center.fd]) - 1) :
           net'[center.fd][i] = net[center.fd][i + 1]
      /\ \A e \in DOMAIN net : e # center.fd => net'[e] = net[e]
      /\ UNCHANGED <<queues, next, menu, arrived, shown>>
  BY ReceiveEffect DEF sharedVars
<1>2. center'.n = center.n
  BY DEF Receive, TypeInv, CenterTyped, CenterType
<1>3. Reading /\ Reading'
  BY <1>1 DEF Reading
<1>4. PICK c \in 1..MaxSubs :
        /\ center.fd = c /\ c \in DOMAIN net
        /\ Taken(c) \in Nat /\ Taken(c) <= Len(arrived[c])
        /\ Len(shown[c]) \in Nat
        /\ InLine(arrived[c], Taken(c), shown[c], Len(shown[c]),
                  queues[c].head, queues[c].tail, queues[c].length, next,
                  MenuAt(c), menu.node, menu.n, center.pc, center.msg,
                  center.n)
  BY <1>3, ReadFacts
<1>5. PICK t \in Nat, s \in Nat, w \in Nat, u \in Nat :
        /\ t = Taken(c) /\ s = Len(shown[c]) /\ Len(net[c]) = w /\ u = t + 1
  BY <1>1, <1>4
<1>6. Kept(c)
  BY <1>3, <1>4 DEF KeptInv
<1>7. /\ Len(arrived[c]) \in Nat /\ t = Len(arrived[c]) - w /\ w # 0
      /\ w \in Nat /\ u = t + 1
  <2>1. Len(arrived[c]) \in Nat
    BY CameRising
  <2> QED
    BY <1>1, <1>4, <1>5, <2>1 DEF Taken
<1>8. \A i \in 1..w : net[c][i] = arrived[c][t + i]
  <2>1. DOMAIN net[c] = 1..w
    <3>1. net[c] \in Seq(Msgs)
      BY <1>4, TypeFacts
    <3> QED
      BY <1>5, <3>1, LenProperties
  <2> QED
    BY <1>5, <1>6, <2>1 DEF Kept
<1>9. Taken(c)' = u /\ Len(net'[c]) <= Len(arrived'[c])
  <2>1. Len(net'[c]) = w - 1 /\ arrived' = arrived
    BY <1>1, <1>4, <1>5
  <2> QED
    BY <1>7, <2>1 DEF Taken
<1>10. \A i \in DOMAIN net'[c] : net'[c][i] = arrived'[c][u + i]
  <2> SUFFICES ASSUME NEW i \in 1..(w - 1)
               PROVE  net'[c][i] = arrived[c][u + i]
    BY <1>1, <1>4, <1>5
  <2>1. i \in 1..w /\ i + 1 \in 1..w /\ t + (i + 1) = u + i
    BY <1>5
  <2>2. net'[c][i] = net[c][i + 1]
    BY <1>1, <1>4, <1>5
  <2> QED
    BY <1>8, <2>1, <2>2
<1>11. center'.msg = arrived[c][u]
  <2>1. 1 \in 1..w /\ t + 1 = u
    BY <1>7
  <2> QED
    BY <1>1, <1>4, <1>8, <2>1
<1>12. MenuAt(c)' = MenuAt(c)
  BY <1>1 DEF MenuAt, Emptying
<1>13. InLine(arrived[c], u, shown[c], s, queues[c].head, queues[c].tail,
              queues[c].length, next, MenuAt(c), menu.node, menu.n, "add",
              center'.msg, center.n)
  <2>1. t \in Nat /\ s \in Nat /\ u \in Nat /\ u = t + 1
    BY <1>5
  <2>2. InLine(arrived[c], t, shown[c], s, queues[c].head, queues[c].tail,
               queues[c].length, next, MenuAt(c), menu.node, menu.n, "recv",
               center.msg, center.n)
    BY <1>1, <1>4, <1>5
  <2> QED
    BY <1>11, <2>1, <2>2, TakesNext
<1>14. Kept(c)'
  BY <1>1, <1>2, <1>5, <1>9, <1>10, <1>12, <1>13 DEF Kept
<1>15. \A fd \in DOMAIN net' : fd # center'.fd => net'[fd] = arrived'[fd]
  BY <1>1 DEF KeptInv
<1> QED
  BY <1>1, <1>3, <1>4, <1>14, <1>15 DEF KeptInv

LEMMA NothingYet ==
  ASSUME NEW A, NEW S, NEW head, NEW tail, NEW nx, NEW node, NEW n, NEW msg,
         NEW cn
  PROVE  InLine(A, 0, S, 0, head, tail, 0, nx, "look", node, n, "recv", msg,
                cn)
<1>1. /\ One("recv" # "recv") = 0 /\ One("look" = "show") = 0
      /\ One("recv" \in {"add", "first", "link", "tail"}) = 0
      /\ One("recv" \in {"add", "first", "link"}) = 0
      /\ One("look" \in {"uncount", "uncounted", "show"}) = 0
  BY DEF One
<1>2. 0 - 0 = 0 /\ 0 + 0 = 0
  OBVIOUS
<1>3. /\ Tailed(0, "recv") = 0 /\ Linked(0, "recv") = 0
      /\ Counting(0, "recv") = 0 /\ Left(0, "look") = 0
  BY <1>1, <1>2 DEF Tailed, Linked, Counting, Left
<1> QED
  BY <1>1, <1>3 DEF InLine, Chained, Counts, Holding

LEMMA PollKept ==
  ASSUME TypeInv, OrderInv, JoinInv, KeptInv, Good, Poll
  PROVE  KeptInv'
<1>1. /\ UNCHANGED <<queues, next, menu, net, arrived, shown>>
      /\ center.pc = "poll" /\ center'.pc = "recv"
      /\ center'.fd \in DOMAIN net /\ center.k = 0
      /\ \E k \in DOMAIN subs : subs[k].fd = center'.fd
  BY PollEffect DEF sharedVars, outsideVars
<1>2. ~ Reading /\ Reading'
  BY <1>1 DEF Reading
<1>3. PICK c \in DOMAIN subs : center'.fd = c
  <2>1. PICK k \in DOMAIN subs : subs[k].fd = center'.fd
    BY <1>1
  <2>2. subs[k].fd = k
    BY DEF JoinInv, Good
  <2> QED
    BY <2>1, <2>2
<1>4. c \in DOMAIN queues /\ c \in DOMAIN shown /\ c # 0 /\ c \in DOMAIN net
      /\ c \in 1..MaxSubs
  <2>1. c \in 1..Len(subs) /\ c \in DOMAIN net
    BY <1>1, <1>3, TypeFacts
  <2>2. /\ Len(subs) \in 0..Len(queues) /\ Len(queues) \in 0..MaxSubs
        /\ MaxSubs \in Nat
    BY TypeFacts
  <2>3. c \in 1..Len(queues) /\ c \in 1..MaxSubs /\ c # 0
    BY <2>1, <2>2
  <2> QED
    BY <2>1, <2>3, TypeFacts
<1>5. queues[c] = Empty /\ shown[c] = <<>>
  BY <1>1, <1>4 DEF TypeInv, OneQueue
<1>6. \A fd \in DOMAIN net : net[fd] = arrived[fd]
  <2>1. \A fd \in DOMAIN net : fd # 0
    BY TypeFacts
  <2> QED
    BY <1>2, <2>1 DEF KeptInv
<1>7. Len(net[c]) \in Nat /\ net[c] = arrived[c] /\ Taken(c)' = 0
  <2>1. Len(net[c]) \in Nat
    BY <1>4, TypeFacts, LenProperties
  <2> QED
    BY <1>1, <1>4, <1>6, <2>1 DEF Taken
<1>8. MenuAt(c)' = "look"
  <2>1. menu.k # 0 \/ ~ Emptying
    BY TypeFacts DEF TypeInv, MenuTyped
  <2>2. Emptying => menu.k = center.k
    BY DEF OrderInv, HeadsRise
  <2> QED
    BY <1>1, <2>1, <2>2 DEF MenuAt, Emptying
<1>9. Kept(c)'
  <2>1. /\ queues'[c].length = 0 /\ shown'[c] = <<>> /\ Len(shown'[c]) = 0
    BY <1>1, <1>5 DEF Empty
  <2>2. InLine(arrived'[c], Taken(c)', shown'[c], Len(shown'[c]),
               queues'[c].head, queues'[c].tail, queues'[c].length, next',
               MenuAt(c)', menu'.node, menu'.n, center'.pc, center'.msg,
               center'.n)
    BY <1>1, <1>7, <1>8, <2>1, NothingYet
  <2>3. \A i \in DOMAIN net'[c] : net'[c][i] = arrived'[c][Taken(c)' + i]
    <3>1. net[c] \in Seq(Msgs) /\ DOMAIN net[c] = 1..Len(net[c])
      BY <1>4, TypeFacts, LenProperties
    <3>2. \A i \in 1..Len(net[c]) : 0 + i = i
      BY <1>7
    <3> QED
      BY <1>1, <1>7, <3>1, <3>2
  <2>4. Len(net'[c]) <= Len(arrived'[c])
    BY <1>1, <1>7
  <2> QED
    BY <2>2, <2>3, <2>4 DEF Kept
<1>10. \A fd \in DOMAIN net' : net'[fd] = arrived'[fd]
  BY <1>1, <1>6
<1> QED
  BY <1>2, <1>3, <1>9, <1>10 DEF KeptInv

LEMMA SubscribeKept ==
  ASSUME TypeInv, OrderInv, JoinInv, KeptInv, Good, NEW joined \in BOOLEAN,
         Subscribe(joined)
  PROVE  KeptInv'
<1>1. /\ UNCHANGED <<queues, next, center, arrived, shown>>
      /\ menu.pc = "idle" /\ menu'.pc = "notif" /\ menu'.node = menu.node
      /\ menu'.n = menu.n
      /\ Len(queues) + 1 \in 1..MaxSubs /\ Len(sockets) <= Len(queues)
      /\ \A fd \in DOMAIN net : fd \in DOMAIN net' /\ net'[fd] = net[fd]
      /\ \/ net' = net
         \/ /\ DOMAIN net' = 1..(Len(sockets) + 1)
            /\ net'[Len(sockets) + 1] = <<>>
  BY SubscribeEffect DEF sharedVars
<1>2. Reading' <=> Reading
  BY <1>1 DEF Reading
<1>3. \A fd \in DOMAIN net' : fd \in DOMAIN net \/ net'[fd] = arrived[fd]
  <2> SUFFICES ASSUME NEW fd \in DOMAIN net', fd \notin DOMAIN net
               PROVE  net'[fd] = arrived[fd]
    OBVIOUS
  <2>1. /\ DOMAIN net = 1..Len(sockets) /\ Len(sockets) \in Nat
        /\ DOMAIN sockets = 1..Len(sockets)
        /\ DOMAIN arrived = 1..MaxSubs /\ MaxSubs \in Nat
        /\ Len(queues) \in Nat
    BY TypeFacts
  <2>2. DOMAIN net' = 1..(Len(sockets) + 1)
    BY <1>1
  <2>3. fd = Len(sockets) + 1 /\ net'[fd] = <<>>
    BY <1>1, <2>1, <2>2
  <2>4. fd \in DOMAIN arrived /\ fd \notin DOMAIN sockets
    BY <1>1, <2>1, <2>3
  <2>5. arrived[fd] = <<>>
    BY <2>4 DEF JoinInv, Good
  <2> QED
    BY <2>3, <2>5
<1>4. \A fd \in DOMAIN net' : fd # center'.fd => net'[fd] = arrived'[fd]
  BY <1>1, <1>3 DEF KeptInv
<1>5. CASE ~ Reading
  BY <1>1, <1>2, <1>4, <1>5 DEF KeptInv
<1>6. CASE Reading
  <2>1. PICK c \in 1..MaxSubs : center.fd = c /\ c \in DOMAIN net
    BY <1>6, ReadFacts
  <2>2. Kept(c) /\ net'[c] = net[c]
    BY <1>1, <1>6, <2>1 DEF KeptInv
  <2>3. MenuAt(c)' = MenuAt(c)
    BY <1>1 DEF MenuAt, Emptying
  <2>4. Taken(c)' = Taken(c)
    BY <1>1, <2>2 DEF Taken
  <2>5. Kept(c)'
    BY <1>1, <2>2, <2>3, <2>4 DEF Kept
  <2> QED
    BY <1>1, <1>2, <1>4, <1>6, <2>1, <2>5 DEF KeptInv
<1> QED
  BY <1>5, <1>6

LEMMA ArriveKept ==
  ASSUME TypeInv, OrderInv, JoinInv, KeptInv, Good, NEW fd \in DOMAIN sockets,
         Arrive(fd)
  PROVE  KeptInv'
<1>1. sockets[fd] = fd
  BY DEF JoinInv, Good
<1>2. PICK m \in Msgs :
        /\ fd \in DOMAIN net /\ fd \in 1..MaxSubs /\ DOMAIN net' = DOMAIN net
        /\ net'[fd] = Append(net[fd], m)
        /\ \A e \in DOMAIN net : e # fd => net'[e] = net[e]
        /\ arrived'[fd] = Append(arrived[fd], m)
        /\ \A k \in 1..MaxSubs : k # fd => arrived'[k] = arrived[k]
        /\ UNCHANGED <<queues, next, menu, center, shown>>
  <2>1. PICK m \in Msgs :
          /\ fd \in DOMAIN net /\ sockets[fd] \in 1..MaxSubs
          /\ DOMAIN net' = DOMAIN net
          /\ net'[fd] = Append(net[fd], m)
          /\ \A e \in DOMAIN net : e # fd => net'[e] = net[e]
          /\ arrived'[sockets[fd]] = Append(arrived[sockets[fd]], m)
          /\ \A k \in 1..MaxSubs : k # sockets[fd] => arrived'[k] = arrived[k]
          /\ UNCHANGED <<sharedVars, menu, center, shown>>
    BY ArriveEffect
  <2>2. UNCHANGED <<queues, next, menu, center, shown>>
    BY <2>1 DEF sharedVars
  <2>3. /\ fd \in 1..MaxSubs /\ arrived'[fd] = Append(arrived[fd], m)
        /\ \A k \in 1..MaxSubs : k # fd => arrived'[k] = arrived[k]
    BY <1>1, <2>1
  <2>4. WITNESS m \in Msgs
  <2> QED
    BY <2>1, <2>2, <2>3
<1>3. \A e \in DOMAIN net : e \in 1..MaxSubs
  <2>1. DOMAIN net = DOMAIN sockets
        /\ \A e \in DOMAIN sockets : sockets[e] \in 1..MaxSubs
    BY TypeFacts
  <2>2. \A e \in DOMAIN sockets : sockets[e] = e
    BY DEF JoinInv, Good
  <2> QED
    BY <2>1, <2>2
<1>4. Reading' <=> Reading
  BY <1>2 DEF Reading
<1>5. \A e \in DOMAIN net' : e # center'.fd => net'[e] = arrived'[e]
  BY <1>2, <1>3 DEF KeptInv
<1>6. CASE ~ Reading
  BY <1>2, <1>4, <1>5, <1>6 DEF KeptInv
<1>7. CASE Reading
  <2>1. PICK c \in 1..MaxSubs :
          /\ center.fd = c /\ c \in DOMAIN net
          /\ Taken(c) \in Nat /\ Taken(c) <= Len(arrived[c])
          /\ Len(shown[c]) \in Nat /\ queues[c].length \in Nat
    BY <1>7, ReadFacts
  <2>2. Kept(c)
    BY <1>7, <2>1 DEF KeptInv
  <2>3. MenuAt(c)' = MenuAt(c)
    BY <1>2 DEF MenuAt, Emptying
  <2>4. CASE c # fd
    <3>1. net'[c] = net[c] /\ arrived'[c] = arrived[c]
      BY <1>2, <2>1, <2>4
    <3>2. Taken(c)' = Taken(c)
      BY <3>1 DEF Taken
    <3>3. Kept(c)'
      BY <1>2, <2>2, <2>3, <3>1, <3>2 DEF Kept
    <3> QED
      BY <1>2, <1>4, <1>5, <1>7, <2>1, <3>3 DEF KeptInv
  <2>5. CASE c = fd
    <3>1. /\ net[c] \in Seq(Msgs) /\ arrived[c] \in Seq(Msgs)
          /\ DOMAIN net[c] = 1..Len(net[c])
          /\ Len(net[c]) \in Nat /\ Len(arrived[c]) \in Nat
      BY <2>1, TypeFacts, LenProperties
    <3>2. PICK w \in Nat, a \in Nat, t \in Nat, s \in Nat, l \in Nat :
            /\ Len(net[c]) = w /\ Len(arrived[c]) = a /\ Taken(c) = t
            /\ Len(shown[c]) = s /\ queues[c].length = l
      <4>1. /\ Len(net[c]) \in Nat /\ Len(arrived[c]) \in Nat
            /\ Taken(c) \in Nat /\ Len(shown[c]) \in Nat
            /\ queues[c].length \in Nat
        BY <2>1, <3>1
      <4> QED
        BY <4>1, Zenon
    <3>3. /\ t \in Nat /\ s \in Nat /\ l \in Nat /\ w \in Nat /\ a \in Nat
          /\ t = a - w /\ w <= a
      BY <2>2, <3>2 DEF Taken, Kept
    <3>4. net'[c] = Append(net[c], m) /\ arrived'[c] = Append(arrived[c], m)
      BY <1>2, <2>5
    <3>5. /\ Len(net'[c]) = w + 1 /\ DOMAIN net'[c] = 1..(w + 1)
          /\ \A i \in 1..w : net'[c][i] = net[c][i]
          /\ net'[c][w + 1] = m
      <4>1. /\ Append(net[c], m) \in Seq(Msgs)
            /\ Len(Append(net[c], m)) = Len(net[c]) + 1
            /\ \A i \in 1..Len(net[c]) : Append(net[c], m)[i] = net[c][i]
            /\ Append(net[c], m)[Len(net[c]) + 1] = m
        BY <3>1, AppendProperties
      <4>2. DOMAIN Append(net[c], m) = 1..(Len(net[c]) + 1)
        BY <4>1, LenProperties
      <4> QED
        BY <3>2, <3>4, <4>1, <4>2
    <3>6. /\ Len(arrived'[c]) = a + 1
          /\ \A i \in 1..a : arrived'[c][i] = arrived[c][i]
          /\ arrived'[c][a + 1] = m
      <4>1. /\ Len(Append(arrived[c], m)) = Len(arrived[c]) + 1
            /\ \A i \in 1..Len(arrived[c]) :
                 Append(arrived[c], m)[i] = arrived[c][i]
            /\ Append(arrived[c], m)[Len(arrived[c]) + 1] = m
        BY <3>1, AppendProperties
      <4> QED
        BY <3>2, <3>4, <4>1
    <3>7. Taken(c)' = t /\ Len(net'[c]) <= Len(arrived'[c])
      BY <3>3, <3>5, <3>6 DEF Taken
    <3>8. \A i \in 1..w : net[c][i] = arrived[c][t + i]
      BY <2>2, <3>1, <3>2 DEF Kept
    <3>9. \A i \in DOMAIN net'[c] : net'[c][i] = arrived'[c][t + i]
      <4> SUFFICES ASSUME NEW i \in 1..(w + 1)
                   PROVE  net'[c][i] = arrived'[c][t + i]
        BY <3>5
      <4>1. CASE i = w + 1
        <5>1. t + (w + 1) = a + 1
          BY <3>3
        <5> QED
          BY <3>5, <3>6, <4>1, <5>1
      <4>2. CASE i # w + 1
        <5>1. i \in 1..w /\ t + i \in 1..a
          BY <3>3, <4>2
        <5> QED
          BY <3>5, <3>6, <3>8, <5>1
      <4> QED
        BY <4>1, <4>2
    <3>10. SameUpTo(arrived[c], arrived'[c], t)
      <4>1. \A i \in 1..t : i \in 1..a
        BY <3>3
      <4> QED
        BY <3>6, <4>1 DEF SameUpTo
    <3>11. InLine(arrived[c], t, shown[c], s, queues[c].head, queues[c].tail,
                  l, next, MenuAt(c), menu.node, menu.n, center.pc,
                  center.msg, center.n)
      BY <2>2, <3>2 DEF Kept
    <3>12. InLine(arrived'[c], t, shown[c], s, queues[c].head,
                  queues[c].tail, l, next, MenuAt(c), menu.node, menu.n,
                  center.pc, center.msg, center.n)
      BY <3>3, <3>10, <3>11, ComesLater
    <3>13. Kept(c)'
      BY <1>2, <2>3, <3>2, <3>7, <3>9, <3>12 DEF Kept
    <3> QED
      BY <1>2, <1>4, <1>5, <1>7, <2>1, <3>13 DEF KeptInv
  <2> QED
    BY <2>4, <2>5
<1> QED
  BY <1>6, <1>7

LEMMA KeptStep ==
  ASSUME TypeInv, OrderInv, JoinInv, KeptInv, [Next]_vars
  PROVE  KeptInv'
<1> SUFFICES ASSUME Good' PROVE KeptInv'
  BY DEF KeptInv
<1>1. Good /\ up' /\ ~ overlap'
  BY GoodBefore DEF Good
<1>2. CASE User \/ Wake \/ \E fd \in DOMAIN sockets : Arrive(fd)
  BY <1>1, <1>2, SubscribeKept, PrintingKept, WaitingKept, ArriveKept DEF User
<1>3. CASE MenuStep
  BY <1>1, <1>3, AddQueueKept, AddSubscriptionKept, PrintingKept, DequeueKept,
     UnlinkKept, UncountKept, UncountedKept, ShowKept DEF MenuStep
<1>4. CASE CenterStep
  <2>1. ~ EnqueueKills
    BY <1>1 DEF EnqueueKills, Killed
  <2>2. Enqueuing => InPlace
    <3>1. Enqueuing => center.k \in DOMAIN subs
      BY <1>1, EnqueuingFacts
    <3>2. \A k \in DOMAIN subs : subs[k].place \in 0..place
      BY TypeFacts
    <3>3. place = 0
      BY <1>1 DEF Good
    <3> QED
      BY <3>1, <3>2, <3>3 DEF InPlace
  <2>3. ~ EnqueueElsewhere
    BY <2>2 DEF EnqueueElsewhere
  <2> QED
    BY <1>1, <1>4, <2>1, <2>3, WaitingKept, PollKept, ReceiveKept,
       AddNotifKept, WriteKept, LinkKept, CountKept DEF CenterStep
<1>5. CASE UNCHANGED vars
  BY <1>5 DEF vars, sharedVars, tableVars, outsideVars, KeptInv, Good, Joined,
     Reading, Kept, InLine, Chained, Counts, Holding, MenuAt, Taken, Emptying
<1> QED
  BY <1>2, <1>3, <1>4, <1>5 DEF Next

LEMMA InitKeptInv == Init => KeptInv
BY DEF Init, KeptInv, Reading

(* While no queue has moved and none was filled while it was emptied, what *)
(* came for the feed that is read is printed, linked from the head of its  *)
(* queue, in the hands of a thread or still at the socket.                 *)
THEOREM KeptCorrect == Spec => [](TypeInv /\ OrderInv /\ JoinInv /\ KeptInv)
<1>1. Init => KeptInv
  BY InitKeptInv
<1>2. TypeInv /\ OrderInv /\ JoinInv /\ KeptInv /\ [Next]_vars => KeptInv'
  BY KeptStep
<1> QED
  BY <1>1, <1>2, JoinCorrect, PTL DEF Spec

-----------------------------------------------------------------------------
(* The queue of a feed at rest, read from its head, and what surrounds it *)

Following(L, head, nx) ==
  LET node[i \in 1..L] == IF i = 1 THEN head ELSE nx[node[i - 1]] IN node

Leads(B, L, head, nx) ==
  /\ B = [i \in 1..L |-> B[i]]
  /\ L # 0 => B[1] = head
  /\ \A i \in 1..L : i # 1 => B[i] = nx[B[i - 1]]

(* A list followed from its head is B when B begins there and each of its  *)
(* nodes points to the next.                                               *)
LEMMA ListFollowed ==
  ASSUME NEW L \in Nat, NEW head, NEW nx, NEW B, Leads(B, L, head, nx)
  PROVE  Following(L, head, nx) = B
<1> DEFINE Follows(f) == f = [i \in 1..L |-> IF i = 1 THEN head
                                             ELSE nx[f[i - 1]]]
           g == CHOOSE f : Follows(f)
<1>1. Follows(B)
  <2>1. \A i \in 1..L : B[i] = IF i = 1 THEN head ELSE nx[B[i - 1]]
    <3> SUFFICES ASSUME NEW i \in 1..L
                 PROVE  B[i] = IF i = 1 THEN head ELSE nx[B[i - 1]]
      OBVIOUS
    <3>1. i = 1 => L # 0
      OBVIOUS
    <3>2. i = 1 => B[i] = head
      BY <3>1 DEF Leads
    <3>3. i # 1 => B[i] = nx[B[i - 1]]
      BY DEF Leads
    <3> QED
      BY <3>2, <3>3
  <2>2. [i \in 1..L |-> B[i]]
          = [i \in 1..L |-> IF i = 1 THEN head ELSE nx[B[i - 1]]]
    BY <2>1
  <2> QED
    BY <2>2 DEF Leads
<1>2. Follows(g)
  <2> HIDE DEF Follows
  <2> QED
    BY <1>1
<1>3. /\ g = [i \in 1..L |-> g[i]]
      /\ \A i \in 1..L : g[i] = IF i = 1 THEN head ELSE nx[g[i - 1]]
  <2> HIDE DEF g
  <2> QED
    BY <1>2
<1> HIDE DEF g
<1>4. \A i \in 1..L : g[i] = B[i]
  <2> DEFINE T == {i \in 1..L : g[i] # B[i]}
  <2>1. SUFFICES ASSUME T # {} PROVE FALSE
    OBVIOUS
  <2>2. T \subseteq Nat
    OBVIOUS
  <2> HIDE DEF T
  <2>3. PICK m \in T : \A n \in T : m <= n
    BY <2>1, <2>2, LeastNumber
  <2>4. m \in 1..L /\ g[m] # B[m]
    BY <2>3 DEF T
  <2>5. CASE m = 1
    <3>1. L # 0
      BY <2>4
    <3>2. B[m] = head
      BY <2>5, <3>1 DEF Leads
    <3> QED
      BY <1>3, <2>4, <2>5, <3>2
  <2>6. CASE m # 1
    <3>1. m - 1 \in 1..L /\ ~ (m <= m - 1)
      BY <2>4, <2>6
    <3>2. m - 1 \notin T
      BY <2>3, <3>1
    <3>3. g[m - 1] = B[m - 1]
      BY <3>1, <3>2 DEF T
    <3>4. g[m] = nx[g[m - 1]]
      BY <1>3, <2>4, <2>6
    <3>5. B[m] = nx[B[m - 1]]
      BY <2>4, <2>6 DEF Leads
    <3> QED
      BY <2>4, <3>3, <3>4, <3>5
  <2> QED
    BY <2>5, <2>6
<1>5. g = B
  BY <1>3, <1>4 DEF Leads
<1> QED
  BY <1>5 DEF g, Following

Continues(A, s, l, head, nx) ==
  /\ l # 0 => A[s + 1] = head
  /\ \A i \in 1..l : i # 1 => A[s + i] = nx[A[s + (i - 1)]]
Resting(A, t, S, s, head, length, nx) ==
  /\ s + length = t /\ \A i \in 1..s : S[i] = A[i]
  /\ Continues(A, s, length, head, nx)

(* At rest the queue links, in the order in which they came, the messages  *)
(* that were read and are not printed.                                     *)
LEMMA AtRestFacts ==
  ASSUME NEW A, NEW t \in Nat, NEW S, NEW s \in Nat, NEW head, NEW tail,
         NEW length \in Nat, NEW nx, NEW node, NEW n, NEW msg, NEW cn,
         InLine(A, t, S, s, head, tail, length, nx, "look", node, n, "recv",
                msg, cn)
  PROVE  Resting(A, t, S, s, head, length, nx)
<1>1. /\ Tailed(t, "recv") = t /\ Counting(t, "recv") = t
      /\ Linked(t, "recv") = t
      /\ Left(s, "look") = s /\ One("look" = "show") = 0
  BY DEF Tailed, Counting, Linked, Left, One
<1>2. s + length = t
  BY <1>1 DEF InLine, Counts
<1>3. length # 0 => A[s + 1] = head
  BY <1>1, <1>2 DEF InLine, Chained
<1>4. ASSUME NEW i \in 1..length, i # 1
      PROVE  A[s + i] = nx[A[s + (i - 1)]]
  <2>1. /\ s + (i - 1) \in 1..(t - 1) /\ s < s + (i - 1)
        /\ (s + (i - 1)) + 1 = s + i
    BY <1>2, <1>4
  <2> QED
    BY <1>1, <2>1 DEF InLine, Chained
<1> QED
  BY <1>1, <1>2, <1>3, <1>4 DEF InLine, Chained, Resting, Continues

Lies(k, A, s, l) ==
  /\ s \in Nat /\ l \in Nat
  /\ queues[k].length = l /\ Continues(A, s, l, queues[k].head, next)
Piece(A, s, l) == [i \in 1..l |-> A[s + i]]
HoldsPiece(k, A, s, l) == Chain(k) = Piece(A, s, l)

LEMMA ChainAtRest ==
  ASSUME NEW k, NEW A, NEW s, NEW l, Lies(k, A, s, l)
  PROVE  HoldsPiece(k, A, s, l)
<1> DEFINE L == queues[k].length
           B == [i \in 1..L |-> A[s + i]]
           head == queues[k].head
<1> USE DEF Lies
<1>1. L \in Nat /\ B = [i \in 1..L |-> B[i]]
  OBVIOUS
<1>2. L # 0 => B[1] = head
  BY <1>1 DEF Continues
<1>3. \A i \in 1..L : i # 1 => B[i] = next[B[i - 1]]
  <2> SUFFICES ASSUME NEW i \in 1..L, i # 1
               PROVE  B[i] = next[B[i - 1]]
    OBVIOUS
  <2>1. i - 1 \in 1..L
    BY <1>1
  <2>2. A[s + i] = next[A[s + (i - 1)]]
    BY DEF Continues
  <2> QED
    BY <2>1, <2>2
<1>4. Following(L, head, next) = B
  <2>1. Leads(B, L, head, next)
    BY <1>1, <1>2, <1>3 DEF Leads
  <2> HIDE DEF L, B, head
  <2> QED
    BY <1>1, <2>1, ListFollowed
<1>5. Chain(k) = [i \in 1..L |-> Following(L, head, next)[i]]
  BY DEF Chain, Following
<1>6. Chain(k) = [i \in 1..L |-> B[i]]
  BY <1>4, <1>5
<1>7. B = Piece(A, s, l)
  BY DEF Piece
<1>8. Chain(k) = B
  <2> HIDE DEF B, L
  <2> QED
    BY <1>1, <1>6
<1> QED
  <2> HIDE DEF B, L
  <2> QED
    BY <1>7, <1>8 DEF HoldsPiece

LEMMA Middle ==
  ASSUME NEW T, NEW A \in Seq(T), NEW s \in Nat, NEW l \in Nat,
         s + l <= Len(A)
  PROVE  /\ [i \in 1..l |-> A[s + i]] \in Seq(T)
         /\ Len([i \in 1..l |-> A[s + i]]) = l
<1>1. \A i \in 1..l : A[s + i] \in T
  <2> SUFFICES ASSUME NEW i \in 1..l PROVE A[s + i] \in T
    OBVIOUS
  <2>1. s + i \in 1..Len(A)
    BY LenProperties
  <2> QED
    BY <2>1, ElementOfSeq
<1> QED
  BY <1>1

Glued(T, S, C, s, l) ==
  /\ S \o C \in Seq(T) /\ Len(S \o C) = s + l
  /\ \A i \in 1..(s + l) : (S \o C)[i] = IF i <= s THEN S[i] ELSE C[i - s]

LEMMA TwoParts ==
  ASSUME NEW T, NEW S \in Seq(T), NEW C \in Seq(T), NEW s \in Nat,
         NEW l \in Nat, Len(S) = s, Len(C) = l
  PROVE  Glued(T, S, C, s, l)
<1> SUFFICES
      ASSUME NEW X \in Seq(T), NEW Y \in Seq(T)
      PROVE  /\ X \o Y \in Seq(T) /\ Len(X \o Y) = Len(X) + Len(Y)
             /\ \A i \in 1..(Len(X) + Len(Y)) :
                  (X \o Y)[i] = IF i <= Len(X) THEN X[i] ELSE Y[i - Len(X)]
  BY DEF Glued
<1> QED
  BY ConcatProperties

(* The three parts of what came, put together. *)
Parts(A, S, C, N, s, l, w) ==
  /\ s \in Nat /\ l \in Nat /\ w \in Nat
  /\ S \in Seq(Msgs) /\ C \in Seq(Msgs) /\ N \in Seq(Msgs) /\ A \in Seq(Msgs)
  /\ Len(S) = s /\ Len(C) = l /\ Len(N) = w /\ Len(A) = s + l + w
  /\ \A i \in 1..s : S[i] = A[i]
  /\ \A i \in 1..l : C[i] = A[s + i]
  /\ \A i \in 1..w : N[i] = A[s + l + i]

Makes(S, C, N, A) == S \o C \o N = A

LEMMA Whole ==
  ASSUME NEW A, NEW S, NEW C, NEW N, NEW s, NEW l, NEW w,
         Parts(A, S, C, N, s, l, w)
  PROVE  Makes(S, C, N, A)
<1> DEFINE T == Msgs
<1>1. /\ s \in Nat /\ l \in Nat /\ w \in Nat
      /\ S \in Seq(T) /\ C \in Seq(T) /\ N \in Seq(T) /\ A \in Seq(T)
  BY DEF Parts
<1> HIDE DEF T
<1>2. Glued(T, S, C, s, l)
  BY <1>1, TwoParts DEF Parts
<1>3. Glued(T, S \o C, N, s + l, w)
  <2>1. PICK e \in Nat, D \in Seq(T) : e = s + l /\ D = S \o C
    <3>1. s + l \in Nat
      BY <1>1
    <3>2. S \o C \in Seq(T)
      BY <1>1, <1>2 DEF Glued, Parts
    <3> QED
      BY <3>1, <3>2, Zenon
  <2>2. D \in Seq(T) /\ e \in Nat /\ Len(D) = e
    BY <1>1, <1>2, <2>1 DEF Glued, Parts
  <2>3. Len(N) = w
    BY DEF Parts
  <2>4. Glued(T, D, N, e, w)
    BY <1>1, <2>2, <2>3, TwoParts
  <2> QED
    BY <2>1, <2>4
<1>4. \A i \in 1..(s + l + w) : (S \o C \o N)[i] = A[i]
  <2> SUFFICES ASSUME NEW i \in 1..(s + l + w)
               PROVE  (S \o C \o N)[i] = A[i]
    OBVIOUS
  <2>1. CASE i \in 1..s
    <3>1. i \in 1..(s + l) /\ i <= s /\ i <= s + l
      BY <1>1, <2>1
    <3> QED
      BY <1>2, <1>3, <2>1, <3>1 DEF Glued, Parts
  <2>2. CASE i \notin 1..s /\ i \in 1..(s + l)
    <3>1. i - s \in 1..l /\ s + (i - s) = i /\ ~ (i <= s) /\ i <= s + l
      BY <1>1, <2>2
    <3>2. C[i - s] = A[i]
      BY <3>1 DEF Parts
    <3> QED
      BY <1>2, <1>3, <2>2, <3>1, <3>2 DEF Glued, Parts
  <2>3. CASE i \notin 1..(s + l)
    <3>1. /\ i - (s + l) \in 1..w /\ s + l + (i - (s + l)) = i
          /\ ~ (i <= s + l)
      BY <1>1, <2>3
    <3>2. N[i - (s + l)] = A[i]
      BY <3>1 DEF Parts
    <3> QED
      BY <1>3, <3>1, <3>2 DEF Glued, Parts
  <2> QED
    BY <1>1, <2>1, <2>2, <2>3
<1> QED
  BY <1>1, <1>3, <1>4, SeqEqual DEF Glued, Parts, Makes

LEMMA KeptNothingLost ==
  ASSUME TypeInv, OrderInv, JoinInv, KeptInv
  PROVE  NothingLost
<1> SUFFICES ASSUME Good, NEW k \in DOMAIN subs, AtRest(k)
             PROVE  shown[k] \o Chain(k) \o net[subs[k].fd] = arrived[k]
  BY DEF NothingLost, Good
<1>1. subs[k].fd = k
  BY DEF JoinInv, Good
<1>2. k \in DOMAIN queues /\ k \in 1..MaxSubs /\ k \in Nat \ {0}
  <2>1. /\ k \in 1..Len(subs) /\ Len(subs) \in 0..Len(queues)
        /\ Len(queues) \in 0..MaxSubs /\ MaxSubs \in Nat
        /\ DOMAIN queues = 1..Len(queues)
    BY TypeFacts
  <2> QED
    BY <2>1
<1>3. k \in DOMAIN net
  <2>1. PICK fd \in DOMAIN sockets : sockets[fd] = k
    BY <1>2 DEF Good, Joined
  <2>2. sockets[fd] = fd
    BY DEF JoinInv, Good
  <2> QED
    BY <2>1, <2>2, TypeFacts
<1>4. /\ shown[k] \in Seq(Msgs) /\ net[k] \in Seq(Msgs)
      /\ arrived[k] \in Seq(Msgs)
      /\ DOMAIN net[k] = 1..Len(net[k])
      /\ Len(shown[k]) \in Nat /\ Len(net[k]) \in Nat
      /\ Len(arrived[k]) \in Nat /\ queues[k].length \in Nat
  BY <1>2, <1>3, TypeFacts, LenProperties
<1>5. PICK s \in Nat, l \in Nat, w \in Nat :
        Len(shown[k]) = s /\ queues[k].length = l /\ Len(net[k]) = w
  BY <1>4, Zenon
<1>6. /\ Len(arrived[k]) = s + l + w
      /\ \A i \in 1..w : net[k][i] = arrived[k][s + l + i]
      /\ Resting(arrived[k], s + l, shown[k], s, queues[k].head, l, next)
  <2>1. CASE k # center.fd
    <3>1. net[k] = arrived[k]
      BY <1>3, <2>1 DEF KeptInv
    <3>2. center.k # k
      <4>1. center.k # 0 => Reading /\ center.k = SubscriptionOf(center.fd)
        BY DEF TypeInv, OneQueue
      <4>2. Reading => SubscriptionOf(center.fd) = center.fd
        BY ReadFacts
      <4> QED
        BY <1>2, <2>1, <4>1, <4>2
    <3>3. queues[k] = Empty /\ shown[k] = <<>>
      BY <1>2, <3>2, TypeFacts DEF TypeInv, OneQueue
    <3>4. s = 0 /\ l = 0
      BY <1>5, <3>3 DEF Empty
    <3>5. \A i \in 1..w : 0 + 0 + i = i
      OBVIOUS
    <3>6. Len(arrived[k]) = 0 + 0 + w
      BY <1>5, <3>1
    <3>7. Resting(arrived[k], s + l, shown[k], s, queues[k].head, l, next)
      BY <3>4 DEF Resting, Continues
    <3> QED
      BY <3>1, <3>4, <3>5, <3>6, <3>7
  <2>2. CASE k = center.fd
    <3>1. Reading
      BY <1>2, <2>2 DEF KeptInv
    <3>2. /\ SubscriptionOf(k) = k /\ center.k \in {0, k}
          /\ Enqueuing => center.k = k
          /\ Emptying => menu.k = k
          /\ ~ Emptying => MenuAt(k) = "look"
      BY <2>2, <3>1, ReadFacts
    <3>3. center.pc = "recv" /\ MenuAt(k) = "look"
      BY <2>2, <3>1, <3>2 DEF AtRest, Reading, Enqueuing, Emptying
    <3>4. Kept(k)
      BY <2>2, <3>1 DEF KeptInv
    <3>5. PICK t \in Nat : t = Taken(k)
      BY <2>2, <3>1, ReadFacts
    <3>6. t \in Nat /\ s \in Nat /\ l \in Nat
      BY <3>5
    <3>7. InLine(arrived[k], t, shown[k], s, queues[k].head, queues[k].tail,
                 l, next, "look", menu.node, menu.n, "recv", center.msg,
                 center.n)
      BY <1>5, <3>3, <3>4, <3>5 DEF Kept
    <3>8. Resting(arrived[k], t, shown[k], s, queues[k].head, l, next)
          /\ s + l = t
      <4>1. Resting(arrived[k], t, shown[k], s, queues[k].head, l, next)
        BY <3>6, <3>7, AtRestFacts
      <4> QED
        BY <4>1 DEF Resting
    <3>9. Len(arrived[k]) = s + l + w
      BY <1>4, <1>5, <3>5, <3>8 DEF Taken
    <3>10. \A i \in 1..w : net[k][i] = arrived[k][s + l + i]
      BY <1>4, <1>5, <3>4, <3>5, <3>8 DEF Kept
    <3> QED
      BY <3>8, <3>9, <3>10
  <2> QED
    BY <2>1, <2>2
<1>7. HoldsPiece(k, arrived[k], s, l)
  <2>1. Continues(arrived[k], s, l, queues[k].head, next)
    BY <1>6 DEF Resting
  <2>2. s \in Nat /\ l \in Nat
    BY <1>5
  <2>3. Lies(k, arrived[k], s, l)
    BY <1>5, <2>1, <2>2 DEF Lies
  <2> QED
    BY <2>3, ChainAtRest
<1>8. /\ Chain(k) \in Seq(Msgs) /\ Len(Chain(k)) = l
      /\ \A i \in 1..l : Chain(k)[i] = arrived[k][s + i]
  <2>1. s + l <= Len(arrived[k])
    BY <1>6
  <2>2. s \in Nat /\ l \in Nat /\ arrived[k] \in Seq(Msgs)
    BY <1>4, <1>5
  <2>3. [i \in 1..l |-> arrived[k][s + i]] \in Seq(Msgs)
    BY <2>1, <2>2, Middle
  <2>4. Len([i \in 1..l |-> arrived[k][s + i]]) = l
    BY <2>1, <2>2, Middle
  <2> QED
    BY <1>7, <2>3, <2>4 DEF HoldsPiece, Piece
<1>9. shown[k] \o Chain(k) \o net[k] = arrived[k]
  <2>1. Parts(arrived[k], shown[k], Chain(k), net[k], s, l, w)
    BY <1>4, <1>5, <1>6, <1>8 DEF Parts, Resting
  <2>2. Makes(shown[k], Chain(k), net[k], arrived[k])
    BY <2>1, Whole
  <2> QED
    BY <2>2 DEF Makes
<1> QED
  BY <1>1, <1>9

(* What came for a feed is printed, in its queue or still to be read, as   *)
(* long as no queue has moved and none was filled while it was emptied.    *)
THEOREM NothingIsLost == Spec => []NothingLost
BY KeptCorrect, KeptNothingLost, PTL
=============================================================================
