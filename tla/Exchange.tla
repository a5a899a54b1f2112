------------------------------ MODULE Exchange ------------------------------
(***************************************************************************)
(* Requests and answers over TCP: client processes, each with one menu     *)
(* thread, and the server's TCP thread, which polls its connections and    *)
(* reads, handles and answers one request of each that is ready.  The      *)
(* accounts file is shared by the clients.                                 *)
(*                                                                         *)
(* What the handlers answer is any answer they could give; Feeds.tla,      *)
(* LastPosts.tla, Transfers.tla and Notifications.tla model how they come  *)
(* to it, and what follows an answer to a file or a feed's subscriber.     *)
(***************************************************************************)
EXTENDS Wire, Accounts

CONSTANTS
  Inputs,       \* what each client's users type: requests but for the id
  Ids,          \* the ids the server has to give
  NewFeeds,     \* the numbers new feeds may get
  Post,         \* a post of the board
  MaxPosts,     \* bound: posts in an answer
  MaxConns,     \* bound: connections
  Ends          \* bound: where else recv may end, in bytes

(* What feed_number_manager, count_number_manager, pseudo_manager and      *)
(* data_manager let through: negative numbers pass for small ones, and a   *)
(* post may be longer than a byte can say.  The count of a download is the *)
(* port of its socket.  A text is two bytes.                               *)
Typable(r) ==
  IF r.type = REGISTRATION THEN r.pseudo \in Byte \ {0, CR, LF}
  ELSE /\ r.type \in Types /\ r.feed \in Uint16 /\ r.count \in Uint16
       /\ r.type \notin {LASTPOSTS, DOWNLOAD} => r.count = 0
       /\ r.len \in CASE r.type = NEWPOST -> 1..511
                      [] r.type \in {UPLOAD, DOWNLOAD} -> 1..229
                      [] OTHER -> {0}
       /\ r.len # 0 => r.data \in (Byte \ {CR, LF}) \X (Byte \ {CR, LF})

ASSUME ExchangeAssumption ==
  /\ \A c \in Clients : \A r \in Inputs[c] : Typable(r)
  /\ Ids \subseteq 1..2047 /\ NewFeeds \subseteq Uint16
  /\ MaxPosts \in Uint16 /\ MaxConns \in Nat /\ Ends \subseteq Nat
  /\ Post \in [feed : Uint16, creator : Byte, pseudo : Byte, len : Byte,
               data : Seq(Byte)]
  /\ Post.data \in IF Post.len = 0 THEN {<<>>} ELSE Byte \X Byte

VARIABLES
  calm,         \* no client leaves, and no system call of the server fails
  server,       \* "serving", "stopped" when its loop ended, or "dead"
  backlog,      \* connections to accept
  fds,          \* m_fds after the listening socket: descriptors, or -1
  infos,        \* of m_connection_infos: for each descriptor the bytes read
  at,           \* the connection each descriptor is of, or 0
  loop,         \* the locals of the server's loop
  conns,        \* the connections made
  client,       \* the menu thread of each client
  rest,         \* rb_rq of each client: the bytes read and not used
  users,        \* the users registered
  murky         \* the clients that met a message CR cuts in two

serverVars == <<server, backlog, fds, infos, at, loop, users>>
clientVars == <<client, rest, murky>>
vars == <<calm, serverVars, conns, clientVars, accountVars>>

FirstPort == 6228               \* of the group of the first subscription
UdpPort == 6227

Fds == 1..MaxConns              \* enough for all the connections
NextConn == Len(conns) + 1

Nobody == [head |-> [type |-> 0], posts |-> <<>>]

(* What is left of a connection both ends closed. *)
Closed == [open |-> {}]
HungUp(k, end) == LET ends == conns[k].open \ {end} IN
                  IF ends = {} THEN Closed ELSE [conns[k] EXCEPT !.open = ends]

(* Where recv may end: after a CR, with all that came, or elsewhere.       *)
Pieces(b) == {n \in DOMAIN b : n \in Ends \cup {Len(b)} \/ b[n] = CR}

(* recv_request reads behind what it has. *)
SlipReceived(b, more) == more           \* over it
Received(b, more) == b \o more

-----------------------------------------------------------------------------
(* A user of a client *)

(* create_request *)
Created(c, r) ==
  IF r.type = REGISTRATION THEN Registration(r.pseudo)
  ELSE LET datalen == r.len % 256 IN
       [type |-> r.type, id |-> client[c].user, feed |-> r.feed,
        count |-> r.count, len |-> datalen, data |-> Text(datalen, r.data)]

(* connect_client.  A user who has no id can only register. *)
Ask(c, r) ==
  /\ client[c].pc = "menu" /\ Len(conns) < MaxConns
  /\ (r.type = REGISTRATION) = (client[c].user = 0)
  /\ IF server = "dead"
     THEN /\ client' = [client EXCEPT ![c].pc = "ended"]
          /\ UNCHANGED <<conns, backlog>>
     ELSE /\ client' = [client EXCEPT ![c].pc = "send", ![c].conn = NextConn]
          /\ conns' = Append(conns, [who |-> c, asked |-> Created(c, r),
                                     in |-> <<>>, out |-> <<>>,
                                     open |-> {"client", "server"},
                                     answer |-> Nobody, dropped |-> FALSE])
          /\ backlog' = Append(backlog, NextConn)
  /\ UNCHANGED <<calm, server, fds, infos, at, loop, users, rest, murky,
                 accountVars>>

(* select_account *)
LogIn(c, id) ==
  /\ client[c].pc = "menu" /\ client[c].user = 0 /\ Len(conns) < MaxConns
  /\ client' = [client EXCEPT ![c].user = id]
  /\ UNCHANGED <<calm, serverVars, conns, rest, murky, accountVars>>

LogOut(c) ==
  /\ client[c].pc = "menu" /\ client[c].user # 0 /\ Len(conns) < MaxConns
  /\ client' = [client EXCEPT ![c].user = 0]
  /\ UNCHANGED <<calm, serverVars, conns, rest, murky, accountVars>>

-----------------------------------------------------------------------------
(* handle_client_connection *)

Conn(c) == conns[client[c].conn]

(* send_client_request *)
Send(c) ==
  LET bytes == RequestBytes(Conn(c).asked) IN
  /\ client[c].pc = "send"
  /\ conns' = [conns EXCEPT ![client[c].conn].in = bytes \o CRLF]
  /\ client' = [client EXCEPT ![c].pc = "recv", ![c].got = Nobody]
  /\ murky' = IF HasCR(bytes) THEN murky \cup {c} ELSE murky
  /\ UNCHANGED <<calm, serverVars, rest, accountVars>>

(* One recv of recv_request, which returns some of what has come. *)
Read(c) ==
  /\ client[c].pc = "recv" /\ ~ HasCR(rest[c])
  /\ \E n \in Pieces(Conn(c).out) :
       /\ rest' = [rest EXCEPT ![c] = Received(@, SubSeq(Conn(c).out, 1, n))]
       /\ conns' = [conns EXCEPT ![client[c].conn].out =
                      SubSeq(@, n + 1, Len(@))]
  /\ UNCHANGED <<calm, serverVars, client, murky, accountVars>>

(* recv_server_request reads a head, then as many posts as it counts. *)
Known(type) == type \in Types \cup Errors
Got(c, b) == IF client[c].got = Nobody
             THEN [head |-> HeadIn(b), posts |-> <<>>]
             ELSE [client[c].got EXCEPT !.posts = Append(@, PostIn(b))]
Wanting(a) == a.head.type = LASTPOSTS /\ Len(a.posts) < a.head.count
AfterFrame(a) == CASE ~ Known(a.head.type) -> "fail"
                   [] Wanting(a) -> "recv"
                   [] OTHER -> "show"

Keep(c, b, kept) ==
  /\ \E a \in {Got(c, b)} :
       client' = [client EXCEPT ![c].got = a, ![c].pc = AfterFrame(a)]
  /\ rest' = [rest EXCEPT ![c] = kept]
  /\ UNCHANGED <<calm, serverVars, conns, accountVars>>

(* When CR ends what has come and more frames are to come, its LF becomes  *)
(* the first byte of the next.                                             *)
SlipKept(c) == <<>>                     \* the rest is dropped
Kept(c) == Rest(rest[c])

TakeFrame(c) ==
  /\ client[c].pc = "recv" /\ HasCR(rest[c])
  /\ \E b \in {Cut(rest[c])} : Keep(c, b, Kept(c))
  /\ murky' = IF FirstCR(rest[c]) = Len(rest[c])
                 /\ AfterFrame(Got(c, Cut(rest[c]))) = "recv"
              THEN murky \cup {c} ELSE murky

(* At the end of the stream what has come counts as a message, and nothing *)
(* as each of those after it.                                              *)
NoPost == PostIn(<<>>)
Filled(a) ==
  IF ~ Wanting(a) THEN a
  ELSE [a EXCEPT !.posts = [i \in 1..a.head.count |->
          IF i <= Len(a.posts) THEN a.posts[i] ELSE NoPost]]

TakeEnd(c) ==
  /\ client[c].pc = "recv" /\ ~ HasCR(rest[c])
  /\ Conn(c).out = <<>> /\ "server" \notin Conn(c).open
  /\ LET a == Filled(Got(c, rest[c])) IN
     /\ client' = [client EXCEPT ![c].got = a,
                     ![c].pc = IF Known(a.head.type) THEN "show" ELSE "fail"]
     /\ rest' = [rest EXCEPT ![c] = <<>>]
  /\ UNCHANGED <<calm, serverVars, conns, murky, accountVars>>

Leaves(c, pc) ==
  /\ client' = [client EXCEPT ![c].pc = pc, ![c].conn = 0, ![c].got = Nobody]
  /\ conns' = [conns EXCEPT ![client[c].conn] =
                 HungUp(client[c].conn, "client")]

(* client_callback: set_user_id and add_account.  To a request that was no *)
(* registration a garbled answer may be one; the pseudo is then read where *)
(* the union has the feed.                                                 *)
PseudoOf(r) == IF r.type = REGISTRATION THEN r.pseudo ELSE r.feed % 256

StartAdd(c) ==
  /\ client[c].pc = "show" /\ client[c].got.head.type = REGISTRATION
  /\ LET id == client[c].got.head.id IN
     /\ client' = [client EXCEPT ![c].user = id, ![c].pc = "add"]
     /\ FindPlace(c, id, PseudoOf(Conn(c).asked))
  /\ UNCHANGED <<calm, serverVars, conns, rest, murky>>

AddAccount(c) ==
  /\ client[c].pc = "add"
  /\ \/ WriteId(c) /\ UNCHANGED <<client, conns>>
     \/ WritePseudo(c) /\ Leaves(c, "menu")
     \/ FileFull(c) /\ Leaves(c, "ended")
  /\ UNCHANGED <<calm, serverVars, rest, murky>>

Done(c) ==
  /\ client[c].pc = "show" /\ client[c].got.head.type # REGISTRATION
  /\ Leaves(c, "menu")
  /\ UNCHANGED <<calm, serverVars, rest, murky, accountVars>>

(* A failure ends the client, whose user may also leave at any time. *)
Leave(c) ==
  /\ \/ client[c].pc = "fail"
     \/ ~ calm /\ client[c].pc \in {"send", "recv"}
  /\ Leaves(c, "ended")
  /\ UNCHANGED <<calm, serverVars, rest, murky, accountVars>>

-----------------------------------------------------------------------------
(* tcp_server_loop: the loop, and accepting *)

Readable(k) == conns[k].in # <<>> \/ "client" \notin conns[k].open

(* poll; slot 0 is the listening socket. *)
ReadySlots == {i \in DOMAIN fds : fds[i] # -1 /\ Readable(at[fds[i]])}
              \cup (IF backlog # <<>> THEN {0} ELSE {})

(* handle_ready_fds goes on with the next socket that poll found ready. *)
Resting == [pc |-> "poll", ready |-> {}, slot |-> 0, rq |-> [type |-> 0],
            out |-> <<>>]
Turn(ready) ==
  IF ready = {} THEN Resting
  ELSE LET i == Min(ready) IN
       [Resting EXCEPT !.pc = IF i = 0 THEN "accept" ELSE "recv",
                       !.ready = ready \ {i}, !.slot = i]

Poll ==
  /\ server = "serving" /\ loop.pc = "poll"
  /\ ReadySlots # {}
  /\ loop' = Turn(ReadySlots)
  /\ UNCHANGED <<calm, server, backlog, fds, infos, at, users, conns,
                 clientVars, accountVars>>

(* add_new_connections takes the first slot given up. *)
SlipWithSlot(fd) ==             \* whether it is given up or not
  IF fds = <<>> THEN Append(fds, fd) ELSE [fds EXCEPT ![1] = fd]
WithSlot(fd) ==
  LET free == {i \in DOMAIN fds : fds[i] = -1} IN
  IF free = {} THEN Append(fds, fd) ELSE [fds EXCEPT ![Min(free)] = fd]

(* accept_new_connections: accept gives the lowest descriptor there is,    *)
(* whose infos are cleared.                                                *)
FreeFd == Min({fd \in Fds : at[fd] = 0})

Accept ==
  /\ server = "serving" /\ loop.pc = "accept" /\ backlog # <<>>
  /\ at' = [at EXCEPT ![FreeFd] = Head(backlog)]
  /\ fds' = WithSlot(FreeFd)
  /\ infos' = [infos EXCEPT ![FreeFd] = <<>>]
  /\ backlog' = Tail(backlog)
  /\ UNCHANGED <<calm, server, loop, users, conns, clientVars, accountVars>>

NoMoreToAccept ==
  /\ server = "serving" /\ loop.pc = "accept" /\ backlog = <<>>
  /\ loop' = Turn(loop.ready)
  /\ UNCHANGED <<calm, server, backlog, fds, infos, at, users, conns,
                 clientVars, accountVars>>

-----------------------------------------------------------------------------
(* handle_tcp_connection *)

Fd == fds[loop.slot]
Serving == at[Fd]

Stop(how) ==
  /\ server' = how
  /\ loop' = Resting
  /\ UNCHANGED <<calm, backlog, users, clientVars, accountVars>>

(* The descriptors of a process that died are closed. *)
Die == /\ Stop("dead")
       /\ UNCHANGED <<fds, infos, at>>
       /\ conns' = [k \in DOMAIN conns |->
                      IF conns[k] = Closed THEN Closed
                      ELSE HungUp(k, "server")]

Receive ==
  /\ server = "serving" /\ loop.pc = "recv" /\ ~ HasCR(infos[Fd])
  /\ \E n \in Pieces(conns[Serving].in) :
       /\ infos' = [infos EXCEPT ![Fd] = Received(@, SubSeq(conns[Serving].in, 1, n))]
       /\ conns' = [conns EXCEPT ![Serving].in = SubSeq(@, n + 1, Len(@))]
  /\ UNCHANGED <<calm, server, backlog, fds, at, loop, users, clientVars,
                 accountVars>>

Error(type) == [type |-> type, id |-> 0, feed |-> 0, count |-> 0, addr |-> 0]

FreeIds == Ids \ {u.id : u \in users}

Registered(id) == \E u \in users : u.id = id

(* The heads the handlers answer a request they grant with.                *)
Heads(rq) ==
  LET Granted(id, feed, count) == [type |-> rq.type, id |-> id, feed |-> feed,
                                   count |-> count, addr |-> 0]
  IN CASE rq.type = REGISTRATION -> {Granted(id, 0, 0) : id \in FreeIds}
       [] rq.type = NEWPOST ->
            {Granted(rq.id, feed, rq.count) : feed \in
               IF rq.feed = 0 THEN NewFeeds ELSE {rq.feed}}
       [] rq.type = LASTPOSTS ->
            {Granted(rq.id, feed, n) : n \in 0..MaxPosts, feed \in
               IF rq.feed = 0 THEN NewFeeds ELSE {rq.feed}}
       [] rq.type = SUBSCRIBE /\ rq.feed # 0 ->
            {[Granted(rq.id, rq.feed, FirstPort) EXCEPT !.addr = 255]}
       [] rq.type = SUBSCRIBE /\ rq.feed = 0 -> {}
       [] rq.type = UPLOAD -> {Granted(rq.id, rq.feed, UdpPort)}
       [] rq.type = DOWNLOAD -> {Granted(rq.id, rq.feed, rq.count)}

(* What else they may answer: that there is no feed of this number, no     *)
(* such file, or no room for another feed.                                 *)
Refusals(rq) ==
  {Error(e) : e \in
     (IF rq.feed # 0 \/ rq.type = SUBSCRIBE THEN {ERR_FEEDNB} ELSE {})
     \cup (IF rq.type = DOWNLOAD THEN {ERR_NOFILE} ELSE {})
     \cup (IF rq.type = NEWPOST /\ rq.feed = 0 THEN {ERR_FEEDMAX} ELSE {})}

HeadsOrErrors(rq) ==
  CASE rq.type = REGISTRATION /\ FreeIds = {} -> {Error(ERR_IDMAX)}
    [] rq.type = REGISTRATION /\ FreeIds # {} -> Heads(rq)
    [] rq.type # REGISTRATION /\ ~ Registered(rq.id) ->
         {Error(ERR_NOID)} \cup Refusals(rq)
    [] OTHER -> Heads(rq) \cup Refusals(rq)

Answers(rq) ==
  IF rq.type \notin Types THEN {} ELSE
  {[head |-> h, posts |-> IF h.type # LASTPOSTS THEN <<>>
                          ELSE [i \in 1..h.count |-> Post]] :
     h \in HeadsOrErrors(rq)}

(* recv_client_request and the handler, which answers. *)
Handle(b, kept) ==
  /\ \E rq \in {RequestIn(b)} : \E a \in Answers(rq) :
       /\ loop' = [loop EXCEPT !.pc = "send", !.rq = rq, !.out = Frames(a)]
       /\ conns' = [conns EXCEPT ![Serving].answer = a]
       /\ users' = IF a.head.type # REGISTRATION THEN users
                   ELSE users \cup {[id |-> a.head.id, pseudo |-> rq.pseudo]}
  /\ infos' = [infos EXCEPT ![Fd] = kept]
  /\ UNCHANGED <<calm, server, backlog, fds, at, clientVars, accountVars>>

(* No handler has the type: what lies beside the table is called. *)
HandleNoType(b) == RequestIn(b).type \notin Types /\ Die

TakeRequest ==
  /\ server = "serving" /\ loop.pc = "recv"
  /\ HasCR(infos[Fd])
  /\ \E b \in {Cut(infos[Fd])} :
       Handle(b, Rest(infos[Fd])) \/ HandleNoType(b)

(* The client left before it sent a request. *)
TakeNothing ==
  /\ server = "serving" /\ loop.pc = "recv"
  /\ ~ HasCR(infos[Fd])
  /\ conns[Serving].in = <<>> /\ "client" \notin conns[Serving].open
  /\ HandleNoType(infos[Fd])

(* accept fails, there is no memory for the answer, or the file of a       *)
(* download cannot be sent: the loop ends, and nobody is served any more.  *)
GiveUp ==
  /\ ~ calm /\ server = "serving"
  /\ \/ loop.pc \in {"accept", "recv"}
     \/ /\ loop.pc = "send" /\ loop.out = <<>>
        /\ conns[Serving].answer.head.type = DOWNLOAD
  /\ Stop("stopped")
  /\ UNCHANGED <<fds, infos, at, conns>>

(* recv, the handler or the next send fails: the connection is closed too, *)
(* and stays in its slot.                                                  *)
Drop ==
  /\ ~ calm /\ server = "serving"
  /\ loop.pc = "recv" \/ (loop.pc = "send" /\ loop.out # <<>>)
  /\ Stop("stopped")
  /\ conns' = [conns EXCEPT ![Serving] =
                 IF HungUp(Serving, "server") = Closed THEN Closed
                 ELSE [HungUp(Serving, "server") EXCEPT !.dropped = TRUE]]
  /\ at' = [at EXCEPT ![Fd] = 0]
  /\ UNCHANGED <<fds, infos>>

(* send_server_request: one send for each frame.  To a client that left    *)
(* it may also raise SIGPIPE.                                              *)
SendFrame ==
  /\ server = "serving" /\ loop.pc = "send" /\ loop.out # <<>>
  /\ conns' = [conns EXCEPT ![Serving].out = @ \o Head(loop.out) \o CRLF]
  /\ loop' = [loop EXCEPT !.out = Tail(@)]
  /\ LET c == conns[Serving].who IN
     murky' = IF HasCR(Head(loop.out)) THEN murky \cup {c} ELSE murky
  /\ UNCHANGED <<calm, server, backlog, fds, infos, at, users, client, rest,
                 accountVars>>

SendToNobody ==
  /\ server = "serving" /\ loop.pc = "send" /\ loop.out # <<>>
  /\ "client" \notin conns[Serving].open
  /\ Die

(* The connection is closed and its slot given up. *)
SlipFinish ==                   \* close_connection is not set
  /\ server = "serving" /\ loop.pc = "send" /\ loop.out = <<>>
  /\ loop' = Turn(loop.ready)
  /\ UNCHANGED <<calm, server, backlog, fds, infos, at, users, conns,
                 clientVars, accountVars>>

Finish ==
  /\ server = "serving" /\ loop.pc = "send" /\ loop.out = <<>>
  /\ conns' = [conns EXCEPT ![Serving] = HungUp(Serving, "server")]
  /\ infos' = [infos EXCEPT ![Fd] = <<>>]
  /\ at' = [at EXCEPT ![Fd] = 0]
  /\ fds' = [fds EXCEPT ![loop.slot] = -1]
  /\ loop' = Turn(loop.ready)
  /\ UNCHANGED <<calm, server, backlog, users, clientVars, accountVars>>

-----------------------------------------------------------------------------
Init ==
  /\ calm \in BOOLEAN
  /\ server = "serving"
  /\ backlog = <<>> /\ fds = <<>>
  /\ infos = [fd \in Fds |-> <<>>] /\ at = [fd \in Fds |-> 0]
  /\ loop = Resting
  /\ conns = <<>>
  /\ client = [c \in Clients |-> [pc |-> "menu", user |-> 0, conn |-> 0,
                                  got |-> Nobody]]
  /\ rest = [c \in Clients |-> <<>>]
  /\ users = Range(Earlier) /\ murky = {}
  /\ AccountsInit

UserStep(c) == \/ \E r \in Inputs[c] : Ask(c, r)
               \/ \E id \in AccountIds : LogIn(c, id)
               \/ LogOut(c)

ClientStep(c) ==
  \/ Send(c) \/ Read(c) \/ TakeFrame(c) \/ TakeEnd(c)
  \/ StartAdd(c) \/ AddAccount(c) \/ Done(c)

ServerStep ==
  \/ Poll \/ Accept \/ NoMoreToAccept \/ Receive \/ TakeRequest
  \/ TakeNothing \/ SendFrame \/ Finish

Next ==
  \/ \E c \in Clients : UserStep(c) \/ ClientStep(c) \/ Leave(c)
  \/ ServerStep \/ GiveUp \/ Drop \/ SendToNobody

Spec == Init /\ [][Next]_vars

(* In calm runs, which the promise is about, the processes go on: a step   *)
(* of one of them is taken as long as there is one.                        *)
Steps == ServerStep \/ \E c \in Clients : ClientStep(c)
Fairness == WF_vars(calm /\ Steps)
FairSpec == Spec /\ Fairness

-----------------------------------------------------------------------------
(* Properties *)

(* The threads are where their locals say they are, the descriptors of the *)
(* slots and those of the process are the same and of connections the      *)
(* server has open, but for one it may have closed when its loop ended,    *)
(* and a client waits on a connection of its own (tcp_server.c:99-155,     *)
(* 180-216).                                                               *)
TypeOK ==
  /\ server \in {"serving", "stopped", "dead"} /\ calm \in BOOLEAN
  /\ loop.pc \in {"poll", "accept", "recv", "send"}
  /\ loop.ready \subseteq 0..Len(fds)
  /\ backlog \in Seq(DOMAIN conns)
  /\ infos \in [Fds -> Seq(Byte)] /\ rest \in [Clients -> Seq(Byte)]
  /\ \E fd \in IF server = "stopped" THEN Fds \cup {-1} ELSE {-1} :
       {fds[i] : i \in DOMAIN fds} \ {fd, -1} = {d \in Fds : at[d] # 0}
  /\ \A i, j \in DOMAIN fds : fds[i] = fds[j] /\ i # j => fds[i] = -1
  /\ \A fd \in Fds : at[fd] # 0 /\ server # "dead" =>
                      "server" \in conns[at[fd]].open
  /\ loop.pc \in {"recv", "send"} => Fd # -1
  /\ \A c \in Clients :
       /\ client[c].pc \in {"menu", "send", "recv", "show", "add", "fail",
                            "ended"}
       /\ client[c].conn # 0 => /\ Conn(c).who = c
                                /\ "client" \in Conn(c).open
       /\ client[c].pc \in {"send", "recv", "show", "add"} =>
            client[c].conn # 0
  /\ adding \in [Clients -> [user : [id : Uint16, pseudo : Byte],
                             place : 0..(IdMax + 1),
                             half : BOOLEAN]]
  /\ murky \subseteq Clients

(* The request handled is the one its client sent, whatever came on the    *)
(* descriptor before and in however many pieces, unless a byte of one of   *)
(* this client's messages is CR (tcp_server.c:90-104, 200-204,             *)
(* request.c:151-193).                                                     *)
RequestAsSent ==
  loop.pc = "send" => \/ loop.rq = conns[Serving].asked
                      \/ conns[Serving].who \in murky

(* A client shows the answer the server gave to its request, with nothing  *)
(* of an earlier answer although it keeps the bytes left over from one     *)
(* connection for the next, and in however many pieces it came, unless CR  *)
(* cut a message or came alone before another frame.  Where the server     *)
(* failed to send a post and dropped the connection, the posts from there  *)
(* on are shown as empty ones (client/network.c:200-245,                   *)
(* tcp_server.c:116-120).                                                  *)
CutBefore(n, a) ==
  [a EXCEPT !.posts = [i \in DOMAIN a.posts |->
                         IF i < n THEN a.posts[i] ELSE NoPost]]
AnswerAsSent ==
  \A c \in Clients : client[c].pc = "show" /\ c \notin murky =>
    \/ client[c].got = Conn(c).answer
    \/ /\ Conn(c).dropped
       /\ \E n \in DOMAIN Conn(c).answer.posts :
            client[c].got = CutBefore(n, Conn(c).answer)

(* The file has the users the server registered, each once it was added    *)
(* and for ever, as long as no two clients add at a time: the lock does    *)
(* not keep them apart (user.c:37-49, 117-131, tcp_client.c:184-188).      *)
AccountsKept ==
  murky = {} =>
    /\ stored \subseteq users
    /\ ~ raced =>
         stored = {accounts[i] : i \in {j \in 1..IdMax :
                     /\ accounts[j].id # 0
                     /\ \A c \in Clients : adding[c].place # j}}

(* Every request is answered as long as no client leaves and no call of    *)
(* the server fails: one failing connection would end the service of all   *)
(* (tcp_server.c:180-244).                                                 *)
EveryoneServed ==
  \A c \in Clients : calm /\ client[c].pc = "recv" ~>
                        client[c].pc = "show" \/ murky # {}

(* What the prompt promises, "Enter your post (255 characters maximum)"    *)
(* (user_input.c:180): what is typed is what is handled.                   *)
PostHandledAsTyped ==
  loop.pc = "send" => loop.rq = conns[Serving].asked
=============================================================================
