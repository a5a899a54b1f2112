# Megaphone in TLA+

Megaphone is a message board: a server that keeps users, feeds, posts and
files, and a menu-driven client.  Requests and answers go over TCP, files over
UDP, notifications over multicast.  This directory models the parts of it where
threads, datagrams, timers and locks meet, model-checks them with TLC, and
proves the safety of most of them with TLAPS.  Paths below are relative to
`src/src/` unless they begin with `src/`.

1. [The system](#1-the-system)
2. [The modules](#2-the-modules)
3. [What is checked](#3-what-is-checked)
4. [What is proved](#4-what-is-proved)
5. [What was found](#5-what-was-found)
6. [Abstractions and what is left out](#6-abstractions-and-what-is-left-out)
7. [Plan](#7-plan)

## 1. The system

### Server

`launch_server` (`network/server/server_manager.c`) initialises the data and
runs three loops as jobs of a thread pool.  All three reach the arrays of
`network/server/data.c`.

| Component | State | Operations | Interacts with | What is hard | What makes it correct |
|---|---|---|---|---|---|
| Users, feeds, posts (`network/server/data.c` 74-305) | `m_known_users`, `m_feeds`: arrays that double and move; a mutex each; a directory per feed | `user_new`, `get_pseudo`, `generate_new_id`, `feed_new`, `post_new`, `get_feeds`, counts | all three loops | sections are locked one by one, so that a request spans several; pointers outlive the lock; 16-bit numbers; `mkdir` fails after the append | a reply names the feed that has the post; a refused post is nowhere; every feed begins with its creator's post; authors are senders |
| Request handlers (`network/server/request_manager.c`) | none; an array of replies | registration, post, last posts, subscribe, prepare upload, prepare download | the data, on the TCP thread | last posts reads lengths and posts without the lock | answers describe the board at some moment; each request is answered |
| TCP loop (`network/server/tcp_server.c`) | `m_fds`, `m_connection_infos` | accept, read, reply, send a file, check the timeouts of transfers | handlers, transfers | partial requests; descriptors, slots and buffers used again by later connections; one failing connection ends the loop | each connection served, none disturbed by another |
| Transfers (`network/server/data.c` 312-457, `network/file_transfer.c`) | `m_tranfer_files`: a slot per user id, a mutex | `transfer_new`, `add_packet`, `id_clear_transfer`, `check_transfers_timeout` | prepared on the TCP thread, filled on the UDP thread, cleared by both | datagrams lost, late, out of order; a timeout check without the mutex; uploads and downloads in one slot | an upload is announced once, whole, under its own name; slots come back |
| UDP loop (`network/server/udp_server.c`) | a socket | receive a datagram, `add_packet` | transfers, feeds | a failure ends it for all clients | the loop outlives any one upload |
| Notifications (`network/server/notifications_server.c`; `data.c` 247-291) | `m_suscribe`: a feed, an address, `last_send_post`; a pointer in each feed | `subscriptions_request`, `notif_new`, a round every 120 s | the data, without a lock | posts come in during a round; `sendto` fails half-way | no post twice, in order, in the group of its feed, none forgotten |
| Thread pool and queue (`system/thread_pool.c`, `data_structures/queue.c`) | a queue of jobs, `active`, a mutex and a condition | `add_job`, `wait`, `shutdown`, the workers | runs the loops | lost signals; workers that join one another; a lock never given back | each job runs once; the process ends when the loops have |

### Client

| Component | State | Operations | Interacts with | What is hard | What makes it correct |
|---|---|---|---|---|---|
| Transfers (`network/client/tcp_client.c` 154-284, `data.c` 110-160 and 279-420, `request_manager.c`, `udp_client.c`) | `m_tranfer_file`: one slot, a mutex and a condition | ask for a file, send a file, receive, save, time out | the menu thread and the UDP thread; the server | one slot for everything; the socket to poll is read under a lock that is released before polling; descriptor 0 stands for "no socket" | what is saved is what was sent; no descriptor closed that is not ours; the UDP thread comes back |
| Notifications (`notifications_center.c`, `data.c` 163-277) | `m_notification`, queues of notifications; `m_subscriptions`, their sockets | subscribe, receive, show | the notifications thread fills, the menu empties | the queue is not under a common lock; pointers into a moving array; a `recvfrom` that waits | each notification shown once, in order, under its feed |
| Accounts (`user/user.c`) | a mapped file of accounts | add, list | other clients of the same machine | a file lock asked for without waiting, whose answer is ignored | an account that was added stays, whole |
| Requests, menus and input (`tcp_client.c` 234-393, `request_manager.c`, `user/user_input.c`) | the user, the bytes left of the last answer | ask the user, connect, send, receive, print | everything on the client | bytes kept from one connection to the next; input checked by other limits than those of the request | the answer shown is the one to the request; what is handled is what was typed |
| Command lines, start-up (`network/*/main.c`, `client_manager.c`, `client.c`, `server.c`) | addresses, sockets | parse, open sockets | | sequential, before there are threads | |

### Shared by both

| Component | State | Operations | What is hard | What makes it correct |
|---|---|---|---|---|
| Arrays (`data_structures/array.c`) | data, length, capacity | `append`, `set`, `get`, `remove` | moves on growth, gaps below a `set`, `get` one past the end | elements keep their values and places |
| File chunking (`ftransferrqs_new` in `network/request.c` up to line 150, `file_transfer.c`) | none | split a file in blocks of 512 bytes, put it together | multiples of 512, 16-bit block numbers | what is put together is what was split |
| Wire format (`network/request.c`, `network/*/network.c`) | none | headers, ids, numbers in network order | byte layout | read inverts write |
| Request framing (`network/request.c` 151-194) | a buffer carried from one read to the next | `recv_request` | a stream cut anywhere; the separator inside of values | requests come out as they went in |
| Logger, build | none | print | | |

`PROJECT.json` lists every component with its status, and the hazards of the
code with the line where each bites and the properties aimed at it.

## 2. The modules

| Module | Part of the system | Uses |
|---|---|---|
| `Board` | abstract specification: members join, feeds open with their creator's post, posts are appended | |
| `Feeds` | users, feeds, posts, the publication of files; two threads | refines `Board` |
| `LastPosts` | `last_posts_request` beside the UDP thread | extends `Feeds` |
| `FileBlocks` | the blocks a file is cut into, their number and lengths, and the array they are put in | |
| `Transfers` | the slots of the server, the network, both threads | extends `FileBlocks` |
| `ClientTransfer` | the slot of the client, the menu and the UDP thread | extends `FileBlocks` |
| `Wire` | requests, answers and posts as bytes; how a stream is cut into them | |
| `Accounts` | the file of accounts that the clients add to | |
| `Exchange` | clients and the TCP loop: connections, requests, answers, accounts | extends `Wire`, `Accounts` |
| `ClientNotifications` | subscriptions and queues of the client, two threads | |
| `Notifications` | subscriptions and rounds of the server, beside posts that arrive | |
| `JobPool` | abstract specification: jobs are added, chosen, started, return; the process exits | |
| `ThreadPool` | the pool, its queue, its workers and the exit | refines `JobPool` |
| `FeedsProofs` | theorems about `Feeds` and `LastPosts`, and that `Feeds` implements `Board` | extends `LastPosts` |
| `FileBlocksProofs` | lemmas about blocks and the array they are put in | extends `FileBlocks` |
| `TransfersProofs`, `ClientTransferProofs` | theorems about the two ends of a transfer | extend `FileBlocksProofs` and the module they are about |
| `NotificationsProofs`, `ThreadPoolProofs`, `ClientNotificationsProofs`, `ExchangeProofs` | theorems about the module of that name (and that `ThreadPool` implements `JobPool`) | extend it |
| `MC*` | symmetry, worlds, inputs, and the names that TLC's runs share | |

An action is a stretch of code that nothing interferes with: a critical section,
or an access made outside of one.  What a thread keeps in locals between two
such stretches is a record with a `pc`.  The names of actions and locals follow
the functions and variables of the source; `PROJECT.json` gives the lines of
each definition.  A definition whose name begins with `Slip` is a plausible
mistake in the definition of the same name; no specification uses it, it serves
to show that the properties can tell the difference.

### Feeds and Board

`users`, `feeds`, `dirs`, `files` are `m_known_users`, `m_feeds`, the
directories and the files under `res/server/files`; `upload` is the part of
`m_tranfer_files` that publication reads.  `thr[t]` is where a thread is:

    post_request      StartPost -> [FeedAppend -> FeedPath -> Mkdir] -> PostNew -> ReplyPost
    add_packet's end  StartPublish -> ReadTarget -> [FeedAppend -> FeedPath -> Mkdir] -> NumberFeed
                        -> Aim -> PostNew -> WriteFile

The steps in brackets are those of `feed_new`: the append under the mutex, the
path made from `m_feeds.length` read without it, and `mkdir`.  `add_packet` keeps
neither the feed number nor the name of its file in locals: it reads the slot
again for each (`ReadTarget`, `NumberFeed`, `Aim`, `WriteFile`), and `Timeout`, which is
`check_transfers_timeout` on the TCP thread between two requests, may zero the slot
in between; an announcement then has the empty name (`Nameless`) or goes to
feed 0, and `open` fails on the directory.  A pointer from
`get_pseudo` is `[pseudo, cap]`: it is good as long as the array has the capacity
it had; after that any pseudo may be read.  `PostNowhere` is `post_new` on a feed
number that no feed has.  With `DiskFaults`, `mkdir` and `open` may fail on any path.
`replies` and `author` are what the clients know.

`raced` is not in the code.  It remembers that the threads have been in each other's way (`Race`):
both were opening a feed, or the TCP thread posted to the feed the UDP thread had
not announced its file in yet, or the table of users moved under the pointer that the
UDP thread held, or the slot it was publishing was cleared.

`Board` has `Join`, `OpenFeed` and `AddPost`, and `exact`.  While the board is exact, a feed is born
with its creator's post and posts carry the pseudos of members; once it is not, feeds
may be empty and posts signed by anybody, but what is on the board stays
there, unchanged and in its place.  Under the mapping `members <- Members,
board <- VisibleFeeds, exact <- Exact` a registration is a `Join` or, with a
pseudo somebody has already, a stutter; `FeedAppend` is a stutter, and the feed
becomes visible with its first post (`OpenFeed`); later posts are `AddPost`.  `Exact` ends when
the threads race, when one of their loops ends, or when feeds outgrow their numbers.

### LastPosts

`rd`, the record of the TCP thread, holds the locals of `last_posts_request` while it is
served; all steps of `Feeds` go on beside it.  The three reads of
`posts->length` are three actions, the copy of a post is another, and both
`InPlace` (the array of feeds has not moved) and the capacity of the array of
posts are looked at where the pointer is used.  `seen`, the posts there were when
the request came in, is a history field for the property.

### Transfers and FileBlocks

`FileBlocks` counts lengths in half packets.  `NumBlock` is the 16-bit arithmetic
of `ftransferrqs_new`: a file of k full packets gets k + 2 blocks, the last of
them empty and the one before of what lies beyond the file.  `BlockLen` is the
other computation of the same, made where the blocks are sent.  A file that fills its packets
is sent with one packet more, and so received and written one packet (512 bytes) longer than it
was: `Beyond`.  Nothing else may be added or missing, in `PublishedWhole` and `DownloadWhole`.

A world, drawn at the start and kept, says which sizes files have, what the network
does, whether clients wait for the end of a transfer, whether the timeout check
may find one, and whether a call for a directory or a file may fail; properties that need a good world
name it (`Orderly`, `Calm`).
A slot is the
record of `m_tranfer_files`; its array of blocks has gaps (`Hole`) where `set` was
called past the end.  The UDP thread takes `add_packet` in steps: `Receive`,
`Store`, `TestComplete`, `OpenFeed`/`NumberFeed`, `Announce`, `OpenFile`,
`CopyFile`, with `OpenFeedFails` and `OpenFileFails`, after which the UDP loop ends, because `check_transfers_timeout` (`TimeoutFree`, `TimeoutZero`)
takes no mutex and can come between any two of them.  `StoreNowhere`, `AnnounceNowhere` and
`CopyFreed` are the accesses that end the process.  A download is
`PrepareDownload`, `SendFile`, `ClearDownload`.

### ClientTransfer

`menu`, `udp` and `slot` are the two threads and `m_tranfer_file`; `open` is the
set of open sockets and `stray` remembers a close of a descriptor that was not
one of them.  The server is external: it accepts, refuses or is lost, and sends
the datagrams of a file it has accepted.  Here too a `world` is drawn at the start; where its disk fails
`write_file` may fail for any path (no `HOME`, no directory, no permission), and the UDP thread
ends (`SaveFails`, `udp_client.c:83-84`), as it does on the path of an upload in any world.  An upload that
cannot be opened or sent ends the menu (`OpenUpload`, `UploadFails`).

### Wire, Accounts and Exchange

`Wire` writes and reads the fields of each message as the `hton_` and `ntoh_`
functions do, and has `recv_request` as operators: where the first CR is, whether
LF comes after it (which is looked at even if that byte has not come yet), what is
cut off and what is kept.  Nothing is escaped, so that a 13 in a length, a feed
number, a port or a header counts as CR.

`Exchange` has client processes with one menu thread each and the server's TCP
thread.  `conns` are the connections: what was asked, the bytes under way in both
directions, who has the connection open, and, for the properties, what the server
answered.  On the server `fds` is `m_fds` after the listening socket with -1 for a
slot that was given up, `infos` the bytes kept for each descriptor in
`m_connection_infos`, `at` the connection each descriptor stands for, and `loop` the
locals of `tcp_server_loop` and the functions it calls:

    Poll -> [Accept... NoMoreToAccept] -> (Receive... TakeRequest -> SendFrame... -> Finish)...

Accepting clears the buffer of the descriptor and closing does too.  A failure ends the loop in one of
two ways: where receiving, handling or sending fails the connection is closed first
and its descriptor stays in its slot (`Drop`, `tcp_server.c:100-121`); where `accept`, an allocation
or the sending of a file fails it is not (`GiveUp`).  A client in the middle of an answer that is
dropped sees the end of the stream, which `recv_request` takes for a message, and each
post it still expects is an empty one (`TakeEnd`, `Filled`).
A request is handled in one step, `Handle`, with any answer its handler may give:
how the handlers come to their answers is what the other modules model.  On the client
`rest` is the static `rb_rq`, kept from one connection to the next:

    Ask -> Send -> Read... TakeFrame... -> Done, or StartAdd -> AddAccount

`calm` says that in this run no client leaves and no call of the server fails.
`murky` collects the clients for which some message had a byte 13 or whose frames
were cut between CR and LF; for all others the exchange must be right.

`Accounts` has the mapped file as a sequence of places; `add_account` finds the
first free one and copies the user there, in two steps, since nothing keeps
another client from doing the same: `fcntl` is called with `F_SETLK`, which does not
wait, and its answer is not looked at.

### ClientNotifications

`queues` is `m_notification`, `place` how often it has moved, `subs` is
`m_subscriptions` with the place each pointer to a queue was made at, `next` the
pointers of the nodes.  The menu thread takes `dequeue` in steps (`Dequeue`,
`Unlink`, `Uncount`, `Uncounted`, `Show`) and the notifications thread `enqueue`
(`AddNotif`, `LinkFirst` or `Link` and `MoveTail`, `Count`, `Counted`), which
interleave freely.  `center.fds` is the array polled.  `overlap` remembers that a queue was
filled while it was emptied; what the code then does, a `NULL` that is read
included, is in the model.

### Notifications

`posts` counts the posts of each feed; `notif` is the pointer in each slot of
`m_feeds`, off by one as in the code; `loop` is the notifications thread with
`nb`, `i`, `n` and `first`; `sent` is what went to each group.  `granted` has the
answers to subscriptions.  `Answer` reads a pointer that was set; where it was not, what
is read may be the group of any feed or of none (`AnswerByChance`), or the process is killed
(`AnswerFromNowhere`).

### ThreadPool

One thread `Main` and `PoolSize` workers; `mutex` is the holder of `q_mutex`,
`waiting` the sleepers on `q_cond`.  `pthread_join` is modelled as the C library
the server is linked with behaves: joining oneself, one's joiner or a thread that
is being joined fails at once.  A worker's test of `active` and its `dequeue` are two steps
(`Decide`, `TakeJob`), since a loop that returns clears `active` without the mutex.

`JobPool` has `Add`, `Choose`, `Start`, `Return` and `ExitProcess`, and no threads.  `pending` is the queue,
`started` the jobs workers have, `returned` those of the workers past their loop, and `chosen` says that a
worker is between the two steps above.  Once a job has returned none is chosen, so that at most
one starts after that; locking, sleeping, waking, shutting down and joining are stutters.

## 3. What is checked

| Run | Instance | Properties | Shows |
|---|---|---|---|
| `feeds_core` | 2 users in a table that starts with 1 place, 3 payloads, at most 2 feeds; both threads open feeds, posts may name a feed there is not, slots time out | `TypeOK`, `RepliesTruthful`, `SignedBySender`, `NoOrphanFeed`, `FilesAnnounced`, `ImplementsBoard`, `RequestsEnd` | replies and files are truthful, signatures right where the pointer still is, and the board is kept and every request answered until the threads race |
| `feeds_creator` | 2 users, 3 payloads; both threads open feeds, the table of users does not move | `CreatorPostsFirst`, violated | finding 1 |
| `lastposts_run` | arrays that start with 2 elements, 4 posts, 3 feeds; both threads open feeds, `mkdir` and `open` fail, slots time out, feed numbers wrap at 3 | `UnbrokenRun`, `PostTargetExists` | answers that nothing moved under are an unbroken, recent and long enough run, and no post is aimed at a feed there is not, but for numbers that have wrapped and a slot cleared in between |
| `transfers_all` | 2 clients; a good network with 3 requests and files of 1 to 3 blocks, the same with a disk that fails, one network that loses and reorders, one that repeats, one that does all of it on a bad disk; with timeouts or without | `TypeOK`, `PublishedWhole`, `ServerLives`, `OncePerRequest`, `Isolation`, `UploadsComplete`, `SlotsReleased` | in order what is published is whole, on a bad disk too, and if the disk is good every upload is published once its datagrams are in; on any network none is published twice or mixed with another, and slots come back |
| `transfers_race` | 2 clients, uploads only, good network, timeouts | `PublishedWhole`, violated | finding 2 |
| `notify_all` | 2 feeds, 2 posts in each, 2 subscriptions, failing sends | `TypeOK`, `SentInOrder`, `GroupOfFeed`, `CaughtUp` | order, no repetition, the group of the feed asked for unless it is read through a pointer nobody set, which only feeds that have a later one hold, and that rounds catch up |
| `notify_skip` | 1 feed, 2 posts, 1 subscription | `EveryPostNotified`, violated | finding 3 |
| `pool_all` | 3 workers, 3 jobs, each may end | `TypeOK`, `JobOnce`, `ImplementsJobPool`, `JobsStart`, `AllEndedExits` | no job lost or run twice, the order of the queue kept, no early exit, an exit at the end |
| `client_all` | files of 2 or 3 blocks, 4 requests, a good network and a user who waits; the same with 3 requests and a disk that fails; files of 1 or 2 blocks, 3 requests, loss, reordering, timeouts, a disk that fails, a user who does not wait | `TypeOK`, `DownloadWhole`, `NoStrayClose`, `PollsOpenSocket`, `DownloadsSaved`, `UdpComesBack` | a user who waits gets every file, unless the disk fails, and each whole, and no descriptor but those of sockets is closed; whatever the user does, the UDP thread polls an open socket, and comes back to wait or ends |
| `exchange_all` | 2 clients, 2 connections, one user who exists already, ids 1 and 104, five kinds of request of which some hold or provoke a byte 13; calm and not | `TypeOK`, `RequestAsSent`, `AnswerAsSent`, `AccountsKept`, `EveryoneServed` | what is handled is what was sent and what is shown is what was answered, or its beginning where the server dropped the connection, however the bytes come and whatever was used before, and accounts stay |
| `exchange_cr` | 1 client, posts of 12, 13 and 269 characters | `PostHandledAsTyped`, violated | finding 4 |
| `client_notify` | 2 subscriptions, the second of which may move the queues, 4 notifications | `TypeOK`, `ShownInOrder`, `NothingLost`, `NotificationsTaken` | order and completeness of what the menu prints while the queues are filled |

### Why the bounds are enough

* **Feeds.** A wrong interleaving needs the two threads and, between them, one
  feed and one post each: two users (so that an author can be wrong), two feeds
  (so that a post can land in the other one) and three payloads (one per
  thread and one that is there before).  `InitCap = 1` makes the second registration move
  the table of users, with a pointer into it or without.  Payloads are sent in order
  (`InTurn`): they are only compared, so that every other run is one of these with its payloads renamed,
  and nothing that is enabled for fairness is cut off.  A disk that fails
  and numbers that wrap are in `lastposts_run`, which has all the steps of `Feeds`, and in the theorems.
* **LastPosts.** `InitCap = 2` makes arrays move at the third element, the
  smallest size at which there is something before the move to go stale; `U16 = 3`
  makes the third feed the one whose number wraps.
* **Transfers.** A block of a later request meets a slot of an earlier one with
  two requests of one client; two clients show isolation; with two blocks
  there is a first and a last, in both orders, and with three a gap in the middle.
  Size 2 is the file that fills its packets exactly.
  A datagram is duplicated at most once: a further copy finds the slot in a state
  the first copy could have found it in.
* **Notifications.** Two feeds for the slot that is off by one, two posts for one
  in a round and one during it.
* **ThreadPool.** Three is the size of the server's pool and the number of its jobs.
* **ClientTransfer.** Three requests: one in progress, one that takes the slot
  over, one after.
* **Exchange.** A second connection is what a descriptor, a slot, a buffer or the
  bytes left over can be used again by, whether it is of the same client or of another.  A
  third would meet what the second met.  Bytes arrive up to a CR, all
  at once, or 7 of them (`Ends`), which splits the longer messages within their fields: where else
  a piece ends makes no difference, since nothing is decided before a CR has come; the theorems hold for
  any ends.  A file with room for two accounts, one of them taken, can be raced for and
  can be full.
* **ClientNotifications.** With four notifications a queue has a first, a last and one
  between while another is linked; two subscriptions show that feeds do not mix and, with
  `InitCap = 1` in place of 8, that the second moves the array.

`CHECK_DEADLOCK FALSE` is everywhere because clients run out of requests,
payloads or posts, and the models then rightly stop.

### Fairness

Weak fairness, and only of a thread's own steps: a thread of the program that can go on
does, as the operating system schedules it.  `ClientTransfer` also assumes that the
server sends the files it has accepted to send, `Transfers` that a slot which stays
active is found by the timeout check, which the TCP loop makes whenever `poll` returns.
`Exchange` states one condition for all its processes, `WF_vars(calm /\ Steps)`: as long
as some process can take a step, one is taken.  That is weaker than fairness of each,
and enough because in a calm run every step brings some request nearer to its answer.
Nothing is assumed of users, of the network's faults, of `mkdir` or `sendto`, of
spurious wake-ups, of loops that may end, nor of new requests.  The liveness properties
say that what was accepted ends (`RequestsEnd`, `UploadsComplete`, `DownloadsSaved`),
that what cannot end is given back (`SlotsReleased`, `UdpComesBack`), that every request
is answered in a calm run (`EveryoneServed`), that the thread of notifications wakes up
and takes what comes on its first socket (`NotificationsTaken`), that the rounds catch
up once nothing comes any more (`CaughtUp`), and that jobs start and the process exits
(`JobsStart`, `AllEndedExits`).

## 4. What is proved

Every theorem holds for all values of the constants that satisfy the assumption
of the module it is about.  These assumptions say that limits are numbers,
that sets of ids are finite and special values special, and where a module
leaves moves of an array out, that its bounds are below the first move.
`PoolAssumption` asks for a job, as `launch_server` adds three.

| Theorem | States | With |
|---|---|---|
| `FeedsProofs!TypeSafety` | `TypeOK` | all faults |
| `FeedsProofs!RepliesAreTruthful` | a reply names the feed that holds the post, a refused post is nowhere | all faults |
| `FeedsProofs!FilesAreAnnounced` | a file on disk is announced by a post of its feed | all faults |
| `FeedsProofs!PostsSignedBySender` | `SignedBySender`: the TCP thread always signs as the sender, the UDP thread as long as the table has not moved since it looked | all faults |
| `FeedsProofs!PostTargetsExist` | `PostTargetExists` | all faults |
| `FeedsProofs!FeedsImplementBoard` | `ImplementsBoard` | all faults |
| `FeedsProofs!NoFeedIsOrphan` | `NoOrphanFeed` | all faults |
| `FeedsProofs!RunsUnbroken` | `UnbrokenRun`, for answers nothing moved under and feeds that 16 bits count | all faults, any requests |
| `TransfersProofs!TypeSafety` | `TypeOK` | any network, clients and clock |
| `TransfersProofs!ClientsApart` | `Isolation` | any network, clients and clock |
| `TransfersProofs!AnnouncedOnce` | `OncePerRequest` | any network, clients and clock |
| `TransfersProofs!CalmServerLives` | `ServerLives`, a property of worlds where nothing times out and no call for a directory or a file fails | |
| `TransfersProofs!PublishesWhole` | `~ world.timeouts => PublishedWhole`: all blocks in order, and the size of the file, or one packet (512 bytes) more if it fills its packets | a disk that fails |
| `ClientTransferProofs!TypeSafety` | `TypeOK` | any network and user |
| `ClientTransferProofs!NeverPollsClosed` | `PollsOpenSocket` | any network and user |
| `ClientTransferProofs!SavesWhole`, `ClosesOwn` | `DownloadWhole` (the size is that of the file, or one packet more if it fills its packets), `NoStrayClose`, properties of calm worlds | a disk that fails |
| `NotificationsProofs!TypeSafety` | `TypeOK`: no count wraps | failing sends |
| `NotificationsProofs!InOrder` | `SentInOrder` | failing sends |
| `NotificationsProofs!GroupsOfFeeds` | `GroupOfFeed`: the group of the feed asked for, unless the pointer was never set, which never happens for the last feed | failing sends |
| `ThreadPoolProofs!TypeSafety` | `TypeOK` | any jobs may end |
| `ThreadPoolProofs!JobsOnce` | `JobOnce` | any jobs may end |
| `ThreadPoolProofs!ExitsAfterEnd` | the process has not exited unless a loop has ended | any jobs may end |
| `ThreadPoolProofs!PoolImplementsJobPool` | `Spec => JP!JobSpec` | any jobs may end |
| `ClientNotificationsProofs!TypeSafety` | `TypeOK`: no queue begins with freed memory | both threads in the queues at once, queues that move |
| `ClientNotificationsProofs!ShownOrdered` | `ShownInOrder` | the same |
| `ClientNotificationsProofs!NothingIsLost` | `NothingLost`, a property of queues that stayed in place and were not used by both threads at once | |
| `ExchangeProofs!TypeSafety` | `TypeOK`: slots, descriptors and connections agree, but for one closed descriptor a slot may keep once the loop has ended | failing calls, clients that leave |
| `ExchangeProofs!RequestsAsSent` | `RequestAsSent` | the same |
| `ExchangeProofs!AnswersAsSent` | `AnswerAsSent`: the answer, or where the connection was dropped its beginning with empty posts after it | the same |
| `ExchangeProofs!AccountsStay` | `AccountsKept`: users of the server, and all of the added ones unless two added at a time | the same |

`Calm`, `Good`, `Joined`, `Exact` and `~ raced` are hypotheses that the properties themselves make,
not restrictions of the theorems: without them the properties fail, as
section 5 tells.

### The inductive invariants

**`Feeds`.** `TruthInv` strengthens `RepliesTruthful`: what a thread
or a slot carries has an author and is not a refused payload (`CarriedWasSent`,
`RefusedNotCarried`), what was answered with a feed number is there
(`RepliedWasSent`, `AcceptedPosted`), and a thread that is past `post_new` has a
post in the feed it will name (`PostedBeforeEnd`).  The last one is what makes
both the reply and the file truthful; `RepliesTruthful` alone is preserved by no
step that ends a request.

`SignInv` is about the name a post is signed with, which `get_pseudo` returns as
a pointer.  An id belongs to one user (`UniqueIds`); a slot and a request belong to the user whose id they
carry, who sent what they carry (`OwnSlots`, `OwnRequests`); and the TCP thread, which
alone moves the table, holds no pointer when it does (`OwnPointer`), which is why its posts
need no condition while those of the UDP thread need that the table has not moved since.  The code
starts the table with 8 places and lets 2047 users in: nothing bounds it here either.

`TargetInv` is about numbers.  As long as there are fewer feeds than numbers, the TCP thread's is
that of a feed or of the one it is about to append (`TcpAimed`), a slot in use has 0 or the number of a feed
(`SlotsAimed`), and what the UDP thread reads of its slot is 0 only where `feed_new` comes or has come
(`UdpAimed`), if the slot was not cleared meanwhile.

`BoardInv` makes the steps of the code steps of the board.  `raced` is set in the state in which
threads first meet, so that as long as it is not they are apart; and then (`BoardParts`) a feed without
posts is the last one and that of a thread in `feed_new` (`EmptyIsOpened`) whose pseudo it was created with
(`OpenersOwn`), that thread numbers it right, beforehand (`TcpOpens`) or afterwards in its
slot (`UdpOpens`), and slots name feeds that have posts (`UdpKnows`, `UploadsFull`).  Each conjunct is
needed for the simulation: without them the first post of a feed may not be its creator's, which
`feeds_creator` shows to happen when both threads open feeds at once.  Nothing is assumed of
the constants: when the threads do race, the board stops being exact in that step, and keeps
what it has.

**`LastPosts`.** The walk reads a length three times and an array once for each post while other
threads append, so that no two of these reads agree.  `LPInv` has the shape of the
feeds and, while the TCP thread is in `last_posts_request`, `WalkInv`: the posts there were when the request came
are still there (`SeenThere`); what is left to copy lies inside the feed, because the start is found after the number
(`WalkBounds`, `CountFits`); and, as long as nothing read was `Garbage`, what has been copied is a run
of the feed at hand that ends where the next post is read, with a whole run behind it for each
feed left behind (`Copies`, by `RunSoFar`, `OutBefore` and `HasRun`).  It is the
bound on what is still to be copied, added to what has been, that gives the length asked for.  The steps of
all other requests leave the walk alone (`WalkLeftAlone`) and only let feeds grow (`FeedsGrow`), under which a run
stays one (`HasRunKept`).  `Garbage` enters an answer as the code makes it: by a pointer into an array that
has moved, by a feed that has, or by the address the caller kept.

**`Transfers`.** `TypeInv` adds to `TypeOK` that the number of every packet under
way is that of a block of a file (`PacketsFit`); this bounds the
array of a slot, since `set` grows it to whatever index it is given.
`Ownership` has `Isolation` for slots and files and the same for what is on its way to
them: the packets on the network and the one in the UDP thread's hands.
`AnnouncedOnce` needs to know that an announced request does not stay in its slot: it is
there only while the UDP thread is between the post and the end of the file, or after that thread
has ended (`PostedInHand`), and no request of a later number has been announced (`PostsAsked`).  `CalmInv` follows the packets of an upload one
by one: what the slot holds, what the UDP thread holds and what is on the network
are together the blocks of the file, in order, and while that is so neither
thread can meet one of the accesses that end the process.  A thread may end only where the disk fails, and
then what was published stays whole (`AllWhole`, `ThreadsLive`).

**`ClientTransfer`.** `PollsOpenSocket` needs that the socket in the slot is open unless
the UDP thread is about to take it out (`SlotSocketOpen`).  `CalmInv` says, of a user who
waits on a good network, that the menu prepares a transfer only while the UDP thread has none
(`MenuInv`), that the thread polls the socket in the slot (`UdpInv`), that the datagrams on their
way are exactly the blocks the slot does not have yet (`SlotInv`), and that what was saved is
whole (`SavedInv`).  Both ends rest on the lemmas of `FileBlocksProofs` about the number
and the lengths of blocks, the 16-bit arithmetic included.

**`Notifications`.** `TypeOK` needs that the loop goes no further than the number of subscriptions it
read.  `OrderInv` adds that nothing was sent to a group beyond `last_send_post` and the part of the
batch the round has sent (`NothingBeyond`, `BatchFromLast`); `PointersOfFeed` is what `GroupOfFeed` needs of the pointers in the
slots that are off by one, and `GarbageInFeeds` says that a pointer nobody set is in the slot of a feed that
has come, so that whoever is answered through it asked for an earlier one.

**`ThreadPool`.** `PlaceInv` says where a job is: not yet added, once in the queue, or
taken by one worker.  `CauseInv` says that a thread which is past
`wait`, in `shutdown` or joining has a loop that ended behind it, its own or somebody
else's; it needs that a worker in a loop has a job and that who joins a worker waits for that one.
`ClosesPool` is what `PoolImplementsJobPool` needs in addition: where a loop has ended the pool is inactive,
and stays so.  With `PlaceInv`, the job the main thread adds is new to `JobPool` and the one that
returns had not returned before; with `CauseInv`, whoever exits does so after a return; with the
mutex, no two workers are about to take a job.

**`ClientNotifications`.** The difficulty is a linked list that two threads change pointer by
pointer under no common lock.  `TypeInv` contains that only the queue of the socket that is read is
ever filled (`OneQueue`).  `OrderInv` uses that messages are numbered as they come: along the
queue the numbers rise (`HeadsRise`), what a queue, a pointer or a thread knows came before
what is still to be enqueued (`PlacedEarlier`), what was freed came before every head.  This
holds even when both threads are in the queue at once or the array has moved, and it is why a freed
node is never the head of a queue and never printed.  `JoinInv` ties
descriptors to feeds when every subscription got its socket.  `KeptInv` is exact: while
no queue has moved and none was filled while it was emptied (`Good`), the messages that came for
the feed that is read are, in order, those printed, the one in the menu thread's hands, those linked
from the head, the one in the hands of the notifications thread, and those at the
socket.  `InLine` states this in indices, with a case for each place between two assignments of
`enqueue` and `dequeue`, and `NothingLost` is the case in which both threads are at rest.  TLC
checked each of these invariants on small instances before it was proved.

**`Exchange`.** `TypeInv` says that the array of sockets and the descriptors of the process are one
another's images: a descriptor is in one slot as long as it stands for a connection, the slots still
to be served in a round are not given up (`SlotsOpen`), and a connection waits to be accepted or
has one descriptor (`OneEach`).  From this follows that there is a free descriptor for every
connection that waits, a pigeonhole argument without which `accept` would not be total
(`FreeFdIs`), and that nobody but the descriptor served has the connection served.  It also bounds
every field by the width it has on the wire, so that the bytes written are the bytes read:
`RequestRead` proves that a request comes back from its bytes as it was, the 11 bits of an id and the
5 of a type included.
`RequestInv` follows the bytes.  For every connection that waits or has a descriptor, the bytes the server
has read and those under way are together the request of its client and CR LF, or nothing was
sent yet, or a byte of a message of that client is CR (`Coming`).  The buffer of a descriptor is
empty when a connection is accepted, so that nothing need be known of it before: closing clears it as
well, which the proof does not use.  With `SlipReceived` in the place of `Received` a second piece of a request
replaces the first.
`CutWhole` then shows that the first CR in a buffer is the one that ends the request, with
or without its LF, and that nothing of it stays behind.
`AnswerInv` does the same for the answer, which is several frames and is sent, received and taken in
steps of its own.  For a client that waits there is a number n of frames sent (`Taking`) such that what
the client has got is the beginning of the answer, what it keeps of the bytes it read and what
is under way are together the frames from there up to the n-th, each with its CR LF, and what the
loop of the server holds are those after the n-th; when the server has closed the connection n is all
of them, unless it dropped it; what a client shows then is the answer cut before one of its posts
(`Shown`, `CutOff`), and an answer without posts is never cut (`NoneCut`).  `Framed` says where each frame lies by a function of positions, so that no recursion is needed:
`FramedFirst` takes the first frame off, `FramedLonger` adds one, and `HeadRead` and `PostRead` are what
`RequestRead` is for requests.  It needs that the server answers only the connection it serves (`NotYet`), that
it has lost none that is open (`NoneLost`), and that a client in its menu has nothing left over from an earlier answer, which
with `SlipKept` in the place of `Kept` is false.
`AccountInv` goes from the answer to the file.  Who was granted a registration asked for one, and the
number granted is a user with the pseudo asked for (`GrantsRegistered`), by `RequestAsSent` in the step that
answers; so what a client adds is a user (`AddsRegistered`), by `AnswerAsSent` in the step that
shows the answer.  As long as no two clients have added at a time, one adds at most, its place is free until the
number is written and holds that number until the pseudo is (`PlaceKept`), and the file is what was
stored (`FileKept`).  That `NbAccounts + 1` is free is `PlaceIsFree`, from the count stopping at the first
place that is; that a written number does not look like a free place needs that no user has number 0
(`UsersNumbered`).

### What is only model-checked

* Liveness, which needs fairness and `ENABLED`: `RequestsEnd`, `UploadsComplete`, `SlotsReleased`,
  `CaughtUp`, `JobsStart`, `AllEndedExits`, `DownloadsSaved`, `UdpComesBack`, `EveryoneServed`,
  `NotificationsTaken`.

Every safety invariant, action property and refinement of a passing run is stated by a theorem.  `Board` and `JobPool` are
specifications and not claims: `FeedsImplementBoard` and `PoolImplementsJobPool` are about them.

## 5. What was found

Shown by a run, as a violation of what a comment or the documentation says:

1. **A post lands in somebody else's feed** (`feeds_creator`).  `post_request`
   numbers the feed it will open with the count read on entry
   (`network/server/request_manager.c:81`).  An upload to feed 0 opens one
   meanwhile, and the post goes there.
2. **An empty file is announced** (`transfers_race`).
   `check_transfers_timeout` (`network/server/data.c:356`) clears a slot without the
   mutex; between line 420 and line 423 of the other thread, the cleared slot
   compares 0 with 0 and counts as complete.
3. **A post is never notified** (`notify_skip`).  `notifications_loop` counts the
   posts, sends them, and marks as sent all there are by then
   (`notifications_server.c:43`).
4. **A post of 13 characters is stored empty** (`exchange_cr`).  `recv_request` ends a
   request at its first byte 13 (`network/request.c:157`); the length of such a post is one.
   The prompt promises 255 characters (`user/user_input.c:180`).

Seen while modelling, kept in the models as the code does them, and without a run of their own:

* a failed `mkdir` refuses the request and keeps the feed (`network/server/data.c:239`,
  against `src/include/network/server/data.h:114`);
* the number of the last feed wraps to 0 (`request_manager.c:81`);
* the pseudo an announcement is signed with is read through a pointer that may be stale (`data.c:173`, `424`);
* a slot that is cleared while its file is published makes the announcement go to feed 0, which there is not, or
  have no name (`data.c:345`, `433`);
* a directory that cannot be made, even because both threads opened feeds at once, or a file that
  cannot, ends the UDP loop for all clients (`data.c:425`, `369`, `udp_server.c:27`);
* a download that cannot be saved ends the UDP thread of the client (`client/data.c:295`, `udp_client.c:83`);
* an answer the server fails to send to its end is shown with empty posts (`tcp_server.c:116`,
  `client/network.c:231`);
* a subscription may be answered through a pointer nobody set, with the group of another feed
  (`request_manager.c:215`);
* with a block lost in the middle, a file counts as complete and is published with a hole
  (`data.c:423`); late datagrams are stored in the transfer that has the slot
  by then (`data.c:404`, against the comment at 403);
* the array of replies may have moved for the caller of `last_posts_request` (`request_manager.c:343`);
* a request for all posts of a feed goes by a length read again (`request_manager.c:140`);
* notifications carry the number of subscriptions for a feed number
  (`notifications_server.c:37`), and `get_feeds` counts from 0 (`data.c:264`);
* workers whose loops have ended join one another, and one that gives up keeps the mutex
  (`system/thread_pool.c:101`, `22`): only the exit of the process ends them;
* on the client, a transfer asked for during a download takes its slot over, so that the
  download is lost or its blocks are stored for the other, and a close of the cleared slot closes
  standard input (`network/client/data.c:115`, `367`; `udp_client.c:61`);
* any number with a byte 13 cuts a message: a post to feed 13 is handled as one to feed 0, an
  answer about feed 13 is read as one about feed 0, and users 104 to 111, in whose headers the
  high byte is 13, are not served (`network/request.c:157`);
* a post of more than 255 characters keeps its length modulo 256 (`user_input.c` reads 512 bytes,
  the length is 8 bits wide), and small negative numbers pass for feed numbers;
* when CR is the last byte that has come, its LF becomes the first byte of the next message
  (`network/request.c:162`): the client then misreads the posts of an answer;
* a client that leaves before its request makes the server call a handler for type 0, which
  there is not (`request_manager.c:344`), and one connection that fails ends the service of all
  (`tcp_server.c:100`);
* two clients that add an account at once may take the same place, and one of the accounts is lost or half
  of each is kept (`user/user.c:39`);
* `recvfrom` on the first readable socket of the notifications thread waits for more on that one:
  notifications of the other feeds are not taken any more (`notifications_center.c:23`);
* the menu empties the queues under no lock: a notification can be lost or a `NULL` read
  (`tcp_client.c:121`), and when the ninth subscription moves the array, what the earlier ones receive
  goes to the old copy or nowhere (`client/data.c:177`); a socket whose group cannot be joined is closed and used
  (`tcp_client.c:198`);
* a file whose size is a multiple of 512 is sent 512 bytes longer, with what lies beyond its mapping,
  which for a multiple of 4096 is no memory of the process (`network/request.c:122`); the 16-bit number of
  blocks is 0 for the last sizes below 2^25 bytes and 2 at 2^25, which the limit of the size lets through.

## 6. Abstractions and what is left out

* Contents are payloads that are sent once; a block is the pair of its file and
  its place; a length is counted in half packets, enough to tell a full
  packet from a short one.  In `Wire` a pseudo and an address are one byte and a text two,
  whatever its length says: enough for a field to be at its place, to be cut, or to be 0.
* Where arrays are small enough never to move (fewer than 8 feeds, posts of a
  feed and subscriptions in `Notifications`, at most 8 blocks in `Transfers`),
  moves are not modelled there.  They are in `Feeds` (users) and `LastPosts` (feeds, posts).
* What is read through a stale pointer is any value of its kind; the program may
  also be killed (`up`).
* `check_transfers_timeout` frees and then zeroes: two actions; a block freed by both threads in
  between is left out, and an access to the freed blocks ends the process.
* Left out: exhaustion of memory, failures of `ftruncate` and `mmap`,
  sockets that cannot be created (but for that of an upload, which is `UploadFails`), the release of everything
  at exit.
* `Transfers` has the slots of registered ids only.
* In `Exchange` a connection ends when both ends have closed it, and what was under way is
  forgotten; a descriptor is the lowest that is free.  `m_fds` does not move, because it
  is made with room for 2047 sockets.  The descriptors that the timeout check closes
  (`data.c:355`) are left out: it closes whatever is in a field nobody set.
* In `ClientNotifications` memory that was freed is not handed out again, and the lock of
  the subscriptions, which only `add_notif` holds for longer than a step, is the guard of
  `AddSubscription`.  A `recvfrom` or `malloc` that fails is left out.
* In `LastPosts` a feed number that has wrapped is a behaviour of the model, and `UnbrokenRun` is
  stated for boards of fewer feeds than 16 bits count.
* Not modelled: command lines and start-up, which is sequential and comes before there
  are threads; reading the terminal and printing; the logger and the build.
* No module composes all six handlers with their data: each is in the module of the data it
  works on, and `Exchange` has what they may answer.  What they share is the array of feeds, which `LastPosts` and
  `Feeds` have whole, and the others as far as they depend on it.

## 7. Plan

Done: `Board`, `Feeds`, the refinement and its proof, `LastPosts`, `Transfers`,
`Notifications`, `ThreadPool`, `ClientTransfer`, `Wire`, `Accounts`, `Exchange`,
`ClientNotifications`, `JobPool`, and the theorems about all of them.

Left:

* a composition of `Transfers` and `Feeds` in which the upload slot of
  `Feeds` is the slot of `Transfers`, and a refinement that shows `Transfers` to implement the
  publication of `Feeds`.
