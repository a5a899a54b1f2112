------------------------------- MODULE Feeds -------------------------------
(***************************************************************************)
(* The data of the server and the two threads that change it.              *)
(*                                                                         *)
(* The TCP thread serves one request at a time: registrations, posts and   *)
(* the preparation of uploads.  The UDP thread collects the packets of an  *)
(* upload (Transfers.tla models that part) and, when the last one is in,   *)
(* publishes the file: a post announces it, and the file is written in the *)
(* directory of its feed.  Both threads reach feed_new and post_new, and   *)
(* each critical section of data.c, and each access the code makes outside *)
(* of one, is an action here, so that the two threads interleave as in the *)
(* program.                                                                *)
(***************************************************************************)
EXTENDS Naturals, Sequences, FiniteSets

CONSTANTS
  Ids,          \* the ids generate_new_id may hand out (1..ID_MAX)
  UserMax,      \* USER_MAX
  Pseudos,      \* the pseudos clients register with
  Nobody,       \* the pseudo of no registered user
  None,         \* no upload, no pointer, no payload
  Payloads,     \* contents of posts and names of files, each sent once
  Nameless,     \* the empty name of a slot that holds no upload
  PostFeeds,    \* feed numbers that post requests carry
  UploadFeeds,  \* feed numbers that upload requests carry
  FeedNbMax,    \* FEED_NB_MAX
  U16,          \* a uint16_t holds 0..U16-1
  InitCap,      \* INIT_CAP: the capacity an Array starts with
  OldDirs,      \* directories an earlier run of the server may have left
  DiskFaults    \* may mkdir and open fail where the path is right (full disk,
                \* rights)?

Threads == {"tcp", "udp"}
ErrorFeed == 0                        \* the feed number of an error reply

ASSUME FeedsAssumption ==
  /\ IsFiniteSet(Ids)
  /\ UserMax \in Nat /\ UserMax <= Cardinality(Ids)
  /\ Nobody \notin Pseudos /\ None \notin Pseudos /\ Nobody # None
  /\ None \notin Payloads /\ Nameless \notin Payloads /\ Nameless # None
  /\ PostFeeds \subseteq Nat /\ UploadFeeds \subseteq Nat
  /\ FeedNbMax \in Nat
  /\ U16 \in Nat \ {0}
  /\ InitCap \in Nat \ {0}
  /\ OldDirs \subseteq Nat
  /\ DiskFaults \in BOOLEAN

VARIABLES
  users,        \* m_known_users
  usersCap,     \* m_known_users.capacity
  feeds,        \* m_feeds
  dirs,         \* the feed directories that exist under UPLOAD_FILES_PATH
  files,        \* the files written by write_file
  upload,       \* m_tranfer_files: the slot of each id
  thr,          \* where each thread is, and its locals
  up,           \* the process has not been killed by an invalid access
  replies,      \* answers to post requests, as the clients see them
  author,       \* for each payload, the pseudo of the client that sent it
  raced         \* not in the code: the threads have been in each other's way

vars == <<users, usersCap, feeds, dirs, files, upload, thr, up, replies, author,
          raced>>
dataVars == <<users, usersCap, feeds, dirs, files, upload>>

User == [id : Ids, pseudo : Pseudos]
Post == [pseudo : Pseudos, data : Payloads \cup {Nameless}]
Feed == [creator : Pseudos, posts : Seq(Post)]
Pointer == [pseudo : Pseudos, cap : Nat]
Upload == [active : BOOLEAN, feed : Nat, data : Payloads \cup {Nameless}]

(* transfer_clear zeroes a slot. *)
Cleared == [active |-> FALSE, feed |-> 0, data |-> Nameless]

-----------------------------------------------------------------------------
(* Users *)

UsedIds == {users[i].id : i \in DOMAIN users}

(* get_pseudo: the first user with that id, as a pointer into the array,   *)
(* good as long as the array is not reallocated.                           *)
FirstUser(id) == CHOOSE i \in DOMAIN users :
                   /\ users[i].id = id
                   /\ \A j \in 1..(i-1) : users[j].id # id
PseudoPointer(id) == [pseudo |-> users[FirstUser(id)].pseudo,
                      cap    |-> usersCap]

(* What a thread may read through the pointer get_pseudo gave it: freed    *)
(* memory holds anything.                                                  *)
Deref(ptr) == IF ptr.cap = usersCap THEN {ptr.pseudo} ELSE Pseudos

(* The ids generate_new_id loops for. *)
SlipFreeIds == Ids                      \* the loop on exist_id is forgotten
FreeIds == Ids \ UsedIds

(* registration_request: user_new appends a user with a fresh id, and the  *)
(* array doubles, which moves it, when it is full (array.c:37-54).         *)
Register(p) ==
  /\ up /\ thr["tcp"].pc = "idle"
  /\ Len(users) < UserMax
  /\ \E id \in FreeIds : users' = Append(users, [id |-> id, pseudo |-> p])
  /\ usersCap' = IF Len(users) = usersCap THEN 2 * usersCap ELSE usersCap
  /\ UNCHANGED <<feeds, dirs, files, upload, thr, up, replies, author>>

-----------------------------------------------------------------------------
(* Post requests: request_manager.c on the TCP thread *)

(* A client that registered, or one that made up an id. *)
Senders == {users[i] : i \in DOMAIN users}
           \cup {[id |-> id, pseudo |-> Nobody] : id \in Ids \ UsedIds}

FreshPayloads == {d \in Payloads : author[d] = None}

FeedsFull(n, count) == n = 0 /\ count >= FeedNbMax
SlipNoSuchFeed(n, count) == n > count + 1
NoSuchFeed(n, count) == n > count
PostRefused(s, n) == \/ FeedsFull(n, Len(feeds))
                     \/ NoSuchFeed(n, Len(feeds))
                     \/ s.id \notin UsedIds

(* post_request computes the number of the feed it is about to create from *)
(* the count it read on entry.                                             *)
SlipFeedIndex(count) == count - 1       \* an index instead of a number
SlipLastFeed(count) == IF count = 0 THEN 1 ELSE count
NextFeedNumber(count) == (count + 1) % U16

(* The error reply: a header, feed 0 and count 0. *)
RefusePost(s, n, d) ==
  /\ up /\ thr["tcp"].pc = "idle"
  /\ PostRefused(s, n)
  /\ replies' = replies \cup {[data |-> d, feed |-> ErrorFeed]}
  /\ author' = [author EXCEPT ![d] = s.pseudo]
  /\ UNCHANGED <<dataVars, thr, up>>

StartPost(s, n, d) ==
  /\ up /\ thr["tcp"].pc = "idle"
  /\ ~ PostRefused(s, n)
  /\ thr' = [thr EXCEPT !["tcp"] =
               [pc   |-> IF n = 0 THEN "append" ELSE "post",
                id   |-> s.id,
                ptr  |-> PseudoPointer(s.id),
                feed |-> IF n = 0 THEN NextFeedNumber(Len(feeds)) ELSE n,
                data |-> d,
                path |-> 0]]
  /\ author' = [author EXCEPT ![d] = s.pseudo]
  /\ UNCHANGED <<dataVars, up, replies>>

(* prepare_upload_request and transfer_new, which waits for the lock the   *)
(* UDP thread holds while it publishes.                                    *)
PrepareUpload(s, n, d) ==
  /\ up /\ thr["tcp"].pc = "idle" /\ thr["udp"].pc \in {"idle", "dead"}
  /\ s.id \in UsedIds
  /\ ~ NoSuchFeed(n, Len(feeds))
  /\ upload' = [upload EXCEPT ![s.id] =
                  [active |-> TRUE, feed |-> n, data |-> d]]
  /\ author' = [author EXCEPT ![d] = s.pseudo]
  /\ UNCHANGED <<users, usersCap, feeds, dirs, files, thr, up, replies>>

(* check_transfers_timeout, on the TCP thread between two requests: it     *)
(* takes no lock, so it may clear a slot the UDP thread is publishing.     *)
Timeout(id) ==
  /\ up /\ thr["tcp"].pc = "idle"
  /\ upload[id].active
  /\ upload' = [upload EXCEPT ![id] = Cleared]
  /\ UNCHANGED <<users, usersCap, feeds, dirs, files, thr, up, replies, author>>

(* add_packet with the last packet of a prepared upload; the transfer      *)
(* mutex is held until the thread is idle again.                           *)
StartPublish(id) ==
  /\ up /\ thr["udp"].pc = "idle"
  /\ upload[id].active
  /\ thr' = [thr EXCEPT !["udp"] =
               [pc |-> "open", id |-> id, ptr |-> PseudoPointer(id),
                feed |-> 0, data |-> None, path |-> 0]]
  /\ UNCHANGED <<dataVars, up, replies, author>>

-----------------------------------------------------------------------------
(* feed_new, post_new and write_file: data.c on either thread *)

(* A thread that serves no request holds nothing. *)
Idle == [pc |-> "idle", id |-> None, ptr |-> None, feed |-> 0, data |-> None,
         path |-> 0]
Goto(t, l) == [thr EXCEPT ![t].pc = l]
Slot == upload[thr["udp"].id]

(* A file sent to feed 0 opens a feed of its own. *)
SlipPublishFrom(n) == IF n = 0 THEN "append" ELSE "write"
PublishFrom(n) == IF n = 0 THEN "append" ELSE "number"

ReadTarget ==
  /\ up /\ thr["udp"].pc = "open"
  /\ thr' = Goto("udp", PublishFrom(Slot.feed))
  /\ UNCHANGED <<dataVars, up, replies, author>>

(* Where a thread goes when feed_new has returned 0. *)
SlipAfterFeedNew(t) == IF t = "tcp" THEN "reply" ELSE "number"
AfterFeedNew(t) == IF t = "tcp" THEN "post" ELSE "number"

(* The locked append of feed_new. *)
FeedAppend(t) ==
  /\ up /\ thr[t].pc = "append"
  /\ \E p \in Deref(thr[t].ptr) :
       feeds' = Append(feeds, [creator |-> p, posts |-> <<>>])
  /\ thr' = Goto(t, "path")
  /\ UNCHANGED <<users, usersCap, dirs, files, upload, up, replies, author>>

SlipDirExists(n) == FALSE               \* mkdir without stat
DirExists(n) == n \in dirs

(* The path of the new feed's directory comes from m_feeds.length, read    *)
(* after the lock is released; stat tells whether the directory exists.    *)
FeedPath(t) ==
  /\ up /\ thr[t].pc = "path"
  /\ thr' = [thr EXCEPT ![t].path = Len(feeds),
                        ![t].pc = IF DirExists(Len(feeds)) THEN AfterFeedNew(t)
                                  ELSE "mkdir"]
  /\ UNCHANGED <<dataVars, up, replies, author>>

Mkdir(t) ==
  /\ up /\ thr[t].pc = "mkdir"
  /\ thr[t].path \notin dirs
  /\ dirs' = dirs \cup {thr[t].path}
  /\ thr' = Goto(t, AfterFeedNew(t))
  /\ UNCHANGED <<users, usersCap, feeds, files, upload, up, replies, author>>

(* feed_new returns 1.  On the TCP thread no error number is set: the      *)
(* reply has type 0, which send_server_request refuses, and the loop ends. *)
(* On the UDP thread add_packet returns 1 and the loop ends as well.       *)
MkdirFails(t) ==
  /\ up /\ thr[t].pc = "mkdir"
  /\ thr[t].path \in dirs \/ DiskFaults
  /\ thr' = Goto(t, "dead")
  /\ UNCHANGED <<dataVars, up, replies, author>>

(* add_packet reads the feed number of the slot again: if it is 0, the     *)
(* feed it created is numbered with the length of m_feeds, read without    *)
(* its lock.                                                               *)
NumberFeed ==
  /\ up /\ thr["udp"].pc = "number"
  /\ upload' = [upload EXCEPT ![thr["udp"].id].feed =
                  IF @ = 0 THEN Len(feeds) % U16 ELSE @]
  /\ thr' = Goto("udp", "aim")
  /\ UNCHANGED <<users, usersCap, feeds, dirs, files, up, replies, author>>

(* The announcement is made of what the slot holds by now. *)
Aim ==
  /\ up /\ thr["udp"].pc = "aim"
  /\ thr' = [thr EXCEPT !["udp"].feed = Slot.feed, !["udp"].data = Slot.data,
                        !["udp"].pc = "post"]
  /\ UNCHANGED <<dataVars, up, replies, author>>

AfterPost(t) == IF t = "tcp" THEN "reply" ELSE "write"

(* post_new.  m_feeds.get has no feed to give for number 0, and its result *)
(* is dereferenced without a test: the process is killed.                  *)
PostNew(t) ==
  /\ up /\ thr[t].pc = "post"
  /\ thr[t].feed \in DOMAIN feeds
  /\ \E p \in Deref(thr[t].ptr) :
       feeds' = [feeds EXCEPT ![thr[t].feed].posts =
                   Append(@, [pseudo |-> p, data |-> thr[t].data])]
  /\ thr' = Goto(t, AfterPost(t))
  /\ UNCHANGED <<users, usersCap, dirs, files, upload, up, replies, author>>

PostNowhere(t) ==
  /\ up /\ thr[t].pc = "post"
  /\ thr[t].feed \notin DOMAIN feeds
  /\ up' = FALSE
  /\ UNCHANGED <<dataVars, thr, replies, author>>

SlipReplyFeed == Len(feeds)             \* the count, read again for the reply
ReplyFeed == thr["tcp"].feed

ReplyPost ==
  /\ up /\ thr["tcp"].pc = "reply"
  /\ replies' = replies \cup {[data |-> thr["tcp"].data, feed |-> ReplyFeed]}
  /\ thr' = [thr EXCEPT !["tcp"] = Idle]
  /\ UNCHANGED <<dataVars, up, author>>

(* write_file, then transfer_clear.  The path is made of the slot once     *)
(* more: open fails on the directory itself when there is no name, and     *)
(* without the directory of the feed; then the UDP loop ends.  What the    *)
(* file holds is in Transfers.tla.                                         *)
Writable == Slot.data # Nameless /\ Slot.feed \in dirs

WriteFile ==
  /\ up /\ thr["udp"].pc = "write"
  /\ Writable
  /\ files' = files \cup {[data |-> Slot.data, feed |-> Slot.feed]}
  /\ upload' = [upload EXCEPT ![thr["udp"].id] = Cleared]
  /\ thr' = [thr EXCEPT !["udp"] = Idle]
  /\ UNCHANGED <<users, usersCap, feeds, dirs, up, replies, author>>

WriteFileFails ==
  /\ up /\ thr["udp"].pc = "write"
  /\ ~ Writable \/ DiskFaults
  /\ thr' = Goto("udp", "dead")
  /\ UNCHANGED <<dataVars, up, replies, author>>

-----------------------------------------------------------------------------
Init ==
  /\ users = <<>>
  /\ usersCap = InitCap
  /\ feeds = <<>>
  /\ dirs \in SUBSET OldDirs
  /\ files = {}
  /\ upload = [id \in Ids |-> Cleared]
  /\ thr = [t \in Threads |-> Idle]
  /\ up = TRUE
  /\ replies = {}
  /\ author = [d \in Payloads |-> None]
  /\ raced = FALSE

FeedNew(t) == FeedAppend(t) \/ FeedPath(t) \/ Mkdir(t) \/ MkdirFails(t)

Requests ==
  \/ \E p \in Pseudos : Register(p)
  \/ \E s \in Senders, d \in FreshPayloads :
       \/ \E n \in PostFeeds : RefusePost(s, n, d) \/ StartPost(s, n, d)
       \/ \E n \in UploadFeeds : PrepareUpload(s, n, d)
  \/ \E id \in Ids : Timeout(id) \/ StartPublish(id)

(* The steps a thread takes by itself, once it has a request to serve. *)
TcpStep == FeedNew("tcp") \/ PostNew("tcp") \/ PostNowhere("tcp") \/ ReplyPost
UdpStep == ReadTarget \/ FeedNew("udp") \/ NumberFeed \/ Aim
           \/ PostNew("udp") \/ PostNowhere("udp") \/ WriteFile \/ WriteFileFails

(* The threads are in each other's way: both are opening a feed, or a post *)
(* goes to the feed the UDP thread has not announced its file in yet, or   *)
(* the table of users has moved under the pointer that thread holds, or    *)
(* the slot it is publishing has been cleared.                             *)
Busy(t) == thr[t].pc \notin {"idle", "dead"}
Opens(t) == \/ thr[t].pc \in {"append", "path"}
            \/ thr[t].pc \in {"mkdir", "number", "aim", "post"} /\ thr[t].path # 0
Moved(t) == thr[t].ptr.cap # usersCap
Race == \/ \A t \in Threads : Opens(t)
        \/ /\ Opens("udp") /\ thr["tcp"].pc = "post"
           /\ thr["tcp"].feed \in DOMAIN feeds
           /\ feeds[thr["tcp"].feed].posts = <<>>
        \/ Busy("udp") /\ (Moved("udp") \/ ~ Slot.active)
Marked(A) == A /\ raced' = (raced \/ Race')

Next == Marked(Requests \/ TcpStep \/ UdpStep)

Spec == Init /\ [][Next]_vars

(* Nothing in a handler waits for a client, and both mutexes are held for  *)
(* finitely many steps: a thread that has started a request goes on.       *)
Fairness == WF_vars(Marked(TcpStep)) /\ WF_vars(Marked(UdpStep))
FairSpec == Spec /\ Fairness

-----------------------------------------------------------------------------
(* Properties *)

Thread == [pc   : {"idle", "open", "append", "path", "mkdir", "number", "aim",
                   "post", "reply", "write", "dead"},
           id   : Ids \cup {None},
           ptr  : Pointer \cup {None},
           feed : Nat,
           data : Payloads \cup {None, Nameless},
           path : Nat]

(* Every variable keeps its shape, and a thread that is about to read a    *)
(* pseudo, post a payload or clear a transfer has one (data.c:195-245,     *)
(* 394-457).                                                               *)
TypeOK ==
  /\ users \in Seq(User) /\ usersCap \in Nat
  /\ feeds \in Seq(Feed)
  /\ dirs \in SUBSET Nat
  /\ files \in SUBSET [data : Payloads, feed : Nat]
  /\ upload \in [Ids -> Upload]
  /\ thr \in [Threads -> Thread]
  /\ \A t \in Threads : Busy(t) => /\ thr[t].ptr \in Pointer
                                   /\ thr[t].id \in Ids
  /\ \A t \in Threads : thr[t].pc = "post" => thr[t].data # None
  /\ Busy("tcp") => thr["tcp"].data \in Payloads
  /\ up \in BOOLEAN
  /\ replies \in SUBSET [data : Payloads, feed : Nat]
  /\ author \in [Payloads -> Pseudos \cup {Nobody, None}]
  /\ raced \in BOOLEAN

(* A post is aimed at a feed that exists: the number checked or computed   *)
(* on entry, or read after feed_new, still names one when post_new         *)
(* dereferences it, unless the feeds have outgrown their numbers or the    *)
(* timeout has cleared the slot the UDP thread publishes                   *)
(* (request_manager.c:60-87, data.c:345-359 and 425-441).                  *)
PostTargetExists ==
  \A t \in Threads : thr[t].pc = "post" =>
    \/ thr[t].feed \in DOMAIN feeds
    \/ Len(feeds) >= U16
    \/ t = "udp" /\ ~ Slot.active

PostedIn(d, f) == \E i \in DOMAIN feeds[f].posts : feeds[f].posts[i].data = d

(* The reply to a post tells the truth: a number names the feed that holds *)
(* the post, whatever the other thread created meanwhile, and a post that  *)
(* was refused is in no feed (request_manager.c:57-99).                    *)
RepliesTruthful ==
  \A r \in replies :
    IF r.feed = ErrorFeed
    THEN \A f \in DOMAIN feeds : ~ PostedIn(r.data, f)
    ELSE r.feed \in DOMAIN feeds /\ PostedIn(r.data, r.feed)

(* Who signs a post, whatever the table of users did: the TCP thread,      *)
(* which alone moves the table, always posts in the name of the sender,    *)
(* and the UDP thread does so as long as the table has not moved since     *)
(* get_pseudo (data.c:166-179, 424-441; request_manager.c:72-88; data.h:   *)
(* "The author's pseudo").                                                 *)
SignedBySender ==
  [][\A t \in Threads :
       /\ PostNew(t)
       /\ t = "udp" => ~ Moved("udp") /\ thr["udp"].data # Nameless
       => LET posts == feeds'[thr[t].feed].posts
          IN  posts[Len(posts)].pseudo = author[thr[t].data]]_vars

(* A feed is opened by its creator: the first post of a feed is by the     *)
(* user feed_new recorded ("new post on a new feed",                       *)
(* request_manager.c:80).                                                  *)
CreatorPostsFirst ==
  \A f \in DOMAIN feeds :
    feeds[f].posts # <<>> => feeds[f].posts[1].pseudo = feeds[f].creator

(* feed_new and the post that follows it are one operation to a client: a  *)
(* feed without a post is left behind only when the threads have been in   *)
(* each other's way, a loop has ended or feeds have outgrown their numbers *)
(* (request_manager.c:79-88, data.c:425-441).                              *)
NoOrphanFeed ==
  (\A t \in Threads : thr[t].pc = "idle") /\ ~ raced /\ Len(feeds) < U16 =>
    \A f \in DOMAIN feeds : feeds[f].posts # <<>>

(* A file on disk has been announced in its feed, so that clients can ask  *)
(* for it (data.c:441-450).                                                *)
FilesAnnounced ==
  \A x \in files : x.feed \in DOMAIN feeds /\ PostedIn(x.data, x.feed)

(* Every post request that is accepted is answered, and every publication  *)
(* started is finished, if the threads stay out of each other's way and    *)
(* the disk does not fail (request_manager.c:57-99, data.c:423-453).       *)
RequestsEnd == \A t \in Threads : Busy(t) ~> thr[t].pc = "idle" \/ raced

(* The board clients see: a feed whose creator's post is still to come is  *)
(* not on it yet.  It is exact until the threads race, one of their loops  *)
(* ends or the feeds outgrow their numbers.                                *)
Exact == /\ ~ raced /\ Len(feeds) < U16
         /\ \A t \in Threads : thr[t].pc # "dead"
Opening == feeds # <<>> /\ feeds[Len(feeds)].posts = <<>>
VisibleFeeds == IF Exact /\ Opening THEN SubSeq(feeds, 1, Len(feeds) - 1) ELSE feeds
Members == {users[i].pseudo : i \in DOMAIN users}

B == INSTANCE Board WITH members <- Members, board <- VisibleFeeds, exact <- Exact,
                         Payloads <- Payloads \cup {Nameless}

(* The server implements the message board of Board.tla: exactly as long   *)
(* as nothing of that has happened, and without ever losing or changing    *)
(* what was posted after it has (data.c:195-245, 394-457;                  *)
(* request_manager.c:26-99).                                               *)
ImplementsBoard == B!BoardSpec
=============================================================================
