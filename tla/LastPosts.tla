----------------------------- MODULE LastPosts -----------------------------
(***************************************************************************)
(* last_posts_request, composed with Feeds.tla.  The TCP thread walks over *)
(* the feeds and copies their latest posts without a lock, while the UDP   *)
(* thread publishes files in the same feeds: every read of a length, and   *)
(* every use of a pointer into an array that may have moved since, is an   *)
(* action of its own.                                                      *)
(***************************************************************************)
EXTENDS Feeds, FiniteSetsExt

CONSTANTS
  AskedFeeds,   \* feed numbers in requests; 0 asks for all feeds
  AskedCounts,  \* numbers of posts in requests; 0 asks for all posts
  Garbage       \* what is read from freed memory

ASSUME LastPostsAssumption == AskedFeeds \subseteq Nat /\ AskedCounts \subseteq Nat

(* The request the TCP thread is answering. *)
rd == thr["tcp"]

(* The capacity of an array of n elements that only append filled: the     *)
(* array has moved when its capacity has changed.                          *)
Cap(n) == Min({InitCap * 2^k : k \in 0..n} \cap {c \in 0..(InitCap * 2^n) : c >= n})

TcpIn(locals) == [thr EXCEPT !["tcp"] = locals]
Walk(l) == [rd EXCEPT !.pc = l]
Posts == feeds[rd.feed].posts

(* Reading changes nothing but the locals of the thread. *)
Reads == up /\ UNCHANGED <<dataVars, up, replies, author, raced>>

(* The feed pointer of get_feeds still points into m_feeds. *)
InPlace == rd.cap = Cap(Len(feeds))

(* The ids and the feed number are valid.  seen is not in the code: it     *)
(* keeps the posts there were when the request came in.                    *)
StartLastPosts(id, n, c) ==
  /\ rd = Idle
  /\ id \in UsedIds /\ ~ NoSuchFeed(n, Len(feeds))
  /\ thr' = TcpIn([pc    |-> "feed",
                   asked |-> n,
                   count |-> c,
                   feed  |-> IF n = 0 THEN 1 ELSE n,
                   last  |-> IF n = 0 THEN Len(feeds) % U16 ELSE n,
                   cap   |-> 0, all |-> FALSE, n |-> 0, next |-> 0, read |-> 0,
                   out   |-> <<>>,
                   seen  |-> [f \in DOMAIN feeds |-> Len(feeds[f].posts)]])
  /\ Reads

GetFeed ==
  /\ rd.pc = "feed" /\ rd.feed <= rd.last
  /\ thr' = TcpIn([Walk("test") EXCEPT !.cap = Cap(Len(feeds))])
  /\ Reads

(* Three reads of posts->length: does the request cover all the posts, how *)
(* many are they, and where do the last ones start.                        *)
TestAll ==
  /\ rd.pc = "test" /\ InPlace
  /\ thr' = TcpIn([Walk("count") EXCEPT
                     !.all = rd.count = 0 \/ rd.count > Len(Posts)])
  /\ Reads

CountPosts ==
  /\ rd.pc = "count" /\ InPlace
  /\ thr' = TcpIn([Walk("start") EXCEPT
                     !.n = IF rd.all THEN Len(Posts) ELSE rd.count])
  /\ Reads

SlipStart(len, n) == IF len > n THEN len - n - 1 ELSE 0     \* one too early
Start(len, n) == len - n

FindStart ==
  /\ rd.pc = "start" /\ InPlace
  /\ thr' = TcpIn([Walk("get") EXCEPT !.next = Start(Len(Posts), rd.n)])
  /\ Reads

(* posts->get, and the copy of what it points to. *)
GetPost ==
  /\ rd.pc = "get" /\ rd.n > 0 /\ InPlace
  /\ thr' = TcpIn([Walk("copy") EXCEPT !.read = Cap(Len(Posts)), !.next = @ + 1])
  /\ Reads

Copied == IF rd.read = Cap(Len(Posts)) THEN Posts[rd.next].data ELSE Garbage

CopyPost ==
  /\ rd.pc = "copy" /\ InPlace
  /\ thr' = TcpIn([Walk("get") EXCEPT
                     !.n = @ - 1,
                     !.out = Append(@, [feed |-> rd.feed, data |-> Copied])])
  /\ Reads

NextFeed ==
  /\ rd.pc = "get" /\ rd.n = 0
  /\ thr' = TcpIn([Walk("feed") EXCEPT !.feed = @ + 1])
  /\ Reads

(* m_feeds has moved: the feed read is whatever is there now, or no memory *)
(* of the process.                                                         *)
Stale == rd.pc \in {"test", "count", "start", "get", "copy"} /\ ~ InPlace

StaleFeed ==
  /\ Stale
  /\ thr' = TcpIn([Walk("feed") EXCEPT
                     !.feed = @ + 1,
                     !.out = Append(@, [feed |-> rd.feed, data |-> Garbage])])
  /\ Reads

StaleFeedKills ==
  /\ up /\ Stale
  /\ up' = FALSE
  /\ UNCHANGED <<dataVars, thr, replies, author, raced>>

(* An answer that outgrows the first capacity of its array may move it,    *)
(* and the callers of the handler still use the address they took before.  *)
Delivered(out) ==
  IF Len(out) + 1 > InitCap THEN {out, <<[feed |-> 0, data |-> Garbage]>>}
  ELSE {out}

Answer ==
  /\ rd.pc = "feed" /\ rd.feed > rd.last
  /\ \E out \in Delivered(rd.out) :
       thr' = TcpIn([Walk("answer") EXCEPT !.out = out])
  /\ Reads

SendAnswer ==
  /\ rd.pc = "answer"
  /\ thr' = TcpIn(Idle)
  /\ Reads

-----------------------------------------------------------------------------
ReadStep == \/ GetFeed \/ TestAll \/ CountPosts \/ FindStart
            \/ GetPost \/ CopyPost \/ NextFeed
            \/ StaleFeed \/ StaleFeedKills \/ Answer \/ SendAnswer

(* The TCP thread takes a request, of this kind or of the others, when it  *)
(* has none.                                                               *)
LPNext ==
  \/ Next \/ ReadStep
  \/ \E id \in Ids, n \in AskedFeeds, c \in AskedCounts : StartLastPosts(id, n, c)

LPSpec == Init /\ [][LPNext]_vars

-----------------------------------------------------------------------------
(* Properties *)

(* Where an answer has its n posts of feed f: after the place from, one    *)
(* after the other, as they are in the feed after its first ones.          *)
IsRun(f, from, n, first) ==
  /\ {i \in DOMAIN rd.out : rd.out[i].feed = f} = (from + 1)..(from + n)
  /\ \A i \in 1..n : /\ first + i \in DOMAIN feeds[f].posts
                     /\ rd.out[from + i].data = feeds[f].posts[first + i].data

AskedFeedSet == IF rd.asked = 0 THEN DOMAIN rd.seen ELSE {rd.asked}
Wanted(f) == IF rd.count = 0 \/ rd.count > rd.seen[f] THEN rd.seen[f] ELSE rd.count

HasRun(f) ==
  \E from, n \in 0..Len(rd.out), first \in 0..Len(feeds[f].posts) :
    IsRun(f, from, n, first) /\ first + n >= rd.seen[f] /\ n >= Wanted(f)

Intact == \A i \in DOMAIN rd.out : rd.out[i].data # Garbage

(* However posts arrive meanwhile, and whatever thread has died, an answer *)
(* nothing moved under, when the feeds can be counted in 16 bits, has for  *)
(* each feed an unbroken run of its posts, as long as was asked if there   *)
(* were as many, and up to the newest there was when the request came in   *)
(* or a newer one (request_manager.c:129-153).                             *)
UnbrokenRun ==
  rd.pc = "answer" /\ Intact /\ Len(rd.seen) < U16 =>
    \A f \in AskedFeedSet : HasRun(f)
=============================================================================
