--------------------------- MODULE Notifications ---------------------------
(***************************************************************************)
(* Subscriptions and notifications.  The TCP thread grants subscriptions,  *)
(* a multicast group for a feed; every two minutes the notifications       *)
(* thread sends each group the posts its feed got since the last round,    *)
(* and it reads the posts without a lock while the other threads add to    *)
(* them.                                                                   *)
(*                                                                         *)
(* The feeds, the posts of a feed and the subscriptions are fewer than an  *)
(* array holds before it moves.  A post is its place in its feed.          *)
(***************************************************************************)
EXTENDS Naturals, Sequences

CONSTANTS
  MaxFeeds,     \* bound: feeds
  MaxPosts,     \* bound: posts of a feed
  MaxSubs,      \* bound: subscriptions granted
  NetFails      \* may sendto fail?

ASSUME NotificationsAssumption ==
  /\ MaxFeeds \in 0..7 /\ MaxPosts \in 0..8 /\ MaxSubs \in 0..8
  /\ NetFails \in BOOLEAN

VARIABLES
  posts,        \* the number of posts of each feed
  notif,        \* the notif pointer in each slot of m_feeds
  subs,         \* m_suscribe: a feed, and last_send_post
  asking,       \* the feed the TCP thread is granting, or 0
  loop,         \* the notifications thread and its locals
  sent,         \* what each group was sent, in order
  granted,      \* the feeds clients asked for, the groups they were given, and
                \* whether the pointer the answer was read through had been set
  up            \* the process has not been killed by an invalid access

vars == <<posts, notif, subs, asking, loop, sent, granted, up>>

Null == 0                       \* a pointer to no subscription
Garbage == MaxSubs + 1          \* a pointer nobody set

Sleep == [pc |-> "sleep"]

-----------------------------------------------------------------------------
(* Feeds and posts; Feeds.tla has the steps. *)

(* feed_new copies the feed into m_feeds before it sets notif to NULL, so  *)
(* that the slot holds what was on the stack.                              *)
NewFeed ==
  /\ up /\ Len(posts) < MaxFeeds
  /\ posts' = Append(posts, 0)
  /\ \E p \in {Null, Garbage} : notif' = [notif EXCEPT ![Len(posts')] = p]
  /\ UNCHANGED <<subs, asking, loop, sent, granted, up>>

NewPost(f) ==
  /\ up /\ posts[f] < MaxPosts
  /\ posts' = [posts EXCEPT ![f] = @ + 1]
  /\ UNCHANGED <<notif, subs, asking, loop, sent, granted, up>>

-----------------------------------------------------------------------------
(* subscriptions_request *)

(* get_feeds counts from 0: the slot read for feed n is that of the next   *)
(* feed, or the first free one.                                            *)
SlipNotifSlot(n) == 1                   \* one group for all the feeds
NotifSlot(n) == n + 1

(* notif_new, when the slot has no subscription. *)
Subscribe(n) ==
  LET s == Len(subs) + 1 IN
  /\ up /\ asking = 0 /\ s <= MaxSubs
  /\ notif[NotifSlot(n)] = Null
  /\ subs' = Append(subs, [feed |-> n, last |-> 0])
  /\ sent' = Append(sent, <<>>)
  /\ notif' = [notif EXCEPT ![NotifSlot(n)] = s]
  /\ asking' = n
  /\ UNCHANGED <<posts, loop, granted, up>>

SubscribeAgain(n) ==
  /\ up /\ asking = 0
  /\ notif[NotifSlot(n)] # Null
  /\ asking' = n
  /\ UNCHANGED <<posts, notif, subs, loop, sent, granted, up>>

(* The answer is read through the pointer in the slot, which a new feed    *)
(* may have overwritten by now.                                            *)
Answer ==
  /\ up /\ asking # 0
  /\ notif[NotifSlot(asking)] \in DOMAIN subs
  /\ granted' = granted \cup {[feed |-> asking, set |-> TRUE,
                               group |-> notif[NotifSlot(asking)]]}
  /\ asking' = 0
  /\ UNCHANGED <<posts, notif, subs, loop, sent, up>>

(* A pointer nobody set may be to memory the process has: the answer is    *)
(* what lies there, the group of another feed or of nobody (Garbage).      *)
AnswerByChance ==
  /\ up /\ asking # 0
  /\ notif[NotifSlot(asking)] = Garbage
  /\ \E g \in DOMAIN subs \cup {Garbage} :
       granted' = granted \cup {[feed |-> asking, set |-> FALSE, group |-> g]}
  /\ asking' = 0
  /\ UNCHANGED <<posts, notif, subs, loop, sent, up>>

(* Or it is to none, like the null one: the process is killed. *)
AnswerFromNowhere ==
  /\ up /\ asking # 0
  /\ notif[NotifSlot(asking)] \notin DOMAIN subs
  /\ up' = FALSE
  /\ UNCHANGED <<posts, notif, subs, asking, loop, sent, granted>>

-----------------------------------------------------------------------------
(* notifications_loop *)

StartRound ==
  /\ up /\ loop = Sleep /\ subs # <<>>
  /\ loop' = [pc |-> "count", nb |-> Len(subs), i |-> 1, first |-> 0, n |-> 0]
  /\ UNCHANGED <<posts, notif, subs, asking, sent, granted, up>>

CountNew ==
  /\ up /\ loop.pc = "count"
  /\ loop' = [loop EXCEPT !.pc = "send",
                          !.first = subs[loop.i].last,
                          !.n = posts[subs[loop.i].feed] - subs[loop.i].last]
  /\ UNCHANGED <<posts, notif, subs, asking, sent, granted, up>>

(* The number a notification carries is that of the subscriptions. *)
Label == loop.nb
Batch(n) == [j \in 1..n |-> [post |-> loop.first + j, label |-> Label]]

Send ==
  /\ up /\ loop.pc = "send"
  /\ sent' = [sent EXCEPT ![loop.i] = @ \o Batch(loop.n)]
  /\ loop' = [loop EXCEPT !.pc = "mark"]
  /\ UNCHANGED <<posts, notif, subs, asking, granted, up>>

(* The thread ends, with part of the posts sent. *)
SendFails ==
  /\ up /\ loop.pc = "send" /\ NetFails
  /\ \E n \in 0..loop.n : /\ n < loop.n
                          /\ sent' = [sent EXCEPT ![loop.i] = @ \o Batch(n)]
  /\ loop' = [pc |-> "dead"]
  /\ UNCHANGED <<posts, notif, subs, asking, granted, up>>

SlipMark(s) == loop.n                   \* how many, not how far
SlipMarkPast(s) == posts[s.feed] + 1    \* the one after the last
Mark(s) == posts[s.feed]

SlipLastOfRound == loop.i + 1 >= loop.nb        \* stops one too early
LastOfRound == loop.i = loop.nb

MarkSent ==
  /\ up /\ loop.pc = "mark"
  /\ subs' = [subs EXCEPT ![loop.i].last = Mark(subs[loop.i])]
  /\ loop' = IF LastOfRound THEN Sleep
             ELSE [loop EXCEPT !.pc = "count", !.i = @ + 1]
  /\ UNCHANGED <<posts, notif, asking, sent, granted, up>>

-----------------------------------------------------------------------------
Init ==
  /\ posts = <<>>
  /\ notif = [f \in 1..(MaxFeeds + 1) |-> Null]
  /\ subs = <<>>
  /\ asking = 0
  /\ loop = Sleep
  /\ sent = <<>>
  /\ granted = {}
  /\ up = TRUE

LoopStep == StartRound \/ CountNew \/ Send \/ SendFails \/ MarkSent

Next ==
  \/ NewFeed
  \/ \E f \in DOMAIN posts :
       NewPost(f) \/ Subscribe(f) \/ SubscribeAgain(f)
  \/ Answer \/ AnswerByChance \/ AnswerFromNowhere
  \/ LoopStep

Spec == Init /\ [][Next]_vars

(* sleep returns, and nothing in a round waits. *)
FairSpec == Spec /\ WF_vars(LoopStep)

-----------------------------------------------------------------------------
(* Properties *)

(* The indices of the loop and the pointers of the feeds stay inside their *)
(* arrays, and last_send_post never passes the posts there are             *)
(* (notifications_server.c:28-29: posts_count would wrap).                 *)
TypeOK ==
  /\ posts \in Seq(0..MaxPosts) /\ Len(posts) <= MaxFeeds
  /\ notif \in [1..(MaxFeeds + 1) -> 0..Len(subs) \cup {Garbage}]
  /\ subs \in Seq([feed : DOMAIN posts, last : Nat]) /\ Len(subs) <= MaxSubs
  /\ \A s \in DOMAIN subs : subs[s].last <= posts[subs[s].feed]
  /\ asking \in 0..Len(posts)
  /\ loop \in {Sleep, [pc |-> "dead"]}
              \cup [pc : {"count", "send", "mark"}, nb : DOMAIN subs,
                    i : DOMAIN subs, first : Nat, n : Nat]
  /\ DOMAIN sent = DOMAIN subs
  /\ granted \subseteq
       [feed : DOMAIN posts, set : {TRUE}, group : DOMAIN subs]
       \cup [feed : DOMAIN posts, set : {FALSE}, group : DOMAIN subs \cup {Garbage}]
  /\ up \in BOOLEAN

(* However posts arrive during a round, a group is sent the posts of its   *)
(* feed in order and none of them twice (notifications_server.c:28-43).    *)
SentInOrder ==
  \A s \in DOMAIN sent : \A i, j \in DOMAIN sent[s] :
    i < j => sent[s][i].post < sent[s][j].post

(* Whoever subscribes to a feed is given a group of that feed, though the  *)
(* pointer that tells whether there is one is kept in another feed, which  *)
(* may come into being in between; only where that feed has come with a    *)
(* pointer nobody set is the answer left to chance, and never for the last *)
(* of the feeds (request_manager.c:205-216, data.c:214-229).               *)
GroupOfFeed ==
  \A g \in granted : IF g.set THEN subs[g.group].feed = g.feed
                     ELSE g.feed < Len(posts)

(* Once posts stop coming the rounds catch up with every feed, unless      *)
(* sending fails and the thread ends (notifications_server.c:15-45).       *)
CaughtUp ==
  <>[](up /\ loop.pc # "dead" =>
         \A s \in DOMAIN subs : subs[s].last = posts[subs[s].feed])

(* "s'abonner à un fil pour recevoir des notifications" (README.md:17): a  *)
(* post a round is done with was sent to the group.                        *)
EveryPostNotified ==
  \A s \in DOMAIN subs : \A p \in 1..subs[s].last :
    \E i \in DOMAIN sent[s] : sent[s][i].post = p
=============================================================================
