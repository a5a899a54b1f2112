------------------------ MODULE NotificationsProofs ------------------------
(***************************************************************************)
(* Proofs about Notifications.tla, for any number of feeds, posts and      *)
(* subscriptions within the arrays, whether sending fails or not.          *)
(***************************************************************************)
EXTENDS Notifications, SequenceTheorems, TLAPS

Sub == [feed : Nat, last : Nat]
Notif == [post : Nat, label : Nat]
Round == [pc : {"count", "send", "mark"}, nb : DOMAIN subs, i : DOMAIN subs,
          first : Nat, n : Nat]

(* What TypeOK leaves open: the loop goes no further than the number of    *)
(* subscriptions it read, and what was sent are notifications.             *)
LoopInside == loop.pc \in {"count", "send", "mark"} => loop.i <= loop.nb
SentTyped == sent \in Seq(Seq(Notif))

TypeInv == TypeOK /\ LoopInside /\ SentTyped

(* What clients are told. *)
Grant == [feed : DOMAIN posts, set : {TRUE}, group : DOMAIN subs]
         \cup [feed : DOMAIN posts, set : {FALSE}, group : DOMAIN subs \cup {Garbage}]

-----------------------------------------------------------------------------
(* What the typing says of the variables *)

LEMMA TypeFacts ==
  ASSUME TypeInv
  PROVE  /\ Len(posts) \in Nat /\ DOMAIN posts = 1..Len(posts)
         /\ posts \in [1..Len(posts) -> Nat]
         /\ Len(subs) \in Nat /\ DOMAIN subs = 1..Len(subs)
         /\ subs \in Seq(Sub) /\ sent \in Seq(Seq(Notif))
         /\ \A s \in DOMAIN subs :
              /\ subs[s].feed \in DOMAIN posts /\ subs[s].last \in Nat
              /\ subs[s].last <= posts[subs[s].feed]
         /\ DOMAIN sent = 1..Len(subs) /\ Len(sent) = Len(subs)
<1>1. posts \in Seq(Nat) /\ subs \in Seq([feed : DOMAIN posts, last : Nat])
      /\ DOMAIN sent = DOMAIN subs /\ sent \in Seq(Seq(Notif))
  <2>1. posts \in Seq(0..MaxPosts) /\ 0..MaxPosts \subseteq Nat
    BY NotificationsAssumption DEF TypeInv, TypeOK
  <2> QED
    BY <2>1, SeqMonotonic DEF TypeInv, TypeOK, SentTyped
<1>2. /\ Len(posts) \in Nat /\ DOMAIN posts = 1..Len(posts)
      /\ posts \in [1..Len(posts) -> Nat]
      /\ Len(subs) \in Nat /\ DOMAIN subs = 1..Len(subs)
      /\ subs \in [1..Len(subs) -> [feed : DOMAIN posts, last : Nat]]
      /\ Len(sent) \in Nat /\ DOMAIN sent = 1..Len(sent)
  BY <1>1, LenProperties
<1>3. [feed : DOMAIN posts, last : Nat] \subseteq Sub
  BY <1>2 DEF Sub
<1>4. subs \in Seq(Sub)
  BY <1>1, <1>3, SeqMonotonic
<1>5. Len(sent) = Len(subs)
  BY <1>1, <1>2
<1> QED
  BY <1>1, <1>2, <1>4, <1>5 DEF TypeInv, TypeOK

LEMMA InitTypeInv == Init => TypeInv
<1> SUFFICES ASSUME Init
             PROVE  TypeInv
  OBVIOUS
<1>1. /\ posts \in Seq(0..MaxPosts) /\ Len(posts) = 0
      /\ subs \in Seq([feed : DOMAIN posts, last : Nat]) /\ Len(subs) = 0
      /\ DOMAIN subs = {} /\ DOMAIN sent = {} /\ sent \in Seq(Seq(Notif))
  BY EmptySeq DEF Init
<1>2. notif \in [1..(MaxFeeds + 1) -> 0..Len(subs) \cup {Garbage}]
  BY <1>1 DEF Init, Null
<1>3. asking = 0 /\ loop = Sleep /\ granted = {} /\ up = TRUE
  BY DEF Init
<1> QED
  BY <1>1, <1>2, <1>3, NotificationsAssumption
     DEF TypeInv, TypeOK, LoopInside, SentTyped, Sleep

(* Feeds and posts only grow. *)
LEMMA NewFeedTypeInv ==
  ASSUME TypeInv, NewFeed
  PROVE  TypeInv'
<1>1. /\ posts' \in Seq(0..MaxPosts) /\ Len(posts') = Len(posts) + 1
      /\ DOMAIN posts' = 1..(Len(posts) + 1)
      /\ \A f \in 1..Len(posts) : posts'[f] = posts[f]
  BY AppendProperties, LenProperties, NotificationsAssumption
     DEF NewFeed, TypeInv, TypeOK
<1>2. DOMAIN posts \subseteq DOMAIN posts' /\ Len(posts) \in Nat
  BY <1>1, TypeFacts
<1>3. PICK p \in {Null, Garbage} : notif' = [notif EXCEPT ![Len(posts')] = p]
  BY DEF NewFeed
<1>4. notif' \in [1..(MaxFeeds + 1) -> 0..Len(subs) \cup {Garbage}]
  <2>1. p \in 0..Len(subs) \cup {Garbage}
    BY TypeFacts DEF Null
  <2> QED
    BY <1>3, <2>1 DEF TypeInv, TypeOK
<1>5. subs' \in Seq([feed : DOMAIN posts', last : Nat])
  <2>1. [feed : DOMAIN posts, last : Nat] \subseteq [feed : DOMAIN posts', last : Nat]
    BY <1>2
  <2>2. subs \in Seq([feed : DOMAIN posts, last : Nat]) /\ subs' = subs
    BY DEF NewFeed, TypeInv, TypeOK
  <2>3. subs \in Seq([feed : DOMAIN posts', last : Nat])
    BY <2>1, <2>2, SeqMonotonic
  <2> QED
    BY <2>2, <2>3
<1>6. \A s \in DOMAIN subs' : subs'[s].last <= posts'[subs'[s].feed]
  BY <1>1, TypeFacts DEF NewFeed, TypeInv, TypeOK
<1>7. Len(posts') <= MaxFeeds
  BY <1>1, NotificationsAssumption, TypeFacts DEF NewFeed
<1>8. granted' \subseteq Grant'
  BY <1>2 DEF NewFeed, TypeInv, TypeOK, Grant
<1>9. asking' \in 0..Len(posts')
  BY <1>1, TypeFacts DEF NewFeed, TypeInv, TypeOK
<1> QED
  BY <1>1, <1>4, <1>5, <1>6, <1>7, <1>8, <1>9
     DEF NewFeed, TypeInv, TypeOK, LoopInside, SentTyped, Grant

LEMMA NewPostTypeInv ==
  ASSUME TypeInv, NEW f \in DOMAIN posts, NewPost(f)
  PROVE  TypeInv'
<1>1. posts[f] + 1 \in 0..MaxPosts
  BY TypeFacts, NotificationsAssumption DEF NewPost
<1>2. /\ posts' \in Seq(0..MaxPosts) /\ Len(posts') = Len(posts)
      /\ DOMAIN posts' = DOMAIN posts
      /\ \A g \in DOMAIN posts : posts'[g] = IF g = f THEN posts[f] + 1 ELSE posts[g]
  <2>1. posts \in Seq(0..MaxPosts) /\ f \in 1..Len(posts)
    BY TypeFacts DEF TypeInv, TypeOK
  <2>2. posts' = [posts EXCEPT ![f] = posts[f] + 1]
    BY DEF NewPost
  <2>3. /\ posts' \in Seq(0..MaxPosts) /\ Len(posts') = Len(posts)
        /\ \A g \in 1..Len(posts) :
             posts'[g] = IF g = f THEN posts[f] + 1 ELSE posts[g]
    BY <1>1, <2>1, <2>2, ExceptSeq
  <2> QED
    BY <2>1, <2>3, LenProperties, TypeFacts
<1>3. ASSUME NEW s \in DOMAIN subs
      PROVE  subs[s].last <= posts'[subs[s].feed]
  <2>1. subs[s].feed \in DOMAIN posts /\ subs[s].last \in Nat
        /\ posts[subs[s].feed] \in Nat /\ posts[f] \in Nat
        /\ subs[s].last <= posts[subs[s].feed]
    BY TypeFacts
  <2> QED
    BY <1>2, <2>1
<1> QED
  BY <1>2, <1>3 DEF NewPost, TypeInv, TypeOK, LoopInside, SentTyped

-----------------------------------------------------------------------------
(* Subscriptions *)

LEMMA SubscribeEffect ==
  ASSUME TypeInv, NEW f \in DOMAIN posts, Subscribe(f)
  PROVE  /\ Len(subs') = Len(subs) + 1 /\ DOMAIN subs' = 1..(Len(subs) + 1)
         /\ subs' \in Seq([feed : DOMAIN posts, last : Nat])
         /\ \A s \in DOMAIN subs : subs'[s] = subs[s]
         /\ subs'[Len(subs) + 1] = [feed |-> f, last |-> 0]
         /\ Len(sent') = Len(subs) + 1 /\ DOMAIN sent' = 1..(Len(subs) + 1)
         /\ sent' \in Seq(Seq(Notif))
         /\ \A s \in DOMAIN subs : sent'[s] = sent[s]
         /\ sent'[Len(subs) + 1] = <<>>
         /\ f + 1 \in 1..(MaxFeeds + 1)
         /\ notif'[f + 1] = Len(subs) + 1
         /\ \A g \in 1..(MaxFeeds + 1) : g # f + 1 => notif'[g] = notif[g]
<1>1. [feed |-> f, last |-> 0] \in [feed : DOMAIN posts, last : Nat]
  OBVIOUS
<1>2. <<>> \in Seq(Notif)
  BY EmptySeq
<1>3. /\ subs' = Append(subs, [feed |-> f, last |-> 0])
      /\ sent' = Append(sent, <<>>)
  BY DEF Subscribe
<1>4. subs \in Seq([feed : DOMAIN posts, last : Nat])
  BY DEF TypeInv, TypeOK
<1>5. /\ subs' \in Seq([feed : DOMAIN posts, last : Nat])
      /\ Len(subs') = Len(subs) + 1
      /\ \A s \in 1..Len(subs) : subs'[s] = subs[s]
      /\ subs'[Len(subs) + 1] = [feed |-> f, last |-> 0]
  BY <1>1, <1>3, <1>4, AppendProperties
<1>6. /\ sent' \in Seq(Seq(Notif)) /\ Len(sent') = Len(sent) + 1
      /\ \A s \in 1..Len(sent) : sent'[s] = sent[s]
      /\ sent'[Len(sent) + 1] = <<>>
  BY <1>2, <1>3, TypeFacts, AppendProperties
<1>7. DOMAIN subs' = 1..Len(subs') /\ DOMAIN sent' = 1..Len(sent')
  BY <1>5, <1>6, LenProperties
<1>8. f \in 1..MaxFeeds /\ f + 1 \in 1..(MaxFeeds + 1)
  <2>1. Len(posts) <= MaxFeeds /\ f \in 1..Len(posts) /\ MaxFeeds \in Nat
    <3>1. f \in 1..Len(posts)
      BY TypeFacts
    <3> QED
      BY <3>1, NotificationsAssumption DEF TypeInv, TypeOK
  <2>2. Len(posts) \in Nat
    BY TypeFacts
  <2> QED
    BY <2>1, <2>2
<1>9. /\ notif'[f + 1] = Len(subs) + 1
      /\ \A g \in 1..(MaxFeeds + 1) : g # f + 1 => notif'[g] = notif[g]
  BY <1>8 DEF Subscribe, NotifSlot, TypeInv, TypeOK
<1> QED
  BY <1>5, <1>6, <1>7, <1>8, <1>9, TypeFacts

LEMMA SubscribeTypeInv ==
  ASSUME TypeInv, NEW f \in DOMAIN posts, Subscribe(f)
  PROVE  TypeInv'
<1>1. DOMAIN subs \subseteq DOMAIN subs' /\ Len(subs) \in Nat
  <2>1. /\ DOMAIN subs = 1..Len(subs) /\ Len(subs) \in Nat
        /\ DOMAIN subs' = 1..(Len(subs) + 1)
    BY TypeFacts, SubscribeEffect
  <2> QED
    BY <2>1
<1>2. notif' \in [1..(MaxFeeds + 1) -> 0..Len(subs') \cup {Garbage}]
  <2>1. notif \in [1..(MaxFeeds + 1) -> 0..(Len(subs) + 1) \cup {Garbage}]
    BY <1>1 DEF TypeInv, TypeOK
  <2>2. Len(subs) + 1 \in 0..(Len(subs) + 1)
    BY <1>1
  <2>3. notif' = [notif EXCEPT ![f + 1] = Len(subs) + 1]
    BY DEF Subscribe, NotifSlot
  <2>4. Len(subs') = Len(subs) + 1
    BY SubscribeEffect
  <2> QED
    BY <2>1, <2>2, <2>3, <2>4
<1>3. ASSUME NEW s \in DOMAIN subs'
      PROVE  subs'[s].last <= posts[subs'[s].feed]
  <2>1. CASE s \in DOMAIN subs
    BY <2>1, TypeFacts, SubscribeEffect
  <2>2. CASE s \notin DOMAIN subs
    <3>1. /\ DOMAIN subs = 1..Len(subs) /\ Len(subs) \in Nat
          /\ DOMAIN subs' = 1..(Len(subs) + 1)
      BY TypeFacts, SubscribeEffect
    <3>2. s = Len(subs) + 1
      BY <2>2, <3>1
    <3>3. subs'[s] = [feed |-> f, last |-> 0] /\ posts[f] \in Nat
      BY <3>2, TypeFacts, SubscribeEffect
    <3> QED
      BY <3>3
  <2> QED
    BY <2>1, <2>2
<1>4. loop' \in {Sleep, [pc |-> "dead"]}
               \cup [pc : {"count", "send", "mark"}, nb : DOMAIN subs',
                     i : DOMAIN subs', first : Nat, n : Nat]
  BY <1>1 DEF Subscribe, TypeInv, TypeOK
<1>5. Len(subs') <= MaxSubs /\ asking' \in 0..Len(posts)
  BY SubscribeEffect, TypeFacts DEF Subscribe
<1>6. granted' \subseteq Grant'
  BY <1>1 DEF Subscribe, TypeInv, TypeOK, Grant
<1> QED
  BY <1>2, <1>3, <1>4, <1>5, <1>6, SubscribeEffect
     DEF Subscribe, TypeInv, TypeOK, LoopInside, SentTyped, Grant

LEMMA AskTypeInv ==
  ASSUME TypeInv,
         \/ Answer \/ AnswerByChance \/ AnswerFromNowhere
         \/ \E f \in DOMAIN posts : SubscribeAgain(f)
  PROVE  TypeInv'
<1>1. CASE Answer
  <2>1. asking \in DOMAIN posts
    BY <1>1, TypeFacts DEF Answer, TypeInv, TypeOK
  <2>2. granted' \subseteq Grant'
    <3> DEFINE x == [feed |-> asking, set |-> TRUE, group |-> notif[NotifSlot(asking)]]
    <3>1. notif[NotifSlot(asking)] \in DOMAIN subs
      BY <1>1 DEF Answer
    <3>2. x \in Grant
      BY <2>1, <3>1 DEF Grant
    <3>3. granted' = granted \cup {x} /\ granted \subseteq Grant /\ Grant' = Grant
      BY <1>1 DEF Answer, TypeInv, TypeOK, Grant
    <3> QED
      BY <3>2, <3>3
  <2>3. asking' \in 0..Len(posts)
    BY <1>1, TypeFacts DEF Answer
  <2> QED
    BY <1>1, <2>2, <2>3
       DEF Answer, TypeInv, TypeOK, LoopInside, SentTyped, Grant
<1>4. CASE AnswerByChance
  <2>1. asking \in DOMAIN posts
    BY <1>4, TypeFacts DEF AnswerByChance, TypeInv, TypeOK
  <2>2. PICK g \in DOMAIN subs \cup {Garbage} :
          granted' = granted \cup {[feed |-> asking, set |-> FALSE, group |-> g]}
    BY <1>4 DEF AnswerByChance
  <2>3. granted' \subseteq Grant'
    <3>1. [feed |-> asking, set |-> FALSE, group |-> g] \in Grant
      BY <2>1 DEF Grant
    <3>2. granted \subseteq Grant /\ Grant' = Grant
      BY <1>4 DEF AnswerByChance, TypeInv, TypeOK, Grant
    <3> QED
      BY <2>2, <3>1, <3>2
  <2>4. asking' \in 0..Len(posts)
    BY <1>4, TypeFacts DEF AnswerByChance
  <2> QED
    BY <1>4, <2>3, <2>4
       DEF AnswerByChance, TypeInv, TypeOK, LoopInside, SentTyped, Grant
<1>2. CASE AnswerFromNowhere
  BY <1>2 DEF AnswerFromNowhere, TypeInv, TypeOK, LoopInside, SentTyped
<1>3. ASSUME NEW f \in DOMAIN posts, SubscribeAgain(f)
      PROVE  TypeInv'
  <2>1. asking' \in 0..Len(posts)
    BY <1>3, TypeFacts DEF SubscribeAgain
  <2> QED
    BY <1>3, <2>1 DEF SubscribeAgain, TypeInv, TypeOK, LoopInside, SentTyped
<1> QED
  BY <1>1, <1>2, <1>3, <1>4

-----------------------------------------------------------------------------
(* Rounds *)

(* In a round there is a subscription the loop is at.                      *)
LEMMA RoundFacts ==
  ASSUME TypeInv, loop.pc \in {"count", "send", "mark"}
  PROVE  /\ loop \in Round
         /\ loop.nb \in DOMAIN subs /\ loop.i \in DOMAIN subs
         /\ loop.i <= loop.nb /\ loop.first \in Nat /\ loop.n \in Nat
<1>1. loop \in Round
  BY DEF TypeInv, TypeOK, Round, Sleep
<1> QED
  BY <1>1 DEF Round, TypeInv, LoopInside

(* A batch is the posts after the last that was sent, in order.            *)
LEMMA BatchFacts ==
  ASSUME TypeInv, loop.pc = "send", NEW n \in Nat, n <= loop.n
  PROVE  /\ Batch(n) \in Seq(Notif) /\ Len(Batch(n)) = n
         /\ \A j \in 1..n : Batch(n)[j].post = loop.first + j
<1>1. \A j \in 1..n : [post |-> loop.first + j, label |-> Label] \in Notif
  BY RoundFacts, TypeFacts DEF Notif, Label
<1>2. Batch(n) \in [1..n -> Notif]
  BY <1>1 DEF Batch
<1>3. Batch(n) \in Seq(Notif) /\ Len(Batch(n)) = n
  BY <1>2
<1> QED
  BY <1>3 DEF Batch

(* Sending extends what one group was sent.                                *)
LEMMA SendEffect ==
  ASSUME TypeInv, loop.pc = "send", NEW n \in Nat, n <= loop.n,
         sent' = [sent EXCEPT ![loop.i] = @ \o Batch(n)]
  PROVE  /\ sent' \in Seq(Seq(Notif)) /\ DOMAIN sent' = DOMAIN sent
         /\ \A s \in DOMAIN sent : s # loop.i => sent'[s] = sent[s]
         /\ sent[loop.i] \in Seq(Notif)
         /\ sent'[loop.i] = sent[loop.i] \o Batch(n)
<1>1. loop.i \in 1..Len(sent)
  BY RoundFacts, TypeFacts
<1>2. sent[loop.i] \in Seq(Notif)
  BY <1>1, TypeFacts, ElementOfSeq
<1>3. sent[loop.i] \o Batch(n) \in Seq(Notif)
  BY <1>2, BatchFacts, ConcatProperties
<1>4. /\ sent' \in Seq(Seq(Notif)) /\ Len(sent') = Len(sent)
      /\ \A s \in 1..Len(sent) :
           sent'[s] = IF s = loop.i THEN sent[loop.i] \o Batch(n) ELSE sent[s]
  BY <1>1, <1>3, TypeFacts, ExceptSeq
<1> QED
  BY <1>1, <1>2, <1>4, LenProperties, TypeFacts

LEMMA LoopTypeInv ==
  ASSUME TypeInv, LoopStep
  PROVE  TypeInv'
<1>1. CASE StartRound
  <2>1. Len(subs) \in Nat \ {0}
    BY <1>1, EmptySeq, TypeFacts DEF StartRound
  <2>2. Len(subs) \in DOMAIN subs /\ 1 \in DOMAIN subs /\ 1 <= Len(subs)
    BY <2>1, TypeFacts
  <2> QED
    BY <1>1, <2>2 DEF StartRound, TypeInv, TypeOK, LoopInside, SentTyped
<1>2. CASE CountNew
  <2> DEFINE s == subs[loop.i]
             d == posts[s.feed] - s.last
  <2>1. d \in Nat /\ s.last \in Nat /\ loop \in Round
    <3>1. loop.i \in DOMAIN subs /\ loop \in Round
      BY <1>2, RoundFacts DEF CountNew
    <3>2. posts[s.feed] \in Nat /\ s.last \in Nat /\ s.last <= posts[s.feed]
      BY <3>1, TypeFacts
    <3> QED
      BY <3>1, <3>2
  <2>2. loop' = [loop EXCEPT !.pc = "send", !.first = s.last, !.n = d]
    BY <1>2 DEF CountNew
  <2> HIDE DEF s, d
  <2>3. loop' \in Round /\ loop'.i = loop.i /\ loop'.nb = loop.nb
    BY <2>1, <2>2 DEF Round
  <2>4. loop'.i <= loop'.nb
    BY <1>2, <2>3, RoundFacts DEF CountNew
  <2> QED
    BY <1>2, <2>3, <2>4
       DEF CountNew, TypeInv, TypeOK, LoopInside, SentTyped, Round
<1>3. CASE Send
  <2>1. loop.n \in Nat /\ loop \in Round /\ loop.i <= loop.nb
    BY <1>3, RoundFacts DEF Send
  <2>2. SentTyped' /\ DOMAIN sent' = DOMAIN sent
    <3>1. sent' = [sent EXCEPT ![loop.i] = @ \o Batch(loop.n)]
          /\ loop.pc = "send" /\ loop.n <= loop.n
      BY <1>3, <2>1 DEF Send
    <3> QED
      BY <2>1, <3>1, SendEffect DEF SentTyped
  <2>3. loop' \in Round /\ loop'.i <= loop'.nb
    BY <1>3, <2>1 DEF Send, Round
  <2> QED
    BY <1>3, <2>2, <2>3 DEF Send, TypeInv, TypeOK, LoopInside, Round
<1>4. CASE SendFails
  <2>1. PICK n \in 0..loop.n : n < loop.n
                               /\ sent' = [sent EXCEPT ![loop.i] = @ \o Batch(n)]
    BY <1>4 DEF SendFails
  <2>2. n \in Nat /\ n <= loop.n
    BY <1>4, <2>1, RoundFacts DEF SendFails
  <2>3. SentTyped' /\ DOMAIN sent' = DOMAIN sent
    BY <1>4, <2>1, <2>2, SendEffect DEF SendFails, SentTyped
  <2> QED
    BY <1>4, <2>3 DEF SendFails, TypeInv, TypeOK, LoopInside
<1>5. CASE MarkSent
  <2> DEFINE i == loop.i
             e == [subs[i] EXCEPT !.last = posts[subs[i].feed]]
             S == [feed : DOMAIN posts, last : Nat]
  <2>1. i \in 1..Len(subs) /\ subs \in Seq(S) /\ loop \in Round /\ i <= loop.nb
    BY <1>5, RoundFacts, TypeFacts DEF MarkSent, TypeInv, TypeOK
  <2>2. subs[i] \in S /\ posts[subs[i].feed] \in Nat
    BY <2>1, ElementOfSeq, TypeFacts
  <2>3. e \in S /\ e.feed = subs[i].feed /\ e.last = posts[subs[i].feed]
    BY <2>2
  <2>4. subs' = [subs EXCEPT ![i] = e]
    BY <1>5 DEF MarkSent, Mark
  <2> HIDE DEF e
  <2>5. /\ subs' \in Seq(S) /\ Len(subs') = Len(subs)
        /\ \A s \in 1..Len(subs) : subs'[s] = IF s = i THEN e ELSE subs[s]
    BY <2>1, <2>3, <2>4, ExceptSeq
  <2>6. DOMAIN subs' = DOMAIN subs
    BY <2>5, LenProperties, TypeFacts
  <2>7. ASSUME NEW s \in DOMAIN subs'
        PROVE  subs'[s].last <= posts[subs'[s].feed]
    <3>1. CASE s = i
      BY <2>2, <2>3, <2>5, <2>6, <3>1, TypeFacts
    <3>2. CASE s # i
      BY <2>5, <2>6, <3>2, TypeFacts
    <3> QED
      BY <3>1, <3>2
  <2>8. loop' \in {Sleep} \cup Round /\ LoopInside'
    <3>1. CASE LastOfRound
      BY <1>5, <3>1 DEF MarkSent, LoopInside, Sleep
    <3>2. CASE ~ LastOfRound
      <4>1. i + 1 <= loop.nb /\ i + 1 \in DOMAIN subs
        <5>1. i <= loop.nb /\ loop.nb \in 1..Len(subs) /\ i # loop.nb
              /\ i \in 1..Len(subs) /\ Len(subs) \in Nat
          BY <1>5, <3>2, RoundFacts, TypeFacts DEF LastOfRound, MarkSent
        <5> QED
          BY SMTT(30), <5>1, TypeFacts
      <4>2. loop' = [loop EXCEPT !.pc = "count", !.i = i + 1]
        BY <1>5, <3>2 DEF MarkSent
      <4> QED
        BY <2>1, <4>1, <4>2 DEF Round, LoopInside
    <3> QED
      BY <3>1, <3>2
  <2> QED
    BY <1>5, <2>5, <2>6, <2>7, <2>8
       DEF MarkSent, TypeInv, TypeOK, SentTyped, Round
<1> QED
  BY <1>1, <1>2, <1>3, <1>4, <1>5 DEF LoopStep

(* The indices of a round and the pointers of the feeds stay inside their  *)
(* arrays, and no subscription is ahead of its feed.                       *)
THEOREM TypeCorrect == Spec => []TypeInv
<1>1. TypeInv /\ UNCHANGED vars => TypeInv'
  BY DEF vars, TypeInv, TypeOK, LoopInside, SentTyped
<1>2. TypeInv /\ [Next]_vars => TypeInv'
  BY <1>1, NewFeedTypeInv, NewPostTypeInv, SubscribeTypeInv, AskTypeInv,
     LoopTypeInv DEF Next
<1> QED
  BY InitTypeInv, <1>2, PTL DEF Spec

(* TypeOK of Notifications.tla: in particular posts_count never wraps      *)
(* below zero (notifications_server.c:28-29).                              *)
THEOREM TypeSafety == Spec => []TypeOK
BY TypeCorrect, PTL DEF TypeInv

-----------------------------------------------------------------------------
(* Order *)

(* How far a group was sent its feed: to the end of the batch that is sent *)
(* and not marked yet, and else to last_send_post.                         *)
SentUpTo(s) == IF loop.pc = "mark" /\ loop.i = s THEN loop.first + loop.n
               ELSE subs[s].last
NothingBeyond ==
  loop.pc # "dead" =>
    \A s \in DOMAIN sent : \A j \in DOMAIN sent[s] : sent[s][j].post <= SentUpTo(s)

(* The batch of a round starts where the last one ended, and is there.     *)
BatchFromLast ==
  loop.pc \in {"send", "mark"} =>
    /\ loop.first = subs[loop.i].last
    /\ loop.first + loop.n <= posts[subs[loop.i].feed]

OrderInv == SentInOrder /\ NothingBeyond /\ BatchFromLast

LEMMA InitOrderInv == Init => OrderInv
BY DEF Init, OrderInv, SentInOrder, NothingBeyond, BatchFromLast, Sleep

(* Steps that send nothing and move no round.                              *)
LEMMA QuietOrderInv ==
  ASSUME TypeInv, OrderInv, UNCHANGED <<loop, sent>>,
         \A s \in DOMAIN subs : subs'[s] = subs[s],
         DOMAIN subs' = DOMAIN subs,
         \A f \in DOMAIN posts : posts'[f] \in Nat /\ posts[f] <= posts'[f]
  PROVE  OrderInv'
<1>1. SentInOrder'
  BY DEF OrderInv, SentInOrder
<1>2. NothingBeyond'
  BY TypeFacts DEF OrderInv, NothingBeyond, SentUpTo
<1>3. BatchFromLast'
  <2> SUFFICES ASSUME loop.pc \in {"send", "mark"}
               PROVE  /\ loop.first = subs[loop.i].last
                      /\ loop.first + loop.n <= posts'[subs[loop.i].feed]
    BY RoundFacts DEF BatchFromLast
  <2> DEFINE f == subs[loop.i].feed
  <2>1. /\ loop.first = subs[loop.i].last
        /\ loop.first + loop.n <= posts[f]
        /\ loop.i \in DOMAIN subs /\ loop.first + loop.n \in Nat
    BY RoundFacts DEF OrderInv, BatchFromLast
  <2>2. f \in DOMAIN posts
    BY <2>1, TypeFacts
  <2>3. posts[f] \in Nat /\ posts'[f] \in Nat /\ posts[f] <= posts'[f]
    BY <2>2, TypeFacts
  <2> QED
    BY <2>1, <2>3
<1> QED
  BY <1>1, <1>2, <1>3 DEF OrderInv

(* A sequence in order, followed by the posts that come after it. *)
Increasing(q) == \A j, l \in DOMAIN q : j < l => q[j].post < q[l].post

LEMMA ConcatInOrder ==
  ASSUME NEW q \in Seq(Notif), NEW b \in Seq(Notif), NEW m \in Nat,
         Increasing(q), \A j \in DOMAIN q : q[j].post <= m,
         \A j \in 1..Len(b) : b[j].post = m + j
  PROVE  /\ Increasing(q \o b)
         /\ \A j \in DOMAIN (q \o b) : (q \o b)[j].post <= m + Len(b)
<1> DEFINE k == Len(q)
           n == Len(b)
           P(j) == (q \o b)[j].post
<1>1. k \in Nat /\ n \in Nat /\ DOMAIN q = 1..k
  BY LenProperties
<1>2. DOMAIN (q \o b) = 1..(k + n)
  <2>1. q \o b \in Seq(Notif) /\ Len(q \o b) = k + n
    BY ConcatProperties
  <2> QED
    BY <2>1, LenProperties
<1>3. ASSUME NEW j \in 1..k
      PROVE  P(j) = q[j].post /\ P(j) \in Nat /\ P(j) <= m
  <2>1. (q \o b)[j] = q[j]
    BY <1>1, ConcatProperties
  <2>2. q[j] \in Notif
    BY ElementOfSeq
  <2> QED
    BY <1>1, <2>1, <2>2 DEF Notif
<1>4. ASSUME NEW j \in 1..n
      PROVE  P(k + j) = m + j
  <2>1. (q \o b)[k + j] = b[j]
    <3>1. k + j \in 1..(k + n) /\ ~ (k + j <= k) /\ (k + j) - k = j
      BY <1>1
    <3> QED
      BY <3>1, ConcatProperties
  <2> QED
    BY <2>1
<1>5. \A j \in 1..k : P(j) = q[j].post /\ P(j) \in Nat /\ P(j) <= m
  BY <1>3
<1>6. \A j \in 1..(k + n) : j \in 1..k \/ (j - k \in 1..n /\ P(j) = m + (j - k))
  <2> SUFFICES ASSUME NEW j \in 1..(k + n), j \notin 1..k
               PROVE  j - k \in 1..n /\ P(j) = m + (j - k)
    OBVIOUS
  <2>1. j - k \in 1..n /\ k + (j - k) = j
    BY <1>1
  <2>2. P(k + (j - k)) = m + (j - k)
    BY <1>4, <2>1
  <2> QED
    BY <2>1, <2>2
<1>7. \A j, l \in 1..k : j < l => P(j) < P(l)
  BY <1>1, <1>5 DEF Increasing
<1> HIDE DEF P, k, n
<1>8. \A j, l \in 1..(k + n) : j < l => P(j) < P(l)
  BY <1>1, <1>5, <1>6, <1>7
<1>9. \A j \in 1..(k + n) : P(j) <= m + n
  BY <1>1, <1>5, <1>6
<1> QED
  BY <1>2, <1>8, <1>9 DEF P, k, n, Increasing

(* A batch goes on where the group was, so that however much of it is sent *)
(* what was sent is in order.                                              *)
LEMMA BatchInOrder ==
  ASSUME TypeInv, OrderInv, loop.pc = "send", NEW n \in Nat, n <= loop.n,
         sent' = [sent EXCEPT ![loop.i] = @ \o Batch(n)]
  PROVE  /\ SentInOrder'
         /\ \A s \in DOMAIN sent' : \A j \in DOMAIN sent'[s] :
              sent'[s][j].post <= IF s = loop.i THEN loop.first + n
                                  ELSE subs[s].last
<1> DEFINE i == loop.i
<1>1. i \in DOMAIN subs /\ loop.first \in Nat /\ loop.first = subs[i].last
  BY RoundFacts DEF OrderInv, BatchFromLast
<1>2. /\ sent[i] \in Seq(Notif) /\ Batch(n) \in Seq(Notif) /\ Len(Batch(n)) = n
      /\ \A j \in 1..n : Batch(n)[j].post = loop.first + j
  BY SendEffect, BatchFacts
<1>3. /\ \A s \in DOMAIN sent : s # i => sent'[s] = sent[s]
      /\ DOMAIN sent' = DOMAIN sent /\ i \in DOMAIN sent
      /\ sent'[i] = sent[i] \o Batch(n)
  BY <1>1, SendEffect, TypeFacts
<1>4. \A s \in DOMAIN sent : Increasing(sent[s])
  BY DEF OrderInv, SentInOrder, Increasing
<1>5. \A s \in DOMAIN sent : \A j \in DOMAIN sent[s] :
        sent[s][j].post <= subs[s].last
  BY DEF OrderInv, NothingBeyond, SentUpTo
<1>6. /\ Increasing(sent'[i])
      /\ \A j \in DOMAIN sent'[i] : sent'[i][j].post <= loop.first + n
  <2>1. Increasing(sent[i]) /\ \A j \in DOMAIN sent[i] : sent[i][j].post <= loop.first
    BY <1>1, <1>3, <1>4, <1>5
  <2>2. \A j \in 1..Len(Batch(n)) : Batch(n)[j].post = loop.first + j
    BY <1>2
  <2> HIDE DEF i
  <2>3. /\ Increasing(sent[i] \o Batch(n))
        /\ \A j \in DOMAIN (sent[i] \o Batch(n)) :
             (sent[i] \o Batch(n))[j].post <= loop.first + Len(Batch(n))
    BY <1>1, <1>2, <2>1, <2>2, ConcatInOrder
  <2> QED
    BY <1>2, <1>3, <2>3
<1>7. SentInOrder'
  <2>1. \A s \in DOMAIN sent' : Increasing(sent'[s])
    BY <1>3, <1>4, <1>6
  <2> QED
    BY <2>1 DEF SentInOrder, Increasing
<1> QED
  BY <1>3, <1>5, <1>6, <1>7

LEMMA LoopOrderInv ==
  ASSUME TypeInv, OrderInv, LoopStep
  PROVE  OrderInv'
<1>1. CASE StartRound
  BY <1>1 DEF StartRound, Sleep, OrderInv, SentInOrder, NothingBeyond,
              SentUpTo, BatchFromLast
<1>2. CASE CountNew
  <2> DEFINE s == subs[loop.i]
  <2>1. /\ loop'.pc = "send" /\ loop'.i = loop.i /\ loop'.first = s.last
        /\ loop'.n = posts[s.feed] - s.last
    BY <1>2, RoundFacts DEF CountNew, Round
  <2>2. posts[s.feed] \in Nat /\ s.last \in Nat
    BY <1>2, RoundFacts, TypeFacts DEF CountNew
  <2>3. s.last + (posts[s.feed] - s.last) <= posts[s.feed]
    BY <2>2
  <2> QED
    BY <1>2, <2>1, <2>3
       DEF CountNew, OrderInv, SentInOrder, NothingBeyond, SentUpTo,
           BatchFromLast
<1>3. CASE Send
  <2>1. /\ loop.pc = "send" /\ loop.n \in Nat /\ loop.n <= loop.n
        /\ sent' = [sent EXCEPT ![loop.i] = @ \o Batch(loop.n)]
    BY <1>3, RoundFacts DEF Send
  <2>2. /\ loop'.pc = "mark" /\ loop'.i = loop.i /\ loop'.first = loop.first
        /\ loop'.n = loop.n
    BY <1>3, RoundFacts DEF Send, Round
  <2>3. SentInOrder' /\ NothingBeyond'
    BY <1>3, <2>1, <2>2, BatchInOrder DEF Send, NothingBeyond, SentUpTo
  <2> QED
    BY <1>3, <2>1, <2>2, <2>3 DEF Send, OrderInv, BatchFromLast
<1>4. CASE SendFails
  <2>1. PICK n \in 0..loop.n : sent' = [sent EXCEPT ![loop.i] = @ \o Batch(n)]
    BY <1>4 DEF SendFails
  <2>2. loop.pc = "send" /\ n \in Nat /\ n <= loop.n /\ loop'.pc = "dead"
    BY <1>4, RoundFacts DEF SendFails
  <2>3. SentInOrder'
    BY <2>1, <2>2, BatchInOrder
  <2> QED
    BY <2>2, <2>3 DEF OrderInv, NothingBeyond, BatchFromLast
<1>5. CASE MarkSent
  <2> DEFINE i == loop.i
  <2>1. /\ i \in DOMAIN subs /\ loop.first \in Nat /\ loop.n \in Nat
        /\ loop.first + loop.n <= posts[subs[i].feed]
        /\ loop.pc = "mark" /\ sent' = sent
    BY <1>5, RoundFacts DEF MarkSent, OrderInv, BatchFromLast
  <2>2. subs'[i].last = posts[subs[i].feed] /\ posts[subs[i].feed] \in Nat
    <3>1. subs' = [subs EXCEPT ![i] = [subs[i] EXCEPT !.last = posts[subs[i].feed]]]
      BY <1>5 DEF MarkSent, Mark
    <3>2. subs[i] \in Sub /\ posts[subs[i].feed] \in Nat
      <4>1. subs \in Seq(Sub) /\ i \in 1..Len(subs)
        BY <2>1, TypeFacts
      <4>2. subs[i] \in Sub
        BY <4>1, ElementOfSeq
      <4> QED
        BY <2>1, <4>2, TypeFacts
    <3>3. subs'[i] = [subs[i] EXCEPT !.last = posts[subs[i].feed]]
      BY <2>1, <3>1
    <3> QED
      BY <3>2, <3>3 DEF Sub
  <2>3. \A s \in DOMAIN subs : s # i => subs'[s] = subs[s]
    BY <1>5, TypeFacts DEF MarkSent
  <2>4. loop'.pc \in {"sleep", "count"}
    BY <1>5, <2>1, RoundFacts DEF MarkSent, Sleep, Round
  <2>5. ASSUME NEW s \in DOMAIN sent, NEW j \in DOMAIN sent[s]
        PROVE  sent[s][j].post <= subs'[s].last
    <3>1. sent[s][j] \in Notif
      <4>1. s \in 1..Len(sent)
        BY TypeFacts
      <4>2. sent[s] \in Seq(Notif)
        BY <4>1, TypeFacts, ElementOfSeq
      <4>3. j \in 1..Len(sent[s])
        BY <4>2, LenProperties
      <4> QED
        BY <4>2, <4>3, ElementOfSeq
    <3>2. sent[s][j].post \in Nat /\ s \in DOMAIN subs
      BY <3>1, TypeFacts DEF Notif
    <3>3. sent[s][j].post <= SentUpTo(s)
      BY <2>1 DEF OrderInv, NothingBeyond
    <3>4. CASE s = i
      BY <2>1, <2>2, <3>2, <3>3, <3>4 DEF SentUpTo
    <3>5. CASE s # i
      BY <2>1, <2>3, <3>2, <3>3, <3>5 DEF SentUpTo
    <3> QED
      BY <3>4, <3>5
  <2> QED
    BY <2>1, <2>4, <2>5
       DEF OrderInv, SentInOrder, NothingBeyond, SentUpTo, BatchFromLast
<1> QED
  BY <1>1, <1>2, <1>3, <1>4, <1>5 DEF LoopStep

LEMMA SubscribeOrderInv ==
  ASSUME TypeInv, OrderInv, NEW f \in DOMAIN posts, Subscribe(f)
  PROVE  OrderInv'
<1>1. /\ \A s \in DOMAIN subs : subs'[s] = subs[s] /\ sent'[s] = sent[s]
      /\ DOMAIN sent = DOMAIN subs
      /\ sent'[Len(subs) + 1] = <<>>
      /\ \A s \in DOMAIN sent' : s \in DOMAIN subs \/ s = Len(subs) + 1
  <2>1. /\ DOMAIN subs = 1..Len(subs) /\ Len(subs) \in Nat
        /\ DOMAIN sent = 1..Len(subs)
        /\ DOMAIN sent' = 1..(Len(subs) + 1)
    BY TypeFacts, SubscribeEffect
  <2>2. \A s \in DOMAIN sent' : s \in DOMAIN subs \/ s = Len(subs) + 1
    BY <2>1
  <2> QED
    BY <2>1, <2>2, SubscribeEffect
<1>2. loop' = loop /\ posts' = posts
  BY DEF Subscribe
<1>3. SentInOrder'
  BY <1>1 DEF OrderInv, SentInOrder
<1>4. NothingBeyond'
  BY <1>1, <1>2 DEF OrderInv, NothingBeyond, SentUpTo
<1>5. BatchFromLast'
  BY <1>1, <1>2, RoundFacts DEF OrderInv, BatchFromLast
<1> QED
  BY <1>3, <1>4, <1>5 DEF OrderInv

(* No group is sent a post twice, or an older one after a newer one,       *)
(* however posts and subscriptions arrive during a round and wherever      *)
(* sending fails (notifications_server.c:28-43).                           *)
THEOREM InOrder == Spec => []SentInOrder
<1>1. TypeInv /\ OrderInv /\ [Next]_vars => OrderInv'
  <2> SUFFICES ASSUME TypeInv, OrderInv, [Next]_vars
               PROVE  OrderInv'
    OBVIOUS
  <2>1. CASE LoopStep
    BY <2>1, LoopOrderInv
  <2>2. ASSUME NEW f \in DOMAIN posts, Subscribe(f)
        PROVE  OrderInv'
    BY <2>2, SubscribeOrderInv
  <2>3. CASE NewFeed
    <3>1. \A f \in DOMAIN posts : posts'[f] = posts[f] /\ posts[f] \in Nat
      <4>1. posts' = Append(posts, 0) /\ posts \in Seq(0..MaxPosts)
            /\ 0 \in 0..MaxPosts
        BY <2>3, NotificationsAssumption DEF NewFeed, TypeInv, TypeOK
      <4> QED
        BY <4>1, AppendProperties, TypeFacts
    <3> QED
      BY <2>3, <3>1, QuietOrderInv DEF NewFeed
  <2>4. ASSUME NEW f \in DOMAIN posts, NewPost(f)
        PROVE  OrderInv'
    <3>1. \A g \in DOMAIN posts : posts'[g] \in Nat /\ posts[g] <= posts'[g]
      BY <2>4, TypeFacts DEF NewPost
    <3> QED
      BY <2>4, <3>1, QuietOrderInv DEF NewPost
  <2>5. CASE \/ Answer \/ AnswerByChance \/ AnswerFromNowhere \/ UNCHANGED vars
             \/ \E f \in DOMAIN posts : SubscribeAgain(f)
    <3>1. UNCHANGED <<posts, subs, loop, sent>>
      BY <2>5 DEF Answer, AnswerByChance, AnswerFromNowhere, SubscribeAgain, vars
    <3>2. \A g \in DOMAIN posts : posts'[g] \in Nat /\ posts[g] <= posts'[g]
      BY <3>1, TypeFacts
    <3> QED
      BY <3>1, <3>2, QuietOrderInv
  <2> QED
    BY <2>1, <2>2, <2>3, <2>4, <2>5 DEF Next
<1> QED
  BY InitOrderInv, <1>1, TypeCorrect, PTL DEF Spec, OrderInv

-----------------------------------------------------------------------------
(* Groups *)

(* The pointer read for feed f, which is kept with the next feed, is to a  *)
(* subscription of feed f or to none.                                      *)
PointersOfFeed ==
  \A f \in 1..MaxFeeds : notif[NotifSlot(f)] \in DOMAIN subs =>
                           subs[notif[NotifSlot(f)]].feed = f

(* Only a feed that has come may hold a pointer nobody set.                *)
GarbageInFeeds ==
  \A f \in 1..(MaxFeeds + 1) : notif[f] = Garbage => f <= Len(posts)

GroupInv == GroupOfFeed /\ PointersOfFeed /\ GarbageInFeeds

LEMMA GarbageKept ==
  ASSUME TypeInv, GarbageInFeeds, [Next]_vars
  PROVE  GarbageInFeeds'
<1> USE DEF GarbageInFeeds
<1>1. CASE NewFeed
  <2>1. Len(posts') = Len(posts) + 1 /\ Len(posts) \in Nat
    <3>1. posts \in Seq(0..MaxPosts) /\ 0 \in 0..MaxPosts /\ posts' = Append(posts, 0)
      BY <1>1, NotificationsAssumption DEF NewFeed, TypeInv, TypeOK
    <3> QED
      BY <3>1, AppendProperties, TypeFacts
  <2>2. PICK p \in {Null, Garbage} : notif' = [notif EXCEPT ![Len(posts')] = p]
    BY <1>1 DEF NewFeed
  <2>3. \A f \in 1..(MaxFeeds + 1) : f = Len(posts') \/ notif'[f] = notif[f]
    BY <2>2 DEF TypeInv, TypeOK
  <2> QED
    BY <2>1, <2>3
<1>2. ASSUME NEW f \in DOMAIN posts, Subscribe(f)
      PROVE  GarbageInFeeds'
  <2>1. /\ notif'[f + 1] = Len(subs) + 1
        /\ \A g \in 1..(MaxFeeds + 1) : g # f + 1 => notif'[g] = notif[g]
    BY <1>2, SubscribeEffect
  <2>2. Len(subs) + 1 # Garbage /\ posts' = posts
    BY <1>2, TypeFacts, NotificationsAssumption DEF Subscribe, Garbage
  <2> QED
    BY <2>1, <2>2
<1>3. ASSUME NEW f \in DOMAIN posts, NewPost(f)
      PROVE  GarbageInFeeds'
  <2>1. Len(posts') = Len(posts) /\ notif' = notif
    BY <1>3 DEF NewPost, TypeInv, TypeOK
  <2> QED
    BY <2>1
<1>4. CASE UNCHANGED <<notif, posts>>
  BY <1>4
<1> QED
  BY <1>1, <1>2, <1>3, <1>4
     DEF Next, LoopStep, SubscribeAgain, Answer, AnswerByChance,
         AnswerFromNowhere, StartRound, CountNew, Send, SendFails, MarkSent, vars

(* A grant is right if it was, as long as the subscriptions keep their     *)
(* feeds and feeds only come.                                              *)
LEMMA GrantsKept ==
  ASSUME TypeInv, GroupOfFeed, granted' = granted,
         \A s \in DOMAIN subs : subs'[s].feed = subs[s].feed,
         Len(posts') \in Nat, Len(posts) <= Len(posts')
  PROVE  GroupOfFeed'
<1> SUFFICES ASSUME NEW g \in granted
             PROVE  IF g.set THEN subs'[g.group].feed = g.feed
                    ELSE g.feed < Len(posts')
  BY DEF GroupOfFeed
<1>1. IF g.set THEN subs[g.group].feed = g.feed ELSE g.feed < Len(posts)
  BY DEF GroupOfFeed
<1>2. g \in Grant
  BY DEF TypeInv, TypeOK, Grant
<1>3. g.feed \in Nat /\ (g.set => g.group \in DOMAIN subs)
  <2>1. CASE g \in [feed : DOMAIN posts, set : {TRUE}, group : DOMAIN subs]
    BY <2>1, TypeFacts
  <2>2. CASE g \in [feed : DOMAIN posts, set : {FALSE},
                   group : DOMAIN subs \cup {Garbage}]
    <3>1. g.set = FALSE /\ g.feed \in DOMAIN posts
      BY <2>2
    <3> QED
      BY <3>1, TypeFacts
  <2> QED
    BY <1>2, <2>1, <2>2 DEF Grant
<1> QED
  BY <1>1, <1>3, TypeFacts

(* Whoever subscribes is given a group of the feed asked for, although the *)
(* feed that keeps its pointer may come into being in between; an answer   *)
(* is left to chance only where that feed has come with a pointer nobody   *)
(* set, and never for the last feed (request_manager.c:205-216,            *)
(* data.c:214-229).                                                        *)
THEOREM GroupsOfFeeds == Spec => []GroupOfFeed
<1>1. Init => GroupInv
  <2> SUFFICES ASSUME Init
               PROVE  GroupInv
    OBVIOUS
  <2>1. granted = {} /\ DOMAIN subs = {}
    BY EmptySeq DEF Init
  <2>2. \A f \in 1..(MaxFeeds + 1) : notif[f] # Garbage
    BY NotificationsAssumption DEF Init, Null, Garbage
  <2> QED
    BY <2>1, <2>2 DEF GroupInv, GroupOfFeed, PointersOfFeed, GarbageInFeeds
<1>2. TypeInv /\ GroupInv /\ [Next]_vars => GroupInv'
  <2> SUFFICES ASSUME TypeInv, GroupInv, [Next]_vars
               PROVE  GroupInv'
    OBVIOUS
  <2> USE DEF PointersOfFeed, NotifSlot
  <2>6. GarbageInFeeds' /\ GroupOfFeed /\ PointersOfFeed
    BY GarbageKept DEF GroupInv
  <2>7. Len(posts) \in Nat
    BY TypeFacts
  <2>1. ASSUME NEW f \in DOMAIN posts, Subscribe(f)
        PROVE  GroupInv'
    <3>1. /\ DOMAIN subs = 1..Len(subs) /\ Len(subs) \in Nat
          /\ DOMAIN subs' = 1..(Len(subs) + 1)
          /\ \A s \in DOMAIN subs : subs'[s] = subs[s]
          /\ subs'[Len(subs) + 1].feed = f
          /\ notif'[f + 1] = Len(subs) + 1
          /\ \A g \in 1..(MaxFeeds + 1) : g # f + 1 => notif'[g] = notif[g]
      <4>1. DOMAIN subs = 1..Len(subs) /\ Len(subs) \in Nat
        BY TypeFacts
      <4>2. Subscribe(f)
        BY <2>1
      <4>3. /\ DOMAIN subs' = 1..(Len(subs) + 1)
            /\ \A s \in DOMAIN subs : subs'[s] = subs[s]
            /\ subs'[Len(subs) + 1] = [feed |-> f, last |-> 0]
        BY <4>2, SubscribeEffect
      <4>4. /\ notif'[f + 1] = Len(subs) + 1
            /\ \A g \in 1..(MaxFeeds + 1) : g # f + 1 => notif'[g] = notif[g]
        BY <4>2, SubscribeEffect
      <4> QED
        BY <4>1, <4>3, <4>4
    <3>2. GroupOfFeed'
      BY <2>1, <2>6, <2>7, <3>1, GrantsKept DEF Subscribe
    <3>3. ASSUME NEW g \in 1..MaxFeeds, notif'[g + 1] \in DOMAIN subs'
          PROVE  subs'[notif'[g + 1]].feed = g
      <4>1. CASE g = f
        BY <3>1, <4>1
      <4>2. CASE g # f
        <5>1. g + 1 \in 1..(MaxFeeds + 1) /\ g + 1 # f + 1
          BY <4>2, TypeFacts, NotificationsAssumption
        <5>2. notif[g + 1] \in 0..Len(subs) \cup {Garbage}
          BY <5>1 DEF TypeInv, TypeOK
        <5>3. notif[g + 1] \in DOMAIN subs
          <6>1. notif[g + 1] # Garbage
            BY <2>1, <3>1, <3>3, <5>1, NotificationsAssumption
               DEF Garbage, Subscribe
          <6> QED
            BY <2>1, <3>1, <3>3, <5>1, <5>2, <6>1 DEF Subscribe
        <5> QED
          BY <2>6, <3>1, <5>1, <5>3
      <4> QED
        BY <4>1, <4>2
    <3> QED
      BY <2>6, <3>2, <3>3 DEF GroupInv
  <2>2. CASE NewFeed
    <3>1. PICK p \in {Null, Garbage} : notif' = [notif EXCEPT ![Len(posts')] = p]
      BY <2>2 DEF NewFeed
    <3>2. p \notin DOMAIN subs
      <4>1. DOMAIN subs = 1..Len(subs) /\ Len(subs) \in Nat
        BY TypeFacts
      <4>2. Len(subs) <= MaxSubs /\ MaxSubs \in Nat
        BY NotificationsAssumption DEF TypeInv, TypeOK
      <4> QED
        BY <4>1, <4>2 DEF Null, Garbage
    <3>3. subs' = subs /\ granted' = granted
      BY <2>2 DEF NewFeed
    <3>5. Len(posts') = Len(posts) + 1
      <4>1. posts \in Seq(0..MaxPosts) /\ posts' = Append(posts, 0)
        BY <2>2 DEF NewFeed, TypeInv, TypeOK
      <4>2. 0 \in 0..MaxPosts
        BY NotificationsAssumption
      <4> QED
        BY <4>1, <4>2, AppendProperties
    <3>4. \A f \in 1..MaxFeeds : notif'[f + 1] = p \/ notif'[f + 1] = notif[f + 1]
      <4>1. notif \in [1..(MaxFeeds + 1) -> 0..Len(subs) \cup {Garbage}]
        BY DEF TypeInv, TypeOK
      <4>2. \A f \in 1..MaxFeeds : f + 1 \in 1..(MaxFeeds + 1)
        BY NotificationsAssumption
      <4> QED
        BY <3>1, <4>1, <4>2
    <3>6. GroupOfFeed'
      BY <2>6, <2>7, <3>3, <3>5, GrantsKept
    <3> QED
      BY <2>6, <3>2, <3>3, <3>4, <3>6 DEF GroupInv
  <2>3. CASE Answer
    <3>1. asking \in 1..MaxFeeds
      <4>1. asking \in 0..Len(posts) /\ asking # 0 /\ Len(posts) <= MaxFeeds
        BY <2>3 DEF Answer, TypeInv, TypeOK
      <4> QED
        BY <4>1, TypeFacts, NotificationsAssumption
    <3>2. PointersOfFeed'
      BY <2>3, <2>6 DEF Answer
    <3>3. subs[notif[asking + 1]].feed = asking
      BY <2>3, <2>6, <3>1 DEF Answer
    <3>4. GroupOfFeed'
      BY <2>3, <2>6, <3>3 DEF Answer, GroupOfFeed
    <3> QED
      BY <2>6, <3>2, <3>4 DEF GroupInv
  <2>8. CASE AnswerByChance
    <3>1. asking + 1 \in 1..(MaxFeeds + 1) /\ asking \in Nat
      <4>1. asking \in 0..Len(posts) /\ Len(posts) <= MaxFeeds
        BY DEF TypeInv, TypeOK
      <4> QED
        BY <2>7, <4>1, NotificationsAssumption
    <3>2. asking < Len(posts)
      <4>1. GarbageInFeeds /\ notif[asking + 1] = Garbage
        BY <2>8 DEF AnswerByChance, GroupInv
      <4>2. asking + 1 <= Len(posts)
        BY <3>1, <4>1 DEF GarbageInFeeds
      <4> QED
        BY <2>7, <3>1, <4>2
    <3>3. GroupOfFeed'
      BY <2>6, <2>8, <3>2 DEF AnswerByChance, GroupOfFeed
    <3>4. PointersOfFeed'
      BY <2>6, <2>8 DEF AnswerByChance
    <3> QED
      BY <2>6, <3>3, <3>4 DEF GroupInv
  <2>4. CASE MarkSent
    <3>1. DOMAIN subs' = DOMAIN subs
          /\ \A s \in DOMAIN subs : subs'[s].feed = subs[s].feed
      BY <2>4, TypeFacts DEF MarkSent, Sub
    <3>2. UNCHANGED <<posts, notif, granted>>
      BY <2>4 DEF MarkSent
    <3>3. GroupOfFeed'
      BY <2>6, <2>7, <3>1, <3>2, GrantsKept
    <3> QED
      BY <2>6, <3>1, <3>2, <3>3 DEF GroupInv
  <2>5. ASSUME UNCHANGED <<notif, subs, granted>>, Len(posts') = Len(posts)
        PROVE  GroupInv'
    <3>1. GroupOfFeed'
      BY <2>5, <2>6, <2>7, GrantsKept
    <3> QED
      BY <2>5, <2>6, <3>1 DEF GroupInv
  <2>9. ASSUME NEW f \in DOMAIN posts, NewPost(f)
        PROVE  Len(posts') = Len(posts)
    BY <2>9 DEF NewPost, TypeInv, TypeOK
  <2> QED
    BY <2>1, <2>2, <2>3, <2>4, <2>5, <2>8, <2>9
       DEF Next, LoopStep, NewPost, SubscribeAgain, AnswerFromNowhere,
           StartRound, CountNew, Send, SendFails, vars
<1> QED
  BY <1>1, <1>2, TypeCorrect, PTL DEF Spec, GroupInv
=============================================================================
