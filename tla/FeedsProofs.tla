---------------------------- MODULE FeedsProofs ----------------------------
(***************************************************************************)
(* Proofs about Feeds.tla and LastPosts.tla, for every value of their      *)
(* constants.                                                              *)
(***************************************************************************)
EXTENDS LastPosts, NaturalsInduction, WellFoundedInduction, SequenceTheorems, TLAPS

(* Only a registered id prepares an upload (request_manager.c:228-234), so *)
(* get_pseudo finds a user when the upload completes (data.c:424).         *)
UploadsRegistered == \A id \in Ids : upload[id].active => id \in UsedIds

TypeInv == TypeOK /\ UploadsRegistered

-----------------------------------------------------------------------------
(* Every nonempty set of numbers has a least one.                          *)
LEMMA LeastNat ==
  ASSUME NEW T, T \subseteq Nat, T # {}
  PROVE  \E m \in T : \A n \in T : m <= n
<1> DEFINE Below == {ss \in Nat \X Nat : ss[1] < ss[2]}
<1>1. IsWellFoundedOn(Below, Nat)
  BY NatLessThanWellFounded DEF OpToRel
<1>2. PICK m \in T : \A n \in T : ~ (<<n, m>> \in Below)
  BY <1>1, WFMin
<1>3. ASSUME NEW n \in T, n < m
      PROVE  FALSE
  <2>1. <<n, m>> \in Nat \X Nat
    OBVIOUS
  <2>2. <<n, m>> \in Below
    BY <2>1, <1>3
  <2> QED
    BY <2>2, <1>2
<1> QED
  BY <1>2, <1>3

(* get_pseudo returns the pseudo of a user with the id it was given.       *)
LEMMA PseudoFound ==
  ASSUME TypeOK, NEW id \in UsedIds
  PROVE  /\ FirstUser(id) \in DOMAIN users
         /\ users[FirstUser(id)].id = id
         /\ PseudoPointer(id) \in Pointer
<1> DEFINE T == {i \in DOMAIN users : users[i].id = id}
<1>1. DOMAIN users \subseteq Nat
  BY LenProperties DEF TypeOK
<1>2. T # {} /\ T \subseteq Nat
  BY <1>1 DEF UsedIds
<1>3. PICK m \in T : \A n \in T : m <= n
  BY <1>2, LeastNat
<1>4. \A j \in 1..(m-1) : users[j].id # id
  <2> SUFFICES ASSUME NEW j \in 1..(m-1), users[j].id = id
               PROVE  FALSE
    OBVIOUS
  <2>1. j \in DOMAIN users
    BY <1>1, LenProperties DEF TypeOK
  <2> QED
    BY <2>1, <1>3, <1>1
<1>5. FirstUser(id) \in DOMAIN users /\ users[FirstUser(id)].id = id
  BY <1>3, <1>4 DEF FirstUser
<1>6. users[FirstUser(id)] \in User
  BY <1>5, ElementOfSeq, LenProperties DEF TypeOK
<1> QED
  BY <1>5, <1>6 DEF PseudoPointer, Pointer, User, TypeOK

(* One thread changes its locals, the other does not.                      *)
LEMMA OneThread ==
  ASSUME TypeOK, NEW t \in Threads, NEW r \in Thread, thr' = [thr EXCEPT ![t] = r]
  PROVE  /\ thr' \in [Threads -> Thread] /\ thr'[t] = r
         /\ \A u \in Threads : u # t => thr'[u] = thr[u]
BY DEF TypeOK

Pcs == {"idle", "open", "append", "path", "mkdir", "number", "aim", "post", "reply",
        "write", "dead"}

LEMMA GotoEffect ==
  ASSUME TypeOK, NEW t \in Threads, NEW l \in Pcs, thr' = Goto(t, l)
  PROVE  /\ thr' \in [Threads -> Thread]
         /\ thr'[t].pc = l /\ thr'[t].id = thr[t].id /\ thr'[t].ptr = thr[t].ptr
         /\ thr'[t].feed = thr[t].feed /\ thr'[t].data = thr[t].data
         /\ thr'[t].path = thr[t].path
         /\ \A u \in Threads : u # t => thr'[u] = thr[u]
<1> DEFINE r == [thr[t] EXCEPT !.pc = l]
<1>1. thr[t] \in Thread
  BY DEF TypeOK
<1>2. /\ r \in Thread /\ r.pc = l /\ r.id = thr[t].id /\ r.ptr = thr[t].ptr
      /\ r.feed = thr[t].feed /\ r.data = thr[t].data /\ r.path = thr[t].path
  BY <1>1 DEF Thread, Pcs
<1>3. thr' = [thr EXCEPT ![t] = r]
  BY DEF Goto
<1> HIDE DEF r
<1> QED
  BY <1>2, <1>3, OneThread
-----------------------------------------------------------------------------
(* Type correctness *)

(* What a thread reads through a pseudo pointer is some pseudo.            *)
LEMMA DerefTyped ==
  ASSUME NEW ptr \in Pointer
  PROVE  Deref(ptr) \subseteq Pseudos
BY DEF Deref, Pointer

(* Few steps make a slot active.                                           *)
LEMMA RegisteredPreserved ==
  ASSUME UploadsRegistered, UNCHANGED users,
         \A id \in Ids : upload'[id].active => upload[id].active
  PROVE  UploadsRegistered'
BY DEF UploadsRegistered, UsedIds

(* What TypeOK says of the threads.                                        *)
ThreadsOK ==
  /\ thr \in [Threads -> Thread]
  /\ \A t \in Threads : Busy(t) => thr[t].ptr \in Pointer /\ thr[t].id \in Ids
  /\ \A t \in Threads : thr[t].pc = "post" => thr[t].data # None
  /\ Busy("tcp") => thr["tcp"].data \in Payloads

LEMMA OtherFieldsTyped ==
  ASSUME TypeOK, ThreadsOK', raced' \in BOOLEAN,
         users' \in Seq(User), usersCap' \in Nat, feeds' \in Seq(Feed),
         dirs' \in SUBSET Nat, files' \in SUBSET [data : Payloads, feed : Nat],
         upload' \in [Ids -> Upload], up' \in BOOLEAN,
         replies' \in SUBSET [data : Payloads, feed : Nat],
         author' \in [Payloads -> Pseudos \cup {Nobody, None}]
  PROVE  TypeOK'
BY DEF TypeOK, ThreadsOK

(* A thread that goes on, without reaching post_new, has what it had.      *)
LEMMA GoesOn ==
  ASSUME TypeOK, NEW t \in Threads, NEW l \in Pcs, thr' = Goto(t, l), Busy(t),
         l = "post" => thr[t].data # None
  PROVE  ThreadsOK'
<1>1. /\ thr' \in [Threads -> Thread]
      /\ thr'[t].pc = l /\ thr'[t].id = thr[t].id /\ thr'[t].ptr = thr[t].ptr
      /\ thr'[t].data = thr[t].data
      /\ \A u \in Threads : u # t => thr'[u] = thr[u]
  BY GotoEffect
<1> QED
  BY <1>1 DEF TypeOK, ThreadsOK, Busy, Threads

LEMMA ThreadsUnchanged ==
  ASSUME TypeOK, UNCHANGED thr
  PROVE  ThreadsOK'
BY DEF TypeOK, ThreadsOK, Busy

LEMMA InitTypeInv == Init => TypeInv
<1> SUFFICES ASSUME Init
             PROVE  TypeInv
  OBVIOUS
<1>1. /\ users = <<>> /\ usersCap = InitCap /\ feeds = <<>> /\ dirs \in SUBSET OldDirs
      /\ files = {} /\ upload = [id \in Ids |-> Cleared]
      /\ thr = [t \in Threads |-> Idle] /\ up = TRUE /\ replies = {}
      /\ author = [d \in Payloads |-> None] /\ raced = FALSE
  BY DEF Init
<1>2. Cleared \in Upload /\ Idle \in Thread
  BY DEF Cleared, Upload, Idle, Thread
<1>3. \A t \in Threads : thr[t] = Idle
  BY <1>1
<1>4. \A t \in Threads : ~ Busy(t) /\ thr[t].pc # "post"
  BY <1>3 DEF Busy, Idle
<1>5. UploadsRegistered
  BY <1>1 DEF UploadsRegistered, Cleared
<1>6. thr \in [Threads -> Thread] /\ upload \in [Ids -> Upload]
  BY <1>1, <1>2
<1>7. /\ users \in Seq(User) /\ usersCap \in Nat /\ feeds \in Seq(Feed) /\ dirs \in SUBSET Nat
  BY <1>1, FeedsAssumption, EmptySeq
<1> QED
  BY <1>1, <1>4, <1>5, <1>6, <1>7 DEF TypeInv, TypeOK, Threads

(* A sender carries an id of the server's range and a pseudo or Nobody.    *)
LEMMA SenderTyped ==
  ASSUME TypeOK, NEW s \in Senders
  PROVE  s.id \in Ids /\ s.pseudo \in Pseudos \cup {Nobody}
<1>1. ASSUME NEW i \in DOMAIN users
      PROVE  users[i].id \in Ids /\ users[i].pseudo \in Pseudos
  <2>1. users[i] \in User
    BY ElementOfSeq, LenProperties DEF TypeOK
  <2> QED
    BY <2>1 DEF User
<1> QED
  BY <1>1 DEF Senders

LEMMA RegisterTypeInv ==
  ASSUME TypeInv, NEW p \in Pseudos, Register(p), raced' \in BOOLEAN
  PROVE  TypeInv'
<1>1. PICK id \in FreeIds : users' = Append(users, [id |-> id, pseudo |-> p])
  BY DEF Register
<1>2. [id |-> id, pseudo |-> p] \in User
  BY DEF User, FreeIds
<1>3. /\ users' \in Seq(User)
      /\ Len(users') = Len(users) + 1
      /\ \A i \in 1..Len(users) : users'[i] = users[i]
  BY <1>1, <1>2, AppendProperties DEF TypeInv, TypeOK
<1>4. usersCap' \in Nat
  BY DEF Register, TypeInv, TypeOK
<1>5. UsedIds \subseteq UsedIds'
  BY SMTT(30), <1>3, LenProperties DEF UsedIds, TypeInv, TypeOK
<1>6. UploadsRegistered'
  BY <1>5 DEF UploadsRegistered, TypeInv, Register
<1>7. TypeOK'
  BY <1>3, <1>4, ThreadsUnchanged, OtherFieldsTyped DEF Register, TypeInv, TypeOK
<1> QED
  BY <1>6, <1>7 DEF TypeInv

LEMMA StartPostTypeInv ==
  ASSUME TypeInv, NEW s \in Senders, NEW d \in FreshPayloads, NEW n \in PostFeeds,
         StartPost(s, n, d), raced' \in BOOLEAN
  PROVE  TypeInv'
<1> USE DEF TypeInv
<1>1. s.pseudo \in Pseudos \cup {Nobody} /\ s.id \in Ids /\ d \in Payloads
  BY SenderTyped DEF FreshPayloads
<1>2. PseudoPointer(s.id) \in Pointer
  BY PseudoFound DEF StartPost, PostRefused
<1>3. Len(feeds) \in Nat /\ NextFeedNumber(Len(feeds)) \in Nat /\ n \in Nat
  BY LenProperties, FeedsAssumption DEF TypeOK, NextFeedNumber
<1> DEFINE r == [pc |-> IF n = 0 THEN "append" ELSE "post",
                 id |-> s.id, ptr |-> PseudoPointer(s.id),
                 feed |-> IF n = 0 THEN NextFeedNumber(Len(feeds)) ELSE n,
                 data |-> d, path |-> 0]
<1>4. r \in Thread /\ r.ptr \in Pointer /\ r.id \in Ids /\ r.data \in Payloads
  BY <1>1, <1>2, <1>3 DEF Thread
<1>5. thr' = [thr EXCEPT !["tcp"] = r] /\ "tcp" \in Threads
  BY DEF StartPost, Threads
<1> HIDE DEF r
<1>6. thr' \in [Threads -> Thread] /\ thr'["tcp"] = r /\ thr'["udp"] = thr["udp"]
  BY <1>4, <1>5, OneThread DEF Threads
<1>7. ThreadsOK'
  BY <1>4, <1>6, FeedsAssumption DEF ThreadsOK, TypeOK, Busy, Threads
<1>8. TypeOK'
  BY <1>1, <1>7, OtherFieldsTyped DEF StartPost, TypeOK, dataVars
<1>9. UploadsRegistered'
  BY RegisteredPreserved DEF StartPost, dataVars
<1> QED
  BY <1>8, <1>9

LEMMA RequestTypeInv ==
  ASSUME TypeInv, Requests, raced' \in BOOLEAN
  PROVE  TypeInv'
<1> USE DEF TypeInv
<1>1. ASSUME NEW p \in Pseudos, Register(p)
      PROVE  TypeInv'
  BY <1>1, RegisterTypeInv
<1>2. ASSUME NEW s \in Senders, NEW d \in FreshPayloads, NEW n \in PostFeeds,
             RefusePost(s, n, d)
      PROVE  TypeInv'
  <2>1. s.pseudo \in Pseudos \cup {Nobody} /\ d \in Payloads
    BY SenderTyped DEF FreshPayloads
  <2>2. ThreadsOK'
    BY <1>2, ThreadsUnchanged DEF RefusePost
  <2>3. TypeOK'
    BY <1>2, <2>1, <2>2, OtherFieldsTyped DEF RefusePost, TypeOK, dataVars, ErrorFeed
  <2>4. UploadsRegistered'
    BY <1>2, RegisteredPreserved DEF RefusePost, dataVars
  <2> QED
    BY <2>3, <2>4
<1>3. ASSUME NEW s \in Senders, NEW d \in FreshPayloads, NEW n \in PostFeeds,
             StartPost(s, n, d)
      PROVE  TypeInv'
  BY <1>3, StartPostTypeInv
<1>4. ASSUME NEW s \in Senders, NEW d \in FreshPayloads, NEW n \in UploadFeeds,
             PrepareUpload(s, n, d)
      PROVE  TypeInv'
  <2>1. s.pseudo \in Pseudos \cup {Nobody} /\ s.id \in Ids
    BY SenderTyped
  <2>2. d \in Payloads /\ n \in Nat
    BY FeedsAssumption DEF FreshPayloads
  <2>3. upload' \in [Ids -> Upload]
    BY <1>4, <2>1, <2>2 DEF PrepareUpload, TypeOK, Upload
  <2>4. UploadsRegistered'
    BY <1>4, <2>1 DEF PrepareUpload, UploadsRegistered, UsedIds, TypeOK
  <2>5. ThreadsOK'
    BY <1>4, ThreadsUnchanged DEF PrepareUpload
  <2>6. author' \in [Payloads -> Pseudos \cup {Nobody, None}]
    BY <1>4, <2>1, <2>2 DEF PrepareUpload, TypeOK
  <2>7. TypeOK'
    BY <1>4, <2>3, <2>5, <2>6, OtherFieldsTyped DEF PrepareUpload, TypeOK
  <2> QED
    BY <2>4, <2>7
<1>5. ASSUME NEW id \in Ids, Timeout(id)
      PROVE  TypeInv'
  <2>1. upload' = [upload EXCEPT ![id] = Cleared] /\ Cleared \in Upload /\ ~ Cleared.active
    BY <1>5 DEF Timeout, Cleared, Upload
  <2>2. upload' \in [Ids -> Upload] /\ \A i \in Ids : upload'[i].active => upload[i].active
    BY <2>1 DEF TypeOK
  <2>3. ThreadsOK'
    BY <1>5, ThreadsUnchanged DEF Timeout
  <2>4. TypeOK'
    BY <1>5, <2>2, <2>3, OtherFieldsTyped DEF Timeout, TypeOK
  <2>5. UploadsRegistered'
    BY <1>5, <2>2, RegisteredPreserved DEF Timeout
  <2> QED
    BY <2>4, <2>5
<1>6. ASSUME NEW id \in Ids, StartPublish(id)
      PROVE  TypeInv'
  <2>1. PseudoPointer(id) \in Pointer
    BY <1>6, PseudoFound DEF StartPublish, UploadsRegistered
  <2> DEFINE r == [pc |-> "open", id |-> id, ptr |-> PseudoPointer(id),
                   feed |-> 0, data |-> None, path |-> 0]
  <2>2. r \in Thread /\ r.ptr \in Pointer /\ r.id \in Ids /\ r.pc = "open"
    BY <2>1 DEF Thread
  <2>3. thr' = [thr EXCEPT !["udp"] = r] /\ "udp" \in Threads
    BY <1>6 DEF StartPublish, Threads
  <2> HIDE DEF r
  <2>4. thr' \in [Threads -> Thread] /\ thr'["udp"] = r /\ thr'["tcp"] = thr["tcp"]
    BY <2>2, <2>3, OneThread DEF Threads
  <2>5. ThreadsOK'
    BY <2>2, <2>4 DEF ThreadsOK, TypeOK, Busy, Threads
  <2>6. TypeOK'
    BY <1>6, <2>5, OtherFieldsTyped DEF StartPublish, TypeOK, dataVars
  <2>7. UploadsRegistered'
    BY <1>6, RegisteredPreserved DEF StartPublish, dataVars
  <2> QED
    BY <2>6, <2>7
<1> QED
  BY <1>1, <1>2, <1>3, <1>4, <1>5, <1>6 DEF Requests

LEMMA FeedNewTypeInv ==
  ASSUME TypeInv, NEW t \in Threads, FeedNew(t), raced' \in BOOLEAN
  PROVE  TypeInv'
<1> USE DEF TypeInv
<1>0. /\ Len(feeds) \in Nat /\ thr[t] \in Thread
      /\ thr[t].feed \in Nat /\ thr[t].path \in Nat
      /\ AfterFeedNew(t) \in {"post", "number"}
      /\ AfterFeedNew(t) = "post" => t = "tcp"
  BY LenProperties DEF TypeOK, Thread, AfterFeedNew
<1>00. AfterFeedNew(t) = "post" /\ Busy(t) => thr[t].data # None
  BY <1>0, FeedsAssumption DEF TypeOK
<1>1. CASE FeedAppend(t)
  <2>1. PICK p \in Deref(thr[t].ptr) :
          feeds' = Append(feeds, [creator |-> p, posts |-> <<>>])
    BY <1>1 DEF FeedAppend
  <2>2. p \in Pseudos
    BY <1>1, DerefTyped DEF FeedAppend, TypeOK, Busy
  <2>3. [creator |-> p, posts |-> <<>>] \in Feed
    BY <2>2, EmptySeq DEF Feed
  <2>4. feeds' \in Seq(Feed)
    BY <2>1, <2>3, AppendProperties DEF TypeOK
  <2>5. ThreadsOK'
    BY <1>1, GoesOn DEF FeedAppend, Busy, Pcs
  <2>6. TypeOK'
    BY <1>1, <2>4, <2>5, OtherFieldsTyped DEF FeedAppend, TypeOK
  <2> QED
    BY <1>1, <2>6, RegisteredPreserved DEF FeedAppend
<1>2. CASE FeedPath(t)
  <2>0. PICK l \in {"mkdir", AfterFeedNew(t)} :
          thr' = [thr EXCEPT ![t].path = Len(feeds), ![t].pc = l]
    BY <1>0, <1>2 DEF FeedPath
  <2> DEFINE r == [thr[t] EXCEPT !.path = Len(feeds), !.pc = l]
  <2>1. /\ r \in Thread /\ r.pc = l /\ r.ptr = thr[t].ptr /\ r.id = thr[t].id
        /\ r.data = thr[t].data
    BY <1>0 DEF Thread
  <2>2. thr' = [thr EXCEPT ![t] = r]
    BY <2>0
  <2> HIDE DEF r
  <2>3. /\ thr' \in [Threads -> Thread] /\ thr'[t] = r
        /\ \A u \in Threads : u # t => thr'[u] = thr[u]
    BY <2>1, <2>2, OneThread
  <2>4. Busy(t)
    BY <1>2 DEF FeedPath, Busy
  <2>5. ThreadsOK'
    BY <1>0, <1>00, <2>0, <2>1, <2>3, <2>4 DEF TypeOK, ThreadsOK, Busy, Threads
  <2>6. TypeOK'
    BY <1>2, <2>5, OtherFieldsTyped DEF FeedPath, TypeOK, dataVars
  <2> QED
    BY <1>2, <2>6, RegisteredPreserved DEF FeedPath, dataVars
<1>3. CASE Mkdir(t)
  <2>1. Busy(t)
    BY <1>3 DEF Mkdir, Busy
  <2>2. ThreadsOK'
    BY <1>0, <1>00, <1>3, <2>1, GoesOn DEF Mkdir, Pcs
  <2>3. TypeOK'
    BY <1>0, <1>3, <2>2, OtherFieldsTyped DEF Mkdir, TypeOK
  <2> QED
    BY <1>3, <2>3, RegisteredPreserved DEF Mkdir
<1>4. CASE MkdirFails(t)
  <2>1. ThreadsOK'
    BY <1>4, GoesOn DEF MkdirFails, Busy, Pcs
  <2>2. TypeOK'
    BY <1>4, <2>1, OtherFieldsTyped DEF MkdirFails, TypeOK, dataVars
  <2> QED
    BY <1>4, <2>2, RegisteredPreserved DEF MkdirFails, dataVars
<1> QED
  BY <1>1, <1>2, <1>3, <1>4 DEF FeedNew

LEMMA PostNewTypeInv ==
  ASSUME TypeInv, NEW t \in Threads, PostNew(t), raced' \in BOOLEAN
  PROVE  TypeInv'
<1> USE DEF TypeInv
<1> DEFINE f == thr[t].feed
<1>1. PICK p \in Deref(thr[t].ptr) :
        feeds' = [feeds EXCEPT ![f].posts =
                    Append(@, [pseudo |-> p, data |-> thr[t].data])]
  BY DEF PostNew
<1>2. [pseudo |-> p, data |-> thr[t].data] \in Post
  BY DerefTyped DEF PostNew, TypeOK, Busy, Post, Thread
<1>3. f \in 1..Len(feeds) /\ feeds[f] \in Feed
  BY ElementOfSeq, LenProperties DEF PostNew, TypeOK
<1>4. Append(feeds[f].posts, [pseudo |-> p, data |-> thr[t].data]) \in Seq(Post)
  BY <1>2, <1>3, AppendProperties DEF Feed
<1>5. feeds' \in Seq(Feed)
  <2> DEFINE g == [feeds[f] EXCEPT
                     !.posts = Append(@, [pseudo |-> p, data |-> thr[t].data])]
  <2>1. g \in Feed
    BY <1>3, <1>4 DEF Feed
  <2>2. feeds' = [feeds EXCEPT ![f] = g]
    BY <1>1
  <2> QED
    BY <1>3, <2>1, <2>2, ExceptSeq DEF TypeOK
<1>6. ThreadsOK'
  BY GoesOn DEF PostNew, AfterPost, Busy, Pcs
<1>7. TypeOK'
  BY <1>5, <1>6, OtherFieldsTyped DEF PostNew, TypeOK
<1> QED
  BY <1>7, RegisteredPreserved DEF PostNew

LEMMA UdpTypeInv ==
  ASSUME TypeInv, raced' \in BOOLEAN,
         ReadTarget \/ NumberFeed \/ Aim \/ WriteFile \/ WriteFileFails
  PROVE  TypeInv'
<1> USE DEF TypeInv
<1>0. "udp" \in Threads /\ Len(feeds) \in Nat /\ thr["udp"] \in Thread
  BY LenProperties DEF TypeOK, Threads
<1>1. Busy("udp") /\ thr["udp"].id \in Ids
  BY <1>0 DEF ReadTarget, NumberFeed, Aim, WriteFile, WriteFileFails, Busy, TypeOK
<1>2. Slot \in Upload
  BY <1>1 DEF Slot, TypeOK
<1>3. CASE ReadTarget
  <2>1. PublishFrom(Slot.feed) \in {"append", "number"}
    BY DEF PublishFrom
  <2>2. ThreadsOK'
    BY <1>0, <1>1, <1>3, <2>1, GoesOn DEF ReadTarget, Pcs
  <2>3. TypeOK'
    BY <1>3, <2>2, OtherFieldsTyped DEF ReadTarget, TypeOK, dataVars
  <2> QED
    BY <1>3, <2>3, RegisteredPreserved DEF ReadTarget, dataVars
<1>4. CASE NumberFeed
  <2> DEFINE m == IF Slot.feed = 0 THEN Len(feeds) % U16 ELSE Slot.feed
             r == [Slot EXCEPT !.feed = m]
  <2>1. m \in Nat
    BY <1>0, <1>2, FeedsAssumption DEF Upload
  <2>2. r \in Upload /\ r.active = Slot.active
    BY <1>2, <2>1 DEF Upload
  <2>3. upload' = [upload EXCEPT ![thr["udp"].id] = r]
    BY <1>4 DEF NumberFeed, Slot
  <2> HIDE DEF r
  <2>4. /\ upload' \in [Ids -> Upload]
        /\ \A i \in Ids : upload'[i].active => upload[i].active
    BY <2>2, <2>3 DEF TypeOK, Slot
  <2>5. ThreadsOK'
    BY <1>0, <1>1, <1>4, GoesOn DEF NumberFeed, Pcs
  <2>6. TypeOK'
    BY <1>4, <2>4, <2>5, OtherFieldsTyped DEF NumberFeed, TypeOK
  <2> QED
    BY <1>4, <2>4, <2>6, RegisteredPreserved DEF NumberFeed
<1>5. CASE Aim
  <2> DEFINE r == [thr["udp"] EXCEPT !.feed = Slot.feed, !.data = Slot.data, !.pc = "post"]
  <2>1. /\ r \in Thread /\ r.pc = "post" /\ r.ptr = thr["udp"].ptr /\ r.id = thr["udp"].id
        /\ r.data = Slot.data /\ Slot.data # None
    BY <1>0, <1>2, FeedsAssumption DEF Thread, Upload
  <2>2. thr' = [thr EXCEPT !["udp"] = r]
    BY <1>5 DEF Aim
  <2> HIDE DEF r
  <2>3. thr' \in [Threads -> Thread] /\ thr'["udp"] = r /\ thr'["tcp"] = thr["tcp"]
    BY <1>0, <2>1, <2>2, OneThread DEF Threads
  <2>4. ThreadsOK'
    BY <1>0, <1>1, <2>1, <2>3 DEF TypeOK, ThreadsOK, Busy, Threads
  <2>5. TypeOK'
    BY <1>5, <2>4, OtherFieldsTyped DEF Aim, TypeOK, dataVars
  <2> QED
    BY <1>5, <2>5, RegisteredPreserved DEF Aim, dataVars
<1>6. CASE WriteFile
  <2>1. Slot.data \in Payloads /\ Slot.feed \in Nat
    BY <1>2, <1>6 DEF WriteFile, Writable, Upload
  <2>2. files' \in SUBSET [data : Payloads, feed : Nat]
    BY <1>6, <2>1 DEF WriteFile, TypeOK
  <2>3. upload' = [upload EXCEPT ![thr["udp"].id] = Cleared] /\ Cleared \in Upload
        /\ ~ Cleared.active
    BY <1>6 DEF WriteFile, Cleared, Upload
  <2>4. upload' \in [Ids -> Upload] /\ \A i \in Ids : upload'[i].active => upload[i].active
    BY <1>1, <2>3 DEF TypeOK
  <2>5. Idle \in Thread /\ Idle.pc = "idle"
    BY DEF Idle, Thread
  <2>6. thr' \in [Threads -> Thread] /\ thr'["udp"] = Idle /\ thr'["tcp"] = thr["tcp"]
    BY <1>0, <1>6, <2>5, OneThread DEF WriteFile, Threads
  <2>7. ThreadsOK'
    BY <1>0, <2>5, <2>6 DEF TypeOK, ThreadsOK, Busy, Threads
  <2>8. TypeOK'
    BY <1>6, <2>2, <2>4, <2>7, OtherFieldsTyped DEF WriteFile, TypeOK
  <2> QED
    BY <1>6, <2>4, <2>8, RegisteredPreserved DEF WriteFile
<1>7. CASE WriteFileFails
  <2>1. ThreadsOK'
    BY <1>0, <1>1, <1>7, GoesOn DEF WriteFileFails, Pcs
  <2>2. TypeOK'
    BY <1>7, <2>1, OtherFieldsTyped DEF WriteFileFails, TypeOK, dataVars
  <2> QED
    BY <1>7, <2>2, RegisteredPreserved DEF WriteFileFails, dataVars
<1> QED
  BY <1>3, <1>4, <1>5, <1>6, <1>7

LEMMA ThreadTypeInv ==
  ASSUME TypeInv, TcpStep \/ UdpStep, raced' \in BOOLEAN
  PROVE  TypeInv'
<1> USE DEF TypeInv
<1>1. ASSUME NEW t \in Threads, FeedNew(t)
      PROVE  TypeInv'
  BY <1>1, FeedNewTypeInv
<1>2. ASSUME NEW t \in Threads, PostNew(t)
      PROVE  TypeInv'
  BY <1>2, PostNewTypeInv
<1>3. ASSUME NEW t \in Threads, PostNowhere(t)
      PROVE  TypeInv'
  <2>1. ThreadsOK'
    BY <1>3, ThreadsUnchanged DEF PostNowhere
  <2>2. TypeOK'
    BY <1>3, <2>1, OtherFieldsTyped DEF PostNowhere, TypeOK, dataVars
  <2> QED
    BY <1>3, <2>2, RegisteredPreserved DEF PostNowhere, dataVars
<1>4. CASE ReplyPost
  <2>0. "tcp" \in Threads
    BY DEF Threads
  <2>1. /\ thr["tcp"] \in Thread /\ thr["tcp"].data \in Payloads
        /\ ReplyFeed \in Nat
    BY <1>4, <2>0 DEF ReplyPost, ReplyFeed, TypeOK, Busy, Thread
  <2>2. replies' \in SUBSET [data : Payloads, feed : Nat]
    BY <1>4, <2>1 DEF ReplyPost, TypeOK
  <2>3. Idle \in Thread /\ Idle.pc = "idle"
    BY DEF Idle, Thread
  <2>4. thr' \in [Threads -> Thread] /\ thr'["tcp"] = Idle /\ thr'["udp"] = thr["udp"]
    BY <1>4, <2>0, <2>3, OneThread DEF ReplyPost, Threads
  <2>5. ThreadsOK'
    BY <2>0, <2>3, <2>4 DEF TypeOK, ThreadsOK, Busy, Threads
  <2>6. TypeOK'
    BY <1>4, <2>2, <2>5, OtherFieldsTyped DEF ReplyPost, TypeOK, dataVars
  <2> QED
    BY <1>4, <2>6, RegisteredPreserved DEF ReplyPost, dataVars
<1> QED
  BY <1>1, <1>2, <1>3, <1>4, UdpTypeInv DEF TcpStep, UdpStep, Threads

LEMMA StutterTypeInv ==
  ASSUME TypeInv, UNCHANGED vars
  PROVE  TypeInv'
BY RegisteredPreserved DEF TypeInv, TypeOK, Busy, vars

LEMMA TypeInvStep ==
  ASSUME TypeInv, [Next]_vars
  PROVE  TypeInv'
<1>1. CASE Next
  <2>1. raced' \in BOOLEAN
    BY <1>1 DEF Next, Marked
  <2> QED
    BY <1>1, <2>1, RequestTypeInv, ThreadTypeInv DEF Next, Marked
<1> QED
  BY <1>1, StutterTypeInv

(* The data of the server keep their types, and every thread that is about *)
(* to use a pointer, a number or a payload has one.                        *)
THEOREM TypeCorrect == Spec => []TypeInv
BY InitTypeInv, TypeInvStep, PTL DEF Spec

(* TypeOK of Feeds.tla, for every number of users, feeds and payloads.     *)
THEOREM TypeSafety == Spec => []TypeOK
BY TypeCorrect, PTL DEF TypeInv

-----------------------------------------------------------------------------
(* What the steps leave alone                                              *)

LEMMA FeedNewFrame ==
  ASSUME NEW t \in Threads, FeedNew(t)
  PROVE  UNCHANGED <<users, usersCap, files, upload, up, replies, author>>
BY DEF FeedNew, FeedAppend, FeedPath, Mkdir, MkdirFails, dataVars

LEMMA PostFrame ==
  ASSUME NEW t \in Threads, PostNew(t) \/ PostNowhere(t)
  PROVE  UNCHANGED <<users, usersCap, dirs, files, upload, replies, author>>
BY DEF PostNew, PostNowhere, dataVars

LEMMA ThreadFrame ==
  ASSUME TcpStep \/ UdpStep
  PROVE  /\ UNCHANGED <<users, usersCap, author>>
         /\ UNCHANGED replies \/ ReplyPost
         /\ UNCHANGED files \/ WriteFile
         /\ UNCHANGED upload \/ NumberFeed \/ WriteFile
<1>1. "tcp" \in Threads /\ "udp" \in Threads
  BY DEF Threads
<1>2. CASE ReadTarget \/ NumberFeed \/ Aim \/ WriteFile \/ WriteFileFails \/ ReplyPost
  BY <1>2 DEF ReadTarget, NumberFeed, Aim, WriteFile, WriteFileFails, ReplyPost, dataVars
<1> QED
  BY <1>1, <1>2, FeedNewFrame, PostFrame DEF TcpStep, UdpStep

LEMMA UploadWriters ==
  ASSUME [Next]_vars
  PROVE  \/ UNCHANGED upload \/ NumberFeed \/ WriteFile
         \/ \E id \in Ids : Timeout(id)
         \/ \E s \in Senders, d \in FreshPayloads, n \in UploadFeeds : PrepareUpload(s, n, d)
BY ThreadFrame DEF Next, Marked, Requests, Register, RefusePost, StartPost, StartPublish,
   vars, dataVars

LEMMA AuthorWriters ==
  ASSUME [Next]_vars
  PROVE  \/ UNCHANGED author
         \/ \E s \in Senders, d \in FreshPayloads :
              author' = [author EXCEPT ![d] = s.pseudo]
BY ThreadFrame DEF Next, Marked, Requests, Register, RefusePost, StartPost, PrepareUpload,
   Timeout, StartPublish, vars

LEMMA AnswerWriters ==
  ASSUME [Next]_vars
  PROVE  \/ UNCHANGED <<replies, files>> \/ ReplyPost \/ WriteFile
         \/ \E s \in Senders, d \in FreshPayloads, n \in PostFeeds : RefusePost(s, n, d)
BY ThreadFrame DEF Next, Marked, Requests, Register, StartPost, PrepareUpload,
   Timeout, StartPublish, vars, dataVars

-----------------------------------------------------------------------------
(* What feed_new and post_new do to the feeds                              *)

LEMMA FeedAppendEffect ==
  ASSUME TypeInv, NEW t \in Threads, FeedAppend(t)
  PROVE  /\ DOMAIN feeds = 1..Len(feeds) /\ Len(feeds) \in Nat
         /\ DOMAIN feeds' = 1..(Len(feeds) + 1)
         /\ \A f \in DOMAIN feeds : feeds'[f] = feeds[f]
         /\ feeds'[Len(feeds) + 1].posts = <<>>
         /\ feeds'[Len(feeds) + 1].creator \in Deref(thr[t].ptr)
<1>1. PICK p \in Deref(thr[t].ptr) :
        feeds' = Append(feeds, [creator |-> p, posts |-> <<>>])
  BY DEF FeedAppend
<1>2. p \in Pseudos
  BY DerefTyped DEF FeedAppend, TypeInv, TypeOK, Busy
<1>3. [creator |-> p, posts |-> <<>>] \in Feed
  BY <1>2, EmptySeq DEF Feed
<1> QED
  BY <1>1, <1>3, AppendProperties, LenProperties DEF TypeInv, TypeOK

LEMMA PostNewEffect ==
  ASSUME TypeInv, NEW t \in Threads, PostNew(t)
  PROVE  /\ thr[t].feed \in DOMAIN feeds
         /\ DOMAIN feeds' = DOMAIN feeds
         /\ \A f \in DOMAIN feeds : f # thr[t].feed => feeds'[f] = feeds[f]
         /\ feeds'[thr[t].feed].creator = feeds[thr[t].feed].creator
         /\ feeds[thr[t].feed].posts \in Seq(Post)
         /\ \E p \in Deref(thr[t].ptr) :
              /\ [pseudo |-> p, data |-> thr[t].data] \in Post
              /\ feeds'[thr[t].feed].posts
                   = Append(feeds[thr[t].feed].posts,
                            [pseudo |-> p, data |-> thr[t].data])
<1>1. PICK p \in Deref(thr[t].ptr) :
        feeds' = [feeds EXCEPT ![thr[t].feed].posts =
                    Append(@, [pseudo |-> p, data |-> thr[t].data])]
  BY DEF PostNew
<1>2. [pseudo |-> p, data |-> thr[t].data] \in Post
  BY DerefTyped DEF PostNew, TypeInv, TypeOK, Busy, Post, Thread
<1>3. thr[t].feed \in DOMAIN feeds /\ feeds[thr[t].feed] \in Feed
  BY ElementOfSeq, LenProperties DEF PostNew, TypeInv, TypeOK
<1> QED
  BY <1>1, <1>2, <1>3 DEF Feed

(* Only the locked append of feed_new and the locked append of post_new    *)
(* write m_feeds.                                                          *)
LEMMA FeedsWriters ==
  ASSUME [Next]_vars
  PROVE  \/ UNCHANGED feeds
         \/ \E t \in Threads : FeedAppend(t) \/ PostNew(t)
BY DEF Next, Marked, Requests, Register, RefusePost, StartPost, PrepareUpload,
       Timeout, StartPublish, TcpStep, UdpStep, ReadTarget, FeedNew, FeedPath, Mkdir,
       MkdirFails, NumberFeed, Aim, PostNowhere, ReplyPost, WriteFile,
       WriteFileFails, Threads, vars, dataVars

(* Nothing posted is ever lost: a payload stays in the feed it was posted  *)
(* in, at every step of either thread.                                     *)
LEMMA PostsStay ==
  ASSUME TypeInv, [Next]_vars, NEW f \in DOMAIN feeds, NEW d, PostedIn(d, f)
  PROVE  f \in DOMAIN feeds' /\ PostedIn(d, f)'
<1>1. CASE UNCHANGED feeds
  BY <1>1 DEF PostedIn
<1>2. ASSUME NEW t \in Threads, FeedAppend(t)
      PROVE  f \in DOMAIN feeds' /\ PostedIn(d, f)'
  BY <1>2, FeedAppendEffect DEF PostedIn
<1>3. ASSUME NEW t \in Threads, PostNew(t)
      PROVE  f \in DOMAIN feeds' /\ PostedIn(d, f)'
  <2>1. CASE f # thr[t].feed
    BY <1>3, <2>1, PostNewEffect DEF PostedIn
  <2>2. CASE f = thr[t].feed
    <3>1. PICK e \in Post : feeds'[f].posts = Append(feeds[f].posts, e)
      BY <1>3, <2>2, PostNewEffect
    <3>2. PICK i \in DOMAIN feeds[f].posts : feeds[f].posts[i].data = d
      BY DEF PostedIn
    <3>3. feeds[f].posts \in Seq(Post)
      BY <1>3, <2>2, PostNewEffect
    <3>4. i \in DOMAIN feeds'[f].posts /\ feeds'[f].posts[i] = feeds[f].posts[i]
      BY <3>1, <3>2, <3>3, AppendProperties, LenProperties
    <3> QED
      BY <1>3, <3>2, <3>4, PostNewEffect DEF PostedIn
  <2> QED
    BY <2>1, <2>2
<1> QED
  BY <1>1, <1>2, <1>3, FeedsWriters

(* A payload appears in a feed only because the thread that carries it has *)
(* posted it, in the feed the thread is aimed at.                          *)
LEMMA PostsComeFromThreads ==
  ASSUME TypeInv, [Next]_vars, NEW f \in DOMAIN feeds', NEW d, PostedIn(d, f)'
  PROVE  \/ f \in DOMAIN feeds /\ PostedIn(d, f)
         \/ \E t \in Threads : PostNew(t) /\ thr[t].data = d
<1>1. CASE UNCHANGED feeds
  BY <1>1 DEF PostedIn
<1>2. ASSUME NEW t \in Threads, FeedAppend(t)
      PROVE  f \in DOMAIN feeds /\ PostedIn(d, f)
  <2>1. f # Len(feeds) + 1
    BY <1>2, FeedAppendEffect DEF PostedIn
  <2> QED
    BY <1>2, <2>1, FeedAppendEffect DEF PostedIn
<1>3. ASSUME NEW t \in Threads, PostNew(t)
      PROVE  \/ f \in DOMAIN feeds /\ PostedIn(d, f)
             \/ PostNew(t) /\ thr[t].data = d
  <2>1. CASE f # thr[t].feed
    BY <1>3, <2>1, PostNewEffect DEF PostedIn
  <2>2. CASE f = thr[t].feed
    <3>1. PICK p \in Deref(thr[t].ptr) :
            /\ [pseudo |-> p, data |-> thr[t].data] \in Post
            /\ feeds'[f].posts = Append(feeds[f].posts,
                                        [pseudo |-> p, data |-> thr[t].data])
      BY <1>3, <2>2, PostNewEffect
    <3>2. feeds[f].posts \in Seq(Post)
      BY <1>3, <2>2, PostNewEffect
    <3>3. PICK i \in DOMAIN feeds'[f].posts : feeds'[f].posts[i].data = d
      BY DEF PostedIn
    <3>4. CASE i \in DOMAIN feeds[f].posts
      <4>1. feeds'[f].posts[i] = feeds[f].posts[i]
        BY <3>1, <3>2, <3>4, AppendProperties, LenProperties
      <4>2. f \in DOMAIN feeds
        BY <1>3, <2>2, PostNewEffect
      <4> QED
        BY <3>3, <3>4, <4>1, <4>2 DEF PostedIn
    <3>5. CASE i \notin DOMAIN feeds[f].posts
      <4>1. i = Len(feeds[f].posts) + 1
        BY <3>1, <3>2, <3>3, <3>5, AppendProperties, LenProperties
      <4>2. feeds'[f].posts[i] = [pseudo |-> p, data |-> thr[t].data]
        BY <3>1, <3>2, <4>1, AppendProperties
      <4> QED
        BY <1>3, <3>3, <4>2
    <3> QED
      BY <3>4, <3>5
  <2> QED
    BY <2>1, <2>2
<1> QED
  BY <1>1, <1>2, <1>3, FeedsWriters

-----------------------------------------------------------------------------
(* The replies of the server and the files on its disk tell the truth      *)

(* Somewhere on the server, payload d waits or has been posted.            *)
Carried(d) == \/ \E t \in Threads : thr[t].data = d
              \/ \E id \in Ids : upload[id].data = d
              \/ \E f \in DOMAIN feeds : PostedIn(d, f)

CarriedWasSent == \A d \in Payloads : Carried(d) => author[d] # None
RepliedWasSent == \A r \in replies : author[r.data] # None
RefusedNotCarried == \A r \in replies : r.feed = ErrorFeed => ~ Carried(r.data)
AcceptedPosted ==
  \A r \in replies :
    r.feed # ErrorFeed => r.feed \in DOMAIN feeds /\ PostedIn(r.data, r.feed)
(* A thread that is about to answer, or to write the file, has posted.     *)
HasPosted(t) ==
  thr[t].feed \in DOMAIN feeds /\ PostedIn(thr[t].data, thr[t].feed)
PostedBeforeEnd ==
  \A t \in Threads : thr[t].pc \in {"reply", "write"} => HasPosted(t)
(* The slot that is published is as it was when it was read for the post,  *)
(* or has been cleared.                                                    *)
SlotKept ==
  thr["udp"].pc \in {"post", "write"} /\ Slot.data # Nameless =>
    Slot.data = thr["udp"].data /\ Slot.feed = thr["udp"].feed

TruthInv == /\ CarriedWasSent /\ RepliedWasSent /\ RefusedNotCarried
            /\ AcceptedPosted /\ PostedBeforeEnd /\ SlotKept /\ FilesAnnounced

LEMMA InitTruthInv == Init => TruthInv
BY FeedsAssumption
   DEF Init, TruthInv, CarriedWasSent, RepliedWasSent, RefusedNotCarried,
       AcceptedPosted, PostedBeforeEnd, SlotKept, FilesAnnounced, Carried, Idle,
       Cleared, Threads

(* How a thread changes its locals, once it serves a request.              *)
LEMMA ThreadMoves ==
  ASSUME TcpStep \/ UdpStep
  PROVE  \/ \E t \in Threads, l \in Pcs : thr' = Goto(t, l)
         \/ \E t \in Threads : FeedPath(t)
         \/ Aim \/ ReplyPost \/ WriteFile
         \/ UNCHANGED thr
<1>1. ASSUME NEW t \in Threads, FeedNew(t) \/ PostNew(t)
      PROVE  (\E l \in Pcs : thr' = Goto(t, l)) \/ FeedPath(t)
  BY <1>1 DEF FeedNew, FeedAppend, Mkdir, MkdirFails, PostNew, AfterFeedNew, AfterPost, Pcs
<1>2. CASE ReadTarget \/ NumberFeed \/ WriteFileFails
  BY <1>2 DEF ReadTarget, PublishFrom, NumberFeed, WriteFileFails, Pcs, Threads
<1>3. ASSUME NEW t \in Threads, PostNowhere(t)
      PROVE  UNCHANGED thr
  BY <1>3 DEF PostNowhere
<1>4. "tcp" \in Threads /\ "udp" \in Threads
  BY DEF Threads
<1> QED
  BY <1>1, <1>2, <1>3, <1>4 DEF TcpStep, UdpStep

(* A step of a thread makes the server carry nothing new, and a request    *)
(* makes it carry a payload that nobody had sent.                          *)
LEMMA CarriedStep ==
  ASSUME TypeInv, [Next]_vars, NEW d \in Payloads, Carried(d)'
  PROVE  \/ Carried(d)
         \/ author[d] = None /\ author'[d] # None /\ UNCHANGED replies
<1>1. CASE \E f \in DOMAIN feeds' : PostedIn(d, f)'
  BY SMTT(30), <1>1, PostsComeFromThreads DEF Carried
<1>2. CASE \E id \in Ids : upload'[id].data = d
  <2>0. d # Nameless /\ Cleared.data = Nameless
    BY FeedsAssumption DEF Cleared
  <2>1. ASSUME NEW s \in Senders, NEW e \in FreshPayloads, NEW n \in UploadFeeds,
               PrepareUpload(s, n, e)
        PROVE  \/ Carried(d)
               \/ author[d] = None /\ author'[d] # None /\ UNCHANGED replies
    <3>1. s.id \in Ids /\ s.pseudo # None
      BY <2>1, SenderTyped, FeedsAssumption DEF TypeInv
    <3>2. CASE e = d
      BY <2>1, <3>1, <3>2 DEF PrepareUpload, FreshPayloads, TypeInv, TypeOK
    <3>3. CASE e # d
      BY <1>2, <2>1, <3>1, <3>3 DEF PrepareUpload, Carried, TypeInv, TypeOK, Upload
    <3> QED
      BY <3>2, <3>3
  <2>2. ASSUME NEW i \in Ids, upload' = [upload EXCEPT ![i] = Cleared]
        PROVE  Carried(d)
    BY <1>2, <2>0, <2>2 DEF Carried, TypeInv, TypeOK
  <2>3. CASE UNCHANGED upload
    BY <1>2, <2>3 DEF Carried
  <2>4. CASE NumberFeed
    <3>1. thr["udp"].id \in Ids
      BY <2>4 DEF NumberFeed, TypeInv, TypeOK, Busy, Threads
    <3>2. \A i \in Ids : upload'[i].data = upload[i].data
      BY <2>4, <3>1 DEF NumberFeed, TypeInv, TypeOK, Upload
    <3> QED
      BY <1>2, <3>2 DEF Carried
  <2>5. CASE WriteFile
    <3>1. thr["udp"].id \in Ids
      BY <2>5 DEF WriteFile, TypeInv, TypeOK, Busy, Threads
    <3> QED
      BY <2>2, <2>5, <3>1 DEF WriteFile
  <2> QED
    BY <2>1, <2>2, <2>3, <2>4, <2>5, UploadWriters DEF Timeout
<1>3. CASE \E t \in Threads : thr'[t].data = d
  <2>0. d # None
    BY FeedsAssumption
  <2>1. ASSUME NEW s \in Senders, NEW e \in FreshPayloads, NEW n \in PostFeeds,
               StartPost(s, n, e)
        PROVE  \/ Carried(d)
               \/ author[d] = None /\ author'[d] # None /\ UNCHANGED replies
    <3>1. s.pseudo # None
      BY SenderTyped, FeedsAssumption DEF TypeInv
    <3>2. CASE e = d
      BY <2>1, <3>1, <3>2 DEF StartPost, FreshPayloads, TypeInv, TypeOK
    <3>3. CASE e # d
      BY <1>3, <2>1, <3>3 DEF StartPost, Carried, TypeInv, TypeOK
    <3> QED
      BY <3>2, <3>3
  <2>2. ASSUME NEW id \in Ids, StartPublish(id)
        PROVE  Carried(d)
    BY <1>3, <2>0, <2>2 DEF StartPublish, Carried, TypeInv, TypeOK
  <2>3. ASSUME NEW t \in Threads, NEW l \in Pcs, thr' = Goto(t, l)
        PROVE  Carried(d)
    <3>1. \A u \in Threads : thr'[u].data = thr[u].data
      BY <2>3, GotoEffect DEF TypeInv
    <3> QED
      BY <1>3, <3>1 DEF Carried
  <2>4. ASSUME NEW t \in Threads, FeedPath(t)
        PROVE  Carried(d)
    <3>1. \A u \in Threads : thr'[u].data = thr[u].data
      BY <2>4 DEF FeedPath, TypeInv, TypeOK, Thread
    <3> QED
      BY <1>3, <3>1 DEF Carried
  <2>5. CASE Aim
    <3>1. "udp" \in Threads /\ thr["udp"] \in Thread /\ thr["udp"].id \in Ids
      BY <2>5 DEF Aim, TypeInv, TypeOK, Threads, Busy
    <3>2. thr'["udp"].data = Slot.data /\ thr'["tcp"] = thr["tcp"]
      BY <2>5, <3>1 DEF Aim, TypeInv, TypeOK, Thread
    <3> QED
      BY <1>3, <3>1, <3>2 DEF Carried, Slot, Threads
  <2>6. CASE ReplyPost \/ WriteFile
    BY SMTT(30), <1>3, <2>0, <2>6 DEF ReplyPost, WriteFile, Idle, Carried, TypeInv, TypeOK
  <2>7. CASE UNCHANGED thr
    BY <1>3, <2>7 DEF Carried
  <2> QED
    BY <2>1, <2>2, <2>3, <2>4, <2>5, <2>6, <2>7, ThreadMoves
    DEF Next, Marked, Requests, Register, RefusePost, PrepareUpload, Timeout, vars
<1> QED
  BY <1>1, <1>2, <1>3 DEF Carried

(* Nobody unsends a payload.                                               *)
LEMMA SentStaysSent ==
  ASSUME TypeInv, [Next]_vars, NEW d \in Payloads, author[d] # None
  PROVE  author'[d] # None
<1>1. ASSUME NEW s \in Senders, NEW e \in FreshPayloads,
             author' = [author EXCEPT ![e] = s.pseudo]
      PROVE  author'[d] # None
  BY <1>1, SenderTyped, FeedsAssumption DEF TypeInv, TypeOK
<1>2. CASE UNCHANGED author
  BY <1>2
<1> QED
  BY <1>1, <1>2, AuthorWriters

(* A reply, once sent, stays true.                                         *)
LEMMA OldRepliesStayTrue ==
  ASSUME TypeInv, TruthInv, [Next]_vars
  PROVE  /\ CarriedWasSent'
         /\ \A r \in replies : author'[r.data] # None
         /\ \A r \in replies : r.feed = ErrorFeed => ~ Carried(r.data)'
         /\ \A r \in replies : r.feed # ErrorFeed =>
              r.feed \in DOMAIN feeds' /\ PostedIn(r.data, r.feed)'
         /\ \A x \in files : x.feed \in DOMAIN feeds' /\ PostedIn(x.data, x.feed)'
<1>0. \A r \in replies : r.data \in Payloads
  BY DEF TypeInv, TypeOK
<1>1. CarriedWasSent'
  BY CarriedStep, SentStaysSent DEF TruthInv, CarriedWasSent
<1>2. \A r \in replies : author'[r.data] # None
  BY <1>0, SentStaysSent DEF TruthInv, RepliedWasSent
<1>3. \A r \in replies : r.feed = ErrorFeed => ~ Carried(r.data)'
  BY <1>0, CarriedStep DEF TruthInv, RepliedWasSent, RefusedNotCarried
<1>4. \A r \in replies : r.feed # ErrorFeed =>
        r.feed \in DOMAIN feeds' /\ PostedIn(r.data, r.feed)'
  BY PostsStay DEF TruthInv, AcceptedPosted
<1>5. \A x \in files : x.feed \in DOMAIN feeds' /\ PostedIn(x.data, x.feed)'
  BY PostsStay DEF TruthInv, FilesAnnounced
<1> QED
  BY <1>1, <1>2, <1>3, <1>4, <1>5

(* A thread reaches the end of its request only through post_new.          *)
LEMMA PostedBeforeEndStep ==
  ASSUME TypeInv, TruthInv, [Next]_vars
  PROVE  PostedBeforeEnd'
<1> SUFFICES ASSUME NEW t \in Threads, thr'[t].pc \in {"reply", "write"}
             PROVE  HasPosted(t)'
  BY DEF PostedBeforeEnd
<1>1. CASE thr'[t] = thr[t]
  <2>1. HasPosted(t)
    BY <1>1 DEF TruthInv, PostedBeforeEnd
  <2> QED
    BY <1>1, <2>1, PostsStay DEF HasPosted, PostedIn
<1>2. CASE PostNew(t)
  <2>1. thr'[t].feed = thr[t].feed /\ thr'[t].data = thr[t].data
    BY <1>2 DEF PostNew, Goto, TypeInv, TypeOK, Thread
  <2>2. PICK e : /\ e \in Post /\ e.data = thr[t].data
                 /\ feeds'[thr[t].feed].posts = Append(feeds[thr[t].feed].posts, e)
    BY <1>2, PostNewEffect
  <2>3. feeds[thr[t].feed].posts \in Seq(Post) /\ thr[t].feed \in DOMAIN feeds'
    BY <1>2, PostNewEffect
  <2> DEFINE i == Len(feeds[thr[t].feed].posts) + 1
  <2>4. i \in DOMAIN feeds'[thr[t].feed].posts /\ feeds'[thr[t].feed].posts[i] = e
    BY SMTT(30), <2>2, <2>3, AppendProperties, LenProperties
  <2> QED
    BY <2>1, <2>2, <2>3, <2>4 DEF HasPosted, PostedIn
<1>3. CASE thr'[t] # thr[t] /\ ~ PostNew(t)
  <2>0. thr[t] \in Thread
    BY DEF TypeInv, TypeOK
  <2>1. ASSUME NEW u \in Threads, NEW l \in Pcs, thr' = Goto(u, l),
               l \in {"reply", "write"} => PostNew(u)
        PROVE  FALSE
    BY <1>3, <2>1, GotoEffect DEF TypeInv
  <2>2. ASSUME NEW s \in Senders, NEW d \in FreshPayloads, NEW n \in PostFeeds,
               StartPost(s, n, d)
        PROVE  FALSE
    BY <1>3, <2>2 DEF StartPost, TypeInv, TypeOK
  <2>3. ASSUME NEW id \in Ids, StartPublish(id)
        PROVE  FALSE
    BY <1>3, <2>3 DEF StartPublish, TypeInv, TypeOK
  <2>4. CASE ReplyPost \/ WriteFile
    BY <1>3, <2>4 DEF ReplyPost, WriteFile, Idle, TypeInv, TypeOK
  <2>5. CASE Aim
    BY <1>3, <2>0, <2>5 DEF Aim, TypeInv, TypeOK, Thread
  <2>6. ASSUME NEW u \in Threads, FeedNew(u) \/ PostNew(u)
        PROVE  FALSE
    <3>1. CASE FeedPath(u)
      BY <1>3, <2>0, <3>1 DEF FeedPath, AfterFeedNew, TypeInv, TypeOK, Thread
    <3>2. CASE FeedAppend(u) \/ Mkdir(u) \/ MkdirFails(u)
      BY <2>1, <3>2 DEF FeedAppend, Mkdir, MkdirFails, AfterFeedNew, Pcs
    <3>3. CASE PostNew(u)
      BY <2>1, <3>3 DEF PostNew, AfterPost, Pcs
    <3> QED
      BY <2>6, <3>1, <3>2, <3>3 DEF FeedNew
  <2>7. CASE ReadTarget \/ NumberFeed \/ WriteFileFails
    BY <2>1, <2>7 DEF ReadTarget, PublishFrom, NumberFeed, WriteFileFails, Pcs, Threads
  <2> QED
    BY <1>3, <2>2, <2>3, <2>4, <2>5, <2>6, <2>7
    DEF Next, Marked, Requests, Register, RefusePost, PrepareUpload, Timeout, TcpStep,
        UdpStep, PostNowhere, vars, Threads
<1> QED
  BY <1>1, <1>2, <1>3

(* While the UDP thread publishes, a slot is only cleared.                 *)
LEMMA SlotKeptStep ==
  ASSUME TypeInv, TruthInv, [Next]_vars
  PROVE  SlotKept'
<1> SUFFICES ASSUME thr'["udp"].pc \in {"post", "write"}, Slot'.data # Nameless
             PROVE  Slot'.data = thr'["udp"].data /\ Slot'.feed = thr'["udp"].feed
  BY DEF SlotKept
<1>0. /\ "udp" \in Threads /\ thr["udp"] \in Thread /\ "tcp" \in Threads
      /\ AfterPost("udp") = "write" /\ AfterFeedNew("udp") = "number"
  BY DEF Threads, TypeInv, TypeOK, AfterPost, AfterFeedNew
<1>1. CASE UNCHANGED upload /\ thr'["udp"] = thr["udp"]
  BY <1>1 DEF TruthInv, SlotKept, Slot
<1>2. CASE Aim
  <2>1. thr'["udp"].id = thr["udp"].id /\ UNCHANGED upload
    BY <1>0, <1>2 DEF Aim, TypeInv, TypeOK, Thread, dataVars
  <2>2. thr'["udp"].data = Slot.data /\ thr'["udp"].feed = Slot.feed
    BY <1>0, <1>2 DEF Aim, TypeInv, TypeOK, Thread
  <2> QED
    BY <2>1, <2>2 DEF Slot
<1>3. CASE PostNew("udp")
  <2>1. /\ thr'["udp"].id = thr["udp"].id /\ thr'["udp"].data = thr["udp"].data
        /\ thr'["udp"].feed = thr["udp"].feed /\ thr["udp"].pc = "post"
        /\ UNCHANGED upload
    BY <1>0, <1>3, GotoEffect DEF PostNew, Pcs, TypeInv
  <2> QED
    BY <2>1 DEF TruthInv, SlotKept, Slot
<1>4. ASSUME NEW l \in Pcs \ {"post", "write"}, thr' = Goto("udp", l)
      PROVE  FALSE
  BY <1>0, <1>4, GotoEffect DEF TypeInv
<1>5. CASE FeedPath("udp") \/ WriteFile \/ \E id \in Ids : StartPublish(id)
  BY <1>0, <1>5 DEF FeedPath, WriteFile, StartPublish, Idle, TypeInv, TypeOK, Thread
<1>6. ASSUME NEW id \in Ids, Timeout(id)
      PROVE  Slot'.data = thr'["udp"].data /\ Slot'.feed = thr'["udp"].feed
  <2>1. UNCHANGED thr /\ thr["udp"].id \in Ids
    BY <1>0, <1>6 DEF Timeout, TypeInv, TypeOK, Busy
  <2>2. thr["udp"].id # id
    BY <1>6, <2>1 DEF Timeout, Slot, Cleared, TypeInv, TypeOK
  <2>3. Slot' = Slot
    BY <1>6, <2>1, <2>2 DEF Timeout, Slot, TypeInv, TypeOK
  <2> QED
    BY <2>1, <2>3 DEF TruthInv, SlotKept
<1>7. CASE ReadTarget \/ FeedNew("udp") \/ NumberFeed \/ WriteFileFails
  BY <1>0, <1>4, <1>5, <1>7 DEF ReadTarget, PublishFrom, FeedNew, FeedAppend, Mkdir,
     MkdirFails, NumberFeed, WriteFileFails, Pcs
<1>8. CASE TcpStep
  <2>1. UNCHANGED upload /\ thr'["udp"] = thr["udp"]
    BY <1>0, <1>8 DEF TcpStep, FeedNew, FeedAppend, FeedPath, Mkdir, MkdirFails, PostNew,
       PostNowhere, ReplyPost, Goto, dataVars, TypeInv, TypeOK
  <2> QED
    BY <1>1, <2>1
<1>9. ASSUME NEW s \in Senders, NEW d \in FreshPayloads, NEW n \in PostFeeds,
             StartPost(s, n, d)
      PROVE  UNCHANGED upload /\ thr'["udp"] = thr["udp"]
  BY <1>0, <1>9 DEF StartPost, dataVars, TypeInv, TypeOK
<1>10. ASSUME NEW s \in Senders, NEW d \in FreshPayloads, NEW n \in UploadFeeds,
              PrepareUpload(s, n, d)
       PROVE  FALSE
  BY <1>10 DEF PrepareUpload
<1> QED
  BY <1>1, <1>2, <1>3, <1>5, <1>6, <1>7, <1>8, <1>9, <1>10
  DEF Next, Marked, Requests, Register, RefusePost, UdpStep, PostNowhere, dataVars, vars

LEMMA TruthInvStep ==
  ASSUME TypeInv, TruthInv, [Next]_vars
  PROVE  TruthInv'
<1>1. ASSUME NEW s \in Senders, NEW d \in FreshPayloads, NEW n \in PostFeeds,
             RefusePost(s, n, d)
      PROVE  TruthInv'
  <2>1. s.pseudo # None /\ d \in Payloads
    BY SenderTyped, FeedsAssumption DEF TypeInv, FreshPayloads
  <2>2. author'[d] # None
    BY <1>1, <2>1 DEF RefusePost, TypeInv, TypeOK
  <2>3. ~ Carried(d) /\ author[d] = None
    BY <2>1 DEF TruthInv, CarriedWasSent, FreshPayloads
  <2>4. ~ Carried(d)'
    BY <1>1, <2>3 DEF RefusePost, Carried, PostedIn, dataVars
  <2> QED
    BY <1>1, <2>2, <2>4, OldRepliesStayTrue, PostedBeforeEndStep, SlotKeptStep
       DEF RefusePost, TruthInv, RepliedWasSent, RefusedNotCarried,
           AcceptedPosted, FilesAnnounced, PostedIn, dataVars
<1>2. CASE ReplyPost
  <2>1. /\ thr["tcp"].feed \in DOMAIN feeds
        /\ PostedIn(thr["tcp"].data, thr["tcp"].feed)
        /\ thr["tcp"].data \in Payloads
    BY <1>2 DEF ReplyPost, TruthInv, PostedBeforeEnd, HasPosted, Threads, TypeInv, TypeOK, Busy
  <2>2. thr["tcp"].feed # ErrorFeed
    BY <2>1, LenProperties DEF ErrorFeed, TypeInv, TypeOK
  <2>3. author[thr["tcp"].data] # None
    BY <2>1 DEF TruthInv, CarriedWasSent, Carried, Threads
  <2> QED
    BY <1>2, <2>1, <2>2, <2>3, OldRepliesStayTrue, PostedBeforeEndStep, SlotKeptStep
       DEF ReplyPost, ReplyFeed, TruthInv, RepliedWasSent, RefusedNotCarried,
           AcceptedPosted, FilesAnnounced, PostedIn, dataVars
<1>3. CASE WriteFile
  <2>1. Slot.feed \in DOMAIN feeds /\ PostedIn(Slot.data, Slot.feed)
    BY <1>3 DEF WriteFile, Writable, TruthInv, SlotKept, PostedBeforeEnd, HasPosted, Threads
  <2> QED
    BY <1>3, <2>1, OldRepliesStayTrue, PostedBeforeEndStep, SlotKeptStep
       DEF WriteFile, TruthInv, RepliedWasSent, RefusedNotCarried,
           AcceptedPosted, FilesAnnounced, PostedIn
<1>4. CASE UNCHANGED <<replies, files>>
  BY <1>4, OldRepliesStayTrue, PostedBeforeEndStep, SlotKeptStep
     DEF TruthInv, RepliedWasSent, RefusedNotCarried, AcceptedPosted,
         FilesAnnounced
<1> QED
  BY <1>1, <1>2, <1>3, <1>4, AnswerWriters

(* The inductive invariant behind the two theorems that follow.            *)
THEOREM TruthInvariant == Spec => []TruthInv
BY TypeCorrect, InitTruthInv, TruthInvStep, PTL DEF Spec

(* A client can trust the reply to its post, whatever the other thread     *)
(* does: through failures of the disk, numbers that wrap, slots that are   *)
(* cleared and a table of users that moves.                                *)
THEOREM RepliesAreTruthful == Spec => []RepliesTruthful
<1>1. TypeInv /\ TruthInv => RepliesTruthful
  BY DEF TruthInv, RefusedNotCarried, AcceptedPosted, RepliesTruthful, Carried
<1> QED
  BY <1>1, TypeCorrect, TruthInvariant, PTL

(* Every file on disk has been announced by a post in its feed.            *)
THEOREM FilesAreAnnounced == Spec => []FilesAnnounced
BY TruthInvariant, PTL DEF TruthInv


-----------------------------------------------------------------------------
(* Posts are signed by the client that sent them                           *)

LEMMA UserWriters ==
  ASSUME [Next]_vars
  PROVE  UNCHANGED <<users, usersCap>> \/ \E p \in Pseudos : Register(p)
BY ThreadFrame DEF Next, Marked, Requests, RefusePost, StartPost, PrepareUpload, Timeout,
   StartPublish, vars, dataVars

LEMMA RegisterEffect ==
  ASSUME TypeInv, NEW p \in Pseudos, Register(p)
  PROVE  \E id \in Ids :
           /\ \A i \in DOMAIN users : users[i].id # id
           /\ DOMAIN users = 1..Len(users) /\ Len(users) \in Nat
           /\ DOMAIN users' = 1..(Len(users) + 1)
           /\ \A i \in 1..Len(users) : users'[i] = users[i]
           /\ users'[Len(users) + 1] = [id |-> id, pseudo |-> p]
<1>1. PICK id \in FreeIds : users' = Append(users, [id |-> id, pseudo |-> p])
  BY DEF Register
<1>2. [id |-> id, pseudo |-> p] \in User
  BY DEF User, FreeIds
<1>3. \A i \in DOMAIN users : users[i].id # id
  BY DEF FreeIds, UsedIds
<1> QED
  BY <1>1, <1>2, <1>3, AppendProperties, LenProperties DEF TypeInv, TypeOK, FreeIds

(* What a thread that serves a request knows of it, and since when.        *)
LEMMA BusyMoves ==
  ASSUME TypeInv, [Next]_vars, NEW t \in Threads, Busy(t)'
  PROVE  \/ /\ Busy(t)
            /\ thr'[t].id = thr[t].id /\ thr'[t].ptr = thr[t].ptr
            /\ thr'[t].data = thr[t].data
         \/ t = "udp" /\ Aim
         \/ t = "udp" /\ \E id \in Ids : StartPublish(id)
         \/ t = "tcp" /\ \E s \in Senders, d \in FreshPayloads, n \in PostFeeds :
                           StartPost(s, n, d)
<1> DEFINE Same == /\ Busy(t)
                   /\ thr'[t].id = thr[t].id /\ thr'[t].ptr = thr[t].ptr
                   /\ thr'[t].data = thr[t].data
<1>0. thr \in [Threads -> Thread] /\ thr[t] \in Thread
  BY DEF TypeInv, TypeOK
<1>1. CASE thr'[t] = thr[t]
  BY <1>1 DEF Busy
<1>2. ASSUME NEW u \in Threads, FeedNew(u) \/ PostNew(u)
      PROVE  Same \/ thr'[t] = thr[t]
  <2>1. Busy(u)
    BY <1>2 DEF FeedNew, FeedAppend, FeedPath, Mkdir, MkdirFails, PostNew, Busy
  <2>2. CASE FeedPath(u)
    BY <1>0, <2>1, <2>2 DEF FeedPath, Thread
  <2>3. ASSUME NEW l \in Pcs, thr' = Goto(u, l)
        PROVE  Same \/ thr'[t] = thr[t]
    BY <2>1, <2>3, GotoEffect DEF TypeInv
  <2> QED
    BY <1>2, <2>2, <2>3 DEF FeedNew, FeedAppend, Mkdir, MkdirFails, PostNew, AfterFeedNew,
       AfterPost, Pcs
<1>3. CASE ReadTarget \/ NumberFeed \/ WriteFileFails
  <2>1. Busy("udp") /\ \E l \in Pcs : thr' = Goto("udp", l)
    BY <1>3 DEF ReadTarget, PublishFrom, NumberFeed, WriteFileFails, Busy, Pcs
  <2> QED
    BY <1>1, <2>1, GotoEffect DEF TypeInv, Threads
<1>4. CASE Aim
  BY <1>0, <1>1, <1>4 DEF Aim, Threads
<1>5. CASE ReplyPost \/ WriteFile
  BY <1>0, <1>1, <1>5 DEF ReplyPost, WriteFile, Idle, Busy, Threads
<1>6. CASE \E u \in Threads : PostNowhere(u)
  BY <1>1, <1>6 DEF PostNowhere
<1>7. CASE Requests
  <2>1. ASSUME NEW s \in Senders, NEW d \in FreshPayloads, NEW n \in PostFeeds,
               StartPost(s, n, d), t # "tcp"
        PROVE  thr'[t] = thr[t]
    BY <1>0, <2>1 DEF StartPost
  <2>2. ASSUME NEW id \in Ids, StartPublish(id), t # "udp"
        PROVE  thr'[t] = thr[t]
    BY <1>0, <2>2 DEF StartPublish
  <2> QED
    BY <1>1, <1>7, <2>1, <2>2 DEF Requests, Register, RefusePost, PrepareUpload, Timeout, Threads
<1>8. CASE TcpStep \/ UdpStep
  BY <1>1, <1>2, <1>3, <1>4, <1>5, <1>6, <1>8 DEF TcpStep, UdpStep, Threads
<1> QED
  BY <1>1, <1>7, <1>8 DEF Next, Marked, vars

(* One user to an id: get_pseudo finds the user who has it.  A slot and a  *)
(* request belong to the user whose id they carry, who sent what they      *)
(* carry; and the TCP thread, which alone moves the table of users, never  *)
(* does so while it holds a pointer into it.                               *)
UniqueIds == \A i, j \in DOMAIN users : users[i].id = users[j].id => i = j
Registered(id, p) ==
  \E i \in DOMAIN users : users[i].id = id /\ users[i].pseudo = p
OwnSlots ==
  \A id \in Ids : upload[id].data # Nameless => Registered(id, author[upload[id].data])
OwnRequests ==
  \A t \in Threads : Busy(t) =>
    /\ Registered(thr[t].id, thr[t].ptr.pseudo)
    /\ thr[t].data \in Payloads => Registered(thr[t].id, author[thr[t].data])
OwnPointer == Busy("tcp") => thr["tcp"].ptr.cap = usersCap

SignInv == UniqueIds /\ OwnSlots /\ OwnRequests /\ OwnPointer

LEMMA InitSignInv == Init => SignInv
<1> SUFFICES ASSUME Init
             PROVE  SignInv
  OBVIOUS
<1>1. /\ users = <<>> /\ upload = [id \in Ids |-> Cleared]
      /\ \A t \in Threads : thr[t] = Idle
  BY DEF Init
<1>2. \A t \in Threads : ~ Busy(t)
  BY <1>1 DEF Busy, Idle
<1> QED
  BY <1>1, <1>2 DEF SignInv, UniqueIds, OwnSlots, OwnRequests, OwnPointer, Cleared, Threads

(* A user who has registered stays registered.                             *)
LEMMA RegisteredStays ==
  ASSUME TypeInv, [Next]_vars, NEW id, NEW p, Registered(id, p)
  PROVE  Registered(id, p)'
<1>1. CASE UNCHANGED users
  BY <1>1 DEF Registered
<1>2. ASSUME NEW q \in Pseudos, Register(q)
      PROVE  Registered(id, p)'
  <2>1. PICK i \in DOMAIN users : users[i].id = id /\ users[i].pseudo = p
    BY DEF Registered
  <2>2. i \in DOMAIN users' /\ users'[i] = users[i]
    <3>1. PICK n \in Nat : /\ DOMAIN users = 1..n /\ DOMAIN users' = 1..(n + 1)
                           /\ \A j \in 1..n : users'[j] = users[j]
      BY <1>2, RegisterEffect
    <3> QED
      BY <3>1
  <2> QED
    BY <2>1, <2>2 DEF Registered
<1> QED
  BY <1>1, <1>2, UserWriters

(* So does the author of what a registered user has sent.                  *)
LEMMA SignedStays ==
  ASSUME TypeInv, [Next]_vars, NEW id, NEW d \in Payloads, Registered(id, author[d])
  PROVE  Registered(id, author[d])'
<1>1. author[d] # None
  <2>1. PICK i \in DOMAIN users : users[i].pseudo = author[d]
    BY DEF Registered
  <2>2. users[i] \in User
    BY ElementOfSeq, LenProperties DEF TypeInv, TypeOK
  <2> QED
    BY <2>1, <2>2, FeedsAssumption DEF User
<1>2. author'[d] = author[d]
  <2>1. ASSUME NEW s \in Senders, NEW e \in FreshPayloads,
               author' = [author EXCEPT ![e] = s.pseudo]
        PROVE  author'[d] = author[d]
    BY <1>1, <2>1 DEF FreshPayloads, TypeInv, TypeOK
  <2> QED
    BY <2>1, AuthorWriters
<1> QED
  BY <1>2, RegisteredStays DEF Registered

(* get_pseudo finds a user with that id.                                   *)
LEMMA SignerFound ==
  ASSUME TypeInv, NEW id \in UsedIds
  PROVE  Registered(id, PseudoPointer(id).pseudo)
BY PseudoFound DEF TypeInv, Registered, PseudoPointer

(* A sender whose id is in use is the user who has it.                     *)
LEMMA SenderRegistered ==
  ASSUME NEW s \in Senders, s.id \in UsedIds
  PROVE  Registered(s.id, s.pseudo)
BY DEF Senders, Registered, UsedIds

LEMMA UniqueIdsStep ==
  ASSUME TypeInv, UniqueIds, [Next]_vars
  PROVE  UniqueIds'
<1>1. CASE UNCHANGED users
  BY <1>1 DEF UniqueIds
<1>2. ASSUME NEW p \in Pseudos, Register(p)
      PROVE  UniqueIds'
  <2>1. PICK id \in Ids :
           /\ \A i \in DOMAIN users : users[i].id # id
           /\ DOMAIN users = 1..Len(users) /\ Len(users) \in Nat
           /\ DOMAIN users' = 1..(Len(users) + 1)
           /\ \A i \in 1..Len(users) : users'[i] = users[i]
           /\ users'[Len(users) + 1] = [id |-> id, pseudo |-> p]
    BY <1>2, RegisterEffect
  <2>2. \A i \in DOMAIN users' : i \in DOMAIN users \/ i = Len(users) + 1
    BY <2>1
  <2>3. users'[Len(users) + 1].id = id
    BY <2>1
  <2> QED
    BY <2>1, <2>2, <2>3 DEF UniqueIds
<1> QED
  BY <1>1, <1>2, UserWriters

LEMMA OwnSlotsStep ==
  ASSUME TypeInv, OwnSlots, [Next]_vars
  PROVE  OwnSlots'
<1> SUFFICES ASSUME NEW id \in Ids, upload'[id].data # Nameless
             PROVE  Registered(id, author[upload[id].data])'
  BY DEF OwnSlots
<1>1. ASSUME upload'[id].data = upload[id].data
      PROVE  Registered(id, author[upload[id].data])'
  <2>1. PICK d \in Payloads : d = upload[id].data /\ d = upload'[id].data
    BY <1>1 DEF TypeInv, TypeOK, Upload
  <2>2. Registered(id, author[d])
    BY <1>1, <2>1 DEF OwnSlots
  <2>3. Registered(id, author[d])'
    BY <2>2, SignedStays
  <2> QED
    BY <2>1, <2>3 DEF Registered
<1>2. ASSUME NEW i \in Ids, upload' = [upload EXCEPT ![i] = Cleared]
      PROVE  upload'[id].data = upload[id].data
  BY <1>2 DEF Cleared, TypeInv, TypeOK
<1>3. CASE NumberFeed \/ WriteFile
  <2>1. thr["udp"].id \in Ids
    BY <1>3 DEF NumberFeed, WriteFile, TypeInv, TypeOK, Busy, Threads
  <2>2. CASE NumberFeed
    <3>1. upload'[id].data = upload[id].data
      BY <2>1, <2>2 DEF NumberFeed, TypeInv, TypeOK, Upload
    <3> QED
      BY <1>1, <3>1
  <2>3. CASE WriteFile
    BY <1>1, <1>2, <2>1, <2>3 DEF WriteFile
  <2> QED
    BY <1>3, <2>2, <2>3
<1>4. ASSUME NEW s \in Senders, NEW d \in FreshPayloads, NEW n \in UploadFeeds,
             PrepareUpload(s, n, d)
      PROVE  Registered(id, author[upload[id].data])'
  <2>1. s.id \in Ids /\ d \in Payloads /\ Registered(s.id, s.pseudo)
    BY <1>4, SenderTyped, SenderRegistered DEF FreshPayloads, PrepareUpload, TypeInv
  <2>2. CASE id = s.id
    <3>1. upload'[id].data = d /\ author'[d] = s.pseudo /\ UNCHANGED users
      BY <1>4, <2>1, <2>2 DEF PrepareUpload, TypeInv, TypeOK
    <3> QED
      BY <2>1, <2>2, <3>1 DEF Registered
  <2>3. CASE id # s.id
    BY <1>1, <1>4, <2>1, <2>3 DEF PrepareUpload, TypeInv, TypeOK
  <2> QED
    BY <2>2, <2>3
<1> QED
  BY <1>1, <1>2, <1>3, <1>4, UploadWriters DEF Timeout

LEMMA OwnRequestsStep ==
  ASSUME TypeInv, SignInv, [Next]_vars
  PROVE  OwnRequests'
<1> SUFFICES ASSUME NEW t \in Threads, Busy(t)'
             PROVE  /\ Registered(thr[t].id, thr[t].ptr.pseudo)'
                    /\ thr'[t].data \in Payloads =>
                         Registered(thr[t].id, author[thr[t].data])'
  BY DEF OwnRequests
<1>0. "tcp" \in Threads /\ "udp" \in Threads /\ thr \in [Threads -> Thread]
  BY DEF Threads, TypeInv, TypeOK
<1>1. CASE /\ Busy(t)
           /\ thr'[t].id = thr[t].id /\ thr'[t].ptr = thr[t].ptr
           /\ thr'[t].data = thr[t].data
  <2>1. Registered(thr[t].id, thr[t].ptr.pseudo)
    BY <1>1 DEF SignInv, OwnRequests
  <2>2. Registered(thr[t].id, thr[t].ptr.pseudo)'
    BY <1>1, <2>1, RegisteredStays DEF Registered
  <2>3. ASSUME thr[t].data \in Payloads
        PROVE  Registered(thr[t].id, author[thr[t].data])'
    <3>1. Registered(thr[t].id, author[thr[t].data])
      BY <1>1, <2>3 DEF SignInv, OwnRequests
    <3> QED
      BY <1>1, <2>3, <3>1, SignedStays DEF Registered
  <2> QED
    BY <1>1, <2>2, <2>3
<1>2. CASE t = "udp" /\ Aim
  <2>1. /\ thr["udp"].id \in Ids /\ Busy("udp")
        /\ thr'["udp"].id = thr["udp"].id /\ thr'["udp"].ptr = thr["udp"].ptr
        /\ thr'["udp"].data = Slot.data /\ UNCHANGED <<users, author>>
    BY <1>0, <1>2 DEF Aim, TypeInv, TypeOK, Thread, Busy, dataVars
  <2>2. Registered(thr["udp"].id, thr["udp"].ptr.pseudo)
    BY <1>0, <2>1 DEF SignInv, OwnRequests
  <2>3. Slot.data \in Payloads => Registered(thr["udp"].id, author[Slot.data])
    BY <2>1, FeedsAssumption DEF SignInv, OwnSlots, Slot
  <2> QED
    BY <1>2, <2>1, <2>2, <2>3 DEF Registered
<1>3. ASSUME t = "udp", NEW id \in Ids, StartPublish(id)
      PROVE  /\ Registered(thr[t].id, thr[t].ptr.pseudo)'
             /\ thr'[t].data \notin Payloads
  <2>1. /\ thr'[t].id = id /\ thr'[t].ptr = PseudoPointer(id) /\ thr'[t].data = None
        /\ UNCHANGED users /\ upload[id].active
    BY <1>0, <1>3 DEF StartPublish, dataVars
  <2>2. Registered(id, PseudoPointer(id).pseudo)
    BY <2>1, SignerFound DEF TypeInv, UploadsRegistered
  <2> QED
    BY <2>1, <2>2, FeedsAssumption DEF Registered
<1>4. ASSUME t = "tcp", NEW s \in Senders, NEW d \in FreshPayloads, NEW n \in PostFeeds,
             StartPost(s, n, d)
      PROVE  /\ Registered(thr[t].id, thr[t].ptr.pseudo)'
             /\ Registered(thr[t].id, author[thr[t].data])'
  <2>1. /\ thr'[t].id = s.id /\ thr'[t].ptr = PseudoPointer(s.id) /\ thr'[t].data = d
        /\ UNCHANGED users /\ author'[d] = s.pseudo /\ s.id \in UsedIds
    BY <1>0, <1>4 DEF StartPost, dataVars, PostRefused, FreshPayloads, TypeInv, TypeOK
  <2>2. Registered(s.id, PseudoPointer(s.id).pseudo) /\ Registered(s.id, s.pseudo)
    BY <2>1, SignerFound, SenderRegistered
  <2> QED
    BY <2>1, <2>2 DEF Registered
<1> QED
  BY <1>1, <1>2, <1>3, <1>4, BusyMoves

LEMMA OwnPointerStep ==
  ASSUME TypeInv, OwnPointer, [Next]_vars
  PROVE  OwnPointer'
<1> SUFFICES ASSUME Busy("tcp")'
             PROVE  thr'["tcp"].ptr.cap = usersCap'
  BY DEF OwnPointer
<1>0. "tcp" \in Threads /\ thr \in [Threads -> Thread]
  BY DEF Threads, TypeInv, TypeOK
<1>1. CASE Busy("tcp") /\ thr'["tcp"].ptr = thr["tcp"].ptr
  <2>1. UNCHANGED usersCap
    BY <1>1, UserWriters DEF Busy, Register
  <2> QED
    BY <1>1, <2>1 DEF OwnPointer
<1>2. ASSUME NEW s \in Senders, NEW d \in FreshPayloads, NEW n \in PostFeeds,
             StartPost(s, n, d)
      PROVE  thr'["tcp"].ptr.cap = usersCap'
  <2>1. thr'["tcp"].ptr = PseudoPointer(s.id) /\ UNCHANGED usersCap
    BY <1>0, <1>2 DEF StartPost, dataVars
  <2> QED
    BY <2>1 DEF PseudoPointer
<1> QED
  BY <1>0, <1>1, <1>2, BusyMoves

(* Whose name a thread posts in, when it posts.                            *)
LEMMA PosterIsSender ==
  ASSUME TypeInv, SignInv, NEW t \in Threads, PostNew(t),
         t = "udp" => ~ Moved("udp") /\ thr["udp"].data # Nameless
  PROVE  LET posts == feeds'[thr[t].feed].posts
         IN  posts[Len(posts)].pseudo = author[thr[t].data]
<1>1. Busy(t) /\ thr[t].ptr \in Pointer /\ thr[t].data \in Payloads
  BY DEF PostNew, Busy, TypeInv, TypeOK, Thread, Threads
<1>2. Deref(thr[t].ptr) = {thr[t].ptr.pseudo}
  BY <1>1 DEF Deref, Moved, SignInv, OwnPointer, Threads
<1>3. thr[t].ptr.pseudo = author[thr[t].data]
  BY <1>1 DEF SignInv, OwnRequests, Registered, UniqueIds
<1>4. /\ feeds[thr[t].feed].posts \in Seq(Post)
      /\ \E p \in Deref(thr[t].ptr) :
           /\ [pseudo |-> p, data |-> thr[t].data] \in Post
           /\ feeds'[thr[t].feed].posts
                = Append(feeds[thr[t].feed].posts, [pseudo |-> p, data |-> thr[t].data])
  BY PostNewEffect
<1> DEFINE posts == feeds[thr[t].feed].posts
           e == [pseudo |-> thr[t].ptr.pseudo, data |-> thr[t].data]
<1>5. posts \in Seq(Post) /\ e \in Post /\ feeds'[thr[t].feed].posts = Append(posts, e)
  BY <1>2, <1>4
<1>6. e.pseudo = author[thr[t].data]
  BY <1>3
<1> HIDE DEF posts, e
<1>7. Len(Append(posts, e)) = Len(posts) + 1 /\ Append(posts, e)[Len(posts) + 1] = e
  BY <1>5, AppendProperties
<1> QED
  BY <1>5, <1>6, <1>7

(* The inductive invariant behind the theorem that follows.                *)
THEOREM SignInvariant == Spec => []SignInv
<1>1. TypeInv /\ SignInv /\ [Next]_vars => SignInv'
  BY UniqueIdsStep, OwnSlotsStep, OwnRequestsStep, OwnPointerStep DEF SignInv
<1> QED
  BY InitSignInv, <1>1, TypeCorrect, PTL DEF Spec

(* The TCP thread always posts in the name of the client that sent the     *)
(* post, and the UDP thread does so unless the table of users has moved    *)
(* since it asked for the pseudo: whoever registers meanwhile, whatever    *)
(* feed the post is for, and although get_pseudo is called without the     *)
(* lock it returns into (data.c:166-179, 424-441;                          *)
(* request_manager.c:72-88).                                               *)
THEOREM PostsSignedBySender == Spec => SignedBySender
<1> DEFINE Signs ==
      \A t \in Threads :
       /\ PostNew(t)
       /\ t = "udp" => ~ Moved("udp") /\ thr["udp"].data # Nameless
       => LET posts == feeds'[thr[t].feed].posts
          IN  posts[Len(posts)].pseudo = author[thr[t].data]
<1>1. TypeInv /\ SignInv /\ [Next]_vars => [Signs]_vars
  BY PosterIsSender
<1> QED
  BY <1>1, TypeCorrect, SignInvariant, PTL DEF Spec, SignedBySender

-----------------------------------------------------------------------------
(* How the threads go on                                                   *)

LEMMA FeedNewMoves ==
  ASSUME TypeInv, NEW t \in Threads, FeedNew(t)
  PROVE  /\ thr[t].pc \in {"append", "path", "mkdir"}
         /\ thr'[t].id = thr[t].id /\ thr'[t].ptr = thr[t].ptr
         /\ thr'[t].feed = thr[t].feed /\ thr'[t].data = thr[t].data
         /\ \A u \in Threads : u # t => thr'[u] = thr[u]
         /\ \/ FeedAppend(t) /\ thr'[t].pc = "path" /\ thr'[t].path = thr[t].path
            \/ /\ UNCHANGED feeds /\ thr[t].pc = "path" /\ thr'[t].path = Len(feeds)
               /\ thr'[t].pc \in {"mkdir", AfterFeedNew(t)}
            \/ /\ UNCHANGED feeds /\ thr[t].pc = "mkdir" /\ thr'[t].path = thr[t].path
               /\ thr'[t].pc \in {"dead", AfterFeedNew(t)}
<1>0. thr \in [Threads -> Thread] /\ thr[t] \in Thread /\ AfterFeedNew(t) \in Pcs
  BY DEF TypeInv, TypeOK, AfterFeedNew, Pcs
<1>1. CASE FeedAppend(t)
  BY <1>1, GotoEffect DEF FeedAppend, Pcs, TypeInv
<1>2. CASE FeedPath(t)
  BY <1>0, <1>2 DEF FeedPath, dataVars, Thread
<1>3. CASE Mkdir(t)
  BY <1>0, <1>3, GotoEffect DEF Mkdir, TypeInv
<1>4. CASE MkdirFails(t)
  BY <1>4, GotoEffect DEF MkdirFails, dataVars, Pcs, TypeInv
<1> QED
  BY <1>1, <1>2, <1>3, <1>4 DEF FeedNew

LEMMA PostNewMoves ==
  ASSUME TypeInv, NEW t \in Threads, PostNew(t)
  PROVE  /\ thr[t].pc = "post" /\ thr'[t].pc = AfterPost(t)
         /\ thr'[t].id = thr[t].id /\ thr'[t].ptr = thr[t].ptr
         /\ thr'[t].feed = thr[t].feed /\ thr'[t].data = thr[t].data
         /\ thr'[t].path = thr[t].path
         /\ \A u \in Threads : u # t => thr'[u] = thr[u]
BY GotoEffect DEF PostNew, AfterPost, Pcs, TypeInv

LEMMA PublisherMoves ==
  ASSUME TypeInv, ReadTarget \/ NumberFeed \/ Aim \/ WriteFileFails
  PROVE  /\ thr["udp"].id \in Ids /\ UNCHANGED feeds
         /\ thr'["tcp"] = thr["tcp"] /\ thr'["udp"].id = thr["udp"].id
         /\ thr'["udp"].ptr = thr["udp"].ptr /\ thr'["udp"].path = thr["udp"].path
         /\ \/ /\ UNCHANGED upload /\ thr["udp"].pc = "open"
               /\ thr'["udp"].pc = PublishFrom(Slot.feed)
            \/ /\ NumberFeed /\ thr["udp"].pc = "number" /\ thr'["udp"].pc = "aim"
            \/ /\ UNCHANGED upload /\ thr["udp"].pc = "aim" /\ thr'["udp"].pc = "post"
               /\ thr'["udp"].feed = Slot.feed
            \/ /\ UNCHANGED upload /\ thr["udp"].pc = "write" /\ thr'["udp"].pc = "dead"
<1>0. "udp" \in Threads /\ thr \in [Threads -> Thread] /\ thr["udp"] \in Thread /\ "tcp" \in Threads
  BY DEF Threads, TypeInv, TypeOK
<1>1. thr["udp"].id \in Ids
  BY <1>0 DEF ReadTarget, NumberFeed, Aim, WriteFileFails, Busy, TypeInv, TypeOK
<1>2. CASE ReadTarget
  BY <1>0, <1>1, <1>2, GotoEffect DEF ReadTarget, PublishFrom, Pcs, dataVars, TypeInv
<1>3. CASE NumberFeed
  BY <1>0, <1>1, <1>3, GotoEffect DEF NumberFeed, Pcs, TypeInv
<1>4. CASE Aim
  BY <1>0, <1>1, <1>4 DEF Aim, dataVars, Thread
<1>5. CASE WriteFileFails
  BY <1>0, <1>1, <1>5, GotoEffect DEF WriteFileFails, Pcs, dataVars, TypeInv
<1> QED
  BY <1>2, <1>3, <1>4, <1>5

(* NumberFeed numbers a slot that has no number, and nothing else.         *)
LEMMA NumberEffect ==
  ASSUME TypeInv, NumberFeed
  PROVE  /\ thr["udp"].id \in Ids
         /\ Slot'.feed = IF Slot.feed = 0 THEN Len(feeds) % U16 ELSE Slot.feed
         /\ Slot'.active = Slot.active /\ Slot'.data = Slot.data
         /\ \A id \in Ids : /\ upload'[id].active = upload[id].active
                            /\ id # thr["udp"].id => upload'[id] = upload[id]
<1>1. thr["udp"].id \in Ids /\ thr'["udp"].id = thr["udp"].id
  BY PublisherMoves
<1> QED
  BY <1>1 DEF NumberFeed, Slot, TypeInv, TypeOK, Upload

LEMMA LastMoves ==
  ASSUME TypeInv, ReplyPost \/ WriteFile
  PROVE  /\ UNCHANGED feeds
         /\ ReplyPost => /\ thr["tcp"].pc = "reply" /\ thr'["tcp"].pc = "idle"
                         /\ thr'["tcp"].path = 0
                         /\ thr'["udp"] = thr["udp"] /\ UNCHANGED upload
         /\ WriteFile => /\ thr["udp"].pc = "write" /\ thr'["udp"].pc = "idle"
                         /\ thr'["udp"].path = 0
                         /\ thr'["tcp"] = thr["tcp"] /\ thr["udp"].id \in Ids
                         /\ upload' = [upload EXCEPT ![thr["udp"].id] = Cleared]
<1>0. "udp" \in Threads /\ thr \in [Threads -> Thread] /\ "tcp" \in Threads
  BY DEF Threads, TypeInv, TypeOK
<1>1. CASE ReplyPost
  BY <1>0, <1>1 DEF ReplyPost, WriteFile, Idle, dataVars
<1>2. CASE WriteFile
  <2>1. thr["udp"].id \in Ids
    BY <1>0, <1>2 DEF WriteFile, Busy, TypeInv, TypeOK
  <2> QED
    BY <1>0, <1>2, <2>1 DEF ReplyPost, WriteFile, Idle
<1> QED
  BY <1>1, <1>2

LEMMA StartMoves ==
  ASSUME TypeInv, NEW s \in Senders, NEW d \in FreshPayloads, NEW n \in PostFeeds,
         StartPost(s, n, d)
  PROVE  /\ thr["tcp"].pc = "idle" /\ thr'["udp"] = thr["udp"]
         /\ thr'["tcp"].path = 0
         /\ \/ n = 0 /\ thr'["tcp"].pc = "append"
                     /\ thr'["tcp"].feed = NextFeedNumber(Len(feeds))
            \/ n \in 1..Len(feeds) /\ thr'["tcp"].pc = "post" /\ thr'["tcp"].feed = n
         /\ UNCHANGED <<users, usersCap, feeds, upload>>
<1>1. n \in Nat /\ Len(feeds) \in Nat
  BY LenProperties, FeedsAssumption DEF TypeInv, TypeOK
<1>2. n <= Len(feeds)
  BY <1>1 DEF StartPost, PostRefused, NoSuchFeed
<1>3. "udp" \in Threads /\ thr \in [Threads -> Thread] /\ "tcp" \in Threads
  BY DEF Threads, TypeInv, TypeOK
<1> QED
  BY <1>1, <1>2, <1>3 DEF StartPost, dataVars

LEMMA PublishMoves ==
  ASSUME TypeInv, NEW id \in Ids, StartPublish(id)
  PROVE  /\ thr["udp"].pc = "idle" /\ thr'["tcp"] = thr["tcp"]
         /\ thr'["udp"].pc = "open" /\ thr'["udp"].path = 0
         /\ UNCHANGED <<users, usersCap, feeds, upload>>
BY DEF StartPublish, dataVars, TypeInv, TypeOK, Threads

(* The steps, by what they do to the threads.                              *)
LEMMA Steps ==
  ASSUME [Next]_vars
  PROVE  \/ UNCHANGED <<thr, feeds>>
         \/ \E s \in Senders, d \in FreshPayloads, n \in PostFeeds : StartPost(s, n, d)
         \/ \E id \in Ids : StartPublish(id)
         \/ \E t \in Threads : FeedNew(t) \/ PostNew(t)
         \/ ReadTarget \/ NumberFeed \/ Aim \/ WriteFileFails
         \/ ReplyPost \/ WriteFile
<1>1. CASE Requests
  <2>1. ASSUME NEW p \in Pseudos, Register(p)
        PROVE  UNCHANGED <<thr, feeds>>
    BY <2>1 DEF Register
  <2>2. ASSUME NEW s \in Senders, NEW d \in FreshPayloads, NEW n,
               RefusePost(s, n, d) \/ PrepareUpload(s, n, d)
        PROVE  UNCHANGED <<thr, feeds>>
    BY <2>2 DEF RefusePost, PrepareUpload, dataVars
  <2>3. ASSUME NEW id \in Ids, Timeout(id)
        PROVE  UNCHANGED <<thr, feeds>>
    BY <2>3 DEF Timeout
  <2> QED
    BY Zenon, <1>1, <2>1, <2>2, <2>3 DEF Requests
<1>2. CASE TcpStep \/ UdpStep
  BY <1>2 DEF TcpStep, UdpStep, PostNowhere, Threads, dataVars
<1>3. CASE UNCHANGED vars
  BY <1>3 DEF vars
<1>4. CASE Next
  BY Zenon, <1>1, <1>2, <1>4 DEF Next, Marked
<1> QED
  BY Zenon, <1>3, <1>4

LEMMA RemainderSmall ==
  ASSUME NEW n \in Nat, n < U16
  PROVE  n % U16 = n
BY FeedsAssumption

LEMMA IntervalLength ==
  ASSUME NEW m \in Nat, NEW n \in Nat, 1..m = 1..n
  PROVE  m = n
<1>1. CASE m < n
  <2>1. n \in 1..n /\ n \notin 1..m
    BY <1>1
  <2> QED
    BY <2>1
<1>2. CASE n < m
  <2>1. m \in 1..m /\ m \notin 1..n
    BY <1>2
  <2> QED
    BY <2>1
<1> QED
  BY <1>1, <1>2

(* Feeds are only added.                                                   *)
LEMMA FeedsCount ==
  ASSUME TypeInv, [Next]_vars
  PROVE  /\ Len(feeds) \in Nat /\ Len(feeds') \in Nat
         /\ DOMAIN feeds = 1..Len(feeds) /\ DOMAIN feeds' = 1..Len(feeds')
         /\ Len(feeds) <= Len(feeds')
         /\ Len(feeds') # Len(feeds) =>
              Len(feeds') = Len(feeds) + 1 /\ \E t \in Threads : FeedAppend(t)
<1>1. TypeInv'
  BY TypeInvStep
<1>2. /\ Len(feeds) \in Nat /\ Len(feeds') \in Nat
      /\ DOMAIN feeds = 1..Len(feeds) /\ DOMAIN feeds' = 1..Len(feeds')
  BY <1>1, LenProperties DEF TypeInv, TypeOK
<1>3. ASSUME NEW n \in Nat, DOMAIN feeds' = 1..n
      PROVE  Len(feeds') = n
  <2>1. 1..Len(feeds') = 1..n
    BY Zenon, <1>2, <1>3
  <2>2. Len(feeds') \in Nat
    BY <1>2
  <2> DEFINE m == Len(feeds')
  <2> HIDE DEF m
  <2>3. m \in Nat /\ 1..m = 1..n
    BY Zenon, <2>1, <2>2 DEF m
  <2>4. m = n
    BY <2>3, IntervalLength
  <2> QED
    BY Zenon, <2>4 DEF m
<1>4. CASE UNCHANGED feeds
  BY <1>2, <1>4
<1>5. ASSUME NEW t \in Threads, PostNew(t)
      PROVE  Len(feeds') = Len(feeds)
  <2>1. DOMAIN feeds' = 1..Len(feeds)
    BY Zenon, <1>2, <1>5, PostNewEffect
  <2> QED
    BY Zenon, <1>2, <1>3, <2>1
<1>6. ASSUME NEW t \in Threads, FeedAppend(t)
      PROVE  Len(feeds') = Len(feeds) + 1
  <2>1. DOMAIN feeds' = 1..(Len(feeds) + 1)
    BY Zenon, <1>6, FeedAppendEffect
  <2>2. Len(feeds) + 1 \in Nat
    BY <1>2
  <2> QED
    BY Zenon, <1>3, <2>1, <2>2
<1>7. Len(feeds') = Len(feeds) \/ (Len(feeds') = Len(feeds) + 1 /\ \E t \in Threads : FeedAppend(t))
  BY Zenon, <1>4, <1>5, <1>6, FeedsWriters
<1>8. Len(feeds) <= Len(feeds')
  <2> DEFINE n == Len(feeds)
             m == Len(feeds')
  <2>1. n \in Nat /\ (m = n \/ m = n + 1)
    BY Zenon, <1>2, <1>7
  <2> HIDE DEF n, m
  <2>2. n <= m
    BY <2>1
  <2> QED
    BY Zenon, <2>2 DEF n, m
<1> QED
  BY Zenon, <1>2, <1>7, <1>8

-----------------------------------------------------------------------------
(* Posts are aimed at feeds that exist                                     *)

TcpAimed ==
  /\ thr["tcp"].pc = "append" =>
       thr["tcp"].feed \in 1..(Len(feeds) + 1) \/ Len(feeds) + 1 >= U16
  /\ thr["tcp"].pc \in {"path", "mkdir", "post"} => thr["tcp"].feed \in 1..Len(feeds)
SlotsAimed == \A id \in Ids : upload[id].active => upload[id].feed \in 0..Len(feeds)
UdpAimed ==
  /\ thr["udp"].pc \in {"path", "mkdir"} => feeds # <<>>
  /\ Slot.active =>
       /\ thr["udp"].pc = "number" => Slot.feed # 0 \/ feeds # <<>>
       /\ thr["udp"].pc = "aim" => Slot.feed # 0
       /\ thr["udp"].pc = "post" => thr["udp"].feed \in 1..Len(feeds)

(* The numbers that name feeds, until there are more feeds than numbers.   *)
TargetInv == Len(feeds) < U16 => TcpAimed /\ SlotsAimed /\ UdpAimed

LEMMA InitTargetInv == Init => TargetInv
<1> SUFFICES ASSUME Init
             PROVE  TargetInv
  OBVIOUS
<1>1. /\ upload = [id \in Ids |-> Cleared] /\ thr["tcp"] = Idle /\ thr["udp"] = Idle
  BY DEF Init, Threads
<1> QED
  BY <1>1 DEF TargetInv, TcpAimed, SlotsAimed, UdpAimed, Cleared, Idle

LEMMA TcpAimedStep ==
  ASSUME TypeInv, TcpAimed, Len(feeds') < U16, [Next]_vars
  PROVE  TcpAimed'
<1>0. /\ "tcp" \in Threads /\ Len(feeds) \in Nat /\ Len(feeds') \in Nat
      /\ Len(feeds) <= Len(feeds') /\ U16 \in Nat \ {0}
  BY FeedsCount, FeedsAssumption DEF Threads
<1>1. CASE thr'["tcp"] = thr["tcp"]
  BY <1>0, <1>1 DEF TcpAimed
<1>2. CASE thr'["tcp"].pc \in {"idle", "reply", "dead"}
  BY <1>2 DEF TcpAimed
<1>3. CASE FeedNew("tcp")
  <2>1. CASE FeedAppend("tcp")
    <3>1. Len(feeds') = Len(feeds) + 1
      BY <1>0, <2>1, FeedAppendEffect, FeedsCount, IntervalLength
    <3>2. thr["tcp"].pc = "append" /\ thr'["tcp"].feed = thr["tcp"].feed /\ thr'["tcp"].pc = "path"
      BY <1>0, <1>3, <2>1, FeedNewMoves DEF FeedAppend
    <3> QED
      BY <1>0, <3>1, <3>2 DEF TcpAimed
  <2>2. CASE ~ FeedAppend("tcp")
    BY <1>0, <1>3, <2>2, FeedNewMoves DEF TcpAimed, AfterFeedNew
  <2> QED
    BY <2>1, <2>2
<1>4. ASSUME NEW s \in Senders, NEW d \in FreshPayloads, NEW n \in PostFeeds,
             StartPost(s, n, d)
      PROVE  TcpAimed'
  <2>1. NextFeedNumber(Len(feeds)) \in 1..(Len(feeds) + 1) \/ Len(feeds) + 1 >= U16
    BY <1>0 DEF NextFeedNumber
  <2> QED
    BY <1>4, <2>1, StartMoves DEF TcpAimed
<1>5. CASE FeedNew("udp") \/ PostNew("udp") \/ PostNew("tcp")
  BY <1>1, <1>2, <1>5, FeedNewMoves, PostNewMoves DEF Threads, AfterPost
<1> QED
  BY <1>1, <1>2, <1>3, <1>4, <1>5, Steps, PublishMoves, PublisherMoves, LastMoves DEF Threads

LEMMA SlotsAimedStep ==
  ASSUME TypeInv, SlotsAimed, Len(feeds') < U16, [Next]_vars
  PROVE  SlotsAimed'
<1> SUFFICES ASSUME NEW id \in Ids, upload'[id].active
             PROVE  upload'[id].feed \in 0..Len(feeds')
  BY DEF SlotsAimed
<1>0. /\ Len(feeds) \in Nat /\ Len(feeds') \in Nat /\ Len(feeds) <= Len(feeds')
      /\ U16 \in Nat \ {0} /\ upload \in [Ids -> Upload]
  BY FeedsCount, FeedsAssumption DEF TypeInv, TypeOK
<1>1. ASSUME upload'[id] = upload[id]
      PROVE  upload'[id].feed \in 0..Len(feeds')
  BY <1>0, <1>1 DEF SlotsAimed
<1>2. ASSUME NEW i \in Ids, upload' = [upload EXCEPT ![i] = Cleared]
      PROVE  upload'[id] = upload[id]
  BY <1>0, <1>2 DEF Cleared
<1>3. CASE NumberFeed
  <2>1. CASE id = thr["udp"].id
    <3>1. UNCHANGED feeds /\ thr'["udp"].id = thr["udp"].id
      BY <1>3, PublisherMoves
    <3>2. Slot.active /\ Slot.feed \in 0..Len(feeds)
      BY <1>3, <2>1, <3>1, NumberEffect DEF Slot, SlotsAimed
    <3>3. Slot'.feed \in {Len(feeds) % U16, Slot.feed}
      BY <1>3, NumberEffect
    <3>4. Len(feeds) % U16 = Len(feeds)
      BY <1>0, <3>1, RemainderSmall
    <3> QED
      BY <1>0, <2>1, <3>1, <3>2, <3>3, <3>4 DEF Slot
  <2>2. CASE id # thr["udp"].id
    BY <1>1, <1>3, <2>2, NumberEffect
  <2> QED
    BY <2>1, <2>2
<1>4. CASE WriteFile
  BY <1>1, <1>2, <1>4, LastMoves
<1>5. ASSUME NEW s \in Senders, NEW d \in FreshPayloads, NEW n \in UploadFeeds,
             PrepareUpload(s, n, d)
      PROVE  upload'[id].feed \in 0..Len(feeds')
  <2>1. n \in 0..Len(feeds) /\ s.id \in Ids
    BY <1>0, <1>5, SenderTyped, FeedsAssumption DEF PrepareUpload, NoSuchFeed, TypeInv
  <2>2. upload'[id] = upload[id] \/ upload'[id].feed = n
    BY <1>0, <1>5, <2>1 DEF PrepareUpload
  <2> QED
    BY <1>0, <1>1, <2>1, <2>2
<1> QED
  BY <1>1, <1>2, <1>3, <1>4, <1>5, UploadWriters DEF Timeout

(* The slot the UDP thread publishes is not prepared again meanwhile.      *)
LEMMA PublishedSlot ==
  ASSUME TypeInv, [Next]_vars, Busy("udp"), thr'["udp"] = thr["udp"], Slot'.active
  PROVE  Slot' = Slot
<1>1. thr["udp"].id \in Ids /\ upload \in [Ids -> Upload]
  BY DEF TypeInv, TypeOK, Threads
<1>2. CASE NumberFeed
  <2>1. thr["udp"].pc = "number" /\ thr'["udp"].pc = "aim"
    BY <1>2, PublisherMoves DEF NumberFeed
  <2> QED
    BY <2>1
<1>3. CASE WriteFile
  BY <1>3, LastMoves
<1>4. ASSUME NEW id \in Ids, Timeout(id)
      PROVE  Slot' = Slot
  <2>1. upload' = [upload EXCEPT ![id] = Cleared]
    BY <1>4 DEF Timeout
  <2>2. thr["udp"].id # id
    BY <1>1, <2>1 DEF Slot, Cleared
  <2> QED
    BY <1>1, <2>1, <2>2 DEF Slot
<1>5. ASSUME NEW s \in Senders, NEW d \in FreshPayloads, NEW n \in UploadFeeds,
             PrepareUpload(s, n, d)
      PROVE  FALSE
  BY <1>5 DEF PrepareUpload, Busy
<1>6. CASE UNCHANGED upload
  BY <1>6 DEF Slot
<1> QED
  BY <1>2, <1>3, <1>4, <1>5, <1>6, UploadWriters

LEMMA UdpAimedStep ==
  ASSUME TypeInv, SlotsAimed, UdpAimed, Len(feeds') < U16, [Next]_vars
  PROVE  UdpAimed'
<1>0. /\ "udp" \in Threads /\ Len(feeds) \in Nat /\ Len(feeds') \in Nat
      /\ Len(feeds) <= Len(feeds') /\ U16 \in Nat \ {0}
      /\ feeds # <<>> <=> Len(feeds) # 0
      /\ feeds' # <<>> <=> Len(feeds') # 0
  <2>1. feeds \in Seq(Feed) /\ feeds' \in Seq(Feed)
    BY TypeInvStep DEF TypeInv, TypeOK
  <2> QED
    BY <2>1, FeedsCount, FeedsAssumption, EmptySeq DEF Threads
<1>1. CASE thr'["udp"] = thr["udp"]
  <2>1. CASE Busy("udp")
    BY <1>0, <1>1, <2>1, PublishedSlot DEF UdpAimed
  <2>2. CASE ~ Busy("udp")
    BY <1>1, <2>2 DEF UdpAimed, Busy
  <2> QED
    BY <2>1, <2>2
<1>2. CASE thr'["udp"].pc \in {"idle", "open", "append", "write", "dead"}
  BY <1>2 DEF UdpAimed
<1>3. CASE FeedNew("udp")
  <2>1. CASE FeedAppend("udp")
    <3>1. Len(feeds') = Len(feeds) + 1
      BY <1>0, <2>1, FeedAppendEffect, FeedsCount, IntervalLength
    <3>2. thr["udp"].pc = "append" /\ thr'["udp"].pc = "path"
      BY <1>0, <1>3, <2>1, FeedNewMoves DEF FeedAppend
    <3> QED
      BY <1>0, <3>1, <3>2 DEF UdpAimed
  <2>2. CASE ~ FeedAppend("udp")
    <3>1. /\ thr["udp"].pc \in {"path", "mkdir"} /\ UNCHANGED feeds
          /\ thr'["udp"].pc \in {"mkdir", "dead", "number"}
      BY <1>0, <1>3, <2>2, FeedNewMoves DEF AfterFeedNew
    <3> QED
      BY <3>1 DEF UdpAimed
  <2> QED
    BY <2>1, <2>2
<1>4. CASE NumberFeed
  <2>1. UNCHANGED feeds /\ thr["udp"].pc = "number" /\ thr'["udp"].pc = "aim"
    BY <1>4, PublisherMoves DEF NumberFeed
  <2>2. Len(feeds) % U16 = Len(feeds)
    BY <1>0, <2>1, RemainderSmall
  <2>3. Slot.active => Slot'.feed # 0
    BY <1>0, <1>4, <2>1, <2>2, NumberEffect DEF UdpAimed
  <2>4. Slot'.active = Slot.active
    BY <1>4, NumberEffect
  <2> QED
    BY <2>1, <2>3, <2>4 DEF UdpAimed
<1>5. CASE Aim
  <2>1. /\ UNCHANGED <<feeds, upload>> /\ thr["udp"].pc = "aim" /\ thr'["udp"].pc = "post"
        /\ thr'["udp"].feed = Slot.feed /\ thr'["udp"].id = thr["udp"].id
        /\ thr["udp"].id \in Ids
    BY <1>5, PublisherMoves DEF Aim
  <2>2. Slot' = Slot
    BY <2>1 DEF Slot
  <2> QED
    BY <1>0, <2>1, <2>2 DEF UdpAimed, SlotsAimed, Slot
<1>6. CASE ReadTarget
  <2>1. /\ UNCHANGED <<feeds, upload>> /\ thr'["udp"].pc = PublishFrom(Slot.feed)
        /\ thr'["udp"].id = thr["udp"].id
    BY <1>6, PublisherMoves DEF ReadTarget
  <2>2. Slot' = Slot
    BY <2>1 DEF Slot
  <2> QED
    BY <2>1, <2>2 DEF UdpAimed, PublishFrom
<1>7. CASE WriteFileFails \/ WriteFile \/ \E id \in Ids : StartPublish(id)
  BY <1>2, <1>7, PublisherMoves, LastMoves, PublishMoves DEF WriteFileFails
<1>8. CASE FeedNew("tcp") \/ PostNew("tcp") \/ PostNew("udp")
  BY <1>1, <1>2, <1>8, FeedNewMoves, PostNewMoves DEF Threads, AfterPost
<1>9. ASSUME NEW s \in Senders, NEW d \in FreshPayloads, NEW n \in PostFeeds,
             StartPost(s, n, d)
      PROVE  thr'["udp"] = thr["udp"]
  BY <1>9, StartMoves
<1> QED
  BY <1>1, <1>3, <1>4, <1>5, <1>6, <1>7, <1>8, <1>9, Steps, LastMoves DEF Threads

(* The inductive invariant behind the theorem that follows.                *)
THEOREM TargetInvariant == Spec => []TargetInv
<1>1. TypeInv /\ TargetInv /\ [Next]_vars => TargetInv'
  <2> SUFFICES ASSUME TypeInv, TargetInv, [Next]_vars, Len(feeds') < U16
               PROVE  TcpAimed' /\ SlotsAimed' /\ UdpAimed'
    BY DEF TargetInv
  <2>1. Len(feeds) < U16
    BY FeedsCount, FeedsAssumption
  <2> QED
    BY <2>1, TcpAimedStep, SlotsAimedStep, UdpAimedStep DEF TargetInv
<1> QED
  BY InitTargetInv, <1>1, TypeCorrect, PTL DEF Spec

(* Post_new finds the feed it is given, whichever threads open feeds and   *)
(* however their steps interleave, and with a limit on the number of feeds *)
(* that does not keep their numbers within 16 bits (data.h:13): the two    *)
(* exceptions the property names are the only ones.                        *)
THEOREM PostTargetsExist == Spec => []PostTargetExists
<1>1. TypeInv /\ TargetInv => PostTargetExists
  <2> SUFFICES ASSUME TypeInv, TargetInv, NEW t \in Threads, thr[t].pc = "post",
                      ~ (Len(feeds) >= U16), t = "udp" => Slot.active
               PROVE  thr[t].feed \in DOMAIN feeds
    BY DEF PostTargetExists
  <2>1. DOMAIN feeds = 1..Len(feeds) /\ Len(feeds) < U16
    BY LenProperties, FeedsAssumption DEF TypeInv, TypeOK
  <2> QED
    BY <2>1 DEF TargetInv, TcpAimed, UdpAimed, Threads
<1> QED
  BY <1>1, TypeCorrect, TargetInvariant, PTL

-----------------------------------------------------------------------------
(* Feeds.tla implements the message board of Board.tla.                    *)

(* The thread has appended the feed it opens, and not posted in it yet.    *)
PastAppend(t) == Opens(t) /\ thr[t].pc # "append"
Full(f) == f \in DOMAIN feeds /\ feeds[f].posts # <<>>

(* Only the last feed may be empty, and a thread is about to post in it:   *)
(* the one that opened it.                                                 *)
EmptyIsOpened ==
  \A f \in DOMAIN feeds :
    feeds[f].posts = <<>> => f = Len(feeds) /\ \E t \in Threads : PastAppend(t)
OpenersOwn ==
  \A t \in Threads : PastAppend(t) =>
    feeds # <<>> /\ feeds[Len(feeds)].creator = thr[t].ptr.pseudo
(* The TCP thread computes the number of the feed it opens beforehand...   *)
TcpOpens ==
  /\ thr["tcp"].pc = "append" => thr["tcp"].feed = NextFeedNumber(Len(feeds))
  /\ PastAppend("tcp") => thr["tcp"].feed = Len(feeds)
(* ... and the UDP thread afterwards, in the slot it publishes.            *)
UdpOpens ==
  /\ thr["udp"].pc = "append" => Slot.feed = 0
  /\ PastAppend("udp") =>
       /\ thr["udp"].pc \in {"path", "mkdir", "number"} => Slot.feed = 0
       /\ thr["udp"].pc \in {"aim", "post"} => Slot.feed = Len(feeds)
       /\ thr["udp"].pc = "post" => thr["udp"].feed = Len(feeds)
(* A file for a feed that is there goes to a feed with posts.              *)
UdpKnows ==
  thr["udp"].path = 0 =>
    /\ thr["udp"].pc \in {"number", "aim"} => Slot.feed # 0
    /\ thr["udp"].pc = "post" => Full(thr["udp"].feed)
KnownFeed(id) == \/ upload[id].feed = 0 \/ Full(upload[id].feed)
                 \/ PastAppend("udp") /\ id = thr["udp"].id
UploadsFull == \A id \in Ids : upload[id].active => KnownFeed(id)
Paths ==
  /\ \A t \in Threads : thr[t].pc = "mkdir" => thr[t].path # 0
  /\ thr["udp"].pc = "open" => thr["udp"].path = 0

BoardParts == /\ EmptyIsOpened /\ OpenersOwn /\ TcpOpens /\ UdpOpens /\ UdpKnows
              /\ UploadsFull /\ Paths
Apart == Exact /\ ~ Race /\ BoardParts
BoardInv == (raced \/ ~ Race) /\ (Exact => BoardParts)

LEMMA InitBoardInv == Init => BoardInv
<1> SUFFICES ASSUME Init
             PROVE  BoardInv
  OBVIOUS
<1>1. /\ upload = [id \in Ids |-> Cleared] /\ feeds = <<>>
      /\ \A t \in Threads : thr[t] = Idle
  BY DEF Init
<1>2. \A t \in Threads : ~ Opens(t) /\ ~ Busy(t) /\ thr[t].pc = "idle"
  BY <1>1 DEF Opens, Busy, Idle
<1>3. ~ Race
  BY <1>2 DEF Race, Threads
<1>4. BoardParts
  BY <1>1, <1>2 DEF BoardParts, EmptyIsOpened, OpenersOwn, TcpOpens, UdpOpens, UdpKnows,
     UploadsFull, Paths, PastAppend, Cleared, Threads
<1> QED
  BY <1>3, <1>4 DEF BoardInv

(* A board that is exact has been so all along.                            *)
LEMMA DeadStaysDead ==
  ASSUME TypeInv, [Next]_vars, NEW t \in Threads, thr[t].pc = "dead"
  PROVE  thr'[t].pc = "dead"
<1>1. ~ Busy(t)
  BY DEF Busy
<1>2. ASSUME Busy(t)'
      PROVE  FALSE
  BY <1>1, <1>2, BusyMoves, StartMoves, PublishMoves DEF Aim
<1>3. CASE thr'[t] = thr[t]
  BY <1>3
<1>4. CASE thr'[t].pc = "idle"
  <2>1. ASSUME NEW u \in Threads, FeedNew(u) \/ PostNew(u)
        PROVE  thr'[t] = thr[t]
    BY <2>1, FeedNewMoves, PostNewMoves
  <2>2. CASE ReadTarget \/ NumberFeed \/ Aim \/ WriteFileFails \/ ReplyPost \/ WriteFile
    BY <2>2, PublisherMoves, LastMoves DEF Threads
  <2> QED
    BY <1>3, <2>1, <2>2, Steps, StartMoves, PublishMoves DEF Threads
<1> QED
  BY <1>2, <1>4 DEF Busy

LEMMA ExactBefore ==
  ASSUME TypeInv, BoardInv, [Next]_vars, Exact'
  PROVE  Apart /\ ~ Race' /\ Len(feeds') < U16
<1>1. ~ raced /\ ~ Race'
  <2>1. CASE Next
    BY <2>1 DEF Next, Marked, Exact
  <2>2. CASE UNCHANGED vars
    BY <2>2 DEF vars, Exact, BoardInv, Race, Opens, Busy, Moved, Slot
  <2> QED
    BY <2>1, <2>2
<1>2. Len(feeds) < U16
  <2>1. Len(feeds) \in Nat /\ Len(feeds') \in Nat /\ Len(feeds) <= Len(feeds')
    BY FeedsCount
  <2> QED
    BY <2>1, FeedsAssumption DEF Exact
<1>3. \A t \in Threads : thr[t].pc # "dead"
  BY DeadStaysDead DEF Exact
<1> QED
  BY <1>1, <1>2, <1>3 DEF Apart, Exact, BoardInv

(* While a thread opens a feed, the other does not.                        *)
LEMMA OneOpens ==
  ASSUME ~ Race, NEW t \in Threads, NEW u \in Threads, Opens(t), Opens(u)
  PROVE  t = u
BY DEF Race, Threads

LEMMA AppendAlone ==
  ASSUME TypeInv, Apart, NEW t \in Threads, FeedAppend(t)
  PROVE  /\ \A u \in Threads : ~ PastAppend(u)
         /\ \A f \in DOMAIN feeds : feeds[f].posts # <<>>
<1>1. Opens(t) /\ thr[t].pc = "append"
  BY DEF FeedAppend, Opens
<1>2. \A u \in Threads : ~ PastAppend(u)
  BY <1>1, OneOpens DEF Apart, PastAppend
<1> QED
  BY <1>2 DEF Apart, BoardParts, EmptyIsOpened

(* Pointers into the table of users are good.                              *)
LEMMA GoodPointer ==
  ASSUME TypeInv, SignInv, ~ Race, NEW t \in Threads, Busy(t)
  PROVE  /\ Deref(thr[t].ptr) = {thr[t].ptr.pseudo}
         /\ thr[t].ptr.pseudo \in Members /\ thr[t].ptr.pseudo \in Pseudos
<1>1. thr[t].ptr \in Pointer /\ thr[t].ptr.cap = usersCap
  BY DEF Race, Moved, SignInv, OwnPointer, Threads, TypeInv, TypeOK
<1>2. thr[t].ptr.pseudo \in Members
  BY DEF SignInv, OwnRequests, Registered, Members
<1> QED
  BY <1>1, <1>2 DEF Deref, Pointer

(* Feeds with posts keep them, and feeds keep their creators.              *)
LEMMA FeedsKeep ==
  ASSUME TypeInv, [Next]_vars, NEW f \in DOMAIN feeds
  PROVE  /\ f \in DOMAIN feeds' /\ feeds'[f].creator = feeds[f].creator
         /\ feeds[f].posts # <<>> => feeds'[f].posts # <<>>
<1>1. CASE UNCHANGED feeds
  BY <1>1
<1>2. ASSUME NEW t \in Threads, FeedAppend(t)
      PROVE  f \in DOMAIN feeds' /\ feeds'[f] = feeds[f]
  BY <1>2, FeedAppendEffect
<1>3. ASSUME NEW t \in Threads, PostNew(t)
      PROVE  f \in DOMAIN feeds' /\ (feeds'[f] = feeds[f] \/ f = thr[t].feed)
  BY <1>3, PostNewEffect
<1>4. ASSUME NEW t \in Threads, PostNew(t), f = thr[t].feed
      PROVE  feeds'[f].creator = feeds[f].creator /\ feeds'[f].posts # <<>>
  <2>1. PICK s \in Seq(Post), e \in Post : feeds'[f].posts = Append(s, e)
    BY <1>4, PostNewEffect
  <2>2. Append(s, e) # <<>>
    BY <2>1, AppendProperties
  <2> QED
    BY <1>4, <2>1, <2>2, PostNewEffect
<1> QED
  BY <1>1, <1>2, <1>3, <1>4, FeedsWriters

LEMMA FullKept ==
  ASSUME TypeInv, [Next]_vars, NEW f, Full(f)
  PROVE  Full(f)'
BY FeedsKeep DEF Full

(* Where a thread that opens a feed has come from, and where it goes.      *)
LEMMA PastFrom ==
  ASSUME TypeInv, Apart, [Next]_vars, NEW t \in Threads, PastAppend(t)'
  PROVE  \/ FeedAppend(t)
         \/ /\ PastAppend(t) /\ thr'[t].id = thr[t].id /\ thr'[t].ptr = thr[t].ptr
            /\ Len(feeds') = Len(feeds)
<1>0. "tcp" \in Threads /\ "udp" \in Threads /\ t \in {"tcp", "udp"}
  BY DEF Threads
<1>1. ASSUME PastAppend(t)
      PROVE  FeedAppend(t) \/ Len(feeds') = Len(feeds)
  BY <1>1, FeedsCount, AppendAlone
<1>2. CASE thr'[t] = thr[t]
  BY <1>1, <1>2 DEF PastAppend, Opens
<1>3. CASE FeedNew(t)
  <2>1. FeedAppend(t) \/ PastAppend(t)
    BY <1>3, FeedNewMoves DEF PastAppend, Opens, Apart, BoardParts, Paths
  <2> QED
    BY <1>1, <1>3, <2>1, FeedNewMoves
<1>4. CASE PostNew(t)
  BY <1>4, PostNewMoves DEF PastAppend, Opens, AfterPost
<1>5. CASE t = "udp" /\ (ReadTarget \/ NumberFeed \/ Aim \/ WriteFileFails)
  <2>1. PastAppend("udp") /\ thr'["udp"].id = thr["udp"].id /\ thr'["udp"].ptr = thr["udp"].ptr
    BY <1>5, PublisherMoves DEF PastAppend, Opens, PublishFrom, Apart, BoardParts, Paths
  <2> QED
    BY <1>1, <1>5, <2>1
<1>6. ASSUME NEW u \in Threads, u # t, FeedNew(u) \/ PostNew(u)
      PROVE  thr'[t] = thr[t]
  BY <1>6, FeedNewMoves, PostNewMoves
<1>7. CASE ReplyPost \/ WriteFile
  BY <1>0, <1>2, <1>7, LastMoves DEF PastAppend, Opens
<1>8. ASSUME NEW s \in Senders, NEW d \in FreshPayloads, NEW n \in PostFeeds,
             StartPost(s, n, d)
      PROVE  thr'[t] = thr[t]
  BY <1>0, <1>8, StartMoves DEF PastAppend, Opens
<1>9. ASSUME NEW id \in Ids, StartPublish(id)
      PROVE  thr'[t] = thr[t]
  BY <1>0, <1>9, PublishMoves DEF PastAppend, Opens
<1>10. CASE t = "tcp" /\ (ReadTarget \/ NumberFeed \/ Aim \/ WriteFileFails)
  BY <1>2, <1>10, PublisherMoves
<1> QED
  BY <1>0, <1>2, <1>3, <1>4, <1>5, <1>6, <1>7, <1>8, <1>9, <1>10, Steps

LEMMA PastGoesOn ==
  ASSUME TypeInv, Apart, [Next]_vars, Exact', NEW t \in Threads, PastAppend(t)
  PROVE  \/ PastAppend(t)' /\ thr'[t].id = thr[t].id
         \/ PostNew(t)
<1>0. "tcp" \in Threads /\ "udp" \in Threads /\ thr'[t].pc # "dead"
  BY DEF Threads, Exact
<1>1. CASE thr'[t] = thr[t]
  BY <1>1 DEF PastAppend, Opens
<1>2. CASE FeedNew(t)
  <2>1. Len(feeds) # 0
    BY EmptySeq DEF Apart, BoardParts, OpenersOwn, TypeInv, TypeOK
  <2>2. ~ FeedAppend(t)
    BY DEF PastAppend, FeedAppend
  <2> QED
    BY <1>0, <1>2, <2>1, <2>2, FeedNewMoves DEF PastAppend, Opens, AfterFeedNew
<1>3. CASE t = "udp" /\ (ReadTarget \/ NumberFeed \/ Aim \/ WriteFileFails)
  BY <1>0, <1>3, PublisherMoves DEF PastAppend, Opens
<1>4. ASSUME NEW u \in Threads, u # t, FeedNew(u) \/ PostNew(u)
      PROVE  thr'[t] = thr[t]
  BY <1>4, FeedNewMoves, PostNewMoves
<1>5. CASE ReplyPost \/ WriteFile
  BY <1>0, <1>1, <1>5, LastMoves DEF PastAppend, Opens, Threads
<1>6. ASSUME NEW s \in Senders, NEW d \in FreshPayloads, NEW n \in PostFeeds,
             StartPost(s, n, d)
      PROVE  thr'[t] = thr[t]
  BY <1>0, <1>6, StartMoves DEF PastAppend, Opens, Threads
<1>7. ASSUME NEW id \in Ids, StartPublish(id)
      PROVE  thr'[t] = thr[t]
  BY <1>0, <1>7, PublishMoves DEF PastAppend, Opens, Threads
<1>8. CASE t = "tcp" /\ (ReadTarget \/ NumberFeed \/ Aim \/ WriteFileFails)
  BY <1>1, <1>8, PublisherMoves
<1> QED
  BY <1>1, <1>2, <1>3, <1>4, <1>5, <1>6, <1>7, <1>8, Steps DEF Threads

(* Who posts in the feed it has opened.                                    *)
LEMMA OpenersTarget ==
  ASSUME Apart, NEW t \in Threads, PastAppend(t), thr[t].pc = "post"
  PROVE  thr[t].feed = Len(feeds)
BY DEF Apart, BoardParts, TcpOpens, UdpOpens, Threads

LEMMA EmptyIsOpenedStep ==
  ASSUME TypeInv, Apart, [Next]_vars, Exact'
  PROVE  EmptyIsOpened'
<1> SUFFICES ASSUME NEW f \in DOMAIN feeds', feeds'[f].posts = <<>>
             PROVE  f = Len(feeds') /\ \E t \in Threads : PastAppend(t)'
  BY DEF EmptyIsOpened
<1>1. CASE UNCHANGED feeds
  <2>1. PICK t \in Threads : PastAppend(t)
    BY <1>1 DEF Apart, BoardParts, EmptyIsOpened
  <2>2. ~ PostNew(t)
    <3>1. ASSUME PostNew(t)
          PROVE  FALSE
      <4>1. thr[t].feed = f /\ f \in DOMAIN feeds
        BY <1>1, <2>1, <3>1, OpenersTarget DEF PostNew, Apart, BoardParts, EmptyIsOpened
      <4>2. PICK s \in Seq(Post), e \in Post : feeds'[f].posts = Append(s, e)
        BY <3>1, <4>1, PostNewEffect
      <4> QED
        BY <4>2, AppendProperties
    <3> QED
      BY <3>1
  <2> QED
    BY <1>1, <2>1, <2>2, PastGoesOn DEF Apart, BoardParts, EmptyIsOpened
<1>2. ASSUME NEW t \in Threads, FeedAppend(t)
      PROVE  f = Len(feeds') /\ PastAppend(t)'
  <2>1. f = Len(feeds) + 1 /\ Len(feeds) \in Nat
    BY <1>2, FeedAppendEffect, AppendAlone
  <2>2. Len(feeds') = Len(feeds) + 1
    <3>1. Len(feeds) + 1 \in Nat
      BY <2>1
    <3> QED
      BY <1>2, <2>1, <3>1, FeedAppendEffect, FeedsCount, IntervalLength
  <2>3. thr'[t].pc = "path"
    BY <1>2, FeedNewMoves DEF FeedNew, FeedAppend
  <2> QED
    BY <2>1, <2>2, <2>3 DEF PastAppend, Opens
<1>3. ASSUME NEW u \in Threads, PostNew(u)
      PROVE  f = Len(feeds') /\ \E t \in Threads : PastAppend(t)'
  <2>1. f # thr[u].feed
    <3>1. PICK s \in Seq(Post), e \in Post : feeds'[thr[u].feed].posts = Append(s, e)
      BY <1>3, PostNewEffect
    <3> QED
      BY <3>1, AppendProperties
  <2>2. f \in DOMAIN feeds /\ feeds[f].posts = <<>>
    BY <1>3, <2>1, PostNewEffect
  <2>3. PICK t \in Threads : f = Len(feeds) /\ PastAppend(t)
    BY <2>2 DEF Apart, BoardParts, EmptyIsOpened
  <2>4. t # u
    BY <1>3, <2>1, <2>3, OpenersTarget DEF PostNew
  <2>5. PastAppend(t)'
    BY <1>3, <2>3, <2>4, PostNewMoves DEF PastAppend, Opens
  <2>6. Len(feeds') = Len(feeds)
    BY <2>3, <2>5, PastFrom DEF PastAppend, FeedAppend
  <2> QED
    BY <2>3, <2>5, <2>6
<1> QED
  BY <1>1, <1>2, <1>3, FeedsWriters

LEMMA OpenersOwnStep ==
  ASSUME TypeInv, SignInv, Apart, [Next]_vars, Exact'
  PROVE  OpenersOwn'
<1> SUFFICES ASSUME NEW t \in Threads, PastAppend(t)'
             PROVE  feeds' # <<>> /\ feeds'[Len(feeds')].creator = thr'[t].ptr.pseudo
  BY DEF OpenersOwn
<1>1. CASE FeedAppend(t)
  <2>1. /\ feeds'[Len(feeds) + 1].creator \in Deref(thr[t].ptr)
        /\ Len(feeds) \in Nat /\ DOMAIN feeds' = 1..(Len(feeds) + 1)
    BY <1>1, FeedAppendEffect
  <2>2. Len(feeds') = Len(feeds) + 1
    <3>1. Len(feeds) + 1 \in Nat
      BY <2>1
    <3> QED
      BY <2>1, <3>1, FeedsCount, IntervalLength
  <2>3. thr'[t].ptr = thr[t].ptr
    BY <1>1, FeedNewMoves DEF FeedNew
  <2>4. Deref(thr[t].ptr) = {thr[t].ptr.pseudo}
    BY <1>1, GoodPointer DEF Busy, FeedAppend, Apart
  <2>5. feeds' # <<>>
    <3>1. Len(feeds) + 1 \in DOMAIN feeds'
      BY <2>1
    <3> QED
      BY <3>1
  <2> QED
    BY <2>1, <2>2, <2>3, <2>4, <2>5
<1>2. CASE PastAppend(t) /\ thr'[t].ptr = thr[t].ptr /\ Len(feeds') = Len(feeds)
  <2>1. feeds # <<>> /\ feeds[Len(feeds)].creator = thr[t].ptr.pseudo
    BY <1>2 DEF Apart, BoardParts, OpenersOwn
  <2>2. feeds \in Seq(Feed) /\ feeds' \in Seq(Feed)
    BY TypeInvStep DEF TypeInv, TypeOK
  <2>3. Len(feeds) # 0 /\ feeds' # <<>>
    BY <1>2, <2>1, <2>2, EmptySeq
  <2>4. Len(feeds) \in DOMAIN feeds
    BY <2>3, FeedsCount
  <2> QED
    BY <1>2, <2>1, <2>3, <2>4, FeedsKeep
<1> QED
  BY <1>1, <1>2, PastFrom

(* A feed whose number was computed gets that number.                      *)
LEMMA AppendedNumber ==
  ASSUME TypeInv, NEW t \in Threads, FeedAppend(t), [Next]_vars, Len(feeds') < U16
  PROVE  NextFeedNumber(Len(feeds)) = Len(feeds')
<1>1. Len(feeds) \in Nat /\ Len(feeds) + 1 \in Nat
  BY FeedsCount
<1>2. Len(feeds') = Len(feeds) + 1
  BY <1>1, FeedAppendEffect, FeedsCount, IntervalLength
<1> QED
  BY <1>1, <1>2, RemainderSmall DEF NextFeedNumber

LEMMA TcpOpensStep ==
  ASSUME TypeInv, Apart, [Next]_vars, Exact'
  PROVE  TcpOpens'
<1>0. "tcp" \in Threads /\ "udp" \in Threads /\ Len(feeds') < U16
  BY DEF Threads, Exact
<1>1. ASSUME thr'["tcp"].pc = "append"
      PROVE  thr'["tcp"].feed = NextFeedNumber(Len(feeds'))
  <2>1. CASE thr'["tcp"] = thr["tcp"]
    <3>1. Opens("tcp") /\ ~ FeedAppend("tcp")
      <4>1. CASE FeedAppend("tcp")
        BY <1>1, <1>0, <4>1, FeedNewMoves DEF FeedNew, FeedAppend
      <4> QED
        BY <1>1, <2>1, <4>1 DEF Opens
    <3>2. ~ FeedAppend("udp")
      BY <1>0, <3>1, OneOpens DEF FeedAppend, Opens, Apart
    <3>3. Len(feeds') = Len(feeds)
      BY <3>1, <3>2, FeedsCount DEF Threads
    <3> QED
      BY <1>1, <2>1, <3>3 DEF Apart, BoardParts, TcpOpens
  <2>2. CASE FeedNew("tcp") \/ PostNew("tcp") \/ ReplyPost
    BY <1>0, <1>1, <2>2, FeedNewMoves, PostNewMoves, LastMoves DEF AfterFeedNew, AfterPost
  <2>3. ASSUME NEW s \in Senders, NEW d \in FreshPayloads, NEW n \in PostFeeds,
               StartPost(s, n, d)
        PROVE  thr'["tcp"].feed = NextFeedNumber(Len(feeds'))
    BY <1>1, <2>3, StartMoves
  <2>4. CASE FeedNew("udp") \/ PostNew("udp")
    BY <1>0, <2>1, <2>4, FeedNewMoves, PostNewMoves
  <2> QED
    BY <2>1, <2>2, <2>3, <2>4, Steps, PublishMoves, PublisherMoves, LastMoves DEF Threads
<1>2. ASSUME PastAppend("tcp")'
      PROVE  thr'["tcp"].feed = Len(feeds')
  <2>1. CASE FeedAppend("tcp")
    <3>1. thr'["tcp"].feed = thr["tcp"].feed /\ thr["tcp"].pc = "append"
      BY <1>0, <2>1, FeedNewMoves DEF FeedNew, FeedAppend
    <3> QED
      BY <1>0, <2>1, <3>1, AppendedNumber DEF Apart, BoardParts, TcpOpens
  <2>2. CASE ~ FeedAppend("tcp")
    <3>1. PastAppend("tcp") /\ Len(feeds') = Len(feeds) /\ thr["tcp"].pc # "idle"
      BY <1>0, <1>2, <2>2, PastFrom DEF PastAppend, Opens
    <3>2. thr'["tcp"].feed = thr["tcp"].feed
      <4>1. thr'["tcp"].pc # "idle"
        BY <1>2 DEF PastAppend, Opens
      <4> QED
        BY <1>0, <3>1, <4>1, Steps, FeedNewMoves, PostNewMoves, PublishMoves, PublisherMoves,
           LastMoves, StartMoves
    <3> QED
      BY <3>1, <3>2 DEF Apart, BoardParts, TcpOpens
  <2> QED
    BY <2>1, <2>2
<1> QED
  BY <1>1, <1>2 DEF TcpOpens

(* The slot the UDP thread publishes, as long as the threads stay out of   *)
(* each other's way.                                                       *)
LEMMA SlotStays ==
  ASSUME TypeInv, ~ Race', [Next]_vars, Busy("udp"), thr'["udp"] = thr["udp"]
  PROVE  Slot' = Slot
<1>1. Slot'.active
  BY DEF Race, Busy
<1> QED
  BY <1>1, PublishedSlot

LEMMA UdpOpensStep ==
  ASSUME TypeInv, Apart, [Next]_vars, Exact', ~ Race'
  PROVE  UdpOpens'
<1>0. "tcp" \in Threads /\ "udp" \in Threads /\ Len(feeds') < U16
  BY DEF Threads, Exact
<1>a. ASSUME PastAppend("udp")', ~ FeedAppend("udp")
      PROVE  PastAppend("udp") /\ Len(feeds') = Len(feeds)
  BY <1>0, <1>a, PastFrom
<1> USE DEF UdpOpens
<1>1. CASE thr'["udp"] = thr["udp"]
  <2>1. CASE Busy("udp")
    <3>1. Slot' = Slot /\ ~ FeedAppend("udp")
      <4>1. CASE FeedAppend("udp")
        BY <1>0, <1>1, <4>1, FeedNewMoves DEF FeedNew, FeedAppend
      <4> QED
        BY <1>1, <2>1, <4>1, SlotStays
    <3> QED
      BY <1>1, <1>a, <3>1 DEF Apart, BoardParts
  <2>2. CASE ~ Busy("udp")
    BY <1>1, <2>2 DEF Busy, PastAppend, Opens
  <2> QED
    BY <2>1, <2>2
<1>2. CASE thr'["udp"].pc \in {"idle", "open", "write", "dead"}
  BY <1>2 DEF PastAppend, Opens
<1>3. CASE FeedNew("udp")
  <2>1. UNCHANGED upload /\ thr'["udp"].id = thr["udp"].id
    BY <1>0, <1>3, FeedNewFrame, FeedNewMoves
  <2>2. Slot' = Slot
    BY <2>1 DEF Slot
  <2>3. Slot.feed = 0
    <3>1. thr["udp"].pc \in {"append", "path", "mkdir"}
      BY <1>0, <1>3, FeedNewMoves
    <3>2. thr["udp"].pc # "append" => PastAppend("udp")
      BY <3>1 DEF PastAppend, Opens, Apart, BoardParts, Paths, Threads
    <3> QED
      BY <3>1, <3>2 DEF Apart, BoardParts
  <2>4. thr'["udp"].pc \in {"path", "mkdir", "number", "dead"}
    BY <1>0, <1>3, FeedNewMoves DEF AfterFeedNew
  <2> QED
    BY <2>2, <2>3, <2>4
<1>4. CASE ReadTarget
  <2>1. /\ UNCHANGED upload /\ thr'["udp"].id = thr["udp"].id
        /\ thr'["udp"].pc = PublishFrom(Slot.feed)
        /\ thr'["udp"].path = thr["udp"].path /\ thr["udp"].pc = "open"
    BY <1>4, PublisherMoves DEF ReadTarget
  <2>2. Slot' = Slot /\ thr'["udp"].path = 0
    BY <2>1 DEF Slot, Apart, BoardParts, Paths
  <2> QED
    BY <2>1, <2>2 DEF PublishFrom, PastAppend, Opens
<1>5. CASE NumberFeed
  <2>1. /\ UNCHANGED feeds /\ thr["udp"].pc = "number" /\ thr'["udp"].pc = "aim"
        /\ thr'["udp"].path = thr["udp"].path
    BY <1>5, PublisherMoves DEF NumberFeed
  <2>2. Slot'.feed = IF Slot.feed = 0 THEN Len(feeds) % U16 ELSE Slot.feed
    BY <1>5, NumberEffect
  <2>3. Len(feeds) % U16 = Len(feeds)
    BY <1>0, <2>1, FeedsCount, RemainderSmall
  <2>4. PastAppend("udp")' => PastAppend("udp")
    BY <2>1 DEF PastAppend, Opens
  <2> QED
    BY <2>1, <2>2, <2>3, <2>4 DEF Apart, BoardParts
<1>6. CASE Aim
  <2>1. /\ UNCHANGED <<feeds, upload>> /\ thr["udp"].pc = "aim" /\ thr'["udp"].pc = "post"
        /\ thr'["udp"].id = thr["udp"].id /\ thr'["udp"].feed = Slot.feed
        /\ thr'["udp"].path = thr["udp"].path
    BY <1>6, PublisherMoves DEF Aim
  <2>2. Slot' = Slot
    BY <2>1 DEF Slot
  <2>3. PastAppend("udp")' => PastAppend("udp")
    BY <2>1 DEF PastAppend, Opens
  <2> QED
    BY <2>1, <2>2, <2>3 DEF Apart, BoardParts
<1>7. CASE WriteFileFails \/ WriteFile \/ \E id \in Ids : StartPublish(id)
  BY <1>2, <1>7, PublisherMoves, LastMoves, PublishMoves DEF WriteFileFails
<1>8. CASE FeedNew("tcp") \/ PostNew("tcp") \/ PostNew("udp")
  BY <1>0, <1>1, <1>2, <1>8, FeedNewMoves, PostNewMoves DEF AfterPost
<1>9. ASSUME NEW s \in Senders, NEW d \in FreshPayloads, NEW n \in PostFeeds,
             StartPost(s, n, d)
      PROVE  thr'["udp"] = thr["udp"]
  BY <1>9, StartMoves
<1> QED
  BY <1>1, <1>3, <1>4, <1>5, <1>6, <1>7, <1>8, <1>9, Steps, LastMoves DEF Threads

LEMMA UdpKnowsStep ==
  ASSUME TypeInv, Apart, [Next]_vars, ~ Race'
  PROVE  UdpKnows'
<1>0. "tcp" \in Threads /\ "udp" \in Threads
  BY DEF Threads
<1> USE DEF UdpKnows
<1>1. CASE thr'["udp"] = thr["udp"]
  <2>1. CASE Busy("udp")
    <3>1. Slot' = Slot
      BY <1>1, <2>1, SlotStays
    <3> QED
      BY <1>1, <3>1, FullKept DEF Apart, BoardParts
  <2>2. CASE ~ Busy("udp")
    BY <1>1, <2>2 DEF Busy
  <2> QED
    BY <2>1, <2>2
<1>2. CASE thr'["udp"].pc \in {"idle", "open", "append", "path", "mkdir", "write", "dead"}
  BY <1>2
<1>3. CASE FeedNew("udp")
  <2>1. CASE thr'["udp"].path # 0
    BY <2>1
  <2>2. CASE thr'["udp"].path = 0
    <3>1. thr["udp"].pc = "path" => feeds # <<>>
      BY <1>0 DEF Apart, BoardParts, OpenersOwn, PastAppend, Opens
    <3>2. Len(feeds) = 0 => feeds = <<>>
      BY EmptySeq DEF TypeInv, TypeOK
    <3> QED
      BY <1>0, <1>2, <1>3, <2>2, <3>1, <3>2, FeedNewMoves DEF Apart, BoardParts, Paths
  <2> QED
    BY <2>1, <2>2
<1>4. CASE ReadTarget
  <2>1. /\ UNCHANGED upload /\ thr'["udp"].id = thr["udp"].id
        /\ thr'["udp"].pc = PublishFrom(Slot.feed)
    BY <1>4, PublisherMoves DEF ReadTarget
  <2>2. Slot' = Slot
    BY <2>1 DEF Slot
  <2> QED
    BY <2>1, <2>2 DEF PublishFrom
<1>5. CASE NumberFeed
  <2>1. /\ thr["udp"].pc = "number" /\ thr'["udp"].pc = "aim"
        /\ thr'["udp"].path = thr["udp"].path
    BY <1>5, PublisherMoves DEF NumberFeed
  <2>2. Slot'.feed = IF Slot.feed = 0 THEN Len(feeds) % U16 ELSE Slot.feed
    BY <1>5, NumberEffect
  <2> QED
    BY <2>1, <2>2 DEF Apart, BoardParts
<1>6. CASE Aim
  <2>1. /\ thr["udp"].pc = "aim" /\ thr'["udp"].pc = "post"
        /\ thr'["udp"].feed = Slot.feed /\ thr["udp"].id \in Ids
        /\ thr'["udp"].path = thr["udp"].path
    BY <1>6, PublisherMoves DEF Aim
  <2>2. Slot.active
    BY <2>1 DEF Apart, Race, Busy
  <2>3. thr["udp"].path = 0 => Full(Slot.feed)
    BY <2>1, <2>2 DEF Apart, BoardParts, UploadsFull, KnownFeed, Slot, PastAppend, Opens
  <2> QED
    BY <2>1, <2>3, FullKept
<1>7. CASE WriteFileFails \/ WriteFile \/ \E id \in Ids : StartPublish(id)
  BY <1>2, <1>7, PublisherMoves, LastMoves, PublishMoves DEF WriteFileFails
<1>8. CASE FeedNew("tcp") \/ PostNew("tcp") \/ PostNew("udp")
  BY <1>0, <1>1, <1>2, <1>8, FeedNewMoves, PostNewMoves DEF AfterPost
<1>9. ASSUME NEW s \in Senders, NEW d \in FreshPayloads, NEW n \in PostFeeds,
             StartPost(s, n, d)
      PROVE  thr'["udp"] = thr["udp"]
  BY <1>9, StartMoves
<1> QED
  BY <1>1, <1>3, <1>4, <1>5, <1>6, <1>7, <1>8, <1>9, Steps, LastMoves DEF Threads

LEMMA PathsStep ==
  ASSUME TypeInv, Apart, [Next]_vars
  PROVE  Paths'
<1>0. "tcp" \in Threads /\ "udp" \in Threads
  BY DEF Threads
<1>1. ASSUME NEW t \in Threads, thr'[t].pc = "mkdir"
      PROVE  thr'[t].path # 0
  <2>1. CASE FeedNew(t)
    <3>1. thr[t].pc = "path" => feeds # <<>>
      BY DEF Apart, BoardParts, OpenersOwn, PastAppend, Opens
    <3>2. Len(feeds) = 0 => feeds = <<>>
      BY EmptySeq DEF TypeInv, TypeOK
    <3>3. AfterFeedNew(t) # "mkdir"
      BY DEF AfterFeedNew
    <3> QED
      BY <1>1, <2>1, <3>1, <3>2, <3>3, FeedNewMoves
  <2>2. CASE thr'[t] = thr[t]
    BY <1>1, <2>2 DEF Apart, BoardParts, Paths
  <2>3. ASSUME NEW u \in Threads, u # t, FeedNew(u) \/ PostNew(u)
        PROVE  thr'[t] = thr[t]
    BY <2>3, FeedNewMoves, PostNewMoves
  <2>4. CASE PostNew(t)
    BY <1>1, <2>4, PostNewMoves DEF AfterPost
  <2>5. CASE ReadTarget \/ NumberFeed \/ Aim \/ WriteFileFails
    BY <1>0, <1>1, <2>2, <2>5, PublisherMoves DEF PublishFrom, Threads
  <2>6. CASE ReplyPost \/ WriteFile
    BY <1>1, <2>2, <2>6, LastMoves DEF Threads
  <2>7. ASSUME NEW s \in Senders, NEW d \in FreshPayloads, NEW n \in PostFeeds,
               StartPost(s, n, d)
        PROVE  thr'[t] = thr[t]
    BY <1>1, <2>7, StartMoves DEF Threads
  <2>8. ASSUME NEW id \in Ids, StartPublish(id)
        PROVE  thr'[t] = thr[t]
    BY <1>1, <2>8, PublishMoves DEF Threads
  <2> QED
    BY <2>1, <2>2, <2>3, <2>4, <2>5, <2>6, <2>7, <2>8, Steps
<1>2. ASSUME thr'["udp"].pc = "open"
      PROVE  thr'["udp"].path = 0
  <2>1. CASE thr'["udp"] = thr["udp"]
    BY <1>2, <2>1 DEF Apart, BoardParts, Paths
  <2>2. CASE FeedNew("udp") \/ PostNew("udp")
    BY <1>0, <1>2, <2>2, FeedNewMoves, PostNewMoves DEF AfterFeedNew, AfterPost
  <2>3. CASE FeedNew("tcp") \/ PostNew("tcp") \/ ReplyPost \/ WriteFile
    BY <1>0, <1>2, <2>1, <2>3, FeedNewMoves, PostNewMoves, LastMoves
  <2>4. CASE ReadTarget \/ NumberFeed \/ Aim \/ WriteFileFails
    BY <1>2, <2>4, PublisherMoves DEF PublishFrom
  <2>5. ASSUME NEW s \in Senders, NEW d \in FreshPayloads, NEW n \in PostFeeds,
               StartPost(s, n, d)
        PROVE  thr'["udp"] = thr["udp"]
    BY <2>5, StartMoves
  <2> QED
    BY <1>2, <2>1, <2>2, <2>3, <2>4, <2>5, Steps, PublishMoves DEF Threads
<1> QED
  BY <1>1, <1>2 DEF Paths

LEMMA UploadsFullStep ==
  ASSUME TypeInv, Apart, [Next]_vars, Exact', ~ Race'
  PROVE  UploadsFull'
<1> SUFFICES ASSUME NEW id \in Ids, upload'[id].active
             PROVE  KnownFeed(id)'
  BY DEF UploadsFull
<1>0. "tcp" \in Threads /\ "udp" \in Threads /\ upload \in [Ids -> Upload]
  BY DEF Threads, TypeInv, TypeOK
<1>1. CASE PostNew("udp") /\ PastAppend("udp") /\ id = thr["udp"].id
  <2>1. /\ UNCHANGED upload /\ thr["udp"].pc = "post" /\ thr["udp"].feed \in DOMAIN feeds'
    BY <1>0, <1>1, PostFrame, PostNewEffect DEF PostNew
  <2>2. upload[id].feed = thr["udp"].feed
    BY <1>1, <2>1 DEF Apart, BoardParts, UdpOpens, Slot
  <2>3. PICK s \in Seq(Post), e \in Post : feeds'[thr["udp"].feed].posts = Append(s, e)
    BY <1>0, <1>1, PostNewEffect
  <2>4. Append(s, e) # <<>>
    BY <2>3, AppendProperties
  <2> QED
    BY <2>1, <2>2, <2>3, <2>4 DEF Full, KnownFeed
<1>2. ASSUME upload'[id] = upload[id]
      PROVE  KnownFeed(id)'
  <2>1. CASE upload[id].feed = 0
    BY <1>2, <2>1 DEF KnownFeed
  <2>2. CASE Full(upload[id].feed)
    BY <1>2, <2>2, FullKept DEF Full, KnownFeed
  <2>3. CASE PastAppend("udp") /\ id = thr["udp"].id
    BY <1>0, <1>1, <2>3, PastGoesOn DEF KnownFeed
  <2> QED
    BY <1>2, <2>1, <2>2, <2>3 DEF Apart, BoardParts, UploadsFull, KnownFeed
<1>3. ASSUME NEW i \in Ids, upload' = [upload EXCEPT ![i] = Cleared]
      PROVE  upload'[id] = upload[id]
  BY <1>0, <1>3 DEF Cleared
<1>4. CASE NumberFeed
  <2>1. CASE id # thr["udp"].id
    BY <1>2, <1>4, <2>1, NumberEffect
  <2>2. CASE id = thr["udp"].id /\ thr["udp"].path = 0
    <3>1. Slot.feed # 0 /\ thr'["udp"].id = thr["udp"].id
      BY <1>4, <2>2, PublisherMoves DEF NumberFeed, Apart, BoardParts, UdpKnows
    <3>2. upload'[id] = upload[id]
      BY <1>0, <1>4, <2>2, <3>1, NumberEffect DEF NumberFeed, Slot, Upload
    <3> QED
      BY <1>2, <3>2
  <2>3. CASE id = thr["udp"].id /\ thr["udp"].path # 0
    BY <1>4, <2>3, PublisherMoves DEF NumberFeed, PastAppend, Opens, KnownFeed
  <2> QED
    BY <2>1, <2>2, <2>3
<1>5. CASE WriteFile
  BY <1>2, <1>3, <1>5, LastMoves
<1>6. ASSUME NEW s \in Senders, NEW d \in FreshPayloads, NEW n \in UploadFeeds,
             PrepareUpload(s, n, d)
      PROVE  KnownFeed(id)'
  <2>1. n \in 0..Len(feeds) /\ s.id \in Ids /\ Len(feeds) \in Nat /\ DOMAIN feeds = 1..Len(feeds)
    BY <1>6, SenderTyped, FeedsAssumption, FeedsCount DEF PrepareUpload, NoSuchFeed, TypeInv
  <2>2. \A t \in Threads : ~ PastAppend(t)
    BY <1>6 DEF PrepareUpload, PastAppend, Opens, Threads
  <2>3. n = 0 \/ Full(n)
    BY <2>1, <2>2 DEF Full, Apart, BoardParts, EmptyIsOpened
  <2>4. upload'[id] = upload[id] \/ upload'[id].feed = n
    BY <1>0, <1>6, <2>1 DEF PrepareUpload
  <2> QED
    BY <1>2, <2>3, <2>4, FullKept DEF Full, KnownFeed
<1> QED
  BY <1>2, <1>3, <1>4, <1>5, <1>6, UploadWriters DEF Timeout

LEMMA BoardInvStep ==
  ASSUME TypeInv, SignInv, BoardInv, [Next]_vars
  PROVE  BoardInv'
<1>1. raced' \/ ~ Race'
  <2>1. CASE Next
    <3>1. raced' = (raced \/ Race')
      BY <2>1 DEF Next, Marked
    <3> QED
      BY Zenon, <3>1
  <2>2. CASE UNCHANGED vars
    BY <2>2 DEF vars, BoardInv, Race, Opens, Busy, Moved, Slot
  <2> QED
    BY <2>1, <2>2
<1>2. ASSUME Exact'
      PROVE  BoardParts'
  <2>1. Apart /\ ~ Race'
    BY <1>2, ExactBefore
  <2> QED
    BY <1>2, <2>1, EmptyIsOpenedStep, OpenersOwnStep, TcpOpensStep, UdpOpensStep,
       UdpKnowsStep, PathsStep, UploadsFullStep DEF BoardParts
<1> QED
  BY <1>1, <1>2 DEF BoardInv

(* As long as the threads stay out of each other's way, both may open      *)
(* feeds, and nothing of it shows.                                         *)
THEOREM BoardInvariant == Spec => []BoardInv
<1>1. TypeInv /\ SignInv /\ BoardInv /\ [Next]_vars => BoardInv'
  BY BoardInvStep
<1> QED
  BY InitBoardInv, <1>1, TypeCorrect, SignInvariant, PTL DEF Spec

(* No feed stays without a post, whichever thread opens it and whatever    *)
(* the other does meanwhile, except after the races the model marks, when  *)
(* a loop has ended or when there are more feeds than numbers.             *)
THEOREM NoFeedIsOrphan == Spec => []NoOrphanFeed
<1>1. TypeInv /\ BoardInv => NoOrphanFeed
  <2> SUFFICES ASSUME BoardInv, \A t \in Threads : thr[t].pc = "idle", ~ raced,
                      Len(feeds) < U16, NEW f \in DOMAIN feeds, feeds[f].posts = <<>>
               PROVE  FALSE
    BY DEF NoOrphanFeed
  <2>1. Exact
    BY DEF Exact
  <2>2. \E t \in Threads : PastAppend(t)
    BY <2>1 DEF BoardInv, BoardParts, EmptyIsOpened
  <2> QED
    BY <2>2 DEF PastAppend, Opens
<1> QED
  BY <1>1, TypeCorrect, BoardInvariant, PTL

-----------------------------------------------------------------------------
(* The steps of the server on the board                                    *)

(* What clients see: the feeds, up to the one that is being opened.        *)
VisibleCount == IF Exact /\ Opening THEN Len(feeds) - 1 ELSE Len(feeds)
VisiblePrefix ==
  /\ DOMAIN feeds = 1..Len(feeds) /\ Len(feeds) \in Nat
  /\ VisibleCount \in 0..Len(feeds)
  /\ VisibleFeeds \in Seq(Feed)
  /\ Len(VisibleFeeds) = VisibleCount
  /\ \A f \in 1..VisibleCount : VisibleFeeds[f] = feeds[f]

LEMMA VisibleFacts == TypeInv => VisiblePrefix
<1> SUFFICES ASSUME TypeInv
             PROVE  VisiblePrefix
  OBVIOUS
<1> USE DEF VisiblePrefix
<1>0. feeds \in Seq(Feed)
  BY DEF TypeInv, TypeOK
<1>1. DOMAIN feeds = 1..Len(feeds) /\ Len(feeds) \in Nat
  BY <1>0, LenProperties
<1>2. CASE Exact /\ Opening
  <2>1. Len(feeds) \in Nat \ {0}
    BY <1>0, <1>2, EmptySeq DEF Opening
  <2>2. \A i \in 1..(Len(feeds) - 1) : feeds[i] \in Feed
    BY <1>0, <2>1, ElementOfSeq
  <2>3. /\ VisibleFeeds \in Seq(Feed)
        /\ Len(VisibleFeeds) = Len(feeds) - 1
        /\ \A i \in 1..(Len(feeds) - 1) : VisibleFeeds[i] = feeds[i]
    <3>1. VisibleFeeds = SubSeq(feeds, 1, Len(feeds) - 1)
      BY <1>2 DEF VisibleFeeds
    <3>2. /\ VisibleFeeds \in Seq(Feed)
          /\ Len(VisibleFeeds)
               = IF 1 <= Len(feeds) - 1 THEN Len(feeds) - 1 - 1 + 1 ELSE 0
          /\ \A i \in 1..(Len(feeds) - 1 - 1 + 1) :
               VisibleFeeds[i] = feeds[1 + i - 1]
      BY <2>1, <2>2, <3>1, SubSeqProperties
    <3>3. Len(feeds) - 1 - 1 + 1 = Len(feeds) - 1
      BY <2>1
    <3>4. ASSUME NEW i \in 1..(Len(feeds) - 1)
          PROVE  VisibleFeeds[i] = feeds[i]
      <4>1. 1 + i - 1 = i
        OBVIOUS
      <4>2. VisibleFeeds[i] = feeds[1 + i - 1]
        BY Zenon, <3>2, <3>3
      <4> QED
        BY Zenon, <4>1, <4>2
    <3>5. Len(VisibleFeeds) = Len(feeds) - 1
      <4> DEFINE n == Len(feeds)
                 v == Len(VisibleFeeds)
      <4>1. n \in Nat \ {0} /\ v = IF 1 <= n - 1 THEN n - 1 - 1 + 1 ELSE 0
        BY <2>1, <3>2
      <4> HIDE DEF n, v
      <4>2. v = n - 1
        BY <4>1
      <4> QED
        BY <4>2 DEF n, v
    <3> QED
      BY <3>2, <3>4, <3>5
  <2> QED
    BY <1>1, <1>2, <2>1, <2>3 DEF VisibleCount
<1>3. CASE ~ (Exact /\ Opening)
  <2>1. VisibleFeeds = feeds /\ VisibleCount = Len(feeds)
    BY <1>3 DEF VisibleCount, VisibleFeeds
  <2> QED
    BY <1>0, <1>1, <2>1
<1> QED
  BY <1>2, <1>3

LEMMA VisibleFactsNext == TypeInv' => VisiblePrefix'
BY VisibleFacts, PTL

LEMMA AppendEqual ==
  ASSUME NEW S, NEW s \in Seq(S), NEW u \in Seq(S), NEW x \in S, NEW n \in Nat,
         Len(s) = n, Len(u) = n + 1, \A g \in 1..n : u[g] = s[g], u[n + 1] = x
  PROVE  u = Append(s, x)
<1> DEFINE w == Append(s, x)
<1>1. /\ w \in Seq(S) /\ Len(w) = n + 1 /\ w[n + 1] = x
      /\ \A g \in 1..n : w[g] = s[g]
  BY AppendProperties
<1> HIDE DEF w
<1>2. \A g \in 1..(n + 1) : g \in 1..n \/ g = n + 1
  OBVIOUS
<1>3. \A g \in 1..Len(u) : u[g] = w[g]
  BY <1>1, <1>2
<1>4. u = w
  BY <1>1, <1>3, SeqEqual
<1> QED
  BY <1>4 DEF w

LEMMA FeedWithPosts ==
  ASSUME NEW r \in Feed, NEW x
  PROVE  [r EXCEPT !.posts = x] = [creator |-> r.creator, posts |-> x]
BY DEF Feed

(* Users stay members, and registering makes one.                          *)
LEMMA MembersGrow ==
  ASSUME TypeInv, [Next]_vars
  PROVE  /\ Members \subseteq Members'
         /\ UNCHANGED Members \/ \E p \in Pseudos : Register(p) /\ Members' = Members \cup {p}
<1>1. CASE UNCHANGED users
  BY <1>1 DEF Members
<1>2. ASSUME NEW p \in Pseudos, Register(p)
      PROVE  Members' = Members \cup {p}
  <2>1. PICK id \in Ids :
           /\ DOMAIN users = 1..Len(users) /\ Len(users) \in Nat
           /\ DOMAIN users' = 1..(Len(users) + 1)
           /\ \A i \in 1..Len(users) : users'[i] = users[i]
           /\ users'[Len(users) + 1] = [id |-> id, pseudo |-> p]
    BY <1>2, RegisterEffect
  <2>2. users'[Len(users) + 1].pseudo = p
    BY <2>1
  <2>3. \A i \in DOMAIN users' : i \in DOMAIN users \/ i = Len(users) + 1
    BY <2>1
  <2> QED
    BY <2>1, <2>2, <2>3 DEF Members
<1> QED
  BY <1>1, <1>2, UserWriters

(* A post on a feed of which all is visible.                               *)
LEMMA PostShows ==
  ASSUME TypeInv, TypeInv', NEW t \in Threads, PostNew(t), UNCHANGED Members,
         VisibleCount' = VisibleCount, thr[t].feed \in 1..VisibleCount
  PROVE  \E p \in Deref(thr[t].ptr) :
           B!AddPost(p, thr[t].data, thr[t].feed)
<1> DEFINE f == thr[t].feed
           v == VisibleCount
<1>1. PICK p \in Deref(thr[t].ptr) :
        /\ [pseudo |-> p, data |-> thr[t].data] \in Post
        /\ feeds'[f].posts = Append(feeds[f].posts, [pseudo |-> p, data |-> thr[t].data])
  BY PostNewEffect
<1> DEFINE e == [pseudo |-> p, data |-> thr[t].data]
           h == [creator |-> feeds[f].creator, posts |-> Append(feeds[f].posts, e)]
           w == [VisibleFeeds EXCEPT ![f] = h]
<1>2. /\ f \in DOMAIN feeds /\ DOMAIN feeds' = DOMAIN feeds
      /\ feeds'[f].creator = feeds[f].creator
      /\ \A g \in DOMAIN feeds : g # f => feeds'[g] = feeds[g]
      /\ feeds[f].posts \in Seq(Post)
  BY PostNewEffect
<1>3. feeds[f] \in Feed /\ feeds'[f] \in Feed
  BY <1>2, LenProperties, ElementOfSeq DEF TypeInv, TypeOK
<1>4. feeds'[f] = h /\ h \in Feed
  BY <1>1, <1>2, <1>3 DEF Feed
<1>5. /\ v \in 0..Len(feeds) /\ Len(feeds) \in Nat /\ DOMAIN feeds = 1..Len(feeds)
      /\ VisibleFeeds \in Seq(Feed) /\ Len(VisibleFeeds) = v
      /\ \A g \in 1..v : VisibleFeeds[g] = feeds[g]
  BY VisibleFacts DEF VisiblePrefix
<1>6. /\ VisibleFeeds' \in Seq(Feed) /\ Len(VisibleFeeds') = v
      /\ \A g \in 1..v : VisibleFeeds'[g] = feeds'[g]
  BY VisibleFactsNext DEF VisiblePrefix
<1>7. /\ w \in Seq(Feed) /\ Len(w) = v
      /\ \A g \in 1..v : w[g] = IF g = f THEN h ELSE VisibleFeeds[g]
  <2> HIDE DEF h
  <2> QED
    BY <1>4, <1>5, ExceptSeq
<1>8. \A g \in 1..v : VisibleFeeds'[g] = w[g]
  <2> SUFFICES ASSUME NEW g \in 1..v
               PROVE  VisibleFeeds'[g] = w[g]
    OBVIOUS
  <2>1. g \in DOMAIN feeds /\ VisibleFeeds'[g] = feeds'[g] /\ VisibleFeeds[g] = feeds[g]
    BY <1>5, <1>6
  <2> HIDE DEF h, w
  <2> QED
    BY <1>2, <1>4, <1>7, <2>1
<1>9. VisibleFeeds' = w
  <2> HIDE DEF w
  <2> QED
    BY <1>6, <1>7, <1>8, SeqEqual
<1>10. w = [VisibleFeeds EXCEPT ![f].posts = Append(@, e)]
  <2>1. VisibleFeeds[f] = feeds[f]
    BY <1>5
  <2>2. [feeds[f] EXCEPT !.posts = Append(feeds[f].posts, e)] = h
    BY ONLY <1>3, FeedWithPosts
  <2>3. [VisibleFeeds EXCEPT ![f].posts = Append(@, e)]
          = [VisibleFeeds EXCEPT
               ![f] = [feeds[f] EXCEPT !.posts = Append(feeds[f].posts, e)]]
    BY <2>1
  <2> QED
    BY <2>2, <2>3
<1> QED
  BY <1>5, <1>9, <1>10 DEF B!AddPost

(* The first post on the feed that is being opened.                        *)
LEMMA OpeningShows ==
  ASSUME TypeInv, TypeInv', Apart, Exact', Opening, NEW t \in Threads, PostNew(t),
         UNCHANGED Members, thr[t].feed = Len(feeds),
         feeds[Len(feeds)].creator = thr[t].ptr.pseudo,
         Deref(thr[t].ptr) = {thr[t].ptr.pseudo}, thr[t].ptr.pseudo \in Members
  PROVE  B!OpenFeed(thr[t].ptr.pseudo, thr[t].data)
<1> DEFINE n == Len(feeds)
           p == thr[t].ptr.pseudo
           e == [pseudo |-> p, data |-> thr[t].data]
           h == [creator |-> p, posts |-> <<e>>]
<1>1. /\ n \in DOMAIN feeds /\ DOMAIN feeds' = DOMAIN feeds
      /\ feeds'[n].creator = feeds[n].creator
      /\ \A g \in DOMAIN feeds : g # n => feeds'[g] = feeds[g]
      /\ e \in Post
      /\ feeds'[n].posts = Append(feeds[n].posts, e)
  BY PostNewEffect
<1>2. feeds[n].posts = <<>>
  BY DEF Opening
<1>3. feeds'[n].posts = <<e>>
  <2>1. Append(<<>>, e) = <<e>>
    OBVIOUS
  <2> QED
    BY <1>1, <1>2, <2>1
<1>4. feeds'[n] \in Feed
  BY <1>1, LenProperties, ElementOfSeq DEF TypeInv, TypeOK
<1>5. feeds'[n] = h /\ h \in Feed
  BY <1>1, <1>3, <1>4 DEF Feed
<1>6. /\ n \in Nat /\ DOMAIN feeds = 1..n /\ VisibleCount = n - 1
      /\ VisibleFeeds \in Seq(Feed) /\ Len(VisibleFeeds) = n - 1
      /\ \A g \in 1..(n - 1) : VisibleFeeds[g] = feeds[g]
  <2>1. VisibleCount = n - 1
    BY DEF VisibleCount, Apart
  <2> QED
    BY <2>1, VisibleFacts DEF VisiblePrefix
<1>7. n \in 1..n
  BY <1>1, <1>6
<1>8. Len(feeds') = n
  <2>1. DOMAIN feeds' = 1..Len(feeds') /\ Len(feeds') \in Nat
    BY LenProperties DEF TypeInv, TypeOK
  <2> DEFINE m == Len(feeds')
  <2>2. m \in Nat /\ n \in Nat /\ 1..m = 1..n
    BY Zenon, <1>1, <1>6, <2>1
  <2> HIDE DEF m, n
  <2>3. m = n
    BY <2>2, IntervalLength
  <2> QED
    BY Zenon, <2>3 DEF m
<1>9. VisibleCount' = n
  <2>1. <<e>> # <<>>
    OBVIOUS
  <2>2. ~ Opening'
    BY <1>3, <1>8, <2>1 DEF Opening
  <2> QED
    BY <1>8, <2>2 DEF VisibleCount
<1>10. /\ VisibleFeeds' \in Seq(Feed) /\ Len(VisibleFeeds') = n
       /\ \A g \in 1..n : VisibleFeeds'[g] = feeds'[g]
  BY <1>9, VisibleFactsNext DEF VisiblePrefix
<1>11. VisibleFeeds' = Append(VisibleFeeds, h)
  <2> DEFINE k == n - 1
             r == VisibleFeeds
             v == VisibleFeeds'
             q == feeds'
  <2>1. n \in Nat \ {0}
    BY <1>6, <1>7
  <2>2. k \in Nat /\ n = k + 1 /\ k + 1 \in 1..(k + 1)
    <3> HIDE DEF n
    <3> QED
      BY <2>1
  <2>3. \A g \in 1..k : g \in 1..(k + 1) /\ g # k + 1
    <3> HIDE DEF k
    <3> QED
      BY <2>2
  <2>4. /\ r \in Seq(Feed) /\ Len(r) = k /\ h \in Feed
        /\ v \in Seq(Feed) /\ Len(v) = k + 1
    BY Zenon, <1>5, <1>6, <1>10, <2>2
  <2>5. v[k + 1] = h
    BY Zenon, <1>5, <1>10, <2>2
  <2>6. \A g \in 1..k : v[g] = r[g]
    <3> SUFFICES ASSUME NEW g \in 1..k
                 PROVE  v[g] = r[g]
      OBVIOUS
    <3>1. g \in 1..n /\ g # n
      BY Zenon, <2>2, <2>3
    <3>2. q[g] = feeds[g]
      BY Zenon, <1>1, <1>6, <3>1
    <3>3. v[g] = q[g]
      BY Zenon, <1>10, <3>1
    <3>4. r[g] = feeds[g]
      BY Zenon, <1>6
    <3> QED
      BY Zenon, <3>2, <3>3, <3>4
  <2>7. v = Append(r, h)
    <3> HIDE DEF k, r, v, h, q
    <3> QED
      BY <2>2, <2>4, <2>5, <2>6, AppendEqual
  <2> QED
    BY Zenon, <2>7
<1> QED
  BY <1>11 DEF B!OpenFeed

(* An empty feed that shows.                                               *)
LEMMA EmptyShows ==
  ASSUME TypeInv, TypeInv', [Next]_vars, VisibleCount' = VisibleCount + 1,
         feeds'[VisibleCount + 1].posts = <<>>,
         \A g \in 1..VisibleCount : feeds'[g] = feeds[g]
  PROVE  \E p \in Pseudos : B!OpenEmpty(p)
<1> DEFINE v == VisibleCount
           h == feeds'[v + 1]
<1>1. /\ v \in Nat /\ VisibleFeeds \in Seq(Feed) /\ Len(VisibleFeeds) = v
      /\ \A g \in 1..v : VisibleFeeds[g] = feeds[g]
  BY VisibleFacts DEF VisiblePrefix
<1>2. /\ VisibleFeeds' \in Seq(Feed) /\ Len(VisibleFeeds') = v + 1
      /\ \A g \in 1..(v + 1) : VisibleFeeds'[g] = feeds'[g]
  BY VisibleFactsNext DEF VisiblePrefix
<1>3. v + 1 \in 1..(v + 1) /\ \A g \in 1..(v + 1) : g \in 1..v \/ g = v + 1
  BY <1>1
<1>4. h \in Feed
  BY <1>2, <1>3, ElementOfSeq
<1>5. h.creator \in Pseudos /\ h = [creator |-> h.creator, posts |-> <<>>]
  BY <1>4 DEF Feed
<1>6. VisibleFeeds' = Append(VisibleFeeds, h)
  <2> DEFINE r == VisibleFeeds
             u == VisibleFeeds'
             q == feeds'
  <2>1. \A g \in 1..v : g \in 1..(v + 1)
    BY <1>1
  <2>2. \A g \in 1..v : u[g] = r[g]
    <3> SUFFICES ASSUME NEW g \in 1..v
                 PROVE  u[g] = r[g]
      OBVIOUS
    <3>1. u[g] = q[g]
      BY Zenon, <1>2, <2>1
    <3>2. q[g] = feeds[g] /\ r[g] = feeds[g]
      BY Zenon, <1>1
    <3> QED
      BY Zenon, <3>1, <3>2
  <2>3. u[v + 1] = h
    BY Zenon, <1>2, <1>3
  <2>4. /\ v \in Nat /\ r \in Seq(Feed) /\ Len(r) = v /\ h \in Feed
        /\ u \in Seq(Feed) /\ Len(u) = v + 1
    BY Zenon, <1>1, <1>2, <1>4
  <2>5. u = Append(r, h)
    <3> HIDE DEF v, r, u, h, q
    <3> QED
      BY <2>2, <2>3, <2>4, AppendEqual
  <2> QED
    BY Zenon, <2>5
<1>7. Members \subseteq Members'
  BY MembersGrow
<1>8. VisibleFeeds' = Append(VisibleFeeds, [creator |-> h.creator, posts |-> <<>>])
  BY <1>5, <1>6
<1> QED
  BY <1>5, <1>7, <1>8 DEF B!OpenEmpty

LEMMA AppendCounts ==
  ASSUME TypeInv, [Next]_vars, NEW t \in Threads, FeedAppend(t)
  PROVE  Len(feeds') = Len(feeds) + 1
<1>1. Len(feeds) \in Nat /\ Len(feeds) + 1 \in Nat
  BY FeedsCount
<1> QED
  BY <1>1, FeedAppendEffect, FeedsCount, IntervalLength

(* What a post does to the feed that is being opened.                      *)
LEMMA PostCounts ==
  ASSUME TypeInv, TypeInv', NEW t \in Threads, PostNew(t)
  PROVE  /\ Len(feeds') = Len(feeds)
         /\ Opening' <=> Opening /\ thr[t].feed # Len(feeds)
<1>1. /\ DOMAIN feeds = 1..Len(feeds) /\ Len(feeds) \in Nat
      /\ DOMAIN feeds' = 1..Len(feeds') /\ Len(feeds') \in Nat
  BY LenProperties DEF TypeInv, TypeOK
<1>2. Len(feeds') = Len(feeds)
  <2> DEFINE m == Len(feeds')
             n == Len(feeds)
  <2>1. m \in Nat /\ n \in Nat /\ 1..m = 1..n
    BY Zenon, <1>1, PostNewEffect
  <2> HIDE DEF m, n
  <2>2. m = n
    BY <2>1, IntervalLength
  <2> QED
    BY Zenon, <2>2 DEF m, n
<1> DEFINE n == Len(feeds)
           f == thr[t].feed
<1>3. PICK s \in Seq(Post), e \in Post : feeds'[f].posts = Append(s, e)
  BY PostNewEffect
<1>4. feeds'[f].posts # <<>>
  <2>1. Append(s, e) # <<>>
    BY AppendProperties
  <2> QED
    BY Zenon, <1>3, <2>1
<1>5. f \in 1..n /\ n \in 1..n
  <2>1. f \in 1..n /\ n \in Nat
    BY Zenon, <1>1, PostNewEffect
  <2> HIDE DEF n, f
  <2> QED
    BY <2>1
<1>6. feeds # <<>> /\ feeds' # <<>>
  <2>1. feeds \in Seq(Feed) /\ feeds' \in Seq(Feed) /\ n # 0
    <3>1. f \in 1..n /\ n \in Nat
      BY Zenon, <1>1, <1>5
    <3> HIDE DEF n, f
    <3>2. n # 0
      BY <3>1
    <3> QED
      BY <3>2 DEF TypeInv, TypeOK
  <2>2. Len(feeds') # 0
    BY Zenon, <1>2, <2>1
  <2> QED
    BY <2>1, <2>2, EmptySeq
<1>7. n # f => feeds'[n] = feeds[n]
  BY Zenon, <1>1, <1>5, PostNewEffect
<1>8. Opening <=> feeds[n].posts = <<>>
  BY Zenon, <1>6 DEF Opening
<1>9. Opening' <=> feeds'[n].posts = <<>>
  BY Zenon, <1>2, <1>6 DEF Opening
<1> QED
  BY Zenon, <1>2, <1>4, <1>7, <1>8, <1>9

LEMMA PostNoRace ==
  ASSUME TypeInv, ~ Race, NEW t \in Threads, PostNew(t)
  PROVE  ~ Race'
<1>1. "tcp" \in Threads /\ "udp" \in Threads
  BY DEF Threads
<1>2. /\ thr'[t].pc \in {"reply", "write"} /\ Busy(t)
      /\ thr'[t].id = thr[t].id /\ thr'[t].ptr = thr[t].ptr
      /\ \A u \in Threads : u # t => thr'[u] = thr[u]
  BY PostNewMoves DEF AfterPost, Busy
<1>3. ~ Opens(t)' /\ ~ (thr'[t].pc = "post")
  BY <1>2 DEF Opens
<1>4. ~ (Opens("udp")' /\ thr'["tcp"].pc = "post")
  BY <1>3 DEF Threads
<1>5. ~ (Busy("udp")' /\ (Moved("udp")' \/ ~ Slot'.active))
  <2>1. UNCHANGED <<usersCap, upload>>
    BY DEF PostNew
  <2>2. /\ Busy("udp")' => Busy("udp")
        /\ thr'["udp"].id = thr["udp"].id /\ thr'["udp"].ptr = thr["udp"].ptr
    BY <1>1, <1>2 DEF Busy
  <2> QED
    BY <2>1, <2>2 DEF Race, Moved, Slot
<1> QED
  BY <1>3, <1>4, <1>5 DEF Race

(* A post goes to a feed that shows, or to the one its thread has opened.  *)
LEMMA PostsAreSeen ==
  ASSUME Apart, NEW t \in Threads, PostNew(t)
  PROVE  Full(thr[t].feed) \/ PastAppend(t)
<1> SUFFICES ASSUME ~ PastAppend(t)
             PROVE  Full(thr[t].feed)
  OBVIOUS
<1>1. thr[t].pc = "post" /\ thr[t].feed \in DOMAIN feeds
  BY DEF PostNew
<1>2. CASE t = "udp"
  <2>1. thr["udp"].path = 0
    BY <1>1, <1>2 DEF PastAppend, Opens
  <2> QED
    BY <1>1, <1>2, <2>1 DEF Apart, BoardParts, UdpKnows
<1>3. CASE t = "tcp"
  <2> SUFFICES ASSUME feeds[thr[t].feed].posts = <<>>
               PROVE  FALSE
    BY <1>1 DEF Full
  <2>1. PICK u \in Threads : PastAppend(u)
    BY <1>1 DEF Apart, BoardParts, EmptyIsOpened
  <2>2. Opens("udp")
    BY <1>3, <2>1 DEF Threads, PastAppend
  <2> QED
    BY <1>1, <1>3, <2>2 DEF Apart, Race
<1> QED
  BY <1>2, <1>3 DEF Threads

(* What is posted may be on the board.                                     *)
LEMMA PostMakers ==
  ASSUME TypeInv, NEW t \in Threads, PostNew(t)
  PROVE  /\ thr[t].data \in Payloads \cup {Nameless}
         /\ Deref(thr[t].ptr) \subseteq Pseudos
         /\ Busy(t) /\ UNCHANGED Members
<1>1. thr[t].pc = "post" /\ Busy(t) /\ UNCHANGED users
  BY DEF PostNew, Busy
<1>2. thr[t] \in Thread /\ thr[t].data # None /\ thr[t].ptr \in Pointer
  BY <1>1 DEF TypeInv, TypeOK
<1> QED
  BY <1>1, <1>2, DerefTyped DEF Thread, Members

BoardStep == B!BoardNext \/ UNCHANGED B!boardVars

LEMMA FeedsSame ==
  ASSUME TypeInv, [Next]_vars, Exact, Exact', VisibleFeeds' = VisibleFeeds
  PROVE  BoardStep
<1>1. Exact' = Exact
  BY DEF Exact
<1>2. CASE UNCHANGED Members
  BY <1>1, <1>2 DEF BoardStep, B!boardVars
<1>3. ASSUME NEW p \in Pseudos, Members' = Members \cup {p}
      PROVE  B!Join(p)
  BY <1>3 DEF B!Join
<1> QED
  BY <1>2, <1>3, MembersGrow DEF BoardStep, B!BoardNext, B!Kept

(* As long as the board is exact, a step of the threads is one of its      *)
(* operations, or is not seen.                                             *)
LEMMA ExactStep ==
  ASSUME TypeInv, SignInv, BoardInv, [Next]_vars, Exact'
  PROVE  BoardStep
<1>1. Apart /\ Exact /\ ~ Race /\ TypeInv'
  BY ExactBefore, TypeInvStep DEF Apart
<1>2. CASE UNCHANGED feeds
  <2>1. VisibleFeeds' = VisibleFeeds
    BY <1>1, <1>2 DEF VisibleFeeds, Opening
  <2> QED
    BY <1>1, <2>1, FeedsSame
<1>3. ASSUME NEW t \in Threads, FeedAppend(t)
      PROVE  BoardStep
  <2> DEFINE n == Len(feeds)
  <2>1. /\ n \in Nat /\ DOMAIN feeds = 1..n /\ Len(feeds') = n + 1
        /\ \A f \in 1..n : feeds'[f] = feeds[f]
        /\ feeds'[n + 1].posts = <<>>
    BY Zenon, <1>3, AppendCounts, FeedAppendEffect
  <2>2. ~ Opening /\ VisibleCount = n
    <3>1. n # 0 => n \in 1..n
      BY <2>1
    <3>2. feeds # <<>> => n # 0
      BY EmptySeq DEF TypeInv, TypeOK
    <3>3. ~ Opening
      BY Zenon, <1>1, <1>3, <2>1, <3>1, <3>2, AppendAlone DEF Opening
    <3> QED
      BY Zenon, <3>3 DEF VisibleCount
  <2>3. Opening' /\ VisibleCount' = n
    <3>1. (n + 1) - 1 = n /\ n + 1 # 0
      BY <2>1
    <3>2. feeds' # <<>>
      <4>1. Len(feeds') # 0
        BY Zenon, <2>1, <3>1
      <4> QED
        BY <1>1, <4>1, EmptySeq DEF TypeInv, TypeOK
    <3>3. Opening'
      BY Zenon, <2>1, <3>2 DEF Opening
    <3> QED
      BY Zenon, <2>1, <3>1, <3>3 DEF VisibleCount
  <2>4. /\ VisibleFeeds \in Seq(Feed) /\ Len(VisibleFeeds) = n
        /\ VisibleFeeds' \in Seq(Feed) /\ Len(VisibleFeeds') = n
        /\ \A f \in 1..n : VisibleFeeds'[f] = VisibleFeeds[f]
    BY Zenon, <1>1, <2>1, <2>2, <2>3, VisibleFacts, VisibleFactsNext DEF VisiblePrefix
  <2>5. VisibleFeeds' = VisibleFeeds
    <3> DEFINE u == VisibleFeeds'
               v == VisibleFeeds
    <3>1. /\ v \in Seq(Feed) /\ Len(v) = n /\ u \in Seq(Feed) /\ Len(u) = n
          /\ \A f \in 1..n : u[f] = v[f]
      BY Zenon, <2>4
    <3> HIDE DEF u, v, n
    <3>2. u = v
      BY <3>1, SeqEqual
    <3> QED
      BY Zenon, <3>2 DEF u, v
  <2> QED
    BY <1>1, <2>5, FeedsSame
<1>4. ASSUME NEW t \in Threads, PostNew(t)
      PROVE  BoardStep
  <2> DEFINE p == thr[t].ptr.pseudo
             d == thr[t].data
             f == thr[t].feed
             n == Len(feeds)
  <2>1. /\ d \in Payloads \cup {Nameless} /\ UNCHANGED Members
        /\ Deref(thr[t].ptr) = {p} /\ p \in Members /\ p \in Pseudos
    BY <1>1, <1>4, PostMakers, GoodPointer
  <2>2. /\ n \in Nat /\ DOMAIN feeds = 1..n /\ f \in 1..n /\ VisibleCount \in 0..n
    BY <1>4, VisibleFacts DEF VisiblePrefix, PostNew
  <2>3. Len(feeds') = n /\ (Opening' <=> Opening /\ f # n)
    BY <1>1, <1>4, PostCounts
  <2>4. CASE Opening /\ f = n
    <3>1. PastAppend(t)
      BY <1>1, <1>4, <2>4, PostsAreSeen DEF Full, Opening
    <3>2. feeds[n].creator = p
      BY <1>1, <3>1 DEF Apart, BoardParts, OpenersOwn
    <3>3. B!OpenFeed(p, d)
      BY <1>1, <1>4, <2>1, <2>4, <3>2, OpeningShows
    <3> QED
      BY <1>1, <2>1, <3>3 DEF BoardStep, B!BoardNext, B!Kept
  <2>5. CASE ~ (Opening /\ f = n)
    <3>1. VisibleCount' = VisibleCount
      BY Zenon, <1>1, <2>3, <2>5 DEF VisibleCount
    <3>2. f \in 1..VisibleCount
      <4>1. VisibleCount = IF Opening THEN n - 1 ELSE n
        BY Zenon, <1>1 DEF VisibleCount
      <4> HIDE DEF n, f
      <4> QED
        BY <2>2, <2>5, <4>1
    <3>3. PICK q \in Deref(thr[t].ptr) : B!AddPost(q, d, f)
      BY <1>1, <1>4, <2>1, <3>1, <3>2, PostShows
    <3>4. q \in Members /\ f \in 1..Len(VisibleFeeds)
      BY <2>1, <3>3 DEF B!AddPost
    <3> QED
      BY <1>1, <2>1, <3>3, <3>4 DEF BoardStep, B!BoardNext, B!Kept
  <2> QED
    BY <2>4, <2>5
<1> QED
  BY <1>2, <1>3, <1>4, FeedsWriters

(* Afterwards the board only grows.                                        *)
LEMMA LooseStep ==
  ASSUME TypeInv, SignInv, BoardInv, [Next]_vars, ~ Exact'
  PROVE  BoardStep
<1> DEFINE n == Len(feeds)
<1>1. /\ TypeInv' /\ n \in Nat /\ DOMAIN feeds = 1..n /\ Members \subseteq Members'
  BY TypeInvStep, VisibleFacts, MembersGrow DEF VisiblePrefix
<1>2. VisibleFeeds' = feeds' /\ VisibleCount' = Len(feeds')
  BY DEF VisibleFeeds, VisibleCount
<1>3. ASSUME NEW p \in Pseudos, B!OpenEmpty(p)
      PROVE  BoardStep
  BY <1>3 DEF BoardStep, B!BoardNext, B!OnlyGrows
<1>4. ASSUME NEW t \in Threads, PostNew(t), VisibleCount = n
      PROVE  BoardStep
  <2>1. VisibleCount' = VisibleCount
    BY Zenon, <1>1, <1>2, <1>4, PostCounts
  <2>2. thr[t].feed \in 1..VisibleCount /\ UNCHANGED Members
    BY <1>1, <1>4, PostMakers DEF PostNew
  <2>3. PICK p \in Deref(thr[t].ptr) : B!AddPost(p, thr[t].data, thr[t].feed)
    BY <1>1, <1>4, <2>1, <2>2, PostShows
  <2>4. /\ p \in Pseudos /\ thr[t].data \in Payloads \cup {Nameless}
        /\ thr[t].feed \in 1..Len(VisibleFeeds)
    BY <1>4, <2>3, PostMakers DEF B!AddPost
  <2> QED
    BY <2>3, <2>4 DEF BoardStep, B!BoardNext, B!OnlyGrows
<1>5. CASE ~ (Exact /\ Opening)
  <2>1. VisibleFeeds = feeds /\ VisibleCount = n
    BY <1>5 DEF VisibleFeeds, VisibleCount
  <2>2. CASE UNCHANGED feeds
    BY <1>1, <1>2, <2>1, <2>2 DEF BoardStep, B!BoardNext, B!OnlyGrows
  <2>3. ASSUME NEW t \in Threads, FeedAppend(t)
        PROVE  BoardStep
    <3>1. /\ VisibleCount' = VisibleCount + 1 /\ feeds'[VisibleCount + 1].posts = <<>>
          /\ \A g \in 1..VisibleCount : feeds'[g] = feeds[g]
      BY Zenon, <1>1, <1>2, <2>1, <2>3, AppendCounts, FeedAppendEffect
    <3>2. \E p \in Pseudos : B!OpenEmpty(p)
      BY Zenon, <1>1, <3>1, EmptyShows
    <3> QED
      BY <1>3, <3>2
  <2> QED
    BY <1>4, <2>1, <2>2, <2>3, FeedsWriters
<1>6. CASE Exact /\ Opening
  <2>1. Apart
    BY <1>6 DEF Apart, BoardInv, Exact
  <2>2. n \in 1..n /\ VisibleCount + 1 = n /\ VisibleCount = n - 1
    <3>1. feeds # <<>> /\ VisibleCount = n - 1
      BY <1>6 DEF Opening, VisibleCount
    <3>2. n # 0
      BY <3>1, EmptySeq DEF TypeInv, TypeOK
    <3> HIDE DEF n
    <3> QED
      BY <1>1, <3>1, <3>2
  <2>3. CASE UNCHANGED feeds
    <3>1. /\ VisibleCount' = VisibleCount + 1 /\ feeds'[VisibleCount + 1].posts = <<>>
          /\ \A g \in 1..VisibleCount : feeds'[g] = feeds[g]
      BY Zenon, <1>2, <1>6, <2>2, <2>3 DEF Opening
    <3>2. \E p \in Pseudos : B!OpenEmpty(p)
      BY Zenon, <1>1, <3>1, EmptyShows
    <3> QED
      BY <1>3, <3>2
  <2>4. ASSUME NEW t \in Threads, FeedAppend(t)
        PROVE  FALSE
    BY <1>1, <1>6, <2>1, <2>2, <2>4, AppendAlone DEF Opening
  <2>5. ASSUME NEW t \in Threads, PostNew(t)
        PROVE  FALSE
    <3>1. ~ Race' /\ Len(feeds') = n
      BY <1>1, <2>1, <2>5, PostNoRace, PostCounts DEF Apart
    <3>2. ~ raced'
      <4>1. CASE Next
        BY <1>6, <3>1, <4>1 DEF Next, Marked, Exact
      <4>2. CASE UNCHANGED vars
        BY <1>6, <4>2 DEF vars, Exact
      <4> QED
        BY <4>1, <4>2
    <3>3. \A u \in Threads : thr'[u].pc # "dead"
      BY <1>6, <2>5, PostNewMoves DEF AfterPost, Exact
    <3> QED
      BY <1>6, <3>1, <3>2, <3>3 DEF Exact
  <2> QED
    BY <2>3, <2>4, <2>5, FeedsWriters
<1> QED
  BY <1>5, <1>6

(* The server implements the message board, for every number of users,     *)
(* feeds and requests, with both threads opening feeds, slots cleared      *)
(* under the UDP thread, arrays moving and the disk failing: exactly until *)
(* one of the races happens, and without losing a post after it.           *)
THEOREM FeedsImplementBoard == Spec => ImplementsBoard
<1>1. Init => B!BoardInit
  <2> SUFFICES ASSUME Init
               PROVE  Members = {} /\ VisibleFeeds = <<>>
    BY DEF B!BoardInit
  <2>1. users = <<>> /\ feeds = <<>>
    BY DEF Init
  <2> QED
    BY <2>1 DEF Members, VisibleFeeds, Opening
<1>2. TypeInv /\ SignInv /\ BoardInv /\ [Next]_vars => [B!BoardNext]_(B!boardVars)
  <2> SUFFICES ASSUME TypeInv, SignInv, BoardInv, [Next]_vars
               PROVE  BoardStep
    BY DEF BoardStep
  <2> QED
    BY ExactStep, LooseStep
<1> QED
  BY <1>1, <1>2, TypeCorrect, SignInvariant, BoardInvariant, PTL
     DEF Spec, ImplementsBoard, B!BoardSpec
-----------------------------------------------------------------------------
(* The answer to a request for posts                                       *)

Listed(s) == s \in Seq({s[i] : i \in DOMAIN s})

(* As much of the types as last_posts_request needs: it serves requests of *)
(* its own on the thread that Feeds has for others.                        *)
FeedsShaped ==
  /\ Listed(feeds)
  /\ \A f \in DOMAIN feeds : "posts" \in DOMAIN feeds[f] /\ Listed(feeds[f].posts)
Shaped == FeedsShaped /\ DOMAIN thr = Threads /\ "pc" \in DOMAIN thr["tcp"]

WalkFields == {"pc", "asked", "count", "feed", "last", "cap", "all", "n", "next", "read",
               "out", "seen"}
AtFeed == {"test", "count", "start", "get", "copy"}
Walking == rd.pc \in AtFeed \cup {"feed", "answer"}

WalkTyped ==
  /\ DOMAIN rd = WalkFields
  /\ rd.asked \in Nat /\ rd.count \in Nat /\ rd.feed \in Nat /\ rd.last \in Nat
  /\ rd.n \in Nat /\ rd.next \in Nat /\ rd.all \in BOOLEAN
  /\ Listed(rd.out)
  /\ DOMAIN rd.seen = 1..Len(rd.seen) /\ Len(rd.seen) \in Nat

(* Feeds and posts only become more while a request is answered.           *)
SeenThere ==
  \A f \in DOMAIN rd.seen : /\ f \in DOMAIN feeds /\ rd.seen[f] \in Nat
                            /\ rd.seen[f] <= Len(feeds[f].posts)

(* The walk goes over feeds there were, and over all that were asked for.  *)
WalkBounds ==
  /\ rd.feed >= 1 /\ rd.last <= Len(rd.seen)
  /\ rd.asked # 0 => rd.last = rd.asked /\ rd.asked \in DOMAIN rd.seen
  /\ rd.asked = 0 /\ Len(rd.seen) < U16 => rd.last = Len(rd.seen)
  /\ rd.pc \in AtFeed => rd.feed <= rd.last
  /\ rd.pc = "answer" => rd.feed > rd.last

(* The posts still to copy are there, are the last of those that were      *)
(* there when they were counted, and are as many as were asked for.        *)
Passed == IF rd.pc = "copy" THEN rd.next - 1 ELSE rd.next
CountFits ==
  /\ rd.pc = "count" /\ ~ rd.all => rd.count # 0 /\ rd.count <= Len(Posts)
  /\ rd.pc = "start" => rd.n <= Len(Posts) /\ rd.n >= Wanted(rd.feed)
  /\ rd.pc = "copy" => rd.n >= 1 /\ rd.next >= 1
  /\ rd.pc \in {"get", "copy"} => /\ Passed + rd.n <= Len(Posts)
                                  /\ Passed + rd.n >= rd.seen[rd.feed]

(* What is copied of the feed at hand, and the feeds before it.            *)
RunSoFar ==
  \E from, n \in 0..Len(rd.out), first \in 0..Len(Posts) :
    /\ IsRun(rd.feed, from, n, first)
    /\ from + n = Len(rd.out) /\ first + n = Passed /\ n + rd.n >= Wanted(rd.feed)
OutBefore ==
  \A i \in DOMAIN rd.out :
    /\ rd.out[i].feed \in Nat /\ rd.out[i].feed <= rd.feed
    /\ rd.pc \notin {"get", "copy"} => rd.out[i].feed # rd.feed
Copies ==
  /\ OutBefore
  /\ rd.pc \in {"get", "copy"} => RunSoFar
  /\ \A f \in AskedFeedSet : f < rd.feed => HasRun(f)

WalkInv == WalkTyped /\ SeenThere /\ WalkBounds /\ CountFits /\ (Intact => Copies)
LPInv == Shaped /\ (Walking => WalkInv)

LEMMA ListedOf ==
  ASSUME NEW s, Listed(s)
  PROVE  DOMAIN s = 1..Len(s) /\ Len(s) \in Nat
BY LenProperties DEF Listed

LEMMA ListedAppend ==
  ASSUME NEW s, Listed(s), NEW x
  PROVE  /\ Listed(Append(s, x)) /\ Len(Append(s, x)) = Len(s) + 1
         /\ DOMAIN Append(s, x) = 1..(Len(s) + 1)
         /\ \A i \in DOMAIN s : Append(s, x)[i] = s[i]
         /\ Append(s, x)[Len(s) + 1] = x
<1> DEFINE S == {s[i] : i \in DOMAIN s}
           t == Append(s, x)
<1>1. DOMAIN s = 1..Len(s) /\ Len(s) \in Nat
  BY ListedOf
<1>2. s \in Seq(S)
  BY DEF Listed
<1>3. s \in Seq(S \cup {x})
  BY <1>2
<1>4. /\ t \in Seq(S \cup {x}) /\ Len(t) = Len(s) + 1
      /\ \A i \in 1..Len(s) : t[i] = s[i]
      /\ t[Len(s) + 1] = x
  BY <1>3, AppendProperties
<1>5. DOMAIN t = 1..(Len(s) + 1)
  BY <1>4, LenProperties
<1> HIDE DEF t
<1>6. S \cup {x} = {t[i] : i \in DOMAIN t}
  <2>1. \A i \in DOMAIN t : i \in DOMAIN s \/ i = Len(s) + 1
    BY <1>1, <1>5
  <2>2. Len(s) + 1 \in DOMAIN t /\ \A i \in DOMAIN s : i \in DOMAIN t
    BY <1>1, <1>5
  <2> QED
    BY <1>1, <1>4, <2>1, <2>2
<1>7. Listed(t)
  BY <1>4, <1>6 DEF Listed
<1> QED
  BY <1>1, <1>4, <1>5, <1>7 DEF t

LEMMA PostsListed ==
  ASSUME Shaped, NEW f \in DOMAIN feeds
  PROVE  DOMAIN feeds[f].posts = 1..Len(feeds[f].posts) /\ Len(feeds[f].posts) \in Nat
BY ListedOf DEF Shaped, FeedsShaped

(* Nothing is taken out of a feed, or put anywhere but at its end.         *)
Grown ==
  \A f \in DOMAIN feeds :
    /\ f \in DOMAIN feeds'
    /\ Len(feeds[f].posts) <= Len(feeds'[f].posts)
    /\ \A i \in DOMAIN feeds[f].posts : /\ i \in DOMAIN feeds'[f].posts
                                        /\ feeds'[f].posts[i] = feeds[f].posts[i]
LEMMA FeedsGrow ==
  ASSUME Shaped, [Next]_vars
  PROVE  Grown /\ FeedsShaped'
<1>1. Listed(feeds) /\ DOMAIN feeds = 1..Len(feeds) /\ Len(feeds) \in Nat
  BY ListedOf DEF Shaped, FeedsShaped
<1>2. \A f \in DOMAIN feeds : /\ "posts" \in DOMAIN feeds[f] /\ Listed(feeds[f].posts)
                              /\ Len(feeds[f].posts) \in Nat
                              /\ DOMAIN feeds[f].posts = 1..Len(feeds[f].posts)
  BY ListedOf DEF Shaped, FeedsShaped
<1>3. CASE UNCHANGED feeds
  <2>1. Grown
    BY <1>2, <1>3 DEF Grown
  <2>2. FeedsShaped'
    BY <1>3 DEF Shaped, FeedsShaped, Listed
  <2> QED
    BY <2>1, <2>2
<1>4. ASSUME NEW t \in Threads, FeedAppend(t)
      PROVE  Grown /\ FeedsShaped'
  <2>1. PICK p \in Deref(thr[t].ptr) :
          feeds' = Append(feeds, [creator |-> p, posts |-> <<>>])
    BY <1>4 DEF FeedAppend
  <2> DEFINE x == [creator |-> p, posts |-> <<>>]
  <2>2. "posts" \in DOMAIN x /\ x.posts = <<>> /\ Listed(<<>>)
    BY EmptySeq DEF Listed
  <2> HIDE DEF x
  <2>3. /\ Listed(feeds') /\ DOMAIN feeds' = 1..(Len(feeds) + 1)
        /\ \A i \in DOMAIN feeds : feeds'[i] = feeds[i]
        /\ feeds'[Len(feeds) + 1] = x
    BY <1>1, <2>1, ListedAppend DEF x
  <2>4. \A f \in DOMAIN feeds' : f \in DOMAIN feeds \/ f = Len(feeds) + 1
    BY <1>1, <2>3
  <2>5. FeedsShaped'
    <3>1. \A f \in DOMAIN feeds' : "posts" \in DOMAIN feeds'[f] /\ Listed(feeds'[f].posts)
      <4>1. \A f \in DOMAIN feeds : "posts" \in DOMAIN feeds[f] /\ Listed(feeds[f].posts)
        BY DEF Shaped, FeedsShaped
      <4> QED
        BY <2>2, <2>3, <2>4, <4>1
    <3>2. Listed(feeds')
      BY <2>3
    <3> HIDE DEF Listed
    <3> QED
      BY <3>1, <3>2 DEF FeedsShaped, Listed
  <2>6. \A f \in DOMAIN feeds : f \in DOMAIN feeds'
    BY <1>1, <2>3
  <2>7. Grown
    BY <1>2, <2>3, <2>6 DEF Grown
  <2> QED
    BY <2>5, <2>7
<1>5. ASSUME NEW t \in Threads, PostNew(t)
      PROVE  Grown /\ FeedsShaped'
  <2> DEFINE k == thr[t].feed
  <2>1. k \in DOMAIN feeds
    BY <1>5 DEF PostNew
  <2>2. PICK p \in Deref(thr[t].ptr) :
          feeds' = [feeds EXCEPT ![k].posts = Append(@, [pseudo |-> p, data |-> thr[t].data])]
    BY <1>5 DEF PostNew
  <2> DEFINE x == [pseudo |-> p, data |-> thr[t].data]
             y == Append(feeds[k].posts, x)
             r == [feeds[k] EXCEPT !.posts = y]
  <2>3. feeds' = [feeds EXCEPT ![k] = r]
    BY <2>2
  <2> HIDE DEF x, k
  <2>4. /\ Listed(y) /\ Len(y) = Len(feeds[k].posts) + 1
        /\ DOMAIN y = 1..(Len(feeds[k].posts) + 1)
        /\ \A i \in DOMAIN feeds[k].posts : y[i] = feeds[k].posts[i]
    BY <1>2, <2>1, ListedAppend
  <2> HIDE DEF y
  <2>5. r.posts = y /\ "posts" \in DOMAIN r
    BY <1>2, <2>1
  <2> HIDE DEF r
  <2>6. /\ DOMAIN feeds' = DOMAIN feeds /\ feeds'[k] = r
        /\ \A f \in DOMAIN feeds : f # k => feeds'[f] = feeds[f]
    BY <2>1, <2>3
  <2>7. Listed(feeds')
    <3> DEFINE S == {feeds'[i] : i \in DOMAIN feeds'}
    <3>1. feeds' \in [1..Len(feeds) -> S]
      BY <1>1, <2>3, <2>6
    <3> HIDE DEF S
    <3>2. feeds' \in Seq(S)
      BY <1>1, <3>1
    <3> QED
      BY <3>2 DEF Listed, S
  <2>8. FeedsShaped'
    <3>1. \A f \in DOMAIN feeds' : "posts" \in DOMAIN feeds'[f] /\ Listed(feeds'[f].posts)
      <4> SUFFICES ASSUME NEW f \in DOMAIN feeds'
                   PROVE  "posts" \in DOMAIN feeds'[f] /\ Listed(feeds'[f].posts)
        OBVIOUS
      <4>1. CASE f = k
        BY <2>4, <2>5, <2>6, <4>1
      <4>2. CASE f # k
        <5>1. feeds'[f] = feeds[f]
          BY <2>6, <4>2
        <5> QED
          BY <1>2, <2>6, <5>1
      <4> QED
        BY <4>1, <4>2
    <3> QED
      BY <2>7, <3>1 DEF FeedsShaped, Listed
  <2>9. Grown
    <3> SUFFICES ASSUME NEW f \in DOMAIN feeds
                 PROVE  /\ Len(feeds[f].posts) <= Len(feeds'[f].posts)
                        /\ \A i \in DOMAIN feeds[f].posts :
                             /\ i \in DOMAIN feeds'[f].posts
                             /\ feeds'[f].posts[i] = feeds[f].posts[i]
      BY <2>6 DEF Grown
    <3>1. CASE f = k
      <4>1. feeds'[f].posts = y
        BY <2>5, <2>6, <3>1
      <4> QED
        BY <1>2, <2>4, <3>1, <4>1
    <3>2. CASE f # k
      BY <1>2, <2>6, <3>2
    <3> QED
      BY <3>1, <3>2
  <2> QED
    BY <2>8, <2>9
<1> QED
  BY <1>3, <1>4, <1>5, FeedsWriters

LEMMA AimsOnce ==
  ASSUME Aim, DOMAIN thr = Threads
  PROVE  \E x : thr' = [thr EXCEPT !["udp"] = x]
<1> DEFINE x == [thr["udp"] EXCEPT !.feed = Slot.feed, !.data = Slot.data, !.pc = "post"]
<1>1. thr' = [thr EXCEPT !["udp"] = x]
  BY DEF Aim, Threads
<1> QED
  BY Zenon, <1>1

(* The other requests do not touch the walk of this one.                   *)
LEMMA WalkLeftAlone ==
  ASSUME Shaped, [Next]_vars
  PROVE  /\ DOMAIN thr' = Threads /\ "pc" \in DOMAIN thr'["tcp"]
         /\ rd' = rd \/ ~ Walking'
<1>1. /\ DOMAIN thr = Threads /\ "tcp" \in Threads /\ "udp" \in Threads /\ "tcp" # "udp"
      /\ "pc" \in DOMAIN thr["tcp"]
  BY DEF Shaped, Threads
<1>2. "pc" \in DOMAIN Idle /\ Idle.pc = "idle"
  BY DEF Idle
<1>3. CASE thr' = thr
  BY <1>1, <1>3 DEF rd
<1>4. ASSUME NEW x, thr' = [thr EXCEPT !["udp"] = x]
      PROVE  DOMAIN thr' = Threads /\ thr'["tcp"] = thr["tcp"]
  BY <1>1, <1>4
<1>5. ASSUME NEW x, thr' = [thr EXCEPT !["tcp"] = x], "pc" \in DOMAIN x,
             x.pc \notin AtFeed \cup {"feed", "answer"}
      PROVE  DOMAIN thr' = Threads /\ "pc" \in DOMAIN thr'["tcp"] /\ ~ Walking'
  BY <1>1, <1>5 DEF rd, Walking
<1> DEFINE Fine == /\ DOMAIN thr' = Threads /\ "pc" \in DOMAIN thr'["tcp"]
                   /\ rd' = rd \/ ~ Walking'
<1>6. ASSUME NEW t \in Threads, NEW l,
             l \notin AtFeed \cup {"feed", "answer"}, thr' = Goto(t, l)
      PROVE  Fine
  <2> DEFINE x == [thr[t] EXCEPT !.pc = l]
  <2>1. thr' = [thr EXCEPT ![t] = x]
    BY <1>6 DEF Goto
  <2>2. CASE t = "udp"
    BY <1>1, <1>4, <2>1, <2>2 DEF rd
  <2>3. CASE t = "tcp"
    <3>1. "pc" \in DOMAIN x /\ x.pc = l
      BY <1>1, <2>3
    <3> HIDE DEF x
    <3> QED
      BY <1>5, <1>6, <2>1, <2>3, <3>1
  <2> QED
    BY <2>2, <2>3 DEF Threads
<1>7. ASSUME NEW t \in Threads, FeedNew(t) \/ PostNew(t) \/ PostNowhere(t)
      PROVE  Fine
  <2>1. AfterFeedNew(t) \notin AtFeed \cup {"feed", "answer"}
        /\ AfterPost(t) \notin AtFeed \cup {"feed", "answer"}
    BY DEF AfterFeedNew, AfterPost, AtFeed
  <2>2. CASE FeedAppend(t) \/ Mkdir(t) \/ MkdirFails(t) \/ PostNew(t)
    <3>1. \E l \in {"path", "dead", AfterFeedNew(t), AfterPost(t)} : thr' = Goto(t, l)
      BY <2>2 DEF FeedAppend, Mkdir, MkdirFails, PostNew
    <3> QED
      BY <1>6, <2>1, <3>1 DEF AtFeed
  <2>3. CASE FeedPath(t)
    <3>1. PICK l \in {"mkdir", AfterFeedNew(t)} :
            thr' = [thr EXCEPT ![t].path = Len(feeds), ![t].pc = l]
      <4>1. CASE DirExists(Len(feeds))
        BY <2>3, <4>1 DEF FeedPath
      <4>2. CASE ~ DirExists(Len(feeds))
        BY <2>3, <4>2 DEF FeedPath
      <4> QED
        BY <4>1, <4>2
    <3> DEFINE x == [thr[t] EXCEPT !.path = Len(feeds), !.pc = l]
    <3>2. thr' = [thr EXCEPT ![t] = x]
      BY <1>1, <3>1
    <3>3. CASE t = "udp"
      BY <1>1, <1>4, <3>2, <3>3 DEF rd
    <3>4. CASE t = "tcp"
      <4>1. "pc" \in DOMAIN x /\ x.pc = l
        BY <1>1, <3>4
      <4>2. l \notin AtFeed \cup {"feed", "answer"}
        BY <2>1 DEF AtFeed
      <4> HIDE DEF x
      <4> QED
        BY <1>5, <3>2, <3>4, <4>1, <4>2
    <3> QED
      BY <3>3, <3>4 DEF Threads
  <2>4. CASE PostNowhere(t)
    BY <1>3, <2>4, <1>1 DEF PostNowhere
  <2> QED
    BY <1>7, <2>2, <2>3, <2>4 DEF FeedNew
<1>8. CASE Requests
  <2>1. CASE thr' = thr
    BY <1>1, <1>3, <2>1
  <2>2. ASSUME NEW s, NEW n, NEW d, StartPost(s, n, d)
        PROVE  Fine
    <3> DEFINE x == [pc   |-> IF n = 0 THEN "append" ELSE "post",
                     id   |-> s.id,
                     ptr  |-> PseudoPointer(s.id),
                     feed |-> IF n = 0 THEN NextFeedNumber(Len(feeds)) ELSE n,
                     data |-> d,
                     path |-> 0]
    <3>1. thr' = [thr EXCEPT !["tcp"] = x]
      BY <2>2 DEF StartPost
    <3>2. "pc" \in DOMAIN x /\ x.pc \in {"append", "post"}
      OBVIOUS
    <3> HIDE DEF x
    <3> QED
      BY <1>5, <3>1, <3>2 DEF AtFeed
  <2>3. ASSUME NEW id, StartPublish(id)
        PROVE  Fine
    <3>1. \E x : thr' = [thr EXCEPT !["udp"] = x]
      BY <2>3 DEF StartPublish
    <3> QED
      BY <1>1, <1>4, <3>1 DEF rd
  <2>4. \/ thr' = thr \/ \E id : StartPublish(id)
        \/ \E s, n, d : StartPost(s, n, d)
    BY <1>8 DEF Requests, Register, RefusePost, PrepareUpload, Timeout
  <2> QED
    BY <2>1, <2>2, <2>3, <2>4
<1>9. CASE ReplyPost
  <2>1. thr' = [thr EXCEPT !["tcp"] = Idle]
    BY <1>9 DEF ReplyPost
  <2> QED
    BY <1>2, <1>5, <2>1 DEF AtFeed
<1>10. CASE ReadTarget \/ NumberFeed \/ Aim \/ WriteFile \/ WriteFileFails
  <2>1. \E x : thr' = [thr EXCEPT !["udp"] = x]
    BY <1>10, <1>1, AimsOnce DEF ReadTarget, NumberFeed, WriteFile, WriteFileFails, Goto
  <2> QED
    BY <1>1, <1>4, <2>1 DEF rd
<1>11. CASE UNCHANGED vars
  BY <1>1, <1>3, <1>11 DEF vars
<1> QED
  BY <1>7, <1>8, <1>9, <1>10, <1>11 DEF Next, Marked, TcpStep, UdpStep, Threads

-----------------------------------------------------------------------------
(* What is copied stays as it is                                           *)

SameRequest == /\ rd'.asked = rd.asked /\ rd'.count = rd.count
               /\ rd'.last = rd.last /\ rd'.seen = rd.seen

(* Nothing but posts of feed g is added to the answer.                     *)
OutGrown(g) ==
  /\ Len(rd.out) <= Len(rd'.out) /\ Len(rd'.out) \in Nat
  /\ \A i \in DOMAIN rd.out : i \in DOMAIN rd'.out /\ rd'.out[i] = rd.out[i]
  /\ \A i \in DOMAIN rd'.out : i \in DOMAIN rd.out \/ rd'.out[i].feed = g

LEMMA RunKept ==
  ASSUME Grown, NEW f \in DOMAIN feeds, NEW g, OutGrown(g), f # g,
         NEW from \in Nat, NEW n \in Nat, NEW first \in Nat, IsRun(f, from, n, first)
  PROVE  IsRun(f, from, n, first)'
<1>1. {i \in DOMAIN rd'.out : rd'.out[i].feed = f} = {i \in DOMAIN rd.out : rd.out[i].feed = f}
  BY DEF OutGrown
<1>2. \A i \in 1..n : from + i \in DOMAIN rd.out
  <2>1. \A i \in 1..n : from + i \in (from + 1)..(from + n)
    OBVIOUS
  <2> QED
    BY <2>1 DEF IsRun
<1>3. \A i \in 1..n : /\ first + i \in DOMAIN feeds'[f].posts
                      /\ rd'.out[from + i].data = feeds'[f].posts[first + i].data
  BY <1>2 DEF IsRun, Grown, OutGrown
<1> QED
  BY <1>1, <1>3 DEF IsRun

LEMMA HasRunKept ==
  ASSUME Grown, Shaped, Shaped', NEW f \in DOMAIN feeds, NEW g, OutGrown(g), f # g,
         Len(rd.out) \in Nat, SameRequest, HasRun(f)
  PROVE  HasRun(f)'
<1>1. PICK from \in 0..Len(rd.out), n \in 0..Len(rd.out),
           first \in 0..Len(feeds[f].posts) :
        IsRun(f, from, n, first) /\ first + n >= rd.seen[f] /\ n >= Wanted(f)
  BY DEF HasRun
<1>2. IsRun(f, from, n, first)'
  <2>1. from \in Nat /\ n \in Nat /\ first \in Nat
    OBVIOUS
  <2> QED
    BY <1>1, <2>1, RunKept
<1>3. from \in 0..Len(rd'.out) /\ n \in 0..Len(rd'.out)
  BY DEF OutGrown
<1>4. first \in 0..Len(feeds'[f].posts)
  <2>1. f \in DOMAIN feeds' /\ Len(feeds[f].posts) <= Len(feeds'[f].posts)
    BY DEF Grown
  <2>2. Len(feeds[f].posts) \in Nat /\ Len(feeds'[f].posts) \in Nat
    BY <2>1, PostsListed
  <2> QED
    BY <2>1, <2>2
<1>5. rd'.seen[f] = rd.seen[f] /\ Wanted(f)' = Wanted(f)
  BY DEF SameRequest, Wanted
<1> QED
  BY <1>1, <1>2, <1>3, <1>4, <1>5 DEF HasRun

LEMMA FeedAsked ==
  ASSUME Shaped, WalkInv, rd.feed <= rd.last
  PROVE  /\ rd.feed \in DOMAIN rd.seen /\ rd.feed \in DOMAIN feeds
         /\ rd.seen[rd.feed] \in Nat /\ rd.seen[rd.feed] <= Len(Posts)
         /\ Len(Posts) \in Nat /\ DOMAIN Posts = 1..Len(Posts)
         /\ Wanted(rd.feed) \in Nat /\ Wanted(rd.feed) <= rd.seen[rd.feed]
<1>1. rd.feed \in DOMAIN rd.seen
  BY DEF WalkInv, WalkTyped, WalkBounds
<1>2. /\ rd.feed \in DOMAIN feeds /\ rd.seen[rd.feed] \in Nat
      /\ rd.seen[rd.feed] <= Len(Posts)
  BY <1>1 DEF WalkInv, SeenThere, Posts
<1>3. Len(Posts) \in Nat /\ DOMAIN Posts = 1..Len(Posts)
  BY <1>2, PostsListed DEF Posts
<1>4. Wanted(rd.feed) \in Nat /\ Wanted(rd.feed) <= rd.seen[rd.feed]
  BY <1>2 DEF Wanted, WalkInv, WalkTyped
<1> QED
  BY <1>1, <1>2, <1>3, <1>4

LEMMA OutSame ==
  ASSUME WalkTyped, rd'.out = rd.out, NEW g
  PROVE  OutGrown(g)
<1>1. Len(rd.out) \in Nat
  BY ListedOf DEF WalkTyped
<1> QED
  BY <1>1 DEF OutGrown

LEMMA PastKept ==
  ASSUME Shaped, Shaped', WalkInv, Grown, SameRequest, OutGrown(rd.feed),
         \A f \in AskedFeedSet : f < rd.feed => HasRun(f)
  PROVE  /\ AskedFeedSet' = AskedFeedSet
         /\ \A f \in AskedFeedSet : f < rd.feed => HasRun(f)'
<1>1. AskedFeedSet' = AskedFeedSet
  BY DEF AskedFeedSet, SameRequest
<1>2. AskedFeedSet \subseteq DOMAIN rd.seen /\ DOMAIN rd.seen \subseteq Nat
  BY DEF AskedFeedSet, WalkInv, WalkBounds, WalkTyped
<1>3. Len(rd.out) \in Nat /\ rd.feed \in Nat
  BY ListedOf DEF WalkInv, WalkTyped
<1>4. ASSUME NEW f \in AskedFeedSet, f < rd.feed
      PROVE  HasRun(f)'
  <2>1. f \in DOMAIN feeds /\ f # rd.feed
    BY <1>2, <1>3, <1>4 DEF WalkInv, SeenThere
  <2> QED
    BY <1>3, <1>4, <2>1, HasRunKept
<1> QED
  BY <1>1, <1>4

LEMMA RunSoFarKept ==
  ASSUME Shaped, Shaped', WalkInv, Grown, SameRequest, rd'.out = rd.out,
         rd'.feed = rd.feed, rd.feed \in DOMAIN feeds, Passed' = Passed, rd'.n = rd.n,
         RunSoFar
  PROVE  RunSoFar'
<1>1. PICK from \in 0..Len(rd.out), n \in 0..Len(rd.out), first \in 0..Len(Posts) :
        /\ IsRun(rd.feed, from, n, first)
        /\ from + n = Len(rd.out) /\ first + n = Passed /\ n + rd.n >= Wanted(rd.feed)
  BY DEF RunSoFar
<1> PICK k : k = rd.feed
  OBVIOUS
<1>2. IsRun(k, from, n, first)'
  <2>1. from \in Nat /\ n \in Nat /\ first \in Nat
    OBVIOUS
  <2>2. k \in Nat /\ k # k + 1
    BY DEF WalkInv, WalkTyped
  <2>3. OutGrown(k + 1)
    BY OutSame DEF WalkInv
  <2> QED
    BY <1>1, <2>1, <2>2, <2>3, RunKept
<1>3. first \in 0..Len(Posts')
  <2>1. k \in DOMAIN feeds' /\ Len(feeds[k].posts) <= Len(feeds'[k].posts)
    BY DEF Grown
  <2>2. Len(feeds[k].posts) \in Nat /\ Len(feeds'[k].posts) \in Nat
    BY <2>1, PostsListed
  <2> QED
    BY <2>1, <2>2 DEF Posts
<1>4. Wanted(k)' = Wanted(k)
  BY DEF SameRequest, Wanted
<1> QED
  BY <1>1, <1>2, <1>3, <1>4 DEF RunSoFar

LEMMA WalkGoesOn ==
  ASSUME Shaped, Shaped', WalkInv, Grown, SameRequest, DOMAIN rd' = WalkFields,
         rd'.feed \in Nat, rd'.n \in Nat, rd'.next \in Nat, rd'.all \in BOOLEAN,
         Listed(rd'.out)
  PROVE  WalkTyped' /\ SeenThere'
<1>1. WalkTyped'
  BY DEF WalkInv, WalkTyped, SameRequest, Listed
<1>2. SeenThere'
  <2> SUFFICES ASSUME NEW f \in DOMAIN rd.seen
               PROVE  /\ f \in DOMAIN feeds' /\ rd.seen[f] \in Nat
                      /\ rd.seen[f] <= Len(feeds'[f].posts)
    BY DEF SeenThere, SameRequest
  <2>1. /\ f \in DOMAIN feeds /\ rd.seen[f] \in Nat
        /\ rd.seen[f] <= Len(feeds[f].posts)
    BY DEF WalkInv, SeenThere
  <2>2. f \in DOMAIN feeds' /\ Len(feeds[f].posts) <= Len(feeds'[f].posts)
    BY <2>1 DEF Grown
  <2>3. Len(feeds[f].posts) \in Nat /\ Len(feeds'[f].posts) \in Nat
    BY <2>1, <2>2, PostsListed
  <2> QED
    BY <2>1, <2>2, <2>3
<1> QED
  BY <1>1, <1>2

-----------------------------------------------------------------------------
(* The steps                                                               *)

LEMMA OthersGoOn ==
  ASSUME LPInv, [Next]_vars
  PROVE  LPInv'
<1>1. Shaped /\ Shaped' /\ Grown
  BY FeedsGrow, WalkLeftAlone DEF LPInv, Shaped
<1>2. SUFFICES ASSUME Walking' PROVE WalkInv'
  BY <1>1 DEF LPInv
<1>3. rd' = rd
  BY <1>1, <1>2, WalkLeftAlone
<1>4. Walking /\ WalkInv
  BY <1>2, <1>3 DEF LPInv, Walking
<1>5. SameRequest
  BY <1>3 DEF SameRequest
<1>6. WalkTyped' /\ SeenThere'
  <2>1. /\ DOMAIN rd' = WalkFields /\ rd'.feed \in Nat /\ rd'.n \in Nat
        /\ rd'.next \in Nat /\ rd'.all \in BOOLEAN /\ Listed(rd'.out)
    BY <1>3, <1>4 DEF WalkInv, WalkTyped
  <2> QED
    BY <1>1, <1>4, <1>5, <2>1, WalkGoesOn
<1>7. WalkBounds'
  BY <1>3, <1>4 DEF WalkInv, WalkBounds
<1>8. CountFits'
  <2>1. CASE rd.pc \notin AtFeed
    BY <1>3, <2>1 DEF CountFits, AtFeed
  <2>2. CASE rd.pc \in AtFeed
    <3>1. rd.feed \in DOMAIN feeds /\ Len(Posts) \in Nat
      BY <1>1, <1>4, <2>2, FeedAsked DEF WalkInv, WalkBounds
    <3>2. Len(Posts) <= Len(Posts') /\ Len(Posts') \in Nat
      <4>1. rd.feed \in DOMAIN feeds' /\ Len(feeds[rd.feed].posts) <= Len(feeds'[rd.feed].posts)
        BY <1>1, <3>1 DEF Grown
      <4>2. Len(feeds'[rd.feed].posts) \in Nat
        BY <1>1, <4>1, PostsListed
      <4> QED
        BY <1>3, <4>1, <4>2 DEF Posts
    <3>3. Wanted(rd.feed)' = Wanted(rd.feed) /\ Passed' = Passed
      BY <1>3 DEF Wanted, Passed
    <3>4. rd.n \in Nat /\ rd.next \in Nat /\ rd.count \in Nat /\ CountFits
      BY <1>4 DEF WalkInv, WalkTyped
    <3>5. Passed \in Int
      BY <3>4 DEF Passed
    <3> QED
      BY <1>3, <3>1, <3>2, <3>3, <3>4, <3>5 DEF CountFits
  <2> QED
    BY <2>1, <2>2
<1>9. Intact' => Copies'
  <2> SUFFICES ASSUME Intact' PROVE Copies'
    OBVIOUS
  <2>1. Copies
    BY <1>3, <1>4 DEF WalkInv, Intact
  <2>2. OutBefore'
    BY <1>3, <2>1 DEF Copies, OutBefore
  <2>3. rd'.pc \in {"get", "copy"} => RunSoFar'
    <3> SUFFICES ASSUME rd.pc \in {"get", "copy"} PROVE RunSoFar'
      BY <1>3
    <3>1. rd.feed \in DOMAIN feeds
      BY <1>1, <1>4, FeedAsked DEF WalkInv, WalkBounds, AtFeed
    <3>2. Passed' = Passed /\ rd'.n = rd.n /\ rd'.out = rd.out /\ rd'.feed = rd.feed
      BY <1>3 DEF Passed
    <3> QED
      BY <1>1, <1>4, <1>5, <2>1, <3>1, <3>2, RunSoFarKept DEF Copies
  <2>4. \A f \in AskedFeedSet' : f < rd'.feed => HasRun(f)'
    <3>1. OutGrown(rd.feed)
      BY <1>3, <1>4, OutSame DEF WalkInv
    <3> QED
      BY <1>1, <1>3, <1>4, <1>5, <2>1, <3>1, PastKept DEF Copies
  <2> QED
    BY <2>2, <2>3, <2>4 DEF Copies
<1> QED
  BY <1>6, <1>7, <1>8, <1>9 DEF WalkInv

LEMMA TakesStep ==
  ASSUME Shaped, NEW x, "pc" \in DOMAIN x, thr' = TcpIn(x), Reads
  PROVE  rd' = x /\ Shaped' /\ Grown
<1>1. UNCHANGED feeds
  BY DEF Reads, dataVars
<1>2. rd' = x /\ DOMAIN thr' = Threads /\ "pc" \in DOMAIN thr'["tcp"]
  BY DEF Shaped, TcpIn, Threads, rd
<1>3. FeedsShaped'
  BY <1>1 DEF Shaped, FeedsShaped, Listed
<1>4. Grown
  BY <1>1, PostsListed DEF Grown
<1> QED
  BY <1>2, <1>3, <1>4 DEF Shaped

SameWalk == SameRequest /\ DOMAIN rd' = WalkFields /\ rd'.feed = rd.feed /\ rd'.out = rd.out

(* A step that stays at a feed.                                            *)
LEMMA StaysAtFeed ==
  ASSUME Shaped, Shaped', Grown, Walking, WalkInv, SameWalk, rd.feed <= rd.last,
         rd'.pc \in AtFeed, rd.pc \in {"get", "copy"} => rd'.pc \in {"get", "copy"},
         rd'.n \in Nat, rd'.next \in Nat, rd'.all \in BOOLEAN, CountFits',
         Intact /\ Copies /\ rd'.pc \in {"get", "copy"} => RunSoFar'
  PROVE  LPInv'
<1>1. SameRequest /\ rd'.feed = rd.feed /\ rd'.out = rd.out /\ DOMAIN rd' = WalkFields
  BY DEF SameWalk
<1>2. WalkTyped' /\ SeenThere'
  BY <1>1, WalkGoesOn DEF WalkInv, WalkTyped
<1>3. WalkBounds'
  BY <1>1 DEF WalkInv, WalkBounds, SameRequest, AtFeed
<1>4. ASSUME Intact' PROVE Copies'
  <2>1. Intact /\ Copies
    BY <1>1, <1>4 DEF WalkInv, Intact
  <2>2. OutBefore'
    BY <1>1, <2>1 DEF Copies, OutBefore
  <2>3. OutGrown(rd.feed)
    BY <1>1, OutSame DEF WalkInv
  <2>4. \A f \in AskedFeedSet' : f < rd'.feed => HasRun(f)'
    BY <1>1, <2>1, <2>3, PastKept DEF Copies
  <2> QED
    BY <2>1, <2>2, <2>4 DEF Copies
<1> QED
  BY <1>2, <1>3, <1>4 DEF LPInv, WalkInv

LEMMA GetFeedGoesOn ==
  ASSUME Shaped, Walking, WalkInv, GetFeed
  PROVE  LPInv'
<1> DEFINE x == [Walk("test") EXCEPT !.cap = Cap(Len(feeds))]
<1>1. rd.pc = "feed" /\ rd.feed <= rd.last /\ thr' = TcpIn(x) /\ Reads
  BY DEF GetFeed
<1>2. /\ DOMAIN x = WalkFields /\ x.pc = "test"
      /\ x.asked = rd.asked /\ x.count = rd.count /\ x.last = rd.last /\ x.seen = rd.seen
      /\ x.feed = rd.feed /\ x.out = rd.out /\ x.n = rd.n /\ x.next = rd.next /\ x.all = rd.all
  BY DEF Walk, WalkInv, WalkTyped, WalkFields
<1>3. "pc" \in DOMAIN x
  BY <1>2 DEF WalkFields
<1> HIDE DEF x
<1>4. rd' = x /\ Shaped' /\ Grown
  BY <1>1, <1>3, TakesStep
<1>5. SameWalk
  BY <1>2, <1>4 DEF SameWalk, SameRequest
<1>6. CountFits'
  BY <1>2, <1>4 DEF CountFits
<1> QED
  BY <1>1, <1>2, <1>4, <1>5, <1>6, StaysAtFeed DEF WalkInv, WalkTyped, AtFeed

LEMMA TestAllGoesOn ==
  ASSUME Shaped, Walking, WalkInv, TestAll
  PROVE  LPInv'
<1> DEFINE all == rd.count = 0 \/ rd.count > Len(Posts)
           x == [Walk("count") EXCEPT !.all = all]
<1>1. rd.pc = "test" /\ thr' = TcpIn(x) /\ Reads
  BY DEF TestAll
<1>2. all \in BOOLEAN /\ (~ all => rd.count # 0 /\ ~ (rd.count > Len(Posts)))
  OBVIOUS
<1> HIDE DEF all
<1>3. /\ DOMAIN x = WalkFields /\ x.pc = "count" /\ x.all = all
      /\ x.asked = rd.asked /\ x.count = rd.count /\ x.last = rd.last /\ x.seen = rd.seen
      /\ x.feed = rd.feed /\ x.out = rd.out /\ x.n = rd.n /\ x.next = rd.next
  BY DEF Walk, WalkInv, WalkTyped, WalkFields
<1>4. "pc" \in DOMAIN x
  BY <1>3 DEF WalkFields
<1> HIDE DEF x
<1>5. rd' = x /\ Shaped' /\ Grown
  BY <1>1, <1>4, TakesStep
<1>6. SameWalk
  BY <1>3, <1>5 DEF SameWalk, SameRequest
<1>7. rd.feed <= rd.last
  BY <1>1 DEF WalkInv, WalkBounds, AtFeed
<1>8. CountFits'
  <2>1. Posts' = Posts
    BY <1>1, <1>3, <1>5 DEF Posts, Reads, dataVars
  <2>2. Len(Posts) \in Nat /\ rd.count \in Nat
    BY <1>7, FeedAsked DEF WalkInv, WalkTyped
  <2> QED
    BY <1>2, <1>3, <1>5, <2>1, <2>2 DEF CountFits
<1> QED
  BY <1>1, <1>2, <1>3, <1>5, <1>6, <1>7, <1>8, StaysAtFeed DEF WalkInv, WalkTyped, AtFeed

LEMMA CountPostsGoesOn ==
  ASSUME Shaped, Walking, WalkInv, CountPosts
  PROVE  LPInv'
<1> DEFINE n == IF rd.all THEN Len(Posts) ELSE rd.count
           x == [Walk("start") EXCEPT !.n = n]
<1>1. rd.pc = "count" /\ thr' = TcpIn(x) /\ Reads
  BY DEF CountPosts
<1>2. rd.feed <= rd.last
  BY <1>1 DEF WalkInv, WalkBounds, AtFeed
<1>3. n \in Nat /\ n <= Len(Posts) /\ n >= Wanted(rd.feed)
  <2>1. /\ rd.seen[rd.feed] \in Nat /\ rd.seen[rd.feed] <= Len(Posts) /\ Len(Posts) \in Nat
        /\ Wanted(rd.feed) \in Nat /\ Wanted(rd.feed) <= rd.seen[rd.feed]
    BY <1>2, FeedAsked
  <2>2. rd.count \in Nat /\ (~ rd.all => rd.count # 0 /\ rd.count <= Len(Posts))
    BY <1>1 DEF WalkInv, WalkTyped, CountFits
  <2>3. CASE rd.all
    BY <2>1, <2>3
  <2>4. CASE ~ rd.all
    <3>1. Wanted(rd.feed) <= rd.count
      BY <2>1, <2>2, <2>4 DEF Wanted
    <3> QED
      BY <2>1, <2>2, <2>4, <3>1
  <2> QED
    BY <2>3, <2>4
<1> HIDE DEF n
<1>4. /\ DOMAIN x = WalkFields /\ x.pc = "start" /\ x.n = n
      /\ x.asked = rd.asked /\ x.count = rd.count /\ x.last = rd.last /\ x.seen = rd.seen
      /\ x.feed = rd.feed /\ x.out = rd.out /\ x.next = rd.next /\ x.all = rd.all
  BY DEF Walk, WalkInv, WalkTyped, WalkFields
<1>5. "pc" \in DOMAIN x
  BY <1>4 DEF WalkFields
<1> HIDE DEF x
<1>6. rd' = x /\ Shaped' /\ Grown
  BY <1>1, <1>5, TakesStep
<1>7. SameWalk
  BY <1>4, <1>6 DEF SameWalk, SameRequest
<1>8. CountFits'
  <2>1. Posts' = Posts
    BY <1>1, <1>4, <1>6 DEF Posts, Reads, dataVars
  <2>2. rd'.feed = rd.feed /\ Wanted(rd.feed)' = Wanted(rd.feed)
    BY <1>7 DEF SameWalk, SameRequest, Wanted
  <2>3. rd'.pc = "start" /\ rd'.n = n
    BY <1>4, <1>6
  <2> QED
    BY <1>3, <2>1, <2>2, <2>3 DEF CountFits
<1> QED
  BY <1>1, <1>2, <1>3, <1>4, <1>6, <1>7, <1>8, StaysAtFeed DEF WalkInv, WalkTyped, AtFeed

LEMMA FindStartGoesOn ==
  ASSUME Shaped, Walking, WalkInv, FindStart
  PROVE  LPInv'
<1> PICK from : from = Start(Len(Posts), rd.n)
  OBVIOUS
<1> DEFINE x == [Walk("get") EXCEPT !.next = from]
<1>1. rd.pc = "start" /\ thr' = TcpIn(x) /\ Reads
  BY DEF FindStart
<1>2. rd.feed <= rd.last
  BY <1>1 DEF WalkInv, WalkBounds, AtFeed
<1>3. /\ from \in Nat /\ from + rd.n = Len(Posts) /\ rd.n >= Wanted(rd.feed)
      /\ from <= Len(Posts) /\ Len(Posts) \in Nat
      /\ rd.seen[rd.feed] \in Nat /\ rd.seen[rd.feed] <= Len(Posts) /\ rd.n \in Nat
  <2>1. /\ rd.seen[rd.feed] \in Nat /\ rd.seen[rd.feed] <= Len(Posts) /\ Len(Posts) \in Nat
    BY <1>2, FeedAsked
  <2>2. rd.n \in Nat /\ rd.n <= Len(Posts) /\ rd.n >= Wanted(rd.feed)
    BY <1>1 DEF WalkInv, WalkTyped, CountFits
  <2> QED
    BY <2>1, <2>2 DEF Start
<1>4. /\ DOMAIN x = WalkFields /\ x.pc = "get" /\ x.next = from
      /\ x.asked = rd.asked /\ x.count = rd.count /\ x.last = rd.last /\ x.seen = rd.seen
      /\ x.feed = rd.feed /\ x.out = rd.out /\ x.n = rd.n /\ x.all = rd.all
  BY DEF Walk, WalkInv, WalkTyped, WalkFields
<1>5. "pc" \in DOMAIN x
  BY <1>4 DEF WalkFields
<1> HIDE DEF x
<1>6. rd' = x /\ Shaped' /\ Grown
  BY <1>1, <1>5, TakesStep
<1>7. SameWalk
  BY <1>4, <1>6 DEF SameWalk, SameRequest
<1>8. /\ rd'.feed = rd.feed /\ Wanted(rd.feed)' = Wanted(rd.feed) /\ rd'.n = rd.n
      /\ rd'.out = rd.out /\ rd'.pc = "get" /\ Passed' = from /\ rd'.seen = rd.seen
      /\ Posts' = Posts /\ feeds' = feeds
  BY <1>1, <1>4, <1>6, <1>7
     DEF SameWalk, SameRequest, Wanted, Passed, Posts, Reads, dataVars
<1>9. CountFits'
  BY <1>3, <1>8 DEF CountFits
<1>10. ASSUME Intact, Copies PROVE RunSoFar'
  <2>1. \A i \in DOMAIN rd.out : rd.out[i].feed # rd.feed
    BY <1>1, <1>10 DEF Copies, OutBefore
  <2>2. Len(rd.out) \in Nat
    BY ListedOf DEF WalkInv, WalkTyped
  <2> PICK len : len = Len(rd.out)
    OBVIOUS
  <2>3. /\ {i \in DOMAIN rd.out : rd.out[i].feed = rd.feed} = (len + 1)..(len + 0)
        /\ 1..0 = {}
    BY <2>1, <2>2
  <2>4. IsRun(rd.feed, len, 0, from)'
    BY <1>8, <2>3 DEF IsRun
  <2>5. /\ len \in 0..Len(rd'.out) /\ 0 \in 0..Len(rd'.out) /\ from \in 0..Len(Posts')
        /\ len + 0 = Len(rd'.out) /\ from + 0 = Passed' /\ 0 + rd'.n >= Wanted(rd.feed)'
    BY <1>3, <1>8, <2>2
  <2> QED
    BY <2>4, <2>5 DEF RunSoFar
<1> QED
  BY <1>1, <1>2, <1>3, <1>4, <1>6, <1>7, <1>9, <1>10, StaysAtFeed
     DEF WalkInv, WalkTyped, AtFeed

LEMMA GetPostGoesOn ==
  ASSUME Shaped, Walking, WalkInv, GetPost
  PROVE  LPInv'
<1> DEFINE x == [Walk("copy") EXCEPT !.read = Cap(Len(Posts)), !.next = @ + 1]
<1>1. rd.pc = "get" /\ rd.n > 0 /\ thr' = TcpIn(x) /\ Reads
  BY DEF GetPost
<1>2. rd.feed <= rd.last
  BY <1>1 DEF WalkInv, WalkBounds, AtFeed
<1>3. rd.n \in Nat /\ rd.next \in Nat /\ rd.next + 1 \in Nat
  BY DEF WalkInv, WalkTyped
<1>4. /\ DOMAIN x = WalkFields /\ x.pc = "copy" /\ x.next = rd.next + 1
      /\ x.asked = rd.asked /\ x.count = rd.count /\ x.last = rd.last /\ x.seen = rd.seen
      /\ x.feed = rd.feed /\ x.out = rd.out /\ x.n = rd.n /\ x.all = rd.all
  BY DEF Walk, WalkInv, WalkTyped, WalkFields
<1>5. "pc" \in DOMAIN x
  BY <1>4 DEF WalkFields
<1> HIDE DEF x
<1>6. rd' = x /\ Shaped' /\ Grown
  BY <1>1, <1>5, TakesStep
<1>7. SameWalk
  BY <1>4, <1>6 DEF SameWalk, SameRequest
<1>8. Passed' = Passed /\ Passed = rd.next /\ Posts' = Posts
  BY <1>1, <1>3, <1>4, <1>6 DEF Passed, Posts, Reads, dataVars
<1>9. CountFits'
  <2>1. rd.next + rd.n <= Len(Posts) /\ rd.next + rd.n >= rd.seen[rd.feed]
    BY <1>1, <1>8 DEF WalkInv, CountFits
  <2>2. /\ rd'.n = rd.n /\ rd'.feed = rd.feed /\ rd'.seen = rd.seen /\ rd'.pc = "copy"
        /\ rd'.next = rd.next + 1
    BY <1>4, <1>6
  <2> QED
    BY <1>1, <1>3, <1>8, <2>1, <2>2 DEF CountFits
<1>10. ASSUME Copies PROVE RunSoFar'
  <2>1. RunSoFar
    BY <1>1, <1>10 DEF Copies
  <2>2. rd.feed \in DOMAIN feeds
    BY <1>2, FeedAsked
  <2> QED
    BY <1>4, <1>6, <1>7, <1>8, <2>1, <2>2, RunSoFarKept DEF SameWalk
<1> QED
  BY <1>1, <1>2, <1>3, <1>4, <1>6, <1>7, <1>9, <1>10, StaysAtFeed
     DEF WalkInv, WalkTyped, AtFeed

(* What is copied at a feed goes to the end of the answer.                 *)
LEMMA OutAppend ==
  ASSUME WalkTyped, NEW d, rd'.out = Append(rd.out, [feed |-> rd.feed, data |-> d])
  PROVE  /\ OutGrown(rd.feed) /\ Listed(rd'.out)
         /\ Len(rd.out) \in Nat /\ DOMAIN rd.out = 1..Len(rd.out)
         /\ Len(rd'.out) = Len(rd.out) + 1 /\ DOMAIN rd'.out = 1..(Len(rd.out) + 1)
         /\ \A i \in DOMAIN rd.out : rd'.out[i] = rd.out[i]
         /\ rd'.out[Len(rd.out) + 1].feed = rd.feed
         /\ rd'.out[Len(rd.out) + 1].data = d
         /\ Intact' => Intact /\ d # Garbage
<1> DEFINE y == [feed |-> rd.feed, data |-> d]
<1>1. Listed(rd.out) /\ Len(rd.out) \in Nat /\ DOMAIN rd.out = 1..Len(rd.out)
  BY ListedOf DEF WalkTyped
<1>2. y.feed = rd.feed /\ y.data = d
  OBVIOUS
<1> HIDE DEF y
<1>3. /\ Listed(rd'.out) /\ Len(rd'.out) = Len(rd.out) + 1
      /\ DOMAIN rd'.out = 1..(Len(rd.out) + 1)
      /\ \A i \in DOMAIN rd.out : rd'.out[i] = rd.out[i]
      /\ rd'.out[Len(rd.out) + 1] = y
  BY <1>1, ListedAppend DEF y
<1>4. \A i \in DOMAIN rd'.out : i \in DOMAIN rd.out \/ i = Len(rd.out) + 1
  BY <1>1, <1>3
<1>5. (\A i \in DOMAIN rd.out : i \in DOMAIN rd'.out) /\ Len(rd.out) + 1 \in DOMAIN rd'.out
  BY <1>1, <1>3
<1>6. OutGrown(rd.feed)
  BY <1>1, <1>2, <1>3, <1>4, <1>5 DEF OutGrown
<1>7. Intact' => Intact /\ d # Garbage
  BY <1>2, <1>3, <1>5 DEF Intact
<1> QED
  BY <1>1, <1>2, <1>3, <1>6, <1>7

LEMMA CopyPostGoesOn ==
  ASSUME Shaped, Walking, WalkInv, CopyPost
  PROVE  LPInv'
<1> PICK d : d = Copied
  OBVIOUS
<1> DEFINE y == [feed |-> rd.feed, data |-> d]
           x == [Walk("get") EXCEPT !.n = @ - 1, !.out = Append(@, y)]
<1>1. rd.pc = "copy" /\ thr' = TcpIn(x) /\ Reads
  BY DEF CopyPost
<1>2. rd.feed <= rd.last
  BY <1>1 DEF WalkInv, WalkBounds, AtFeed
<1>3. /\ rd.n \in Nat /\ rd.next \in Nat /\ rd.n >= 1 /\ rd.next >= 1
      /\ (rd.next - 1) + rd.n <= Len(Posts) /\ (rd.next - 1) + rd.n >= rd.seen[rd.feed]
      /\ rd.n - 1 \in Nat /\ rd.feed \in Nat
  BY <1>1 DEF WalkInv, WalkTyped, CountFits, Passed
<1>4. /\ DOMAIN x = WalkFields /\ x.pc = "get" /\ x.n = rd.n - 1
      /\ x.asked = rd.asked /\ x.count = rd.count /\ x.last = rd.last /\ x.seen = rd.seen
      /\ x.feed = rd.feed /\ x.out = Append(rd.out, y) /\ x.next = rd.next
      /\ x.all = rd.all
  BY DEF Walk, WalkInv, WalkTyped, WalkFields
<1>5. "pc" \in DOMAIN x
  BY <1>4 DEF WalkFields
<1> HIDE DEF x
<1>6. rd' = x /\ Shaped' /\ Grown
  BY <1>1, <1>5, TakesStep
<1>7. SameRequest /\ rd'.out = Append(rd.out, y)
  BY <1>4, <1>6 DEF SameRequest
<1> PICK F : F = rd.feed
  OBVIOUS
<1>8. /\ OutGrown(rd.feed) /\ Listed(rd'.out)
      /\ Len(rd.out) \in Nat /\ DOMAIN rd.out = 1..Len(rd.out)
      /\ Len(rd'.out) = Len(rd.out) + 1 /\ DOMAIN rd'.out = 1..(Len(rd.out) + 1)
      /\ \A i \in DOMAIN rd.out : rd'.out[i] = rd.out[i]
      /\ rd'.out[Len(rd.out) + 1].feed = F
      /\ rd'.out[Len(rd.out) + 1].data = d
      /\ Intact' => Intact /\ d # Garbage
  BY <1>7, OutAppend DEF WalkInv
<1>9. WalkTyped' /\ SeenThere'
  BY <1>3, <1>4, <1>6, <1>7, <1>8, WalkGoesOn DEF WalkInv, WalkTyped
<1>10. WalkBounds'
  BY <1>2, <1>4, <1>6 DEF WalkInv, WalkBounds, AtFeed
<1>11. /\ rd'.pc = "get" /\ rd'.n = rd.n - 1 /\ rd'.next = rd.next /\ rd'.feed = rd.feed
       /\ rd'.seen = rd.seen /\ rd'.count = rd.count /\ Passed' = rd.next
       /\ Posts' = Posts /\ feeds' = feeds /\ Wanted(F)' = Wanted(F)
  BY <1>1, <1>4, <1>6 DEF Passed, Posts, Wanted, Reads, dataVars
<1>12. /\ rd.seen[rd.feed] \in Nat /\ Len(Posts) \in Nat /\ DOMAIN Posts = 1..Len(Posts)
       /\ Wanted(F) \in Nat
  BY <1>2, FeedAsked
<1>13. CountFits'
  <2> DEFINE a == rd.next
             b == rd.n
             l == Len(Posts)
             s == rd.seen[rd.feed]
  <2>1. a + (b - 1) <= l /\ a + (b - 1) >= s
    <3>1. /\ a \in Nat /\ b \in Nat /\ l \in Nat /\ s \in Nat
          /\ a - 1 + b <= l /\ a - 1 + b >= s
      BY <1>3, <1>12
    <3> HIDE DEF a, b, l, s
    <3> QED
      BY <3>1
  <2>2. Passed' + rd'.n <= Len(Posts') /\ Passed' + rd'.n >= rd'.seen[rd'.feed]
    BY Zenon, <1>11, <2>1
  <2>3. rd'.pc # "count" /\ rd'.pc # "start" /\ rd'.pc # "copy"
    BY <1>11
  <2> QED
    BY Zenon, <2>2, <2>3 DEF CountFits
<1>14. ASSUME Intact' PROVE Copies'
  <2>1. Copies /\ d # Garbage
    BY <1>8, <1>14 DEF WalkInv
  <2>2. d = Posts[rd.next].data
    BY <2>1 DEF Copied
  <2>3. \A i \in DOMAIN rd'.out : i \in DOMAIN rd.out \/ i = Len(rd.out) + 1
    BY <1>8
  <2>4. OutBefore'
    <3>1. \A i \in DOMAIN rd.out : rd.out[i].feed \in Nat /\ rd.out[i].feed <= rd.feed
      BY <2>1 DEF Copies, OutBefore
    <3>2. ASSUME NEW i \in DOMAIN rd'.out
          PROVE  rd'.out[i].feed \in Nat /\ rd'.out[i].feed <= rd.feed
      <4>1. CASE i \in DOMAIN rd.out
        BY <1>8, <3>1, <4>1
      <4>2. CASE i = Len(rd.out) + 1
        BY <1>3, <1>8, <4>2
      <4> QED
        BY <2>3, <4>1, <4>2
    <3> QED
      BY <1>11, <3>2 DEF OutBefore
  <2>5. RunSoFar'
    <3>1. PICK from \in 0..Len(rd.out), n \in 0..Len(rd.out), first \in 0..Len(Posts) :
            /\ IsRun(F, from, n, first)
            /\ from + n = Len(rd.out) /\ first + n = Passed /\ n + rd.n >= Wanted(F)
      BY <1>1, <2>1 DEF Copies, RunSoFar
    <3>2. /\ from \in Nat /\ n \in Nat /\ first \in Nat /\ first <= Len(Posts)
          /\ from + n = Len(rd.out) /\ first + n = rd.next - 1
      BY <1>1, <1>8, <1>12, <3>1 DEF Passed
    <3>3. from + (n + 1) = Len(rd.out) + 1
      BY <3>2
    <3>4. first + (n + 1) = rd.next
      <4> DEFINE a == rd.next
      <4>1. a \in Nat /\ first \in Nat /\ n \in Nat /\ first + n = a - 1
        BY Zenon, <1>3, <3>2
      <4> HIDE DEF a
      <4>2. first + (n + 1) = a
        BY <4>1
      <4> QED
        BY Zenon, <4>2 DEF a
    <3>5. (n + 1) + (rd.n - 1) >= Wanted(F)
      <4> DEFINE b == rd.n
                 w == Wanted(F)
      <4>1. b \in Nat /\ w \in Nat /\ n \in Nat /\ n + b >= w
        BY Zenon, <1>3, <1>12, <3>1, <3>2
      <4> HIDE DEF b, w
      <4>2. (n + 1) + (b - 1) >= w
        BY <4>1
      <4> QED
        BY Zenon, <4>2 DEF b, w
    <3>6. {i \in DOMAIN rd'.out : rd'.out[i].feed = F} = (from + 1)..(from + (n + 1))
      <4>1. {i \in DOMAIN rd.out : rd.out[i].feed = F} = (from + 1)..(from + n)
        BY <3>1 DEF IsRun
      <4>2. {i \in DOMAIN rd'.out : rd'.out[i].feed = F}
              = {i \in DOMAIN rd.out : rd.out[i].feed = F} \cup {Len(rd.out) + 1}
        BY SMTT(30), <1>8, <2>3
      <4>3. (from + 1)..(from + (n + 1)) = ((from + 1)..(from + n)) \cup {from + n + 1}
        OBVIOUS
      <4> QED
        BY <3>1, <4>1, <4>2, <4>3
    <3>7. ASSUME NEW i \in 1..(n + 1)
          PROVE  /\ first + i \in DOMAIN feeds[F].posts
                 /\ rd'.out[from + i].data = feeds[F].posts[first + i].data
      <4>1. CASE i \in 1..n
        <5>1. from + i \in DOMAIN rd.out
          BY <1>8, <3>1, <4>1
        <5> QED
          BY <1>8, <3>1, <4>1, <5>1 DEF IsRun
      <4>2. CASE i = n + 1
        <5>1. from + i = Len(rd.out) + 1 /\ first + i = rd.next
          BY <3>3, <3>4, <4>2
        <5>2. rd.next \in DOMAIN Posts
          <6> DEFINE a == rd.next
                     b == rd.n
                     l == Len(Posts)
          <6>1. /\ a \in Nat /\ b \in Nat /\ l \in Nat /\ a >= 1 /\ b >= 1
                /\ a - 1 + b <= l
            BY <1>3, <1>12
          <6> HIDE DEF a, b, l
          <6>2. a \in 1..l
            BY <6>1
          <6> QED
            BY Zenon, <1>12, <6>2 DEF a, l
        <5> QED
          BY <1>8, <2>2, <5>1, <5>2 DEF Posts
      <4> QED
        BY <4>1, <4>2
    <3>8. IsRun(F, from, n + 1, first)'
      BY <1>11, <3>6, <3>7 DEF IsRun
    <3>9. /\ from \in 0..Len(rd'.out) /\ n + 1 \in 0..Len(rd'.out)
          /\ first \in 0..Len(Posts') /\ from + (n + 1) = Len(rd'.out)
          /\ first + (n + 1) = Passed' /\ (n + 1) + rd'.n >= Wanted(F)'
      <4>1. from \in 0..(Len(rd.out) + 1) /\ n + 1 \in 0..(Len(rd.out) + 1)
        BY <1>8, <3>2
      <4>2. first \in 0..Len(Posts)
        BY <3>1
      <4> QED
        BY <1>8, <1>11, <3>3, <3>4, <3>5, <4>1, <4>2
    <3>10. F = rd'.feed
      BY <1>11
    <3> QED
      BY <3>8, <3>9, <3>10 DEF RunSoFar
  <2>6. \A f \in AskedFeedSet' : f < rd'.feed => HasRun(f)'
    BY <1>6, <1>7, <1>8, <1>11, <2>1, PastKept DEF Copies
  <2> QED
    BY <2>4, <2>5, <2>6 DEF Copies
<1> QED
  BY <1>6, <1>9, <1>10, <1>13, <1>14 DEF LPInv, WalkInv

LEMMA NextFeedGoesOn ==
  ASSUME Shaped, Walking, WalkInv, NextFeed
  PROVE  LPInv'
<1> DEFINE x == [Walk("feed") EXCEPT !.feed = @ + 1]
<1>1. rd.pc = "get" /\ rd.n = 0 /\ thr' = TcpIn(x) /\ Reads
  BY DEF NextFeed
<1>2. rd.feed <= rd.last
  BY <1>1 DEF WalkInv, WalkBounds, AtFeed
<1>3. rd.feed \in Nat /\ rd.next \in Nat /\ rd.n \in Nat /\ rd.all \in BOOLEAN
      /\ Listed(rd.out) /\ WalkTyped
  BY DEF WalkInv, WalkTyped
<1>4. /\ DOMAIN x = WalkFields /\ x.pc = "feed" /\ x.feed = rd.feed + 1
      /\ x.asked = rd.asked /\ x.count = rd.count /\ x.last = rd.last /\ x.seen = rd.seen
      /\ x.out = rd.out /\ x.n = rd.n /\ x.next = rd.next /\ x.all = rd.all
  BY DEF Walk, WalkInv, WalkTyped, WalkFields
<1>5. "pc" \in DOMAIN x
  BY <1>4 DEF WalkFields
<1> HIDE DEF x
<1>6. rd' = x /\ Shaped' /\ Grown
  BY <1>1, <1>5, TakesStep
<1>7. SameRequest /\ rd'.out = rd.out /\ rd'.pc = "feed" /\ rd'.feed = rd.feed + 1
  BY <1>4, <1>6 DEF SameRequest
<1>8. WalkTyped' /\ SeenThere'
  BY <1>3, <1>4, <1>6, <1>7, WalkGoesOn
<1>9. WalkBounds'
  BY <1>3, <1>4, <1>6 DEF WalkInv, WalkBounds, AtFeed
<1>10. CountFits'
  BY <1>7 DEF CountFits
<1>11. ASSUME Intact' PROVE Copies'
  <2>1. Copies
    BY <1>7, <1>11 DEF WalkInv, Intact
  <2>2. OutBefore'
    BY <1>3, <1>7, <2>1 DEF Copies, OutBefore
  <2>3. OutGrown(rd.feed)
    BY <1>3, <1>7, OutSame
  <2>4. /\ AskedFeedSet' = AskedFeedSet
        /\ \A f \in AskedFeedSet : f < rd.feed => HasRun(f)'
    BY <1>6, <1>7, <2>1, <2>3, PastKept DEF Copies
  <2> PICK F : F = rd.feed
    OBVIOUS
  <2>5. HasRun(F)
    <3>1. PICK from \in 0..Len(rd.out), n \in 0..Len(rd.out), first \in 0..Len(Posts) :
            /\ IsRun(F, from, n, first)
            /\ from + n = Len(rd.out) /\ first + n = Passed /\ n + rd.n >= Wanted(F)
      BY <1>1, <2>1 DEF Copies, RunSoFar
    <3>2. Passed + rd.n >= rd.seen[F] /\ Passed = rd.next
      BY <1>1 DEF WalkInv, CountFits, Passed
    <3>3. first + n >= rd.seen[F] /\ n >= Wanted(F)
      BY <1>1, <1>3, <3>1, <3>2
    <3> QED
      BY <3>1, <3>3 DEF HasRun, Posts
  <2>6. HasRun(F)'
    <3>1. F \in DOMAIN feeds /\ F # F + 1
      BY <1>2, <1>3, FeedAsked
    <3>2. OutGrown(F + 1) /\ Len(rd.out) \in Nat
      BY <1>3, <1>7, OutSame, ListedOf
    <3> QED
      BY <1>6, <1>7, <2>5, <3>1, <3>2, HasRunKept
  <2>7. AskedFeedSet \subseteq Nat
    BY DEF AskedFeedSet, WalkInv, WalkTyped
  <2>8. \A f \in AskedFeedSet' : f < rd'.feed => HasRun(f)'
    <3> SUFFICES ASSUME NEW f \in AskedFeedSet, f < rd.feed + 1 PROVE HasRun(f)'
      BY <1>7, <2>4
    <3>1. f < rd.feed \/ f = F
      BY <1>3, <2>7
    <3> QED
      BY <2>4, <2>6, <3>1
  <2> QED
    BY <1>7, <2>2, <2>8 DEF Copies
<1> QED
  BY <1>6, <1>8, <1>9, <1>10, <1>11 DEF LPInv, WalkInv

LEMMA AnswerGoesOn ==
  ASSUME Shaped, Walking, WalkInv, Answer
  PROVE  LPInv'
<1>1. PICK out \in Delivered(rd.out) : thr' = TcpIn([Walk("answer") EXCEPT !.out = out])
  BY DEF Answer
<1> DEFINE x == [Walk("answer") EXCEPT !.out = out]
<1>2. rd.pc = "feed" /\ rd.feed > rd.last /\ thr' = TcpIn(x) /\ Reads
  BY <1>1 DEF Answer
<1>3. /\ rd.feed \in Nat /\ rd.next \in Nat /\ rd.n \in Nat /\ rd.all \in BOOLEAN
      /\ Listed(rd.out) /\ WalkTyped
  BY DEF WalkInv, WalkTyped
<1>4. out = rd.out \/ (Listed(out) /\ \E i \in DOMAIN out : out[i].data = Garbage)
  <2> DEFINE g == [feed |-> 0, data |-> Garbage]
  <2>1. Listed(<<g>>) /\ 1 \in DOMAIN <<g>> /\ <<g>>[1].data = Garbage
    BY DEF Listed
  <2>2. out = rd.out \/ out = <<g>>
    BY DEF Delivered
  <2> HIDE DEF g
  <2> QED
    BY <2>1, <2>2
<1>5. /\ DOMAIN x = WalkFields /\ x.pc = "answer" /\ x.feed = rd.feed
      /\ x.asked = rd.asked /\ x.count = rd.count /\ x.last = rd.last /\ x.seen = rd.seen
      /\ x.out = out /\ x.n = rd.n /\ x.next = rd.next /\ x.all = rd.all
  BY DEF Walk, WalkInv, WalkTyped, WalkFields
<1>6. "pc" \in DOMAIN x
  BY <1>5 DEF WalkFields
<1> HIDE DEF x
<1>7. rd' = x /\ Shaped' /\ Grown
  BY <1>2, <1>6, TakesStep
<1>8. SameRequest /\ rd'.pc = "answer" /\ rd'.feed = rd.feed /\ rd'.out = out
  BY <1>5, <1>7 DEF SameRequest
<1>9. WalkTyped' /\ SeenThere'
  <2>1. Listed(rd'.out)
    BY <1>3, <1>4, <1>8
  <2> QED
    BY <1>3, <1>5, <1>7, <1>8, <2>1, WalkGoesOn
<1>10. WalkBounds'
  BY <1>2, <1>5, <1>7 DEF WalkInv, WalkBounds, AtFeed
<1>11. CountFits'
  BY <1>8 DEF CountFits
<1>12. ASSUME Intact' PROVE Copies'
  <2>1. rd'.out = rd.out
    BY <1>4, <1>8, <1>12 DEF Intact
  <2>2. Copies
    BY <1>12, <2>1 DEF WalkInv, Intact
  <2>3. OutBefore'
    BY <1>2, <1>8, <2>1, <2>2 DEF Copies, OutBefore
  <2>4. OutGrown(rd.feed)
    BY <1>3, <2>1, OutSame
  <2>5. \A f \in AskedFeedSet' : f < rd'.feed => HasRun(f)'
    BY <1>7, <1>8, <2>2, <2>4, PastKept DEF Copies
  <2> QED
    BY <1>8, <2>3, <2>5 DEF Copies
<1> QED
  BY <1>7, <1>9, <1>10, <1>11, <1>12 DEF LPInv, WalkInv

(* An answer that has something of a feed that moved is not intact.        *)
LEMMA StaleFeedGoesOn ==
  ASSUME Shaped, Walking, WalkInv, StaleFeed
  PROVE  LPInv'
<1> DEFINE y == [feed |-> rd.feed, data |-> Garbage]
           x == [Walk("feed") EXCEPT !.feed = @ + 1, !.out = Append(@, y)]
<1>1. rd.pc \in AtFeed /\ thr' = TcpIn(x) /\ Reads
  BY DEF StaleFeed, Stale, AtFeed
<1>2. /\ rd.feed \in Nat /\ rd.next \in Nat /\ rd.n \in Nat /\ rd.all \in BOOLEAN
      /\ WalkTyped
  BY DEF WalkInv, WalkTyped
<1>3. /\ DOMAIN x = WalkFields /\ x.pc = "feed" /\ x.feed = rd.feed + 1
      /\ x.asked = rd.asked /\ x.count = rd.count /\ x.last = rd.last /\ x.seen = rd.seen
      /\ x.out = Append(rd.out, y) /\ x.n = rd.n /\ x.next = rd.next /\ x.all = rd.all
  BY DEF Walk, WalkInv, WalkTyped, WalkFields
<1>4. "pc" \in DOMAIN x
  BY <1>3 DEF WalkFields
<1> HIDE DEF x
<1>5. rd' = x /\ Shaped' /\ Grown
  BY <1>1, <1>4, TakesStep
<1>6. SameRequest /\ rd'.out = Append(rd.out, y) /\ rd'.pc = "feed"
  BY <1>3, <1>5 DEF SameRequest
<1>7. Listed(rd'.out) /\ ~ Intact'
  BY <1>2, <1>6, OutAppend
<1>8. WalkTyped' /\ SeenThere'
  BY <1>2, <1>3, <1>5, <1>6, <1>7, WalkGoesOn
<1>9. WalkBounds'
  BY <1>2, <1>3, <1>5 DEF WalkInv, WalkBounds, AtFeed
<1>10. CountFits'
  BY <1>6 DEF CountFits
<1> QED
  BY <1>5, <1>7, <1>8, <1>9, <1>10 DEF LPInv, WalkInv

LEMMA WalkEnds ==
  ASSUME Shaped, Walking, WalkInv, StaleFeedKills \/ SendAnswer
  PROVE  LPInv'
<1>1. CASE StaleFeedKills
  <2>1. UNCHANGED thr /\ UNCHANGED feeds
    BY <1>1 DEF StaleFeedKills, dataVars
  <2>2. rd' = rd /\ Grown /\ Shaped'
    <3>1. Grown
      BY <2>1, PostsListed DEF Grown
    <3>2. FeedsShaped'
      BY <2>1 DEF Shaped, FeedsShaped, Listed
    <3> QED
      BY <2>1, <3>1, <3>2 DEF Shaped, rd
  <2>3. SameWalk /\ rd.pc \in AtFeed /\ rd.feed <= rd.last
    BY <1>1, <2>2 DEF SameWalk, SameRequest, StaleFeedKills, Stale, AtFeed, WalkInv,
                      WalkTyped, WalkBounds
  <2>4. Posts' = Posts /\ Passed' = Passed /\ Wanted(rd.feed)' = Wanted(rd.feed)
    BY <2>1, <2>2 DEF Posts, Passed, Wanted
  <2>5. CountFits'
    BY <2>2, <2>4 DEF WalkInv, CountFits
  <2>6. ASSUME Copies, rd'.pc \in {"get", "copy"} PROVE RunSoFar'
    <3>1. RunSoFar /\ rd.feed \in DOMAIN feeds
      BY <2>2, <2>3, <2>6, FeedAsked DEF Copies
    <3> QED
      BY <2>2, <2>3, <2>4, <3>1, RunSoFarKept DEF SameWalk
  <2> QED
    BY <2>2, <2>3, <2>5, <2>6, StaysAtFeed DEF WalkInv, WalkTyped
<1>2. CASE SendAnswer
  <2>1. thr' = TcpIn(Idle) /\ Reads
    BY <1>2 DEF SendAnswer
  <2>2. "pc" \in DOMAIN Idle /\ Idle.pc = "idle"
    BY DEF Idle
  <2>3. rd' = Idle /\ Shaped'
    BY <2>1, <2>2, TakesStep
  <2> QED
    BY <2>2, <2>3 DEF LPInv, Walking, AtFeed
<1> QED
  BY <1>1, <1>2

LEMMA RemainderBelow ==
  ASSUME NEW n \in Nat
  PROVE  n % U16 \in Nat /\ n % U16 <= n
<1>1. CASE n < U16
  BY <1>1, RemainderSmall
<1>2. CASE ~ (n < U16)
  <2>1. n % U16 \in 0..(U16 - 1) /\ U16 \in Nat
    BY FeedsAssumption
  <2> QED
    BY <1>2, <2>1
<1> QED
  BY <1>1, <1>2

LEMMA StartGoesOn ==
  ASSUME Shaped, NEW id, NEW n \in AskedFeeds, NEW c \in AskedCounts,
         StartLastPosts(id, n, c)
  PROVE  LPInv'
<1> DEFINE first == IF n = 0 THEN 1 ELSE n
           last == IF n = 0 THEN Len(feeds) % U16 ELSE n
           seen == [f \in DOMAIN feeds |-> Len(feeds[f].posts)]
           x == [pc |-> "feed", asked |-> n, count |-> c, feed |-> first, last |-> last,
                 cap |-> 0, all |-> FALSE, n |-> 0, next |-> 0, read |-> 0,
                 out |-> <<>>, seen |-> seen]
<1>1. thr' = TcpIn(x) /\ Reads /\ n <= Len(feeds)
  <2>1. n \in Nat /\ Len(feeds) \in Nat /\ ~ (n > Len(feeds))
    BY LastPostsAssumption, ListedOf DEF Shaped, FeedsShaped, StartLastPosts, NoSuchFeed
  <2>2. n <= Len(feeds)
    BY <2>1
  <2> QED
    BY <2>2 DEF StartLastPosts
<1>2. /\ n \in Nat /\ c \in Nat /\ Len(feeds) \in Nat /\ DOMAIN feeds = 1..Len(feeds)
      /\ U16 \in Nat \ {0}
  BY LastPostsAssumption, FeedsAssumption, ListedOf DEF Shaped, FeedsShaped
<1>3. /\ DOMAIN seen = DOMAIN feeds
      /\ \A f \in DOMAIN feeds : seen[f] = Len(feeds[f].posts) /\ seen[f] \in Nat
  BY PostsListed
<1>4. Len(seen) = Len(feeds)
  <2>1. seen \in [1..Len(feeds) -> Nat]
    BY <1>2, <1>3
  <2> HIDE DEF seen
  <2> QED
    BY <1>2, <2>1
<1>5. first \in Nat /\ first >= 1 /\ (n # 0 => first = n) /\ (n = 0 => first = 1)
  BY <1>2
<1>6. last \in Nat /\ last <= Len(feeds) /\ (n # 0 => last = n)
      /\ (n = 0 /\ Len(feeds) < U16 => last = Len(feeds))
  <2> DEFINE m == Len(feeds) % U16
  <2>1. m \in Nat /\ m <= Len(feeds) /\ (Len(feeds) < U16 => m = Len(feeds))
    BY Zenon, <1>2, RemainderSmall, RemainderBelow
  <2>2. (n = 0 => last = m) /\ (n # 0 => last = n)
    OBVIOUS
  <2> HIDE DEF last, m
  <2>3. CASE n = 0
    BY Zenon, <2>1, <2>2, <2>3
  <2>4. CASE n # 0
    BY Zenon, <1>1, <1>2, <2>2, <2>4
  <2> QED
    BY Zenon, <2>3, <2>4
<1> HIDE DEF first, last, seen
<1>7. /\ DOMAIN x = WalkFields /\ x.pc = "feed" /\ x.asked = n /\ x.count = c
      /\ x.feed = first /\ x.last = last /\ x.all \in BOOLEAN /\ x.n = 0 /\ x.next = 0
      /\ x.out = <<>> /\ x.seen = seen /\ "pc" \in DOMAIN x
  BY DEF WalkFields
<1> HIDE DEF x
<1>8. rd' = x /\ Shaped'
  BY <1>1, <1>7, TakesStep
<1>9. Listed(<<>>) /\ DOMAIN <<>> = {}
  BY EmptySeq DEF Listed
<1>10. WalkTyped'
  <2>1. Listed(rd'.out)
    BY <1>7, <1>8, <1>9
  <2>2. DOMAIN seen = 1..Len(seen) /\ Len(seen) \in Nat
    BY <1>2, <1>3, <1>4
  <2>3. n \in Nat /\ c \in Nat /\ first \in Nat /\ last \in Nat /\ 0 \in Nat
    <3>1. 0 \in Nat
      OBVIOUS
    <3> QED
      BY Zenon, <1>2, <1>5, <1>6, <3>1
  <2>4. /\ x.asked \in Nat /\ x.count \in Nat /\ x.feed \in Nat /\ x.last \in Nat
        /\ x.n \in Nat /\ x.next \in Nat
    <3>1. /\ x.asked = n /\ x.count = c /\ x.feed = first /\ x.last = last
          /\ x.n = 0 /\ x.next = 0
      BY <1>7
    <3> QED
      BY <2>3, <3>1
  <2>5. x.all \in BOOLEAN
    BY <1>7
  <2> QED
    BY <1>7, <1>8, <2>1, <2>2, <2>4, <2>5 DEF WalkTyped
<1>11. SeenThere'
  <2>1. feeds' = feeds
    BY <1>1 DEF Reads, dataVars
  <2> QED
    BY <1>3, <1>7, <1>8, <2>1 DEF SeenThere
<1>12. WalkBounds'
  <2>1. n # 0 => n \in DOMAIN seen
    BY <1>1, <1>2, <1>3
  <2> QED
    BY <1>4, <1>5, <1>6, <1>7, <1>8, <2>1 DEF WalkBounds, AtFeed
<1>13. CountFits'
  BY <1>7, <1>8 DEF CountFits
<1>14. Copies'
  <2>1. OutBefore'
    BY <1>7, <1>8, <1>9 DEF OutBefore
  <2>2. \A f \in AskedFeedSet' : ~ (f < rd'.feed)
    <3>1. CASE n = 0
      BY <1>2, <1>3, <1>5, <1>7, <1>8, <3>1 DEF AskedFeedSet
    <3>2. CASE n # 0
      BY <1>2, <1>5, <1>7, <1>8, <3>2 DEF AskedFeedSet
    <3> QED
      BY <3>1, <3>2
  <2> QED
    BY <1>7, <1>8, <2>1, <2>2 DEF Copies
<1> QED
  BY <1>8, <1>10, <1>11, <1>12, <1>13, <1>14 DEF LPInv, WalkInv

-----------------------------------------------------------------------------
LEMMA LPInvInit ==
  Init => LPInv
<1> SUFFICES ASSUME Init PROVE LPInv
  OBVIOUS
<1>1. feeds = <<>> /\ thr = [t \in Threads |-> Idle] /\ "tcp" \in Threads
  BY DEF Init, Threads
<1>2. rd = Idle /\ "pc" \in DOMAIN Idle /\ Idle.pc = "idle"
  BY <1>1 DEF rd, Idle
<1>3. FeedsShaped
  BY <1>1, EmptySeq DEF FeedsShaped, Listed
<1>4. Shaped /\ ~ Walking
  BY <1>1, <1>2, <1>3 DEF Shaped, Walking, AtFeed, rd
<1> QED
  BY <1>4 DEF LPInv

LEMMA LPInvNext ==
  LPInv /\ [LPNext]_vars => LPInv'
<1> SUFFICES ASSUME LPInv, [LPNext]_vars PROVE LPInv'
  OBVIOUS
<1>1. CASE [Next]_vars
  BY <1>1, OthersGoOn
<1>2. CASE ReadStep
  <2>1. Walking
    BY <1>2 DEF ReadStep, GetFeed, TestAll, CountPosts, FindStart, GetPost, CopyPost,
                NextFeed, StaleFeed, StaleFeedKills, Stale, Answer, SendAnswer, Walking,
                AtFeed
  <2>2. Shaped /\ WalkInv
    BY <2>1 DEF LPInv
  <2> QED
    BY <1>2, <2>1, <2>2, GetFeedGoesOn, TestAllGoesOn, CountPostsGoesOn, FindStartGoesOn,
       GetPostGoesOn, CopyPostGoesOn, NextFeedGoesOn, AnswerGoesOn, StaleFeedGoesOn,
       WalkEnds
       DEF ReadStep
<1>3. CASE \E id \in Ids, n \in AskedFeeds, c \in AskedCounts : StartLastPosts(id, n, c)
  BY <1>3, StartGoesOn DEF LPInv
<1> QED
  BY <1>1, <1>2, <1>3 DEF LPNext

(* However posts arrive meanwhile, and whatever thread has died, an answer *)
(* nothing moved under, when the feeds can be counted in 16 bits, has for  *)
(* each feed an unbroken run of its posts, as long as was asked if there   *)
(* were as many, and up to the newest there was when the request came in   *)
(* or a newer one (request_manager.c:129-153).                             *)
THEOREM RunsUnbroken ==
  LPSpec => []UnbrokenRun
<1>1. LPInv => UnbrokenRun
  <2> SUFFICES ASSUME LPInv, rd.pc = "answer", Intact, Len(rd.seen) < U16,
                      NEW f \in AskedFeedSet
               PROVE  HasRun(f)
    BY DEF UnbrokenRun
  <2>1. WalkInv /\ Copies
    BY DEF LPInv, Walking, WalkInv
  <2>2. f < rd.feed
    <3>1. /\ rd.feed \in Nat /\ rd.last \in Nat /\ rd.feed > rd.last /\ Len(rd.seen) \in Nat
          /\ DOMAIN rd.seen = 1..Len(rd.seen) /\ rd.asked \in Nat
          /\ rd.asked # 0 => rd.last = rd.asked
      BY <2>1 DEF WalkInv, WalkTyped, WalkBounds
    <3>2. rd.asked = 0 => rd.last = Len(rd.seen)
      BY <2>1 DEF WalkInv, WalkBounds
    <3>3. CASE rd.asked = 0
      BY <3>1, <3>2, <3>3 DEF AskedFeedSet
    <3>4. CASE rd.asked # 0
      <4>1. f = rd.asked /\ rd.last = rd.asked
        BY <2>1, <3>4 DEF AskedFeedSet, WalkInv, WalkBounds
      <4> QED
        BY <3>1, <4>1
    <3> QED
      BY <3>3, <3>4
  <2> QED
    BY <2>1, <2>2 DEF Copies
<1> QED
  BY LPInvInit, LPInvNext, <1>1, PTL DEF LPSpec
=============================================================================
