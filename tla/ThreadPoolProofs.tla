-------------------------- MODULE ThreadPoolProofs --------------------------
(***************************************************************************)
(* Proofs about ThreadPool.tla, for pools of any size with any number of   *)
(* jobs, any of which may return.                                          *)
(***************************************************************************)
EXTENDS ThreadPool, SequenceTheorems, FiniteSetTheorems, TLAPS

(* Workers and the main thread each stay in their own part of the code,    *)
(* what the main thread adds is a job, and who takes one finds one.        *)
PlacesOK ==
  /\ pc[Main] \in {"add", "pool_wait", "joining", "shut", "join"}
  /\ pc[Main] = "add" => at[Main] \in 1..Jobs
  /\ \A w \in Workers : pc[w] \notin {"add", "pool_wait"}
  /\ \A w \in Workers : pc[w] = "take" => queue # <<>>

TypeInv == TypeOK /\ PlacesOK

-----------------------------------------------------------------------------
(* Type correctness *)

LEMMA ThreadFacts ==
  /\ Main \in Threads /\ Main \notin Workers
  /\ NoThread \notin Threads /\ NoThread \notin Workers
  /\ Workers \subseteq Threads
  /\ \A t \in Threads : t # Main => t \in Workers
BY PoolAssumption DEF Main, Workers, Threads, NoThread

LEMMA InitTypeInv == Init => TypeInv
<1> SUFFICES ASSUME Init
             PROVE  TypeInv
  OBVIOUS
<1>1. queue \in Seq(1..Jobs)
  BY EmptySeq DEF Init
<1>2. /\ pc[Main] = "add" /\ at[Main] = 1
      /\ \A w \in Workers : pc[w] = "lock" /\ job[w] = 0
  BY ThreadFacts DEF Init
<1>3. pc \in [Threads -> {"add", "lock", "look", "wait", "take", "run",
                          "shut", "join", "pool_wait", "joining"}]
  BY DEF Init
<1>4. at \in [Threads -> Nat] /\ job \in [Workers -> 0..Jobs]
      /\ joiner \in [Workers -> Threads \cup {NoThread}]
  BY PoolAssumption DEF Init
<1>5. active = TRUE /\ mutex = NoThread /\ waiting = {} /\ exited = FALSE
  BY DEF Init
<1> QED
  <2>1. TypeOK
    BY <1>1, <1>2, <1>3, <1>4, <1>5 DEF TypeOK
  <2>2. PlacesOK
    BY <1>2, PoolAssumption DEF PlacesOK
  <2> QED
    BY <2>1, <2>2 DEF TypeInv

LEMMA AddJobTypeInv ==
  ASSUME TypeInv, AddJob
  PROVE  TypeInv'
<1> USE DEF TypeInv, TypeOK, PlacesOK, AddJob, Goto
<1>1. queue' \in Seq(1..Jobs)
  BY AppendProperties
<1>2. at' \in [Threads -> Nat] /\ (at[Main] # Jobs => at'[Main] \in 1..Jobs)
  BY ThreadFacts, PoolAssumption
<1>3. waiting' \subseteq waiting
  OBVIOUS
<1>4. \A w \in Workers : pc'[w] = pc[w]
  BY ThreadFacts
<1>5. pc' \in [Threads -> {"add", "lock", "look", "wait", "take", "run",
                           "shut", "join", "pool_wait", "joining"}]
      /\ pc'[Main] = IF at[Main] = Jobs THEN "pool_wait" ELSE "add"
  BY ThreadFacts
<1> QED
  BY <1>1, <1>2, <1>3, <1>4, <1>5

LEMMA WorkerTypeInv ==
  ASSUME TypeInv, NEW w \in Workers,
         Lock(w) \/ Wait(w) \/ Wake(w) \/ GiveUp(w) \/ Decide(w) \/ JobEnds(w)
  PROVE  TypeInv'
<1> USE ThreadFacts DEF TypeInv, TypeOK, PlacesOK, Goto, queueVars
<1>1. CASE Lock(w)
  BY <1>1 DEF Lock, MutexFree
<1>2. CASE Wait(w)
  BY <1>2 DEF Wait
<1>3. CASE Wake(w)
  BY <1>3 DEF Wake
<1>4. CASE GiveUp(w)
  BY <1>4 DEF GiveUp
<1>5. CASE Decide(w)
  BY <1>5 DEF Decide, MustWait, GivesUp
<1>6. CASE JobEnds(w)
  BY <1>6 DEF JobEnds
<1> QED
  BY <1>1, <1>2, <1>3, <1>4, <1>5, <1>6

(* A job is only taken when there is one. *)
LEMMA TakenFromQueue ==
  ASSUME TypeInv, NEW w \in Workers, TakeJob(w)
  PROVE  /\ queue # <<>> /\ queue \in Seq(1..Jobs)
         /\ Head(queue) = queue[1] /\ Len(queue) \in Nat \ {0}
         /\ queue' \in Seq(1..Jobs)
         /\ Len(queue') = Len(queue) - 1
         /\ \A i \in 1..Len(queue') : queue'[i] = queue[i + 1]
<1>1. queue # <<>> /\ queue \in Seq(1..Jobs) /\ queue' = Tail(queue)
  BY DEF TakeJob, Rest, TypeInv, TypeOK, PlacesOK
<1> QED
  BY <1>1, HeadTailProperties, EmptySeq

LEMMA TakeJobTypeInv ==
  ASSUME TypeInv, NEW w \in Workers, TakeJob(w)
  PROVE  TypeInv'
<1>1. queue' \in Seq(1..Jobs) /\ Head(queue) \in 1..Jobs
  BY TakenFromQueue, HeadTailProperties
<1>2. job' \in [Workers -> 0..Jobs]
  BY <1>1 DEF TypeInv, TypeOK, TakeJob
<1> QED
  BY <1>1, <1>2, ThreadFacts
     DEF TypeInv, TypeOK, PlacesOK, TakeJob, Goto

LEMMA EndTypeInv ==
  ASSUME TypeInv, NEW t \in Threads, Shutdown(t) \/ Join(t) \/ Exit(t)
  PROVE  TypeInv'
<1> USE ThreadFacts DEF TypeInv, TypeOK, PlacesOK, Goto, queueVars
<1>1. CASE Shutdown(t)
  BY <1>1 DEF Shutdown, MutexFree
<1>2. CASE Join(t)
  <2>1. at[t] \in Nat /\ pc[t] \in {"join", "pool_wait"}
    BY <1>2 DEF Join
  <2>2. CASE UNCHANGED <<pc, joiner>>
    <3>1. at' \in [Threads -> Nat]
      BY <1>2, <2>1 DEF Join
    <3>2. pc[Main] = "add" => at'[Main] = at[Main]
      BY <1>2, <2>1 DEF Join
    <3> QED
      BY <1>2, <2>2, <3>1, <3>2 DEF Join
  <2>3. CASE /\ joiner' = [joiner EXCEPT ![at[t]] = t]
             /\ pc' = Goto(t, "joining")
             /\ UNCHANGED at
    <3>1. joiner' \in [Workers -> Threads \cup {NoThread}]
      BY <2>3
    <3> QED
      BY <1>2, <2>1, <2>3, <3>1 DEF Join
  <2> QED
    BY <1>2, <2>2, <2>3 DEF Join
<1>3. CASE Exit(t)
  BY <1>3 DEF Exit
<1> QED
  BY <1>1, <1>2, <1>3

LEMMA EndWaitTypeInv ==
  ASSUME TypeInv, EndWait
  PROVE  TypeInv'
BY ThreadFacts
   DEF TypeInv, TypeOK, PlacesOK, EndWait, AfterWait, Goto, queueVars

(* The queue, the mutex and the joins stay consistent.                     *)
THEOREM TypeCorrect == Spec => []TypeInv
<1>1. TypeInv /\ [Next]_vars => TypeInv'
  <2> SUFFICES ASSUME TypeInv, [Next]_vars
               PROVE  TypeInv'
    OBVIOUS
  <2>1. CASE MainStep
    BY <2>1, AddJobTypeInv, EndTypeInv, EndWaitTypeInv, ThreadFacts DEF MainStep
  <2>2. ASSUME NEW w \in Workers, WorkerStep(w) \/ JobEnds(w)
        PROVE  TypeInv'
    BY <2>2, WorkerTypeInv, TakeJobTypeInv, EndTypeInv, ThreadFacts
       DEF WorkerStep
  <2>3. CASE UNCHANGED vars
    BY <2>3 DEF TypeInv, TypeOK, PlacesOK, vars
  <2> QED
    BY <2>1, <2>2, <2>3 DEF Next
<1> QED
  BY InitTypeInv, <1>1, PTL DEF Spec

(* TypeOK of ThreadPool.tla, for every pool.                               *)
THEOREM TypeSafety == Spec => []TypeOK
BY TypeCorrect, PTL DEF TypeInv

-----------------------------------------------------------------------------
(* Every job that was added is in one place *)

Added == IF pc[Main] = "add" THEN 1..(at[Main] - 1) ELSE 1..Jobs

(* A worker that is not past its first job has none.                       *)
NoJobYet ==
  \A w \in Workers : pc[w] \in {"lock", "look", "wait", "take"} => job[w] = 0

(* Nothing is queued or taken twice, or both.                              *)
QueuedOnce == \A i, j \in DOMAIN queue : queue[i] = queue[j] => i = j
TakenOnce == \A v, w \in Workers : job[v] = job[w] /\ job[v] # 0 => v = w
NotBoth == \A i \in DOMAIN queue : \A w \in Workers : queue[i] # job[w]

(* What is queued or taken was added, and what was added is there.         *)
OnlyAdded == /\ \A i \in DOMAIN queue : queue[i] \in Added
             /\ \A w \in Workers : job[w] \in Added \cup {0}
AddedSomewhere ==
  \A j \in Added : \/ \E i \in DOMAIN queue : queue[i] = j
                   \/ \E w \in Workers : job[w] = j

PlaceInv == /\ NoJobYet /\ QueuedOnce /\ TakenOnce /\ NotBoth
            /\ OnlyAdded /\ AddedSomewhere

LEMMA InitPlaceInv == Init => PlaceInv
<1> SUFFICES ASSUME Init
             PROVE  PlaceInv
  OBVIOUS
<1>1. DOMAIN queue = {} /\ Added = {}
  BY ThreadFacts DEF Init, Added
<1>2. \A w \in Workers : job[w] = 0
  BY DEF Init
<1> QED
  BY <1>1, <1>2 DEF PlaceInv, NoJobYet, QueuedOnce, TakenOnce, NotBoth,
                    OnlyAdded, AddedSomewhere

LEMMA AddJobPlaceInv ==
  ASSUME TypeInv, PlaceInv, AddJob
  PROVE  PlaceInv'
<1> DEFINE a == at[Main]
           n == Len(queue)
<1>1. /\ pc[Main] = "add" /\ a \in 1..Jobs /\ Jobs \in Nat
      /\ queue' = Append(queue, a) /\ job' = job
      /\ \A w \in Workers : pc'[w] = pc[w]
  BY ThreadFacts, PoolAssumption DEF AddJob, TypeInv, TypeOK, PlacesOK, Goto
<1>2. /\ n \in Nat /\ DOMAIN queue = 1..n /\ DOMAIN queue' = 1..(n + 1)
      /\ \A i \in 1..n : queue'[i] = queue[i]
      /\ queue'[n + 1] = a
  BY <1>1, AppendProperties, LenProperties DEF TypeInv, TypeOK
<1>3. Added = 1..(a - 1) /\ a \notin Added /\ Added' = Added \cup {a}
  <2>1. Added = 1..(a - 1)
    BY <1>1 DEF Added
  <2>2. CASE a = Jobs
    <3>1. pc'[Main] = "pool_wait"
      BY <2>2, ThreadFacts DEF AddJob, TypeInv, TypeOK, Goto
    <3> QED
      BY <1>1, <2>1, <2>2, <3>1 DEF Added
  <2>3. CASE a # Jobs
    <3>1. pc'[Main] = "add" /\ at'[Main] = a + 1
      BY <2>3, <1>1, ThreadFacts DEF AddJob, TypeInv, TypeOK, Goto
    <3> QED
      BY <1>1, <2>1, <3>1 DEF Added
  <2> QED
    BY <2>2, <2>3
<1> HIDE DEF a, n
<1>4. a # 0
  BY <1>1
<1>5. \A i \in 1..n : queue[i] \in Added /\ queue[i] # a
  BY <1>2, <1>3 DEF PlaceInv, OnlyAdded
<1>6. \A i \in 1..(n + 1) : i \in 1..n \/ i = n + 1
  BY <1>2
<1>7. NoJobYet' /\ TakenOnce'
  BY <1>1 DEF PlaceInv, NoJobYet, TakenOnce
<1>8. QueuedOnce'
  BY <1>2, <1>5, <1>6 DEF PlaceInv, QueuedOnce
<1>9. NotBoth'
  <2>1. \A w \in Workers : a # job[w]
    BY <1>3, <1>4 DEF PlaceInv, OnlyAdded
  <2> QED
    BY <1>1, <1>2, <1>6, <2>1 DEF PlaceInv, NotBoth
<1>10. OnlyAdded'
  BY <1>1, <1>2, <1>3, <1>5, <1>6 DEF PlaceInv, OnlyAdded
<1>11. AddedSomewhere'
  <2>1. n + 1 \in 1..(n + 1) /\ \A i \in 1..n : i \in 1..(n + 1)
    BY <1>2
  <2> QED
    BY <1>1, <1>2, <1>3, <2>1 DEF PlaceInv, AddedSomewhere
<1> QED
  BY <1>7, <1>8, <1>9, <1>10, <1>11 DEF PlaceInv

LEMMA TakeJobPlaceInv ==
  ASSUME TypeInv, PlaceInv, NEW w \in Workers, TakeJob(w)
  PROVE  PlaceInv'
<1> DEFINE h == queue[1]
           n == Len(queue')
<1>1. /\ n \in Nat /\ DOMAIN queue = 1..(n + 1) /\ DOMAIN queue' = 1..n
      /\ \A i \in 1..n : queue'[i] = queue[i + 1]
      /\ h \in 1..Jobs
  <2>1. /\ queue \in Seq(1..Jobs) /\ queue' \in Seq(1..Jobs)
        /\ Len(queue) \in Nat \ {0} /\ Len(queue') = Len(queue) - 1
        /\ \A i \in 1..Len(queue') : queue'[i] = queue[i + 1]
    BY TakenFromQueue
  <2>2. DOMAIN queue = 1..Len(queue) /\ DOMAIN queue' = 1..Len(queue')
    BY <2>1, LenProperties
  <2>3. h \in 1..Jobs
    BY TakenFromQueue, HeadTailProperties
  <2> QED
    BY <2>1, <2>2, <2>3
<1>2. /\ job[w] = 0 /\ job'[w] = h
      /\ \A v \in Workers : v # w => job'[v] = job[v]
  BY TakenFromQueue DEF TakeJob, PlaceInv, NoJobYet, TypeInv, TypeOK
<1>3. Added' = Added
  BY ThreadFacts DEF TakeJob, Added, Goto, TypeInv, TypeOK
<1>4. NoJobYet'
  BY <1>2, ThreadFacts DEF TakeJob, Goto, PlaceInv, NoJobYet, TypeInv, TypeOK
<1> HIDE DEF h, n
<1>5. /\ \A i \in 1..n : i + 1 \in 1..(n + 1) /\ i + 1 # 1
      /\ 1 \in 1..(n + 1) /\ h # 0
      /\ \A i \in 1..(n + 1) : i # 1 => i - 1 \in 1..n /\ queue'[i - 1] = queue[i]
  BY <1>1
<1>6. QueuedOnce'
  <2> SUFFICES ASSUME NEW i \in 1..n, NEW j \in 1..n, queue'[i] = queue'[j]
               PROVE  i = j
    BY <1>1 DEF QueuedOnce
  <2>1. queue[i + 1] = queue[j + 1]
    BY <1>1
  <2>2. i + 1 \in DOMAIN queue /\ j + 1 \in DOMAIN queue
    BY <1>1, <1>5
  <2>3. QueuedOnce
    BY DEF PlaceInv
  <2>4. i + 1 = j + 1
    BY <2>1, <2>2, <2>3 DEF QueuedOnce
  <2>5. i \in Int /\ j \in Int
    OBVIOUS
  <2> QED
    BY <2>4, <2>5
<1>7. \A i \in 1..n : queue'[i] # h
  BY SMTT(30), <1>1, <1>5 DEF PlaceInv, QueuedOnce, h
<1>8. TakenOnce'
  <2>1. \A v \in Workers : job[v] # h
    BY <1>1, <1>5 DEF PlaceInv, NotBoth, h
  <2> QED
    BY <1>2, <2>1 DEF PlaceInv, TakenOnce
<1>9. NotBoth'
  BY SMTT(30), <1>1, <1>2, <1>5, <1>7 DEF PlaceInv, NotBoth
<1>10. OnlyAdded'
  <2>1. h \in Added
    BY <1>1, <1>5 DEF PlaceInv, OnlyAdded, h
  <2>2. \A i \in 1..n : queue'[i] \in Added
    BY <1>1, <1>5 DEF PlaceInv, OnlyAdded
  <2>3. \A v \in Workers : job'[v] \in Added \cup {0}
    BY <1>2, <2>1 DEF PlaceInv, OnlyAdded
  <2> QED
    BY <1>1, <1>3, <2>2, <2>3 DEF OnlyAdded
<1>11. AddedSomewhere'
  <2> SUFFICES ASSUME NEW j \in Added
               PROVE  \/ \E i \in 1..n : queue'[i] = j
                      \/ \E v \in Workers : job'[v] = j
    BY <1>1, <1>3 DEF AddedSomewhere
  <2>1. CASE j = h
    BY <2>1, <1>2
  <2>2. ASSUME NEW i \in 1..(n + 1), queue[i] = j, j # h
        PROVE  \E k \in 1..n : queue'[k] = j
    BY <2>2, <1>5 DEF h
  <2>3. ASSUME NEW v \in Workers, job[v] = j
        PROVE  \E u \in Workers : job'[u] = j
    <3>1. j # 0
      BY PoolAssumption DEF Added, TypeInv, PlacesOK
    <3> QED
      BY <2>3, <3>1, <1>2
  <2> QED
    BY <1>1, <2>1, <2>2, <2>3 DEF PlaceInv, AddedSomewhere
<1> QED
  BY <1>4, <1>6, <1>8, <1>9, <1>10, <1>11 DEF PlaceInv

(* All other steps leave queue and jobs where they are.                    *)
LEMMA OtherPlaceInv ==
  ASSUME TypeInv, PlaceInv,
         \/ UNCHANGED vars
         \/ EndWait
         \/ \E w \in Workers : \/ Lock(w) \/ Wait(w) \/ Wake(w) \/ GiveUp(w)
                               \/ Decide(w) \/ JobEnds(w)
         \/ \E t \in Threads : Shutdown(t) \/ Join(t) \/ Exit(t)
  PROVE  PlaceInv'
<1>1. UNCHANGED <<queue, job>>
  BY DEF vars, EndWait, Lock, Wait, Wake, GiveUp, Decide, JobEnds, Shutdown,
         Join, Exit, queueVars
<1>2. /\ \A w \in Workers : pc'[w] \in {"lock", "look", "wait", "take"} =>
                             pc[w] \in {"lock", "look", "wait", "take"}
      /\ pc[Main] = "add" => pc'[Main] = "add" /\ at'[Main] = at[Main]
      /\ pc[Main] # "add" => pc'[Main] # "add"
  <2> USE ThreadFacts DEF TypeInv, TypeOK, PlacesOK, Goto
  <2>1. CASE UNCHANGED vars
    BY <2>1 DEF vars
  <2>2. CASE EndWait
    BY <2>2 DEF EndWait, AfterWait
  <2>3. ASSUME NEW w \in Workers,
               Lock(w) \/ Wait(w) \/ Wake(w) \/ GiveUp(w) \/ Decide(w)
               \/ JobEnds(w)
        PROVE  <1>2!1 /\ <1>2!2 /\ <1>2!3
    BY <2>3 DEF Lock, Wait, Wake, GiveUp, Decide, JobEnds
  <2>4. ASSUME NEW t \in Threads, Shutdown(t) \/ Join(t) \/ Exit(t)
        PROVE  <1>2!1 /\ <1>2!2 /\ <1>2!3
    BY <2>4 DEF Shutdown, Join, Exit
  <2> QED
    BY <2>1, <2>2, <2>3, <2>4
<1>3. Added' = Added
  BY <1>2 DEF Added
<1> QED
  BY <1>1, <1>2, <1>3
     DEF PlaceInv, NoJobYet, QueuedOnce, TakenOnce, NotBoth, OnlyAdded,
         AddedSomewhere

THEOREM PlaceInvariant == Spec => []PlaceInv
<1>1. TypeInv /\ PlaceInv /\ [Next]_vars => PlaceInv'
  BY AddJobPlaceInv, TakeJobPlaceInv, OtherPlaceInv, ThreadFacts
     DEF Next, MainStep, WorkerStep
<1> QED
  BY InitPlaceInv, <1>1, TypeCorrect, PTL DEF Spec

(* In one place is what JobOnce counts.                                    *)
LEMMA OnePlace == TypeInv /\ PlaceInv => JobOnce
<1> SUFFICES ASSUME TypeInv, PlaceInv, NEW j \in Added
             PROVE  Cardinality({i \in DOMAIN queue : queue[i] = j})
                    + Cardinality({w \in Workers : job[w] = j}) = 1
  BY DEF JobOnce, Added
<1> DEFINE Q == {i \in DOMAIN queue : queue[i] = j}
           W == {w \in Workers : job[w] = j}
<1>1. j # 0
  BY PoolAssumption DEF Added, TypeInv, PlacesOK
<1>2. CASE \E i \in DOMAIN queue : queue[i] = j
  <2>1. PICK i \in DOMAIN queue : queue[i] = j
    BY <1>2
  <2>2. Q = {i} /\ W = {}
    BY <2>1 DEF PlaceInv, QueuedOnce, NotBoth
  <2>3. Cardinality(Q) = 1 /\ Cardinality(W) = 0
    BY <2>2, FS_Singleton, FS_EmptySet
  <2> QED
    BY <2>3
<1>3. CASE ~ \E i \in DOMAIN queue : queue[i] = j
  <2>1. PICK w \in Workers : job[w] = j
    BY <1>3 DEF PlaceInv, AddedSomewhere
  <2>2. Q = {} /\ W = {w}
    BY <1>1, <1>3, <2>1 DEF PlaceInv, TakenOnce
  <2>3. Cardinality(Q) = 0 /\ Cardinality(W) = 1
    BY <2>2, FS_Singleton, FS_EmptySet
  <2> QED
    BY <2>3
<1> QED
  BY <1>2, <1>3

(* No loop of the server is lost or started twice, however the workers and *)
(* the main thread race for the queue (thread_pool.c:24-30, 43-51).        *)
THEOREM JobsOnce == Spec => []JobOnce
BY TypeCorrect, PlaceInvariant, OnePlace, PTL

-----------------------------------------------------------------------------
(* Nobody shuts the pool down unless a loop has ended *)

Cause == \E w \in Workers : job[w] # 0 /\ Ended(w)

(* A worker that runs has a job; a thread that is joining a worker waits;  *)
(* an inactive pool, a worker past its loop and a main thread past its     *)
(* first join all come from a loop that has ended.                         *)
RunnersHaveJobs == \A w \in Workers : pc[w] = "run" => job[w] # 0
JoinersWait == \A w \in Workers : joiner[w] # NoThread =>
                                     pc[joiner[w]] = "joining"
EndsHaveCause ==
  /\ ~ active => Cause
  /\ \A w \in Workers : Ended(w) => Cause
  /\ pc[Main] \in {"shut", "join"} => Cause
  /\ pc[Main] = "pool_wait" /\ at[Main] > 1 => Cause
  /\ at[Main] > 0
  /\ exited => Cause

CauseInv == RunnersHaveJobs /\ JoinersWait /\ EndsHaveCause

LEMMA InitCauseInv == Init => CauseInv
BY ThreadFacts, PoolAssumption
   DEF Init, CauseInv, RunnersHaveJobs, JoinersWait, EndsHaveCause, Ended

(* A cause stays one: a worker keeps its job, and once it is past its loop *)
(* it does not come back.                                                  *)
LEMMA CauseStays ==
  ASSUME TypeInv, PlaceInv, [Next]_vars, Cause
  PROVE  Cause'
<1>1. PICK w \in Workers : job[w] # 0 /\ Ended(w)
  BY DEF Cause
<1> USE ThreadFacts DEF TypeInv, TypeOK, PlacesOK, Goto, Ended
<1>2. ASSUME AddJob \/ EndWait
      PROVE  job'[w] = job[w] /\ pc'[w] = pc[w]
  BY <1>2 DEF AddJob, EndWait, AfterWait
<1>3. ASSUME NEW v \in Workers,
             Lock(v) \/ Wait(v) \/ Wake(v) \/ GiveUp(v) \/ Decide(v)
             \/ TakeJob(v) \/ JobEnds(v)
      PROVE  job'[w] = job[w] /\ pc'[w] = pc[w]
  BY <1>1, <1>3 DEF Lock, Wait, Wake, GiveUp, Decide, TakeJob, JobEnds
<1>4. ASSUME NEW t \in Threads, Shutdown(t) \/ Join(t) \/ Exit(t)
      PROVE  job'[w] = job[w] /\ Ended(w)'
  BY <1>1, <1>4 DEF Shutdown, Join, Exit
<1>5. CASE UNCHANGED vars
  BY <1>1, <1>5 DEF vars, Cause
<1> QED
  BY <1>1, <1>2, <1>3, <1>4, <1>5 DEF Next, MainStep, WorkerStep, Cause

(* A join of the main thread fails only if a worker is joining that worker.*)
LEMMA MainJoinFails ==
  ASSUME TypeInv, CauseInv, Join(Main), JoinFails(Main, at[Main])
  PROVE  Cause
<1>1. at[Main] \in Nat \ {0} /\ at[Main] <= PoolSize
  BY ThreadFacts DEF Join, CauseInv, EndsHaveCause, TypeInv, TypeOK
<1>2. at[Main] \in Workers /\ joiner[at[Main]] # NoThread
  BY <1>1, ThreadFacts, PoolAssumption DEF JoinFails, Workers, Main
<1>3. joiner[at[Main]] \in Workers /\ Ended(joiner[at[Main]])
  BY <1>2, ThreadFacts DEF CauseInv, JoinersWait, Join, TypeInv, TypeOK, Ended
<1> QED
  BY <1>3 DEF CauseInv, EndsHaveCause

LEMMA StepCauseInv ==
  ASSUME TypeInv, PlaceInv, CauseInv, [Next]_vars
  PROVE  CauseInv'
<1> USE ThreadFacts DEF TypeInv, TypeOK, PlacesOK, Goto, Ended
<1>1. Cause => Cause'
  BY CauseStays
<1>2. CASE AddJob
  <2>1. at'[Main] \in Nat \ {0} /\ (pc'[Main] = "pool_wait" => at'[Main] = 1)
    BY <1>2, PoolAssumption DEF AddJob
  <2> QED
    BY <1>1, <1>2, <2>1
       DEF AddJob, CauseInv, RunnersHaveJobs, JoinersWait, EndsHaveCause
<1>3. CASE EndWait
  <2>1. at[Main] > 1
    BY <1>3, PoolAssumption DEF EndWait
  <2> QED
    BY <1>1, <1>3, <2>1
       DEF EndWait, AfterWait, queueVars, CauseInv, RunnersHaveJobs,
           JoinersWait, EndsHaveCause
<1>4. ASSUME NEW w \in Workers,
             Lock(w) \/ Wait(w) \/ Wake(w) \/ GiveUp(w) \/ Decide(w)
      PROVE  CauseInv'
  BY <1>1, <1>4
     DEF Lock, Wait, Wake, GiveUp, GivesUp, Decide, queueVars, CauseInv,
         RunnersHaveJobs, JoinersWait, EndsHaveCause
<1>5. ASSUME NEW w \in Workers, TakeJob(w)
      PROVE  CauseInv'
  <2>1. Head(queue) # 0
    BY <1>5, TakenFromQueue, HeadTailProperties, PoolAssumption
  <2> QED
    BY <1>1, <1>5, <2>1
       DEF TakeJob, CauseInv, RunnersHaveJobs, JoinersWait, EndsHaveCause
<1>6. ASSUME NEW w \in Workers, JobEnds(w)
      PROVE  CauseInv'
  <2>1. Cause'
    BY <1>6 DEF JobEnds, Cause, CauseInv, RunnersHaveJobs
  <2> QED
    BY <1>6, <2>1
       DEF JobEnds, CauseInv, RunnersHaveJobs, JoinersWait, EndsHaveCause
<1>7. ASSUME NEW t \in Threads, Shutdown(t)
      PROVE  CauseInv'
  <2>1. Cause
    BY <1>7 DEF Shutdown, CauseInv, EndsHaveCause
  <2> QED
    BY <1>1, <1>7, <2>1
       DEF Shutdown, CauseInv, RunnersHaveJobs, JoinersWait, EndsHaveCause
<1>8. ASSUME NEW t \in Threads, Join(t)
      PROVE  CauseInv'
  <2>1. /\ pc[t] \in {"join", "pool_wait"} /\ at[t] \in Nat
        /\ UNCHANGED <<queueVars, job, exited>>
    BY <1>8 DEF Join
  <2>2. CASE /\ joiner' = [joiner EXCEPT ![at[t]] = t]
             /\ pc' = Goto(t, "joining")
             /\ UNCHANGED at
    <3>1. JoinersWait'
      BY <2>1, <2>2 DEF CauseInv, JoinersWait
    <3>2. RunnersHaveJobs'
      BY <2>1, <2>2 DEF CauseInv, RunnersHaveJobs
    <3>3. EndsHaveCause'
      BY <1>1, <2>1, <2>2 DEF CauseInv, EndsHaveCause, queueVars
    <3> QED
      BY <3>1, <3>2, <3>3 DEF CauseInv
  <2>3. CASE /\ JoinFails(t, at[t])
             /\ at' = [at EXCEPT ![t] = @ + 1]
             /\ UNCHANGED <<pc, joiner>>
    <3>1. Cause
      BY <1>8, <2>1, <2>3, MainJoinFails DEF CauseInv, EndsHaveCause
    <3>2. at'[Main] > 0
      BY <2>1, <2>3 DEF CauseInv, EndsHaveCause
    <3> QED
      BY <1>1, <2>1, <2>3, <3>1, <3>2
         DEF CauseInv, RunnersHaveJobs, JoinersWait, EndsHaveCause
  <2> QED
    BY <1>8, <2>2, <2>3 DEF Join
<1>9. ASSUME NEW t \in Threads, Exit(t)
      PROVE  CauseInv'
  <2>1. Cause
    BY <1>9 DEF Exit, CauseInv, EndsHaveCause
  <2> QED
    BY <1>1, <1>9, <2>1
       DEF Exit, queueVars, CauseInv, RunnersHaveJobs, JoinersWait,
           EndsHaveCause
<1>10. CASE UNCHANGED vars
  BY <1>1, <1>10
     DEF vars, CauseInv, RunnersHaveJobs, JoinersWait, EndsHaveCause
<1> QED
  BY <1>2, <1>3, <1>4, <1>5, <1>6, <1>7, <1>8, <1>9, <1>10
     DEF Next, MainStep, WorkerStep

(* The process does not exit while all its loops run: whoever exits, some  *)
(* loop has ended before (thread_pool.c:21-22, 38-39, 91-116).             *)
THEOREM ExitsAfterEnd == Spec => [](exited => Cause)
<1>1. TypeInv /\ PlaceInv /\ CauseInv /\ [Next]_vars => CauseInv'
  BY StepCauseInv
<1>2. CauseInv => (exited => Cause)
  BY DEF CauseInv, EndsHaveCause
<1> QED
  BY InitCauseInv, <1>1, <1>2, TypeCorrect, PlaceInvariant, PTL DEF Spec

-----------------------------------------------------------------------------
(* The pool implements JobPool *)

(* A loop that has ended has closed the pool, for good.                    *)
ClosesPool == \A w \in Workers : Ended(w) => ~ active

(* A worker is about to take a job: the mapping of chosen.                 *)
Chosen == \E w \in Workers : pc[w] = "take"

LEMMA StepClosesPool ==
  ASSUME TypeInv, ClosesPool, [Next]_vars
  PROVE  ClosesPool'
<1> USE ThreadFacts DEF TypeInv, TypeOK, PlacesOK, Goto, Ended, queueVars,
                        ClosesPool
<1>1. CASE AddJob \/ EndWait
  BY <1>1 DEF AddJob, EndWait, AfterWait
<1>2. ASSUME NEW w \in Workers,
             Lock(w) \/ Wait(w) \/ Wake(w) \/ GiveUp(w) \/ Decide(w)
             \/ TakeJob(w) \/ JobEnds(w)
      PROVE  ClosesPool'
  BY <1>2 DEF Lock, Wait, Wake, GiveUp, GivesUp, Decide, TakeJob, JobEnds
<1>3. ASSUME NEW t \in Threads, Shutdown(t)
      PROVE  ClosesPool'
  BY <1>3 DEF Shutdown
<1>4. ASSUME NEW t \in Threads, Join(t) \/ Exit(t)
      PROVE  ClosesPool'
  BY <1>4 DEF Join, Exit
<1>5. CASE UNCHANGED vars
  BY <1>5 DEF vars
<1> QED
  BY <1>1, <1>2, <1>3, <1>4, <1>5 DEF Next, MainStep, WorkerStep

(* A step that neither moves a job nor ends one is no step of JobPool.     *)
LEMMA QuietStep ==
  ASSUME job' = job, queue' = queue, exited' = exited,
         \A w \in Workers : job[w] # 0 => (Ended(w)' <=> Ended(w)),
         \A w \in Workers : pc'[w] = "take" <=> pc[w] = "take"
  PROVE  UNCHANGED JP!jobVars
<1>1. Taken' = Taken
  BY DEF Taken
<1>2. Returned' = Returned
  BY DEF Returned
<1>3. Chosen' = Chosen
  BY DEF Chosen
<1> QED
  BY <1>1, <1>2, <1>3 DEF JP!jobVars, Chosen

(* The main thread adds a job nobody has seen.                             *)
LEMMA AddJobOnPool ==
  ASSUME TypeInv, PlaceInv, AddJob
  PROVE  ~ exited /\ \E j \in 1..Jobs : JP!Add(j)
<1> DEFINE j == at[Main]
<1>1. /\ ~ exited /\ pc[Main] = "add" /\ j \in 1..Jobs /\ job' = job
      /\ queue' = Append(queue, j) /\ exited' = exited
      /\ \A w \in Workers : pc'[w] = pc[w]
  BY ThreadFacts DEF AddJob, TypeInv, TypeOK, PlacesOK, Goto
<1>2. j \notin Added /\ j # 0
  BY <1>1, PoolAssumption DEF Added
<1>3. j \notin Taken /\ \A i \in DOMAIN queue : queue[i] # j
  BY <1>2 DEF PlaceInv, OnlyAdded, Taken
<1>4. Taken' = Taken /\ Returned' = Returned /\ Chosen' = Chosen
  BY <1>1 DEF Taken, Returned, Ended, Chosen
<1> QED
  BY <1>1, <1>3, <1>4 DEF JP!Add, Chosen

(* A worker decides to take a job while no other is about to: it holds the *)
(* mutex.                                                                  *)
LEMMA DecideOnPool ==
  ASSUME TypeInv, ClosesPool, NEW w \in Workers, Decide(w)
  PROVE  ~ exited /\ JP!Choose
<1>1. /\ ~ exited /\ active /\ queue # <<>> /\ pc[w] = "look"
      /\ pc' = [pc EXCEPT ![w] = "take"] /\ DOMAIN pc = Threads
      /\ job' = job /\ queue' = queue /\ exited' = exited
  BY DEF Decide, MustWait, GivesUp, Goto, queueVars, TypeInv, TypeOK
<1>2. ~ Chosen /\ Chosen'
  BY <1>1, ThreadFacts DEF Chosen, TypeInv, TypeOK
<1>3. /\ ~ Ended(w) /\ ~ Ended(w)'
      /\ \A v \in Workers \ {w} : Ended(v)' <=> Ended(v)
  BY <1>1, ThreadFacts DEF Ended
<1>4. Taken' = Taken /\ Returned' = Returned /\ Returned = {}
  BY <1>1, <1>3 DEF Taken, Returned, ClosesPool
<1> QED
  BY <1>1, <1>2, <1>4 DEF JP!Choose, JP!Closed, Chosen

(* The worker takes the job that was added first.                          *)
LEMMA TakeJobOnPool ==
  ASSUME TypeInv, PlaceInv, NEW w \in Workers, TakeJob(w)
  PROVE  ~ exited /\ JP!Start
<1> DEFINE j == Head(queue)
<1>1. /\ ~ exited /\ queue # <<>> /\ j \in 1..Jobs
      /\ queue' = Tail(queue) /\ exited' = exited
      /\ pc[w] = "take" /\ pc' = [pc EXCEPT ![w] = "run"]
      /\ job' = [job EXCEPT ![w] = j]
  BY TakenFromQueue, HeadTailProperties DEF TakeJob, Rest, Goto
<1>2. /\ DOMAIN pc = Threads /\ job \in [Workers -> 0..Jobs]
      /\ w \in Threads /\ job[w] = 0
      /\ \A v \in Workers \ {w} : pc[v] # "take"
  BY <1>1, ThreadFacts DEF TypeInv, TypeOK, PlaceInv, NoJobYet
<1>3. /\ job'[w] = j /\ \A v \in Workers \ {w} : job'[v] = job[v]
      /\ ~ Ended(w) /\ ~ Ended(w)'
      /\ \A v \in Workers \ {w} : Ended(v)' <=> Ended(v)
  BY <1>1, <1>2, ThreadFacts DEF Ended
<1>4. Taken' = Taken \cup {j}
  BY <1>1, <1>2, <1>3, PoolAssumption DEF Taken
<1>5. Returned' = Returned
  BY <1>1, <1>3 DEF Returned
<1>6. Chosen /\ ~ Chosen'
  BY <1>1, <1>2, ThreadFacts DEF Chosen
<1> QED
  BY <1>1, <1>4, <1>5, <1>6 DEF JP!Start, Chosen

(* A loop that returns had been started and had not returned before.       *)
LEMMA JobEndsOnPool ==
  ASSUME TypeInv, PlaceInv, CauseInv, NEW w \in Workers, JobEnds(w)
  PROVE  ~ exited /\ \E j \in 1..Jobs : JP!Return(j)
<1> DEFINE j == job[w]
<1>1. /\ ~ exited /\ pc[w] = "run" /\ pc' = [pc EXCEPT ![w] = "shut"]
      /\ job' = job /\ queue' = queue /\ exited' = exited
      /\ j \in 1..Jobs
  BY PoolAssumption
     DEF JobEnds, Goto, CauseInv, RunnersHaveJobs, TypeInv, TypeOK
<1>2. /\ Ended(w)' /\ ~ Ended(w)
      /\ \A v \in Workers \ {w} : Ended(v)' <=> Ended(v)
  BY <1>1, ThreadFacts DEF Ended, TypeInv, TypeOK
<1>3. j # 0 /\ j \in Taken /\ Taken' = Taken
  BY <1>1 DEF Taken
<1>4. j \notin Returned
  <2>1. \A v \in Workers : job[v] = j => v = w
    BY <1>3 DEF PlaceInv, TakenOnce
  <2> QED
    BY <1>2, <2>1 DEF Returned
<1>5. Returned' = Returned \cup {j}
  BY <1>1, <1>2, <1>3 DEF Returned
<1>6. Chosen' = Chosen
  BY <1>1, ThreadFacts DEF Chosen, TypeInv, TypeOK
<1> QED
  BY <1>1, <1>3, <1>4, <1>5, <1>6 DEF JP!Return, Chosen

(* Whoever exits, a loop has returned.                                     *)
LEMMA ExitOnPool ==
  ASSUME TypeInv, CauseInv, NEW t \in Threads, Exit(t)
  PROVE  ~ exited /\ JP!ExitProcess
<1>1. /\ ~ exited /\ exited' /\ pc[t] = "join"
      /\ UNCHANGED <<queue, pc, job>>
  BY DEF Exit, queueVars
<1>2. exited' = TRUE
  BY DEF Exit
<1>3. Cause
  BY <1>1, ThreadFacts DEF CauseInv, EndsHaveCause, Ended
<1>4. Returned # {}
  BY <1>3 DEF Cause, Returned
<1>5. Taken' = Taken /\ Returned' = Returned /\ Chosen' = Chosen
  BY <1>1 DEF Taken, Returned, Ended, Chosen
<1> QED
  BY <1>1, <1>2, <1>4, <1>5 DEF JP!ExitProcess, JP!Closed, Chosen

(* The other steps of the threads move no job.                             *)
LEMMA OtherOnPool ==
  ASSUME TypeInv, PlaceInv,
         \/ EndWait
         \/ \E w \in Workers : Lock(w) \/ Wait(w) \/ Wake(w) \/ GiveUp(w)
         \/ \E t \in Threads : Shutdown(t) \/ Join(t)
         \/ UNCHANGED vars
  PROVE  UNCHANGED JP!jobVars
<1> USE ThreadFacts DEF TypeInv, TypeOK, Goto, Ended, queueVars
<1>1. CASE EndWait
  BY <1>1, QuietStep DEF EndWait, AfterWait
<1>2. ASSUME NEW w \in Workers, Lock(w) \/ Wait(w) \/ Wake(w)
      PROVE  UNCHANGED JP!jobVars
  BY <1>2, QuietStep DEF Lock, Wait, Wake
<1>3. ASSUME NEW w \in Workers, GiveUp(w)
      PROVE  UNCHANGED JP!jobVars
  <2>1. job[w] = 0
    BY <1>3 DEF GiveUp, PlaceInv, NoJobYet
  <2> QED
    BY <1>3, <2>1, QuietStep DEF GiveUp
<1>4. ASSUME NEW t \in Threads, Shutdown(t) \/ Join(t)
      PROVE  UNCHANGED JP!jobVars
  <2>1. /\ \A w \in Workers : Ended(w)' <=> Ended(w)
        /\ \A w \in Workers : pc'[w] = "take" <=> pc[w] = "take"
    BY <1>4 DEF Shutdown, Join, PlacesOK
  <2>2. UNCHANGED <<queue, job, exited>>
    BY <1>4 DEF Shutdown, Join
  <2> QED
    BY <2>1, <2>2, QuietStep
<1>5. CASE UNCHANGED vars
  BY <1>5, QuietStep DEF vars
<1> QED
  BY <1>1, <1>2, <1>3, <1>4, <1>5

(* Every pool keeps the promise of JobPool: loops start in the order they  *)
(* were added and each once, at most one after a loop has returned, and    *)
(* the process exits only after one has (thread_pool.c:14-51, 91-109).     *)
THEOREM PoolImplementsJobPool == Spec => ImplementsJobPool
<1>1. Init => JP!JobInit
  <2> SUFFICES ASSUME Init
               PROVE  JP!JobInit
    OBVIOUS
  <2>1. \A w \in Workers : job[w] = 0
    BY DEF Init
  <2>2. Taken = {} /\ Returned = {}
    BY <2>1 DEF Taken, Returned
  <2>3. ~ Chosen
    BY ThreadFacts DEF Init, Chosen
  <2> QED
    BY <2>2, <2>3 DEF Init, JP!JobInit, Chosen
<1>2. Init => ClosesPool
  BY ThreadFacts DEF Init, ClosesPool, Ended
<1>3. TypeInv /\ ClosesPool /\ [Next]_vars => ClosesPool'
  BY StepClosesPool
<1>4. TypeInv /\ PlaceInv /\ CauseInv /\ ClosesPool /\ [Next]_vars
      => [JP!JobNext]_(JP!jobVars)
  BY AddJobOnPool, DecideOnPool, TakeJobOnPool, JobEndsOnPool, ExitOnPool, OtherOnPool,
     ThreadFacts
     DEF Next, MainStep, WorkerStep, JP!JobNext
<1>5. TypeInv /\ PlaceInv /\ CauseInv /\ [Next]_vars => CauseInv'
  BY StepCauseInv
<1> QED
  BY <1>1, <1>2, <1>3, <1>4, <1>5, InitCauseInv, TypeCorrect,
     PlaceInvariant, PTL DEF Spec, ImplementsJobPool, JP!JobSpec
=============================================================================
