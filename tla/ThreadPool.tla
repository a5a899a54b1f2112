----------------------------- MODULE ThreadPool -----------------------------
(***************************************************************************)
(* The pool that runs the server: launch_server adds one job for each loop *)
(* and waits for the workers.  A job that returns NULL, as a loop does     *)
(* when it gives up, makes its worker shut the pool down and exit.         *)
(*                                                                         *)
(* pthread_join is that of the C library the server is built with: joining *)
(* oneself, or the thread that is joining us, fails at once, and so does   *)
(* joining a thread somebody is joining already.  No worker ever returns,  *)
(* so that a join that does not fail lasts until the process exits.        *)
(***************************************************************************)
EXTENDS Naturals, Sequences, FiniteSets

CONSTANTS
  PoolSize,     \* workers; thread_pool_init makes them three at least
  Jobs,         \* how many jobs launch_server adds
  MayEnd        \* the jobs that may return

ASSUME PoolAssumption ==
  /\ PoolSize \in Nat /\ PoolSize >= 3
  /\ Jobs \in Nat \ {0}
  /\ MayEnd \subseteq 1..Jobs

Main == 0
Workers == 1..PoolSize
Threads == {Main} \cup Workers
NoThread == PoolSize + 1

VARIABLES
  queue,        \* tpool->jobs
  active,       \* tpool->active
  mutex,        \* the thread that holds q_mutex
  waiting,      \* the workers asleep on q_cond
  pc,
  job,          \* the job each worker has taken
  at,           \* how far each thread is in its loop: a job or a worker
  joiner,       \* the thread that is joining each worker
  exited        \* the process has exited

vars == <<queue, active, mutex, waiting, pc, job, at, joiner, exited>>
queueVars == <<queue, active, mutex, waiting>>

Goto(t, l) == [pc EXCEPT ![t] = l]

SlipMutexFree == TRUE                   \* q_mutex is never locked
MutexFree == mutex = NoThread

-----------------------------------------------------------------------------
(* add_job, called by the main thread for each loop. *)
AddJob ==
  /\ ~ exited /\ pc[Main] = "add" /\ MutexFree
  /\ queue' = Append(queue, at[Main])
  /\ IF waiting = {} THEN UNCHANGED waiting
     ELSE \E w \in waiting : waiting' = waiting \ {w}
  /\ at' = [at EXCEPT ![Main] = IF @ = Jobs THEN 1 ELSE @ + 1]
  /\ pc' = IF at[Main] = Jobs THEN Goto(Main, "pool_wait") ELSE pc
  /\ UNCHANGED <<active, mutex, job, joiner, exited>>

(* thread_pool_job *)
Lock(w) ==
  /\ ~ exited /\ pc[w] = "lock" /\ MutexFree
  /\ mutex' = w
  /\ pc' = Goto(w, "look")
  /\ UNCHANGED <<queue, active, waiting, job, at, joiner, exited>>

SlipMustWait(w) == active               \* sleeps without a look at the queue
MustWait(w) == queue = <<>> /\ active

Wait(w) ==
  /\ ~ exited /\ pc[w] = "look"
  /\ MustWait(w)
  /\ waiting' = waiting \cup {w}
  /\ mutex' = NoThread
  /\ pc' = Goto(w, "wait")
  /\ UNCHANGED <<queue, active, job, at, joiner, exited>>

Wake(w) ==
  /\ ~ exited /\ pc[w] = "wait" /\ w \notin waiting
  /\ pc' = Goto(w, "lock")
  /\ UNCHANGED <<queueVars, job, at, joiner, exited>>

(* The pool is no longer active: the loop ends with the mutex still held.  *)
(* Otherwise a job is dequeued, even if active is cleared in between.      *)
SlipGivesUp(w) == ~ active /\ queue = <<>>     \* empties the queue first
GivesUp(w) == ~ active

GiveUp(w) ==
  /\ ~ exited /\ pc[w] = "look" /\ ~ MustWait(w) /\ GivesUp(w)
  /\ pc' = Goto(w, "shut")
  /\ UNCHANGED <<queueVars, job, at, joiner, exited>>

Decide(w) ==
  /\ ~ exited /\ pc[w] = "look" /\ ~ MustWait(w) /\ ~ GivesUp(w)
  /\ pc' = Goto(w, "take")
  /\ UNCHANGED <<queueVars, job, at, joiner, exited>>

SlipRest(q) == q                        \* the head stays in the queue
Rest(q) == Tail(q)

TakeJob(w) ==
  /\ ~ exited /\ pc[w] = "take"
  /\ job' = [job EXCEPT ![w] = Head(queue)]
  /\ queue' = Rest(queue)
  /\ mutex' = NoThread
  /\ pc' = Goto(w, "run")
  /\ UNCHANGED <<active, waiting, at, joiner, exited>>

Taken == {job[w] : w \in Workers} \ {0}

(* A loop returns NULL; active is written without the mutex. *)
JobEnds(w) ==
  /\ ~ exited /\ pc[w] = "run"
  /\ job[w] \in MayEnd
  /\ active' = FALSE
  /\ pc' = Goto(w, "shut")
  /\ UNCHANGED <<queue, mutex, waiting, job, at, joiner, exited>>

(* thread_pool_shutdown: the critical section, where a thread that already *)
(* holds the mutex waits for itself, and the joins.                        *)
Shutdown(t) ==
  /\ ~ exited /\ pc[t] = "shut" /\ MutexFree
  /\ active' = FALSE
  /\ waiting' = {}
  /\ at' = [at EXCEPT ![t] = 1]
  /\ pc' = Goto(t, "join")
  /\ UNCHANGED <<queue, mutex, job, joiner, exited>>

JoinFails(t, w) == w = t \/ (t # Main /\ joiner[t] = w) \/ joiner[w] # NoThread

(* pthread_join in thread_pool_shutdown and thread_pool_wait. *)
Join(t) ==
  /\ ~ exited /\ pc[t] \in {"join", "pool_wait"} /\ at[t] <= PoolSize
  /\ IF JoinFails(t, at[t])
     THEN /\ at' = [at EXCEPT ![t] = @ + 1]
          /\ UNCHANGED <<pc, joiner>>
     ELSE /\ joiner' = [joiner EXCEPT ![at[t]] = t]
          /\ pc' = Goto(t, "joining")
          /\ UNCHANGED at
  /\ UNCHANGED <<queueVars, job, exited>>

(* launch_server shuts the pool down when every join has failed. *)
SlipAfterWait == "joining"              \* waits for the workers for ever
AfterWait == "shut"

EndWait ==
  /\ ~ exited /\ pc[Main] = "pool_wait" /\ at[Main] > PoolSize
  /\ pc' = Goto(Main, AfterWait)
  /\ UNCHANGED <<queueVars, job, at, joiner, exited>>

(* The pool is freed and the process exits. *)
Exit(t) ==
  /\ ~ exited /\ pc[t] = "join" /\ at[t] > PoolSize
  /\ exited' = TRUE
  /\ UNCHANGED <<queueVars, pc, job, at, joiner>>

-----------------------------------------------------------------------------
Init ==
  /\ queue = <<>> /\ active = TRUE
  /\ mutex = NoThread /\ waiting = {}
  /\ pc = [t \in Threads |-> IF t = Main THEN "add" ELSE "lock"]
  /\ job = [w \in Workers |-> 0]
  /\ at = [t \in Threads |-> 1]
  /\ joiner = [w \in Workers |-> NoThread]
  /\ exited = FALSE

WorkerStep(w) == \/ Lock(w) \/ Wait(w) \/ Wake(w) \/ GiveUp(w) \/ Decide(w)
                 \/ TakeJob(w) \/ Shutdown(w) \/ Join(w) \/ Exit(w)

MainStep == AddJob \/ Join(Main) \/ EndWait \/ Shutdown(Main) \/ Exit(Main)

Next == MainStep \/ \E w \in Workers : WorkerStep(w) \/ JobEnds(w)

Spec == Init /\ [][Next]_vars

(* Every thread that can go on does; a loop need not return. *)
Fairness == WF_vars(MainStep) /\ \A w \in Workers : WF_vars(WorkerStep(w))
FairSpec == Spec /\ Fairness

-----------------------------------------------------------------------------
(* Properties *)

Ended(w) == pc[w] \in {"shut", "join", "joining"}

(* The queue, the mutex and the joins stay consistent: a worker inside the *)
(* critical section holds the mutex, and a worker that sleeps does not     *)
(* (thread_pool.c:9-51).                                                   *)
TypeOK ==
  /\ queue \in Seq(1..Jobs) /\ active \in BOOLEAN
  /\ mutex \in Workers \cup {NoThread} /\ waiting \subseteq Workers
  /\ pc \in [Threads -> {"add", "lock", "look", "wait", "take", "run",
                         "shut", "join", "pool_wait", "joining"}]
  /\ job \in [Workers -> 0..Jobs] /\ at \in [Threads -> Nat]
  /\ joiner \in [Workers -> Threads \cup {NoThread}]
  /\ exited \in BOOLEAN
  /\ \A w \in Workers : pc[w] \in {"look", "take"} => mutex = w
  /\ \A w \in waiting : pc[w] = "wait"

(* No loop runs twice and none is lost: a job that was added is in the     *)
(* queue or with one worker (thread_pool.c:24-30, 43-51).                  *)
JobOnce ==
  LET added == IF pc[Main] = "add" THEN 1..(at[Main] - 1) ELSE 1..Jobs
      Queued(j) == {i \in DOMAIN queue : queue[i] = j}
      With(j) == {w \in Workers : job[w] = j}
  IN \A j \in added : Cardinality(Queued(j)) + Cardinality(With(j)) = 1

(* The pool implements JobPool.tla: the loops start in the order they were *)
(* added, at most one once a loop has returned, and the process exits only *)
(* after one has (thread_pool.c:14-51, 91-109).                            *)
Returned == {job[w] : w \in {v \in Workers : Ended(v)}} \ {0}
JP == INSTANCE JobPool WITH Job <- 1..Jobs, pending <- queue,
                            started <- Taken, returned <- Returned,
                            chosen <- \E w \in Workers : pc[w] = "take"
ImplementsJobPool == JP!JobSpec

(* All three loops start, however the workers and the main thread race for *)
(* the queue, unless one gives up before: no signal is lost                *)
(* (thread_pool.c:17-19, 45-50).                                           *)
JobsStart == <>(Taken = 1..Jobs \/ \E w \in Workers : Ended(w))

(* When all the loops have given up the process does not linger: the joins *)
(* of the workers may wait for one another in a circle, but the main       *)
(* thread then falls through its own and exits (thread_pool.c:91-116).     *)
AllEndedExits ==
  (Taken = 1..Jobs /\ \A w \in Workers : Ended(w)) ~> exited
=============================================================================
