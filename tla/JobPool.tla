------------------------------ MODULE JobPool ------------------------------
(***************************************************************************)
(* What the thread pool promises to whoever adds jobs to it, without       *)
(* workers, mutex, signals or joins: jobs start in the order in which they *)
(* were added, each once; the first that returns closes the pool, so that  *)
(* no other is chosen, and the one that may have been chosen by then is    *)
(* the last that starts; and the process exits only after a job has        *)
(* returned.  ThreadPool.tla is shown to implement this module.            *)
(***************************************************************************)
EXTENDS Sequences

CONSTANT Job

VARIABLES pending,      \* the jobs that wait, in the order they were added
          chosen,       \* the first of them is about to start
          started,      \* the jobs that have started
          returned,     \* those of them whose return has closed the pool
          exited        \* the process has exited

jobVars == <<pending, chosen, started, returned, exited>>

Closed == returned # {}

JobInit ==
  /\ pending = <<>> /\ chosen = FALSE
  /\ started = {} /\ returned = {}
  /\ exited = FALSE

Add(j) ==
  /\ j \notin started /\ \A i \in DOMAIN pending : pending[i] # j
  /\ pending' = Append(pending, j)
  /\ UNCHANGED <<chosen, started, returned, exited>>

Choose ==
  /\ pending # <<>> /\ ~ chosen /\ ~ Closed
  /\ chosen' = TRUE
  /\ UNCHANGED <<pending, started, returned, exited>>

Start ==
  /\ pending # <<>> /\ chosen
  /\ started' = started \cup {Head(pending)}
  /\ pending' = Tail(pending)
  /\ chosen' = FALSE
  /\ UNCHANGED <<returned, exited>>

Return(j) ==
  /\ j \in started \ returned
  /\ returned' = returned \cup {j}
  /\ UNCHANGED <<pending, chosen, started, exited>>

ExitProcess ==
  /\ Closed
  /\ exited' = TRUE
  /\ UNCHANGED <<pending, chosen, started, returned>>

JobNext ==
  ~ exited /\ (Choose \/ Start \/ ExitProcess \/ \E j \in Job : Add(j) \/ Return(j))

JobSpec == JobInit /\ [][JobNext]_jobVars
=============================================================================
