------------------------------- MODULE WorkQueue -------------------------------
(***************************************************************************)
(* partial_sync::WorkQueue (work_queue.cpp): tasks run one after the other *)
(* on a thread of their own, which ends when nothing came for half a       *)
(* second and is made again by the next task.                              *)
(*                                                                         *)
(* The members are guarded by one mutex.  The thread has it except while   *)
(* it waits on the condition variable and while it runs the tasks it took, *)
(* so its steps are: the head of its loop, waking up, and each task.       *)
(***************************************************************************)
EXTENDS Integers, Sequences

CONSTANT MaxTasks  \* bounds the tasks ever enqueued
ASSUME MaxTasksAssumption == MaxTasks \in Nat

VARIABLES
  queue,     \* m_queue
  batch,     \* the thread's queue: the tasks it took and has not run
  worker,    \* where the thread is; "none" when it ended or was never made
  stopping,  \* m_stopping
  stopped,   \* m_stopped
  enqueued,  \* history: the tasks given to enqueue, numbered in their order
  executed   \* history: the tasks run, in the order they were

queueVars == <<queue, batch, worker, stopping, stopped, enqueued, executed>>

QueueInit ==
  /\ queue = <<>> /\ batch = <<>>
  /\ worker = "none"
  /\ stopping = FALSE /\ stopped = TRUE
  /\ enqueued = 0 /\ executed = <<>>

\* Faulty: a thread that has ended is not made again.
EnqueueOnly ==
  /\ ~stopping /\ enqueued < MaxTasks
  /\ enqueued' = enqueued + 1
  /\ queue' = Append(queue, enqueued')
  /\ worker' = IF enqueued = 0 THEN "head" ELSE worker
  /\ stopped' = FALSE
  /\ UNCHANGED <<batch, stopping, executed>>

\* enqueue, by any thread but the one that destroys the queue; create_thread
\* joins the thread that ended, which is about to return.
Enqueue ==
  /\ ~stopping /\ enqueued < MaxTasks
  /\ enqueued' = enqueued + 1
  /\ queue' = Append(queue, enqueued')
  /\ worker' = IF stopped THEN "head" ELSE worker
  /\ stopped' = FALSE
  /\ UNCHANGED <<batch, stopping, executed>>

\* Faulty: the tasks that are taken stay in the queue.
TakeCopy ==
  /\ batch' = queue
  /\ worker' = "running"
  /\ UNCHANGED <<queue, stopped>>

\* swap(queue, m_queue)
Take ==
  /\ batch' = queue /\ queue' = <<>>
  /\ worker' = "running"
  /\ UNCHANGED stopped

\* Faulty: m_stopped is not set.
FinishUnmarked ==
  /\ worker' = "none"
  /\ UNCHANGED <<queue, batch, stopped>>

\* The thread ends.
Finish ==
  /\ worker' = "none" /\ stopped' = TRUE
  /\ UNCHANGED <<queue, batch>>

\* The test of the loop, up to the first test of the predicate.
LoopHead ==
  /\ worker = "head"
  /\ \/ stopping /\ Finish
     \/ ~stopping /\ queue # <<>> /\ Take
     \/ /\ ~stopping /\ queue = <<>>
        /\ worker' = "waiting"
        /\ UNCHANGED <<queue, batch, stopped>>
  /\ UNCHANGED <<stopping, enqueued, executed>>

\* wait_for returns: notified, or after half a second.
Wake ==
  /\ worker = "waiting"
  /\ IF queue # <<>> \/ stopping THEN Take ELSE Finish
  /\ UNCHANGED <<stopping, enqueued, executed>>

\* A task runs; after the last the thread takes the mutex again.
Run ==
  /\ worker = "running"
  /\ IF batch = <<>>
     THEN worker' = "head" /\ UNCHANGED <<batch, executed>>
     ELSE /\ executed' = Append(executed, batch[1])
          /\ batch' = Tail(batch)
          /\ UNCHANGED worker
  /\ UNCHANGED <<queue, stopping, stopped, enqueued>>

\* ~WorkQueue, which then joins the thread.
Destroy ==
  /\ ~stopping
  /\ stopping' = TRUE
  /\ UNCHANGED <<queue, batch, worker, stopped, enqueued, executed>>

QueueNext == Enqueue \/ LoopHead \/ Wake \/ Run \/ Destroy

QueueSpec == QueueInit /\ [][QueueNext]_queueVars

\* The thread is scheduled, and wait_for times out at the latest.
QueueFairSpec == QueueSpec /\ WF_queueVars(LoopHead) /\ WF_queueVars(Wake) /\ WF_queueVars(Run)

-------------------------------------------------------------------------------
Workers == {"none", "head", "waiting", "running"}

QueueTypeOK ==
  /\ queue \in Seq(Nat) /\ batch \in Seq(Nat) /\ executed \in Seq(Nat)
  /\ worker \in Workers
  /\ stopping \in BOOLEAN /\ stopped \in BOOLEAN
  /\ enqueued \in Nat

\* Tasks carry the numbers that follow n.
Follows(tasks, n) == \A i \in DOMAIN tasks : tasks[i] = n + i

\* The thread is made when and only when there is none: two never run tasks at
\* a time, and create_thread never joins one that still waits for tasks.
StoppedMeansNoThread == stopped <=> worker = "none"

\* No task is lost between the queue, the batch and a thread that ends.
NoTaskLeftBehind ==
  /\ worker # "running" => batch = <<>>
  /\ worker = "none" /\ ~stopping => queue = <<>>

\* Every task is run at most once and in the order of enqueue, by whichever
\* thread; those not run yet wait in the same order.
RunsInOrder ==
  /\ Follows(executed, 0)
  /\ Follows(batch, Len(executed))
  /\ Follows(queue, Len(executed) + Len(batch))
  /\ enqueued = Len(executed) + Len(batch) + Len(queue)

\* The state of the queue is sound: an inductive invariant.
WorkInv == QueueTypeOK /\ StoppedMeansNoThread /\ NoTaskLeftBehind /\ RunsInOrder

\* A task is run in the end, unless the queue is destroyed.
EveryTaskRuns ==
  \A k \in 1 .. MaxTasks : enqueued >= k ~> Len(executed) >= k \/ stopping

\* The destructor returns: the thread it joins ends.
DestructorReturns == stopping ~> worker = "none"

\* Nobody waits for the queue for ever, neither a task nor its destructor.
WorkEnds == EveryTaskRuns /\ DestructorReturns

\* What users of the queue rely on: tasks that were enqueued are run one at a
\* time, the oldest first.
Serial == INSTANCE SerialTasks WITH done <- executed, given <- enqueued

SerialSpec == Serial!Spec
===============================================================================
