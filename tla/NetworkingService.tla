-------------------------- MODULE NetworkingService --------------------------
(***************************************************************************)
(* NetworkingService.fetchTVShows: one URLSession task per fetch, the      *)
(* previous one cancelled first, and its completion handler posted to the  *)
(* main queue, where it either ignores the answer or calls onCompletion.   *)
(* The caller is an open environment: it may fetch at any time.            *)
(*                                                                         *)
(* Of a response only what onCompletion can tell apart is kept: a decoded  *)
(* array, or a failure (a transport error, the session's timeout, or a     *)
(* body that does not decode).  Cancelling a task that has completed does  *)
(* nothing; its handler may still wait on the main queue.                  *)
(***************************************************************************)
EXTENDS Integers, Sequences

CONSTANTS Lists,      \* the arrays of shows the endpoint can answer with
          MaxFetches  \* bound on the number of fetches

ASSUME MaxFetchesAssumption == MaxFetches \in Nat

Failed == [kind |-> "failed"]
Cancelled == [kind |-> "cancelled"]
Answers == [kind : {"shows"}, shows : Lists] \cup {Failed}
Fetches == 1 .. MaxFetches

VARIABLES
  issued,     \* number of fetches; the last one is "task"
  status,     \* state of each fetch's URLSession task
  mainQueue,  \* completion blocks posted to the main queue, in order
  answered    \* history: the fetch onCompletion ran for last

netVars == <<issued, status, mainQueue, answered>>

NetInit ==
  /\ issued = 0
  /\ status = [n \in Fetches |-> "unsent"]
  /\ mainQueue = <<>>
  /\ answered = 0

\* Faulty: the task is made and never resumed.
FetchSuspended ==
  /\ issued < MaxFetches
  /\ issued' = issued + 1
  /\ UNCHANGED <<status, mainQueue, answered>>

\* task?.cancel(); task = dataTask(...); task?.resume()
Fetch ==
  /\ issued < MaxFetches
  /\ issued' = issued + 1
  /\ status' = [n \in Fetches |->
                  IF n = issued /\ status[n] = "running" THEN "cancelled"
                  ELSE IF n = issued + 1 THEN "running" ELSE status[n]]
  /\ UNCHANGED <<mainQueue, answered>>

\* URLSession calls the completion handler of fetch n on its own queue.
Post(n, outcome) ==
  /\ status' = [status EXCEPT ![n] = "finished"]
  /\ mainQueue' = Append(mainQueue, [fetch |-> n, outcome |-> outcome])
  /\ UNCHANGED <<issued, answered>>

Finish ==
  \E n \in Fetches : status[n] = "running" /\ \E a \in Answers : Post(n, a)

FinishCancelled ==
  \E n \in Fetches : status[n] = "cancelled" /\ Post(n, Cancelled)

Complete == Finish \/ FinishCancelled

\* Faulty: a cancellation is passed on as an error.
TakeAnyOutcome ==
  /\ mainQueue # <<>>
  /\ mainQueue' = Tail(mainQueue)
  /\ answered' = Head(mainQueue).fetch
  /\ UNCHANGED <<issued, status>>

\* Faulty: blocks run on a concurrent queue, in any order.
TakeAnyBlock ==
  \E i \in DOMAIN mainQueue :
    /\ mainQueue' = SubSeq(mainQueue, 1, i - 1)
                      \o SubSeq(mainQueue, i + 1, Len(mainQueue))
    /\ answered' = IF mainQueue[i].outcome = Cancelled
                   THEN answered ELSE mainQueue[i].fetch
    /\ UNCHANGED <<issued, status>>

\* The block on the main queue: NSURLErrorCancelled returns, everything else
\* reaches onCompletion.
TakeBlock ==
  /\ mainQueue # <<>>
  /\ mainQueue' = Tail(mainQueue)
  /\ answered' = IF Head(mainQueue).outcome = Cancelled
                 THEN answered ELSE Head(mainQueue).fetch
  /\ UNCHANGED <<issued, status>>

NetNext == Fetch \/ Complete \/ TakeBlock

\* A task ends by itself, at the latest by the session's timeout, and the main
\* run loop drains its queue. Nothing obliges the caller to fetch.
NetSpec == NetInit /\ [][NetNext]_netVars /\ WF_netVars(Complete) /\ WF_netVars(TakeBlock)

-------------------------------------------------------------------------------
\* Properties.

\* No fetch is under way: no task to complete, no block to run.
Quiet ==
  /\ mainQueue = <<>>
  /\ \A n \in Fetches : status[n] \notin {"running", "cancelled"}

\* Every variable stays in its domain; fetches not yet issued are unsent.
NetTypeOK ==
  /\ issued \in 0 .. MaxFetches /\ answered \in 0 .. issued
  /\ status \in [Fetches -> {"unsent", "running", "cancelled", "finished"}]
  /\ mainQueue \in Seq([fetch : Fetches, outcome : Answers \cup {Cancelled}])
  /\ \A n \in Fetches : (status[n] = "unsent") = (n > issued)

\* Only the newest fetch can still bring shows: every older one is cancelled,
\* finished or about to be ignored.
OnlyNewestRuns == \A n \in Fetches : status[n] = "running" => n = issued

\* onCompletion runs in the order of the fetches: a slow answer to an earlier
\* fetch never replaces the answer to a later one.
AnswersInOrder == [][answered' >= answered]_netVars

\* Once nothing is under way, what the caller was told last is the answer to
\* its last fetch.
LastAnswerWins == Quiet => answered = issued

\* Answers wait on the main queue in the order of their fetches, all newer than
\* the one told last, and the newest fetch runs, waits there, or was told.
AnswersAreQueued ==
  /\ answered > 0 => status[answered] = "finished"
  /\ \A i \in DOMAIN mainQueue : status[mainQueue[i].fetch] = "finished"
  /\ \A i \in DOMAIN mainQueue : mainQueue[i].outcome # Cancelled =>
       /\ mainQueue[i].fetch > answered
       /\ \A j \in DOMAIN mainQueue : j < i /\ mainQueue[j].outcome # Cancelled =>
            mainQueue[j].fetch < mainQueue[i].fetch
  /\ \/ answered = issued
     \/ status[issued] = "running"
     \/ \E i \in DOMAIN mainQueue :
          mainQueue[i].fetch = issued /\ mainQueue[i].outcome # Cancelled

\* Where fetches and their answers can be: the inductive invariant, with what
\* the caller relies on, LastAnswerWins.
NetInv == NetTypeOK /\ OnlyNewestRuns /\ AnswersAreQueued /\ LastAnswerWins

\* When the caller stops fetching, its last fetch is answered.
LastFetchAnswered == <>[](answered = issued)
===============================================================================
