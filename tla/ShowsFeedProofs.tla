--------------------------- MODULE ShowsFeedProofs ---------------------------
(***************************************************************************)
(* Proofs about NetworkingService and about ShowsFeed, which uses it, for  *)
(* any set of answers and any bound on fetches.                            *)
(*                                                                         *)
(* First, for a caller that fetches whenever it likes: fetches are         *)
(* answered in their order and the last answer wins.  Then for the screen: *)
(* its loads are sequential, so the cancellation in NetworkingService      *)
(* never has anything to cancel, and a list once shown stays.              *)
(***************************************************************************)
EXTENDS ShowsFeed, TLAPS

\* The part of NetInv that is inductive by itself.
Inductive == NetTypeOK /\ OnlyNewestRuns /\ AnswersAreQueued

Entries == [fetch : Fetches, outcome : Answers \cup {Cancelled}]

\* No answer is a cancellation.
LEMMA AnswersAreNotCancelled == \A a \in Answers : a # Cancelled
<1>1. Failed.kind = "failed" /\ Cancelled.kind = "cancelled"
  BY DEF Failed, Cancelled
<1>2. \A a \in [kind : {"shows"}, shows : Lists] : a.kind = "shows"
  OBVIOUS
<1> QED BY <1>1, <1>2 DEF Answers

\* A block is posted at the end of the queue.
LEMMA AppendEntry ==
  ASSUME NEW q \in Seq(Entries), NEW e \in Entries
  PROVE  /\ Append(q, e) \in Seq(Entries) /\ Len(q) \in Nat
         /\ DOMAIN q = 1 .. Len(q) /\ DOMAIN Append(q, e) = 1 .. Len(q) + 1
         /\ \A i \in 1 .. Len(q) : Append(q, e)[i] = q[i]
         /\ Append(q, e)[Len(q) + 1] = e
  OBVIOUS

\* And taken from its beginning.
LEMMA TailEntry ==
  ASSUME NEW q \in Seq(Entries), q # <<>>
  PROVE  /\ Tail(q) \in Seq(Entries) /\ Head(q) = q[1] /\ 1 \in DOMAIN q
         /\ Len(q) \in Nat /\ DOMAIN q = 1 .. Len(q) /\ DOMAIN Tail(q) = 1 .. Len(q) - 1
         /\ \A i \in 1 .. Len(q) - 1 : Tail(q)[i] = q[i + 1] /\ i + 1 \in DOMAIN q
  OBVIOUS

\* Where the counters and the entries of the queue lie.
LEMMA Ranges ==
  NetTypeOK => /\ issued \in Nat /\ issued <= MaxFetches /\ MaxFetches \in Nat
               /\ answered \in Nat /\ answered <= issued
               /\ answered > 0 => answered \in Fetches
               /\ \A n \in Fetches : n \in Nat /\ n > 0
               /\ \A n \in Fetches : status[n] # "unsent" => n <= issued
               /\ mainQueue \in Seq(Entries)
               /\ \A i \in DOMAIN mainQueue : mainQueue[i].fetch \in Fetches
<1> SUFFICES ASSUME NetTypeOK
             PROVE  /\ issued \in Nat /\ issued <= MaxFetches /\ MaxFetches \in Nat
                    /\ answered \in Nat /\ answered <= issued
                    /\ answered > 0 => answered \in Fetches
                    /\ \A n \in Fetches : n \in Nat /\ n > 0
                    /\ \A n \in Fetches : status[n] # "unsent" => n <= issued
                    /\ mainQueue \in Seq(Entries)
                    /\ \A i \in DOMAIN mainQueue : mainQueue[i].fetch \in Fetches
  OBVIOUS
<1>1. issued \in 0 .. MaxFetches /\ answered \in 0 .. issued
  BY DEF NetTypeOK
<1>2. MaxFetches \in Nat /\ issued \in Nat /\ issued <= MaxFetches
  BY <1>1, MaxFetchesAssumption
<1>3. answered \in Nat /\ answered <= issued /\ (answered > 0 => answered \in Fetches)
  BY <1>1, <1>2 DEF Fetches
<1>4. \A n \in Fetches : n \in Nat /\ n > 0
  BY <1>2 DEF Fetches
<1>5. \A n \in Fetches : status[n] # "unsent" => n <= issued
  <2>1. \A n \in Fetches : status[n] # "unsent" => ~ (n > issued)
    BY DEF NetTypeOK
  <2> QED BY <1>2, <1>4, <2>1
<1>6. mainQueue \in Seq(Entries)
  BY DEF NetTypeOK, Entries
<1>7. \A i \in DOMAIN mainQueue : mainQueue[i].fetch \in Fetches
  <2>1. \A i \in DOMAIN mainQueue : mainQueue[i] \in Entries
    BY <1>6
  <2>2. \A e \in Entries : e.fetch \in Fetches
    BY DEF Entries
  <2> QED BY <2>1, <2>2
<1> QED BY <1>2, <1>3, <1>4, <1>5, <1>6, <1>7

\* Nothing is under way at first.
LEMMA InitInductive == NetInit => Inductive
<1> SUFFICES ASSUME NetInit PROVE Inductive
  OBVIOUS
<1>1. <<>> \in Seq(Entries) /\ DOMAIN <<>> = {}
  OBVIOUS
<1>2. NetTypeOK
  BY <1>1, MaxFetchesAssumption DEF NetInit, NetTypeOK, Fetches, Entries
<1>3. OnlyNewestRuns /\ AnswersAreQueued
  BY <1>1 DEF NetInit, OnlyNewestRuns, AnswersAreQueued
<1> QED BY <1>2, <1>3 DEF Inductive

\* A fetch cancels the one before, if that still runs.
LEMMA FetchKeeps == Inductive /\ Fetch => Inductive'
<1> SUFFICES ASSUME Inductive, Fetch PROVE Inductive'
  OBVIOUS
<1> USE DEF Inductive
<1>1. /\ issued \in Nat /\ issued + 1 \in Fetches /\ issued' = issued + 1
      /\ answered \in 0 .. issued /\ UNCHANGED <<mainQueue, answered>>
  BY MaxFetchesAssumption DEF Fetch, NetTypeOK, Fetches
<1>2. \A n \in Fetches : status'[n] =
        IF n = issued /\ status[n] = "running" THEN "cancelled"
        ELSE IF n = issued + 1 THEN "running" ELSE status[n]
  BY DEF Fetch
<1>3. status' \in [Fetches -> {"unsent", "running", "cancelled", "finished"}]
  BY DEF Fetch, NetTypeOK
<1>4. \A n \in Fetches : status[n] = "finished" => status'[n] = "finished"
  BY <1>1, <1>2 DEF NetTypeOK, Fetches
<1>5. NetTypeOK'
  <2>1. \A n \in Fetches : (status'[n] = "unsent") = (n > issued')
    BY <1>1, <1>2 DEF NetTypeOK, Fetches
  <2>2. issued' \in 0 .. MaxFetches /\ answered' \in 0 .. issued'
    BY <1>1, MaxFetchesAssumption DEF Fetches
  <2> QED BY <1>1, <1>3, <2>1, <2>2 DEF NetTypeOK
<1>6. OnlyNewestRuns'
  BY <1>1, <1>2 DEF OnlyNewestRuns
<1>7. AnswersAreQueued'
  <2>1. answered > 0 => answered \in Fetches
    BY Ranges
  <2>2. \A i \in DOMAIN mainQueue : mainQueue[i].fetch \in Fetches
    BY Ranges
  <2>3. status'[issued'] = "running"
    BY <1>1, <1>2
  <2> QED BY <1>1, <1>4, <2>1, <2>2, <2>3 DEF AnswersAreQueued
<1> QED BY <1>5, <1>6, <1>7

\* The answer to the newest fetch is newer than all that wait; a cancelled task
\* posts a block that tells nothing.
LEMMA CompleteKeeps == Inductive /\ Complete => Inductive'
<1> SUFFICES ASSUME Inductive, Complete PROVE Inductive'
  OBVIOUS
<1> USE DEF Inductive
<1>1. PICK n \in Fetches, o \in Answers \cup {Cancelled} :
        /\ Post(n, o)
        /\ \/ status[n] = "running" /\ o # Cancelled
           \/ status[n] = "cancelled" /\ o = Cancelled
  BY AnswersAreNotCancelled DEF Complete, Finish, FinishCancelled
<1> DEFINE e == [fetch |-> n, outcome |-> o]
<1>2. /\ e \in Entries /\ mainQueue \in Seq(Entries) /\ mainQueue' = Append(mainQueue, e)
      /\ status' = [status EXCEPT ![n] = "finished"]
      /\ UNCHANGED <<issued, answered>>
  BY <1>1 DEF Post, Entries, NetTypeOK
<1>3. e.fetch = n /\ e.outcome = o
  OBVIOUS
<1> HIDE DEF e
<1>4. /\ mainQueue' \in Seq(Entries) /\ Len(mainQueue) \in Nat
      /\ DOMAIN mainQueue = 1 .. Len(mainQueue)
      /\ DOMAIN mainQueue' = 1 .. Len(mainQueue) + 1
      /\ \A i \in 1 .. Len(mainQueue) : mainQueue'[i] = mainQueue[i]
      /\ mainQueue'[Len(mainQueue) + 1] = e
  BY <1>2, AppendEntry
<1>5. \A i \in DOMAIN mainQueue : mainQueue[i].fetch \in Fetches
  BY Ranges
<1>6. /\ issued \in Nat /\ answered \in Nat /\ answered <= issued
      /\ n \in Nat /\ n > 0 /\ n <= issued
  BY <1>1, Ranges
<1>7. \A k \in Fetches : status[k] = "finished" =>
        status'[k] = "finished" /\ k <= issued /\ k \in Nat
  BY <1>2, Ranges DEF NetTypeOK
<1>8. NetTypeOK'
  <2>1. \A k \in Fetches : (status'[k] = "unsent") = (k > issued')
    BY <1>1, <1>2 DEF NetTypeOK
  <2> QED BY <1>2, <1>4, <2>1 DEF NetTypeOK, Entries
<1>9. OnlyNewestRuns'
  BY <1>2 DEF OnlyNewestRuns, NetTypeOK
<1>10. AnswersAreQueued'
  <2>1. answered > 0 => answered \in Fetches
    BY Ranges
  <2>2. status'[n] = "finished"
    BY <1>2 DEF NetTypeOK
  <2>3. (answered > 0 => status[answered] = "finished")'
    BY <1>2, <1>7, <2>1 DEF AnswersAreQueued
  <2>4. \A i \in DOMAIN mainQueue' : status'[mainQueue'[i].fetch] = "finished"
    BY <1>3, <1>4, <1>5, <1>7, <2>2 DEF AnswersAreQueued
  <2>5. o # Cancelled => n = issued /\ n > answered
    <3>1. o # Cancelled => n = issued /\ status[n] = "running"
      BY <1>1 DEF OnlyNewestRuns
    <3>2. answered > 0 => status[answered] = "finished"
      BY DEF AnswersAreQueued
    <3>3. o # Cancelled /\ answered > 0 => answered # n
      BY <3>1, <3>2
    <3> QED BY <1>6, <3>1, <3>3
  <2>6. o # Cancelled => \A i \in DOMAIN mainQueue : mainQueue[i].fetch < n
    <3> SUFFICES ASSUME o # Cancelled, NEW i \in DOMAIN mainQueue
                 PROVE  mainQueue[i].fetch < n
      OBVIOUS
    <3>1. mainQueue[i].fetch <= issued /\ mainQueue[i].fetch \in Nat
      BY <1>5, <1>7 DEF AnswersAreQueued
    <3>2. mainQueue[i].fetch # n
      BY <1>1 DEF AnswersAreQueued
    <3>3. n = issued /\ issued \in Nat
      BY <1>6, <2>5
    <3> QED BY <3>1, <3>2, <3>3
  <2>7. \A i \in DOMAIN mainQueue' : mainQueue'[i].outcome # Cancelled =>
          /\ mainQueue'[i].fetch > answered'
          /\ \A j \in DOMAIN mainQueue' : j < i /\ mainQueue'[j].outcome # Cancelled =>
               mainQueue'[j].fetch < mainQueue'[i].fetch
    <3> SUFFICES ASSUME NEW i \in DOMAIN mainQueue', mainQueue'[i].outcome # Cancelled
                 PROVE  /\ mainQueue'[i].fetch > answered
                        /\ \A j \in DOMAIN mainQueue' :
                             j < i /\ mainQueue'[j].outcome # Cancelled =>
                               mainQueue'[j].fetch < mainQueue'[i].fetch
      BY <1>2
    <3>1. CASE i = Len(mainQueue) + 1
      <4>1. mainQueue'[i].fetch = n /\ o # Cancelled
        BY <1>3, <1>4, <3>1
      <4>2. \A j \in DOMAIN mainQueue' : j < i => j \in DOMAIN mainQueue
                                                 /\ mainQueue'[j] = mainQueue[j]
        BY <1>4, <3>1
      <4> QED BY <2>5, <2>6, <4>1, <4>2
    <3>2. CASE i # Len(mainQueue) + 1
      <4>1. i \in DOMAIN mainQueue /\ mainQueue'[i] = mainQueue[i]
        BY <1>4, <3>2
      <4>2. \A j \in DOMAIN mainQueue' : j < i => j \in DOMAIN mainQueue
                                                 /\ mainQueue'[j] = mainQueue[j]
        BY <1>4, <4>1
      <4> QED BY <4>1, <4>2 DEF AnswersAreQueued
    <3> QED BY <3>1, <3>2
  <2>8. (\/ answered = issued
         \/ status[issued] = "running"
         \/ \E i \in DOMAIN mainQueue :
              mainQueue[i].fetch = issued /\ mainQueue[i].outcome # Cancelled)'
    <3>1. CASE o # Cancelled
      <4>1. Len(mainQueue) + 1 \in DOMAIN mainQueue'
        BY <1>4
      <4> QED BY <1>2, <1>3, <1>4, <2>5, <3>1, <4>1
    <3>2. CASE o = Cancelled /\ status[issued] = "running"
      <4>1. n # issued
        BY <1>1, <3>2
      <4>2. issued \in DOMAIN status
        BY <1>6, <1>1, MaxFetchesAssumption DEF NetTypeOK, Fetches
      <4> QED BY <1>2, <3>2, <4>1, <4>2 DEF NetTypeOK
    <3>3. CASE o = Cancelled /\ status[issued] # "running"
      <4>1. CASE answered = issued
        BY <1>2, <4>1
      <4>2. CASE answered # issued
        <5>1. PICK i \in DOMAIN mainQueue :
                mainQueue[i].fetch = issued /\ mainQueue[i].outcome # Cancelled
          BY <3>3, <4>2 DEF AnswersAreQueued
        <5>2. i \in DOMAIN mainQueue' /\ mainQueue'[i] = mainQueue[i]
          BY <1>4
        <5> QED BY <1>2, <5>1, <5>2
      <4> QED BY <4>1, <4>2
    <3> QED BY <3>1, <3>2, <3>3
  <2> QED BY <2>3, <2>4, <2>7, <2>8 DEF AnswersAreQueued
<1> QED BY <1>8, <1>9, <1>10

\* The block that is taken is older than those that stay, and newer than what
\* was told before.
LEMMA TakeBlockKeeps ==
  Inductive /\ TakeBlock => Inductive' /\ answered' >= answered
<1> SUFFICES ASSUME Inductive, TakeBlock PROVE Inductive' /\ answered' >= answered
  OBVIOUS
<1> USE DEF Inductive
<1>1. /\ mainQueue \in Seq(Entries) /\ mainQueue # <<>> /\ mainQueue' = Tail(mainQueue)
      /\ answered' = IF Head(mainQueue).outcome = Cancelled
                     THEN answered ELSE Head(mainQueue).fetch
      /\ UNCHANGED <<issued, status>>
  BY DEF TakeBlock, NetTypeOK, Entries
<1>2. /\ mainQueue' \in Seq(Entries) /\ Head(mainQueue) = mainQueue[1]
      /\ Len(mainQueue) \in Nat /\ 1 \in DOMAIN mainQueue
      /\ DOMAIN mainQueue = 1 .. Len(mainQueue)
      /\ DOMAIN mainQueue' = 1 .. Len(mainQueue) - 1
      /\ \A i \in 1 .. Len(mainQueue) - 1 :
           mainQueue'[i] = mainQueue[i + 1] /\ i + 1 \in DOMAIN mainQueue
  BY <1>1, TailEntry
<1>3. issued \in Nat /\ answered \in Nat /\ answered <= issued
  BY Ranges
<1>4. \A i \in DOMAIN mainQueue : /\ mainQueue[i].fetch \in Fetches
                                  /\ mainQueue[i].fetch \in Nat /\ mainQueue[i].fetch > 0
                                  /\ mainQueue[i].fetch <= issued
  <2> SUFFICES ASSUME NEW i \in DOMAIN mainQueue
               PROVE  /\ mainQueue[i].fetch \in Fetches
                      /\ mainQueue[i].fetch \in Nat /\ mainQueue[i].fetch > 0
                      /\ mainQueue[i].fetch <= issued
    OBVIOUS
  <2>1. mainQueue[i].fetch \in Fetches /\ status[mainQueue[i].fetch] = "finished"
    BY Ranges DEF AnswersAreQueued
  <2> QED BY <2>1, Ranges
<1>5. mainQueue[1].outcome # Cancelled => mainQueue[1].fetch > answered
  BY <1>2 DEF AnswersAreQueued
<1>6. /\ answered' \in 0 .. issued /\ answered' >= answered
      /\ answered' > 0 => status[answered'] = "finished"
  BY <1>1, <1>2, <1>3, <1>4, <1>5 DEF AnswersAreQueued
<1>7. NetTypeOK'
  BY <1>1, <1>2, <1>6 DEF NetTypeOK, Entries
<1>8. OnlyNewestRuns'
  BY <1>1 DEF OnlyNewestRuns
<1>9. AnswersAreQueued'
  <2>1. \A i \in DOMAIN mainQueue' : status'[mainQueue'[i].fetch] = "finished"
    BY <1>1, <1>2 DEF AnswersAreQueued
  <2>2. \A i \in DOMAIN mainQueue' : mainQueue'[i].outcome # Cancelled =>
          /\ mainQueue'[i].fetch > answered'
          /\ \A j \in DOMAIN mainQueue' : j < i /\ mainQueue'[j].outcome # Cancelled =>
               mainQueue'[j].fetch < mainQueue'[i].fetch
    <3> SUFFICES ASSUME NEW i \in DOMAIN mainQueue', mainQueue'[i].outcome # Cancelled
                 PROVE  /\ mainQueue'[i].fetch > answered'
                        /\ \A j \in DOMAIN mainQueue' :
                             j < i /\ mainQueue'[j].outcome # Cancelled =>
                               mainQueue'[j].fetch < mainQueue'[i].fetch
      OBVIOUS
    <3>1. i + 1 \in DOMAIN mainQueue /\ mainQueue'[i] = mainQueue[i + 1] /\ 1 < i + 1
      BY <1>2
    <3>2. mainQueue'[i].fetch > answered'
      BY <1>1, <1>2, <3>1 DEF AnswersAreQueued
    <3>3. ASSUME NEW j \in DOMAIN mainQueue', j < i, mainQueue'[j].outcome # Cancelled
          PROVE  mainQueue'[j].fetch < mainQueue'[i].fetch
      <4>1. j + 1 \in DOMAIN mainQueue /\ mainQueue'[j] = mainQueue[j + 1] /\ j + 1 < i + 1
        BY <1>2, <3>3
      <4> QED BY <3>1, <3>3, <4>1 DEF AnswersAreQueued
    <3> QED BY <3>2, <3>3
  <2>3. \/ answered' = issued
        \/ status[issued] = "running"
        \/ \E i \in DOMAIN mainQueue' :
             mainQueue'[i].fetch = issued /\ mainQueue'[i].outcome # Cancelled
    <3>1. CASE answered = issued
      BY <1>3, <1>6, <3>1
    <3>2. CASE status[issued] = "running"
      BY <3>2
    <3>3. ASSUME NEW i \in DOMAIN mainQueue, mainQueue[i].fetch = issued,
                 mainQueue[i].outcome # Cancelled
          PROVE  answered' = issued \/ \E k \in DOMAIN mainQueue' :
                   mainQueue'[k].fetch = issued /\ mainQueue'[k].outcome # Cancelled
      <4>1. CASE i = 1
        BY <1>1, <1>2, <3>3, <4>1
      <4>2. CASE i # 1
        <5>1. i - 1 \in DOMAIN mainQueue' /\ mainQueue'[i - 1] = mainQueue[i]
          BY <1>2, <4>2
        <5> QED BY <3>3, <5>1
      <4> QED BY <4>1, <4>2
    <3> QED BY <3>1, <3>2, <3>3 DEF AnswersAreQueued
  <2> QED BY <1>1, <1>6, <2>1, <2>2, <2>3 DEF AnswersAreQueued
<1> QED BY <1>6, <1>7, <1>8, <1>9

\* Every step keeps the invariant and the order of the answers.
LEMMA NextKeeps ==
  Inductive /\ [NetNext]_netVars => Inductive' /\ [answered' >= answered]_netVars
<1> SUFFICES ASSUME Inductive, [NetNext]_netVars
             PROVE  Inductive' /\ [answered' >= answered]_netVars
  OBVIOUS
<1>1. CASE Fetch \/ Complete
  <2>1. answered' = answered
    BY <1>1 DEF Fetch, Complete, Finish, FinishCancelled, Post
  <2>2. answered \in Nat
    BY Ranges DEF Inductive
  <2> QED BY <1>1, <2>1, <2>2, FetchKeeps, CompleteKeeps
<1>2. CASE TakeBlock
  BY <1>2, TakeBlockKeeps
<1>3. CASE UNCHANGED netVars
  BY <1>3 DEF netVars, Inductive, NetTypeOK, OnlyNewestRuns, AnswersAreQueued
<1> QED BY <1>1, <1>2, <1>3 DEF NetNext

\* When nothing is under way, the last fetch has been told.
LEMMA LastIsTold == Inductive => NetInv
<1> SUFFICES ASSUME Inductive, Quiet PROVE answered = issued
  BY DEF NetInv, LastAnswerWins, Inductive
<1>1. issued \in Nat /\ answered \in Nat /\ answered <= issued /\ DOMAIN <<>> = {}
  BY Ranges DEF Inductive
<1>2. CASE issued = 0
  BY <1>1, <1>2
<1>3. CASE issued # 0
  <2>1. issued \in Fetches
    BY <1>1, <1>3, Ranges DEF Inductive, Fetches
  <2> QED BY <1>1, <2>1 DEF Quiet, Inductive, AnswersAreQueued
<1> QED BY <1>2, <1>3

\* Where fetches and answers can be; and whenever nothing is under way, what the
\* caller was told last answers its last fetch.
THEOREM NetInvariant == NetSpec => []NetInv
<1>1. NetInit => Inductive
  BY InitInductive
<1>2. Inductive /\ [NetNext]_netVars => Inductive'
  BY NextKeeps
<1>3. Inductive => NetInv
  BY LastIsTold
<1> QED BY <1>1, <1>2, <1>3, PTL DEF NetSpec

\* A slow answer to an earlier fetch never replaces that to a later one.
THEOREM NetAnswersInOrder == NetSpec => AnswersInOrder
<1>1. NetInit => Inductive
  BY InitInductive
<1>2. Inductive /\ [NetNext]_netVars => Inductive' /\ [answered' >= answered]_netVars
  BY NextKeeps
<1> QED BY <1>1, <1>2, PTL DEF NetSpec, AnswersInOrder

-------------------------------------------------------------------------------
\* The screen of shows.

LEMMA InitFeedInv == Init => FeedInv
<1> SUFFICES ASSUME Init PROVE FeedInv
  OBVIOUS
<1>1. NetTypeOK
  <2>1. issued = 0 /\ answered = 0 /\ mainQueue = <<>>
        /\ status = [n \in Fetches |-> "unsent"]
    BY DEF Init, NetInit
  <2>2. 0 \in 0 .. MaxFetches /\ 0 \in 0 .. 0 /\ \A n \in Fetches : n > 0
    BY MaxFetchesAssumption DEF Fetches
  <2>3. mainQueue \in Seq([fetch : Fetches, outcome : Answers \cup {Cancelled}])
    BY <2>1
  <2> QED
    BY <2>1, <2>2, <2>3 DEF NetTypeOK
<1>2. TypeOK
  BY <1>1 DEF Init, TypeOK
<1> QED
  BY <1>2, MaxFetchesAssumption DEF Init, NetInit, FeedInv, Fetches

\* A quiet feed can start a load, and then has exactly that one under way.
LEMMA LoadFromQuiet ==
  ASSUME FeedInv, answered = issued, Fetch
  PROVE  /\ NetTypeOK' /\ answered' = issued' - 1 /\ mainQueue' = <<>>
         /\ status'[issued'] = "running" /\ issued' = issued + 1
         /\ \A n \in Fetches : n < issued' => status'[n] = "finished"
<1>1. /\ NetTypeOK /\ mainQueue = <<>> /\ issued \in Nat /\ answered = issued
      /\ \A n \in Fetches : n < issued => status[n] = "finished"
      /\ issued > 0 => status[issued] = "finished"
  BY MaxFetchesAssumption DEF FeedInv, TypeOK, NetTypeOK
<1>2. /\ issued < MaxFetches /\ issued' = issued + 1 /\ UNCHANGED <<mainQueue, answered>>
      /\ status' = [n \in Fetches |->
                      IF n = issued /\ status[n] = "running" THEN "cancelled"
                      ELSE IF n = issued + 1 THEN "running" ELSE status[n]]
  BY DEF Fetch
<1>3. \A n \in Fetches :
        status'[n] = IF n = issued + 1 THEN "running" ELSE status[n]
  BY <1>1, <1>2 DEF Fetches
<1>4. issued + 1 \in Fetches
  BY <1>1, <1>2, MaxFetchesAssumption DEF Fetches
<1>5. \A n \in Fetches : n < issued' => status'[n] = "finished"
  BY <1>1, <1>2, <1>3 DEF Fetches
<1>6. NetTypeOK'
  BY <1>1, <1>2, <1>3, <1>4, MaxFetchesAssumption DEF NetTypeOK, Fetches
<1> QED
  BY <1>1, <1>2, <1>3, <1>4, <1>5, <1>6

\* Only the newest fetch can complete, and it is not cancelled.
LEMMA BackgroundFeedInv ==
  ASSUME FeedInv, Background
  PROVE  FeedInv'
<1>1. /\ TypeOK /\ NetTypeOK /\ issued \in Nat
      /\ UNCHANGED <<loaded, listVars, dialog, declined, onScreen, issued, answered>>
  <2>1. TypeOK /\ NetTypeOK /\ issued \in Nat
    BY MaxFetchesAssumption DEF FeedInv, TypeOK, NetTypeOK
  <2>2. UNCHANGED <<issued, answered>>
    BY DEF Background, Complete, Finish, FinishCancelled, Post
  <2> QED
    BY <2>1, <2>2 DEF Background
<1>2. \A n \in Fetches : status[n] \in {"running", "cancelled"} =>
        /\ n = issued /\ status[n] = "running"
        /\ answered = issued - 1 /\ mainQueue = <<>>
  BY <1>1 DEF FeedInv, NetTypeOK, Fetches
<1>3. PICK n \in Fetches, a \in Answers : status[n] = "running" /\ Post(n, a)
  BY <1>2 DEF Background, Complete, Finish, FinishCancelled
<1>4. n = issued /\ answered = issued - 1 /\ mainQueue = <<>>
  BY <1>2, <1>3
<1>5. /\ status' = [status EXCEPT ![n] = "finished"]
      /\ mainQueue' = <<[fetch |-> n, outcome |-> a]>>
  BY <1>3, <1>4 DEF Post
<1>6. NetTypeOK'
  <2>1. mainQueue' \in Seq([fetch : Fetches, outcome : Answers \cup {Cancelled}])
    BY <1>5
  <2>2. status' \in [Fetches -> {"unsent", "running", "cancelled", "finished"}]
    BY <1>1, <1>5 DEF NetTypeOK
  <2>3. \A k \in Fetches : (status'[k] = "unsent") = (k > issued)
    BY <1>1, <1>4, <1>5 DEF NetTypeOK, Fetches
  <2> QED
    BY <1>1, <2>1, <2>2, <2>3 DEF NetTypeOK
<1>7. TypeOK'
  BY <1>1, <1>6 DEF TypeOK, listVars
<1>8. status'[issued'] = "finished" /\ \A k \in Fetches : k < issued' => status'[k] = "finished"
  BY <1>1, <1>4, <1>5 DEF FeedInv, NetTypeOK
<1> QED
  BY <1>1, <1>3, <1>4, <1>5, <1>7, <1>8 DEF FeedInv, listVars

\* The block on the main queue is the newest fetch's and leaves the feed quiet.
LEMMA DeliverFeedInv ==
  ASSUME FeedInv, Deliver
  PROVE  FeedInv'
<1>1. /\ TypeOK /\ NetTypeOK /\ issued \in Nat /\ mainQueue # <<>>
      /\ UNCHANGED <<issued, status, loaded, onScreen>>
  BY MaxFetchesAssumption DEF FeedInv, TypeOK, NetTypeOK, Deliver, TakeBlock
<1>2. PICK a \in Answers : mainQueue = <<[fetch |-> issued, outcome |-> a]>>
  BY <1>1 DEF FeedInv
<1>3. /\ answered = issued - 1 /\ status[issued] = "finished"
      /\ ~dialog /\ screenState # "populated" /\ currentTVShows = NoShows
  BY <1>1, <1>2 DEF FeedInv, NetTypeOK
<1>4. a # Cancelled
  BY DEF Answers, Cancelled, Failed
<1>5. /\ Head(mainQueue) = [fetch |-> issued, outcome |-> a] /\ Tail(mainQueue) = <<>>
  BY <1>2
<1>6. answered' = issued /\ mainQueue' = <<>> /\ Update(a)
  BY <1>4, <1>5 DEF Deliver, TakeBlock
<1>7. loaded /\ issued > 0
  BY <1>1, <1>3 DEF FeedInv, NetTypeOK
<1>8. NetTypeOK'
  BY <1>1, <1>6 DEF NetTypeOK
<1>9. CASE a = Failed
  <2>1. /\ screenState' = "error" /\ currentTVShows' = NoShows
        /\ dialog' = onScreen /\ declined' = FALSE
    BY <1>6, <1>9 DEF Update, PresentRetry
  <2>2. TypeOK'
    BY <1>1, <1>8, <2>1 DEF TypeOK
  <2> QED
    BY <1>1, <1>3, <1>6, <1>7, <2>1, <2>2 DEF FeedInv
<1>10. CASE a # Failed
  <2>1. /\ screenState' = IF a.shows = NoShows THEN "empty" ELSE "populated"
        /\ currentTVShows' = a.shows /\ UNCHANGED <<dialog, declined>>
    BY <1>6, <1>10 DEF Update
  <2>2. a.shows \in Lists
    BY <1>10 DEF Answers
  <2>3. TypeOK'
    BY <1>1, <1>8, <2>1, <2>2 DEF TypeOK
  <2> QED
    BY <1>1, <1>3, <1>6, <1>7, <2>1, <2>3 DEF FeedInv
<1> QED
  BY <1>9, <1>10

LEMMA NextFeedInv == FeedInv /\ [Next]_vars => FeedInv'
<1> SUFFICES ASSUME FeedInv, [Next]_vars PROVE FeedInv'
  OBVIOUS
<1>1. CASE ViewDidLoad
  <2>1. answered = issued /\ issued = 0 /\ currentTVShows = NoShows /\ ~dialog
    <3>1. issued = 0 /\ answered \in 0 .. issued
      BY <1>1 DEF ViewDidLoad, FeedInv, TypeOK, NetTypeOK
    <3>2. answered = issued
      BY <3>1
    <3> QED
      BY <1>1, <3>1, <3>2 DEF ViewDidLoad, FeedInv
  <2>2. /\ Fetch /\ loaded' = TRUE
        /\ UNCHANGED <<screenState, currentTVShows, dialog, declined, onScreen>>
    BY <1>1 DEF ViewDidLoad, LoadShows
  <2>3. TypeOK'
    BY <2>1, <2>2, LoadFromQuiet DEF FeedInv, TypeOK
  <2>4. /\ answered' = issued' - 1 /\ mainQueue' = <<>> /\ issued' = 1
        /\ status'[issued'] = "running"
        /\ \A n \in Fetches : n < issued' => status'[n] = "finished"
    BY <2>1, <2>2, LoadFromQuiet
  <2>5. screenState' # "populated"
    BY <2>1, <2>2 DEF FeedInv
  <2> HIDE DEF NoShows
  <2> QED
    BY <2>1, <2>2, <2>3, <2>4, <2>5 DEF FeedInv
<1>2. CASE Background
  BY <1>2, BackgroundFeedInv
<1>3. CASE Deliver
  BY <1>3, DeliverFeedInv
<1>4. CASE TapRetry
  <2>1. /\ dialog /\ loaded /\ answered = issued /\ screenState = "error" /\ Fetch
        /\ dialog' = FALSE /\ UNCHANGED <<loaded, listVars, declined, onScreen>>
    BY <1>4 DEF TapRetry, LoadShows, FeedInv
  <2>2. currentTVShows = NoShows /\ issued > 0
    BY <2>1 DEF FeedInv
  <2>3. /\ NetTypeOK' /\ answered' = issued' - 1 /\ mainQueue' = <<>>
        /\ issued' = issued + 1 /\ status'[issued'] = "running"
        /\ \A n \in Fetches : n < issued' => status'[n] = "finished"
    BY <2>1, LoadFromQuiet
  <2>4. issued' > 0
    BY <2>2, <2>3, MaxFetchesAssumption DEF FeedInv, TypeOK, NetTypeOK
  <2>5. TypeOK'
    BY <2>1, <2>3 DEF FeedInv, TypeOK, listVars
  <2>6. /\ screenState' = "error" /\ currentTVShows' = NoShows
        /\ dialog' = FALSE /\ loaded'
    BY <2>1, <2>2 DEF listVars
  <2> HIDE DEF NoShows
  <2> QED
    BY <2>3, <2>4, <2>5, <2>6 DEF FeedInv
<1>5. CASE TapCancel
  BY <1>5 DEF TapCancel, FeedInv, TypeOK, NetTypeOK, netVars, listVars
<1>6. CASE SwitchTab
  BY <1>6 DEF SwitchTab, FeedInv, TypeOK, NetTypeOK, netVars, listVars
<1>7. CASE UNCHANGED vars
  BY <1>7 DEF vars, FeedInv, TypeOK, NetTypeOK
<1> QED
  BY <1>1, <1>2, <1>3, <1>4, <1>5, <1>6, <1>7 DEF Next

\* The token argument holds of every behaviour of the feed.
THEOREM FeedInvariant == Spec => []FeedInv
<1> QED
  BY InitFeedInv, NextFeedInv, PTL DEF Spec

\* The feed is quiet exactly when the last load has been answered.
LEMMA AnsweredIsQuiet ==
  ASSUME FeedInv, answered = issued
  PROVE  Quiet
<1>1. issued \in Nat /\ NetTypeOK /\ mainQueue = <<>>
  BY MaxFetchesAssumption DEF FeedInv, TypeOK, NetTypeOK
<1>2. \A n \in Fetches : status[n] \in {"finished", "unsent"}
  BY <1>1 DEF FeedInv, NetTypeOK, Fetches
<1> QED
  BY <1>1, <1>2 DEF Quiet

\* A retry dialog is never up while a load is under way or after another
\* result has been shown.
THEOREM FeedDialogIsCurrent == Spec => []DialogIsCurrent
<1>1. FeedInv => DialogIsCurrent
  BY AnsweredIsQuiet DEF FeedInv, DialogIsCurrent
<1> QED
  BY <1>1, FeedInvariant, PTL

\* TVShowsViewController never starts a load while another is under way.
THEOREM FeedLoadsNeverOverlap == Spec => LoadsNeverOverlap
<1>1. FeedInv /\ [Next]_vars => [issued' # issued => Quiet /\ answered = issued]_vars
  <2> SUFFICES ASSUME FeedInv, Next, issued' # issued PROVE Quiet /\ answered = issued
    BY DEF vars
  <2>1. ViewDidLoad \/ TapRetry
    BY DEF Next, Background, Complete, Finish, FinishCancelled, Post, Deliver,
       TakeBlock, TapCancel, SwitchTab, netVars
  <2>2. answered = issued
    <3>1. CASE ViewDidLoad
      BY <3>1 DEF ViewDidLoad, FeedInv, TypeOK, NetTypeOK
    <3>2. CASE TapRetry
      BY <3>2 DEF TapRetry, FeedInv
    <3> QED
      BY <2>1, <3>1, <3>2
  <2> QED
    BY <2>2, AnsweredIsQuiet
<1> QED
  BY <1>1, FeedInvariant, PTL DEF Spec, LoadsNeverOverlap

\* Once rows are shown they are never replaced.
THEOREM FeedRowsAreFinal == Spec => RowsAreFinal
<1>1. FeedInv /\ [Next]_vars => [currentTVShows # NoShows => UNCHANGED currentTVShows]_vars
  <2> SUFFICES ASSUME FeedInv, Next, currentTVShows # NoShows
               PROVE  UNCHANGED currentTVShows
    BY DEF vars
  <2>1. ~Deliver
    BY MaxFetchesAssumption DEF Deliver, TakeBlock, FeedInv, TypeOK, NetTypeOK
  <2> QED
    BY <2>1 DEF Next, ViewDidLoad, Background, TapRetry, TapCancel, SwitchTab, listVars
<1> QED
  BY <1>1, FeedInvariant, PTL DEF Spec, RowsAreFinal
===============================================================================
