-------------------------- MODULE RealmNotifications --------------------------
(***************************************************************************)
(* Collection notifications of one Realm instance (ObjectStore:            *)
(* impl/realm_coordinator.cpp, impl/collection_notifier.cpp,               *)
(* impl/results_notifier.cpp, shared_realm.cpp).  A worker thread brings   *)
(* each collection's notifier to a version of the file and hands the       *)
(* changes over; the Realm's own thread advances to that version and calls *)
(* the callbacks.  The two meet under the coordinator's m_notifier_mutex:  *)
(* an action is what one of them does between two locks of it.             *)
(*                                                                         *)
(* A version of the file modifies an object of every collection, so a set  *)
(* of changes is the set of the versions that made them, and no collection *)
(* uses the table of another, so none asks for its changes.  The Realm     *)
(* refreshes itself, keeps its read transaction, and its thread is the     *)
(* only one that uses its collections; callbacks use neither.  Other       *)
(* Realms, of this process or another, only commit.                        *)
(***************************************************************************)
EXTENDS Integers, FiniteSets

CONSTANTS
  Callbacks,    \* pairs <<notifier, name>>
  Lasting,      \* the notifiers of collections that are kept, as are their callbacks
  MaxVersion    \* bounds the versions of the file

ASSUME NotificationsAssumption == MaxVersion \in Nat \ {0}

Notifiers == {c[1] : c \in Callbacks}
CallbacksOf(n) == {c \in Callbacks : c[1] = n}
Versions == 1 .. MaxVersion

VARIABLES
  latest,       \* the newest version of the file
  realm,        \* the Realm instance and what its thread is doing
  notifier,     \* CollectionNotifier of each collection
  callback,     \* its Callback structs
  skipVersion,  \* m_notifier_skip_version, 0 for none
  worker,       \* run_async_notifiers: how far it is, and its locals
  wake,         \* the worker's thread has been told to run
  signal        \* Realm::notify is scheduled on the Realm's run loop

vars == <<latest, realm, notifier, callback, skipVersion, worker, wake, signal>>

\* "out" are the notifiers that the run leaves out for want of callbacks.
Idle == [at |-> "idle", version |-> 0, skip |-> 0, old |-> {}, new |-> {}, out |-> {}]

\* A new notifier has no list yet.  Three parts of a callback are histories:
\* "told", the versions whose changes the code behind it knows; "late", those
\* that a run brought its notifier past without changes, after it was called;
\* "exposed", those that suppressed it in a transaction a run overlapped, as
\* long as they have not been told again.
Init ==
  /\ latest = 1
  /\ realm = [version |-> 1, at |-> "read", target |-> 0, woke |-> FALSE, silent |-> {}]
  /\ notifier = [n \in Notifiers |-> [list |-> "none", alive |-> TRUE, version |-> 0,
                                      run |-> FALSE, have |-> FALSE, changes |-> {}]]
  /\ callback = [c \in Callbacks |-> [on |-> FALSE, acc |-> {}, skip |-> FALSE,
                                      initial |-> FALSE, told |-> {},
                                      late |-> {}, exposed |-> {}]]
  /\ skipVersion = 0
  /\ worker = Idle
  /\ wake = FALSE /\ signal = FALSE

-------------------------------------------------------------------------------
(* The notifiers of the Realm.                                               *)

Ours == {n \in Notifiers : notifier[n].list # "none" /\ notifier[n].alive}

\* register_notifier, from Results::prepare_async; never in a transaction.
Register(n) ==
  /\ realm.at = "read"
  /\ notifier[n].list = "none" /\ notifier[n].alive
  /\ notifier' = [notifier EXCEPT ![n].list = "new", ![n].version = realm.version]
  /\ UNCHANGED <<latest, realm, callback, skipVersion, worker, wake, signal>>

\* unregister: the collection is destroyed.
Unregister(n) ==
  /\ realm.at \in {"read", "write"}
  /\ n \in Ours \ Lasting
  /\ notifier' = [notifier EXCEPT ![n].alive = FALSE]
  /\ UNCHANGED <<latest, realm, callback, skipVersion, worker, wake, signal>>

\* add_callback, outside of transactions and of callbacks; one that has been
\* called is not added again.
AddCallback(c) ==
  LET n == c[1] IN
  /\ realm.at = "read"
  /\ n \in Ours /\ ~callback[c].on /\ ~callback[c].initial
  /\ callback' = [callback EXCEPT ![c].on = TRUE]
  /\ notifier' = [notifier EXCEPT ![n].have = TRUE]
  /\ wake' = TRUE
  /\ UNCHANGED <<latest, realm, skipVersion, worker, signal>>

\* remove_callback
RemoveCallback(c) ==
  /\ realm.at \in {"read", "write"}
  /\ callback[c].on /\ c[1] \notin Lasting
  /\ callback' = [callback EXCEPT ![c].on = FALSE, ![c].skip = FALSE, ![c].acc = {}]
  /\ notifier' = [notifier EXCEPT ![c[1]].have = \E d \in CallbacksOf(c[1]) : callback'[d].on]
  /\ UNCHANGED <<latest, realm, skipVersion, worker, wake, signal>>

-------------------------------------------------------------------------------
(* The worker.                                                               *)

\* clean_up_dead_notifiers, of the lists that ns are in.
Cleaned(ns) == [n \in Notifiers |->
                  IF ns[n].alive THEN ns[n] ELSE [ns[n] EXCEPT !.list = "none"]]
Listed(ns, l) == {n \in Notifiers : ns[n].list = l}

\* Faulty: it leaves the version to those that come later.
SkipKept(ns) == skipVersion

\* An emptied main list takes the version to skip with it.
SkipAfter(ns) ==
  IF Listed(notifier, "main") # {} /\ Listed(Cleaned(ns), "main") = {} THEN 0 ELSE skipVersion

\* History: a run overlaps the transaction that suppressed cs.
Exposed(cs) ==
  [c \in Callbacks |->
     IF c \in cs THEN [callback[c] EXCEPT !.exposed = @ \cup {latest + 1}] ELSE callback[c]]

\* The start of run_async_notifiers: under the mutex, the version to run for,
\* the one to stop at before and the notifiers to run are chosen.
Start ==
  /\ worker = Idle /\ wake
  /\ wake' = FALSE
  /\ LET ns == Cleaned(notifier)
         main == Listed(ns, "main")
         new == Listed(ns, "new")
     IN IF main \cup new = {}
        THEN /\ notifier' = ns /\ skipVersion' = SkipAfter(notifier)
             /\ signal' = TRUE
             /\ UNCHANGED <<worker, callback>>
        ELSE /\ notifier' = [n \in Notifiers |->
                               IF n \in new THEN [ns[n] EXCEPT !.list = "main"] ELSE ns[n]]
             /\ worker' = [at |-> IF SkipAfter(notifier) = 0 THEN "last" ELSE "skip",
                           version |-> latest, skip |-> SkipAfter(notifier),
                           old |-> main, new |-> new, out |-> {}]
             /\ callback' = Exposed(realm.silent)
             /\ skipVersion' = 0
             /\ UNCHANGED signal
  /\ UNCHANGED <<latest, realm>>

\* Those without callbacks, for which a run calculates no changes.
Silent == {n \in Notifiers : notifier[n].run /\ ~notifier[n].have}

\* add_required_change_info: without callbacks a notifier asks for nothing, and
\* the advance that follows does not collect its changes.
Ask ==
  /\ worker.at \in {"skip", "last"}
  /\ worker' = [worker EXCEPT !.at = IF @ = "skip" THEN "toSkip" ELSE "toLast",
                             !.out = worker.old \cap Silent]
  /\ UNCHANGED <<latest, realm, notifier, callback, skipVersion, wake, signal>>

\* The advance to v and ResultsNotifier::run for each of ns, which calculates
\* changes if the notifier has run before and still has callbacks.
Run(ns, v, at) ==
  LET out == worker.out \cup (ns \cap Silent) IN
  /\ notifier' = [n \in Notifiers |->
       IF n \in ns \ out /\ notifier[n].alive /\ notifier[n].run
       THEN [notifier[n] EXCEPT !.changes = notifier[n].version + 1 .. v]
       ELSE notifier[n]]
  /\ worker' = [worker EXCEPT !.at = at, !.out = out]
  /\ UNCHANGED <<latest, realm, callback, skipVersion, wake, signal>>

\* prepare_handover of each of ns, under the mutex: its version, and its
\* changes to every callback that does not skip them.
HandedOver(ns, v) ==
  [n \in Notifiers |->
     IF n \in ns THEN [notifier[n] EXCEPT !.version = v, !.run = TRUE, !.changes = {}]
     ELSE notifier[n]]

\* History: the changes that the run does not have for c, which was called already.
Late(c, v) ==
  IF c[1] \in worker.out /\ callback[c].initial THEN notifier[c[1]].version + 1 .. v ELSE {}

\* Faulty: changes that were not delivered yet are written over.
GivenAnew(ns, v) ==
  [c \in Callbacks |->
     IF c[1] \notin ns \/ ~callback[c].on THEN callback[c]
     ELSE IF callback[c].skip THEN [callback[c] EXCEPT !.skip = FALSE]
     ELSE [callback[c] EXCEPT !.acc = notifier[c[1]].changes,
                              !.late = @ \cup Late(c, v)]]

Given(ns, v) ==
  [c \in Callbacks |->
     IF c[1] \notin ns \/ ~callback[c].on THEN callback[c]
     ELSE IF callback[c].skip THEN [callback[c] EXCEPT !.skip = FALSE]
     ELSE [callback[c] EXCEPT !.acc = @ \cup notifier[c[1]].changes,
                              !.late = @ \cup Late(c, v)]]

RunToSkip ==
  /\ worker.at = "toSkip"
  /\ Run(worker.old, worker.skip, "skipped")

HandOverSkip ==
  /\ worker.at = "skipped" /\ worker' = [worker EXCEPT !.at = "last", !.out = {}]
  /\ notifier' = HandedOver(worker.old, worker.skip)
  /\ callback' = Given(worker.old, worker.skip)
  /\ UNCHANGED <<latest, realm, skipVersion, wake, signal>>

RunToLast ==
  /\ worker.at = "toLast"
  /\ Run(worker.old \cup worker.new, worker.version, "ran")

\* Faulty: the run loop is not told.
HandOverUnsignalled ==
  LET ran == worker.old \cup worker.new IN
  /\ worker.at = "ran" /\ worker' = Idle
  /\ notifier' = Cleaned(HandedOver(ran, worker.version))
  /\ callback' = Given(ran, worker.version)
  /\ skipVersion' = SkipAfter(notifier)
  /\ UNCHANGED <<latest, realm, wake, signal>>

\* The end of run_async_notifiers, and on_change's call of the run loop.
HandOverLast ==
  LET ran == worker.old \cup worker.new IN
  /\ worker.at = "ran" /\ worker' = Idle
  /\ notifier' = Cleaned(HandedOver(ran, worker.version))
  /\ callback' = Given(ran, worker.version)
  /\ skipVersion' = SkipAfter(notifier)
  /\ signal' = TRUE
  /\ UNCHANGED <<latest, realm, wake>>

Worker == Start \/ Ask \/ RunToSkip \/ HandOverSkip \/ RunToLast \/ HandOverLast

-------------------------------------------------------------------------------
(* The Realm's thread.                                                       *)

\* Faulty: the changes stay for the next delivery.
PackagedAgain(ns) == callback

\* The callbacks after package_for_delivery of ns, when they are not called.
Packaged(ns) ==
  [c \in Callbacks |-> IF c[1] \in ns
                     THEN [callback[c] EXCEPT !.acc = {}, !.exposed = @ \ callback[c].acc]
                     ELSE callback[c]]

\* The same when they are, with the Realm at version v: for the first time
\* whatever happened, then if there are changes.
Called(ns, v) ==
  [c \in Callbacks |->
     IF c[1] \notin ns \/ ~callback[c].on THEN Packaged(ns)[c]
     ELSE [Packaged(ns)[c] EXCEPT
             !.initial = TRUE,
             !.told = IF callback[c].initial THEN @ \cup callback[c].acc ELSE 1 .. v]]

HaveRun == {n \in Ours : notifier[n].run}

\* process_available_async
ProcessAvailable ==
  /\ callback' = Called({n \in HaveRun : notifier[n].version = realm.version}, realm.version)
  /\ UNCHANGED realm

\* Faulty: the Realm advances past the version the notifiers are at.
AdvanceToLatest ==
  \E v \in {notifier[n].version : n \in HaveRun} \cup {latest} :
    /\ v >= realm.version
    /\ callback' = Called(HaveRun, v)
    /\ realm' = [realm EXCEPT !.version = latest]

\* advance_to_ready; the version is that of the last notifier packaged.
AdvanceToReady ==
  \/ /\ HaveRun = {}
     /\ realm' = [realm EXCEPT !.version = latest]
     /\ UNCHANGED callback
  \/ \E n \in HaveRun :
       LET v == notifier[n].version IN
       IF v < realm.version
       THEN callback' = Packaged(HaveRun) /\ UNCHANGED realm
       ELSE callback' = Called(HaveRun, v) /\ realm' = [realm EXCEPT !.version = v]

\* Realm::notify, which does nothing in a transaction.
Notify ==
  /\ signal /\ realm.at \in {"read", "write"} /\ realm.silent = {}
  /\ signal' = FALSE
  /\ IF realm.at = "write" THEN UNCHANGED <<realm, callback>>
     ELSE IF realm.version = latest THEN ProcessAvailable
     ELSE AdvanceToReady
  /\ UNCHANGED <<latest, notifier, skipVersion, worker, wake>>

\* Realm::refresh and Realm::begin_transaction, which takes the write lock,
\* wait for the notifiers that have callbacks to reach the latest version.
Await(what) ==
  /\ realm.at = "read"
  /\ realm' = [realm EXCEPT !.at = what, !.target = latest, !.woke = FALSE]
  /\ UNCHANGED <<latest, notifier, callback, skipVersion, worker, wake, signal>>
Refresh == Await("refresh")
Begin == Await("begin")

\* The predicate of package_and_wait.
Ready == \A n \in Ours :
  notifier[n].have => notifier[n].run /\ notifier[n].version >= realm.target

\* wait_for_notifiers
WakeWorker ==
  /\ realm.at \in {"refresh", "begin"} /\ ~Ready /\ ~realm.woke
  /\ realm' = [realm EXCEPT !.woke = TRUE]
  /\ wake' = TRUE
  /\ UNCHANGED <<latest, notifier, callback, skipVersion, worker, signal>>

\* The rest of package_and_wait, and transaction::advance or begin; whoever
\* begins has the write lock, so the latest version is the target.
StopWaiting ==
  /\ realm.at \in {"refresh", "begin"} /\ Ready
  /\ LET stay == IF realm.at = "begin" THEN "write" ELSE "read"
         At(v) == realm' = [realm EXCEPT !.at = stay, !.version = v, !.target = 0, !.woke = FALSE]
     IN \/ HaveRun = {} /\ At(latest) /\ UNCHANGED callback
        \/ \E n \in HaveRun :
             IF notifier[n].version < realm.target
             THEN callback' = Packaged(HaveRun) /\ At(latest)
             ELSE callback' = Called(HaveRun, notifier[n].version) /\ At(notifier[n].version)
  /\ UNCHANGED <<latest, notifier, skipVersion, worker, wake, signal>>

\* suppress_next_notification for each of cs; the binding commits at once.
Suppress(cs) ==
  /\ realm.at = "write" /\ realm.silent = {} /\ latest < MaxVersion
  /\ \A c \in cs : callback[c].on /\ notifier[c[1]].alive
  /\ realm' = [realm EXCEPT !.silent = cs]
  /\ LET before == IF worker = Idle THEN callback ELSE Exposed(cs) IN
     callback' = [c \in Callbacks |->
                    IF c \in cs THEN [before[c] EXCEPT !.skip = TRUE] ELSE callback[c]]
  /\ UNCHANGED <<latest, notifier, skipVersion, worker, wake, signal>>

\* commit_write; whoever suppressed a callback knows the changes already.
Commit ==
  /\ realm.at = "write" /\ latest < MaxVersion
  /\ latest' = latest + 1
  /\ realm' = [realm EXCEPT !.at = "read", !.version = latest', !.silent = {}]
  /\ skipVersion' = IF \E n \in Ours : notifier[n].list = "main" THEN latest' ELSE skipVersion
  /\ callback' = [c \in Callbacks |->
                    IF c \in realm.silent /\ callback[c].initial
                    THEN [callback[c] EXCEPT !.told = @ \cup {latest'}] ELSE callback[c]]
  /\ wake' = TRUE
  /\ UNCHANGED <<notifier, worker, signal>>

\* cancel_transaction
Cancel ==
  /\ realm.at = "write" /\ realm.silent = {}
  /\ realm' = [realm EXCEPT !.at = "read"]
  /\ UNCHANGED <<latest, notifier, callback, skipVersion, worker, wake, signal>>

\* Another Realm commits; its notify_others wakes every coordinator.
OtherCommit ==
  /\ realm.at \notin {"begin", "write"} /\ latest < MaxVersion
  /\ latest' = latest + 1
  /\ wake' = TRUE
  /\ UNCHANGED <<realm, notifier, callback, skipVersion, worker, signal>>

Next ==
  \/ Worker
  \/ \E n \in Notifiers : Register(n) \/ Unregister(n)
  \/ \E c \in Callbacks : AddCallback(c) \/ RemoveCallback(c)
  \/ Notify \/ Refresh \/ Begin \/ WakeWorker \/ StopWaiting
  \/ \E cs \in SUBSET Callbacks \ {{}} : Suppress(cs)
  \/ Commit \/ Cancel \/ OtherCommit

Spec == Init /\ [][Next]_vars

\* The worker's thread and the run loop run, and a wait whose condition holds
\* ends.  Nothing obliges anybody to use the Realm.
FairSpec ==
  Spec /\ WF_vars(Worker) /\ WF_vars(Notify) /\ WF_vars(WakeWorker \/ StopWaiting)

-------------------------------------------------------------------------------
(* Properties.                                                               *)

\* Every variable stays in its domain.
TypeOK ==
  /\ latest \in Versions
  /\ realm \in [version : Versions, at : {"read", "write", "refresh", "begin"},
                target : 0 .. MaxVersion, woke : BOOLEAN, silent : SUBSET Callbacks]
  /\ notifier \in [Notifiers -> [list : {"none", "new", "main"}, alive : BOOLEAN,
                                 version : 0 .. MaxVersion, run : BOOLEAN, have : BOOLEAN,
                                 changes : SUBSET Versions]]
  /\ callback \in [Callbacks -> [on : BOOLEAN, acc : SUBSET Versions, skip : BOOLEAN,
                                 initial : BOOLEAN, told : SUBSET Versions,
                                 late : SUBSET Versions, exposed : SUBSET Versions]]
  /\ skipVersion \in 0 .. MaxVersion
  /\ worker \in [at : {"idle", "skip", "toSkip", "skipped", "last", "toLast", "ran"},
                 version : 0 .. MaxVersion, skip : 0 .. MaxVersion,
                 old : SUBSET Notifiers, new : SUBSET Notifiers, out : SUBSET Notifiers]
  /\ wake \in BOOLEAN /\ signal \in BOOLEAN

Following(c) == callback[c].on /\ callback[c].initial /\ c[1] \in Ours

\* However the runs of the worker, the Realm's own transactions and those of
\* others mix, a callback that has been called once knows, or has waiting for
\* it, every change up to the version its collection was brought to: none is
\* lost between two handovers, none is skipped with a version it suppressed.
\* The one way to miss a change is to be added while a run that found the
\* notifier without callbacks is under way, and to be called before that run
\* hands over: its versions are never reported.
NoChangeIsMissed ==
  \A c \in Callbacks :
    Following(c) =>
      1 .. notifier[c[1]].version
        \subseteq callback[c].told \cup callback[c].acc \cup callback[c].late

\* No change waits for a callback that knows it already, be it told before or
\* made in a transaction that suppressed the callback.  The one way to be told
\* again, once, is that a run overlaps that transaction between suppression and
\* commit: the hand-over of that run uses the suppression up.
NoChangeIsToldTwice ==
  \A c \in Callbacks :
    Following(c) => callback[c].told \cap callback[c].acc \subseteq callback[c].exposed

\* A callback that is told something then knows exactly what the Realm, as it
\* is at that moment, shows: never a change of a version the Realm has not
\* reached, and none of those it has is still to come, nor unknown unless it
\* was missed as NoChangeIsMissed says.
CallsMatchTheRealm ==
  [][\A c \in Callbacks :
       callback'[c].told # callback[c].told =>
         /\ callback'[c].told \subseteq 1 .. realm'.version
         /\ 1 .. realm'.version \subseteq callback'[c].told \cup callback'[c].late]_vars

\* The collections of a Realm are at one version, so what is delivered together
\* belongs together, although some are new and some skipped a version.
CollectionsAgree ==
  \A n, m \in HaveRun : notifier[n].version = notifier[m].version

\* The assertions of run_async_notifiers: a version to skip is there only with
\* notifiers to skip it, is not behind them and not past the version to run to.
SkipFits ==
  worker.at \in {"skip", "toSkip", "skipped"} =>
    /\ worker.old # {} /\ worker.skip <= worker.version
    /\ \A n \in worker.old : notifier[n].version <= worker.skip

\* The state of the notifiers is sound.
NotifierInv == TypeOK /\ CollectionsAgree /\ SkipFits

\* Whoever listens to a collection is called, and comes to know every change of
\* it, but for those missed as NoChangeIsMissed says, again and again if there
\* are more, however transactions and refreshes take the place of notifications;
\* and a refresh or the begin of a transaction, which waits for the worker, does
\* not wait for ever.
ChangesAreTold ==
  []<>(/\ realm.at \notin {"refresh", "begin"}
       /\ \A c \in Callbacks :
            callback[c].on /\ c[1] \in Ours =>
              callback[c].initial /\ 1 .. latest \subseteq callback[c].told \cup callback[c].late)
===============================================================================
