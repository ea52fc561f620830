# TVShows in TLA+

Specifications of the iOS app TVShows (`src/TVShows/TVShows/*.swift`) and of the
concurrent parts of the Realm ObjectStore it is built with
(`src/TVShows/Pods/Realm/Realm/ObjectStore`): what the modules model, what TLC
checks on small instances, what TLAPS proves for every value of the constants.

## The system

| part | state it keeps | operations | correct when |
|---|---|---|---|
| store of favourites (`TVShowStore.swift`, `TVShow.swift`) | the Realm file; live objects handed to the favourites screen | `saveShow`, `deleteShow`, `deleteFavorite`, `getSavedShows`, `isFavorite` | one row per key; a call is all or nothing across a crash; a held object keeps standing for its row |
| network (`NetworkingService.swift`) | `task` | `fetchTVShows` | the last fetch's answer is the last one delivered, and it is delivered |
| shows list (`TVShowsViewController.swift`) | `screenState`, `currentTVShows` | load, retry, row actions, delete sheet, select | loads do not overlap; a failure offers a retry; row indices stay valid |
| favourites list (`TVShowsFavoritesViewController.swift`) | `favorites` | load on appearance, delete sheet, remove, select | what is seen is what is saved; a deletion hits the row asked about |
| detail screen (`TVShowDetailViewController.swift`) | `tvShow`, bar button, bar colour | toggle, appear, disappear | button and colour are current whenever it is seen |
| dialogs (`BaseViewController.swift`) | - | delete sheet, retry dialog | they appear |
| table cell, posters (`TVShowTableViewCell.swift`, `UIImageView+Cache.swift`) | `task`, image, URL cache | `load`, `prepareForReuse`, `loadImage` | the cell ends with its own show's poster |
| sync session (`sync_session.cpp`) | state, `m_session`, completion handlers, counters | revive, close, log out, tokens, errors, waits for uploads, commits | handlers are told once and in the end; a session dies only with everything uploaded |
| sync manager and users (`sync_manager.cpp`, `sync_user.cpp`) | maps of sessions, references, user state, three kinds of mutex | `get_session`, drop a reference, `log_out`, log in, `invalidate` | one session per file; threads do not wait for each other in a circle |
| progress notifiers (`sync_session.cpp`) | packages, current numbers | register, unregister, update | totals cover what was committed; the end is told once and comes |
| work queue (`impl/work_queue.cpp`) | queue, thread, two flags | `enqueue`, destructor | every task once, in order, by one thread |
| collection notifications (`impl/realm_coordinator.cpp`, `impl/collection_notifier.cpp`) | notifiers, callbacks, version to skip, the worker's run | add and remove callbacks, run, deliver, refresh, begin, commit, suppress | no change is missed, told twice, or told ahead of what the Realm shows |

The app uses Realm on the main thread only and neither notifications nor sync:
the last five parts are compiled into the app, and modelled because they are the
program in this repository that concurrency is hard in. They do not interact
with the app's parts, and with each other only as far as `SyncManager` makes,
closes and logs out the sessions that `SyncSession` follows from inside; each
module says what of the other it abstracts.

In the app everything that touches the store or a controller runs on the main
thread, one handler at a time. Concurrency enters through URLSession (tasks
complete on its own queue and post a block to the main queue), the global queue
of the poster loader, the user (who can do anything the screen offers between
two handlers), and iOS, which may end the process between any two instructions.
The two tabs share nothing but the Realm file, and see each other's changes only
when they appear (`viewWillAppear`) or look (`isFavorite`).

In the ObjectStore it is threads and mutexes: callbacks that are made after a
mutex was released (progress, errors, completion handlers), state that was looked
at under one mutex and used under another (`handle_error`, `get_session`), two
threads that meet at versions of a file (notifications), and a thread that ends
while it is given work (work queue).

What is hard here is listed, line by line, under "hazards" in `PROJECT.json`,
with the properties that speak of it; a note says where a property stops.

## Modules

| module | models |
|---|---|
| `FavoriteStore` | the promise of the store: a durable map, one request at a time, applied whole before it returns or not at all because the process died |
| `RealmTable` | operators: look-up by key, `move_last_over`, the adjustment of accessors |
| `TVShowStore` | the calls of `TVShowStore.swift`, step by step: open, look up, begin, block, commit; refusals, kills, relaunches |
| `NetworkingService` | `fetchTVShows` with overlapping fetches |
| `ShowsFeed` | the shows list's loading and its retry dialog; EXTENDS `NetworkingService` |
| `TVShowsApp` | both tabs, their detail screens, swipes and sheets, launches; instantiates `ShowsFeed` and uses `RealmTable` |
| `PosterCell` | a table cell reused while look-ups, downloads and images of earlier shows are under way |
| `SyncSession` | one `SyncSession`: its states, its `sync::Session`s, the handlers that wait, the event loop thread |
| `SyncManager` | threads that open, close, log out and log in, mutex by mutex |
| `SyncProgressNotifier` | `_impl::SyncProgressNotifier` |
| `SerialTasks`, `WorkQueue` | what users of the work queue rely on, and the queue |
| `RealmNotifications` | collections' notifiers, the worker, the Realm's thread |
| `TVShowStoreProofs`, `TVShowsAppProofs`, `SyncSessionProofs`, `SyncManagerProofs`, `RealmNotificationsProofs` | theorems about the module they are named after |
| `ShowsFeedProofs` | theorems about `NetworkingService` and `ShowsFeed`; `TVShowsAppProofs` instantiates them for the feed of the app |
| `StandaloneProofs` | theorems about the three modules that nothing else builds on: `PosterCell`, `SyncProgressNotifier` and `WorkQueue` |
| `RealmTableProofs` | lemmas about the operators of `RealmTable`, which the proofs about the store and the app share |
| `MCShowsFeed`, `MCTVShowsApp`, `MCRealmNotifications` | constants for TLC |

Definitions headed "Faulty:" are not part of any specification: each states a
plausible mistake in the definition that follows it, and substituting it breaks
the property it is paired with under "mutants".

### TVShowStore

`disk` is the last committed version of the table, `table` the version the main
thread's transaction sees, `held` the objects of the last `getSavedShows`.
A call is entered (`call`, `pc = "open"`) and proceeds by the steps of the Swift
body. `deleteShow` looks the row up before the write transaction and deletes it
inside. Deleting row `i` of `n` moves row `n` to `i`; every held object is moved
or detached accordingly (`Erase`). `realm.add` with an existing key, and deleting
an object a second time, raise an Objective-C exception, which Swift cannot
catch; a Realm that cannot be opened, begun or committed is trapped by `try!`.
Both are `Die("crashed")`. The commit is one atomic step (the switch of the
file's top reference). Two components of the state are history and change
nothing: `held[i].saw`, the row as handed out, and the `id` of a
`deleteFavorite` call. The columns other than the key are one opaque `fields`.

The refinement maps `saved` to the set of rows on disk, `pending` to the call in
progress and `up` to a living process. `FavoriteStore` has no step that lets a
call return without its effect, so `ImplementsFavoriteStore` says at once:
atomic, durable, exactly the show that was named, nothing lost, nothing else
changed.

### NetworkingService and ShowsFeed

Each fetch has a task (`status`) and, once complete, a block in `mainQueue`,
which is FIFO. Cancelling marks a running task; it completes with
`NSURLErrorCancelled`, which the block drops. An error, an undecodable body and
a timeout are the same to `onCompletion`: `Failed`. The branches for an invalid
URL (it is a literal), and for missing data or response without an error
(URLSession never does that), are left out. `answered` is history.

`ShowsFeed` adds the controller. Only `viewDidLoad` and the Retry button load.
`onScreen` is whether UIKit can present a dialog from this view; when it cannot,
`present` does nothing, and neither does the model.

### TVShowsApp

A store call is one step: handlers run to completion and, by the refinement, a
process that dies inside one leaves the file either as before or as after it;
what it kept in memory is gone either way. `Launch` is `Feed!ViewDidLoad` in a
new process. `SelectTab`, `OpenDetail`, `PopDetail` and `AbortPop` (a back
gesture let go half way) contain the `viewWillDisappear` and `viewWillAppear`
calls they cause, with the reload of the favourites, the refresh of the button
and the bar's colour. `SwipeRow` builds the action from `isFavorite` at that
moment; `TapDelete` puts up a sheet that keeps the index path; the `Confirm`
actions use it. `DrawFavorite` is a cell read at any time the list is visible.

Assumptions about UIKit (external): the device is a phone, sheets and dialogs are
modal, `reloadData` closes open rows, and an open row may survive a tap on its
action or a change of tab, as `KeptOpen` says. The framework does not document
that, so the run allows both, and `CrashesOnlyOnStaleAction` says what follows:
without survival the app's logic never ends the process, with it only by saving
a show through an action built before the show was saved.

### PosterCell

Every use of the cell is a load with its number. Its block runs on the global
queue in three steps (look-up, assignment of `task`, `resume` of whatever `task`
is by then). The task's handler runs on URLSession's queue, one at a time, in three
steps too: the download arrives (from here on `cancel` does nothing), the response
goes into the cache (`StoreResponse`), the block that sets the image is posted
(`PostImage`). `Reuse` is the main thread's `cellForRowAt`: blank, cancel, start
the next block. `outOfReach` records the loads that a cancellation could not
reach: their block was still to run, their task was not the cell's any more or had
completed with its handler still at work, or their image was on the main queue
already. The Swift variable is used by several
threads without a lock: `Race` lets the process end where two uses of it may
meet. `OldPostersWereOutOfReach` is the claim of the comment at
`TVShowTableViewCell.swift:38`, with the exception the code makes; `PosterArrives`
is its liveness, and excepts the same loads.

### SyncSession and SyncManager

In `SyncSession` a public member function is one critical section of
`m_state_mutex` and one action; `handle_error`, which gives the mutex up in
between, is `TakeError`, `ActOnError` and, for a client resync, `Restore`.
`client` is the sync client: sessions made, waits begun and not called back (each
with the value of the counter its callback compares), sessions destroyed that may
still call back. A new object that replaces the old one is known to `loop.old`.
The client's contract (`sync/client.hpp`) is external: each wait is called back,
with an error if its session was destroyed.

A client resync has two ways to fail its handlers, since others use the session
between its two halves. A handler that is registered there is written over by
`Restore` and never called; `NoneForgotten` names this among the ways to leave the
list uncalled. And if the session was revived and active again before `Restore`
brings the handlers back, nothing begins a wait for them: such handlers are
recorded in `overtaken`, and `NothingIsLeftBehind` and `WaitsEnd` except them and
no others, so a resync that is not overtaken has to register its handlers again.
`WaitsTellTheTruth` speaks of the handlers that were there when a wait was begun
(`ws`) and of what was committed then (`due`), both history. A failed `REALM_ASSERT` ends
the process (`aborted`); the model lets it happen, at the place where the code
can meet it (an error that is acted on after the session became inactive).

In `SyncManager` a step is what a thread does up to the next mutex it takes and
keeps, or releases. A session is up or inactive. `LeaveBe` is the destructor of
the temporary reference that `unregister_session` takes to see if there is one.
When operations of threads overlap, several things can go wrong that
`InTurnAllIsWell` therefore does not claim: a revived session that left the map, a
session left inactive under a new reference, an assertion in
`unregister_session`. What it claims is the sequential protocol: however whole
operations follow each other, sessions are up exactly when they should be.
`ReferencedIsRegistered` and `CirclesNeedLogOut` hold however they overlap.

### SyncProgressNotifier and WorkQueue

A notifier's call is decided on under the mutex and kept in `calls` until it is
made, so registrations and updates can overtake each other. `finals` counts the
calls that told a notifier it has all it waits for.

`WorkQueue`'s thread has the mutex except while it waits and while it runs tasks;
its steps are the head of its loop, waking up (notified, timed out or spuriously:
the predicate decides) and each task. `enqueue` makes the thread again when it
ended. Tasks are numbered in the order they are given; `SerialTasks` does them in
that order.

### RealmNotifications

A version of the file changes something in every collection, so a set of changes
is the set of versions that made them. An action is what the worker or the
Realm's thread does between two locks of `m_notifier_mutex`: `Start` chooses the
version to run for and the one to stop at before (`m_notifier_skip_version`);
`Ask` is where a run finds out which notifiers have callbacks (those that have
none it leaves out, `out`); `RunTo...` calculates; `HandOver...` gives every
callback the changes; `Notify`, `StopWaiting` (refresh, begin of a transaction)
deliver. `told` is history: the versions whose changes the code behind a callback
knows.

Two races of the code are in the model, happen in the run, and are what the
properties except:

* A first callback that is added while a run is under way that left its notifier
  out, and that is called before the run hands over, never hears of the versions of
  that run: `HandOver...` records them in its `late`. `NoChangeIsMissed`,
  `CallsMatchTheRealm` and `ChangesAreTold` allow exactly these to be unknown.
* A callback that is suppressed while a run is under way, or before one that starts
  before the commit, loses its suppression to the hand-over of that run and hears
  again of the transaction it was to skip: the version is in its `exposed` until it
  is delivered. `NoChangeIsToldTwice` allows exactly that.

## Runs

| run | question | instance |
|---|---|---|
| `store` | is every call atomic, does every object follow its row, under crashes anywhere? | three keys (one of them the default key), one content: tables up to three rows, where deleting the first, middle and last row differ |
| `network` | do overlapping fetches deliver in order, and the last one last? | three fetches: a cancelled one between two others |
| `feed` | are loads sequential, is the dialog current, do rows stay? | five loads, three answers and failure |
| `app` | do the screens stay current, do deletions hit what was asked, what can crash? | three shows with ids, one of them the default key, and one without; two loads per launch, any number of launches; rows may stay open |
| `poster` | does a reused cell end with its own poster? | three loads, two posters and none |
| `session` | is anything forgotten, told twice, or waited for in vain? | one handler, every stop policy and error, one automatic resync; two `sync::Session`s, two waits, one commit, two token requests |
| `manager` | what do the mutexes protect? | three threads with every operation, two Realms, three sessions |
| `progress` | do totals cover commits, does the end come, once? | two notifiers, two versions, one byte to download |
| `work_queue` | are tasks run once, in order, all? | six tasks |
| `notifications` | is a change missed, told twice, or told at the wrong version? | two collections with a callback each, one of them kept, three versions |
| `feed_retry_lost` | violated: does a failed load always offer a retry? | as `feed` |
| `manager_deadlock` | violated: are mutexes taken so that no circle arises? | two threads, without log in and `invalidate` |

The violated properties quote the repository (`src/challenge.md`, the app's
acceptance criteria, and comments in `sync_user.cpp` and `sync_session.cpp`); the
findings in `PROJECT.json` say what the code does instead:

* a load that fails while the Favorites tab is selected leaves an empty list, no
  dialog and no way to load again;
* `SyncUser::log_out` calls into the session, which needs the manager's mutex to
  unregister, under the user's mutex; `get_session` takes the user's mutex under
  the manager's. The two can wait for each other for ever.

### Bounds

Each is a named constant. `MaxFetches`: a feed with nothing under way does not
depend on how many fetches preceded it, and `FeedInvariant` and `NetInvariant`
hold for every bound. Three rows are the least that make a deletion move a row
that is neither the deleted one nor its neighbour. `MaxLoads = 3`: one load out
of reach, one that replaces its task, and the newest. `MaxSessions = 2` and
`MaxWaits = 2` in `session`: a session that is destroyed while the next one lives,
and a late wait of the first beside one of the second; `MaxResyncs = 1` is a resync
with everything before, within and after it; one commit decides whether
uploads are complete. The manager's three threads are one more than a circle
takes, and its three sessions let a second and a third replace the first.
`MaxTokens = 2` is one notifier that a thread registers while another is told.
Three versions let the worker skip one of the Realm's own between two of others.
In the run one of the two collections is `Lasting`, that is, neither it nor its
callback is taken away: the other one comes and goes beside it. A callback that was
called and removed is not added again (adding makes a new one in the code).
Six tasks come in several batches and after the thread ended. Where the bounds
are proved away (see below) they only decide what TLC enumerates.

`CHECK_DEADLOCK FALSE` stands where the system may really stop: the caller stops
fetching (`network`), the table stops reusing the cell or the process ended
(`poster`), the process ended by an assertion or nothing is left to do
(`session`), all is registered and transferred (`progress`), the queue is
destroyed (`work_queue`), and threads deadlock (`manager`, `manager_deadlock`),
which is what `manager_deadlock` is about.

### Fairness

`NetSpec` and `FairSpec` of `ShowsFeed` make a task complete (URLSession times out)
and the main run loop drain its queue; `PosterFairSpec` adds that blocks of the
global queue and handlers of URLSession's run. In
`SyncSession` the event loop thread runs, the server acknowledges what a session
it listens to announces, and the binding answers a token request once (it may
fail). In `SyncProgressNotifier` the client processes, uploads, downloads and
reports; in `WorkQueue` the thread is scheduled and its wait times out; in
`RealmNotifications` the worker and the run loop run and a wait whose condition
holds ends. All of these are loops of threads that have nothing else to do. No
user action, no kill, no launch, no commit and no error is fair. `TVShowStore`,
`TVShowsApp` and `SyncManager` state safety only and have no fairness.

## Proofs

For every value of the constants, from the named assumptions only (bounds are
natural numbers, versions begin at 1; the default key is a key and nil is not;
the feed's lists are sequences of shows; `NoPoster` is none of the posters; `None`
is no thread, there is a thread, and no thread is a Realm):

* `StoreInvariant`: `IInv` is inductive. `ObjectsFollowTheirRows` alone is not:
  that `deleteShow` erases the row it looked up needs `CallNamesItsRow` across the
  beginning of the transaction; that uniqueness survives an append needs the key
  check; that a commit is a whole request needs `CommitAppliesRequest`, which in
  turn needs `ReadersSeeCommitted` at the beginning of the block. The lemmas on
  `MoveLastOver` and `MovedAccessor` carry the data part: a deletion removes one
  key, keeps keys unique, and an adjusted accessor points at the same row.
  `StoreTypeOK`, `StoreKeysUnique`, `StoreObjectsFollowTheirRows`,
  `StoreReadersSeeCommitted` are its consequences, and `StoreOnlyOwnDeletionDetaches`
  needs it for the one step that moves rows: the row erased is that of the key
  named, so a held object that is detached by it stood for that key.
* `StoreImplementsFavoriteStore`: the refinement. Entering is `Ask`, the commit is
  `ApplySave` or `ApplyRemove`, a look-up that finds nothing is `ApplyRemove`, any
  death is `Die`; the rest stutters.
* `NetInvariant`, `NetAnswersInOrder`: `LastAnswerWins` is not inductive; that the
  queue holds answers in the order of their fetches, all newer than the one told
  last, and that the newest fetch runs, waits or was told (`AnswersAreQueued`), is.
* `FeedInvariant`: there is one token, which is a running task, its block on the
  main queue, or an answer; the dialog holds it after a failure. Hence
  `FeedLoadsNeverOverlap` (so `task?.cancel()` never has anything to cancel in
  this app), `FeedDialogIsCurrent`, `FeedRowsAreFinal`.
* `AppInvariant`: `AppInv` joins the table, the feed's own invariant (proved once,
  in `ShowsFeedProofs`, and preserved by every action of the app through the
  instance) and the screens. `ScreenInv` alone is not inductive: that the bar is
  current when a tab is selected needs it to be set back on the tab that is left
  (`BarsAreCurrent`); that a sheet's row is still the row asked about needs
  that nothing can change the list under a sheet (`SheetIsSound`), and that an open
  row's action is still the right one needs that only a row that survived can be
  out of date (`SwipesAreSound`). Hence `AppScreens`, `AppFavoritesList`,
  `AppCrashes` (with `SwipesAreSound`: only a survivor saves a saved show) and
  `AppRemovesOnlyAsked` (with `SheetIsSound` and `FavoritesListIsCurrent`: the
  index path leads to an object, the object to its row, and `MoveLastOver` removes
  the key of that row and no other).
* `PosterInvariant`: `PosterInv` is inductive because it speaks of every way an
  old poster can still take, not only of the image shown.
* `WorkQueueInvariant`, `WorkQueueIsSerial`: executed tasks, the batch and the
  queue are consecutive numbers, the thread exists iff it is not marked stopped,
  and an ended thread left nothing; a task run is the next one of `SerialTasks`.
* `SessionInvariant`: `SessionInv` strengthens `NothingIsLeftBehind`.
  `CommitsAreAnnounced` needs to know what a commit made while the session waits
  for a token left for later (`VersionsAreSound`); `HandlersAreWatched` survives a
  wait that ends because its handlers are told, and survives a death because a
  dying session keeps its `sync::Session` (`StatesAreSound`). With it:
  `ToldAtMostOnce` and `NoneIsForgotten`, since handlers that wait or were set aside
  have not been told (`HandlersAreSound`); `DeathHasUploaded`, since the wait that
  can end a dying session is numbered with its last death and covers every commit
  (`WaitsAreSound`: an older wait has a smaller number, whatever revived the session
  in between); `WaitsTellTruth`, since a wait of a `sync::Session` that is gone cannot
  answer with the counter of now, and one of the present session covers what was
  committed when it was begun.
* `SyncManagerInvariant`: who keeps which mutex at which place (`LocksAreKept`)
  makes `ReferencedIsRegistered` inductive: a thread that is about to refer to a
  session keeps the mutex under which the map's entry would go. Hence
  `SyncManagerReferencedIsRegistered`, and `SyncManagerCirclesNeedLogOut`: every
  circle has a mutex of the user in it, which only a log-out keeps.
* `SyncManagerInTurn`: `InTurnAllIsWell` speaks of the moments between operations
  and is far from inductive. `InTurn` says, as long as operations have not
  overlapped, that one thread at most is at work, and what is true at each place
  of the operation it is in (`AtRest`, `Opening`, `Closing`, `LoggingOut`,
  `LoggingIn`): which session is in the map, who refers to it, whether it is up.
  The proof takes every step of every operation from one such place to the next.
* `SyncProgressInvariant`: the client's total of uploads is the version it has
  seen (`Numbers`), so a captured total covers the version registered at; and the
  end of a notifier is ahead until the step that drops its package (`Ends`), so
  no second call can tell it.
* `NotificationsInvariant`: the worker's lists are the
  notifiers that ran before, all at one version, and those that did not
  (`WorkerHasTheList`); a version to skip stays ahead of them (`SkipIsAhead`).
* `NothingIsMissed`, `NothingIsToldTwice`, `CallsMatch`: a callback that follows
  knows, has waiting or has missed in `late` all up to its notifier's version, and
  knows at most the one version after it, which its own transaction made (`Knows`).
  The next hand-over is going to skip that version, or a run overlapped the
  transaction and the version is `exposed`; in either case the worker is to stop at
  it (`Pending`), in the run under way, in the next one, or in the next one after a
  run that ends before it. That there is at most one rests on transactions: a begin
  brings everybody to the latest version (`WriterTold`) before the next commit.
  What a run hands over and what it lacks make up all versions between the two it
  goes from and to (`RunsForAll`, `RunHas`), because only a notifier it left out has
  no changes.

Every invariant and every action property that a passing run checks is stated
by a theorem. Only model-checked is liveness, which is out of the prover's reach:
`LastFetchAnswered`, `LoadsEnd`, `PosterArrives`, `WaitsEnd`,
`NotifiersEnd`, `WorkEnds`, `ChangesAreTold`. The invariants of the proofs hold
under any scheduling. The inductive invariants defined in the proof modules
(`AppInv`, `SessionInv`, `InTurn`, `FollowInv`) were checked by TLC on the instances
of their runs before they were proved.

## Not modelled

* Realm Core (`Pods/Realm/include/core`): headers of a library whose
  implementation is a binary in the repository. They are most of the repository's
  lines of code: interfaces, templates of columns, queries and arrays, a network
  library. What the modelled code needs of it (transactions, versions, tables that
  reorder rows, the sync client) is external in the models. This is why the map
  covers a small share of the repository's lines.
* The bindings (`RLM*.mm`, RealmSwift): conversions between languages; of these
  the calls that the app makes are in `TVShowStore`.
* The rest of the ObjectStore: schemas and migrations (the app configures none and
  has one schema version), results, lists, index sets and the calculation of
  changes (sequential; `RealmNotifications` abstracts what it computes), partial
  sync's queries, permissions, metadata.
* In the parts modelled: connection change callbacks of a session, waits for
  downloads (the same code as for uploads), URL prefixes, errors of the
  notification worker, callbacks that add or remove callbacks.
* The app: layout, texts, colours other than the bar's, the status bar, the IMDb
  link, JSON decoding and the conversion of the other fields to a row and back
  are stateless; the action sheet on a pad, which raises an exception for want of
  a popover source, follows from one line. For a show without an id the trash
  button does nothing (`deleteShow` ignores nil, `saveShow` saves under the
  default key): `TrashButtonDeletes` excepts it.
* The repository's tests are empty templates.
