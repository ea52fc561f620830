------------------------------ MODULE ShowsFeed ------------------------------
(***************************************************************************)
(* TVShowsViewController's list: loadShows, update(response:), the didSet  *)
(* of screenState and the retry dialog of a failed load, over              *)
(* NetworkingService.  The list is loaded in viewDidLoad and again only by *)
(* the dialog's Retry button.                                              *)
(*                                                                         *)
(* The screen may be out of sight when an answer arrives (another tab is   *)
(* selected); UIKit does not present a dialog over a view that is not in a *)
(* window.                                                                 *)
(***************************************************************************)
EXTENDS NetworkingService

NoShows == <<>>

VARIABLES
  loaded,          \* viewDidLoad has run
  screenState,     \* "empty", "error" or "populated"
  currentTVShows,  \* the rows of the table
  dialog,          \* the retry dialog is up
  declined,        \* history: the user cancelled the last dialog
  onScreen         \* the screen can present a dialog

listVars == <<screenState, currentTVShows>>
vars == <<issued, status, mainQueue, answered,
          loaded, screenState, currentTVShows, dialog, declined, onScreen>>

Init ==
  /\ NetInit
  /\ loaded = FALSE
  /\ screenState = "empty" /\ currentTVShows = NoShows
  /\ dialog = FALSE /\ declined = FALSE
  /\ onScreen = TRUE

LoadShows == Fetch

ViewDidLoad ==
  /\ ~loaded
  /\ loaded' = TRUE
  /\ LoadShows
  /\ UNCHANGED <<screenState, currentTVShows, dialog, declined, onScreen>>

\* handleErrorMessage presents the dialog, if the screen can present.
PresentRetry ==
  /\ dialog' = onScreen
  /\ declined' = FALSE

\* update(response:) and screenState's didSet.
Update(answer) ==
  IF answer = Failed
  THEN /\ screenState' = "error"
       /\ currentTVShows' = NoShows
       /\ PresentRetry
  ELSE /\ screenState' = IF answer.shows = NoShows THEN "empty" ELSE "populated"
       /\ currentTVShows' = answer.shows
       /\ UNCHANGED <<dialog, declined>>

\* A completion block runs on the main queue, up to the reloaded table.
Deliver ==
  /\ TakeBlock
  /\ IF Head(mainQueue).outcome = Cancelled
     THEN UNCHANGED <<listVars, dialog, declined>>
     ELSE Update(Head(mainQueue).outcome)
  /\ UNCHANGED <<loaded, onScreen>>

\* Faulty: the dialog stays up over the load it started.
RetryBehindDialog ==
  /\ dialog
  /\ LoadShows
  /\ UNCHANGED <<loaded, listVars, dialog, declined, onScreen>>

TapRetry ==
  /\ dialog
  /\ dialog' = FALSE
  /\ LoadShows
  /\ UNCHANGED <<loaded, listVars, declined, onScreen>>

TapCancel ==
  /\ dialog
  /\ dialog' = FALSE
  /\ declined' = TRUE
  /\ UNCHANGED <<netVars, loaded, listVars, onScreen>>

\* A URLSession task completes in the background.
Background ==
  /\ Complete
  /\ UNCHANGED <<loaded, listVars, dialog, declined, onScreen>>

\* Faulty: the list is loaded again whenever it appears.
SwitchTabAndLoad ==
  /\ loaded
  /\ ~dialog
  /\ onScreen' = ~onScreen
  /\ IF onScreen' THEN LoadShows ELSE UNCHANGED netVars
  /\ UNCHANGED <<loaded, listVars, dialog, declined>>

\* The user goes to the other tab or comes back; viewWillAppear is not
\* overridden here. The dialog is modal.
SwitchTab ==
  /\ loaded
  /\ ~dialog
  /\ onScreen' = ~onScreen
  /\ UNCHANGED <<netVars, loaded, listVars, dialog, declined>>

Next ==
  \/ ViewDidLoad \/ Background \/ Deliver
  \/ TapRetry \/ TapCancel \/ SwitchTab

Spec == Init /\ [][Next]_vars

\* URLSession and the main run loop make progress; the user need not.
FairSpec == Spec /\ WF_vars(ViewDidLoad) /\ WF_vars(Background) /\ WF_vars(Deliver)

-------------------------------------------------------------------------------
\* Properties.

\* Every variable stays in its domain.
TypeOK ==
  /\ NetTypeOK
  /\ loaded \in BOOLEAN /\ dialog \in BOOLEAN /\ declined \in BOOLEAN /\ onScreen \in BOOLEAN
  /\ screenState \in {"empty", "error", "populated"}
  /\ currentTVShows \in Lists \cup {NoShows}

\* The screen never has two loads under way, so no answer is ever a stale one:
\* a load starts only after the previous one was answered and shown.
LoadsNeverOverlap ==
  [][issued' # issued => Quiet /\ answered = issued]_vars

\* The retry dialog speaks of the load that is shown: it is up only when that
\* load failed and no other is under way.
DialogIsCurrent ==
  dialog => Quiet /\ screenState = "error" /\ currentTVShows = NoShows

\* Rows, once shown, are never replaced: the index paths that row actions and
\* delete sheets keep stay valid, with nothing under way to change them.
RowsAreFinal == [][currentTVShows # NoShows => UNCHANGED currentTVShows]_vars

\* Every load that starts is answered on the screen.
LoadsEnd == (issued > answered) ~> (issued = answered)

\* What makes the properties above inductive: one token, passed from the task
\* to its block on the main queue, to the answer.
FeedInv ==
  /\ TypeOK
  /\ \A n \in Fetches : n < issued => status[n] = "finished"
  /\ \/ /\ answered = issued /\ mainQueue = <<>>
        /\ issued > 0 => status[issued] = "finished"
     \/ /\ answered = issued - 1
        /\ status[issued] = "running" /\ mainQueue = <<>>
     \/ /\ answered = issued - 1
        /\ status[issued] = "finished"
        /\ \E a \in Answers : mainQueue = <<[fetch |-> issued, outcome |-> a]>>
  /\ dialog => loaded /\ answered = issued /\ screenState = "error"
  /\ currentTVShows # NoShows => answered = issued /\ screenState = "populated"
  /\ screenState = "populated" => currentTVShows # NoShows
  /\ ~loaded => issued = 0 /\ currentTVShows = NoShows
  /\ loaded => issued > 0

\* challenge.md, View-01: "When any user action fails, then a retry dialog
\* should be shown." A failed load leaves the dialog up, unless the user has
\* cancelled it or has asked for another load.
FailureOffersRetry ==
  screenState = "error" /\ Quiet => dialog \/ declined
===============================================================================
