------------------------------ MODULE TVShowsApp ------------------------------
(***************************************************************************)
(* The running app: the shows and favourites tabs, the detail screen each  *)
(* can push, row swipes and delete sheets, over the table of favourites    *)
(* and the feed of ShowsFeed. Every handler runs to completion on the main *)
(* thread; a call of TVShowStore is one step here, which is what           *)
(* TVShowStore's refinement of FavoriteStore allows.                       *)
(*                                                                         *)
(* UIKit is external: sheets and dialogs are modal, a tab or navigation    *)
(* change calls viewWillDisappear and viewWillAppear, reloadData closes    *)
(* open rows, and KeptOpen says when it may leave an open row open.  The   *)
(* device is a phone: on a pad an action sheet needs a popover source,     *)
(* which the code does not give it.                                        *)
(***************************************************************************)
EXTENDS RealmTable

CONSTANTS
  Keys, DefaultId, NoId,  \* keys of saved shows; see TVShowStore
  Lists,                  \* answers of the feed: sequences of ids
  MaxFetches,             \* bound on the fetches of one launch
  KeptOpen                \* an open row may survive "tap", "tab", both, none

ASSUME AppAssumption ==
  /\ DefaultId \in Keys /\ NoId \notin Keys
  /\ Lists \subseteq Seq(Keys \cup {NoId})
  /\ MaxFetches \in Nat
  /\ KeptOpen \subseteq {"tap", "tab"}

VARIABLES
  app,        \* "running", "crashed" or "killed"
  rows,       \* the table of favourites on disk, rows [id]
  issued, status, mainQueue, answered, loaded, screenState,
  currentTVShows, dialog, declined,  \* the feed, see ShowsFeed
  tab,        \* the selected tab
  detail,     \* per tab: the show pushed and its bar button
  bar,        \* per tab: the colour of the navigation bar
  favorites,  \* the objects of the favourites screen: accessor and key
  swipe,      \* per tab: the open row, the action it shows and, for history,
              \* whether it survived a tap or a change of tab
  sheet       \* the delete sheet: its row and, for history, its show

feedVars == <<issued, status, mainQueue, answered, loaded, screenState,
              currentTVShows, dialog, declined>>
uiVars == <<tab, detail, bar, favorites, swipe, sheet>>
vars == <<app, rows, issued, status, mainQueue, answered, loaded, screenState,
          currentTVShows, dialog, declined,
          tab, detail, bar, favorites, swipe, sheet>>

Tabs == {"shows", "favorites"}
NoDetail == [show |-> NoId, button |-> "none"]
NoSwipe == [row |-> 0, action |-> "none", survived |-> FALSE]
NoSheet == [row |-> 0, asked |-> NoId]

\* The list of shows is in a window, with nothing presented over it.
ListOnScreen == tab = "shows" /\ detail["shows"] = NoDetail /\ sheet = NoSheet

Feed == INSTANCE ShowsFeed WITH onScreen <- ListOnScreen

Init ==
  /\ app = "killed"
  /\ rows = <<>>
  /\ issued = 0 /\ status = [n \in 1 .. MaxFetches |-> "unsent"]
  /\ mainQueue = <<>> /\ answered = 0
  /\ loaded = FALSE /\ screenState = "empty" /\ currentTVShows = <<>>
  /\ dialog = FALSE /\ declined = FALSE
  /\ tab = "shows"
  /\ detail = [t \in Tabs |-> NoDetail]
  /\ bar = [t \in Tabs |-> "listing"]
  /\ favorites = <<>>
  /\ swipe = [t \in Tabs |-> NoSwipe]
  /\ sheet = NoSheet

\* The process ends: only the table survives.
Die(why) ==
  /\ app' = why
  /\ issued' = 0 /\ status' = [n \in 1 .. MaxFetches |-> "unsent"]
  /\ mainQueue' = <<>> /\ answered' = 0
  /\ loaded' = FALSE /\ screenState' = "empty" /\ currentTVShows' = <<>>
  /\ dialog' = FALSE /\ declined' = FALSE
  /\ tab' = "shows"
  /\ detail' = [t \in Tabs |-> NoDetail]
  /\ bar' = [t \in Tabs |-> "listing"]
  /\ favorites' = <<>>
  /\ swipe' = [t \in Tabs |-> NoSwipe]
  /\ sheet' = NoSheet
  /\ UNCHANGED rows

-------------------------------------------------------------------------------
\* The store, as the handlers call it.

StoredId(s) == IF s = NoId THEN DefaultId ELSE s

\* TVShow.isFavorite on a table of favourites.
IsFavorite(table, s) == HasKey(table, StoredId(s))

\* TVShowStore.getSavedShows
SavedShows == [i \in DOMAIN rows |-> [row |-> i, id |-> rows[i].id]]

\* objects after row i of the table is deleted.
Adjusted(objects, i) ==
  [j \in DOMAIN objects |->
     [objects[j] EXCEPT !.row = MovedAccessor(@, i, Len(rows))]]

\* setFavoriteStatus(favorite: true); Realm refuses a key that exists.
CanSave(s) == ~IsFavorite(rows, s)
SaveShow(s) ==
  /\ rows' = Append(rows, [id |-> StoredId(s)])
  /\ UNCHANGED favorites

\* setFavoriteStatus(favorite: false): a show without id, or one that is not
\* saved, changes nothing.
Deletable(s) == s # NoId /\ HasKey(rows, s)
RowsWithout(s) ==
  IF Deletable(s) THEN MoveLastOver(rows, FirstRow(rows, s)) ELSE rows

\* Faulty: deleteShow(showID: id ?? 0).
DeleteStored(s) ==
  LET key == StoredId(s)
  IN  /\ rows' = RowsWithout(key)
      /\ favorites' = IF Deletable(key) THEN Adjusted(favorites, FirstRow(rows, key))
                      ELSE favorites

DeleteShow(s) ==
  /\ rows' = RowsWithout(s)
  /\ favorites' = IF Deletable(s) THEN Adjusted(favorites, FirstRow(rows, s)) ELSE favorites

Button(table, s) == IF IsFavorite(table, s) THEN "trash" ELSE "add"

-------------------------------------------------------------------------------
\* Navigation.

Interactive == app = "running" /\ sheet = NoSheet /\ ~dialog

\* What UIKit may make of an open row.
After(open, event) ==
  {NoSwipe} \cup (IF event \in KeptOpen /\ open # NoSwipe
                  THEN {[open EXCEPT !.survived = TRUE]} ELSE {})

\* The first screen loads its view; a dead process kept nothing.
Launch ==
  /\ app # "running"
  /\ app' = "running"
  /\ UNCHANGED <<rows, uiVars>>
  /\ Feed!ViewDidLoad

\* Faulty: the detail screen's viewWillAppear leaves the button as it was.
SelectTabOldButton(t) ==
  /\ Interactive
  /\ t # tab
  /\ tab' = t
  /\ bar' = [bar EXCEPT ![tab] = "listing",
                        ![t] = IF detail[t] = NoDetail THEN @ ELSE "detail"]
  /\ favorites' = IF t = "favorites" /\ detail[t] = NoDetail
                  THEN SavedShows ELSE favorites
  /\ swipe' = [s \in Tabs |-> NoSwipe]
  /\ UNCHANGED <<app, rows, detail, feedVars, sheet>>

\* viewWillDisappear of a detail screen left behind; viewWillAppear of the
\* screen that comes up: a detail screen or the list of favourites.
SelectTab(t) ==
  /\ Interactive
  /\ t # tab
  /\ tab' = t
  /\ bar' = [bar EXCEPT ![tab] = "listing",
                        ![t] = IF detail[t] = NoDetail THEN @ ELSE "detail"]
  /\ detail' = [detail EXCEPT ![t].button =
                  IF detail[t] = NoDetail THEN @ ELSE Button(rows, detail[t].show)]
  /\ IF t = "favorites" /\ detail[t] = NoDetail
     THEN /\ favorites' = SavedShows
          /\ \E open \in After(swipe["shows"], "tab") :
               swipe' = [s \in Tabs |-> IF s = "shows" THEN open ELSE NoSwipe]
     ELSE /\ UNCHANGED favorites
          /\ \E open \in After(swipe[tab], "tab") : swipe' = [swipe EXCEPT ![tab] = open]
  /\ UNCHANGED <<app, rows, feedVars, sheet>>

\* didSelectRowAt, prepare(for:), and the detail screen's viewDidLoad and
\* viewWillAppear. A touch beside an open row only closes it. Reading a
\* detached object raises an exception.
OpenDetail(i) ==
  /\ Interactive
  /\ detail[tab] = NoDetail /\ swipe[tab] = NoSwipe
  /\ IF tab = "favorites" /\ favorites[i].row = Detached
     THEN Die("crashed")
     ELSE LET s == IF tab = "shows" THEN currentTVShows[i] ELSE favorites[i].id
          IN  /\ detail' = [detail EXCEPT ![tab] =
                              [show |-> s, button |-> Button(rows, s)]]
              /\ bar' = [bar EXCEPT ![tab] = "detail"]
              /\ UNCHANGED <<app, rows, feedVars, tab, favorites, swipe, sheet>>

\* Faulty: the favourites are not loaded again when they appear.
UncoverOldList == UNCHANGED <<favorites, swipe>>

\* viewWillAppear of the list below; reloadData closes its open row.
Uncover ==
  IF tab = "favorites"
  THEN favorites' = SavedShows /\ swipe' = [swipe EXCEPT ![tab] = NoSwipe]
  ELSE UNCHANGED <<favorites, swipe>>

PopDetail ==
  /\ Interactive
  /\ detail[tab] # NoDetail
  /\ detail' = [detail EXCEPT ![tab] = NoDetail]
  /\ bar' = [bar EXCEPT ![tab] = "listing"]
  /\ Uncover
  /\ UNCHANGED <<app, rows, feedVars, tab, sheet>>

\* The back gesture is let go half way: the list appears, the detail screen
\* disappears and appears again.
AbortPop ==
  /\ Interactive
  /\ detail[tab] # NoDetail
  /\ detail' = [detail EXCEPT ![tab].button = Button(rows, detail[tab].show)]
  /\ bar' = [bar EXCEPT ![tab] = "detail"]
  /\ Uncover
  /\ UNCHANGED <<app, rows, feedVars, tab, sheet>>

-------------------------------------------------------------------------------
\* The detail screen's bar button and the row actions.

ToggleFavorite ==
  /\ Interactive
  /\ detail[tab] # NoDetail
  /\ LET s == detail[tab].show
     IN  /\ IF IsFavorite(rows, s) THEN DeleteShow(s) ELSE SaveShow(s)
         /\ detail' = [detail EXCEPT ![tab].button = Button(rows', s)]
  /\ UNCHANGED <<app, feedVars, tab, bar, swipe, sheet>>

TableRows == IF tab = "shows" THEN DOMAIN currentTVShows ELSE DOMAIN favorites

\* editActionsForRowAt: the action is built when the row opens.
SwipeRow(i) ==
  /\ Interactive
  /\ detail[tab] = NoDetail
  /\ swipe' = [swipe EXCEPT ![tab] =
       [row |-> i,
        action |-> IF tab = "shows" /\ ~IsFavorite(rows, currentTVShows[i])
                   THEN "Favorite" ELSE "Delete",
        survived |-> FALSE]]
  /\ UNCHANGED <<app, rows, feedVars, tab, detail, bar, favorites, sheet>>

CloseRow ==
  /\ Interactive
  /\ detail[tab] = NoDetail
  /\ swipe[tab] # NoSwipe
  /\ swipe' = [swipe EXCEPT ![tab] = NoSwipe]
  /\ UNCHANGED <<app, rows, feedVars, tab, detail, bar, favorites, sheet>>

\* The Favorite action saves without looking again.
TapFavorite ==
  /\ Interactive
  /\ detail[tab] = NoDetail
  /\ swipe[tab].action = "Favorite"
  /\ LET s == currentTVShows[swipe[tab].row]
     IN  IF CanSave(s)
         THEN /\ SaveShow(s)
              /\ \E open \in After(swipe[tab], "tap") : swipe' = [swipe EXCEPT ![tab] = open]
              /\ UNCHANGED <<app, feedVars, tab, detail, bar, sheet>>
         ELSE Die("crashed")

\* The Delete action of either list asks first.
TapDelete ==
  /\ Interactive
  /\ detail[tab] = NoDetail
  /\ swipe[tab].action = "Delete"
  /\ LET i == swipe[tab].row
     IN  sheet' = [row |-> i,
                   asked |-> IF tab = "shows" THEN currentTVShows[i] ELSE favorites[i].id]
  /\ \E open \in After(swipe[tab], "tap") : swipe' = [swipe EXCEPT ![tab] = open]
  /\ UNCHANGED <<app, rows, feedVars, tab, detail, bar, favorites>>

\* The handlers kept the index path, not the show.
ConfirmInShows ==
  /\ app = "running" /\ sheet # NoSheet /\ tab = "shows"
  /\ IF sheet.row \notin DOMAIN currentTVShows
     THEN Die("crashed")
     ELSE /\ DeleteShow(currentTVShows[sheet.row])
          /\ sheet' = NoSheet
          /\ UNCHANGED <<app, feedVars, tab, detail, bar, swipe>>

\* Faulty: the index path is taken for a position in the table.
ConfirmByPosition ==
  /\ app = "running" /\ sheet # NoSheet /\ tab = "favorites"
  /\ rows' = MoveLastOver(rows, sheet.row)
  /\ favorites' = Adjusted(SubSeq(favorites, 1, sheet.row - 1)
                  \o SubSeq(favorites, sheet.row + 1, Len(favorites)), sheet.row)
  /\ sheet' = NoSheet
  /\ swipe' = [swipe EXCEPT ![tab] = NoSwipe]
  /\ UNCHANGED <<app, feedVars, tab, detail, bar>>

\* removeFavorite: deleteFavorite, favorites.remove(at:), deleteRows.
ConfirmInFavorites ==
  /\ app = "running" /\ sheet # NoSheet /\ tab = "favorites"
  /\ LET i == sheet.row
         Without(objects) ==
           SubSeq(objects, 1, i - 1) \o SubSeq(objects, i + 1, Len(objects))
     IN  IF i \notin DOMAIN favorites
         THEN Die("crashed")
         ELSE /\ IF favorites[i].row = Detached
                 THEN rows' = rows /\ favorites' = Without(favorites)
                 ELSE /\ rows' = MoveLastOver(rows, favorites[i].row)
                      /\ favorites' = Without(Adjusted(favorites, favorites[i].row))
              /\ sheet' = NoSheet
              /\ swipe' = [swipe EXCEPT ![tab] = NoSwipe]
              /\ UNCHANGED <<app, feedVars, tab, detail, bar>>

CancelSheet ==
  /\ app = "running" /\ sheet # NoSheet
  /\ sheet' = NoSheet
  /\ UNCHANGED <<app, rows, feedVars, tab, detail, bar, favorites, swipe>>

\* A cell of the visible list of favourites is drawn: cellForRowAt reads it.
DrawFavorite(i) ==
  /\ app = "running" /\ tab = "favorites" /\ detail[tab] = NoDetail
  /\ IF favorites[i].row = Detached THEN Die("crashed") ELSE UNCHANGED vars

-------------------------------------------------------------------------------
\* The feed.

\* reloadData closes the open row of the list.
DeliverShows ==
  /\ app = "running"
  /\ swipe' = [swipe EXCEPT !["shows"] = NoSwipe]
  /\ UNCHANGED <<app, rows, tab, detail, bar, favorites, sheet>>
  /\ Feed!Deliver

FeedStep ==
  /\ app = "running"
  /\ UNCHANGED <<app, rows, uiVars>>
  /\ Feed!Background \/ Feed!TapRetry \/ Feed!TapCancel

Kill == app = "running" /\ Die("killed")

Next ==
  \/ Launch \/ Kill
  \/ FeedStep \/ DeliverShows
  \/ \E t \in Tabs : SelectTab(t)
  \/ \E i \in TableRows : OpenDetail(i) \/ SwipeRow(i)
  \/ PopDetail \/ AbortPop
  \/ ToggleFavorite
  \/ CloseRow \/ TapFavorite \/ TapDelete
  \/ ConfirmInShows \/ ConfirmInFavorites \/ CancelSheet
  \/ \E i \in DOMAIN favorites : DrawFavorite(i)

Spec == Init /\ [][Next]_vars

-------------------------------------------------------------------------------
\* Properties.

Ids == Keys \cup {NoId}

\* Every variable stays in its domain; rows opened or asked about exist.
TypeOK ==
  /\ app \in {"running", "crashed", "killed"}
  /\ rows \in Seq([id : Keys])
  /\ screenState \in {"empty", "error", "populated"}
  /\ currentTVShows \in Lists \cup {<<>>}
  /\ tab \in Tabs
  /\ detail \in [Tabs -> [show : Ids, button : {"none", "add", "trash"}]]
  /\ bar \in [Tabs -> {"listing", "detail"}]
  /\ favorites \in Seq([row : Nat, id : Keys])
  /\ swipe \in [Tabs -> [row : Nat, action : {"none", "Favorite", "Delete"},
                     survived : BOOLEAN]]
  /\ sheet \in [row : Nat, asked : Ids]
  /\ swipe["favorites"].action # "Favorite"
  /\ \A t \in Tabs : swipe[t] # NoSwipe => detail[t] = NoDetail

\* Whenever the list of favourites can be seen, it shows the saved shows, each
\* once, through objects that are still attached: whatever was saved or deleted
\* in the other tab or on a detail screen, nothing has to be refreshed by hand.
FavoritesListIsCurrent ==
  app = "running" /\ tab = "favorites" /\ detail[tab] = NoDetail =>
    /\ Len(favorites) = Len(rows)
    /\ UniqueKeys(favorites)
    /\ \A i \in DOMAIN favorites :
         favorites[i].row \in DOMAIN rows /\ rows[favorites[i].row].id = favorites[i].id

\* challenge.md, View-02: a show that is saved has a delete button, one that is
\* not a save button, also when it was changed behind the screen's back.
ButtonIsCurrent ==
  detail[tab] # NoDetail => detail[tab].button = Button(rows, detail[tab].show)

\* challenge.md, View-02: the bar has one colour over a list and another over a
\* detail screen, through pushes, pops, tab changes and abandoned gestures.
BarIsCurrent ==
  bar[tab] = IF detail[tab] = NoDetail THEN "listing" ELSE "detail"

\* challenge.md, View-02: the bar has "a button to save or delete the TV show
\* from favorites": where it is a delete button it takes the show out of them.
\* Not so for a show without an id, which is saved under the default key and
\* which deleteShow leaves alone.
TrashButtonDeletes ==
  detail[tab].button = "trash" /\ detail[tab].show # NoId =>
    ~IsFavorite(RowsWithout(detail[tab].show), detail[tab].show)

\* The state of the screens is sound: what the visible one shows of the show it
\* is about is true, and what it offers works.
ScreenInv ==
  TypeOK /\ (app = "running" => ButtonIsCurrent /\ BarIsCurrent /\ TrashButtonDeletes)

KeysOf(table) == {r.id : r \in RowSet(table)}
Removed == KeysOf(rows) \ KeysOf(rows')

\* The delete sheet keeps an index path while it is up. The show it removes is
\* the show of the row the user asked about, and no step removes two shows or
\* one that neither the sheet nor the visible detail screen is about. A show
\* without an id is saved and looked up as the one with id 0; asking to delete it
\* never removes that other show.
OnlyAskedIsRemoved ==
  [][\A k \in Removed :
       /\ Removed = {k}
       /\ \/ sheet # NoSheet /\ k = sheet.asked
          \/ detail[tab] # NoDetail /\ k = detail[tab].show]_vars

\* The app's own logic never ends the process as long as open rows do not survive
\* a tap or a change of tab.  Even if they do, the one thing that ends it is saving
\* a show by an action that was built before the show was saved.
CrashesOnlyOnStaleAction ==
  [][app' = "crashed" =>
       /\ swipe[tab].action = "Favorite" /\ swipe[tab].survived
       /\ IsFavorite(rows, currentTVShows[swipe[tab].row])]_vars
===============================================================================
