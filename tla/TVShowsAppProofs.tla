--------------------------- MODULE TVShowsAppProofs ---------------------------
(***************************************************************************)
(* Proofs about the running app, for any shows, answers of the feed, bound *)
(* on fetches and behaviour of open rows: what the screens show is true,   *)
(* the list of favourites is current whenever it can be seen, a show is    *)
(* removed only when the user asked for it, and one thing only ends the    *)
(* process.                                                                *)
(***************************************************************************)
EXTENDS TVShowsApp, RealmTableProofs, SequenceTheorems, TLAPS

\* The theorems about the feed, for the feed of this app.
Shows == INSTANCE ShowsFeedProofs WITH onScreen <- ListOnScreen

\* Nothing of the screens outlives the process.
DeadIsReset ==
  app # "running" =>
    /\ tab = "shows" /\ sheet = NoSheet
    /\ \A t \in Tabs : detail[t] = NoDetail /\ bar[t] = "listing" /\ swipe[t] = NoSwipe

\* The bar of a tab that is not selected has been set back.
BarsAreCurrent ==
  \A t \in Tabs :
    bar[t] = IF t = tab /\ detail[t] # NoDetail THEN "detail" ELSE "listing"

\* An open row is a row of its list. One behind another tab has survived a
\* change of tab, and an action that did not survive anything is up to date.
SwipesAreSound ==
  /\ swipe["shows"] # NoSwipe => swipe["shows"].row \in DOMAIN currentTVShows
  /\ swipe["favorites"] # NoSwipe => swipe["favorites"].row \in DOMAIN favorites
  /\ \A t \in Tabs : t # tab /\ swipe[t] # NoSwipe => swipe[t].survived
  /\ swipe["shows"].action = "Favorite" /\ ~swipe["shows"].survived =>
       ~IsFavorite(rows, currentTVShows[swipe["shows"].row])

\* The sheet covers a list and speaks of one of its rows.
SheetIsSound ==
  sheet # NoSheet =>
    /\ detail[tab] = NoDetail
    /\ tab = "shows" =>
         sheet.row \in DOMAIN currentTVShows /\ sheet.asked = currentTVShows[sheet.row]
    /\ tab = "favorites" =>
         sheet.row \in DOMAIN favorites /\ sheet.asked = favorites[sheet.row].id

\* The inductive invariant.
AppInv ==
  /\ TypeOK /\ UniqueKeys(rows) /\ Feed!FeedInv
  /\ DeadIsReset /\ BarsAreCurrent /\ ButtonIsCurrent
  /\ SwipesAreSound /\ SheetIsSound /\ FavoritesListIsCurrent

-------------------------------------------------------------------------------
\* The table and the favourites.

Row == [id : Keys]
Object == [row : Nat, id : Keys]
OpenRow == [row : Nat, action : {"none", "Favorite", "Delete"}, survived : BOOLEAN]

\* Looking for a key is asking for a member of KeysOf.
LEMMA KeysAreFound ==
  ASSUME NEW table, NEW k
  PROVE  HasKey(table, k) <=> k \in KeysOf(table)
  BY DEF HasKey, KeysOf, RowSet

\* The key a show is saved under is a key.
LEMMA StoredIdIsKey == \A s \in Ids : StoredId(s) \in Keys
  BY AppAssumption DEF Ids, StoredId

\* Saving a show adds its key and no other.
LEMMA SaveAddsKey ==
  ASSUME rows \in Seq(Row), UniqueKeys(rows), NEW s \in Ids,
         ~IsFavorite(rows, s), SaveShow(s)
  PROVE  /\ rows' \in Seq(Row) /\ UniqueKeys(rows')
         /\ KeysOf(rows') = KeysOf(rows) \cup {StoredId(s)}
         /\ favorites' = favorites
<1> DEFINE r == [id |-> StoredId(s)]
<1>1. r \in Row /\ r.id = StoredId(s) /\ ~HasKey(rows, r.id)
  BY StoredIdIsKey DEF Row, IsFavorite
<1>2. rows' = Append(rows, r) /\ favorites' = favorites
  BY DEF SaveShow
<1>3. UniqueKeys(rows') /\ RowSet(rows') = RowSet(rows) \cup {r}
  <2> HIDE DEF r
  <2> QED BY <1>1, <1>2, AppendAddsKey
<1>4. rows' \in Seq(Row)
  <2> HIDE DEF r
  <2> QED BY <1>1, <1>2
<1>5. KeysOf(rows') = KeysOf(rows) \cup {r.id}
  BY <1>3 DEF KeysOf
<1> QED BY <1>1, <1>2, <1>3, <1>4, <1>5

\* Deleting row i of the table takes its key, and moves the objects.
LEMMA DeleteRow ==
  ASSUME rows \in Seq(Row), UniqueKeys(rows), NEW i \in DOMAIN rows
  PROVE  /\ MoveLastOver(rows, i) \in Seq(Row) /\ UniqueKeys(MoveLastOver(rows, i))
         /\ KeysOf(MoveLastOver(rows, i)) = KeysOf(rows) \ {rows[i].id}
         /\ rows[i].id \in KeysOf(rows)
<1> DEFINE out == MoveLastOver(rows, i)
<1>1. out \in Seq(Row)
  BY MoveLastOverType
<1>2. UniqueKeys(out) /\ RowSet(out) = {r \in RowSet(rows) : r.id # rows[i].id}
  BY MoveLastOverRemovesKey
<1> HIDE DEF out
<1>3. KeysOf(out) = KeysOf(rows) \ {rows[i].id}
  BY <1>2 DEF KeysOf
<1>4. rows[i].id \in KeysOf(rows)
  BY DEF KeysOf, RowSet
<1> QED BY <1>1, <1>2, <1>3, <1>4 DEF out

\* The objects of the favourites screen keep their places and keys.
LEMMA AdjustedObjects ==
  ASSUME rows \in Seq(Row), NEW i \in DOMAIN rows, NEW objects \in Seq(Object)
  PROVE  /\ Adjusted(objects, i) \in Seq(Object)
         /\ DOMAIN Adjusted(objects, i) = DOMAIN objects
         /\ Len(Adjusted(objects, i)) = Len(objects)
         /\ \A j \in DOMAIN objects :
              /\ Adjusted(objects, i)[j].id = objects[j].id
              /\ Adjusted(objects, i)[j].row = MovedAccessor(objects[j].row, i, Len(rows))
<1> DEFINE new(j) == [objects[j] EXCEPT !.row = MovedAccessor(@, i, Len(rows))]
           out == Adjusted(objects, i)
<1>1. i \in Nat /\ Len(rows) \in Nat
  OBVIOUS
<1>2. \A j \in DOMAIN objects : objects[j] \in Object
  OBVIOUS
<1>3. \A p \in Nat : MovedAccessor(p, i, Len(rows)) \in Nat
  BY <1>1 DEF MovedAccessor, Detached
<1>4. \A j \in DOMAIN objects :
        /\ new(j) \in Object /\ new(j).id = objects[j].id
        /\ new(j).row = MovedAccessor(objects[j].row, i, Len(rows))
  BY <1>2, <1>3 DEF Object
<1>5. out = [j \in DOMAIN objects |-> new(j)]
  BY DEF Adjusted
<1> HIDE DEF new, out
<1>6. DOMAIN out = DOMAIN objects /\ \A j \in DOMAIN objects : out[j] = new(j)
  BY <1>5
<1>7. Len(objects) \in Nat /\ DOMAIN objects = 1 .. Len(objects)
  OBVIOUS
<1>8. out \in Seq(Object) /\ Len(out) = Len(objects)
  BY <1>4, <1>5, <1>7
<1> QED BY <1>4, <1>6, <1>8 DEF out

\* Deleting a show takes its key and no other; a show without id takes none.
LEMMA DeleteTakesKey ==
  ASSUME rows \in Seq(Row), UniqueKeys(rows), favorites \in Seq(Object),
         NEW s \in Ids, DeleteShow(s)
  PROVE  /\ rows' \in Seq(Row) /\ UniqueKeys(rows')
         /\ KeysOf(rows') = IF s = NoId THEN KeysOf(rows) ELSE KeysOf(rows) \ {s}
         /\ favorites' \in Seq(Object) /\ DOMAIN favorites' = DOMAIN favorites
         /\ \A j \in DOMAIN favorites : favorites'[j].id = favorites[j].id
<1>1. CASE ~Deletable(s)
  <2>1. rows' = rows /\ favorites' = favorites
    BY <1>1 DEF DeleteShow, RowsWithout
  <2>2. s = NoId \/ s \notin KeysOf(rows)
    BY <1>1, KeysAreFound DEF Deletable
  <2> QED BY <2>1, <2>2
<1>2. CASE Deletable(s)
  <2> DEFINE i == FirstRow(rows, s)
  <2>1. s # NoId /\ HasKey(rows, s)
    BY <1>2 DEF Deletable
  <2>2. i \in DOMAIN rows /\ rows[i].id = s
    BY <2>1, FirstRowFindsKey
  <2>3. rows' = MoveLastOver(rows, i) /\ favorites' = Adjusted(favorites, i)
    BY <1>2 DEF DeleteShow, RowsWithout
  <2> HIDE DEF i
  <2>4. rows' \in Seq(Row) /\ UniqueKeys(rows') /\ KeysOf(rows') = KeysOf(rows) \ {s}
    BY <2>2, <2>3, DeleteRow
  <2>5. /\ favorites' \in Seq(Object) /\ DOMAIN favorites' = DOMAIN favorites
        /\ \A j \in DOMAIN favorites : favorites'[j].id = favorites[j].id
    BY <2>2, <2>3, AdjustedObjects
  <2> QED BY <2>1, <2>4, <2>5
<1> QED BY <1>1, <1>2

\* The trash button takes the show out of the favourites.
LEMMA RowsWithoutTakesKey ==
  ASSUME rows \in Seq(Row), UniqueKeys(rows), NEW s \in Ids, s # NoId
  PROVE  ~IsFavorite(RowsWithout(s), s)
<1>1. StoredId(s) = s
  BY DEF StoredId
<1>2. CASE ~HasKey(rows, s)
  BY <1>1, <1>2 DEF IsFavorite, RowsWithout, Deletable
<1>3. CASE HasKey(rows, s)
  <2> DEFINE i == FirstRow(rows, s)
  <2>1. i \in DOMAIN rows /\ rows[i].id = s
    BY <1>3, FirstRowFindsKey
  <2>2. RowsWithout(s) = MoveLastOver(rows, i)
    BY <1>3 DEF RowsWithout, Deletable
  <2> HIDE DEF i
  <2>3. KeysOf(RowsWithout(s)) = KeysOf(rows) \ {s}
    BY <2>1, <2>2, DeleteRow
  <2>4. s \notin KeysOf(RowsWithout(s))
    BY <2>3
  <2> QED BY <1>1, <2>4, KeysAreFound DEF IsFavorite
<1> QED BY <1>2, <1>3

\* What is loaded when the list of favourites appears.
LEMMA SavedShowsAreCurrent ==
  ASSUME rows \in Seq(Row), UniqueKeys(rows)
  PROVE  /\ SavedShows \in Seq(Object) /\ Len(SavedShows) = Len(rows)
         /\ DOMAIN SavedShows = DOMAIN rows
         /\ UniqueKeys(SavedShows)
         /\ \A i \in DOMAIN SavedShows :
              SavedShows[i].row \in DOMAIN rows
                /\ rows[SavedShows[i].row].id = SavedShows[i].id
<1> DEFINE out == SavedShows
<1>1. Len(rows) \in Nat /\ DOMAIN rows = 1 .. Len(rows)
      /\ \A i \in DOMAIN rows : i \in Nat /\ rows[i].id \in Keys
  <2>1. \A i \in DOMAIN rows : rows[i] \in Row
    OBVIOUS
  <2>2. \A r \in Row : r.id \in Keys
    BY DEF Row
  <2> QED BY <2>1, <2>2
<1>2. out = [i \in DOMAIN rows |-> [row |-> i, id |-> rows[i].id]]
  BY DEF SavedShows
<1> HIDE DEF out
<1>3. /\ DOMAIN out = DOMAIN rows
      /\ \A i \in DOMAIN rows :
           out[i] \in Object /\ out[i].row = i /\ out[i].id = rows[i].id
  BY <1>1, <1>2 DEF Object
<1>4. out \in Seq(Object) /\ Len(out) = Len(rows)
  BY <1>1, <1>2, <1>3
<1>5. UniqueKeys(out)
  BY <1>3 DEF UniqueKeys
<1> QED BY <1>3, <1>4, <1>5 DEF out

-------------------------------------------------------------------------------
\* The feed of the app.

\* The steps of the feed of ShowsFeedProofs are those of TVShowsApp.
LEMMA SameFeed ==
  /\ Feed!FeedInv <=> Shows!FeedInv
  /\ Feed!FeedInv' <=> Shows!FeedInv'
  /\ Feed!ViewDidLoad <=> Shows!ViewDidLoad
  /\ Feed!Background <=> Shows!Background
  /\ Feed!Deliver <=> Shows!Deliver
  /\ Feed!TapRetry <=> Shows!TapRetry
  /\ Feed!TapCancel <=> Shows!TapCancel
<1> USE DEF Feed!Failed, Shows!Failed, Feed!Cancelled, Shows!Cancelled,
      Feed!Answers, Shows!Answers, Feed!Fetches, Shows!Fetches,
      Feed!netVars, Shows!netVars, Feed!listVars, Shows!listVars,
      Feed!NoShows, Shows!NoShows
<1>1. Feed!Fetch <=> Shows!Fetch
  BY DEF Feed!Fetch, Shows!Fetch
<1>2. Feed!Complete <=> Shows!Complete
  BY DEF Feed!Complete, Shows!Complete, Feed!Finish, Shows!Finish,
    Feed!FinishCancelled, Shows!FinishCancelled, Feed!Post, Shows!Post
<1>3. Feed!TakeBlock <=> Shows!TakeBlock
  BY DEF Feed!TakeBlock, Shows!TakeBlock
<1>4. (Feed!FeedInv <=> Shows!FeedInv) /\ (Feed!FeedInv' <=> Shows!FeedInv')
  BY DEF Feed!FeedInv, Shows!FeedInv, Feed!TypeOK, Shows!TypeOK,
    Feed!NetTypeOK, Shows!NetTypeOK
<1>5. Feed!ViewDidLoad <=> Shows!ViewDidLoad
  BY <1>1 DEF Feed!ViewDidLoad, Shows!ViewDidLoad, Feed!LoadShows, Shows!LoadShows
<1>6. Feed!Background <=> Shows!Background
  BY <1>2 DEF Feed!Background, Shows!Background
<1>7. Feed!Deliver <=> Shows!Deliver
  BY <1>3 DEF Feed!Deliver, Shows!Deliver, Feed!Update, Shows!Update,
    Feed!PresentRetry, Shows!PresentRetry
<1>8. Feed!TapRetry <=> Shows!TapRetry
  BY <1>1 DEF Feed!TapRetry, Shows!TapRetry, Feed!LoadShows, Shows!LoadShows
<1>9. Feed!TapCancel <=> Shows!TapCancel
  BY DEF Feed!TapCancel, Shows!TapCancel
<1> QED BY <1>4, <1>5, <1>6, <1>7, <1>8, <1>9

FeedMoves ==
  Feed!ViewDidLoad \/ Feed!Background \/ Feed!Deliver \/ Feed!TapRetry \/ Feed!TapCancel

\* What the feed shows is an answer or nothing.
LEMMA FeedTyped ==
  ASSUME Feed!FeedInv
  PROVE  /\ currentTVShows \in Lists \cup {<<>>}
         /\ screenState \in {"empty", "error", "populated"}
         /\ currentTVShows \in Seq(Ids)
<1>1. /\ currentTVShows \in Lists \cup {<<>>}
      /\ screenState \in {"empty", "error", "populated"}
  BY DEF Feed!FeedInv, Feed!TypeOK, Feed!NoShows
<1>2. Lists \subseteq Seq(Ids) /\ <<>> \in Seq(Ids)
  BY AppAssumption DEF Ids
<1> QED BY <1>1, <1>2

\* A step of the feed keeps its invariant, and rows that are shown.
LEMMA FeedKept ==
  ASSUME Feed!FeedInv, FeedMoves
  PROVE  /\ Feed!FeedInv'
         /\ currentTVShows # <<>> => currentTVShows' = currentTVShows
<1>1. Shows!FeedInv /\ Shows!Next
  BY SameFeed DEF FeedMoves, Shows!Next
<1>2. Shows!FeedInv'
  BY <1>1, Shows!NextFeedInv, AppAssumption
<1>3. ASSUME currentTVShows # <<>> PROVE currentTVShows' = currentTVShows
  <2>1. answered = issued /\ issued \in Nat
    BY <1>3, AppAssumption DEF Feed!FeedInv, Feed!NoShows, Feed!TypeOK, Feed!NetTypeOK
  <2>2. mainQueue = <<>>
    BY <2>1 DEF Feed!FeedInv
  <2>3. ~Feed!Deliver
    BY <2>2 DEF Feed!Deliver, Feed!TakeBlock
  <2> QED BY <2>3 DEF FeedMoves, Feed!ViewDidLoad, Feed!Background, Feed!TapRetry,
             Feed!TapCancel, Feed!listVars
<1> QED BY <1>2, <1>3, SameFeed

\* It stays where nothing of the feed changes, whatever the screens do.
LEMMA FeedRests ==
  ASSUME Feed!FeedInv, UNCHANGED feedVars
  PROVE  Feed!FeedInv' /\ currentTVShows' = currentTVShows
<1>1. ListOnScreen' \in BOOLEAN
  BY DEF ListOnScreen
<1> QED BY <1>1 DEF feedVars, Feed!FeedInv, Feed!TypeOK, Feed!NetTypeOK

\* A process that ends leaves a feed that has not begun.
FeedUnbegun ==
  /\ issued = 0 /\ status = [n \in 1 .. MaxFetches |-> "unsent"]
  /\ mainQueue = <<>> /\ answered = 0 /\ loaded = FALSE
  /\ screenState = "empty" /\ currentTVShows = <<>>
  /\ dialog = FALSE /\ declined = FALSE

LEMMA UnbegunIsSound == FeedUnbegun => Feed!FeedInv
<1> SUFFICES ASSUME FeedUnbegun PROVE Feed!FeedInv
  OBVIOUS
<1> USE AppAssumption DEF FeedUnbegun
<1>1. ListOnScreen \in BOOLEAN
  BY DEF ListOnScreen
<1>2. /\ status \in [1 .. MaxFetches -> {"unsent", "running", "cancelled", "finished"}]
      /\ \A n \in 1 .. MaxFetches : status[n] = "unsent" /\ n > 0
  OBVIOUS
<1>3. Feed!NetTypeOK
  BY <1>2 DEF Feed!NetTypeOK, Feed!Fetches
<1>4. Feed!TypeOK
  BY <1>1, <1>3 DEF Feed!TypeOK, Feed!NoShows
<1> QED BY <1>2, <1>4 DEF Feed!FeedInv, Feed!Fetches, Feed!NoShows

LEMMA DieResetsFeed == \A why : Die(why) => Feed!FeedInv'
<1>1. ASSUME NEW why, Die(why) PROVE FeedUnbegun'
  BY <1>1 DEF Die, FeedUnbegun
<1>2. FeedUnbegun' => Feed!FeedInv'
  BY UnbegunIsSound, PTL
<1> QED BY <1>1, <1>2

-------------------------------------------------------------------------------
\* Steps that end the process, and steps of the feed.

DetailType == [show : Ids, button : {"none", "add", "trash"}]

\* What the invariant says of the types.
LEMMA Known ==
  ASSUME AppInv
  PROVE  /\ rows \in Seq(Row) /\ UniqueKeys(rows)
         /\ favorites \in Seq(Object)
         /\ currentTVShows \in Seq(Ids)
         /\ \A i \in DOMAIN currentTVShows : currentTVShows[i] \in Ids
         /\ \A i \in DOMAIN favorites :
              /\ i \in Nat /\ favorites[i] \in Object
              /\ favorites[i].id \in Keys /\ favorites[i].id \in Ids
         /\ DOMAIN currentTVShows \subseteq Nat
         /\ swipe \in [Tabs -> OpenRow]
         /\ detail \in [Tabs -> DetailType]
         /\ tab \in Tabs /\ DOMAIN swipe = Tabs
<1>1. currentTVShows \in Seq(Ids)
  BY FeedTyped DEF AppInv
<1>2. /\ rows \in Seq(Row) /\ UniqueKeys(rows) /\ favorites \in Seq(Object)
      /\ swipe \in [Tabs -> OpenRow] /\ detail \in [Tabs -> DetailType] /\ tab \in Tabs
  BY DEF AppInv, TypeOK, Row, Object, OpenRow, DetailType
<1>3. DOMAIN currentTVShows \subseteq Nat
      /\ \A i \in DOMAIN currentTVShows : currentTVShows[i] \in Ids
  BY <1>1
<1>4. \A i \in DOMAIN favorites : i \in Nat /\ favorites[i] \in Object
  BY <1>2
<1>5. \A o \in Object : o.id \in Keys /\ o.id \in Ids
  BY DEF Object, Ids
<1>6. DOMAIN swipe = Tabs
  BY <1>2
<1> QED BY <1>1, <1>2, <1>3, <1>4, <1>5, <1>6

\* The constants of the screens are what their types say.
LEMMA Blank ==
  /\ NoSwipe \in OpenRow /\ NoSwipe.action = "none" /\ ~NoSwipe.survived
  /\ NoDetail \in DetailType /\ NoDetail.button = "none"
  /\ NoSheet \in [row : Nat, asked : Ids] /\ NoId \in Ids
  /\ "shows" \in Tabs /\ "favorites" \in Tabs
  BY DEF NoSwipe, OpenRow, NoDetail, DetailType, NoSheet, Ids, Tabs

\* Nothing is open after the process has ended.
LEMMA DieKeeps ==
  ASSUME AppInv, NEW why \in {"crashed", "killed"}, Die(why)
  PROVE  AppInv'
<1>1. /\ app' = why /\ rows' = rows /\ tab' = "shows" /\ sheet' = NoSheet
      /\ detail' = [t \in Tabs |-> NoDetail] /\ bar' = [t \in Tabs |-> "listing"]
      /\ swipe' = [t \in Tabs |-> NoSwipe] /\ favorites' = <<>>
  BY DEF Die
<1>2. Feed!FeedInv'
  BY DieResetsFeed
<1>3. screenState' = "empty" /\ currentTVShows' = <<>>
  BY DEF Die
<1>4. /\ \A t \in Tabs : detail'[t] = NoDetail /\ bar'[t] = "listing" /\ swipe'[t] = NoSwipe
      /\ tab' \in Tabs
  BY <1>1 DEF Tabs
<1>5. favorites' \in Seq(Object)
  BY <1>1
<1>6. TypeOK'
  BY <1>1, <1>3, <1>4, <1>5, Blank DEF AppInv, TypeOK, Object, OpenRow, DetailType
<1>7. DeadIsReset' /\ BarsAreCurrent' /\ ButtonIsCurrent'
  BY <1>1, <1>4 DEF DeadIsReset, BarsAreCurrent, ButtonIsCurrent
<1>8. SwipesAreSound' /\ SheetIsSound'
  BY <1>1, <1>4, Blank DEF SwipesAreSound, SheetIsSound
<1>9. FavoritesListIsCurrent'
  BY <1>1 DEF FavoritesListIsCurrent
<1> QED BY <1>1, <1>2, <1>6, <1>7, <1>8, <1>9 DEF AppInv

\* A step of the feed beside screens that rest, or that close a row of the list.
LEMMA FeedKeeps ==
  ASSUME AppInv, FeedMoves, app' = "running",
         UNCHANGED <<rows, tab, detail, bar, favorites, sheet>>,
         \/ swipe' = [swipe EXCEPT !["shows"] = NoSwipe]
         \/ swipe' = swipe /\ currentTVShows' = currentTVShows
  PROVE  AppInv'
<1> USE Known
<1>1. Feed!FeedInv' /\ (currentTVShows # <<>> => currentTVShows' = currentTVShows)
  BY FeedKept DEF AppInv
<1>2. /\ currentTVShows' \in Lists \cup {<<>>}
      /\ screenState' \in {"empty", "error", "populated"}
  BY <1>1 DEF Feed!FeedInv, Feed!TypeOK, Feed!NoShows
<1>3. /\ swipe' \in [Tabs -> OpenRow]
      /\ \A t \in Tabs : swipe'[t] = swipe[t] \/ swipe'[t] = NoSwipe
  BY Blank
<1>4. TypeOK'
  BY <1>2, <1>3, Blank DEF AppInv, TypeOK, OpenRow
<1>5. swipe'["shows"] # NoSwipe => currentTVShows' = currentTVShows /\ swipe'["shows"] = swipe["shows"]
  <2>1. CASE swipe' = [swipe EXCEPT !["shows"] = NoSwipe]
    BY <2>1, Blank
  <2>2. CASE swipe' = swipe /\ currentTVShows' = currentTVShows
    BY <2>2
  <2> QED BY <2>1, <2>2
<1>6. DeadIsReset' /\ BarsAreCurrent' /\ ButtonIsCurrent'
  BY DEF AppInv, DeadIsReset, BarsAreCurrent, ButtonIsCurrent
<1>7. SwipesAreSound'
  BY <1>3, <1>5, Blank DEF AppInv, SwipesAreSound
<1>8. SheetIsSound'
  <2>1. sheet # NoSheet /\ tab = "shows" => currentTVShows' = currentTVShows
    BY <1>1 DEF AppInv, SheetIsSound
  <2> QED BY <2>1 DEF AppInv, SheetIsSound
<1>9. FavoritesListIsCurrent'
  <2>1. app = "running" \/ tab = "shows"
    BY DEF AppInv, DeadIsReset
  <2> QED BY <2>1 DEF AppInv, FavoritesListIsCurrent
<1> QED BY <1>1, <1>4, <1>6, <1>7, <1>8, <1>9 DEF AppInv

-------------------------------------------------------------------------------
\* Navigation.

\* Being a favourite is having one's key in the table.
LEMMA FavoriteIsKey ==
  /\ \A table, s : IsFavorite(table, s) <=> StoredId(s) \in KeysOf(table)
  /\ \A table, s : Button(table, s) = IF StoredId(s) \in KeysOf(table) THEN "trash" ELSE "add"
  BY KeysAreFound DEF IsFavorite, Button

\* What UIKit makes of an open row: it is closed, or has survived.
LEMMA AfterCloses ==
  ASSUME NEW open \in OpenRow, NEW event, NEW o \in After(open, event)
  PROVE  /\ o \in OpenRow
         /\ o # NoSwipe =>
              /\ open # NoSwipe /\ o.survived
              /\ o.row = open.row /\ o.action = open.action
<1>1. CASE o = NoSwipe
  BY <1>1, Blank
<1>2. CASE o # NoSwipe
  <2>1. open # NoSwipe /\ o = [open EXCEPT !.survived = TRUE]
    BY <1>2 DEF After
  <2> QED BY <2>1 DEF OpenRow
<1> QED BY <1>1, <1>2

\* The button of a detail screen has a type of its own.
LEMMA ButtonType ==
  \A table, s : Button(table, s) \in {"add", "trash"} /\ Button(table, s) # "none"
  BY DEF Button

\* The list of favourites when it appears is the table.
LEMMA ReloadIsCurrent ==
  ASSUME AppInv, favorites' = SavedShows, rows' = rows
  PROVE  FavoritesListIsCurrent' /\ favorites' \in Seq(Object)
<1> DEFINE saved == SavedShows
<1>1. /\ saved \in Seq(Object) /\ Len(saved) = Len(rows) /\ UniqueKeys(saved)
      /\ \A i \in DOMAIN saved :
           saved[i].row \in DOMAIN rows /\ rows[saved[i].row].id = saved[i].id
  BY Known, SavedShowsAreCurrent
<1>2. favorites' = saved
  OBVIOUS
<1> HIDE DEF saved
<1>3. /\ Len(favorites') = Len(rows') /\ UniqueKeys(favorites')
      /\ \A i \in DOMAIN favorites' :
           favorites'[i].row \in DOMAIN rows' /\ rows'[favorites'[i].row].id = favorites'[i].id
  BY <1>1, <1>2
<1> QED BY <1>1, <1>2, <1>3 DEF FavoritesListIsCurrent

\* Changing the tab.
LEMMA SelectTabKeeps ==
  ASSUME AppInv, NEW t \in Tabs, SelectTab(t)
  PROVE  AppInv'
<1> USE Known
<1>1. /\ app = "running" /\ sheet = NoSheet /\ t # tab /\ tab' = t
      /\ UNCHANGED <<app, rows, feedVars, sheet>>
  BY DEF SelectTab, Interactive
<1>2. /\ bar' \in [Tabs -> {"listing", "detail"}] /\ bar'[tab] = "listing"
      /\ bar'[t] = IF detail[t] = NoDetail THEN bar[t] ELSE "detail"
  BY <1>1 DEF SelectTab, AppInv, TypeOK
<1>3. /\ detail' \in [Tabs -> DetailType]
      /\ detail'[tab] = detail[tab]
      /\ detail[t] = NoDetail => detail'[t] = NoDetail
      /\ detail[t] # NoDetail =>
           /\ detail'[t].show = detail[t].show
           /\ detail'[t].button = Button(rows, detail[t].show)
  <2> DEFINE button == IF detail[t] = NoDetail THEN detail[t].button
                       ELSE Button(rows, detail[t].show)
  <2>1. button \in {"none", "add", "trash"}
    BY ButtonType DEF DetailType
  <2>2. detail' = [detail EXCEPT ![t] = [detail[t] EXCEPT !.button = button]]
    BY <1>1 DEF SelectTab
  <2> HIDE DEF button
  <2>3. detail'[t] = [detail[t] EXCEPT !.button = button] /\ detail'[tab] = detail[tab]
    BY <2>2, <1>1
  <2>4. detail[t] \in DetailType
    OBVIOUS
  <2>5. detail'[t] \in DetailType /\ detail'[t].show = detail[t].show
        /\ detail'[t].button = button
    BY <2>1, <2>3, <2>4 DEF DetailType
  <2>6. detail' \in [Tabs -> DetailType]
    BY <2>2, <2>3, <2>5
  <2>7. ASSUME detail[t] = NoDetail PROVE detail'[t] = NoDetail
    BY <2>3, <2>7 DEF button, NoDetail
  <2> QED BY <2>3, <2>5, <2>6, <2>7 DEF button
<1>4. /\ swipe' \in [Tabs -> OpenRow]
      /\ swipe'[tab] \in After(swipe[tab], "tab") \/ swipe'[tab] = NoSwipe
      /\ swipe'[t] = NoSwipe \/ swipe'[t] = swipe[t]
      /\ t = "favorites" => swipe'[t] = NoSwipe
  <2> USE Blank
  <2>0. tab \in Tabs /\ swipe[tab] \in OpenRow /\ swipe["shows"] \in OpenRow
    OBVIOUS
  <2>1. CASE t = "favorites" /\ detail[t] = NoDetail
    <3>1. PICK open \in After(swipe["shows"], "tab") :
            swipe' = [s \in Tabs |-> IF s = "shows" THEN open ELSE NoSwipe]
      BY <2>1 DEF SelectTab
    <3>2. tab = "shows" /\ open \in OpenRow
      BY <2>0, <2>1, <1>1, AfterCloses DEF Tabs
    <3> QED BY <3>1, <3>2, <2>1
  <2>2. CASE ~(t = "favorites" /\ detail[t] = NoDetail)
    <3>1. PICK open \in After(swipe[tab], "tab") : swipe' = [swipe EXCEPT ![tab] = open]
      BY <2>2 DEF SelectTab
    <3>2. open \in OpenRow
      BY <2>0, AfterCloses
    <3>3. t = "favorites" => swipe[t] = NoSwipe
      BY <2>2 DEF AppInv, TypeOK
    <3> QED BY <3>1, <3>2, <3>3, <1>1
  <2> QED BY <2>1, <2>2
<1>5. \A s \in Tabs : s = t \/ s = tab
  BY <1>1 DEF Tabs
<1>6. Feed!FeedInv' /\ currentTVShows' = currentTVShows
  BY <1>1, FeedRests DEF AppInv
<1>7. \A s \in Tabs : swipe'[s] # NoSwipe =>
        /\ swipe[s] # NoSwipe /\ swipe'[s].row = swipe[s].row
        /\ swipe'[s].action = swipe[s].action
        /\ swipe'[s].survived
  <2>1. ASSUME swipe'[t] # NoSwipe PROVE swipe'[t] = swipe[t] /\ swipe[t].survived
    BY <1>1, <1>4, <2>1 DEF AppInv, SwipesAreSound
  <2>2. ASSUME swipe'[tab] # NoSwipe
        PROVE  /\ swipe[tab] # NoSwipe /\ swipe'[tab].row = swipe[tab].row
               /\ swipe'[tab].action = swipe[tab].action /\ swipe'[tab].survived
    <3>1. swipe'[tab] \in After(swipe[tab], "tab") /\ swipe[tab] \in OpenRow
      BY <1>4, <2>2
    <3> QED BY <3>1, <2>2, AfterCloses
  <2> QED BY <1>5, <2>1, <2>2
<1>8. favorites' \in Seq(Object) /\ FavoritesListIsCurrent'
      /\ (t = "shows" => favorites' = favorites)
      /\ (detail[t] # NoDetail => favorites' = favorites)
  <2>1. CASE t = "favorites" /\ detail[t] = NoDetail
    <3>1. favorites' = SavedShows /\ t # "shows"
      BY <2>1 DEF SelectTab
    <3> QED BY <3>1, <2>1, <1>1, ReloadIsCurrent
  <2>2. CASE ~(t = "favorites" /\ detail[t] = NoDetail)
    <3>1. favorites' = favorites
      BY <2>2 DEF SelectTab
    <3>2. tab' = "shows" \/ detail'[tab'] # NoDetail
      <4>1. detail[t] # NoDetail => detail'[t].button # "none"
        BY <1>3, ButtonType
      <4> QED BY <4>1, <2>2, <1>1, Blank DEF Tabs
    <3> QED BY <3>1, <3>2, Zenon DEF FavoritesListIsCurrent
  <2> QED BY <2>1, <2>2
<1>9. \A s \in Tabs : (detail'[s] = NoDetail) = (detail[s] = NoDetail)
  <2>1. detail[t] # NoDetail => detail'[t] # NoDetail
    <3>1. detail[t] # NoDetail => detail'[t].button # "none"
      BY <1>3, ButtonType
    <3> QED BY <3>1, Blank
  <2> QED BY <1>3, <1>5, <2>1
<1>10. TypeOK'
  <2>1. /\ screenState' = screenState /\ app' = app /\ rows' = rows /\ sheet' = sheet
    BY <1>1 DEF feedVars
  <2>2. swipe'["favorites"].action # "Favorite"
    BY <1>7, Blank DEF AppInv, TypeOK
  <2>3. \A s \in Tabs : swipe'[s] # NoSwipe => detail'[s] = NoDetail
    BY <1>7, <1>9 DEF AppInv, TypeOK
  <2> QED BY <1>1, <1>2, <1>3, <1>4, <1>6, <1>8, <2>1, <2>2, <2>3
    DEF AppInv, TypeOK, Object, OpenRow, DetailType
<1>11. DeadIsReset' /\ SheetIsSound'
  BY <1>1 DEF DeadIsReset, SheetIsSound
<1>12. BarsAreCurrent'
  <2>1. \A s \in Tabs : bar[s] = IF s = tab /\ detail[s] # NoDetail THEN "detail" ELSE "listing"
    BY DEF AppInv, BarsAreCurrent
  <2> QED BY <2>1, <1>1, <1>2, <1>5, <1>9 DEF BarsAreCurrent
<1>13. ButtonIsCurrent'
  <2>1. rows' = rows /\ tab' = t
    BY <1>1
  <2>2. \A s : Button(rows', s) = Button(rows, s)
    BY <2>1
  <2> QED BY <1>3, <1>9, <2>1, <2>2 DEF ButtonIsCurrent
<1>14. SwipesAreSound'
  <2>1. ASSUME swipe'["favorites"] # NoSwipe PROVE swipe'["favorites"].row \in DOMAIN favorites'
    <3>1. t = "shows"
      BY <1>4, <2>1 DEF Tabs
    <3> QED BY <3>1, <2>1, <1>7, <1>8, Blank DEF AppInv, SwipesAreSound
  <2>2. swipe'["shows"] # NoSwipe => swipe'["shows"].row \in DOMAIN currentTVShows'
    BY <1>6, <1>7, Blank DEF AppInv, SwipesAreSound
  <2>3. swipe'["shows"].action = "Favorite" => swipe'["shows"].survived
    BY <1>7, Blank
  <2> QED BY <2>1, <2>2, <2>3, <1>7 DEF SwipesAreSound
<1> QED BY <1>1, <1>6, <1>8, <1>10, <1>11, <1>12, <1>13, <1>14 DEF AppInv

\* An object of the list of favourites, when it is seen, is attached.
LEMMA SeenIsAttached ==
  ASSUME AppInv, app = "running", tab = "favorites", detail[tab] = NoDetail,
         NEW i \in DOMAIN favorites
  PROVE  /\ favorites[i].row \in DOMAIN rows /\ favorites[i].row # Detached
         /\ rows[favorites[i].row].id = favorites[i].id
<1>1. favorites[i].row \in DOMAIN rows /\ rows[favorites[i].row].id = favorites[i].id
  BY DEF AppInv, FavoritesListIsCurrent
<1>2. DOMAIN rows = 1 .. Len(rows)
  BY Known
<1>3. favorites[i].row # 0
  BY <1>1, <1>2
<1> QED BY <1>1, <1>3 DEF Detached

\* What changes when the detail screen of the selected tab becomes d: its bar,
\* and perhaps the list below it.
DetailChange(d) ==
  /\ app = "running" /\ sheet = NoSheet
  /\ detail' = [detail EXCEPT ![tab] = d]
  /\ bar' = [bar EXCEPT ![tab] = IF d = NoDetail THEN "listing" ELSE "detail"]
  /\ d # NoDetail => swipe[tab] = NoSwipe /\ d.button = Button(rows, d.show)
  /\ UNCHANGED <<app, rows, feedVars, tab, sheet>>

\* The list below appears, or stays where it is.
ListChange ==
  /\ favorites' \in Seq(Object)
  /\ swipe' = swipe \/ swipe' = [swipe EXCEPT ![tab] = NoSwipe]
  /\ \/ favorites' = favorites
     \/ FavoritesListIsCurrent' /\ swipe'["favorites"] = NoSwipe

LEMMA DetailKeeps ==
  ASSUME AppInv, NEW d \in DetailType, DetailChange(d), ListChange,
         d = NoDetail /\ tab = "favorites" => FavoritesListIsCurrent'
  PROVE  AppInv'
<1> DEFINE colour == IF d = NoDetail THEN "listing" ELSE "detail"
<1> USE DEF DetailChange, ListChange
<1> USE Known
<1>1. /\ detail' \in [Tabs -> DetailType] /\ detail'[tab] = d
      /\ \A t \in Tabs : t # tab => detail'[t] = detail[t]
  OBVIOUS
<1>2. bar \in [Tabs -> {"listing", "detail"}]
  BY DEF AppInv, TypeOK
<1>3. /\ bar' \in [Tabs -> {"listing", "detail"}] /\ bar'[tab] = colour
      /\ \A t \in Tabs : t # tab => bar'[t] = bar[t]
  BY <1>2
<1>4. /\ swipe' \in [Tabs -> OpenRow]
      /\ \A t \in Tabs : swipe'[t] = swipe[t] \/ swipe'[t] = NoSwipe
      /\ swipe[tab] = NoSwipe => swipe'[tab] = NoSwipe
  BY Blank
<1>5. Feed!FeedInv' /\ currentTVShows' = currentTVShows
  BY FeedRests DEF AppInv
<1>6. TypeOK'
  <2>1. screenState' = screenState
    BY DEF feedVars
  <2>2. \A t \in Tabs : swipe'[t] # NoSwipe => detail'[t] = NoDetail
    <3>1. d # NoDetail => swipe'[tab] = NoSwipe
      BY <1>4
    <3> QED BY <3>1, <1>1, <1>4 DEF AppInv, TypeOK
  <2>3. swipe'["favorites"].action # "Favorite"
    BY <1>4, Blank DEF AppInv, TypeOK
  <2> QED BY <1>1, <1>3, <1>4, <1>5, <2>1, <2>2, <2>3
    DEF AppInv, TypeOK, Object, OpenRow, DetailType
<1>7. DeadIsReset' /\ SheetIsSound'
  BY DEF DeadIsReset, SheetIsSound
<1>8. BarsAreCurrent'
  <2>1. \A s \in Tabs : bar[s] = IF s = tab /\ detail[s] # NoDetail THEN "detail" ELSE "listing"
    BY DEF AppInv, BarsAreCurrent
  <2> QED BY <2>1, <1>1, <1>3 DEF BarsAreCurrent
<1>9. ButtonIsCurrent'
  <2>1. \A s : Button(rows', s) = Button(rows, s)
    OBVIOUS
  <2> QED BY <2>1, <1>1 DEF ButtonIsCurrent
<1>10. FavoritesListIsCurrent'
  <2>1. CASE tab # "favorites" \/ d # NoDetail
    BY <2>1, <1>1, Zenon DEF FavoritesListIsCurrent
  <2>2. CASE tab = "favorites" /\ d = NoDetail
    BY <2>2
  <2> QED BY <2>1, <2>2
<1>11. SwipesAreSound'
  <2>1. swipe'["favorites"] # NoSwipe => swipe'["favorites"].row \in DOMAIN favorites'
    BY <1>4, Blank DEF AppInv, SwipesAreSound
  <2>2. swipe'["shows"] # NoSwipe => swipe'["shows"].row \in DOMAIN currentTVShows'
    BY <1>4, <1>5, Blank DEF AppInv, SwipesAreSound
  <2>3. \A t \in Tabs : t # tab' /\ swipe'[t] # NoSwipe => swipe'[t].survived
    BY <1>4 DEF AppInv, SwipesAreSound
  <2>4. swipe'["shows"].action = "Favorite" /\ ~swipe'["shows"].survived =>
          ~IsFavorite(rows', currentTVShows'[swipe'["shows"].row])
    BY <1>4, <1>5, Blank DEF AppInv, SwipesAreSound
  <2> QED BY <2>1, <2>2, <2>3, <2>4 DEF SwipesAreSound
<1> QED BY <1>5, <1>6, <1>7, <1>8, <1>9, <1>10, <1>11 DEF AppInv

\* The list below a detail screen appears.
LEMMA UncoverFacts ==
  ASSUME AppInv, Uncover, rows' = rows
  PROVE  ListChange /\ (tab = "favorites" => FavoritesListIsCurrent')
<1> USE DEF ListChange
<1>1. CASE tab = "favorites"
  <2>1. favorites' = SavedShows /\ swipe' = [swipe EXCEPT ![tab] = NoSwipe]
    BY <1>1 DEF Uncover
  <2> QED BY <1>1, <2>1, ReloadIsCurrent, Known, Blank
<1>2. CASE tab # "favorites"
  BY <1>2, Known DEF Uncover
<1> QED BY <1>1, <1>2

\* A row is opened; its object can be read.
LEMMA OpenDetailKeeps ==
  ASSUME AppInv, NEW i \in TableRows, OpenDetail(i)
  PROVE  AppInv' /\ app' = app
<1> USE Known
<1> DEFINE s == IF tab = "shows" THEN currentTVShows[i] ELSE favorites[i].id
           d == [show |-> s, button |-> Button(rows, s)]
<1>1. /\ app = "running" /\ sheet = NoSheet
      /\ detail[tab] = NoDetail /\ swipe[tab] = NoSwipe
  BY DEF OpenDetail, Interactive
<1>2. i \in IF tab = "shows" THEN DOMAIN currentTVShows ELSE DOMAIN favorites
  BY DEF TableRows
<1>3. tab = "shows" \/ tab = "favorites"
  BY DEF Tabs
<1>4. ~(tab = "favorites" /\ favorites[i].row = Detached)
  BY <1>1, <1>2, <1>3, SeenIsAttached
<1>5. s \in Ids
  BY <1>2, <1>3
<1>6. /\ detail' = [detail EXCEPT ![tab] = d] /\ bar' = [bar EXCEPT ![tab] = "detail"]
      /\ UNCHANGED <<app, rows, feedVars, tab, favorites, swipe, sheet>>
  BY <1>4 DEF OpenDetail
<1>7. d \in DetailType /\ d.show = s /\ d.button = Button(rows, s) /\ d # NoDetail
  <2>1. d.button \in {"add", "trash"} /\ d.show = s /\ d.button = Button(rows, s)
    BY ButtonType
  <2>2. d # NoDetail
    BY <2>1, Blank
  <2> QED BY <1>5, <2>1, <2>2 DEF DetailType
<1> HIDE DEF s, d
<1>8. DetailChange(d) /\ ListChange
  BY <1>1, <1>6, <1>7 DEF DetailChange, ListChange
<1> QED BY <1>6, <1>7, <1>8, DetailKeeps

\* A detail screen is left.
LEMMA PopDetailKeeps ==
  ASSUME AppInv, PopDetail
  PROVE  AppInv'
<1>1. /\ app = "running" /\ sheet = NoSheet /\ detail[tab] # NoDetail
      /\ detail' = [detail EXCEPT ![tab] = NoDetail]
      /\ bar' = [bar EXCEPT ![tab] = "listing"]
      /\ Uncover /\ UNCHANGED <<app, rows, feedVars, tab, sheet>>
  BY DEF PopDetail, Interactive
<1>2. rows' = rows
  BY <1>1
<1>3. NoDetail \in DetailType /\ DetailChange(NoDetail)
  BY <1>1, Blank DEF DetailChange
<1> QED BY <1>1, <1>2, <1>3, UncoverFacts, DetailKeeps

\* The detail screen of the selected tab, with its button set anew.
LEMMA ButtonSet ==
  ASSUME AppInv, detail[tab] # NoDetail, NEW b \in {"add", "trash"},
         detail' = [detail EXCEPT ![tab].button = b]
  PROVE  LET d == [detail[tab] EXCEPT !.button = b]
         IN  /\ d \in DetailType /\ d # NoDetail /\ d.show = detail[tab].show
             /\ d.button = b /\ detail' = [detail EXCEPT ![tab] = d]
<1> DEFINE d == [detail[tab] EXCEPT !.button = b]
<1>1. detail[tab] \in DetailType
  BY Known
<1>2. d \in DetailType /\ d.button = b /\ d.show = detail[tab].show
  BY <1>1 DEF DetailType
<1>3. d # NoDetail
  BY <1>2, Blank
<1>4. detail' = [detail EXCEPT ![tab] = d]
  OBVIOUS
<1> QED BY <1>2, <1>3, <1>4

\* The back gesture is let go half way.
LEMMA AbortPopKeeps ==
  ASSUME AppInv, AbortPop
  PROVE  AppInv'
<1> USE Known
<1> DEFINE b == Button(rows, detail[tab].show)
           d == [detail[tab] EXCEPT !.button = b]
<1>1. /\ app = "running" /\ sheet = NoSheet /\ detail[tab] # NoDetail
      /\ detail' = [detail EXCEPT ![tab].button = b]
      /\ bar' = [bar EXCEPT ![tab] = "detail"]
      /\ Uncover /\ UNCHANGED <<app, rows, feedVars, tab, sheet>>
  BY DEF AbortPop, Interactive
<1>2. b \in {"add", "trash"}
  BY ButtonType
<1> HIDE DEF b
<1>3. /\ d \in DetailType /\ d # NoDetail /\ d.show = detail[tab].show /\ d.button = b
      /\ detail' = [detail EXCEPT ![tab] = d]
  BY <1>1, <1>2, ButtonSet
<1>4. d.button = Button(rows, d.show)
  BY <1>3 DEF b
<1>5. swipe[tab] = NoSwipe
  BY <1>1 DEF AppInv, TypeOK
<1>6. rows' = rows
  BY <1>1
<1> HIDE DEF d
<1>7. DetailChange(d)
  BY <1>1, <1>3, <1>4, <1>5 DEF DetailChange
<1> QED BY <1>1, <1>3, <1>6, <1>7, UncoverFacts, DetailKeeps

-------------------------------------------------------------------------------
\* The bar button, the row actions and the delete sheet.

\* The button of the detail screen is pressed.
LEMMA ToggleKeeps ==
  ASSUME AppInv, ToggleFavorite
  PROVE  AppInv'
<1> USE Known
<1> DEFINE s == detail[tab].show
           b == Button(rows', s)
           d == [detail[tab] EXCEPT !.button = b]
<1>1. /\ app = "running" /\ sheet = NoSheet /\ detail[tab] # NoDetail
      /\ detail' = [detail EXCEPT ![tab].button = b]
      /\ IF IsFavorite(rows, s) THEN DeleteShow(s) ELSE SaveShow(s)
      /\ UNCHANGED <<app, feedVars, tab, bar, swipe, sheet>>
  BY DEF ToggleFavorite, Interactive
<1>2. s \in Ids
  BY DEF DetailType
<1>3. /\ rows' \in Seq(Row) /\ UniqueKeys(rows')
      /\ favorites' \in Seq(Object) /\ DOMAIN favorites' = DOMAIN favorites
  BY <1>1, <1>2, DeleteTakesKey, SaveAddsKey
<1>4. /\ d \in DetailType /\ d # NoDetail /\ d.show = s /\ d.button = b
      /\ detail' = [detail EXCEPT ![tab] = d]
  BY <1>1, ButtonType, ButtonSet
<1> HIDE DEF d
<1>5. /\ detail' \in [Tabs -> DetailType] /\ detail'[tab] = d
      /\ \A t \in Tabs : t # tab => detail'[t] = detail[t]
  BY <1>4
<1>6. Feed!FeedInv' /\ currentTVShows' = currentTVShows
  BY <1>1, FeedRests DEF AppInv
<1>7. swipe[tab] = NoSwipe
  BY <1>1 DEF AppInv, TypeOK
<1>8. TypeOK'
  <2>1. screenState' = screenState /\ app' = app /\ bar' = bar /\ swipe' = swipe
        /\ tab' = tab /\ sheet' = sheet
    BY <1>1 DEF feedVars
  <2>2. \A t \in Tabs : swipe'[t] # NoSwipe => detail'[t] = NoDetail
    BY <2>1, <1>5, <1>7 DEF AppInv, TypeOK
  <2> QED BY <2>1, <2>2, <1>3, <1>5, <1>6 DEF AppInv, TypeOK, Row, Object, DetailType
<1>9. DeadIsReset' /\ SheetIsSound'
  BY <1>1 DEF DeadIsReset, SheetIsSound
<1>10. BarsAreCurrent'
  BY <1>1, <1>4, <1>5 DEF AppInv, BarsAreCurrent
<1>11. ButtonIsCurrent'
  BY <1>1, <1>4, <1>5 DEF ButtonIsCurrent
<1>12. FavoritesListIsCurrent'
  BY <1>1, <1>4, <1>5, Zenon DEF FavoritesListIsCurrent
<1>13. SwipesAreSound'
  <2>1. swipe["shows"] # NoSwipe => swipe["shows"].survived
    BY <1>7, Blank DEF AppInv, SwipesAreSound
  <2>2. swipe["shows"].action = "Favorite" => swipe["shows"].survived
    BY <2>1, Blank
  <2> QED BY <1>1, <1>3, <1>6, <2>2 DEF AppInv, SwipesAreSound
<1> QED BY <1>3, <1>6, <1>8, <1>9, <1>10, <1>11, <1>12, <1>13 DEF AppInv

\* What changes when, over a list, only open rows and the sheet do.
LEMMA ListKeeps ==
  ASSUME AppInv, app = "running", detail[tab] = NoDetail,
         UNCHANGED <<app, rows, feedVars, tab, detail, bar, favorites>>,
         NEW o \in OpenRow, swipe' = [swipe EXCEPT ![tab] = o],
         o # NoSwipe => o.row \in (IF tab = "shows" THEN DOMAIN currentTVShows
                                   ELSE DOMAIN favorites),
         o.action = "Favorite" =>
           /\ tab = "shows"
           /\ o.survived \/ ~IsFavorite(rows, currentTVShows[o.row]),
         sheet' \in [row : Nat, asked : Ids], SheetIsSound'
  PROVE  AppInv'
<1> USE Known
<1>1. Feed!FeedInv' /\ currentTVShows' = currentTVShows
  BY FeedRests DEF AppInv
<1>2. /\ swipe' \in [Tabs -> OpenRow] /\ swipe'[tab] = o
      /\ \A t \in Tabs : t # tab => swipe'[t] = swipe[t]
  OBVIOUS
<1>3. /\ app' = app /\ rows' = rows /\ tab' = tab /\ detail' = detail /\ bar' = bar
      /\ favorites' = favorites /\ screenState' = screenState
  BY DEF feedVars
<1>4. TypeOK'
  <2>1. swipe'["favorites"].action # "Favorite"
    <3>1. CASE tab = "favorites"
      BY <3>1, <1>2
    <3>2. CASE tab # "favorites"
      BY <3>2, <1>2, Blank DEF AppInv, TypeOK
    <3> QED BY <3>1, <3>2
  <2>2. \A t \in Tabs : swipe'[t] # NoSwipe => detail'[t] = NoDetail
    BY <1>2, <1>3 DEF AppInv, TypeOK
  <2> QED BY <1>1, <1>2, <1>3, <2>1, <2>2 DEF AppInv, TypeOK, OpenRow
<1>5. DeadIsReset' /\ BarsAreCurrent' /\ ButtonIsCurrent' /\ FavoritesListIsCurrent'
  BY <1>3 DEF AppInv, DeadIsReset, BarsAreCurrent, ButtonIsCurrent, FavoritesListIsCurrent
<1>6. SwipesAreSound'
  <2>1. CASE tab = "shows"
    BY <2>1, <1>1, <1>2, <1>3, Blank DEF AppInv, SwipesAreSound
  <2>2. CASE tab = "favorites"
    BY <2>2, <1>1, <1>2, <1>3, Blank DEF AppInv, SwipesAreSound
  <2> QED BY <2>1, <2>2 DEF Tabs
<1> QED BY <1>1, <1>3, <1>4, <1>5, <1>6 DEF AppInv

\* A row is swiped.
LEMMA SwipeRowKeeps ==
  ASSUME AppInv, NEW i \in TableRows, SwipeRow(i)
  PROVE  AppInv'
<1> USE Known
<1> DEFINE action == IF tab = "shows" /\ ~IsFavorite(rows, currentTVShows[i])
                     THEN "Favorite" ELSE "Delete"
           o == [row |-> i, action |-> action, survived |-> FALSE]
<1>1. /\ app = "running" /\ detail[tab] = NoDetail /\ sheet = NoSheet
      /\ swipe' = [swipe EXCEPT ![tab] = o]
      /\ UNCHANGED <<app, rows, feedVars, tab, detail, bar, favorites, sheet>>
  BY DEF SwipeRow, Interactive
<1>2. i \in IF tab = "shows" THEN DOMAIN currentTVShows ELSE DOMAIN favorites
  BY DEF TableRows
<1>3. i \in Nat
  BY <1>2
<1>4. action \in {"none", "Favorite", "Delete"}
      /\ (action = "Favorite" => tab = "shows" /\ ~IsFavorite(rows, currentTVShows[i]))
  OBVIOUS
<1> HIDE DEF action
<1>5. o \in OpenRow /\ o.row = i /\ o.action = action
  BY <1>3, <1>4 DEF OpenRow
<1> HIDE DEF o
<1>6. SheetIsSound' /\ sheet' \in [row : Nat, asked : Ids]
  BY <1>1, Blank DEF SheetIsSound
<1> QED BY <1>1, <1>2, <1>4, <1>5, <1>6, ListKeeps

\* An open row is closed.
LEMMA CloseRowKeeps ==
  ASSUME AppInv, CloseRow
  PROVE  AppInv'
<1>1. /\ app = "running" /\ detail[tab] = NoDetail /\ sheet = NoSheet
      /\ swipe' = [swipe EXCEPT ![tab] = NoSwipe]
      /\ UNCHANGED <<app, rows, feedVars, tab, detail, bar, favorites, sheet>>
  BY DEF CloseRow, Interactive
<1>2. SheetIsSound' /\ sheet' \in [row : Nat, asked : Ids]
  BY <1>1, Blank DEF SheetIsSound
<1> QED BY <1>1, <1>2, Blank, ListKeeps

\* An open row of the visible list, with or without its action taken.
LEMMA OpenRowFacts ==
  ASSUME AppInv, swipe[tab].action # "none"
  PROVE  /\ swipe[tab] \in OpenRow /\ swipe[tab] # NoSwipe
         /\ swipe[tab].row \in (IF tab = "shows" THEN DOMAIN currentTVShows
                                ELSE DOMAIN favorites)
         /\ swipe[tab].action = "Favorite" => tab = "shows"
<1>1. swipe[tab] \in OpenRow /\ swipe[tab] # NoSwipe
  BY Known, Blank
<1>2. tab = "shows" \/ tab = "favorites"
  BY Known DEF Tabs
<1> QED BY <1>1, <1>2 DEF AppInv, TypeOK, SwipesAreSound

\* The Delete action asks.
LEMMA TapDeleteKeeps ==
  ASSUME AppInv, TapDelete
  PROVE  AppInv'
<1> USE Known
<1> DEFINE i == swipe[tab].row
           asked == IF tab = "shows" THEN currentTVShows[i] ELSE favorites[i].id
<1>1. /\ app = "running" /\ detail[tab] = NoDetail /\ swipe[tab].action = "Delete"
      /\ sheet' = [row |-> i, asked |-> asked]
      /\ UNCHANGED <<app, rows, feedVars, tab, detail, bar, favorites>>
  BY DEF TapDelete, Interactive
<1>2. PICK o \in After(swipe[tab], "tap") : swipe' = [swipe EXCEPT ![tab] = o]
  BY DEF TapDelete
<1>3. /\ swipe[tab] \in OpenRow
      /\ i \in (IF tab = "shows" THEN DOMAIN currentTVShows ELSE DOMAIN favorites)
  BY <1>1, OpenRowFacts
<1>4. /\ o \in OpenRow
      /\ o # NoSwipe => o.row = i /\ o.action = "Delete"
  BY <1>1, <1>3, AfterCloses
<1>5. o.action # "Favorite"
  BY <1>4, Blank
<1>6. asked \in Ids /\ i \in Nat
  BY <1>3
<1>7. currentTVShows' = currentTVShows
  BY <1>1 DEF feedVars
<1> HIDE DEF asked
<1>8. sheet' \in [row : Nat, asked : Ids] /\ sheet'.row = i /\ sheet'.asked = asked
  BY <1>1, <1>6
<1>9. SheetIsSound'
  BY <1>1, <1>3, <1>7, <1>8 DEF SheetIsSound, asked
<1> HIDE DEF i
<1> QED BY <1>1, <1>2, <1>3, <1>4, <1>5, <1>8, <1>9, ListKeeps

\* The sheet is put away.
LEMMA CancelSheetKeeps ==
  ASSUME AppInv, CancelSheet
  PROVE  AppInv'
<1> USE Known
<1>1. /\ app = "running" /\ sheet # NoSheet /\ sheet' = NoSheet
      /\ UNCHANGED <<app, rows, feedVars, tab, detail, bar, favorites, swipe>>
  BY DEF CancelSheet
<1>2. Feed!FeedInv' /\ currentTVShows' = currentTVShows /\ screenState' = screenState
  BY <1>1, FeedRests DEF AppInv, feedVars
<1>3. TypeOK'
  BY <1>1, <1>2, Blank DEF AppInv, TypeOK
<1> QED BY <1>1, <1>2, <1>3 DEF AppInv, DeadIsReset, BarsAreCurrent, ButtonIsCurrent,
      SwipesAreSound, SheetIsSound, FavoritesListIsCurrent

\* The Favorite action saves the show, if it is not saved.
LEMMA TapFavoriteKeeps ==
  ASSUME AppInv, TapFavorite, CanSave(currentTVShows[swipe[tab].row])
  PROVE  AppInv' /\ app' = app
<1> USE Known
<1> DEFINE s == currentTVShows[swipe[tab].row]
<1>1. /\ app = "running" /\ detail[tab] = NoDetail /\ sheet = NoSheet
      /\ swipe[tab].action = "Favorite" /\ SaveShow(s)
      /\ UNCHANGED <<app, feedVars, tab, detail, bar, sheet>>
  BY DEF TapFavorite, Interactive
<1>2. PICK o \in After(swipe[tab], "tap") : swipe' = [swipe EXCEPT ![tab] = o]
  BY DEF TapFavorite
<1>3. /\ swipe[tab] \in OpenRow /\ tab = "shows"
      /\ swipe[tab].row \in DOMAIN currentTVShows
  BY <1>1, OpenRowFacts
<1>4. /\ o \in OpenRow
      /\ o # NoSwipe => o.row = swipe[tab].row /\ o.survived
      /\ o.action = "Favorite" => o.survived
  BY <1>1, <1>3, AfterCloses, Blank
<1>5. s \in Ids /\ ~IsFavorite(rows, s)
  BY <1>3 DEF CanSave
<1> HIDE DEF s
<1>6. rows' \in Seq(Row) /\ UniqueKeys(rows') /\ favorites' = favorites
  BY <1>1, <1>5, SaveAddsKey
<1>7. Feed!FeedInv' /\ currentTVShows' = currentTVShows /\ screenState' = screenState
  BY <1>1, FeedRests DEF AppInv, feedVars
<1>8. /\ swipe' \in [Tabs -> OpenRow] /\ swipe'["shows"] = o
      /\ swipe'["favorites"] = swipe["favorites"]
  BY <1>2, <1>3, <1>4 DEF Tabs
<1>9. \A t \in Tabs : t = "shows" \/ t = "favorites"
  BY DEF Tabs
<1>10. TypeOK'
  <2>1. \A t \in Tabs : swipe'[t] # NoSwipe => detail'[t] = NoDetail
    BY <1>1, <1>3, <1>8, <1>9 DEF AppInv, TypeOK
  <2> QED BY <1>1, <1>6, <1>7, <1>8, <2>1 DEF AppInv, TypeOK, Row, OpenRow
<1>11. DeadIsReset' /\ BarsAreCurrent' /\ ButtonIsCurrent' /\ SheetIsSound'
  BY <1>1 DEF AppInv, DeadIsReset, BarsAreCurrent, ButtonIsCurrent, SheetIsSound
<1>12. FavoritesListIsCurrent'
  BY <1>1, <1>3, Zenon DEF FavoritesListIsCurrent
<1>13. SwipesAreSound'
  BY <1>1, <1>3, <1>4, <1>6, <1>7, <1>8, <1>9, Blank DEF AppInv, SwipesAreSound
<1> QED BY <1>1, <1>6, <1>7, <1>10, <1>11, <1>12, <1>13 DEF AppInv

\* The sheet over the list of shows always names a row of it.
LEMMA ConfirmInShowsKeeps ==
  ASSUME AppInv, ConfirmInShows
  PROVE  /\ AppInv' /\ app' = app
         /\ sheet # NoSheet /\ sheet.asked \in Ids /\ DeleteShow(sheet.asked)
<1> USE Known
<1> DEFINE s == currentTVShows[sheet.row]
<1>1. app = "running" /\ sheet # NoSheet /\ tab = "shows"
  BY DEF ConfirmInShows
<1>2. /\ sheet.row \in DOMAIN currentTVShows /\ s = sheet.asked
      /\ detail[tab] = NoDetail
  BY <1>1 DEF AppInv, SheetIsSound
<1>3. /\ DeleteShow(s) /\ sheet' = NoSheet
      /\ UNCHANGED <<app, feedVars, tab, detail, bar, swipe>>
  BY <1>2 DEF ConfirmInShows
<1>4. s \in Ids
  BY <1>2
<1> HIDE DEF s
<1>5. /\ rows' \in Seq(Row) /\ UniqueKeys(rows')
      /\ favorites' \in Seq(Object) /\ DOMAIN favorites' = DOMAIN favorites
      /\ \A k : k \in KeysOf(rows') => k \in KeysOf(rows)
  BY <1>3, <1>4, DeleteTakesKey
<1>6. Feed!FeedInv' /\ currentTVShows' = currentTVShows /\ screenState' = screenState
  BY <1>3, FeedRests DEF AppInv, feedVars
<1>7. TypeOK'
  BY <1>3, <1>5, <1>6, Blank DEF AppInv, TypeOK, Row, Object
<1>8. DeadIsReset' /\ BarsAreCurrent' /\ ButtonIsCurrent' /\ SheetIsSound'
  BY <1>1, <1>2, <1>3 DEF AppInv, DeadIsReset, BarsAreCurrent, ButtonIsCurrent, SheetIsSound
<1>9. FavoritesListIsCurrent'
  BY <1>1, <1>3, Zenon DEF FavoritesListIsCurrent
<1>10. SwipesAreSound'
  <2>1. \A r : ~IsFavorite(rows, r) => ~IsFavorite(rows', r)
    BY <1>5, FavoriteIsKey
  <2> QED BY <1>3, <1>5, <1>6, <2>1 DEF AppInv, SwipesAreSound
<1> QED BY <1>1, <1>2, <1>3, <1>4, <1>5, <1>6, <1>7, <1>8, <1>9, <1>10 DEF AppInv

\* A sequence without its i-th element.
LEMMA CutOut ==
  ASSUME NEW S, NEW q \in Seq(S), NEW i \in DOMAIN q
  PROVE  LET cut == SubSeq(q, 1, i - 1) \o SubSeq(q, i + 1, Len(q))
         IN  /\ cut \in Seq(S) /\ Len(cut) = Len(q) - 1
             /\ \A j \in 1 .. Len(q) - 1 :
                  cut[j] = q[IF j < i THEN j ELSE j + 1]
<1> DEFINE a == SubSeq(q, 1, i - 1)
           b == SubSeq(q, i + 1, Len(q))
<1>1. Len(q) \in Nat /\ i \in 1 .. Len(q)
  OBVIOUS
<1>2. /\ a \in Seq(S) /\ Len(a) = i - 1
      /\ \A j \in 1 .. i - 1 : a[j] = q[j]
  BY <1>1
<1>3. /\ b \in Seq(S) /\ Len(b) = Len(q) - i
      /\ \A j \in 1 .. Len(q) - i : b[j] = q[j + i]
  BY <1>1
<1> HIDE DEF a, b
<1>4. /\ a \o b \in Seq(S) /\ Len(a \o b) = Len(q) - 1
      /\ \A j \in 1 .. Len(q) - 1 :
           (a \o b)[j] = IF j <= i - 1 THEN a[j] ELSE b[j - (i - 1)]
  <2>1. Len(a) + Len(b) = Len(q) - 1
    BY <1>1, <1>2, <1>3
  <2>2. /\ a \o b \in Seq(S) /\ Len(a \o b) = Len(a) + Len(b)
        /\ \A j \in 1 .. Len(a) + Len(b) :
             (a \o b)[j] = IF j <= Len(a) THEN a[j] ELSE b[j - Len(a)]
    BY <1>2, <1>3, ConcatProperties
  <2> QED BY <1>2, <2>1, <2>2
<1>5. \A j \in 1 .. Len(q) - 1 : (a \o b)[j] = q[IF j < i THEN j ELSE j + 1]
  <2> SUFFICES ASSUME NEW j \in 1 .. Len(q) - 1
               PROVE  (a \o b)[j] = q[IF j < i THEN j ELSE j + 1]
    OBVIOUS
  <2>1. CASE j < i
    <3>1. j \in 1 .. i - 1 /\ j <= i - 1
      BY <1>1, <2>1
    <3> QED BY <1>2, <1>4, <2>1, <3>1
  <2>2. CASE ~(j < i)
    <3>1. j - (i - 1) \in 1 .. Len(q) - i /\ ~(j <= i - 1) /\ (j - (i - 1)) + i = j + 1
      BY <1>1, <2>2
    <3> QED BY <1>3, <1>4, <2>2, <3>1
  <2> QED BY <2>1, <2>2
<1> QED BY <1>4, <1>5 DEF a, b

\* The sheet over the list of favourites removes the object the user asked
\* about, and the table's row with it; the other objects follow their rows.
LEMMA ConfirmInFavoritesKeeps ==
  ASSUME AppInv, ConfirmInFavorites
  PROVE  /\ AppInv' /\ app' = app
         /\ sheet # NoSheet /\ KeysOf(rows) \ KeysOf(rows') = {sheet.asked}
<1> USE Known
<1> DEFINE i == sheet.row
           p == favorites[i].row
           n == Len(rows)
           moved == Adjusted(favorites, p)
<1>1. app = "running" /\ sheet # NoSheet /\ tab = "favorites"
  BY DEF ConfirmInFavorites
<1>2. /\ i \in DOMAIN favorites /\ favorites[i].id = sheet.asked
      /\ detail[tab] = NoDetail
  BY <1>1 DEF AppInv, SheetIsSound
<1>3. /\ p \in DOMAIN rows /\ p # Detached /\ rows[p].id = sheet.asked
  BY <1>1, <1>2, SeenIsAttached
<1>4. /\ rows' = MoveLastOver(rows, p)
      /\ favorites' = SubSeq(moved, 1, i - 1) \o SubSeq(moved, i + 1, Len(moved))
      /\ sheet' = NoSheet /\ swipe' = [swipe EXCEPT ![tab] = NoSwipe]
      /\ UNCHANGED <<app, feedVars, tab, detail, bar>>
  BY <1>2, <1>3 DEF ConfirmInFavorites
<1> HIDE DEF i
<1>5. /\ moved \in Seq(Object) /\ DOMAIN moved = DOMAIN favorites
      /\ Len(moved) = Len(favorites)
      /\ \A j \in DOMAIN favorites :
           moved[j].id = favorites[j].id /\ moved[j].row = MovedAccessor(favorites[j].row, p, n)
  BY <1>3, AdjustedObjects
<1>6. /\ rows' \in Seq(Row) /\ UniqueKeys(rows') /\ rows[p].id \in KeysOf(rows)
      /\ KeysOf(rows') = KeysOf(rows) \ {rows[p].id}
  BY <1>3, <1>4, DeleteRow
<1>7. /\ Len(favorites) = n /\ UniqueKeys(favorites)
      /\ \A j \in DOMAIN favorites :
           favorites[j].row \in DOMAIN rows /\ rows[favorites[j].row].id = favorites[j].id
  BY <1>1, <1>2 DEF AppInv, FavoritesListIsCurrent
<1>8. n \in Nat /\ DOMAIN favorites = 1 .. n /\ i \in 1 .. n
  BY <1>2, <1>7
<1> DEFINE from(j) == IF j < i THEN j ELSE j + 1
<1> HIDE DEF moved, p
<1>9. /\ favorites' \in Seq(Object) /\ Len(favorites') = n - 1
      /\ \A j \in 1 .. n - 1 : favorites'[j] = moved[from(j)]
  <2> DEFINE cut == SubSeq(moved, 1, i - 1) \o SubSeq(moved, i + 1, Len(moved))
  <2>1. i \in DOMAIN moved
    BY <1>2, <1>5
  <2>2. /\ cut \in Seq(Object) /\ Len(cut) = Len(moved) - 1
        /\ \A j \in 1 .. Len(moved) - 1 : cut[j] = moved[IF j < i THEN j ELSE j + 1]
    BY <1>5, <2>1, CutOut
  <2>3. favorites' = cut
    BY <1>4
  <2> HIDE DEF cut
  <2> QED BY <1>5, <1>7, <2>2, <2>3
<1>10. /\ rows' \in Seq(Row) /\ Len(rows') = n - 1
  BY <1>3, <1>4, MoveLastOverType
<1>11. \A j \in 1 .. n - 1 : from(j) \in 1 .. n /\ from(j) # i
  BY <1>8
<1>12. \A j, k \in 1 .. n - 1 : from(j) = from(k) => j = k
  BY <1>8
<1>13. DOMAIN favorites' = 1 .. n - 1
  BY <1>9
<1>14. \A j \in DOMAIN favorites' :
         favorites'[j].row \in DOMAIN rows' /\ rows'[favorites'[j].row].id = favorites'[j].id
  <2> SUFFICES ASSUME NEW j \in 1 .. n - 1
               PROVE  /\ favorites'[j].row \in DOMAIN rows'
                      /\ rows'[favorites'[j].row].id = favorites'[j].id
    BY <1>13
  <2> DEFINE f == from(j)
             r == favorites[f].row
  <2>1. f \in DOMAIN favorites /\ f # i
    BY <1>8, <1>11
  <2>2. r \in DOMAIN rows /\ rows[r].id = favorites[f].id
    BY <2>1, <1>7
  <2>3. favorites[f].id # favorites[i].id
    BY <2>1, <1>2, <1>7 DEF UniqueKeys
  <2>4. r # p
    BY <2>2, <2>3, <1>2, <1>3
  <2>5. favorites'[j].id = favorites[f].id /\ favorites'[j].row = MovedAccessor(r, p, n)
    BY <2>1, <1>5, <1>9
  <2> HIDE DEF f, r
  <2>6. MovedAccessor(r, p, n) # Detached
    <3>1. DOMAIN rows = 1 .. n
      OBVIOUS
    <3> QED BY <2>2, <2>4, <1>3, <3>1 DEF MovedAccessor, Detached
  <2>7. /\ MovedAccessor(r, p, n) \in DOMAIN rows'
        /\ rows'[MovedAccessor(r, p, n)] = rows[r]
    BY <2>2, <2>6, <1>3, <1>4, MovedAccessorKeepsRow
  <2> QED BY <2>2, <2>5, <2>7
<1>15. UniqueKeys(favorites')
  <2>1. \A j \in 1 .. n - 1 : favorites'[j].id = favorites[from(j)].id
    BY <1>5, <1>8, <1>9, <1>11
  <2> HIDE DEF from
  <2>2. \A j, k \in 1 .. n - 1 : favorites'[j].id = favorites'[k].id => from(j) = from(k)
    BY <2>1, <1>7, <1>8, <1>11 DEF UniqueKeys
  <2> QED BY <2>2, <1>12, <1>13 DEF UniqueKeys
<1> HIDE DEF from
<1>16. FavoritesListIsCurrent'
  BY <1>9, <1>10, <1>14, <1>15 DEF FavoritesListIsCurrent
<1>17. Feed!FeedInv' /\ currentTVShows' = currentTVShows /\ screenState' = screenState
  BY <1>4, FeedRests DEF AppInv, feedVars
<1>18. /\ swipe' \in [Tabs -> OpenRow] /\ swipe'["favorites"] = NoSwipe
       /\ swipe'["shows"] = swipe["shows"]
  BY <1>1, <1>4, Blank DEF Tabs
<1>19. \A t \in Tabs : t = "shows" \/ t = "favorites"
  BY DEF Tabs
<1>20. TypeOK'
  <2>1. \A t \in Tabs : swipe'[t] # NoSwipe => detail'[t] = NoDetail
    BY <1>4, <1>18, <1>19 DEF AppInv, TypeOK
  <2> QED BY <1>4, <1>6, <1>9, <1>17, <1>18, <2>1, Blank
    DEF AppInv, TypeOK, Row, Object, OpenRow
<1>21. DeadIsReset' /\ BarsAreCurrent' /\ ButtonIsCurrent' /\ SheetIsSound'
  BY <1>1, <1>2, <1>4 DEF AppInv, DeadIsReset, BarsAreCurrent, ButtonIsCurrent, SheetIsSound
<1>22. SwipesAreSound'
  <2>1. \A s : ~IsFavorite(rows, s) => ~IsFavorite(rows', s)
    BY <1>6, FavoriteIsKey
  <2> QED BY <1>1, <1>4, <1>17, <1>18, <1>19, <2>1, Blank DEF AppInv, SwipesAreSound
<1>23. KeysOf(rows) \ KeysOf(rows') = {sheet.asked}
  BY <1>3, <1>6
<1> QED BY <1>1, <1>4, <1>6, <1>16, <1>17, <1>20, <1>21, <1>22, <1>23 DEF AppInv

-------------------------------------------------------------------------------
\* The invariant.

\* Before its first launch the app has nothing saved and nothing on screen.
LEMMA InitSound == Init => AppInv
<1> SUFFICES ASSUME Init PROVE AppInv
  OBVIOUS
<1>1. /\ app = "killed" /\ rows = <<>> /\ tab = "shows" /\ sheet = NoSheet
      /\ detail = [t \in Tabs |-> NoDetail] /\ bar = [t \in Tabs |-> "listing"]
      /\ swipe = [t \in Tabs |-> NoSwipe] /\ favorites = <<>>
      /\ screenState = "empty" /\ currentTVShows = <<>>
  BY DEF Init
<1>2. Feed!FeedInv
  BY UnbegunIsSound DEF Init, FeedUnbegun
<1>3. \A t \in Tabs : detail[t] = NoDetail /\ bar[t] = "listing" /\ swipe[t] = NoSwipe
  BY <1>1
<1>4. rows \in Seq(Row) /\ favorites \in Seq(Object) /\ UniqueKeys(rows)
  BY <1>1 DEF UniqueKeys
<1>5. TypeOK
  BY <1>1, <1>3, <1>4, Blank DEF TypeOK, Row, Object, OpenRow, DetailType
<1>6. DeadIsReset /\ BarsAreCurrent /\ ButtonIsCurrent /\ FavoritesListIsCurrent
  BY <1>1, <1>3 DEF DeadIsReset, BarsAreCurrent, ButtonIsCurrent, FavoritesListIsCurrent, Tabs
<1>7. SwipesAreSound /\ SheetIsSound
  BY <1>1, <1>3, Blank DEF SwipesAreSound, SheetIsSound
<1> QED BY <1>2, <1>4, <1>5, <1>6, <1>7 DEF AppInv

\* The steps of the feed, and the launch that begins it.
LEMMA FeedStepsKeep ==
  ASSUME AppInv, Launch \/ FeedStep \/ DeliverShows
  PROVE  AppInv' /\ rows' = rows /\ app' = "running"
<1>1. CASE Launch
  <2>1. FeedMoves /\ currentTVShows' = currentTVShows
    BY <1>1 DEF Launch, FeedMoves, Feed!ViewDidLoad
  <2>2. app' = "running" /\ UNCHANGED <<rows, tab, detail, bar, favorites, sheet, swipe>>
    BY <1>1 DEF Launch, uiVars
  <2> QED BY <2>1, <2>2, FeedKeeps
<1>2. CASE FeedStep
  <2>1. FeedMoves /\ currentTVShows' = currentTVShows
    BY <1>2 DEF FeedStep, FeedMoves, Feed!Background, Feed!TapRetry, Feed!TapCancel,
      Feed!listVars
  <2>2. app' = "running" /\ UNCHANGED <<rows, tab, detail, bar, favorites, sheet, swipe>>
    BY <1>2 DEF FeedStep, uiVars
  <2> QED BY <2>1, <2>2, FeedKeeps
<1>3. CASE DeliverShows
  <2>1. FeedMoves /\ app' = "running" /\ swipe' = [swipe EXCEPT !["shows"] = NoSwipe]
        /\ UNCHANGED <<rows, tab, detail, bar, favorites, sheet>>
    BY <1>3 DEF DeliverShows, FeedMoves
  <2> QED BY <2>1, FeedKeeps
<1> QED BY <1>1, <1>2, <1>3

\* Drawing the list of favourites reads attached objects only.
LEMMA DrawKeeps ==
  ASSUME AppInv, NEW i \in DOMAIN favorites, DrawFavorite(i)
  PROVE  UNCHANGED vars
<1>1. favorites[i].row # Detached
  BY SeenIsAttached DEF DrawFavorite
<1> QED BY <1>1 DEF DrawFavorite

\* A step in which nothing changes.
LEMMA StutterKeeps ==
  ASSUME AppInv, UNCHANGED vars
  PROVE  AppInv'
<1>1. Feed!FeedInv' /\ currentTVShows' = currentTVShows
  BY FeedRests DEF AppInv, vars, feedVars
<1> QED BY <1>1 DEF AppInv, vars, TypeOK, DeadIsReset, BarsAreCurrent, ButtonIsCurrent,
      SwipesAreSound, SheetIsSound, FavoritesListIsCurrent

\* The Favorite action on a show that is saved: the open row has survived, or
\* the action would not be there.
StaleAction ==
  /\ swipe[tab].action = "Favorite" /\ swipe[tab].survived
  /\ IsFavorite(rows, currentTVShows[swipe[tab].row])

LEMMA TapFavoriteCrash ==
  ASSUME AppInv, TapFavorite, ~CanSave(currentTVShows[swipe[tab].row])
  PROVE  StaleAction /\ Die("crashed")
<1>1. swipe[tab].action = "Favorite"
  BY DEF TapFavorite
<1>2. tab = "shows" /\ swipe[tab] \in OpenRow
  BY <1>1, OpenRowFacts
<1>3. IsFavorite(rows, currentTVShows[swipe[tab].row])
  BY DEF CanSave
<1>4. swipe[tab].survived
  BY <1>1, <1>2, <1>3 DEF AppInv, SwipesAreSound
<1>5. Die("crashed")
  BY DEF TapFavorite
<1> QED BY <1>1, <1>3, <1>4, <1>5 DEF StaleAction

\* Every step keeps the invariant, and only a stale action ends the process.
LEMMA NextSound ==
  ASSUME AppInv, [Next]_vars
  PROVE  AppInv' /\ (app' = "crashed" /\ ~UNCHANGED vars => StaleAction)
<1>1. CASE Launch \/ FeedStep \/ DeliverShows
  BY <1>1, FeedStepsKeep
<1>2. CASE Kill
  <2>1. Die("killed") /\ app' = "killed"
    BY <1>2 DEF Kill, Die
  <2> QED BY <2>1, DieKeeps
<1>3. ASSUME NEW t \in Tabs, SelectTab(t)
      PROVE  AppInv' /\ app' = "running"
  BY <1>3, SelectTabKeeps DEF SelectTab, Interactive
<1>4. ASSUME NEW i \in TableRows, OpenDetail(i)
      PROVE  AppInv' /\ app' = "running"
  BY <1>4, OpenDetailKeeps DEF OpenDetail, Interactive
<1>5. ASSUME NEW i \in TableRows, SwipeRow(i)
      PROVE  AppInv' /\ app' = "running"
  BY <1>5, SwipeRowKeeps DEF SwipeRow, Interactive
<1>6. CASE PopDetail
  BY <1>6, PopDetailKeeps DEF PopDetail, Interactive
<1>7. CASE AbortPop
  BY <1>7, AbortPopKeeps DEF AbortPop, Interactive
<1>8. CASE ToggleFavorite
  BY <1>8, ToggleKeeps DEF ToggleFavorite, Interactive
<1>9. CASE CloseRow
  BY <1>9, CloseRowKeeps DEF CloseRow, Interactive
<1>10. CASE TapFavorite
  <2>1. app = "running"
    BY <1>10 DEF TapFavorite, Interactive
  <2>2. CASE CanSave(currentTVShows[swipe[tab].row])
    BY <1>10, <2>1, <2>2, TapFavoriteKeeps
  <2>3. CASE ~CanSave(currentTVShows[swipe[tab].row])
    BY <1>10, <2>3, TapFavoriteCrash, DieKeeps
  <2> QED BY <2>2, <2>3
<1>11. CASE TapDelete
  BY <1>11, TapDeleteKeeps DEF TapDelete, Interactive
<1>12. CASE ConfirmInShows
  BY <1>12, ConfirmInShowsKeeps DEF ConfirmInShows
<1>13. CASE ConfirmInFavorites
  BY <1>13, ConfirmInFavoritesKeeps DEF ConfirmInFavorites
<1>14. CASE CancelSheet
  BY <1>14, CancelSheetKeeps DEF CancelSheet
<1>15. CASE UNCHANGED vars
  BY <1>15, StutterKeeps
<1>16. ASSUME NEW i \in DOMAIN favorites, DrawFavorite(i)
       PROVE  UNCHANGED vars
  BY <1>16, DrawKeeps
<1> QED BY <1>1, <1>2, <1>3, <1>4, <1>5, <1>6, <1>7, <1>8, <1>9, <1>10, <1>11, <1>12,
      <1>13, <1>14, <1>15, <1>16, StutterKeeps DEF Next

\* The invariant implies what the run checks.
LEMMA ScreensAreSound == AppInv => ScreenInv /\ FavoritesListIsCurrent
<1> SUFFICES ASSUME AppInv PROVE ScreenInv /\ FavoritesListIsCurrent
  OBVIOUS
<1>1. BarIsCurrent
  BY Known DEF AppInv, BarsAreCurrent, BarIsCurrent
<1>2. TrashButtonDeletes
  <2>1. detail[tab].show \in Ids
    BY Known DEF DetailType
  <2> QED BY <2>1, Known, RowsWithoutTakesKey DEF TrashButtonDeletes
<1> QED BY <1>1, <1>2 DEF AppInv, ScreenInv

\* What makes the properties of the app inductive holds in every state.
THEOREM AppInvariant == Spec => []AppInv
<1>1. AppInv /\ [Next]_vars => AppInv'
  BY NextSound
<1> QED BY <1>1, InitSound, PTL DEF Spec

\* The visible screen tells the truth: a detail screen's button says whether
\* its show is saved, also when it was saved or deleted behind its back, the
\* bar has its colour, and the trash button deletes.
THEOREM AppScreens == Spec => []ScreenInv
  BY AppInvariant, ScreensAreSound, PTL

\* The list of favourites is the table whenever it can be seen, through
\* objects that are attached.
THEOREM AppFavoritesList == Spec => []FavoritesListIsCurrent
  BY AppInvariant, ScreensAreSound, PTL

\* Nothing but the Favorite action of an open row that survived a tap or a
\* change of tab ends the process.
THEOREM AppCrashes == Spec => CrashesOnlyOnStaleAction
<1>1. AppInv /\ [Next]_vars =>
        [app' = "crashed" =>
           /\ swipe[tab].action = "Favorite" /\ swipe[tab].survived
           /\ IsFavorite(rows, currentTVShows[swipe[tab].row])]_vars
  BY NextSound DEF StaleAction
<1> QED BY <1>1, AppInvariant, PTL DEF Spec, CrashesOnlyOnStaleAction

-------------------------------------------------------------------------------
\* What is removed.

\* The disjuncts of the property: the sheet asked, or the detail screen is open.
Wanted(k) ==
  \/ sheet # NoSheet /\ k = sheet.asked
  \/ detail[tab] # NoDetail /\ k = detail[tab].show

\* A call that deletes a show takes its key at most.
LEMMA DeleteRemovesOne ==
  ASSUME AppInv, NEW s \in Ids, DeleteShow(s)
  PROVE  \A k \in Removed : Removed = {k} /\ k = s
<1>1. KeysOf(rows') = IF s = NoId THEN KeysOf(rows) ELSE KeysOf(rows) \ {s}
  BY Known, DeleteTakesKey
<1>2. ASSUME s = NoId PROVE Removed = {}
  BY <1>1, <1>2 DEF Removed
<1>3. ASSUME s # NoId PROVE Removed \subseteq {s}
  BY <1>1, <1>3 DEF Removed
<1> QED BY <1>2, <1>3

\* Saving removes nothing.
LEMMA SaveRemovesNone ==
  ASSUME AppInv, NEW s \in Ids, ~IsFavorite(rows, s), SaveShow(s)
  PROVE  Removed = {}
  BY Known, SaveAddsKey DEF Removed

\* Every step that removes a show removes the one that was asked about.
LEMMA NextRemoves ==
  ASSUME AppInv, [Next]_vars
  PROVE  \A k \in Removed : Removed = {k} /\ Wanted(k)
<1>1. CASE rows' = rows
  BY <1>1 DEF Removed
<1>2. CASE ToggleFavorite
  <2> DEFINE s == detail[tab].show
  <2>1. s \in Ids
    BY Known DEF DetailType
  <2>2. /\ detail[tab] # NoDetail
        /\ IF IsFavorite(rows, s) THEN DeleteShow(s) ELSE SaveShow(s)
    BY <1>2 DEF ToggleFavorite
  <2>3. CASE IsFavorite(rows, s)
    <3>1. \A k \in Removed : Removed = {k} /\ k = s
      BY <2>1, <2>2, <2>3, DeleteRemovesOne
    <3> QED BY <2>2, <3>1 DEF Wanted
  <2>4. CASE ~IsFavorite(rows, s)
    <3>1. Removed = {}
      BY <2>1, <2>2, <2>4, SaveRemovesNone
    <3> QED BY <3>1
  <2> QED BY <2>3, <2>4
<1>3. CASE TapFavorite
  <2> DEFINE s == currentTVShows[swipe[tab].row]
  <2>1. CASE CanSave(s)
    <3>1. SaveShow(s) /\ swipe[tab].action = "Favorite" /\ ~IsFavorite(rows, s)
      BY <1>3, <2>1 DEF TapFavorite, CanSave
    <3>2. s \in Ids
      BY <3>1, OpenRowFacts, Known
    <3>3. Removed = {}
      BY <3>1, <3>2, SaveRemovesNone
    <3> QED BY <3>3
  <2>2. CASE ~CanSave(s)
    <3>1. rows' = rows
      BY <1>3, <2>2 DEF TapFavorite, Die
    <3> QED BY <3>1, <1>1
  <2> QED BY <2>1, <2>2
<1>4. CASE ConfirmInShows
  <2>1. sheet # NoSheet /\ sheet.asked \in Ids /\ DeleteShow(sheet.asked)
    BY <1>4, ConfirmInShowsKeeps
  <2> QED BY <2>1, DeleteRemovesOne DEF Wanted
<1>5. CASE ConfirmInFavorites
  <2>1. sheet # NoSheet /\ Removed = {sheet.asked}
    BY <1>5, ConfirmInFavoritesKeeps DEF Removed
  <2> QED BY <2>1 DEF Wanted
<1>6. CASE Launch \/ FeedStep \/ DeliverShows
  BY <1>1, <1>6 DEF Launch, FeedStep, DeliverShows
<1>7. CASE Kill
  BY <1>1, <1>7 DEF Kill, Die
<1>8. ASSUME NEW t \in Tabs, SelectTab(t) PROVE rows' = rows
  BY <1>8 DEF SelectTab
<1>9. ASSUME NEW i \in TableRows, OpenDetail(i) \/ SwipeRow(i) PROVE rows' = rows
  BY <1>9, OpenDetailKeeps DEF OpenDetail, SwipeRow, Die
<1>10. CASE PopDetail \/ AbortPop \/ CloseRow \/ TapDelete \/ CancelSheet
  BY <1>1, <1>10 DEF PopDetail, AbortPop, CloseRow, TapDelete, CancelSheet
<1>11. ASSUME NEW i \in DOMAIN favorites, DrawFavorite(i) PROVE rows' = rows
  BY <1>11, DrawKeeps DEF vars
<1>12. CASE UNCHANGED vars
  BY <1>1, <1>12 DEF vars
<1> QED BY <1>1, <1>2, <1>3, <1>4, <1>5, <1>6, <1>7, <1>8, <1>9, <1>10, <1>11, <1>12
    DEF Next

\* A show is taken out of the favourites only by the sheet that names it or by
\* the button of its own detail screen, and never two by one step, although the
\* sheet keeps an index path, deletions move rows, and a show without an id is
\* saved and looked up as the one with id 0.
THEOREM AppRemovesOnlyAsked == Spec => OnlyAskedIsRemoved
<1>1. AppInv /\ [Next]_vars =>
        [\A k \in Removed :
           /\ Removed = {k}
           /\ \/ sheet # NoSheet /\ k = sheet.asked
              \/ detail[tab] # NoDetail /\ k = detail[tab].show]_vars
  BY NextRemoves DEF Wanted
<1> QED BY <1>1, AppInvariant, PTL DEF Spec, OnlyAskedIsRemoved
===============================================================================
