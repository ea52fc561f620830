----------------------------- MODULE TVShowStore -----------------------------
(***************************************************************************)
(* TVShowStore.swift over a Realm file: saveShow, deleteShow,              *)
(* deleteFavorite and getSavedShows, each split where the process can die  *)
(* or where Realm can refuse: open the Realm, look the row up, begin the   *)
(* write transaction, run the block, commit. All calls come from the main  *)
(* thread, one after the other; the caller is an open environment.         *)
(*                                                                         *)
(* Every Realm call is made under "try!", and Realm reports misuse by an   *)
(* Objective-C exception, so a refusal always ends the process.            *)
(***************************************************************************)
EXTENDS RealmTable

CONSTANTS Ids,       \* primary keys
          Fields,    \* contents of the other columns
          DefaultId, \* the key stored for a show whose id is nil: 0
          NoId       \* the id of a show whose JSON has none: nil

ASSUME IdAssumption == DefaultId \in Ids /\ NoId \notin Ids

Rows == [id : Ids, fields : Fields]
Shows == [id : Ids \cup {NoId}, fields : Fields]

VARIABLES
  disk,     \* the table in the last committed version of the file
  table,    \* the table as the main thread's transaction sees it
  held,     \* the TVShowStore objects getSavedShows handed out last
  call,     \* the call in progress and its arguments
  pc,       \* how far it has got
  process   \* "running", "crashed" (try!, NSException) or "killed"

vars == <<disk, table, held, call, pc, process>>

NoCall == [op |-> "none"]

\* TVShow.saveShow stores "id ?? 0".
StoredId(s) == IF s.id = NoId THEN DefaultId ELSE s.id

\* A managed object: the row it stands for, the row it showed when it was
\* handed out, and whether its _realm is still set.
Object(i) == [row |-> i, saw |-> table[i], managed |-> TRUE]

Init ==
  /\ disk = <<>> /\ table = <<>> /\ held = <<>>
  /\ call = NoCall /\ pc = "idle"
  /\ process = "killed"

\* The process is gone: what it kept in memory goes with it.
Die(why) ==
  /\ process' = why
  /\ table' = <<>> /\ held' = <<>> /\ call' = NoCall /\ pc' = "idle"
  /\ UNCHANGED disk

Return == call' = NoCall /\ pc' = "idle"

Running(at) == process = "running" /\ pc = at

-------------------------------------------------------------------------------
\* The calls.

Enter(c) ==
  /\ Running("idle")
  /\ call' = c /\ pc' = "open"
  /\ UNCHANGED <<disk, table, held, process>>

\* TVShow.setFavoriteStatus(favorite: true)
CallSaveShow(s) ==
  Enter([op |-> "saveShow", show |-> [id |-> StoredId(s), fields |-> s.fields]])

\* TVShow.setFavoriteStatus(favorite: false): a show without id is left alone.
CallDeleteShow(s) ==
  /\ s.id # NoId
  /\ Enter([op |-> "deleteShow", id |-> s.id, at |-> Detached])

\* "id" is history: the key the object stands for, if any.
CallDeleteFavorite(i) ==
  Enter([op |-> "deleteFavorite", at |-> i,
         id |-> IF held[i].row = Detached THEN NoId ELSE held[i].saw.id])

CallGetSavedShows == Enter([op |-> "getSavedShows"])

-------------------------------------------------------------------------------
\* Their steps.

GetSavedShows ==
  /\ Running("open")
  /\ call.op = "getSavedShows"
  /\ held' = [i \in DOMAIN table |-> Object(i)]
  /\ Return
  /\ UNCHANGED <<disk, table, process>>

OpenRealm ==
  /\ Running("open")
  /\ call.op \in {"saveShow", "deleteFavorite"}
  /\ pc' = "begin"
  /\ UNCHANGED <<disk, table, held, call, process>>

\* deleteShow: "guard let show = realm.object(...) else { return }".
LookUp ==
  /\ Running("open")
  /\ call.op = "deleteShow"
  /\ IF HasKey(table, call.id)
     THEN /\ call' = [call EXCEPT !.at = FirstRow(table, call.id)]
          /\ pc' = "begin"
     ELSE Return
  /\ UNCHANGED <<disk, table, held, process>>

BeginWrite ==
  /\ Running("begin")
  /\ pc' = "block"
  /\ UNCHANGED <<disk, table, held, call, process>>

\* Faulty: an existing primary key is added again.
AddAgain ==
  /\ Running("block")
  /\ call.op = "saveShow"
  /\ table' = Append(table, call.show)
  /\ pc' = "commit"
  /\ UNCHANGED <<disk, held, call, process>>

\* realm.add(self): update policy .error refuses an existing primary key.
AddObject ==
  /\ Running("block")
  /\ call.op = "saveShow"
  /\ IF HasKey(table, call.show.id)
     THEN Die("crashed")
     ELSE /\ table' = Append(table, call.show)
          /\ pc' = "commit"
          /\ UNCHANGED <<disk, held, call, process>>

\* The row goes and every accessor is adjusted.
Erase(i) ==
  /\ table' = MoveLastOver(table, i)
  /\ held' = [j \in DOMAIN held |->
                [held[j] EXCEPT !.row = MovedAccessor(@, i, Len(table)),
                                !.managed = @ /\ (call.op = "deleteFavorite"
                                                    => j # call.at)]]

\* realm.delete(show), show being the object deleteShow looked up.
DeleteLookedUp ==
  /\ Running("block")
  /\ call.op = "deleteShow"
  /\ Erase(call.at)
  /\ pc' = "commit"
  /\ UNCHANGED <<disk, call, process>>

\* realm.delete(self): refused for an object deleted before, a no-op on the
\* table for one whose row went some other way.
DeleteHeld ==
  /\ Running("block")
  /\ call.op = "deleteFavorite"
  /\ LET object == held[call.at]
     IN  IF ~object.managed
         THEN Die("crashed")
         ELSE /\ IF object.row # Detached
                 THEN Erase(object.row)
                 ELSE /\ held' = [held EXCEPT ![call.at].managed = FALSE]
                      /\ UNCHANGED table
              /\ pc' = "commit"
              /\ UNCHANGED <<disk, call, process>>

\* Faulty: the transaction ends without a commit.
EndWrite ==
  /\ Running("commit")
  /\ Return
  /\ UNCHANGED <<disk, table, held, process>>

\* The file's top reference moves to the new version: one atomic write.
CommitWrite ==
  /\ Running("commit")
  /\ disk' = table
  /\ Return
  /\ UNCHANGED <<table, held, process>>

\* Faulty: "try?": the refusal is dropped and the call returns.
FailureSwallowed ==
  /\ process = "running"
  /\ pc \in {"open", "begin", "commit"}
  /\ table' = disk
  /\ Return
  /\ UNCHANGED <<disk, held, process>>

\* Realm cannot open the file, start or commit the transaction.
StoreFails ==
  /\ process = "running"
  /\ pc \in {"open", "begin", "commit"}
  /\ Die("crashed")

\* The user or the system ends the app at any point.
Kill == process = "running" /\ Die("killed")

Launch ==
  /\ process # "running"
  /\ process' = "running"
  /\ table' = disk
  /\ UNCHANGED <<disk, held, call, pc>>

-------------------------------------------------------------------------------
Step ==
  \/ GetSavedShows \/ OpenRealm \/ LookUp \/ BeginWrite
  \/ AddObject \/ DeleteLookedUp \/ DeleteHeld \/ CommitWrite

Next ==
  \/ \E s \in Shows : CallSaveShow(s) \/ CallDeleteShow(s)
  \/ \E i \in DOMAIN held : CallDeleteFavorite(i)
  \/ CallGetSavedShows
  \/ Step
  \/ StoreFails \/ Kill \/ Launch

Spec == Init /\ [][Next]_vars

-------------------------------------------------------------------------------
\* Properties.

Objects == [row : Nat, saw : Rows, managed : BOOLEAN]

Calls ==
  {NoCall} \cup [op : {"getSavedShows"}] \cup [op : {"saveShow"}, show : Rows]
  \cup [op : {"deleteShow"}, id : Ids, at : Nat]
  \cup [op : {"deleteFavorite"}, at : Nat, id : Ids \cup {NoId}]

\* Every variable stays in its domain, and the arguments of a call in
\* progress name rows and objects that exist.
TypeOK ==
  /\ disk \in Seq(Rows) /\ table \in Seq(Rows) /\ held \in Seq(Objects)
  /\ call \in Calls
  /\ pc \in {"idle", "open", "begin", "block", "commit"}
  /\ process \in {"running", "crashed", "killed"}
  /\ (pc = "idle") = (call = NoCall)
  /\ pc \in {"begin", "block", "commit"} => call.op # "getSavedShows"
  /\ call.op = "deleteFavorite" => call.at \in DOMAIN held

\* checkFavoriteStatus and deleteShow look a show up by key and stop at the
\* first row: whatever was saved, deleted or lost in a crash before, neither
\* the file nor the transaction ever holds two rows with one primary key.
KeysUnique == UniqueKeys(disk) /\ UniqueKeys(table)

\* The favourites screen keeps the objects of getSavedShows while rows are
\* deleted behind their back and the last row jumps into the gap: an object
\* that still stands for a row stands for the row it stood for when it was
\* handed out, so cell i never shows another show's name.
ObjectsFollowTheirRows ==
  \A i \in DOMAIN held :
    held[i].row # Detached =>
      held[i].row \in DOMAIN table /\ table[held[i].row] = held[i].saw

\* Every read made outside a write block (isFavorite, getSavedShows, a cell)
\* sees exactly what is on disk: nothing a dead process left half done, and
\* nothing not yet committed.
ReadersSeeCommitted ==
  process = "running" /\ pc # "commit" => table = disk

\* Between the look-up, the beginning of the transaction and the block that
\* runs in it, the row a deletion is about stays the row that was asked for.
CallNamesItsRow ==
  /\ call.op = "deleteShow" /\ pc \in {"begin", "block"} =>
       call.at \in DOMAIN table /\ table[call.at].id = call.id
  /\ call.op = "deleteFavorite" /\ pc \in {"open", "begin", "block"} =>
       call.id = IF held[call.at].row = Detached
                 THEN NoId ELSE held[call.at].saw.id

\* What a commit is about to make durable differs from the file by exactly the
\* one row the call named.
CommitAppliesRequest ==
  pc = "commit" =>
    /\ call.op = "saveShow" =>
         /\ ~HasKey(disk, call.show.id)
         /\ RowSet(table) = RowSet(disk) \cup {call.show}
    /\ call.op \in {"deleteShow", "deleteFavorite"} =>
         RowSet(table) = {r \in RowSet(disk) : r.id # call.id}

\* The invariants above and what makes them inductive: a dead process keeps
\* nothing in memory.
IInv ==
  /\ TypeOK
  /\ KeysUnique
  /\ ObjectsFollowTheirRows
  /\ ReadersSeeCommitted
  /\ CallNamesItsRow
  /\ CommitAppliesRequest
  /\ process # "running" => pc = "idle" /\ held = <<>> /\ table = <<>>

\* An object of the favourites screen is invalidated only when its own show
\* goes away: deleting another row never detaches it.
OnlyOwnDeletionDetaches ==
  [][\A i \in DOMAIN held :
       /\ process' = "running" /\ call.op # "getSavedShows"
       /\ held[i].row # Detached
       /\ HasKey(table', held[i].saw.id)
       => held'[i].row # Detached]_vars

-------------------------------------------------------------------------------
\* TVShowStore implements FavoriteStore: a call takes effect once, at its
\* commit, on exactly the show it named, and a crash or a refusal by Realm at any
\* step leaves the file as if the call had not been made. No call returns to a
\* screen that will draw the show as saved or deleted when Realm refused: what
\* setFavoriteStatus and removeFavorite never check, "try!" guarantees.

Request ==
  CASE call.op = "saveShow" -> [op |-> "save", show |-> call.show]
    [] call.op \in {"deleteShow", "deleteFavorite"} ->
         [op |-> "remove", id |-> call.id]
    [] OTHER -> [op |-> "none"]

Abstract == INSTANCE FavoriteStore
  WITH Keys <- Ids \cup {NoId},
       saved <- RowSet(disk),
       pending <- Request,
       up <- process = "running"

ImplementsFavoriteStore == Abstract!Spec
===============================================================================
