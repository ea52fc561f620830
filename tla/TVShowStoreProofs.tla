-------------------------- MODULE TVShowStoreProofs --------------------------
(***************************************************************************)
(* Proofs about TVShowStore for any set of keys and contents: the          *)
(* inductive invariant, and the refinement of FavoriteStore.               *)
(***************************************************************************)
EXTENDS TVShowStore, RealmTableProofs, TLAPS

-------------------------------------------------------------------------------
\* The inductive invariant.

LEMMA InitIInv == Init => IInv
<1> SUFFICES ASSUME Init PROVE IInv
  OBVIOUS
<1>1. disk = <<>> /\ table = <<>> /\ held = <<>> /\ call = NoCall /\ pc = "idle"
      /\ process = "killed" /\ call.op = "none"
  BY DEF Init, NoCall
<1>2. TypeOK
  BY <1>1 DEF TypeOK, Calls
<1> QED
  BY <1>1, <1>2 DEF IInv, KeysUnique, UniqueKeys, ObjectsFollowTheirRows,
     ReadersSeeCommitted, CallNamesItsRow, CommitAppliesRequest

\* What each kind of call consists of.
LEMMA CallFields ==
  ASSUME TypeOK
  PROVE  /\ call.op \in {"none", "getSavedShows", "saveShow", "deleteShow", "deleteFavorite"}
         /\ call.op = "none" => call = NoCall
         /\ call.op = "saveShow" => call.show \in Rows
         /\ call.op = "deleteShow" =>
              /\ call.id \in Ids /\ call.at \in Nat
              /\ call = [op |-> "deleteShow", id |-> call.id, at |-> call.at]
         /\ call.op = "deleteFavorite" => call.id \in Ids \cup {NoId} /\ call.at \in Nat
         /\ pc # "idle" => call.op # "none"
  BY DEF TypeOK, Calls, NoCall

\* Whatever kills the process, what is left is the file.
LEMMA DieIInv ==
  ASSUME IInv, NEW why \in {"crashed", "killed"}, Die(why)
  PROVE  IInv'
<1>1. /\ process' = why /\ table' = <<>> /\ held' = <<>> /\ call' = NoCall
      /\ pc' = "idle" /\ disk' = disk /\ call'.op = "none"
  BY DEF Die, NoCall
<1>2. TypeOK'
  BY <1>1 DEF IInv, TypeOK, Calls
<1> QED
  BY <1>1, <1>2 DEF IInv, KeysUnique, UniqueKeys, ObjectsFollowTheirRows,
     ReadersSeeCommitted, CallNamesItsRow, CommitAppliesRequest

\* Entering a call changes no row and no object.
LEMMA EnterIInv ==
  ASSUME IInv, NEW c \in Calls, c # NoCall, Enter(c),
         c.op = "deleteShow" => c.id \in Ids,
         c.op = "deleteFavorite" =>
           /\ c.at \in DOMAIN held
           /\ c.id = IF held[c.at].row = Detached THEN NoId ELSE held[c.at].saw.id
  PROVE  IInv'
<1>1. /\ call' = c /\ pc' = "open" /\ process = "running" /\ pc = "idle"
      /\ UNCHANGED <<disk, table, held, process>>
  BY DEF Enter, Running
<1>2. TypeOK'
  BY <1>1 DEF IInv, TypeOK
<1>3. KeysUnique' /\ ObjectsFollowTheirRows' /\ ReadersSeeCommitted'
  BY <1>1 DEF IInv, KeysUnique, ObjectsFollowTheirRows, ReadersSeeCommitted
<1>4. CallNamesItsRow' /\ CommitAppliesRequest'
  BY <1>1 DEF CallNamesItsRow, CommitAppliesRequest
<1> QED
  BY <1>1, <1>2, <1>3, <1>4 DEF IInv

\* Erasing a row removes its key alone and moves every object with its row.
LEMMA EraseRows ==
  ASSUME IInv, NEW i \in DOMAIN table, Erase(i)
  PROVE  /\ table' \in Seq(Rows)
         /\ UniqueKeys(table')
         /\ RowSet(table') = {r \in RowSet(table) : r.id # table[i].id}
         /\ held' \in Seq(Objects)
         /\ DOMAIN held' = DOMAIN held
         /\ ObjectsFollowTheirRows'
<1> DEFINE n == Len(table)
           adjusted(j) == [held[j] EXCEPT
                             !.row = MovedAccessor(@, i, n),
                             !.managed = @ /\ (call.op = "deleteFavorite" => j # call.at)]
<1>1. table \in Seq(Rows) /\ held \in Seq(Objects) /\ UniqueKeys(table)
      /\ ObjectsFollowTheirRows
  BY DEF IInv, TypeOK, KeysUnique
<1>2. table' = MoveLastOver(table, i)
  BY DEF Erase
<1>3. held' = [j \in DOMAIN held |-> adjusted(j)]
  BY DEF Erase
<1>4. n \in Nat /\ i \in 1 .. n /\ DOMAIN held = 1 .. Len(held) /\ Len(held) \in Nat
  BY <1>1
<1>5. ASSUME NEW j \in DOMAIN held
      PROVE  /\ adjusted(j) \in Objects
             /\ adjusted(j).row = MovedAccessor(held[j].row, i, n)
             /\ adjusted(j).saw = held[j].saw
  <2>1. held[j] \in Objects
    BY <1>1
  <2>2. held[j].managed \in BOOLEAN /\ held[j].row \in Nat /\ held[j].saw \in Rows
    BY <2>1 DEF Objects
  <2>3. MovedAccessor(held[j].row, i, n) \in Nat
    BY <1>4, <2>2 DEF MovedAccessor, Detached
  <2> QED
    BY <2>1, <2>2, <2>3 DEF Objects
<1>6. held' \in Seq(Objects) /\ DOMAIN held' = DOMAIN held
  <2>1. held' \in [1 .. Len(held) -> Objects]
    BY <1>3, <1>4, <1>5
  <2> QED
    BY <1>4, <2>1
<1>7. ObjectsFollowTheirRows'
  <2> SUFFICES ASSUME NEW j \in DOMAIN held, held'[j].row # Detached
               PROVE  held'[j].row \in DOMAIN table' /\ table'[held'[j].row] = held'[j].saw
    BY <1>6 DEF ObjectsFollowTheirRows
  <2>1. held'[j].row = MovedAccessor(held[j].row, i, n) /\ held'[j].saw = held[j].saw
    BY <1>3, <1>5
  <2>2. held[j].row # Detached
    BY <1>4, <2>1 DEF MovedAccessor, Detached
  <2>3. held[j].row \in DOMAIN table /\ table[held[j].row] = held[j].saw
    BY <1>1, <2>2 DEF ObjectsFollowTheirRows
  <2>4. /\ MovedAccessor(held[j].row, i, Len(table)) \in DOMAIN MoveLastOver(table, i)
        /\ MoveLastOver(table, i)[MovedAccessor(held[j].row, i, Len(table))]
             = table[held[j].row]
    BY <1>1, <2>1, <2>3, MovedAccessorKeepsRow
  <2> QED
    BY <1>2, <2>1, <2>3, <2>4
<1>8. table' \in Seq(Rows)
  BY <1>1, <1>2, MoveLastOverType
<1>9. /\ UniqueKeys(table')
      /\ RowSet(table') = {r \in RowSet(table) : r.id # table[i].id}
  BY <1>1, <1>2, MoveLastOverRemovesKey
<1> QED
  BY <1>6, <1>7, <1>8, <1>9

\* A deletion in the block removes exactly the row the call names.
LEMMA DeleteIInv ==
  ASSUME IInv, DeleteLookedUp \/ DeleteHeld
  PROVE  IInv'
<1> USE DEF Running
<1>1. /\ TypeOK /\ KeysUnique /\ ReadersSeeCommitted /\ CallNamesItsRow
      /\ process = "running" /\ pc = "block" /\ table = disk
  BY DEF IInv, ReadersSeeCommitted, DeleteLookedUp, DeleteHeld
<1>2. CASE DeleteLookedUp
  <2>1. /\ call.op = "deleteShow" /\ Erase(call.at) /\ pc' = "commit"
        /\ UNCHANGED <<disk, call, process>>
        /\ call.at \in DOMAIN table /\ table[call.at].id = call.id
    BY <1>1, <1>2 DEF DeleteLookedUp, CallNamesItsRow
  <2>2. /\ table' \in Seq(Rows) /\ UniqueKeys(table') /\ held' \in Seq(Objects)
        /\ RowSet(table') = {r \in RowSet(table) : r.id # call.id}
        /\ ObjectsFollowTheirRows' /\ DOMAIN held' = DOMAIN held
    BY <2>1, EraseRows
  <2>3. TypeOK'
    BY <1>1, <2>1, <2>2 DEF TypeOK
  <2> QED
    BY <1>1, <2>1, <2>2, <2>3 DEF IInv, KeysUnique, ReadersSeeCommitted,
       CallNamesItsRow, CommitAppliesRequest
<1>3. CASE DeleteHeld
  <2> DEFINE object == held[call.at]
  <2>1. /\ call.op = "deleteFavorite"
        /\ call.id = IF object.row = Detached THEN NoId ELSE object.saw.id
        /\ call.at \in DOMAIN held
    BY <1>1, <1>3 DEF DeleteHeld, CallNamesItsRow, TypeOK
  <2>2. CASE ~object.managed
    <3>1. Die("crashed")
      BY <1>3, <2>2 DEF DeleteHeld
    <3> QED
      BY <3>1, DieIInv
  <2>3. CASE object.managed /\ object.row # Detached
    <3>1. Erase(object.row) /\ pc' = "commit" /\ UNCHANGED <<disk, call, process>>
      BY <1>3, <2>3 DEF DeleteHeld
    <3>2. object.row \in DOMAIN table /\ table[object.row].id = call.id
      BY <2>1, <2>3 DEF IInv, ObjectsFollowTheirRows
    <3>3. /\ table' \in Seq(Rows) /\ UniqueKeys(table') /\ held' \in Seq(Objects)
          /\ RowSet(table') = {r \in RowSet(table) : r.id # call.id}
          /\ ObjectsFollowTheirRows' /\ DOMAIN held' = DOMAIN held
      BY <3>1, <3>2, EraseRows
    <3>4. TypeOK'
      BY <1>1, <2>1, <3>1, <3>3 DEF TypeOK
    <3> QED
      BY <1>1, <2>1, <3>1, <3>3, <3>4 DEF IInv, KeysUnique, ReadersSeeCommitted,
         CallNamesItsRow, CommitAppliesRequest
  <2>4. CASE object.managed /\ object.row = Detached
    <3>1. /\ held' = [held EXCEPT ![call.at].managed = FALSE]
          /\ UNCHANGED <<table, disk, call, process>> /\ pc' = "commit"
      BY <1>3, <2>4 DEF DeleteHeld
    <3>2. /\ held' \in Seq(Objects) /\ DOMAIN held' = DOMAIN held
          /\ \A j \in DOMAIN held : held'[j].row = held[j].row /\ held'[j].saw = held[j].saw
      <4>1. held \in Seq(Objects) /\ Len(held) \in Nat /\ DOMAIN held = 1 .. Len(held)
        BY <1>1 DEF TypeOK
      <4>2. held[call.at] \in Objects
        BY <2>1, <4>1
      <4>3. [held[call.at] EXCEPT !.managed = FALSE] \in Objects
        BY <4>2 DEF Objects
      <4>4. held' \in [1 .. Len(held) -> Objects]
        BY <2>1, <3>1, <4>1, <4>3
      <4>5. held' \in Seq(Objects) /\ DOMAIN held' = DOMAIN held
        BY <4>1, <4>4
      <4>6. ASSUME NEW j \in DOMAIN held
            PROVE  held'[j].row = held[j].row /\ held'[j].saw = held[j].saw
        <5>1. CASE j = call.at
          BY <2>1, <3>1, <4>2, <5>1 DEF Objects
        <5>2. CASE j # call.at
          BY <3>1, <5>2
        <5> QED
          BY <5>1, <5>2
      <4> QED
        BY <4>5, <4>6
    <3>3. TypeOK'
      BY <1>1, <2>1, <3>1, <3>2 DEF TypeOK
    <3>4. ObjectsFollowTheirRows'
      BY <3>1, <3>2 DEF IInv, ObjectsFollowTheirRows
    <3>5. RowSet(table) = {r \in RowSet(disk) : r.id # call.id}
      <4>1. call.id = NoId /\ table = disk /\ disk \in Seq(Rows)
        BY <1>1, <2>1, <2>4 DEF TypeOK
      <4>2. \A r \in RowSet(disk) : r \in Rows
        BY <4>1 DEF RowSet
      <4>3. \A r \in RowSet(disk) : r.id # call.id
        BY <4>1, <4>2, IdAssumption DEF Rows
      <4> QED
        BY <4>1, <4>3
    <3> QED
      BY <1>1, <2>1, <3>1, <3>3, <3>4, <3>5 DEF IInv, KeysUnique,
         ReadersSeeCommitted, CallNamesItsRow, CommitAppliesRequest
  <2> QED
    BY <2>2, <2>3, <2>4
<1> QED
  BY <1>2, <1>3

\* saveShow's block appends a row with a new key or ends the process.
LEMMA AddIInv ==
  ASSUME IInv, AddObject
  PROVE  IInv'
<1>1. /\ TypeOK /\ KeysUnique /\ ObjectsFollowTheirRows
      /\ process = "running" /\ pc = "block" /\ table = disk
      /\ call.op = "saveShow" /\ call.show \in Rows
  BY CallFields DEF IInv, ReadersSeeCommitted, AddObject, Running
<1>2. CASE HasKey(table, call.show.id)
  <2>1. Die("crashed")
    BY <1>2 DEF AddObject
  <2> QED
    BY <2>1, DieIInv
<1>3. CASE ~HasKey(table, call.show.id)
  <2>1. /\ table' = Append(table, call.show) /\ pc' = "commit"
        /\ UNCHANGED <<disk, held, call, process>>
    BY <1>3 DEF AddObject
  <2>2. table \in Seq(Rows)
    BY <1>1 DEF TypeOK
  <2>3. table' \in Seq(Rows)
    BY <1>1, <2>1, <2>2
  <2>4. UniqueKeys(table') /\ RowSet(table') = RowSet(table) \cup {call.show}
    BY <1>1, <1>3, <2>1, <2>2, AppendAddsKey DEF KeysUnique
  <2>5. \A i \in DOMAIN table : i \in DOMAIN table' /\ table'[i] = table[i]
    BY <1>1, <2>1, <2>2
  <2>6. TypeOK'
    BY <1>1, <2>1, <2>3 DEF TypeOK
  <2>7. ObjectsFollowTheirRows'
    BY <1>1, <2>1, <2>5 DEF ObjectsFollowTheirRows
  <2> QED
    BY <1>1, <1>3, <2>1, <2>4, <2>6, <2>7 DEF IInv, KeysUnique,
       ReadersSeeCommitted, CallNamesItsRow, CommitAppliesRequest
<1> QED
  BY <1>2, <1>3

\* getSavedShows hands out one object per row.
LEMMA GetSavedShowsIInv ==
  ASSUME IInv, GetSavedShows
  PROVE  IInv'
<1>1. /\ TypeOK /\ process = "running" /\ table = disk
      /\ held' = [i \in DOMAIN table |-> Object(i)]
      /\ call' = NoCall /\ pc' = "idle" /\ call'.op = "none"
      /\ UNCHANGED <<disk, table, process>>
  BY DEF IInv, ReadersSeeCommitted, GetSavedShows, Return, Running, NoCall
<1>2. table \in Seq(Rows) /\ Len(table) \in Nat /\ DOMAIN table = 1 .. Len(table)
  BY <1>1 DEF TypeOK
<1>3. \A i \in DOMAIN table : Object(i) \in Objects
  BY <1>2 DEF Object, Objects
<1>4. held' \in [1 .. Len(table) -> Objects]
  BY <1>1, <1>2, <1>3
<1>5. held' \in Seq(Objects)
  BY <1>2, <1>4
<1>6. TypeOK'
  BY <1>1, <1>5 DEF TypeOK, Calls
<1>7. ObjectsFollowTheirRows'
  BY <1>1 DEF ObjectsFollowTheirRows, Object
<1> QED
  BY <1>1, <1>6, <1>7 DEF IInv, KeysUnique, ReadersSeeCommitted,
     CallNamesItsRow, CommitAppliesRequest

\* deleteShow's look-up finds the row with the key or returns.
LEMMA LookUpIInv ==
  ASSUME IInv, LookUp
  PROVE  IInv'
<1>1. /\ TypeOK /\ KeysUnique /\ process = "running" /\ pc = "open"
      /\ call.op = "deleteShow" /\ call.id \in Ids
      /\ call = [op |-> "deleteShow", id |-> call.id, at |-> call.at]
      /\ UNCHANGED <<disk, table, held, process>>
  BY CallFields DEF IInv, LookUp, Running
<1>2. CASE HasKey(table, call.id)
  <2> DEFINE i == FirstRow(table, call.id)
  <2>1. i \in DOMAIN table /\ table[i].id = call.id /\ i \in Nat
    BY <1>1, <1>2, FirstRowFindsKey DEF TypeOK, KeysUnique
  <2>2. call' = [call EXCEPT !.at = i] /\ pc' = "begin"
    BY <1>2 DEF LookUp
  <2>3. /\ call'.op = "deleteShow" /\ call'.id = call.id /\ call'.at = i
        /\ call' = [op |-> "deleteShow", id |-> call.id, at |-> i]
    BY <1>1, <2>2
  <2>4. call' \in Calls /\ call' # NoCall
    BY <1>1, <2>1, <2>3 DEF Calls, NoCall
  <2>5. TypeOK'
    BY <1>1, <2>2, <2>3, <2>4 DEF TypeOK
  <2> QED
    BY <1>1, <2>1, <2>2, <2>3, <2>5 DEF IInv, KeysUnique, ObjectsFollowTheirRows,
       ReadersSeeCommitted, CallNamesItsRow, CommitAppliesRequest
<1>3. CASE ~HasKey(table, call.id)
  <2>1. call' = NoCall /\ pc' = "idle" /\ call'.op = "none"
    BY <1>3 DEF LookUp, Return, NoCall
  <2>2. TypeOK'
    BY <1>1, <2>1 DEF TypeOK, Calls
  <2> QED
    BY <1>1, <2>1, <2>2 DEF IInv, KeysUnique, ObjectsFollowTheirRows,
       ReadersSeeCommitted, CallNamesItsRow, CommitAppliesRequest
<1> QED
  BY <1>2, <1>3

\* Every step keeps the invariant.
LEMMA NextIInv == IInv /\ [Next]_vars => IInv'
<1> SUFFICES ASSUME IInv, [Next]_vars PROVE IInv'
  OBVIOUS
<1> USE DEF Running
<1>1. ASSUME NEW s \in Shows, CallSaveShow(s) PROVE IInv'
  <2> DEFINE c == [op |-> "saveShow", show |-> [id |-> StoredId(s), fields |-> s.fields]]
  <2>1. c \in Calls /\ c # NoCall
    BY IdAssumption DEF Calls, NoCall, Shows, Rows, StoredId
  <2>2. Enter(c)
    BY <1>1 DEF CallSaveShow
  <2> QED
    BY <2>1, <2>2, EnterIInv
<1>2. ASSUME NEW s \in Shows, CallDeleteShow(s) PROVE IInv'
  <2> DEFINE c == [op |-> "deleteShow", id |-> s.id, at |-> Detached]
  <2>1. c \in Calls /\ c # NoCall /\ c.id \in Ids
    BY <1>2 DEF CallDeleteShow, Calls, NoCall, Shows, Detached
  <2>2. Enter(c)
    BY <1>2 DEF CallDeleteShow
  <2> QED
    BY <2>1, <2>2, EnterIInv
<1>3. ASSUME NEW i \in DOMAIN held, CallDeleteFavorite(i) PROVE IInv'
  <2> DEFINE c == [op |-> "deleteFavorite", at |-> i,
                   id |-> IF held[i].row = Detached THEN NoId ELSE held[i].saw.id]
  <2>1. held[i] \in Objects /\ i \in Nat
    BY DEF IInv, TypeOK
  <2>2. c \in Calls /\ c # NoCall
    BY <2>1 DEF Calls, NoCall, Objects, Rows
  <2>3. Enter(c)
    BY <1>3 DEF CallDeleteFavorite
  <2> QED
    BY <2>2, <2>3, EnterIInv
<1>4. CASE CallGetSavedShows
  <2> DEFINE c == [op |-> "getSavedShows"]
  <2>1. c \in Calls /\ c # NoCall
    BY DEF Calls, NoCall
  <2>2. Enter(c)
    BY <1>4 DEF CallGetSavedShows
  <2> QED
    BY <2>1, <2>2, EnterIInv
<1>5. CASE GetSavedShows
  BY <1>5, GetSavedShowsIInv
<1>6. CASE OpenRealm \/ BeginWrite
  <2>1. /\ UNCHANGED <<disk, table, held, call, process>>
        /\ \/ pc = "open" /\ pc' = "begin" /\ call.op \in {"saveShow", "deleteFavorite"}
           \/ pc = "begin" /\ pc' = "block"
    BY <1>6 DEF OpenRealm, BeginWrite
  <2>2. TypeOK'
    BY <2>1 DEF IInv, TypeOK, NoCall
  <2> QED
    BY <2>1, <2>2 DEF IInv, KeysUnique, ObjectsFollowTheirRows,
       ReadersSeeCommitted, CallNamesItsRow, CommitAppliesRequest
<1>7. CASE LookUp
  BY <1>7, LookUpIInv
<1>8. CASE AddObject
  BY <1>8, AddIInv
<1>9. CASE DeleteLookedUp \/ DeleteHeld
  BY <1>9, DeleteIInv
<1>10. CASE CommitWrite
  <2>1. /\ process = "running" /\ disk' = table
        /\ call' = NoCall /\ pc' = "idle" /\ call'.op = "none"
        /\ UNCHANGED <<table, held, process>>
    BY <1>10 DEF CommitWrite, Return, NoCall
  <2>2. TypeOK'
    BY <2>1 DEF IInv, TypeOK, Calls
  <2> QED
    BY <2>1, <2>2 DEF IInv, KeysUnique, ObjectsFollowTheirRows,
       ReadersSeeCommitted, CallNamesItsRow, CommitAppliesRequest
<1>11. CASE StoreFails \/ Kill
  BY <1>11, DieIInv DEF StoreFails, Kill
<1>12. CASE Launch
  <2>1. /\ process # "running" /\ process' = "running" /\ table' = disk
        /\ UNCHANGED <<disk, held, call, pc>> /\ pc = "idle" /\ held = <<>>
    BY <1>12 DEF Launch, IInv
  <2>2. TypeOK'
    BY <2>1 DEF IInv, TypeOK
  <2> QED
    BY <2>1, <2>2 DEF IInv, KeysUnique, ObjectsFollowTheirRows,
       ReadersSeeCommitted, CallNamesItsRow, CommitAppliesRequest
<1>13. CASE UNCHANGED vars
  BY <1>13 DEF vars, IInv, TypeOK, KeysUnique, ObjectsFollowTheirRows,
     ReadersSeeCommitted, CallNamesItsRow, CommitAppliesRequest
<1> QED
  BY <1>1, <1>2, <1>3, <1>4, <1>5, <1>6, <1>7, <1>8, <1>9, <1>10, <1>11, <1>12,
     <1>13 DEF Next, Step

\* The inductive invariant holds of every behaviour of the store.
THEOREM StoreInvariant == Spec => []IInv
<1>1. Init => IInv
  BY InitIInv
<1>2. IInv /\ [Next]_vars => IInv'
  BY NextIInv
<1> QED
  BY <1>1, <1>2, PTL DEF Spec

\* TVShowStore.swift's variables keep their types, for any keys and contents.
THEOREM StoreTypeOK == Spec => []TypeOK
<1>1. IInv => TypeOK
  BY DEF IInv
<1> QED
  BY <1>1, StoreInvariant, PTL

\* No sequence of saves, deletions and crashes puts two rows with one primary
\* key into the file or into the main thread's view of it.
THEOREM StoreKeysUnique == Spec => []KeysUnique
<1>1. IInv => KeysUnique
  BY DEF IInv
<1> QED
  BY <1>1, StoreInvariant, PTL

\* The objects the favourites screen keeps never come to stand for another
\* show, however many rows are moved by deletions.
THEOREM StoreObjectsFollowTheirRows == Spec => []ObjectsFollowTheirRows
<1>1. IInv => ObjectsFollowTheirRows
  BY DEF IInv
<1> QED
  BY <1>1, StoreInvariant, PTL

\* A read made outside a write block sees what is on disk.
THEOREM StoreReadersSeeCommitted == Spec => []ReadersSeeCommitted
<1>1. IInv => ReadersSeeCommitted
  BY DEF IInv
<1> QED
  BY <1>1, StoreInvariant, PTL

-------------------------------------------------------------------------------
\* The refinement.

\* The request a call stands for.
LEMMA RequestOfCall ==
  /\ call.op = "saveShow" => Request = [op |-> "save", show |-> call.show]
  /\ call.op \in {"deleteShow", "deleteFavorite"} => Request = [op |-> "remove", id |-> call.id]
  /\ call.op \in {"none", "getSavedShows"} => Request = Abstract!Nothing
BY DEF Request, Abstract!Nothing

LEMMA RequestOfNextCall ==
  /\ call'.op = "saveShow" => Request' = [op |-> "save", show |-> call'.show]
  /\ call'.op \in {"deleteShow", "deleteFavorite"} => Request' = [op |-> "remove", id |-> call'.id]
  /\ call'.op \in {"none", "getSavedShows"} => Request' = Abstract!Nothing
BY DEF Request, Abstract!Nothing

\* A step that touches neither the file, the request nor the process is a stutter.
LEMMA StoreStutter ==
  ASSUME UNCHANGED <<disk, process>>, Request' = Request
  PROVE  [Abstract!Next]_(Abstract!vars)
BY DEF Abstract!vars

\* The end of the process is the end of the store.
LEMMA DieRefines ==
  ASSUME IInv, process = "running", NEW why \in {"crashed", "killed"}, Die(why)
  PROVE  Abstract!Die
<1>1. /\ process' = why /\ call'.op = "none" /\ disk' = disk
  BY DEF Die, NoCall
<1>2. Request' = Abstract!Nothing
  BY <1>1, RequestOfNextCall
<1> QED
  BY <1>1, <1>2 DEF Abstract!Die

\* Entering a call that changes the store is asking for it.
LEMMA EnterRefines ==
  ASSUME IInv, NEW c \in Calls, c # NoCall, Enter(c)
  PROVE  [Abstract!Next]_(Abstract!vars)
<1>1. /\ call' = c /\ process = "running" /\ call = NoCall /\ call.op = "none"
      /\ UNCHANGED <<disk, process>>
  BY DEF Enter, Running, IInv, TypeOK, NoCall
<1>2. Request = Abstract!Nothing
  BY <1>1, RequestOfCall
<1>3. CASE c.op = "getSavedShows"
  <2>1. Request' = Request
    BY <1>1, <1>2, <1>3, RequestOfNextCall
  <2> QED
    BY <1>1, <2>1, StoreStutter
<1>4. CASE c.op # "getSavedShows"
  <2>1. Request' \in Abstract!Requests
    <3>1. CASE c.op = "saveShow"
      BY <1>1, <3>1, RequestOfNextCall DEF Calls, NoCall, Abstract!Requests
    <3>2. CASE c.op \in {"deleteShow", "deleteFavorite"}
      BY <1>1, <3>2, RequestOfNextCall DEF Calls, NoCall, Abstract!Requests
    <3> QED
      BY <1>4, <3>1, <3>2 DEF Calls, NoCall
  <2>2. Abstract!Ask
    BY <1>1, <1>2, <2>1 DEF Abstract!Ask
  <2> QED
    BY <2>2 DEF Abstract!Next
<1> QED
  BY <1>3, <1>4

\* The commit applies the request, whole.
LEMMA CommitRefines ==
  ASSUME IInv, CommitWrite
  PROVE  Abstract!Next
<1>1. /\ TypeOK /\ CommitAppliesRequest /\ process = "running" /\ pc = "commit"
      /\ disk' = table /\ process' = process /\ call'.op = "none"
      /\ RowSet(disk)' = RowSet(table)
  BY DEF IInv, CommitWrite, Return, Running, NoCall
<1>2. Request' = Abstract!Nothing
  BY <1>1, RequestOfNextCall
<1>3. CASE call.op = "saveShow"
  <2>1. Request = [op |-> "save", show |-> call.show]
    BY <1>3, RequestOfCall
  <2>2. RowSet(disk)' = RowSet(disk) \cup {call.show}
    BY <1>1, <1>3 DEF CommitAppliesRequest
  <2>3. \A r \in RowSet(disk) : r.id # call.show.id
    BY <1>1, <1>3 DEF CommitAppliesRequest, RowSet, HasKey
  <2>4. Abstract!ApplySave
    BY <1>1, <1>2, <2>1, <2>2, <2>3 DEF Abstract!ApplySave
  <2> QED
    BY <2>4 DEF Abstract!Next
<1>4. CASE call.op \in {"deleteShow", "deleteFavorite"}
  <2>1. Request = [op |-> "remove", id |-> call.id]
    BY <1>4, RequestOfCall
  <2>2. RowSet(disk)' = {r \in RowSet(disk) : r.id # call.id}
    BY <1>1, <1>4 DEF CommitAppliesRequest
  <2>3. Abstract!ApplyRemove
    BY <1>1, <1>2, <2>1, <2>2 DEF Abstract!ApplyRemove
  <2> QED
    BY <2>3 DEF Abstract!Next
<1> QED
  BY <1>1, <1>3, <1>4, CallFields DEF TypeOK

\* A look-up either goes on, and changes nothing that shows, or finds that
\* there is nothing to remove.
LEMMA LookUpRefines ==
  ASSUME IInv, LookUp
  PROVE  [Abstract!Next]_(Abstract!vars)
<1>1. /\ TypeOK /\ process = "running" /\ pc = "open" /\ call.op = "deleteShow"
      /\ UNCHANGED <<disk, process>> /\ table = disk
      /\ call = [op |-> "deleteShow", id |-> call.id, at |-> call.at]
  BY CallFields DEF IInv, LookUp, Running, ReadersSeeCommitted
<1>2. Request = [op |-> "remove", id |-> call.id]
  BY <1>1, RequestOfCall
<1>3. CASE HasKey(table, call.id)
  <2>1. call' = [call EXCEPT !.at = FirstRow(table, call.id)]
    BY <1>3 DEF LookUp
  <2>2. call'.op = "deleteShow" /\ call'.id = call.id
    BY <1>1, <2>1
  <2>3. Request' = Request
    BY <1>2, <2>2, RequestOfNextCall
  <2> QED
    BY <1>1, <2>3, StoreStutter
<1>4. CASE ~HasKey(table, call.id)
  <2>1. call'.op = "none"
    BY <1>4 DEF LookUp, Return, NoCall
  <2>2. Request' = Abstract!Nothing
    BY <2>1, RequestOfNextCall
  <2>3. RowSet(disk) = {r \in RowSet(disk) : r.id # call.id}
    BY <1>1, <1>4 DEF RowSet, HasKey
  <2>4. RowSet(disk)' = RowSet(disk)
    BY <1>1
  <2>5. Abstract!ApplyRemove
    BY <1>1, <1>2, <2>2, <2>3, <2>4 DEF Abstract!ApplyRemove
  <2> QED
    BY <2>5 DEF Abstract!Next
<1> QED
  BY <1>3, <1>4

\* The steps before the commit change nothing that is on disk.
LEMMA BlockRefines ==
  ASSUME IInv, AddObject \/ DeleteLookedUp \/ DeleteHeld
  PROVE  [Abstract!Next]_(Abstract!vars)
<1>1. CASE Die("crashed")
  <2>1. Abstract!Die
    BY <1>1, DieRefines DEF AddObject, DeleteLookedUp, DeleteHeld, Running
  <2> QED
    BY <2>1 DEF Abstract!Next
<1>2. CASE UNCHANGED <<disk, call, process>>
  BY <1>2, StoreStutter DEF Request
<1> QED
  BY <1>1, <1>2 DEF AddObject, DeleteLookedUp, DeleteHeld

LEMMA StoreStepRefines == IInv /\ [Next]_vars => [Abstract!Next]_(Abstract!vars)
<1> SUFFICES ASSUME IInv, [Next]_vars PROVE [Abstract!Next]_(Abstract!vars)
  OBVIOUS
<1>1. ASSUME NEW s \in Shows, CallSaveShow(s) PROVE [Abstract!Next]_(Abstract!vars)
  <2> DEFINE c == [op |-> "saveShow", show |-> [id |-> StoredId(s), fields |-> s.fields]]
  <2>1. c \in Calls /\ c # NoCall
    BY IdAssumption DEF Calls, NoCall, Shows, Rows, StoredId
  <2> QED
    BY <1>1, <2>1, EnterRefines DEF CallSaveShow
<1>2. ASSUME NEW s \in Shows, CallDeleteShow(s) PROVE [Abstract!Next]_(Abstract!vars)
  <2> DEFINE c == [op |-> "deleteShow", id |-> s.id, at |-> Detached]
  <2>1. c \in Calls /\ c # NoCall
    BY <1>2 DEF CallDeleteShow, Calls, NoCall, Shows, Detached
  <2> QED
    BY <1>2, <2>1, EnterRefines DEF CallDeleteShow
<1>3. ASSUME NEW i \in DOMAIN held, CallDeleteFavorite(i)
      PROVE  [Abstract!Next]_(Abstract!vars)
  <2> DEFINE c == [op |-> "deleteFavorite", at |-> i,
                   id |-> IF held[i].row = Detached THEN NoId ELSE held[i].saw.id]
  <2>1. held[i] \in Objects /\ i \in Nat
    BY DEF IInv, TypeOK
  <2>2. c \in Calls /\ c # NoCall
    BY <2>1 DEF Calls, NoCall, Objects, Rows
  <2> QED
    BY <1>3, <2>2, EnterRefines DEF CallDeleteFavorite
<1>4. CASE CallGetSavedShows
  <2>1. [op |-> "getSavedShows"] \in Calls /\ [op |-> "getSavedShows"] # NoCall
    BY DEF Calls, NoCall
  <2> QED
    BY <1>4, <2>1, EnterRefines DEF CallGetSavedShows
<1>5. CASE GetSavedShows
  <2>1. /\ UNCHANGED <<disk, process>> /\ call.op = "getSavedShows" /\ call'.op = "none"
    BY <1>5 DEF GetSavedShows, Return, NoCall
  <2>2. Request' = Request
    BY <2>1, RequestOfCall, RequestOfNextCall
  <2> QED
    BY <2>1, <2>2, StoreStutter
<1>6. CASE OpenRealm \/ BeginWrite
  BY <1>6, StoreStutter DEF OpenRealm, BeginWrite, Request
<1>7. CASE LookUp
  BY <1>7, LookUpRefines
<1>8. CASE AddObject \/ DeleteLookedUp \/ DeleteHeld
  BY <1>8, BlockRefines
<1>9. CASE CommitWrite
  BY <1>9, CommitRefines
<1>10. CASE StoreFails \/ Kill
  <2>1. Abstract!Die
    BY <1>10, DieRefines DEF StoreFails, Kill
  <2> QED
    BY <2>1 DEF Abstract!Next
<1>11. CASE Launch
  <2>1. Abstract!Start
    BY <1>11 DEF Launch, Abstract!Start, Request
  <2> QED
    BY <2>1 DEF Abstract!Next
<1>12. CASE UNCHANGED vars
  BY <1>12, StoreStutter DEF vars, Request
<1> QED
  BY <1>1, <1>2, <1>3, <1>4, <1>5, <1>6, <1>7, <1>8, <1>9, <1>10, <1>11, <1>12
     DEF Next, Step

\* TVShowStore.swift over Realm implements the durable map FavoriteStore: each
\* save or deletion is applied whole at its commit, to the show it named and to
\* no other, or not at all because the process died.
THEOREM StoreImplementsFavoriteStore == Spec => ImplementsFavoriteStore
<1>1. Init => Abstract!Init
  BY DEF Init, NoCall, Abstract!Init, Abstract!Nothing, RowSet, Request
<1>2. IInv /\ [Next]_vars => [Abstract!Next]_(Abstract!vars)
  BY StoreStepRefines
<1> QED
  BY <1>1, <1>2, StoreInvariant, PTL DEF Spec, ImplementsFavoriteStore, Abstract!Spec

-------------------------------------------------------------------------------
\* Whom a deletion detaches.

\* Erasing a row detaches the objects of that row only, and its key is gone.
LEMMA EraseDetachesOwn ==
  ASSUME IInv, NEW i \in DOMAIN table, Erase(i), NEW j \in DOMAIN held,
         held[j].row # Detached, HasKey(table', held[j].saw.id)
  PROVE  held'[j].row # Detached
<1>1. table \in Seq(Rows) /\ held \in Seq(Objects) /\ i \in 1 .. Len(table)
      /\ held[j].row \in DOMAIN table /\ table[held[j].row] = held[j].saw
  BY DEF IInv, TypeOK, ObjectsFollowTheirRows
<1>2. held'[j].row = MovedAccessor(held[j].row, i, Len(table))
  <2>1. held[j] \in Objects
    BY <1>1
  <2>2. held'[j] = [held[j] EXCEPT !.row = MovedAccessor(@, i, Len(table)),
                                   !.managed = @ /\ (call.op = "deleteFavorite"
                                                       => j # call.at)]
    BY DEF Erase
  <2> QED
    BY <2>1, <2>2 DEF Objects
<1>3. PICK r \in RowSet(table') : r.id = held[j].saw.id
  BY DEF HasKey, RowSet
<1>4. r.id # table[i].id
  BY EraseRows
<1>5. held[j].row # i
  BY <1>1, <1>3, <1>4
<1> QED
  BY <1>1, <1>2, <1>5 DEF MovedAccessor, Detached

\* Deleting a favourite detaches no object whose show is still in the table: the
\* object of the row that moves is moved with it.
THEOREM StoreOnlyOwnDeletionDetaches == Spec => OnlyOwnDeletionDetaches
<1>1. IInv /\ [Next]_vars =>
        [\A i \in DOMAIN held :
           /\ process' = "running" /\ call.op # "getSavedShows"
           /\ held[i].row # Detached
           /\ HasKey(table', held[i].saw.id)
           => held'[i].row # Detached]_vars
  <2> SUFFICES ASSUME IInv, [Next]_vars, NEW i \in DOMAIN held,
                      process' = "running", call.op # "getSavedShows",
                      held[i].row # Detached, HasKey(table', held[i].saw.id)
               PROVE  held'[i].row # Detached
    OBVIOUS
  <2>1. CASE DeleteLookedUp
    <3>1. call.at \in DOMAIN table /\ Erase(call.at)
      BY <2>1 DEF DeleteLookedUp, Running, IInv, CallNamesItsRow
    <3> QED
      BY <3>1, EraseDetachesOwn
  <2>2. CASE DeleteHeld
    <3> DEFINE object == held[call.at]
    <3>1. call.at \in DOMAIN held /\ object.managed
      BY <2>2 DEF DeleteHeld, Die, IInv, TypeOK
    <3>2. CASE object.row # Detached
      <4>1. object.row \in DOMAIN table /\ Erase(object.row)
        BY <2>2, <3>1, <3>2 DEF DeleteHeld, IInv, ObjectsFollowTheirRows
      <4> QED
        BY <4>1, EraseDetachesOwn
    <3>3. CASE object.row = Detached
      <4>1. held' = [held EXCEPT ![call.at].managed = FALSE] /\ i # call.at
        BY <2>2, <3>1, <3>3 DEF DeleteHeld
      <4>2. held'[i] = held[i]
        BY <4>1
      <4> QED
        BY <4>2
    <3> QED
      BY <3>2, <3>3
  <2>3. CASE \/ GetSavedShows \/ StoreFails \/ Kill
             \/ \E why \in {"crashed", "killed"} : Die(why)
    BY <2>3 DEF GetSavedShows, StoreFails, Kill, Die
  <2>4. CASE held' = held
    BY <2>4
  <2> QED
    BY <2>1, <2>2, <2>3, <2>4
       DEF Next, Step, CallSaveShow, CallDeleteShow, CallDeleteFavorite,
           CallGetSavedShows, Enter, OpenRealm, LookUp, BeginWrite, AddObject,
           CommitWrite, Launch, vars
<1> QED
  BY <1>1, StoreInvariant, PTL DEF Spec, OnlyOwnDeletionDetaches
===============================================================================
