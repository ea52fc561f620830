------------------------------ MODULE RealmTable ------------------------------
(***************************************************************************)
(* The class table of the Realm file that holds the favourites, as far as  *)
(* the app can observe it: an unordered table with an integer primary key. *)
(* A table is a sequence of rows, a row is a record with the field "id".   *)
(* A row accessor is the position of its row, or Detached.                 *)
(*                                                                         *)
(* Deleting a row is Table::move_last_over: the last row moves into the    *)
(* vacated slot, so the positions other accessors hold have to be moved    *)
(* with it.                                                                *)
(***************************************************************************)
EXTENDS Integers, Sequences

Detached == 0

\* Whether a row with primary key k exists.
HasKey(rows, k) == \E i \in DOMAIN rows : rows[i].id = k

\* Table::find_first on the primary key column.
FirstRow(rows, k) ==
  CHOOSE i \in DOMAIN rows :
    /\ rows[i].id = k
    /\ \A j \in DOMAIN rows : rows[j].id = k => i <= j

\* Faulty: the last row goes, whichever was meant.
DropLast(rows, i) == SubSeq(rows, 1, Len(rows) - 1)

\* Table::move_last_over(i).
MoveLastOver(rows, i) ==
  [j \in 1 .. Len(rows) - 1 |-> IF j = i THEN rows[Len(rows)] ELSE rows[j]]

\* Faulty: the accessor of the row that moved is left behind, or detached.
LeftBehind(p, i, n) == IF p = i THEN Detached ELSE p
DetachedWithRow(p, i, n) == IF p \in {i, n} THEN Detached ELSE p

\* Table::adj_row_acc_move_over: what becomes of an accessor at position p
\* when row i is deleted from a table of n rows.
MovedAccessor(p, i, n) ==
  IF p = i THEN Detached ELSE IF p = n THEN i ELSE p

\* The rows of a table, their order forgotten.
RowSet(rows) == {rows[i] : i \in DOMAIN rows}

\* No two rows carry the same primary key.
UniqueKeys(rows) ==
  \A i, j \in DOMAIN rows : rows[i].id = rows[j].id => i = j
===============================================================================
