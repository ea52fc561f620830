---------------------------- MODULE FavoriteStore ----------------------------
(***************************************************************************)
(* What TVShowStore promises the screens that call it: a durable map from  *)
(* primary key to saved show, one request at a time, each request applied  *)
(* completely before it returns, or not at all when the process dies.      *)
(* There is no third outcome: a request never returns unapplied, and       *)
(* nothing else ever changes what is saved.                                *)
(***************************************************************************)

CONSTANTS Rows,  \* the rows that can be saved: records with a field "id"
          Keys   \* the keys a removal can name

VARIABLES saved,    \* the set of rows on disk
          pending,  \* the request being served
          up        \* whether the process lives

vars == <<saved, pending, up>>

Nothing == [op |-> "none"]
Requests == [op : {"save"}, show : Rows] \cup [op : {"remove"}, id : Keys]

Init ==
  /\ saved = {}
  /\ pending = Nothing
  /\ up = FALSE

Ask ==
  /\ up
  /\ pending = Nothing
  /\ pending' \in Requests
  /\ UNCHANGED <<saved, up>>

ApplySave ==
  /\ up
  /\ pending.op = "save"
  /\ \A r \in saved : r.id # pending.show.id
  /\ saved' = saved \cup {pending.show}
  /\ pending' = Nothing
  /\ UNCHANGED up

ApplyRemove ==
  /\ up
  /\ pending.op = "remove"
  /\ saved' = {r \in saved : r.id # pending.id}
  /\ pending' = Nothing
  /\ UNCHANGED up

Die ==
  /\ up
  /\ up' = FALSE
  /\ pending' = Nothing
  /\ UNCHANGED saved

Start ==
  /\ ~up
  /\ up' = TRUE
  /\ UNCHANGED <<saved, pending>>

Next == Ask \/ ApplySave \/ ApplyRemove \/ Die \/ Start

Spec == Init /\ [][Next]_vars
===============================================================================
