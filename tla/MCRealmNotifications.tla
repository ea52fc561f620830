------------------------- MODULE MCRealmNotifications -------------------------
(* RealmNotifications with two collections, each with a callback.           *)
EXTENDS RealmNotifications

CONSTANTS n1, n2

MCCallbacks == {<<n1, "a">>, <<n2, "a">>}
MCLasting == {n2}
===============================================================================
