----------------------------- MODULE MCShowsFeed -----------------------------
(* ShowsFeed with two lists of shows and the empty one.                     *)
EXTENDS ShowsFeed

CONSTANTS a, b

MCLists == {<<>>, <<a>>, <<a, b>>}
===============================================================================
