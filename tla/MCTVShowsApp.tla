---------------------------- MODULE MCTVShowsApp -----------------------------
(* TVShowsApp with a list of four shows: one has the id that the table keeps   *)
(* for shows without, and one has none.                                     *)
EXTENDS TVShowsApp

CONSTANTS k0, k1, k2

MCLists == {<<>>, <<k1, k2, k0, NoId>>}
===============================================================================
