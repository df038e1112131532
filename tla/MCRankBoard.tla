----------------------------- MODULE MCRankBoard -----------------------------
(* Three players, two rows a page, ints from -8 to 7: page 1 is half full  *)
(* or begins right behind the list, page -1 is a negative request, the      *)
(* begin of page 4 overflows to a negative one and that of page 8 to 0.     *)
EXTENDS RankBoard

MCPages == {-1, 0, 1, 4, 8}

=============================================================================
