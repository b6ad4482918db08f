---------------------------- MODULE MCTreeSearch ----------------------------
(***************************************************************************)
(* Four keys, chunks of two, three threads: up to four chunks, of which    *)
(* several match, are searched by two threads while the third still cuts.  *)
(* The log 3 matches and arrives while the search is under way (or not).   *)
(* Both directions and every selection.                                    *)
(***************************************************************************)
EXTENDS SearchScreen

MCKeys     == 1 .. 4
MCPresent  == {1, 2, 4}
MCMatching == {2, 3, 4}

=============================================================================
