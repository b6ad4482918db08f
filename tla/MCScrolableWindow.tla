------------------------- MODULE MCScrolableWindow --------------------------
(* Up to four lines, and windows of one to three rows: there are lines above *)
(* and below the window, and a page may be more than there is.               *)
EXTENDS ScrolableWindow
=============================================================================
