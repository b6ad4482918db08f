----------------------------- MODULE MCScreens ------------------------------
(* The root and four nodes: enough for a splitting node with two children  *)
(* that is under a filter, or beside one.  One mark, which may be set anew. *)
EXTENDS Screens, CacheTests
=============================================================================
