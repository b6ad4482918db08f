------------------------ MODULE MCLogKeyIndexCache --------------------------
(* Instances of LogKeyIndexCache: seven keys, so that two entries can be      *)
(* further apart than the distance and others lie between them.               *)
EXTENDS LogKeyIndexCache

CONSTANT Size

MCKeys == 1 .. Size
=============================================================================
