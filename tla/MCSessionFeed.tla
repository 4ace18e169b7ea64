--------------------------- MODULE MCSessionFeed ----------------------------
(* SessionFeed for TLC: the lists of devices of the instances.             *)
EXTENDS SessionFeed

OneOrNone == {<<1>>, << >>}
=============================================================================
