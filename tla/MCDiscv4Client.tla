--------------------------- MODULE MCDiscv4Client ---------------------------
(* One node and two coroutines at a time.                                       *)
EXTENDS Discv4Client

CONSTANTS e1, t1, t2

OneEndpoint == {e1}
TwoTasks == {t1, t2}
=============================================================================
