--------------------------- MODULE MCDiscv5Client ---------------------------
(***************************************************************************)
(* Two nodes: each has the other as bootstrap node, or only the first has. *)
(* The first asks for a fork no record has, the second has no filter and   *)
(* has a port of more than sixteen bits written for the first.             *)
(***************************************************************************)
EXTENDS Discv5Client

CONSTANTS a, b

MCNodes == {a, b}
MCPorts == [n \in MCNodes |-> IF n = a THEN 1 ELSE 2]
MCRequired == [n \in MCNodes |-> IF n = a THEN 7 ELSE NoFilter]
Enr(n, ok) == [form |-> "enr", valid |-> ok, peer |-> [id |-> n, port |-> MCPorts[n], fork |-> NoFork]]
Enode(n, ds) == [form |-> "enode", valid |-> TRUE, id |-> n, digits |-> ds]
MCBoots == {[n \in MCNodes |-> IF n = a THEN <<Enr(b, TRUE), Enode(b, <<2>>)>> ELSE <<Enr(a, FALSE), Enode(a, <<6, 5, 5, 3, 7>>)>>],
            [n \in MCNodes |-> IF n = a THEN <<Enode(b, <<0>>), Enr(b, TRUE)>> ELSE <<>>]}

=============================================================================
