----------------------------- MODULE MCPushPath -----------------------------
(***************************************************************************)
(* The way of a payload with the edges of every protocol: next to those of *)
(* LLDP and CDP, which name both ports, the ones BGP and OSPF produce,     *)
(* which name no source port.                                              *)
(***************************************************************************)
EXTENDS PushPath

Uni(s, sp, d, dp, p, r) == Edge(s, sp, d, dp, p, r, "uni")

MCWalks == {<<>>, <<Uni(1, 2, 2, 4, 1, 2)>>, <<Uni(1, 3, 2, 4, 1, 2), Uni(2, 4, 1, 2, 2, 3)>>,
            <<Uni(2, 0, 1, 0, 7, 7)>>, <<Uni(2, 2, 1, 0, 4, 4)>>}
MCInventories == {<<1, 2>>, <<1, 1>>}
MCRaw == {Text(n, FALSE) : n \in {1, 256, 257}}
=============================================================================
