--------------------------- MODULE MCPeerDirectory ---------------------------
(***************************************************************************)
(* PeerDirectory for TLC: p1 comes, goes and changes its key, to one that  *)
(* does not decode too, and may be whitelisted under either; p2 is written *)
(* by hand or by its own node, and its key may be left empty.              *)
(***************************************************************************)
EXTENDS PeerDirectory, TLC

CONSTANTS p1, p2, k1, k2

MCPeers == {p1, p2}
MCDirValues == (p1 :> {Nothing, <<"json", k1>>, <<"json", k2>>, <<"json", Garbled>>})
               @@ (p2 :> {<<"simple", k1>>, <<"json", k1>>, <<"json", NoKey>>})
MCWlValues == (p1 :> {Nothing, k1, k2}) @@ (p2 :> {AnyKey})
==============================================================================
