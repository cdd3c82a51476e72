-------------------------------- MODULE MCChat --------------------------------
(***************************************************************************)
(* Two contacts: the owner may send a message to the one, the other sends  *)
(* him two, of which a page holds one. The connection breaks once.         *)
(***************************************************************************)
EXTENDS Chat, TLC

CONSTANTS ann, bob, hi, fromBob, again

MCPeer == hi :> ann @@ fromBob :> bob @@ again :> bob
=============================================================================
