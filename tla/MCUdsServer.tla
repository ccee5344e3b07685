---- MODULE MCUdsServer ----
(***************************************************************************)
(* Two peers and room for one reply: one peer may hold the drain while the *)
(* other dials into it.  Two frames are enough for a call behind another   *)
(* call, a notification or a bad frame, and for a reply that finds the     *)
(* socket full.                                                            *)
(***************************************************************************)
EXTENDS UdsServer

CONSTANTS p1, p2
TwoPeers == {p1, p2}
====
