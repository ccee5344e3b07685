-------------------------- MODULE MCReconnectingUds -------------------------
(***************************************************************************)
(* ReconnectingUds for TLC: two calls and a notification, so that one can   *)
(* dial while another waits at the gate and the third arrives, and up to    *)
(* two server crashes.                                                      *)
(***************************************************************************)
EXTENDS ReconnectingUds

CONSTANTS c1, c2, n1

MCCalls == {c1, c2, n1}
MCNotes == {n1}
MCCancellable == {c1}
=============================================================================
