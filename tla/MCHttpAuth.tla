----------------------------- MODULE MCHttpAuth -----------------------------
(***************************************************************************)
(* HttpAuth for TLC: three calls, so that one refreshes while another is    *)
(* refused and a third arrives.                                             *)
(***************************************************************************)
EXTENDS HttpAuth

CONSTANTS c1, c2, c3

MCCalls == {c1, c2, c3}
MCCancellable == {c1}
=============================================================================
