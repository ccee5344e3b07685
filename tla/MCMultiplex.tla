---------------------------- MODULE MCMultiplex -----------------------------
(* Instances of Multiplex: two or three concurrent tasks on one connection.  *)
EXTENDS MultiplexInv, TLC

CONSTANTS c1, c2, n1

TwoCalls == {c1, c2}
OneNote == {n1}
TwoCallsAndNote == {c1, c2, n1}
None == {}

\* Raw callers that reuse an id of their own or one that IdGen hands out, or
\* that forget the id or send null.
CollidingIds == {1, NoId, NullId}

AnyEnding == {"closed", "half", "error"}
Closed == {"closed"}
HalfClosed == {"half"}
=============================================================================
