----------------------------- MODULE MCGateway -----------------------------
(* Instances of Gateway for TLC. *)
EXTENDS Gateway

CONSTANTS e1, e2

\* SignBit is 4: i64 is -4..3, u64 is 0..7.  The client's ids are -1 and 0, the
\* gateway's 3 and -4; other programs send 4, which only u64 holds, and null.
MCFirstCounters == {MaxU64}
MCFirstGatewayId == {MaxI64}
MCParams == {Num(1), Unserialisable}
MCRawBodies == {WriteRequest(Request(Known, {}, {i})) : i \in {Id("Number", MaxI64 + 1), NullId}} \cup {Garbage}
MCReturns == {Num(2), Null}
MCFailures == {WithData(Error(-32020), Null)}
=============================================================================
