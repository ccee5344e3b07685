------------------------------ MODULE MCRouter ------------------------------
(***************************************************************************)
(* Router for TLC: two messages, three registrations of two names (so that  *)
(* a name is taken twice).  m1, which may be dropped, has any body that     *)
(* cannot be dispatched, any single request, all batches of one or two      *)
(* elements of six kinds, some of three and one above the limit; m2 is   *)
(* a batch that calls both methods.                                         *)
(***************************************************************************)
EXTENDS Router, TLC

CONSTANTS m1, m2

E(valid, id, method) == [valid |-> valid, id |-> id, method |-> method]
Invalid == E(FALSE, NoId, "a")
Call(id) == E(TRUE, id, "a")
Other(id) == E(TRUE, id, "b")
Kinds == {Invalid, Call(1), Call(NullId), Call(NoId), Other(2), Other(NoId)}

Body(kind, elements) == [kind |-> kind, elements |-> elements]
Unusable == {Body(k, <<>>) : k \in {"blank", "not_json", "not_request", "batch"}}
Singles == {Body("single", <<e>>) : e \in {k \in Kinds : k.valid}}
Batches(n) == {Body("batch", b) : b \in [1..n -> Kinds]}
Triples == {Body("batch", <<Call(NoId), e, Call(1)>>) : e \in Kinds}
Oversize == {Body("batch", <<Call(1), Other(NoId), Call(NoId), Call(2)>>)}

MCIds == {1, 2, NoId, NullId}
MCMessages == {m1, m2}
MCDroppable == {m1}
MCMethods == {"a", "b"}
MCBodies == (m1 :> Unusable \cup Singles \cup Batches(1) \cup Batches(2) \cup Triples \cup Oversize)
         @@ (m2 :> {Body("batch", <<Call(1), Other(2)>>)})
=============================================================================
