-------------------------- MODULE MCWebSocketServe --------------------------
(***************************************************************************)
(* WebSocketServe for TLC: three messages, each a notification, a batch or  *)
(* an unusable body; the third may come again.                              *)
(***************************************************************************)
EXTENDS WebSocketServe, TLC

CONSTANTS m1, m2, m3

E(valid, id, method) == [valid |-> valid, id |-> id, method |-> method]
Body(kind, elements) == [kind |-> kind, elements |-> elements]

MCIds == {2, NoId, NullId}
MCMessages == {m1, m2, m3}
MCThirdChatty == {m3}
MCNone == {}
MCMethods == {"known", "unknown"}
MCRegistered == {"known"}
MCBodies == {Body("not_json", <<>>),
             Body("batch", <<E(FALSE, NoId, "known"), E(TRUE, 2, "unknown")>>),
             Body("single", <<E(TRUE, NoId, "known")>>)}
=============================================================================
