---------------------------- MODULE CallContract ----------------------------
(***************************************************************************)
(* What a Transport promises to the callers of round_trip, whatever lies    *)
(* beneath it: a call that has been issued is executed by the peer at most  *)
(* once, and is settled at most once, either by the answer to that very     *)
(* call, which the peer must have executed before, or by an error.  A call  *)
(* that failed may still have been executed: an error says nothing of it.   *)
(***************************************************************************)
EXTENDS Naturals

CONSTANTS Calls,     \* the round_trip calls ever made
          NoCall     \* "no answer yet"

VARIABLES phase,     \* phase[c]: where the caller of c is
          answer,    \* answer[c]: the call whose answer c was given
          execs      \* execs[c]: how often the peer executed the request of c

contractVars == <<phase, answer, execs>>

Init == /\ phase  = [c \in Calls |-> "idle"]
        /\ answer = [c \in Calls |-> NoCall]
        /\ execs  = [c \in Calls |-> 0]

\* The caller polls the round_trip future for the first time.
Issue(c) == /\ phase[c] = "idle"
            /\ phase' = [phase EXCEPT ![c] = "issued"]
            /\ UNCHANGED <<answer, execs>>

\* The peer takes the request; its caller may have given up already.
Execute(c) == /\ phase[c] # "idle"
              /\ execs[c] = 0
              /\ execs' = [execs EXCEPT ![c] = 1]
              /\ UNCHANGED <<phase, answer>>

\* round_trip returns the answer to this call.
Answer(c) == /\ phase[c] = "issued"
             /\ execs[c] = 1
             /\ phase'  = [phase EXCEPT ![c] = "settled"]
             /\ answer' = [answer EXCEPT ![c] = c]
             /\ UNCHANGED execs

\* round_trip returns an error, possibly on its first poll, or is dropped.
Fail(c) == /\ phase[c] \in {"idle", "issued"}
           /\ phase' = [phase EXCEPT ![c] = "settled"]
           /\ UNCHANGED <<answer, execs>>

Next == \E c \in Calls : Issue(c) \/ Execute(c) \/ Answer(c) \/ Fail(c)

ContractSpec == Init /\ [][Next]_contractVars
=============================================================================
