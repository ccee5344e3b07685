---------------------------- MODULE Enumeration ----------------------------
(***************************************************************************)
(* "All of these, once each, in their order", for properties of replies and *)
(* dispatches: the numbers of a set, listed.                                *)
(***************************************************************************)
EXTENDS Naturals, Sequences, Functions

\* s lists the numbers in S in increasing order, each once, and no others.
Enumerates(s, S) ==
    /\ Range(s) = S
    /\ \A j, k \in DOMAIN s : j < k => s[j] < s[k]
=============================================================================
