---------------------------- MODULE MCSessionStore ----------------------------
(***************************************************************************)
(* Instances of SessionStore.                                              *)
(***************************************************************************)
EXTENDS SessionStore, TLC

CONSTANTS r1, r2

\* Two tabs of one browser, each of which makes any request.
AnyRequest == [w \in Worker |-> Request]

Symmetry == Permutations(Store) \cup Permutations(Worker)
===============================================================================
