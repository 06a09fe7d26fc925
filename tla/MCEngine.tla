------------------------------ MODULE MCEngine ------------------------------
(* Instances of Engine for TLC. *)
EXTENDS Engine, TLC

CONSTANTS u1, u2, u3, k1, k2

OneKey  == [u \in Updates |-> k1]
TwoKeys == [u \in Updates |-> IF u = u3 THEN k2 ELSE k1]

\* Handlers of one conversation, with text or without, are interchangeable.
Interchangeable == Permutations(Updates)
=============================================================================
