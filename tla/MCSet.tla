------------------------------- MODULE MCSet -------------------------------
(***************************************************************************)
(* PoolSet for model checking: the sizes of its pools, which are            *)
(* configured one by one, and clients that no action tells apart.  The runs *)
(* of liveness properties do without the symmetry.                          *)
(***************************************************************************)
EXTENDS PoolSetProofs, TLC

\* One pool of two items, which may be wedged, beside others of one.
TwoAndOnes == [p \in Pools |-> IF p = "pg" THEN 2 ELSE 1]
Ones == [p \in Pools |-> 1]

Symmetry == Permutations(Clients)
=============================================================================
