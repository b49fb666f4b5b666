-------------------------- MODULE MCInventoryCache --------------------------
(***************************************************************************)
(* Callers c1 and c2 run on tasks of their own.  Both read the resource    *)
(* p; c1 reads q as well where the configuration has q.                    *)
(***************************************************************************)
EXTENDS InventoryCache, TLC

CONSTANTS c1, c2, p, q

MCKey == [c \in Callers |-> Resources]
MCSymmetry == Permutations(Callers)
MCMixedKey == [c \in Callers |-> IF c = c1 THEN Resources ELSE {p}]
=============================================================================
