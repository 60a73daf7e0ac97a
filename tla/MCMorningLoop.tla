--------------------------- MODULE MCMorningLoop ---------------------------
(* Small instances of MorningLoop. *)
EXTENDS MorningLoop, TLC

\* `a' and `b' are staged under one name, `x' is refused by the contract.
CONSTANTS a, b, x

Normals == [n \in Name |-> IF n = b THEN a ELSE n]

Ranks == [n \in Name |-> CASE n = a -> 1 [] n = x -> 2 [] OTHER -> 3]

Wakes == {[wakeOnly |-> TRUE, dry |-> d, notify |-> FALSE] : d \in BOOLEAN}

\* A real loop that notifies, and a dry one that does not.
Loops == {[wakeOnly |-> FALSE, dry |-> d, notify |-> ~d] : d \in BOOLEAN}

Symmetry == Permutations(Run)

=============================================================================
