--------------------------- MODULE MCAlmacenamiento ---------------------------
(* Instances of Almacenamiento for TLC: values of one, two and three       *)
(* entries of two bytes, and two values of the same size.                  *)
EXTENDS Almacenamiento, TLC

CONSTANTS v1, w1, v2, v3

Largos == [v \in Valores |-> CASE v = v1 -> 1 [] v = w1 -> 2 [] v = v2 -> 3 [] v = v3 -> 6]
\* Nothing tells a key from another, and the properties quantify over all.
Simetria == Permutations(Claves)
=============================================================================
