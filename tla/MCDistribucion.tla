---------------------------- MODULE MCDistribucion ----------------------------
(* Instances of Distribucion for TLC: the keys of the runs.                *)
EXTENDS Distribucion

CONSTANTS k1, k2

\* k1 starts with 'a' and k2 with what is no letter.
LetraAjena      == [k \in Claves |-> IF k = k1 THEN 0 ELSE 26]
LargosDistintos == [k \in Claves |-> IF k = k1 THEN 1 ELSE 2]
=============================================================================
