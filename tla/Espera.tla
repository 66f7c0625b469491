-------------------------------- MODULE Espera --------------------------------
(***************************************************************************)
(* What it means for ESIs to be in deadlock, apart from how the command    *)
(* deadlock finds out: some ESIs wait for one another, and for nobody else *)
(* that could free them.                                                   *)
(***************************************************************************)

(* duenos gives, for every ESI that is blocked, the ESIs that own the key  *)
(* it waits for.  A set of blocked ESIs in which each waits for another of *)
(* the set stays as it is.                                                 *)
Trabados(D, duenos) == \A e \in D : D \cap duenos[e] # {}

Interbloqueados(duenos) == UNION {D \in SUBSET DOMAIN duenos : Trabados(D, duenos)}
=============================================================================
