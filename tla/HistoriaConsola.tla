--------------------------- MODULE HistoriaConsola ---------------------------
(***************************************************************************)
(* The whole system and a history of the keys that the command desbloquear *)
(* has taken from the global list of the Planificador.                     *)
(***************************************************************************)
EXTENDS ReDistinto

VARIABLE desbloqueadas

InitConsola == Init /\ desbloqueadas = {}
NextConsola ==
    /\ Next
    /\ desbloqueadas' = desbloqueadas \cup {k \in Claves : ConsolaDesbloquear(k)}
SpecConsola == InitConsola /\ [][NextConsola]_<<vars, desbloqueadas>>

(* No command of the console gives a key to two ESIs, except desbloquear:  *)
(* it takes a key that has an owner from the global list too, and the next *)
(* GET finds it free.  Until then, bloquear and kill, whenever they come,  *)
(* leave each key with one owner.                                          *)
ExclusionSalvoDesbloquear ==
    \A e, f \in Esis :
        e # f => ToSet(claves_esi[e]) \cap ToSet(claves_esi[f]) \subseteq desbloqueadas
=============================================================================
