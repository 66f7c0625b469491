------------------------------- MODULE Cerrojos -------------------------------
(***************************************************************************)
(* What the Planificador and the Coordinador promise the ESIs, without     *)
(* processes or messages: a table of locks.  GET takes a free key or makes *)
(* the ESI wait for a taken one; STORE gives a key back; an ESI that ends  *)
(* gives back all of its keys.                                             *)
(***************************************************************************)
CONSTANTS
    Esis,
    Claves,
    Configuradas,   \* the keys locked by configuration, which nobody owns
    NULL

VARIABLES
    poseedores,   \* [Claves -> SUBSET Esis]
    espera        \* [Esis -> the key waited for, or NULL]

cerrojos == <<poseedores, espera>>

Init ==
    /\ poseedores = [k \in Claves |-> {}]
    /\ espera = [e \in Esis |-> NULL]

Libre(k) == poseedores[k] = {} /\ k \notin Configuradas

Tomar(e, k) ==
    /\ espera[e] = NULL
    /\ Libre(k)
    /\ poseedores' = [poseedores EXCEPT ![k] = {e}]
    /\ UNCHANGED espera

Esperar(e, k) ==
    /\ espera[e] = NULL
    /\ ~Libre(k)
    /\ espera' = [espera EXCEPT ![e] = k]
    /\ UNCHANGED poseedores

(* Giving a key back lets one ESI that waits for it, if any, try again.    *)
Soltar(e, k) ==
    /\ espera[e] = NULL
    /\ poseedores[k] = {e}
    /\ poseedores' = [poseedores EXCEPT ![k] = {}]
    /\ \/ UNCHANGED espera /\ \A f \in Esis : espera[f] # k
       \/ \E f \in Esis : espera[f] = k /\ espera' = [espera EXCEPT ![f] = NULL]

(* The owner e is ending: its waiters are let go before its keys are.      *)
Despertar(e, f) ==
    /\ espera[f] # NULL
    /\ poseedores[espera[f]] = {e}
    /\ espera' = [espera EXCEPT ![f] = NULL]
    /\ UNCHANGED poseedores

Terminar(e) ==
    /\ poseedores' = [k \in Claves |-> poseedores[k] \ {e}]
    /\ espera' = [espera EXCEPT ![e] = NULL]

Next ==
    \/ \E e \in Esis, k \in Claves : Tomar(e, k) \/ Esperar(e, k) \/ Soltar(e, k)
    \/ \E e, f \in Esis : Despertar(e, f)
    \/ \E e \in Esis : Terminar(e)

Spec == Init /\ [][Next]_cerrojos
=============================================================================
