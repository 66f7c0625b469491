------------------------------- MODULE Registro -------------------------------
(***************************************************************************)
(* What the instances of the Coordinador promise to its operations: one    *)
(* operation at a time; a GET adds an entry to the registry of keys, a SET *)
(* finds one, a STORE takes the oldest away, and a failure changes none.   *)
(***************************************************************************)
EXTENDS Sequences, Naturals

CONSTANTS Claves, Instancias, NULL

VARIABLES
    registro,   \* sequence of entries [clave, instancia]
    atendida    \* [head, clave] of the operation being served, or NULL

vars == <<registro, atendida>>

Init ==
    /\ registro = <<>>
    /\ atendida = NULL

Registrada(k) == \E i \in DOMAIN registro : registro[i].clave = k

Pedir(h, k) ==
    /\ atendida = NULL
    /\ h # "GET" => Registrada(k)
    /\ atendida' = [head |-> h, clave |-> k]
    /\ UNCHANGED registro

Guardar(n) ==
    /\ atendida # NULL /\ atendida.head = "GET"
    /\ registro' = Append(registro, [clave |-> atendida.clave, instancia |-> n])
    /\ atendida' = NULL

Setear ==
    /\ atendida # NULL /\ atendida.head = "SET"
    /\ Registrada(atendida.clave)
    /\ atendida' = NULL
    /\ UNCHANGED registro

Storear ==
    /\ atendida # NULL /\ atendida.head = "STORE"
    /\ \E i \in DOMAIN registro :
          /\ registro[i].clave = atendida.clave
          /\ \A j \in 1..(i - 1) : registro[j].clave # atendida.clave
          /\ registro' = SubSeq(registro, 1, i - 1) \o SubSeq(registro, i + 1, Len(registro))
    /\ atendida' = NULL

Fallar ==
    /\ atendida # NULL
    /\ atendida' = NULL
    /\ UNCHANGED registro

Next ==
    \/ \E h \in {"GET", "SET", "STORE"}, k \in Claves : Pedir(h, k)
    \/ \E n \in Instancias : Guardar(n)
    \/ Setear \/ Storear \/ Fallar

Spec == Init /\ [][Next]_vars
=============================================================================
