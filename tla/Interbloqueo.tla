----------------------------- MODULE Interbloqueo -----------------------------
(***************************************************************************)
(* The command deadlock of the Planificador (consola.c): for every blocked *)
(* ESI it follows who owns the key the last ESI of the path waits for, as  *)
(* far as the owner is blocked too, until the path meets itself or ends.   *)
(* The command holds mutex_listas, so the lists stand still meanwhile: any *)
(* list of blocked ESIs may be found, and any distribution of the keys,    *)
(* since bloquear makes an ESI wait for any key and desbloquear lets a key *)
(* have several owners.                                                    *)
(***************************************************************************)
EXTENDS Naturals, Sequences, FiniteSets, Espera

CONSTANTS Esis, Claves

VARIABLES
    bloqueados,         \* the list, without repetitions
    claves_bloqueadas,  \* the keys each ESI owns
    clave_bloqueante,   \* the key each ESI waits for, if it is blocked
    indice,             \* how many elements of bloqueados list_iterate has reached
    camino,             \* camino_de_esis_bloqueados; empty between two searches
    veredicto           \* what has been printed of each ESI

varsListas == <<bloqueados, claves_bloqueadas, clave_bloqueante>>
vars == <<varsListas, indice, camino, veredicto>>

Veredictos == {"ninguno", "deadlock", "libre"}
Elementos(s) == {s[i] : i \in DOMAIN s}
SinRepetidos(s) == \A i, j \in DOMAIN s : s[i] = s[j] => i = j

TypeOK ==
    /\ bloqueados \in Seq(Esis) /\ SinRepetidos(bloqueados)
    /\ claves_bloqueadas \in [Esis -> SUBSET Claves]
    /\ clave_bloqueante \in [Esis -> Claves]
    /\ indice \in 0..Len(bloqueados)
    /\ camino \in Seq(Esis)
    /\ veredicto \in [Esis -> Veredictos]

Init ==
    /\ \E n \in 0..Cardinality(Esis) : bloqueados \in [1..n -> Esis]
    /\ SinRepetidos(bloqueados)
    /\ claves_bloqueadas \in [Esis -> SUBSET Claves]
    /\ clave_bloqueante \in [Esis -> Claves]
    /\ indice = 0 /\ camino = <<>>
    /\ veredicto = [e \in Esis |-> "ninguno"]

-----------------------------------------------------------------------------
(* esi_bloqueante is the first ESI of bloqueados that owns the key.        *)
Ultimo(s) == s[Len(s)]
Posee(e, k) == k \in claves_bloqueadas[e]
Bloqueantes(e) == {i \in DOMAIN bloqueados : Posee(bloqueados[i], clave_bloqueante[e])}
EsElBloqueante(i, e) == i \in Bloqueantes(e) /\ \A j \in Bloqueantes(e) : i <= j

\* A mutant of EmpezarBusqueda: the ESI is taken out of the list it is read from.
EmpezarBusquedaQuitando ==
    /\ camino = <<>> /\ indice < Len(bloqueados)
    /\ indice' = indice + 1
    /\ camino' = <<bloqueados[indice + 1]>>
    /\ bloqueados' = SelectSeq(bloqueados, LAMBDA e : e # bloqueados[indice + 1])
    /\ UNCHANGED <<claves_bloqueadas, clave_bloqueante, veredicto>>

EmpezarBusqueda ==
    /\ camino = <<>> /\ indice < Len(bloqueados)
    /\ indice' = indice + 1
    /\ camino' = <<bloqueados[indice + 1]>>
    /\ UNCHANGED <<varsListas, veredicto>>

\* A mutant of Seguir: the blocking ESI is compared with the first of the path.
SeguirHastaElPrimero ==
    /\ camino # <<>>
    /\ \E i \in DOMAIN bloqueados :
          /\ EsElBloqueante(i, Ultimo(camino))
          /\ bloqueados[i] # Head(camino)
          /\ Len(camino) <= Len(bloqueados)
          /\ camino' = Append(camino, bloqueados[i])
    /\ UNCHANGED <<varsListas, indice, veredicto>>

Seguir ==
    /\ camino # <<>>
    /\ \E i \in DOMAIN bloqueados :
          /\ EsElBloqueante(i, Ultimo(camino))
          /\ bloqueados[i] \notin Elementos(camino)
          /\ camino' = Append(camino, bloqueados[i])
    /\ UNCHANGED <<varsListas, indice, veredicto>>

\* A mutant of Concluir: the verdict is printed of the last ESI of the path.
ConcluirDelUltimo(v) ==
    /\ veredicto' = [veredicto EXCEPT ![Ultimo(camino)] = v]
    /\ camino' = <<>>
    /\ UNCHANGED <<varsListas, indice>>

Concluir(v) ==
    /\ veredicto' = [veredicto EXCEPT ![Head(camino)] = v]
    /\ camino' = <<>>
    /\ UNCHANGED <<varsListas, indice>>

\* A mutant of Repetido: any ESI blocked by a blocked one is in deadlock.
RepetidoSinComparar ==
    /\ camino # <<>>
    /\ Bloqueantes(Ultimo(camino)) # {}
    /\ Concluir("deadlock")

Repetido ==
    /\ camino # <<>>
    /\ \E i \in DOMAIN bloqueados :
          EsElBloqueante(i, Ultimo(camino)) /\ bloqueados[i] \in Elementos(camino)
    /\ Concluir("deadlock")

SinBloqueante ==
    /\ camino # <<>>
    /\ Bloqueantes(Ultimo(camino)) = {}
    /\ Concluir("libre")

Fin ==
    /\ camino = <<>> /\ indice = Len(bloqueados)
    /\ UNCHANGED vars

buscar_deadlock == EmpezarBusqueda \/ Seguir \/ Repetido \/ SinBloqueante
Next == buscar_deadlock \/ Fin

(* list_iterate goes on by itself, holding mutex_listas.                   *)
Spec == Init /\ [][Next]_vars
SpecJusta == Spec /\ WF_vars(buscar_deadlock)

-----------------------------------------------------------------------------
Duenos == [e \in Elementos(bloqueados) |-> {f \in Esis : Posee(f, clave_bloqueante[e])}]
UnicoDueno == \A e, f \in Esis : claves_bloqueadas[e] \cap claves_bloqueadas[f] # {} => e = f

(* The path holds no ESI twice: the search is over after as many steps as  *)
(* there are blocked ESIs.                                                 *)
CaminoSinRepetir == SinRepetidos(camino)

(* "ESI esta en deadlock" is said only of an ESI that waits for ESIs that  *)
(* wait for one another, though not of them.                               *)
VeredictoVeraz == \A e \in Esis : veredicto[e] = "deadlock" => e \in Interbloqueados(Duenos)

(* "ESI NO esta en deadlock" is said only of an ESI that is not, as long   *)
(* as no key has two owners (list_find looks at one of them).              *)
VeredictoCompleto ==
    UnicoDueno => \A e \in Esis : veredicto[e] = "libre" => e \notin Interbloqueados(Duenos)

(* What the command prints is so.                                          *)
VeredictoCorrecto == VeredictoVeraz /\ VeredictoCompleto

(* The command gives a verdict of every blocked ESI and lets go of the     *)
(* mutex: no path goes round for ever.                                     *)
TodosJuzgados == <>(\A e \in Elementos(bloqueados) : veredicto[e] # "ninguno")
=============================================================================
