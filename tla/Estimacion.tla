------------------------------ MODULE Estimacion ------------------------------
(***************************************************************************)
(* The estimates of SJF (with and without preemption) and HRRN: when they  *)
(* are made, what planificar chooses by them, and what the threads that    *)
(* make ESIs ready do in between (algoritmos_planificacion.c, listas.c).   *)
(* Planificador has the threads in full and leaves the order of listos     *)
(* open; here the order is what the estimates say.  The lists are sets     *)
(* (list_sort leaves any order among equals) and an order with its answer  *)
(* is one step, as planificar holds mutex_listas from one to the other.    *)
(***************************************************************************)
EXTENDS Integers, Sequences, FiniteSetsExt

CONSTANTS
    Esis,
    Algoritmos,         \* those of the runs; FIFO does not estimate
    Alfa,               \* config_info.alfa, a percentage
    EstimacionInicial,  \* config_info.estimacion_inicial
    Escala,             \* estimates are integers, in units of 1/Escala
    MaxComandos,        \* bound: bloquear and desbloquear of the console
    MaxTiempo,          \* bound: orders sent
    MaxRafaga,          \* bound: orders in a burst
    MaxBloqueos         \* bound: bursts of an ESI that end blocked

\* The powers of b up to the n-th; tlapm knows no arithmetic of ^.
Potencias(b, n) == LET p[k \in 0..n] == IF k = 0 THEN 1 ELSE b * p[k - 1] IN p
Potencia(b, n)  == Potencias(b, n)[n]

ASSUME EstimacionAssumption ==
    /\ Algoritmos \subseteq {"SJF_SD", "SJF_CD", "HRRN"}
    /\ Alfa \in 0..100
    /\ EstimacionInicial \in Nat \ {0} /\ Escala \in Nat \ {0}
    /\ MaxComandos \in Nat /\ MaxTiempo \in Nat /\ MaxRafaga \in Nat /\ MaxBloqueos \in Nat
    /\ IsFiniteSet(Esis)

(* The unit is small enough for every division of estimar to be exact: the *)
(* estimates are doubles, and their rounding is left out.                  *)
ASSUME UnidadExacta == Escala % Potencia(100, MaxBloqueos) = 0

VARIABLES
    algoritmo,          \* config_info.algoritmo
    lugar,              \* the list each ESI is in
    actual,             \* estimacion_actual
    rafaga,             \* rafaga_actaual
    desalojado,         \* what malloc left, until the ESI first executes
    llegada,            \* tiempo_ultima_llegada_a_listos
    tiempo,
    llego_esi_nuevo,
    pc,                 \* where planificar is
    historia,           \* ghost: the orders of every burst that is over
    ordenes,            \* ghost: the orders of the burst that is not
    sin_comparar,       \* ghost: ESIs that became ready after the last comparison
    perdidos,           \* ghost: those whose notice has been reset
    sobrecontados,      \* ghost: ESIs that bloquear took from execution
    comandos

campos  == <<lugar, actual, rafaga, desalojado, llegada>>
fantasmas == <<historia, ordenes, sin_comparar, perdidos>>
consola == <<sobrecontados, comandos>>
vars == <<algoritmo, campos, tiempo, llego_esi_nuevo, pc, fantasmas, consola>>

Lugares == {"sin_crear", "listos", "ejecutando", "bloqueados", "terminados"}
Pasos   == {"inicio", "desalojar", "comparar", "reset", "elegir", "seleccionar", "despachar"}
En(l)   == {e \in Esis : lugar[e] = l}

TypeOK ==
    /\ lugar \in [Esis -> Lugares]
    /\ actual \in [Esis -> Nat] /\ rafaga \in [Esis -> 0..MaxRafaga + 2]
    /\ desalojado \in [Esis -> BOOLEAN] /\ llegada \in [Esis -> 0..tiempo]
    /\ tiempo \in 0..MaxTiempo /\ llego_esi_nuevo \in BOOLEAN /\ pc \in Pasos
    /\ historia \in [Esis -> Seq(0..MaxRafaga)] /\ ordenes \in [Esis -> 0..MaxRafaga]
    /\ perdidos \subseteq Esis /\ sin_comparar \subseteq Esis
    /\ sobrecontados \subseteq Esis /\ comandos \in 0..MaxComandos
    /\ algoritmo \in Algoritmos

Init ==
    /\ algoritmo \in Algoritmos
    /\ lugar = [e \in Esis |-> "sin_crear"]
    /\ actual = [e \in Esis |-> EstimacionInicial * Escala]
    /\ rafaga = [e \in Esis |-> 0]
    /\ desalojado \in [Esis -> BOOLEAN]
    /\ llegada = [e \in Esis |-> 0] /\ tiempo = 0
    /\ llego_esi_nuevo = FALSE /\ pc = "inicio"
    /\ historia = [e \in Esis |-> <<>>] /\ ordenes = [e \in Esis |-> 0]
    /\ sin_comparar = {} /\ perdidos = {} /\ sobrecontados = {} /\ comandos = 0

-----------------------------------------------------------------------------
(* listas.c                                                                *)

Con(f, S, v) == [e \in Esis |-> IF e \in S THEN v ELSE f[e]]

estimar(anterior, real) == (Alfa * real * Escala + (100 - Alfa) * anterior) \div 100

\* A mutant of RafagaAlEjecutar: a burst goes on counting from the one before.
RafagaSeguida(e) == rafaga

RafagaAlEjecutar(e) ==
    IF algoritmo = "SJF_CD" /\ desalojado[e] THEN rafaga ELSE [rafaga EXCEPT ![e] = 0]

listo_a_ejecutando(e) ==
    /\ rafaga' = RafagaAlEjecutar(e)
    /\ desalojado' = [desalojado EXCEPT ![e] = FALSE]
    /\ llegada' = [llegada EXCEPT ![e] = tiempo]

\* A mutant of ejecutando_a_bloqueado: the last order is not counted.
ejecutando_a_bloqueado_sin_ultima(e) ==
    /\ lugar' = [lugar EXCEPT ![e] = "bloqueados"]
    /\ actual' = [actual EXCEPT ![e] = estimar(@, rafaga[e])]

(* The burst is counted up by one, whether or not the answer to the last   *)
(* order has been counted, and becomes the real_anterior of estimar.  The  *)
(* estimate is made at once: the estimar of every later sort finds         *)
(* ya_estimado set.                                                        *)
ejecutando_a_bloqueado(e) ==
    /\ lugar' = [lugar EXCEPT ![e] = "bloqueados"]
    /\ actual' = [actual EXCEPT ![e] = estimar(@, rafaga[e] + 1)]

(* agregar_nuevo_esi and bloqueado_a_listo: ESIs come to listos, and       *)
(* planificar is to know of it.                                            *)
\* A mutant of Llegan: llego_esi_nuevo is not set.
LleganSinAviso(S, t) ==
    /\ llegada' = Con(llegada, S, t)
    /\ sin_comparar' = sin_comparar \cup S
    /\ perdidos' = perdidos \ S
    /\ UNCHANGED llego_esi_nuevo

Llegan(S, t) ==
    /\ llegada' = Con(llegada, S, t)
    /\ llego_esi_nuevo' = (llego_esi_nuevo \/ S # {})
    /\ sin_comparar' = sin_comparar \cup S
    /\ perdidos' = perdidos \ S

agregar_nuevo_esi(e) ==
    /\ lugar[e] = "sin_crear"
    /\ lugar' = [lugar EXCEPT ![e] = "listos"]
    /\ Llegan({e}, tiempo)
    /\ UNCHANGED <<actual, rafaga, desalojado, tiempo, pc, historia, ordenes>>

-----------------------------------------------------------------------------
(* planificar                                                              *)

Ir(desde, hasta) == pc = desde /\ pc' = hasta

Inicio ==
    /\ Ir("inicio", IF algoritmo = "SJF_CD" /\ llego_esi_nuevo THEN "desalojar" ELSE "elegir")
    /\ UNCHANGED <<campos, tiempo, llego_esi_nuevo, fantasmas>>

Desalojar ==
    /\ Ir("desalojar", IF En("ejecutando") # {} /\ En("listos") # {} THEN "comparar" ELSE "reset")
    /\ UNCHANGED <<campos, tiempo, llego_esi_nuevo, fantasmas>>

(* The executing ESI is compared with the first of the sorted listos: its  *)
(* remainder with the whole estimate of the other, preempted before or     *)
(* not.  To let it through is ejecutando_a_listo and listo_a_ejecutando.   *)
MasCortos == {e \in En("listos") : \A f \in En("listos") : actual[e] <= actual[f]}
Restante(e) == actual[e] - rafaga[e] * Escala

Cambiar(e, f) ==
    /\ Restante(e) > actual[f]
    /\ lugar' = [lugar EXCEPT ![e] = "listos", ![f] = "ejecutando"]
    /\ rafaga' = RafagaAlEjecutar(f)
    /\ desalojado' = [desalojado EXCEPT ![f] = FALSE, ![e] = TRUE]
    /\ llegada' = [llegada EXCEPT ![f] = tiempo]

Comparar ==
    /\ Ir("comparar", "reset")
    /\ \E e \in En("ejecutando"), f \in MasCortos :
          \/ Cambiar(e, f)
          \/ Restante(e) <= actual[f] /\ UNCHANGED <<lugar, rafaga, desalojado, llegada>>
    /\ sin_comparar' = {} /\ perdidos' = {}
    /\ UNCHANGED <<actual, tiempo, llego_esi_nuevo, historia, ordenes>>

(* The notice is reset after mutex_listas has been let go.                 *)
Reset ==
    /\ Ir("reset", "elegir")
    /\ llego_esi_nuevo' = FALSE
    /\ perdidos' = perdidos \cup sin_comparar
    /\ UNCHANGED <<campos, tiempo, historia, ordenes, sin_comparar>>

Elegir ==
    /\ Ir("elegir", IF En("ejecutando") = {} THEN "seleccionar" ELSE "despachar")
    /\ UNCHANGED <<campos, tiempo, llego_esi_nuevo, fantasmas>>

(* The ratios (estimate + wait) / estimate, compared without dividing.     *)
Espera(e) == tiempo - llegada[e]
DeMayorRatio ==
    {e \in En("listos") : \A f \in En("listos") : Espera(e) * actual[f] >= Espera(f) * actual[e]}

\* A mutant of Elegido: HRRN orders by estimate, as SJF does.
ElegidoPorEstimacion(e) == e \in MasCortos

Elegido(e) == e \in (IF algoritmo = "HRRN" THEN DeMayorRatio ELSE MasCortos)

Seleccionar ==
    /\ Ir("seleccionar", "despachar")
    /\ \E e \in En("listos") :
          /\ Elegido(e)
          /\ lugar' = [lugar EXCEPT ![e] = "ejecutando"]
          /\ listo_a_ejecutando(e)
    /\ sin_comparar' = {} /\ perdidos' = {}
    /\ UNCHANGED <<actual, tiempo, llego_esi_nuevo, historia, ordenes>>

(* An order and its answer.  A STORE gives a key back and the end of the   *)
(* ESI gives back those it owns; each wakes one ESI at most.               *)
Ordenar(e) ==
    /\ lugar[e] = "ejecutando" /\ Ir("despachar", "inicio")
    /\ tiempo < MaxTiempo /\ ordenes[e] < MaxRafaga
    /\ tiempo' = tiempo + 1

InstruccionCorrecta(e) ==
    /\ Ordenar(e)
    /\ \E S \in {{}} \cup {{f} : f \in En("bloqueados")} :
          lugar' = Con(lugar, S, "listos") /\ Llegan(S, tiempo')
    /\ rafaga' = [rafaga EXCEPT ![e] = @ + 1]
    /\ ordenes' = [ordenes EXCEPT ![e] = @ + 1]
    /\ UNCHANGED <<actual, desalojado, historia>>

(* soporte moves the ESI to bloqueados before planificar reads the answer. *)
InstruccionBloquea(e) ==
    /\ Ordenar(e)
    /\ Len(historia[e]) < MaxBloqueos
    /\ ejecutando_a_bloqueado(e)
    /\ rafaga' = [rafaga EXCEPT ![e] = @ + 2]
    /\ historia' = [historia EXCEPT ![e] = Append(@, ordenes[e] + 1)]
    /\ ordenes' = [ordenes EXCEPT ![e] = 0]
    /\ UNCHANGED <<desalojado, llegada, llego_esi_nuevo, sin_comparar, perdidos>>

UltimaInstruccion(e) ==
    /\ Ordenar(e)
    /\ \E S \in SUBSET En("bloqueados") :
          lugar' = [Con(lugar, S, "listos") EXCEPT ![e] = "terminados"] /\ Llegan(S, tiempo')
    /\ UNCHANGED <<actual, rafaga, desalojado, historia, ordenes>>

Planificar ==
    \/ Inicio \/ Desalojar \/ Comparar \/ Reset \/ Elegir \/ Seleccionar
    \/ \E e \in Esis :
          InstruccionCorrecta(e) \/ InstruccionBloquea(e) \/ UltimaInstruccion(e)

-----------------------------------------------------------------------------
(* The console, between two instructions: what its commands do at other    *)
(* moments is in Planificador.                                             *)
Comando ==
    /\ pc \in {"inicio", "reset", "elegir"}
    /\ comandos < MaxComandos
    /\ comandos' = comandos + 1
    /\ UNCHANGED <<algoritmo, pc, tiempo>>

ConsolaBloquearEjecutando(e) ==
    /\ Comando
    /\ lugar[e] = "ejecutando" /\ Len(historia[e]) < MaxBloqueos
    /\ ejecutando_a_bloqueado(e)
    /\ rafaga' = [rafaga EXCEPT ![e] = @ + 1]
    /\ historia' = [historia EXCEPT ![e] = Append(@, ordenes[e])]
    /\ ordenes' = [ordenes EXCEPT ![e] = 0]
    /\ sobrecontados' = sobrecontados \cup {e}
    /\ UNCHANGED <<desalojado, llegada, llego_esi_nuevo, sin_comparar, perdidos>>

ConsolaBloquearListo(e) ==
    /\ Comando
    /\ lugar[e] = "listos"
    /\ lugar' = [lugar EXCEPT ![e] = "bloqueados"]
    /\ UNCHANGED <<actual, rafaga, desalojado, llegada, llego_esi_nuevo, fantasmas, sobrecontados>>

ConsolaDesbloquear(e) ==
    /\ Comando
    /\ lugar[e] = "bloqueados"
    /\ lugar' = [lugar EXCEPT ![e] = "listos"]
    /\ Llegan({e}, tiempo)
    /\ UNCHANGED <<actual, rafaga, desalojado, historia, ordenes, sobrecontados>>

Next ==
    \/ Planificar /\ UNCHANGED <<algoritmo, consola>>
    \/ \E e \in Esis :
          \/ agregar_nuevo_esi(e) /\ UNCHANGED <<algoritmo, consola>>
          \/ ConsolaBloquearEjecutando(e) \/ ConsolaBloquearListo(e) \/ ConsolaDesbloquear(e)

Spec == Init /\ [][Next]_vars

-----------------------------------------------------------------------------
(* The exponential average of the bursts of an ESI, in closed form: every  *)
(* burst with the weight that those after it have left it.                 *)
Sumas(t) == LET s[k \in 0..Len(t)] == IF k = 0 THEN 0 ELSE s[k - 1] + t[k] IN s
Promedio(h) ==
    LET n       == Len(h)
        peso(i) == Alfa * Potencia(100 - Alfa, n - i) * Potencia(100, i - 1)
    IN  Potencia(100 - Alfa, n) * (EstimacionInicial * Escala)
        + Sumas([i \in 1..n |-> peso(i) * (h[i] * Escala)])[n]

(* The estimate of an ESI is the average of what its bursts really took:   *)
(* rafaga_actaual counts every order once, through preemptions and the     *)
(* extra increments of ejecutando_a_bloqueado.  The exception is an ESI    *)
(* that bloquear takes from execution: no order is under way, and the      *)
(* burst is counted with one order more than it took.                      *)
EstimacionEsPromedio ==
    \A e \in Esis \ sobrecontados :
        actual[e] * Potencia(100, Len(historia[e])) = Promedio(historia[e])

(* SJF with preemption: no ESI executes while a ready one would take less  *)
(* than what is left of its burst, counted in the orders it really ran,    *)
(* except until planificar looks at the notice it has of it.  The only     *)
(* ESIs that escape it are those that arrive between the last comparison   *)
(* and the reset of the notice.                                            *)
Deberia(f) == \E e \in En("ejecutando") : actual[f] < actual[e] - ordenes[e] * Escala
DesalojoSalvoReset ==
    algoritmo = "SJF_CD" =>
        \A f \in En("listos") : Deberia(f) => llego_esi_nuevo \/ f \in perdidos

(* HRRN starves nobody: while bursts are bounded, so is the wait of each   *)
(* ESI.  Of two, a ready one waits for the burst of the other; every ESI   *)
(* more adds a burst for each unit of its own estimate.  It is passed over *)
(* only for ratios that are at least its own, and who is chosen starts     *)
(* again from none.                                                        *)
Otros == Max({0, Cardinality(Esis) - 2})
SinInanicion ==
    algoritmo = "HRRN" =>
        \A e \in En("listos") :
            Espera(e) * Escala <= MaxRafaga * (Otros * actual[e]) + MaxRafaga * Escala
=============================================================================
