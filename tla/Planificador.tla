----------------------------- MODULE Planificador -----------------------------
(***************************************************************************)
(* The scheduler process (proyecto-planificador): the ESI lists, the       *)
(* locked keys, and the four threads that work on them.                    *)
(*   planificar          picks an ESI, orders one instruction, waits for   *)
(*                       the answer holding mutex_listas;                  *)
(*   soporte             serves the Coordinador, without any mutex;        *)
(*   aceptar_clientes    admits new ESIs;                                  *)
(*   consola             pausar, continuar, bloquear, desbloquear, kill.   *)
(*                                                                         *)
(* A critical section of mutex_listas that cannot block is one action; one *)
(* that can (the wait for the ESI, sem_wait inside kill and bloquear, the  *)
(* loops of terminar_esi) spans actions and mutex_listas names its owner.  *)
(* mutex_pausar_continuar is held exactly while pausado: waiting for it is *)
(* the guard ~pausado.  SJF and HRRN estimates are not kept: sorting       *)
(* listos yields any order of it, comparing estimates either answer.       *)
(***************************************************************************)
EXTENDS Protocolo

CONSTANTS
    Algoritmo,           \* config_info.algoritmo
    ClavesIniciales,     \* config_info.claves_inicialmente_bloqueadas
    Comandos,            \* the console commands the operator uses
    MaxComandos,         \* bound: bloquear, desbloquear and kill commands
    BloqueadoInicial,    \* what malloc leaves in the field `bloqueado`
    MemoriaReutilizada   \* whether a freed t_esi may be overwritten

ASSUME PlanificadorAssumption ==
    /\ Algoritmo \in {"FIFO", "HRRN", "SJF_SD", "SJF_CD"}
    /\ ClavesIniciales \in Seq(Claves)
    /\ Comandos \subseteq {"pausar", "bloquear", "desbloquear", "kill"}
    /\ MaxComandos \in Nat
    /\ BloqueadoInicial \subseteq BOOLEAN /\ BloqueadoInicial # {}
    /\ MemoriaReutilizada \in BOOLEAN

VARIABLES
    listos, ejecutando, bloqueados, terminados,   \* lists of ESIs
    claves_bloqueadas,    \* the global list of locked keys
    claves_esi,           \* [Esis -> Seq]: t_esi.claves_bloqueadas
    clave_bloqueante,     \* [Esis -> key or NULL]
    bloqueado,            \* [Esis -> BOOLEAN]
    memoria,              \* [Esis -> Memorias]: the block of the t_esi
    contador_esis,        \* semaphore: listos not yet claimed
    llego_esi_nuevo,
    esi_a_ejecutar,       \* pointer, NULL at first, dangling after a free
    pausado,
    mutex_listas,         \* its owner
    pc,                   \* where planificar is
    terminando,           \* progress of the running terminar_esi
    comandos              \* console commands issued so far

listas    == <<listos, ejecutando, bloqueados, terminados>>
campos    == <<claves_esi, clave_bloqueante, bloqueado, memoria>>
semaforos == <<contador_esis, llego_esi_nuevo>>
hilos     == <<mutex_listas, pc, terminando, esi_a_ejecutar>>
consola   == <<pausado, comandos>>
varsPlan  == <<listas, claves_bloqueadas, campos, semaforos, hilos, consola>>

\* "terminando": terminado is set; "liberada": freed, any use is undefined.
Memorias == {"sin_crear", "viva", "terminando", "liberada"}
Lugares  == {"inicio", "revisar", "desalojar", "desalojar_mutex", "desalojar_fin",
             "elegir", "espera_sem", "sel_pausa", "seleccionar", "pausa",
             "despachar", "espera_respuesta"}
Pasos    == {"ninguno", "desbloquear", "eliminar", "liberar", "sem_wait"}
Origenes == {"listos", "ejecutando", "bloqueados"}
Nadie    == [paso |-> "ninguno", victima |-> NULL, origen |-> "listos", i |-> 1]

PlanificadorTypeOK ==
    /\ listos \in Seq(Esis) /\ ejecutando \in Seq(Esis)
    /\ bloqueados \in Seq(Esis) /\ terminados \in Seq(Esis)
    /\ claves_bloqueadas \in Seq(Claves)
    /\ claves_esi \in [Esis -> Seq(Claves)]
    /\ clave_bloqueante \in [Esis -> Claves \cup {NULL}]
    /\ bloqueado \in [Esis -> BOOLEAN]
    /\ memoria \in [Esis -> Memorias]
    /\ contador_esis \in Nat
    /\ llego_esi_nuevo \in BOOLEAN
    /\ esi_a_ejecutar \in Esis \cup {NULL}
    /\ pausado \in BOOLEAN
    /\ mutex_listas \in {"libre", "planificar", "consola"}
    /\ pc \in Lugares
    /\ terminando \in [paso : Pasos, victima : Esis \cup {NULL},
                       origen : Origenes, i : Nat]
    /\ comandos \in 0..MaxComandos

PlanificadorInit ==
    /\ listos = <<>> /\ ejecutando = <<>> /\ bloqueados = <<>> /\ terminados = <<>>
    /\ claves_bloqueadas = ClavesIniciales
    /\ claves_esi = [e \in Esis |-> <<>>]
    /\ clave_bloqueante = [e \in Esis |-> NULL]
    /\ bloqueado = [e \in Esis |-> FALSE]
    /\ memoria = [e \in Esis |-> "sin_crear"]
    /\ contador_esis = 0
    /\ llego_esi_nuevo = FALSE
    /\ esi_a_ejecutar = NULL
    /\ pausado = TRUE
    /\ mutex_listas = "libre"
    /\ pc = "inicio"
    /\ terminando = Nadie
    /\ comandos = 0

-----------------------------------------------------------------------------
(* listas.c                                                                *)

Legible(e) == memoria[e] \in {"viva", "terminando"}

(* list_remove_by_condition takes out the first match, if there is one.    *)
(* The ID of a freed block is never that of an ESI: free puts a list       *)
(* pointer there.                                                          *)
Quitar(lista, x) == RemoveFirst(lista, x)

Reordenadas(lista) ==
    {[i \in DOMAIN lista |-> lista[p[i]]] :
        p \in {q \in [DOMAIN lista -> DOMAIN lista] : IsInjective(q)}}

AgregarNuevoEsi(e) ==
    /\ memoria[e] = "sin_crear"
    /\ mutex_listas = "libre"
    /\ memoria' = [memoria EXCEPT ![e] = "viva"]
    /\ \E b \in BloqueadoInicial : bloqueado' = [bloqueado EXCEPT ![e] = b]
    /\ listos' = Append(listos, e)
    /\ llego_esi_nuevo' = TRUE
    /\ contador_esis' = contador_esis + 1
    /\ UNCHANGED <<ejecutando, bloqueados, terminados, claves_bloqueadas,
                   claves_esi, clave_bloqueante, hilos, consola, canales, caida>>

ListoAEjecutando(e, orden) ==
    /\ ejecutando' = Append(ejecutando, e)
    /\ listos' = Quitar(orden, e)

\* A mutant of EjecutandoABloqueado: `bloqueado` is not set.
EjecutandoABloqueadoSinMarcar(e, k) ==
    /\ clave_bloqueante' = [clave_bloqueante EXCEPT ![e] = k]
    /\ bloqueados' = Append(bloqueados, e)
    /\ ejecutando' = Quitar(ejecutando, e)
    /\ UNCHANGED bloqueado

EjecutandoABloqueado(e, k) ==
    /\ clave_bloqueante' = [clave_bloqueante EXCEPT ![e] = k]
    /\ bloqueado' = [bloqueado EXCEPT ![e] = TRUE]
    /\ bloqueados' = Append(bloqueados, e)
    /\ ejecutando' = Quitar(ejecutando, e)

BloqueadoAListo(e) ==
    /\ clave_bloqueante' = [clave_bloqueante EXCEPT ![e] = NULL]
    /\ bloqueado' = [bloqueado EXCEPT ![e] = FALSE]
    /\ listos' = Append(listos, e)
    /\ bloqueados' = Quitar(bloqueados, e)
    /\ llego_esi_nuevo' = TRUE
    /\ contador_esis' = contador_esis + 1

(* desbloquear_esi_bloqueados_por_clave wakes the first waiter only.  Its  *)
(* search reads clave_bloqueante of every ESI up to that one.              *)
Esperando(k) == {i \in DOMAIN bloqueados : clave_bloqueante[bloqueados[i]] = k
                                             /\ Legible(bloqueados[i])}

BusquedaSegura(k) ==
    \A i \in DOMAIN bloqueados :
        \/ Legible(bloqueados[i]) /\ clave_bloqueante[bloqueados[i]] # NULL
        \/ \E j \in Esperando(k) : j < i

\* A mutant of DesbloquearEsiPorClave: the first of the list is woken, whatever
\* key it waits for.
DesbloquearEsiAlPrimero(k) ==
    \/ /\ bloqueados = <<>>
       /\ UNCHANGED <<listos, bloqueados, clave_bloqueante, bloqueado, semaforos>>
    \/ /\ bloqueados # <<>>
       /\ BloqueadoAListo(Head(bloqueados))

DesbloquearEsiPorClave(k) ==
    \/ /\ Esperando(k) = {}
       /\ UNCHANGED <<listos, bloqueados, clave_bloqueante, bloqueado, semaforos>>
    \/ /\ Esperando(k) # {}
       /\ BloqueadoAListo(bloqueados[Min(Esperando(k))])

-----------------------------------------------------------------------------
(* terminar_esi, run by planificar or by kill, always under mutex_listas:  *)
(* one pass over the victim's keys wakes a waiter of each, a second one    *)
(* unlocks them, then the block is unlinked, its socket closed, and freed. *)

\* A mutant of EmpezarTerminar: the pass over the keys starts at the second.
EmpezarTerminarDesdeDos(e, lista) ==
    /\ memoria' = [memoria EXCEPT ![e] = "terminando"]
    /\ terminando' = [paso |-> "desbloquear", victima |-> e, origen |-> lista, i |-> 2]

EmpezarTerminar(e, lista) ==
    /\ memoria' = [memoria EXCEPT ![e] = "terminando"]
    /\ terminando' = [paso |-> "desbloquear", victima |-> e, origen |-> lista, i |-> 1]

TerminarDesbloquear ==
    LET v == terminando.victima IN
    /\ terminando.paso = "desbloquear"
    /\ terminando.i <= Len(claves_esi[v])
    /\ BusquedaSegura(claves_esi[v][terminando.i])
    /\ DesbloquearEsiPorClave(claves_esi[v][terminando.i])
    /\ terminando' = [terminando EXCEPT !.i = @ + 1]
    /\ UNCHANGED <<ejecutando, terminados, claves_bloqueadas, claves_esi, memoria,
                   mutex_listas, pc, esi_a_ejecutar, consola, canales, caida>>

TerminarEliminar ==
    LET v == terminando.victima IN
    /\ terminando.paso = "eliminar"
    /\ terminando.i <= Len(claves_esi[v])
    /\ claves_bloqueadas' = Quitar(claves_bloqueadas, claves_esi[v][terminando.i])
    /\ terminando' = [terminando EXCEPT !.i = @ + 1]
    /\ UNCHANGED <<listas, campos, semaforos, mutex_listas, pc, esi_a_ejecutar,
                   consola, canales, caida>>

TerminarSiguientePaso ==
    /\ terminando.paso \in {"desbloquear", "eliminar"}
    /\ terminando.i > Len(claves_esi[terminando.victima])
    /\ terminando' = [terminando EXCEPT
          !.paso = IF @ = "desbloquear" THEN "eliminar" ELSE "liberar", !.i = 1]
    /\ UNCHANGED <<listas, claves_bloqueadas, campos, semaforos, mutex_listas, pc,
                   esi_a_ejecutar, consola, canales, caida>>

(* The caller goes on: planificar unlocks and starts over, kill unlocks,   *)
(* or first waits for the semaphore if the victim was in listos.           *)
TerminarLiberar ==
    LET v == terminando.victima
        lista == terminando.origen
        a_esperar == mutex_listas = "consola" /\ lista = "listos"
    IN
    /\ terminando.paso = "liberar"
    /\ listos' = IF lista = "listos" THEN Quitar(listos, v) ELSE listos
    /\ ejecutando' = IF lista = "ejecutando" THEN Quitar(ejecutando, v) ELSE ejecutando
    /\ bloqueados' = IF lista = "bloqueados" THEN Quitar(bloqueados, v) ELSE bloqueados
    /\ terminados' = Append(terminados, v)
    /\ planAEsi' = Enviar(planAEsi, v, "FALLO_AL_RECIBIR")
    /\ memoria' = [memoria EXCEPT ![v] = "liberada"]
    /\ claves_esi' = [claves_esi EXCEPT ![v] = <<>>]
    /\ clave_bloqueante' = [clave_bloqueante EXCEPT ![v] = NULL]
    /\ mutex_listas' = IF a_esperar THEN "consola" ELSE "libre"
    /\ terminando' = IF a_esperar THEN [Nadie EXCEPT !.paso = "sem_wait"] ELSE Nadie
    /\ pc' = IF mutex_listas = "planificar" THEN "inicio" ELSE pc
    /\ UNCHANGED <<bloqueado, claves_bloqueadas, semaforos, esi_a_ejecutar, consola,
                   esiAPlan, esiACoord, coordAEsi, coordAPlan, planACoord, caida>>
-----------------------------------------------------------------------------
(* planificar                                                              *)

Ir(desde, hasta) == pc = desde /\ pc' = hasta

PlanInicio ==
    /\ Ir("inicio", "revisar")
    /\ ~pausado
    /\ UNCHANGED <<listas, claves_bloqueadas, campos, semaforos, mutex_listas,
                   terminando, esi_a_ejecutar, consola, canales, caida>>

PlanRevisar ==
    /\ Ir("revisar", IF Algoritmo = "SJF_CD" /\ llego_esi_nuevo THEN "desalojar"
                                                                ELSE "elegir")
    /\ UNCHANGED <<listas, claves_bloqueadas, campos, semaforos, mutex_listas,
                   terminando, esi_a_ejecutar, consola, canales, caida>>

(* desalojar_si_corresponde looks at both lists before it takes the mutex. *)
PlanDesalojar ==
    /\ Ir("desalojar", IF ejecutando # <<>> /\ listos # <<>> THEN "desalojar_mutex"
                                                             ELSE "desalojar_fin")
    /\ UNCHANGED <<listas, claves_bloqueadas, campos, semaforos, mutex_listas,
                   terminando, esi_a_ejecutar, consola, canales, caida>>

DesalojarValido ==
    /\ esi_a_ejecutar # NULL
    /\ Legible(esi_a_ejecutar)
    /\ listos # <<>>
    /\ \A i \in DOMAIN listos : Legible(listos[i])

(* The running ESI goes to the end of the sorted listos, the first of them *)
(* takes its place; sem_post and sem_wait cancel out.                      *)
PlanDesalojarMutex ==
    /\ Ir("desalojar_mutex", "desalojar_fin")
    /\ mutex_listas = "libre"
    /\ DesalojarValido
    /\ \E orden \in Reordenadas(listos) :
          \/ /\ listos' = orden
             /\ UNCHANGED <<ejecutando, esi_a_ejecutar>>
          \/ /\ esi_a_ejecutar' = Head(orden)
             /\ ejecutando' = Append(Quitar(ejecutando, esi_a_ejecutar), Head(orden))
             /\ listos' = Quitar(Append(orden, esi_a_ejecutar), Head(orden))
    /\ UNCHANGED <<bloqueados, terminados, claves_bloqueadas, campos, semaforos,
                   mutex_listas, terminando, consola, canales, caida>>

PlanDesalojarFin ==
    /\ Ir("desalojar_fin", "elegir")
    /\ llego_esi_nuevo' = FALSE
    /\ UNCHANGED <<listas, claves_bloqueadas, campos, contador_esis, mutex_listas,
                   terminando, esi_a_ejecutar, consola, canales, caida>>

(* sigue_ejecutando reads the ESI without the mutex, freed or not: the     *)
(* block still says terminado unless the allocator has reused it.          *)
SigueEjecutando ==
    IF esi_a_ejecutar = NULL THEN {FALSE}
    ELSE CASE memoria[esi_a_ejecutar] = "viva" -> {~bloqueado[esi_a_ejecutar]}
           [] memoria[esi_a_ejecutar] = "liberada" /\ MemoriaReutilizada -> BOOLEAN
           [] OTHER -> {FALSE}

PlanElegir ==
    /\ \E sigue \in SigueEjecutando :
          Ir("elegir", IF sigue THEN "pausa" ELSE "espera_sem")
    /\ UNCHANGED <<listas, claves_bloqueadas, campos, semaforos, mutex_listas,
                   terminando, esi_a_ejecutar, consola, canales, caida>>

\* A mutant of PlanEsperaSem: it does not wait for an ESI.
PlanEsperaSemSinEsperar ==
    /\ Ir("espera_sem", "sel_pausa")
    /\ contador_esis' = contador_esis - 1
    /\ UNCHANGED <<listas, claves_bloqueadas, campos, llego_esi_nuevo, mutex_listas,
                   terminando, esi_a_ejecutar, consola, canales, caida>>

PlanEsperaSem ==
    /\ Ir("espera_sem", "sel_pausa")
    /\ contador_esis > 0
    /\ contador_esis' = contador_esis - 1
    /\ UNCHANGED <<listas, claves_bloqueadas, campos, llego_esi_nuevo, mutex_listas,
                   terminando, esi_a_ejecutar, consola, canales, caida>>

PlanSelPausa ==
    /\ Ir("sel_pausa", "seleccionar")
    /\ ~pausado
    /\ UNCHANGED <<listas, claves_bloqueadas, campos, semaforos, mutex_listas,
                   terminando, esi_a_ejecutar, consola, canales, caida>>

(* The orders seleccionar may leave listos in before it takes the first.   *)
OrdenesDeSeleccion == IF Algoritmo = "FIFO" THEN {listos} ELSE Reordenadas(listos)

SeleccionValida ==
    /\ listos # <<>>
    /\ \A i \in DOMAIN listos : (i = 1 \/ Algoritmo # "FIFO") => Legible(listos[i])

PlanSeleccionar ==
    /\ Ir("seleccionar", "pausa")
    /\ mutex_listas = "libre"
    /\ SeleccionValida
    /\ \E orden \in OrdenesDeSeleccion :
          /\ esi_a_ejecutar' = Head(orden)
          /\ ListoAEjecutando(Head(orden), orden)
    /\ UNCHANGED <<bloqueados, terminados, claves_bloqueadas, campos, semaforos,
                   mutex_listas, terminando, consola, canales, caida>>

PlanPausa ==
    /\ Ir("pausa", "despachar")
    /\ ~pausado
    /\ UNCHANGED <<listas, claves_bloqueadas, campos, semaforos, mutex_listas,
                   terminando, esi_a_ejecutar, consola, canales, caida>>

DespachoValido == esi_a_ejecutar # NULL /\ Legible(esi_a_ejecutar)

(* The order of the loop and the wait for its answer keep mutex_listas.    *)
PlanDespachar ==
    /\ Ir("despachar", "espera_respuesta")
    /\ mutex_listas = "libre"
    /\ DespachoValido
    /\ mutex_listas' = "planificar"
    /\ planAEsi' = Enviar(planAEsi, esi_a_ejecutar, "EJECUTAR_SCRIPTS")
    /\ UNCHANGED <<listas, claves_bloqueadas, campos, semaforos, terminando,
                   esi_a_ejecutar, consola, esiAPlan, esiACoord, coordAEsi,
                   coordAPlan, planACoord, caida>>

\* A mutant of PlanRespuestaCorrecta: a failure is taken for a success.
PlanRespuestaCorrectaConFallo ==
    /\ Ir("espera_respuesta", "inicio")
    /\ terminando = Nadie
    /\ esiAPlan[esi_a_ejecutar] # <<>>
    /\ Head(esiAPlan[esi_a_ejecutar]) \in {"EJECUCION_CORRECTA", "EJECUCION_FALLO"}
    /\ esiAPlan' = Recibido(esiAPlan, esi_a_ejecutar)
    /\ mutex_listas' = "libre"
    /\ UNCHANGED <<listas, claves_bloqueadas, campos, semaforos, terminando,
                   esi_a_ejecutar, consola, planAEsi, esiACoord, coordAEsi,
                   coordAPlan, planACoord, caida>>

PlanRespuestaCorrecta ==
    /\ Ir("espera_respuesta", "inicio")
    /\ terminando = Nadie
    /\ esiAPlan[esi_a_ejecutar] # <<>>
    /\ Head(esiAPlan[esi_a_ejecutar]) = "EJECUCION_CORRECTA"
    /\ esiAPlan' = Recibido(esiAPlan, esi_a_ejecutar)
    /\ mutex_listas' = "libre"
    /\ UNCHANGED <<listas, claves_bloqueadas, campos, semaforos, terminando,
                   esi_a_ejecutar, consola, planAEsi, esiACoord, coordAEsi,
                   coordAPlan, planACoord, caida>>

(* EJECUCION_FALLO, SCRITP_FINALIZADO, DESCONEXION, FALLO_AL_RECIBIR and   *)
(* anything else: the ESI is over.                                         *)
PlanRespuestaFinal ==
    /\ pc = "espera_respuesta"
    /\ terminando = Nadie
    /\ esiAPlan[esi_a_ejecutar] # <<>>
    /\ Head(esiAPlan[esi_a_ejecutar]) # "EJECUCION_CORRECTA"
    /\ esiAPlan' = Recibido(esiAPlan, esi_a_ejecutar)
    /\ EmpezarTerminar(esi_a_ejecutar, "ejecutando")
    /\ UNCHANGED <<listas, claves_bloqueadas, claves_esi, clave_bloqueante, bloqueado,
                   semaforos, mutex_listas, pc, esi_a_ejecutar, consola, planAEsi,
                   esiACoord, coordAEsi, coordAPlan, planACoord, caida>>

-----------------------------------------------------------------------------
(* soporte: one request of the Coordinador at a time, on esi_a_ejecutar,   *)
(* whatever ESI that is by now.                                            *)

Atender(head, respuesta) ==
    /\ coordAPlan # <<>>
    /\ Head(coordAPlan).head = head
    /\ coordAPlan' = Tail(coordAPlan)
    /\ planACoord' = Append(planACoord, respuesta)
    /\ UNCHANGED <<planAEsi, esiAPlan, esiACoord, coordAEsi, caida>>

clave_pedida == Head(coordAPlan).clave

SoporteValido == esi_a_ejecutar # NULL /\ Legible(esi_a_ejecutar)

SoporteClaveLibre ==
    /\ Atender("SOLICITUD_CLAVE_LIBRE",
               IF clave_pedida \in ToSet(claves_bloqueadas) THEN "RESPUESTA_CLAVE_BLOQUEADA"
                                                            ELSE "RESPUESTA_CLAVE_LIBRE")
    /\ UNCHANGED varsPlan

SoporteBloquearEsi ==
    /\ SoporteValido
    /\ Atender("BLOQUEAR_ESI", "ORDEN_EJECUTADA")
    /\ EjecutandoABloqueado(esi_a_ejecutar, clave_pedida)
    /\ UNCHANGED <<listos, terminados, claves_bloqueadas, claves_esi, memoria, semaforos,
                   hilos, consola>>

\* A mutant of SoporteBloquearClave: the global list is forgotten.
SoporteBloquearClaveSinGlobal ==
    /\ SoporteValido
    /\ Atender("BLOQUEAR_CLAVE_PARA_ESI_EJECUTANDO", "ORDEN_EJECUTADA")
    /\ claves_esi' = [claves_esi EXCEPT ![esi_a_ejecutar] = Append(@, clave_pedida)]
    /\ UNCHANGED <<listas, claves_bloqueadas, clave_bloqueante, bloqueado, memoria,
                   semaforos, hilos, consola>>

SoporteBloquearClave ==
    /\ SoporteValido
    /\ Atender("BLOQUEAR_CLAVE_PARA_ESI_EJECUTANDO", "ORDEN_EJECUTADA")
    /\ claves_esi' = [claves_esi EXCEPT ![esi_a_ejecutar] = Append(@, clave_pedida)]
    /\ claves_bloqueadas' = Append(claves_bloqueadas, clave_pedida)
    /\ UNCHANGED <<listas, clave_bloqueante, bloqueado, memoria, semaforos, hilos, consola>>

SoporteClaveDeEsi ==
    /\ SoporteValido
    /\ Atender("SOLICITUD_CLAVE_BLOQUEADA_POR_ESI",
               IF clave_pedida \in ToSet(claves_esi[esi_a_ejecutar])
               THEN "RESPUESTA_CLAVE_BLOQUEADA_POR_ESI_OK"
               ELSE "RESPUESTA_CLAVE_BLOQUEADA_POR_ESI_FALLO")
    /\ UNCHANGED varsPlan

\* Mutants of SoporteDesbloquearClave: the global list is forgotten; nobody is
\* woken.
SoporteDesbloquearClaveSinGlobal ==
    /\ SoporteValido
    /\ Atender("DESBLOQUEAR_CLAVE_DEL_ESI_EJECUTANDO", "ORDEN_EJECUTADA")
    /\ BusquedaSegura(clave_pedida)
    /\ claves_esi' = [claves_esi EXCEPT ![esi_a_ejecutar] = Quitar(@, clave_pedida)]
    /\ DesbloquearEsiPorClave(clave_pedida)
    /\ UNCHANGED <<claves_bloqueadas, ejecutando, terminados, memoria, hilos, consola>>

SoporteDesbloquearClaveSinDespertar ==
    LET posee == clave_pedida \in ToSet(claves_esi[esi_a_ejecutar]) IN
    /\ SoporteValido
    /\ Atender("DESBLOQUEAR_CLAVE_DEL_ESI_EJECUTANDO", "ORDEN_EJECUTADA")
    /\ claves_esi' = [claves_esi EXCEPT ![esi_a_ejecutar] = Quitar(@, clave_pedida)]
    /\ claves_bloqueadas' = IF posee THEN Quitar(claves_bloqueadas, clave_pedida)
                                     ELSE claves_bloqueadas
    /\ UNCHANGED <<listas, clave_bloqueante, bloqueado, memoria, semaforos, hilos, consola>>

(* desbloquear_clave_de_esi, then desbloquear_esi_bloqueados_por_clave.    *)
SoporteDesbloquearClave ==
    LET posee == clave_pedida \in ToSet(claves_esi[esi_a_ejecutar]) IN
    /\ SoporteValido
    /\ Atender("DESBLOQUEAR_CLAVE_DEL_ESI_EJECUTANDO", "ORDEN_EJECUTADA")
    /\ BusquedaSegura(clave_pedida)
    /\ claves_esi' = [claves_esi EXCEPT ![esi_a_ejecutar] = Quitar(@, clave_pedida)]
    /\ claves_bloqueadas' = IF posee THEN Quitar(claves_bloqueadas, clave_pedida)
                                     ELSE claves_bloqueadas
    /\ DesbloquearEsiPorClave(clave_pedida)
    /\ UNCHANGED <<ejecutando, terminados, memoria, hilos, consola>>

-----------------------------------------------------------------------------
(* consola                                                                 *)

ConsolaPausar ==
    /\ "pausar" \in Comandos
    /\ ~pausado
    /\ pausado' = TRUE
    /\ UNCHANGED <<listas, claves_bloqueadas, campos, semaforos, hilos, comandos,
                   canales, caida>>

ConsolaContinuar ==
    /\ pausado
    /\ pausado' = FALSE
    /\ UNCHANGED <<listas, claves_bloqueadas, campos, semaforos, hilos, comandos,
                   canales, caida>>

\* A mutant of Comando: the command does not take mutex_listas.
ComandoSinMutex(nombre) ==
    /\ nombre \in Comandos
    /\ comandos < MaxComandos
    /\ comandos' = comandos + 1

Comando(nombre) ==
    /\ nombre \in Comandos
    /\ mutex_listas = "libre"
    /\ comandos < MaxComandos
    /\ comandos' = comandos + 1

ConsolaBloquearEjecutando(e, k) ==
    /\ Comando("bloquear")
    /\ e \in ToSet(ejecutando) /\ Legible(e)
    /\ EjecutandoABloqueado(e, k)
    /\ UNCHANGED <<listos, terminados, claves_bloqueadas, claves_esi, memoria, semaforos,
                   hilos, pausado, canales, caida>>

\* A mutant of ConsolaBloquearListo: without the sem_wait of listo_a_bloqueado.
ConsolaBloquearListoSinEsperar(e, k) ==
    /\ Comando("bloquear")
    /\ e \notin ToSet(ejecutando)
    /\ e \in ToSet(listos) /\ Legible(e)
    /\ clave_bloqueante' = [clave_bloqueante EXCEPT ![e] = k]
    /\ bloqueado' = [bloqueado EXCEPT ![e] = TRUE]
    /\ bloqueados' = Append(bloqueados, e)
    /\ listos' = Quitar(listos, e)
    /\ UNCHANGED <<ejecutando, terminados, claves_bloqueadas, claves_esi, memoria,
                   semaforos, hilos, pausado, canales, caida>>

(* listo_a_bloqueado: the wait for the semaphore comes after the move, and *)
(* bloquear still owns mutex_listas there.                                 *)
ConsolaBloquearListo(e, k) ==
    /\ Comando("bloquear")
    /\ e \notin ToSet(ejecutando)
    /\ e \in ToSet(listos) /\ Legible(e)
    /\ clave_bloqueante' = [clave_bloqueante EXCEPT ![e] = k]
    /\ bloqueado' = [bloqueado EXCEPT ![e] = TRUE]
    /\ bloqueados' = Append(bloqueados, e)
    /\ listos' = Quitar(listos, e)
    /\ mutex_listas' = "consola"
    /\ terminando' = [Nadie EXCEPT !.paso = "sem_wait"]
    /\ UNCHANGED <<ejecutando, terminados, claves_bloqueadas, claves_esi, memoria,
                   semaforos, pc, esi_a_ejecutar, pausado, canales, caida>>

(* kill looks in listos, then in ejecutando, then in bloqueados.           *)
ConsolaKill(e) ==
    /\ Comando("kill")
    /\ Legible(e)
    /\ \/ e \in ToSet(listos) /\ EmpezarTerminar(e, "listos")
       \/ /\ e \notin ToSet(listos)
          /\ e \in ToSet(ejecutando)
          /\ EmpezarTerminar(e, "ejecutando")
       \/ /\ e \notin ToSet(listos) \cup ToSet(ejecutando)
          /\ e \in ToSet(bloqueados)
          /\ EmpezarTerminar(e, "bloqueados")
    /\ mutex_listas' = "consola"
    /\ UNCHANGED <<listas, claves_bloqueadas, claves_esi, clave_bloqueante, bloqueado,
                   semaforos, pc, esi_a_ejecutar, pausado, canales, caida>>

ConsolaSemWait ==
    /\ terminando.paso = "sem_wait"
    /\ contador_esis > 0
    /\ contador_esis' = contador_esis - 1
    /\ terminando' = Nadie
    /\ mutex_listas' = "libre"
    /\ UNCHANGED <<listas, claves_bloqueadas, campos, llego_esi_nuevo, pc,
                   esi_a_ejecutar, consola, canales, caida>>

\* A mutant of ConsolaDesbloquear: the owner loses the key too.
ConsolaDesbloquearQuitando(k) ==
    /\ Comando("desbloquear")
    /\ BusquedaSegura(k)
    /\ DesbloquearEsiPorClave(k)
    /\ claves_bloqueadas' = Quitar(claves_bloqueadas, k)
    /\ claves_esi' = [e \in Esis |-> Quitar(claves_esi[e], k)]
    /\ UNCHANGED <<ejecutando, terminados, memoria, hilos, pausado, canales, caida>>

(* The first waiter wakes and the key leaves the global list; an ESI that  *)
(* owns the key keeps it.                                                  *)
ConsolaDesbloquear(k) ==
    /\ Comando("desbloquear")
    /\ BusquedaSegura(k)
    /\ DesbloquearEsiPorClave(k)
    /\ claves_bloqueadas' = Quitar(claves_bloqueadas, k)
    /\ UNCHANGED <<ejecutando, terminados, claves_esi, memoria, hilos, pausado,
                   canales, caida>>

-----------------------------------------------------------------------------
(* Undefined behaviour: the next step of some thread would dereference a   *)
(* null pointer or a freed t_esi.  Nothing is modelled after it.           *)

AccesoInvalido ==
    \/ pc = "despachar" /\ mutex_listas = "libre" /\ ~DespachoValido
    \/ pc = "seleccionar" /\ mutex_listas = "libre" /\ ~SeleccionValida
    \/ pc = "desalojar_mutex" /\ mutex_listas = "libre" /\ ~DesalojarValido
    \/ /\ coordAPlan # <<>>
       /\ \/ Head(coordAPlan).head # "SOLICITUD_CLAVE_LIBRE" /\ ~SoporteValido
          \/ /\ Head(coordAPlan).head = "DESBLOQUEAR_CLAVE_DEL_ESI_EJECUTANDO"
             /\ ~BusquedaSegura(clave_pedida)
    \/ /\ terminando.paso = "desbloquear"
       /\ terminando.i <= Len(claves_esi[terminando.victima])
       /\ ~BusquedaSegura(claves_esi[terminando.victima][terminando.i])
    \/ /\ "desbloquear" \in Comandos /\ comandos < MaxComandos
       /\ mutex_listas = "libre"
       /\ \E k \in Claves : ~BusquedaSegura(k)

UsoIndebido ==
    /\ AccesoInvalido
    /\ caida' = "indefinido"
    /\ UNCHANGED <<varsPlan, canales>>

-----------------------------------------------------------------------------
Planificar ==
    \/ PlanInicio \/ PlanRevisar
    \/ PlanDesalojar \/ PlanDesalojarMutex \/ PlanDesalojarFin
    \/ PlanElegir \/ PlanEsperaSem \/ PlanSelPausa \/ PlanSeleccionar
    \/ PlanPausa \/ PlanDespachar
    \/ PlanRespuestaCorrecta \/ PlanRespuestaFinal

TerminarEsi ==
    TerminarDesbloquear \/ TerminarEliminar \/ TerminarSiguientePaso \/ TerminarLiberar

Soporte ==
    \/ SoporteClaveLibre \/ SoporteBloquearEsi \/ SoporteBloquearClave
    \/ SoporteClaveDeEsi \/ SoporteDesbloquearClave

Consola ==
    \/ ConsolaPausar \/ ConsolaContinuar \/ ConsolaSemWait
    \/ \E e \in Esis : ConsolaKill(e)
    \/ \E e \in Esis, k \in Claves : ConsolaBloquearEjecutando(e, k)
                                       \/ ConsolaBloquearListo(e, k)
    \/ \E k \in Claves : ConsolaDesbloquear(k)

PlanificadorNext ==
    \/ Planificar \/ TerminarEsi \/ Soporte \/ Consola \/ UsoIndebido
    \/ \E e \in Esis : AgregarNuevoEsi(e)
=============================================================================
