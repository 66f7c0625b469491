----------------------------- MODULE Coordinador -----------------------------
(***************************************************************************)
(* The Coordinador process (proyecto-coordinador): one thread per ESI      *)
(* (escuchar_esi), which holds mutex_mensaje_planificador for a whole      *)
(* operation, and escuchar_planificador, which hands it the answers of     *)
(* soporte through the global mensaje_planificador and a semaphore.        *)
(*                                                                         *)
(* The three distribution algorithms choose one connected instance; the    *)
(* exchange with it is its outcome: done, refused, or no answer at all.    *)
(***************************************************************************)
EXTENDS Protocolo

CONSTANTS
    Instancias,           \* lista_instancias
    RespuestasInstancia   \* subset of {"ok", "fallo", "nunca"}

ASSUME CoordinadorAssumption == RespuestasInstancia \subseteq {"ok", "fallo", "nunca"}

VARIABLES
    hilo,                  \* [Esis -> Hilos]: where the thread of the ESI is
    pedido,                \* [Esis -> PedidosEsi]: mensaje_del_esi
    mutex_mensaje,         \* owner of mutex_mensaje_planificador, or NULL
    mensaje_planificador,  \* header, "liberado" after a free, or NULL
    sem_planificador,      \* productor_consumidor_mensajes_planificador
    registro_claves        \* Seq of entries [clave, instancia]

varsCoord == <<hilo, pedido, mutex_mensaje, mensaje_planificador, sem_planificador,
               registro_claves>>

\* The states that hold the mutex: waiting for soporte, for an instance, or for ever.
EnOperacion == {"consulta", "instancia", "orden_clave", "orden_esi", "colgado"}
Hilos == {"recibe", "mutex", "fin"} \cup EnOperacion

CoordinadorTypeOK ==
    /\ hilo \in [Esis -> Hilos]
    /\ pedido \in [Esis -> PedidosEsi]
    /\ mutex_mensaje \in Esis \cup {NULL}
    /\ mensaje_planificador \in RespuestasSoporte \cup {"liberado", NULL}
    /\ sem_planificador \in Nat
    /\ registro_claves \in Seq([clave : Claves, instancia : Instancias])

CoordinadorInit ==
    /\ hilo = [e \in Esis |-> "recibe"]
    /\ pedido = [e \in Esis |-> Mensaje("DESCONEXION", NULL)]
    /\ mutex_mensaje = NULL
    /\ mensaje_planificador = NULL
    /\ sem_planificador = 0
    /\ registro_claves = <<>>

-----------------------------------------------------------------------------
CoordEscucharPlanificador ==
    /\ planACoord # <<>>
    /\ mensaje_planificador' = Head(planACoord)
    /\ planACoord' = Tail(planACoord)
    /\ sem_planificador' = sem_planificador + 1
    /\ UNCHANGED <<hilo, pedido, mutex_mensaje, registro_claves, planAEsi, esiAPlan,
                   esiACoord, coordAEsi, coordAPlan, caida>>

(* prot_destruir_mensaje(mensaje_planificador): freeing it a second time   *)
(* is undefined; the process may survive it.                               *)
Destruir ==
    /\ mensaje_planificador' = IF mensaje_planificador = NULL THEN NULL ELSE "liberado"
    /\ \/ UNCHANGED caida
       \/ mensaje_planificador = "liberado" /\ caida' = "indefinido"

CoordRecibir(e) ==
    /\ hilo[e] = "recibe"
    /\ esiACoord[e] # <<>>
    /\ hilo' = [hilo EXCEPT ![e] = "mutex"]
    /\ pedido' = [pedido EXCEPT ![e] = Head(esiACoord[e])]
    /\ esiACoord' = Recibido(esiACoord, e)
    /\ UNCHANGED <<mutex_mensaje, mensaje_planificador, sem_planificador, registro_claves,
                   planAEsi, esiAPlan, coordAEsi, coordAPlan, planACoord, caida>>

EsOperacion(e) == pedido[e].head \in Operaciones

(* DESCONEXION, FALLO_AL_RECIBIR and the rest: the thread closes and ends. *)
CoordDesconexion(e) ==
    /\ hilo[e] = "mutex"
    /\ mutex_mensaje = NULL
    /\ ~EsOperacion(e)
    /\ hilo' = [hilo EXCEPT ![e] = "fin"]
    /\ coordAEsi' = Enviar(coordAEsi, e, "FALLO_AL_RECIBIR")
    /\ UNCHANGED <<pedido, mutex_mensaje, mensaje_planificador, sem_planificador,
                   registro_claves, planAEsi, esiAPlan, esiACoord, coordAPlan,
                   planACoord, caida>>

(* The end of an operation: answer the ESI, release the mutex, and listen  *)
(* again, or after a failure close the connection.                         *)
Cumplir(e, respuesta) ==
    /\ hilo' = [hilo EXCEPT ![e] = "recibe"]
    /\ mutex_mensaje' = NULL
    /\ coordAEsi' = Enviar(coordAEsi, e, respuesta)

Fallar(e) ==
    /\ hilo' = [hilo EXCEPT ![e] = "fin"]
    /\ mutex_mensaje' = NULL
    /\ coordAEsi' = [coordAEsi EXCEPT ![e] =
                        @ \o <<"RESULTADO_OPERACION_FALLO", "FALLO_AL_RECIBIR">>]

(* A key that is too long fails before soporte is asked, yet the handler   *)
(* still destroys mensaje_planificador, the message of an earlier one.     *)
CoordClaveLarga(e) ==
    /\ hilo[e] = "mutex"
    /\ mutex_mensaje = NULL
    /\ EsOperacion(e)
    /\ pedido[e].clave \in ClavesLargas
    /\ Destruir
    /\ Fallar(e)
    /\ UNCHANGED <<pedido, sem_planificador, registro_claves, planAEsi, esiAPlan,
                   esiACoord, coordAPlan, planACoord>>

\* A mutant of CoordConsultar: it does not wait for the mutex.
CoordConsultarSinMutex(e) ==
    /\ hilo[e] = "mutex"
    /\ EsOperacion(e)
    /\ pedido[e].clave \notin ClavesLargas
    /\ mutex_mensaje' = e
    /\ hilo' = [hilo EXCEPT ![e] = "consulta"]
    /\ coordAPlan' = Append(coordAPlan,
          Mensaje(IF pedido[e].head = "SOLICITAR_CLAVE" THEN "SOLICITUD_CLAVE_LIBRE"
                  ELSE "SOLICITUD_CLAVE_BLOQUEADA_POR_ESI", pedido[e].clave))
    /\ UNCHANGED <<pedido, mensaje_planificador, sem_planificador, registro_claves,
                   planAEsi, esiAPlan, esiACoord, coordAEsi, planACoord, caida>>

CoordConsultar(e) ==
    /\ hilo[e] = "mutex"
    /\ mutex_mensaje = NULL
    /\ EsOperacion(e)
    /\ pedido[e].clave \notin ClavesLargas
    /\ mutex_mensaje' = e
    /\ hilo' = [hilo EXCEPT ![e] = "consulta"]
    /\ coordAPlan' = Append(coordAPlan,
          Mensaje(IF pedido[e].head = "SOLICITAR_CLAVE" THEN "SOLICITUD_CLAVE_LIBRE"
                  ELSE "SOLICITUD_CLAVE_BLOQUEADA_POR_ESI", pedido[e].clave))
    /\ UNCHANGED <<pedido, mensaje_planificador, sem_planificador, registro_claves,
                   planAEsi, esiAPlan, esiACoord, coordAEsi, planACoord, caida>>

EsperarPlanificador ==
    /\ sem_planificador > 0
    /\ sem_planificador' = sem_planificador - 1

(* GET of a free key, SET and STORE of an own key: on to the instance.     *)
(* SET keeps mensaje_planificador until it ends, the others free it here.  *)
CoordPermitido(e) ==
    /\ hilo[e] = "consulta"
    /\ EsperarPlanificador
    /\ mensaje_planificador \in {"RESPUESTA_CLAVE_LIBRE",
                                 "RESPUESTA_CLAVE_BLOQUEADA_POR_ESI_OK"}
    /\ hilo' = [hilo EXCEPT ![e] = "instancia"]
    /\ IF pedido[e].head = "ASIGNAR_VALOR" THEN UNCHANGED <<mensaje_planificador, caida>>
                                           ELSE Destruir
    /\ UNCHANGED <<pedido, mutex_mensaje, registro_claves, canales>>

\* A mutant of CoordClaveBloqueada: the ESI is answered before it is blocked.
CoordClaveBloqueadaApurada(e) ==
    /\ hilo[e] = "consulta"
    /\ EsperarPlanificador
    /\ mensaje_planificador = "RESPUESTA_CLAVE_BLOQUEADA"
    /\ Destruir
    /\ hilo' = [hilo EXCEPT ![e] = "orden_esi"]
    /\ coordAPlan' = Append(coordAPlan, Mensaje("BLOQUEAR_ESI", pedido[e].clave))
    /\ coordAEsi' = Enviar(coordAEsi, e, "CLAVE_YA_BLOQUEADA")
    /\ UNCHANGED <<pedido, mutex_mensaje, registro_claves, planAEsi, esiAPlan, esiACoord,
                   planACoord>>

CoordClaveBloqueada(e) ==
    /\ hilo[e] = "consulta"
    /\ EsperarPlanificador
    /\ mensaje_planificador = "RESPUESTA_CLAVE_BLOQUEADA"
    /\ Destruir
    /\ hilo' = [hilo EXCEPT ![e] = "orden_esi"]
    /\ coordAPlan' = Append(coordAPlan, Mensaje("BLOQUEAR_ESI", pedido[e].clave))
    /\ UNCHANGED <<pedido, mutex_mensaje, registro_claves, planAEsi, esiAPlan, esiACoord,
                   coordAEsi, planACoord>>

CoordClaveAjena(e) ==
    /\ hilo[e] = "consulta"
    /\ EsperarPlanificador
    /\ mensaje_planificador = "RESPUESTA_CLAVE_BLOQUEADA_POR_ESI_FALLO"
    /\ Destruir
    /\ Fallar(e)
    /\ UNCHANGED <<pedido, registro_claves, planAEsi, esiAPlan, esiACoord, coordAPlan,
                   planACoord>>

-----------------------------------------------------------------------------
(* The instance and registro_claves.  set_valor and store_clave use the    *)
(* entry of the key without checking that there is one: RegistroNuncaNulo. *)

Entradas(k) == {i \in DOMAIN registro_claves : registro_claves[i].clave = k}
Registrada(k) == Entradas(k) # {}

(* list_remove_by_condition, as store_clave uses it.                       *)
SinPrimeraEntrada(k) ==
    IF Registrada(k) THEN RemoveAt(registro_claves, Min(Entradas(k))) ELSE registro_claves

Responde(r) == r \in RespuestasInstancia

\* A mutant of CoordGuardar: the entry is not recorded.
CoordGuardarSinRegistrar(e) ==
    /\ hilo[e] = "instancia"
    /\ pedido[e].head = "SOLICITAR_CLAVE"
    /\ Responde("ok")
    /\ hilo' = [hilo EXCEPT ![e] = "orden_clave"]
    /\ coordAPlan' = Append(coordAPlan,
                        Mensaje("BLOQUEAR_CLAVE_PARA_ESI_EJECUTANDO", pedido[e].clave))
    /\ UNCHANGED <<pedido, mutex_mensaje, mensaje_planificador, sem_planificador, planAEsi,
                   esiAPlan, esiACoord, coordAEsi, planACoord, registro_claves, caida>>

(* guardarEnInstancia appends an entry even if the key has one already.    *)
CoordGuardar(e) ==
    /\ hilo[e] = "instancia"
    /\ pedido[e].head = "SOLICITAR_CLAVE"
    /\ Responde("ok")
    /\ \E n \in Instancias :
          registro_claves' = Append(registro_claves, [clave |-> pedido[e].clave, instancia |-> n])
    /\ hilo' = [hilo EXCEPT ![e] = "orden_clave"]
    /\ coordAPlan' = Append(coordAPlan,
                        Mensaje("BLOQUEAR_CLAVE_PARA_ESI_EJECUTANDO", pedido[e].clave))
    /\ UNCHANGED <<pedido, mutex_mensaje, mensaje_planificador, sem_planificador, planAEsi,
                   esiAPlan, esiACoord, coordAEsi, planACoord, caida>>

CoordSetear(e) ==
    /\ hilo[e] = "instancia"
    /\ pedido[e].head = "ASIGNAR_VALOR"
    /\ Responde("ok")
    /\ Destruir
    /\ Cumplir(e, "RESULTADO_OPERACION_CORRECTA")
    /\ UNCHANGED <<pedido, sem_planificador, registro_claves, planAEsi, esiAPlan, esiACoord,
                   coordAPlan, planACoord>>

CoordStorear(e) ==
    LET k == pedido[e].clave IN
    /\ hilo[e] = "instancia"
    /\ pedido[e].head = "PERSISTIR_CLAVE"
    /\ Responde("ok")
    /\ registro_claves' = SinPrimeraEntrada(k)
    /\ hilo' = [hilo EXCEPT ![e] = "orden_clave"]
    /\ coordAPlan' = Append(coordAPlan, Mensaje("DESBLOQUEAR_CLAVE_DEL_ESI_EJECUTANDO", k))
    /\ UNCHANGED <<pedido, mutex_mensaje, mensaje_planificador, sem_planificador, planAEsi,
                   esiAPlan, esiACoord, coordAEsi, planACoord, caida>>

(* The instance refuses, or a GET finds none connected: GET and STORE have *)
(* freed mensaje_planificador already and free it again.                   *)
CoordInstanciaFalla(e) ==
    /\ hilo[e] = "instancia"
    /\ Responde("fallo")
    /\ Destruir
    /\ Fallar(e)
    /\ UNCHANGED <<pedido, sem_planificador, registro_claves, planAEsi, esiAPlan, esiACoord,
                   coordAPlan, planACoord>>

(* An instance that disconnects never posts the semaphore waited for.      *)
CoordInstanciaCalla(e) ==
    /\ hilo[e] = "instancia"
    /\ Responde("nunca")
    /\ hilo' = [hilo EXCEPT ![e] = "colgado"]
    /\ UNCHANGED <<pedido, mutex_mensaje, mensaje_planificador, sem_planificador,
                   registro_claves, canales, caida>>

-----------------------------------------------------------------------------
(* ORDEN_EJECUTADA: answer the ESI according to the order that was sent.   *)
RespuestaTrasOrden(e) ==
    IF hilo[e] = "orden_esi" THEN "CLAVE_YA_BLOQUEADA"
    ELSE IF pedido[e].head = "SOLICITAR_CLAVE" THEN "CLAVE_LIBRE"
    ELSE "RESULTADO_OPERACION_CORRECTA"

CoordOrdenEjecutada(e) ==
    /\ hilo[e] \in {"orden_clave", "orden_esi"}
    /\ EsperarPlanificador
    /\ mensaje_planificador = "ORDEN_EJECUTADA"
    /\ Destruir
    /\ Cumplir(e, RespuestaTrasOrden(e))
    /\ UNCHANGED <<pedido, registro_claves, planAEsi, esiAPlan, esiACoord, coordAPlan,
                   planACoord>>

CoordinadorNext ==
    \/ CoordEscucharPlanificador
    \/ \E e \in Esis :
          \/ CoordRecibir(e) \/ CoordDesconexion(e) \/ CoordClaveLarga(e)
          \/ CoordConsultar(e) \/ CoordPermitido(e) \/ CoordClaveBloqueada(e)
          \/ CoordClaveAjena(e) \/ CoordGuardar(e) \/ CoordSetear(e) \/ CoordStorear(e)
          \/ CoordInstanciaFalla(e) \/ CoordInstanciaCalla(e)
          \/ CoordOrdenEjecutada(e)
=============================================================================
