------------------------------ MODULE ReDistinto ------------------------------
(***************************************************************************)
(* The whole system: the ESIs, the Planificador and the Coordinador over   *)
(* the connections of Protocolo, and the properties of their composition.  *)
(***************************************************************************)
EXTENDS Planificador, ESI, Coordinador, Espera

vars == <<varsPlan, varsEsi, varsCoord, canales, caida>>

Init ==
    /\ ProtocoloInit
    /\ PlanificadorInit
    /\ EsiInit
    /\ CoordinadorInit

(* Every ESI is over or waits for an order, and nobody has work left: the  *)
(* state in which the system stands still until the next ESI connects.     *)
(* Whether those that wait should do so is what SoloInterbloqueados asks.  *)
SinTrabajo ==
    /\ pc = "espera_sem" /\ contador_esis = 0 /\ mutex_listas = "libre"
    /\ \A e \in Esis :
          \/ fase[e] = "fin" /\ memoria[e] = "liberada" /\ hilo[e] = "fin"
          \/ fase[e] = "espera_orden" /\ memoria[e] # "liberada"

(* An instance that never answers leaves the thread that asked it, and the *)
(* mutex it holds, hanging for ever.                                       *)
Colgado == \E e \in Esis : hilo[e] = "colgado"

(* Stuttering, so that TLC's deadlock check reports any other standstill.  *)
Reposo ==
    /\ caida # "ninguna" \/ SinTrabajo \/ Colgado
    /\ UNCHANGED vars

(* Nothing is modelled of a process of the system after it has died.       *)
DePlan(A)  == caida = "ninguna" /\ A /\ UNCHANGED <<varsEsi, varsCoord>>
DeEsi(A)   == caida = "ninguna" /\ A /\ UNCHANGED <<varsPlan, varsCoord>>
DeCoord(A) == caida = "ninguna" /\ A /\ UNCHANGED <<varsPlan, varsEsi>>

Next ==
    \/ DePlan(PlanificadorNext)
    \/ DeEsi(EsiNext)
    \/ DeCoord(CoordinadorNext)
    \/ Reposo

Spec == Init /\ [][Next]_vars

(* Fairness: a thread that can go on does so.  No mutex is contended for   *)
(* ever here: mutex_listas only by the finitely many ESIs that connect,    *)
(* mutex_mensaje_planificador by one operation at a time.  The operator    *)
(* who started with the scheduler paused continues it; nobody has to       *)
(* connect, issue a command or press Ctrl-C.                               *)
EsiAvanza(e) ==
    \/ EsiRecibirOrden(e) \/ EsiEmpezar(e) \/ EsiPedirOperacion(e) \/ EsiLineaInvalida(e)
    \/ EsiFinDeGuion(e) \/ EsiRecibirResultado(e) \/ EsiContestar(e) \/ EsiFinInstruccion(e)
    \/ EsiFinInterrupcion(e)

CoordAvanza(e) ==
    \/ CoordRecibir(e) \/ CoordDesconexion(e) \/ CoordClaveLarga(e) \/ CoordConsultar(e)
    \/ CoordPermitido(e) \/ CoordClaveBloqueada(e) \/ CoordClaveAjena(e) \/ CoordGuardar(e)
    \/ CoordSetear(e) \/ CoordStorear(e) \/ CoordInstanciaFalla(e) \/ CoordOrdenEjecutada(e)

Justicia ==
    /\ WF_vars(DePlan(Planificar)) /\ WF_vars(DePlan(TerminarEsi))
    /\ WF_vars(DePlan(Soporte)) /\ WF_vars(DePlan(ConsolaContinuar))
    /\ WF_vars(DeCoord(CoordEscucharPlanificador))
    /\ \A e \in Esis : WF_vars(DeEsi(EsiAvanza(e))) /\ WF_vars(DeCoord(CoordAvanza(e)))

SpecJusta == Spec /\ Justicia

-----------------------------------------------------------------------------
TypeOK == ProtocoloTypeOK /\ PlanificadorTypeOK /\ EsiTypeOK /\ CoordinadorTypeOK

(* The semaphore counts the ready ESIs, give or take the one planificar    *)
(* has claimed and not yet taken out, and the one kill or bloquear has     *)
(* taken out and not yet claimed (sem_post and sem_wait in listas.c,       *)
(* algoritmos_planificacion.c and consola.c agree).                        *)
Reclamado == IF pc \in {"sel_pausa", "seleccionar"} THEN 1 ELSE 0
Adeudado  == IF terminando.paso = "sem_wait" THEN 1 ELSE 0
SemaforoExacto == Len(listos) + Adeudado = contador_esis + Reclamado

(* soporte works without mutex_listas on whatever esi_a_ejecutar is: while *)
(* the Coordinador serves an ESI, that ESI is the one executing, and       *)
(* planificar holds the mutex waiting for it.                              *)
SoporteProtegido ==
    \A e \in Esis : hilo[e] \in EnOperacion =>
        /\ esi_a_ejecutar = e
        /\ memoria[e] = "viva"
        /\ mutex_listas = "planificar" /\ pc = "espera_respuesta" /\ terminando = Nadie

(* "Se supone que se hace STORE sobre el ESI que esta ejecutando": when    *)
(* soporte is ordered to unlock the key of a STORE, esi_a_ejecutar is the  *)
(* ESI that stored it.                                                     *)
StoreDelEjecutando ==
    \A e \in Esis :
        hilo[e] = "orden_clave" /\ pedido[e].head = "PERSISTIR_CLAVE" /\ coordAPlan # <<>> =>
            esi_a_ejecutar = e

(* GET locks: no key belongs to two ESIs, or twice to one.                 *)
ExclusionClaves ==
    \A e, f \in Esis : \A i \in DOMAIN claves_esi[e], j \in DOMAIN claves_esi[f] :
        claves_esi[e][i] = claves_esi[f][j] => e = f /\ i = j

(* The global list that GET consults is the keys locked by configuration   *)
(* and those some ESI owns, except while a dying ESI gives its keys back.  *)
ClavesDeAlguien == UNION {ToSet(claves_esi[e]) : e \in Esis}
ClavesCoherentes ==
    terminando.paso \notin {"eliminar", "liberar"} =>
        ToSet(claves_bloqueadas) = ToSet(ClavesIniciales) \cup ClavesDeAlguien

(* The locks, as the lists have them: GET finds locked exactly what has an *)
(* owner, and no key has two.                                              *)
CandadosCoherentes == ExclusionClaves /\ ClavesCoherentes

(* No lost wakeup: if an ESI waits for a key, the key is locked or some    *)
(* other ESI that is not blocked is about to GET it again.                 *)
VuelveAPedir(e, k) ==
    /\ pendiente[e] /\ ~bloqueado[e]
    /\ memoria[e] = "viva"
    /\ guion[e][linea[e]] = [op |-> "GET", clave |-> k]
SinDespertarPerdido ==
    \A e \in ToSet(bloqueados) :
        \/ clave_bloqueante[e] \in ToSet(claves_bloqueadas)
        \/ \E f \in Esis : VuelveAPedir(f, clave_bloqueante[e])

(* What an ESI believes it owns (a GET that was answered CLAVE_LIBRE and   *)
(* no STORE sent since) the Planificador has recorded for it.              *)
Hechas(e) == {i \in 1..linea[e] : i < linea[e] \/ ~pendiente[e]}
CreePoseer(e) ==
    {k \in Claves : \E i \in Hechas(e) :
        /\ guion[e][i] = [op |-> "GET", clave |-> k]
        /\ \A j \in i..linea[e] : guion[e][j] # [op |-> "STORE", clave |-> k]}
PosesionReal ==
    \A e \in Esis : memoria[e] = "viva" /\ fase[e] # "fin" =>
        CreePoseer(e) \subseteq ToSet(claves_esi[e])

(* set_valor and store_clave find an entry for every key an ESI owns,      *)
(* unless its STORE is in progress.                                        *)
RegistroCubre ==
    \A e \in Esis, k \in Claves :
        k \in ToSet(claves_esi[e]) =>
            Registrada(k) \/ (hilo[e] = "orden_clave" /\ pedido[e].clave = k)

(* The three processes agree on who owns what, from one message to the     *)
(* next: the ESI, the Planificador and the Coordinador, in this order,     *)
(* never know of a key that the following one does not.                    *)
PosesionCompartida == PosesionReal /\ RegistroCubre

(* The entry that set_valor and store_clave look up, and dereference       *)
(* without a check, is there when they do.                                 *)
RegistroNuncaNulo ==
    \A e \in Esis :
        hilo[e] = "instancia" /\ pedido[e].head # "SOLICITAR_CLAVE" => Registrada(pedido[e].clave)

(* Every live ESI is in exactly one list, once, and only live ESIs are.    *)
Apariciones(e) ==
    Cardinality({i \in DOMAIN listos : listos[i] = e})
    + Cardinality({i \in DOMAIN ejecutando : ejecutando[i] = e})
    + Cardinality({i \in DOMAIN bloqueados : bloqueados[i] = e})
ListasExactas ==
    \A e \in Esis : Apariciones(e) = (IF Legible(e) THEN 1 ELSE 0)

(* While planificar waits holding mutex_listas, the answer is on its way:  *)
(* exactly one message or thread carries the instruction.                  *)
Portadores(e) ==
    {c \in {"orden", "esi", "pedido", "hilo", "resultado", "respuesta"} :
        CASE c = "orden"     -> planAEsi[e] # <<>>
          [] c = "esi"       -> fase[e] \in {"recibio", "leer", "contestar"}
          [] c = "pedido"    -> esiACoord[e] # <<>> /\ Head(esiACoord[e]).head \in Operaciones
          [] c = "hilo"      -> hilo[e] \in EnOperacion \/ (hilo[e] = "mutex" /\ EsOperacion(e))
          [] c = "resultado" -> coordAEsi[e] # <<>> /\ fase[e] = "espera_coord"
          [] OTHER           -> esiAPlan[e] # <<>>}
RespuestaEnCamino ==
    pc = "espera_respuesta" /\ terminando = Nadie =>
        Cardinality(Portadores(esi_a_ejecutar)) = 1

(* kill and bloquear finish: they never wait for a semaphore that nobody   *)
(* can post while they own mutex_listas.                                   *)
ConsolaNoSeTraba == terminando.paso = "sem_wait" => contador_esis > 0

(* planificar turns to another ESI only when the current one has ended, is *)
(* blocked, or has been preempted: none stays behind in ejecutando.        *)
Abandonados ==
    IF pc \in {"espera_sem", "sel_pausa", "seleccionar"} THEN ToSet(ejecutando)
                                                        ELSE ToSet(ejecutando) \ {esi_a_ejecutar}

(* agregar_nuevo_esi does not set bloqueado, and malloc may leave it true: *)
(* such an ESI passes for blocked, though no list of blocked ESIs has it.  *)
NacioBloqueado(e) ==
    TRUE \in BloqueadoInicial /\ bloqueado[e] /\ e \notin ToSet(bloqueados)

(* Every live ESI is where planificar will find it: in one list, and in    *)
(* ejecutando only while it is the one that planificar works with.  That   *)
(* lasts until an ESI is abandoned because it was created with bloqueado   *)
(* set: from then on ejecutando is never empty, and desalojar may put in   *)
(* listos an ESI that is in bloqueados.                                    *)
NingunoPerdido ==
    \/ ListasExactas /\ Abandonados = {}
    \/ \E e \in Abandonados : NacioBloqueado(e)

(* The answer a Coordinador thread takes is the answer to its own request: *)
(* a thread that waits has exactly one request or answer under way, and    *)
(* none is under way otherwise.                                            *)
EsperaSoporte == {e \in Esis : hilo[e] \in {"consulta", "orden_clave", "orden_esi"}}
RespuestaPropia ==
    /\ Len(coordAPlan) + Len(planACoord) + sem_planificador = Cardinality(EsperaSoporte)
    /\ Cardinality(EsperaSoporte) <= 1
    /\ \A e \in EsperaSoporte :
          /\ coordAPlan # <<>> => Head(coordAPlan).clave = pedido[e].clave
          /\ sem_planificador = 1 => (mensaje_planificador = "ORDEN_EJECUTADA") = (hilo[e] # "consulta")

(* The lock table that Cerrojos promises.                                  *)
Tabla == INSTANCE Cerrojos WITH
    Configuradas <- ToSet(ClavesIniciales),
    poseedores   <- [k \in Claves |-> {e \in Esis : k \in ToSet(claves_esi[e])}],
    espera       <- clave_bloqueante
ImplementaCerrojos == Tabla!Spec

(* Every ESI that the Planificador admits ends: a blocked GET is repeated  *)
(* and answered, planificar comes back to every ESI it has preempted.  The *)
(* exception is that of NingunoPerdido: an ESI abandoned keeps its keys.   *)
TodoEsiTermina ==
    <>[](\/ \A e \in Esis : memoria[e] \in {"sin_crear", "liberada"}
         \/ \E e \in Abandonados : NacioBloqueado(e))

(* The ESIs in deadlock: each is blocked, and waits for a key of another   *)
(* of them (or of its own).                                                *)
EnInterbloqueo ==
    Interbloqueados([e \in ToSet(bloqueados) |->
        {f \in Esis : clave_bloqueante[e] \in ToSet(claves_esi[f])}])

(* What the command deadlock reports stays true: without the operator an   *)
(* ESI in deadlock is never freed, so that the report is worth a kill.     *)
InterbloqueoEstable == [][EnInterbloqueo \subseteq EnInterbloqueo']_vars

(* The ESIs that nothing but the operator can free: those in deadlock, and *)
(* those that wait for a key locked by configuration, as if it were their  *)
(* own, or for an ESI that does.                                           *)
EsperaSinFin ==
    Interbloqueados([e \in ToSet(bloqueados) |->
        {f \in Esis : \/ clave_bloqueante[e] \in ToSet(claves_esi[f])
                      \/ f = e /\ clave_bloqueante[e] \in ToSet(ClavesIniciales)}])

(* Nobody is left waiting by mistake: when the system stands still, every  *)
(* ESI that has not ended waits without end.  A wakeup lost, or an ESI set *)
(* aside for no reason, would leave one that does not.                     *)
SoloInterbloqueados ==
    SinTrabajo => {e \in Esis : Legible(e)} \subseteq EsperaSinFin

(* The order goes to an ESI that still listens: send does not raise        *)
(* SIGPIPE (the process would end) as long as what an ESI says before it   *)
(* closes makes planificar take its leave of it.                           *)
OrdenSinSigpipe ==
    pc = "despachar" /\ DespachoValido => ~Cerrado(esiAPlan, esi_a_ejecutar)

(* No undefined behaviour.                                                 *)
SinCaida == caida = "ninguna"
=============================================================================
