-------------------------- MODULE ReDistintoPruebas --------------------------
(***************************************************************************)
(* Proofs about ReDistinto, for any ESIs, keys, scripts and commands: the  *)
(* type invariant, the semaphore that counts the ready ESIs, and the round *)
(* trip of an instruction through the three processes.                     *)
(***************************************************************************)
EXTENDS ReDistinto, LemasListas, FiniteSetTheorems

\* What the operators of the Planificador on lists and connections do.

\* Quitar, list_remove_by_condition of an element: the type and the length.
LEMMA QuitarTipo ==
    ASSUME NEW S, NEW lista \in Seq(S), NEW x
    PROVE  Quitar(lista, x) \in Seq(S)
BY SacarTipo DEF Quitar

\* list_remove_by_condition of an element that is there shortens it by one.
LEMMA QuitarLargo ==
    ASSUME NEW S, NEW lista \in Seq(S), NEW x \in ToSet(lista)
    PROVE  Len(Quitar(lista, x)) = Len(lista) - 1
BY SacarPresente, RemoveAtTipo DEF Quitar

\* The orders list_sort may leave a list in.
LEMMA ReordenadasTipo ==
    ASSUME NEW S, NEW lista \in Seq(S), NEW orden \in Reordenadas(lista)
    PROVE  /\ orden \in Seq(S)
           /\ Len(orden) = Len(lista)
<1>1. PICK p \in [DOMAIN lista -> DOMAIN lista] : orden = [i \in DOMAIN lista |-> lista[p[i]]]
  BY DEF Reordenadas
<1>2. DOMAIN lista = 1..Len(lista) /\ Len(lista) \in Nat
  BY LenProperties
<1>3. orden \in [1..Len(lista) -> S]
  BY <1>1, <1>2, ElementOfSeq
<1>. QED BY <1>2, <1>3, IsASeq, LenProperties

\* Sending on a connection keeps its type.
LEMMA EnviarTipo ==
    ASSUME NEW M, NEW canal \in [Esis -> Seq(M)], NEW e \in Esis, NEW m \in M
    PROVE  Enviar(canal, e, m) \in [Esis -> Seq(M)]
BY AgregarTipo DEF Enviar

\* Receiving from a connection that is not empty.
LEMMA RecibidoTipo ==
    ASSUME NEW M, NEW canal \in [Esis -> Seq(M)], NEW e \in Esis, canal[e] # <<>>
    PROVE  /\ Head(canal[e]) \in M
           /\ Recibido(canal, e) \in [Esis -> Seq(M)]
<1>1. canal[e] \in Seq(M)
  OBVIOUS
<1>. QED BY <1>1, CabezaTipo DEF Recibido

-----------------------------------------------------------------------------
\* The steps of terminar_esi that work on a victim.
ConVictima == {"desbloquear", "eliminar", "liberar"}

\* planificar has an ESI when it waits for an answer, terminar_esi a victim.
PunterosReales ==
    /\ pc = "espera_respuesta" => esi_a_ejecutar \in Esis
    /\ terminando.paso \in ConVictima => terminando.victima \in Esis

\* The instruction a blocked GET left pending was read from the script.
LineasLeidas ==
    \A e \in Esis :
        /\ fase[e] = "espera_coord" => pendiente[e]
        /\ pendiente[e] => linea[e] >= 1

\* A thread of the Coordinador that holds the mutex serves a request.
PedidosServidos == \A e \in Esis : hilo[e] \in EnOperacion => EsOperacion(e)

InvTipos == TypeOK /\ PunterosReales /\ LineasLeidas /\ PedidosServidos

-----------------------------------------------------------------------------
\* The initial states have the types.
LEMMA InicioTipos == Init => InvTipos
<1>. SUFFICES ASSUME Init PROVE InvTipos
  OBVIOUS
<1>. USE DEF Init
<1>0. \A S : <<>> \in Seq(S)
  BY EmptySeq
<1>1. ProtocoloTypeOK
  <2>1. planAEsi \in [Esis -> Seq(Ordenes)] /\ esiAPlan \in [Esis -> Seq(Respuestas)]
    BY <1>0 DEF ProtocoloInit
  <2>2. esiACoord \in [Esis -> Seq(PedidosEsi)] /\ coordAEsi \in [Esis -> Seq(Resultados)]
    BY <1>0 DEF ProtocoloInit
  <2>3. coordAPlan \in Seq(PedidosCoord) /\ planACoord \in Seq(RespuestasSoporte)
    BY <1>0 DEF ProtocoloInit
  <2>4. caida \in Caidas
    BY DEF ProtocoloInit, Caidas
  <2>. QED BY <2>1, <2>2, <2>3, <2>4 DEF ProtocoloTypeOK
<1>2. PlanificadorTypeOK
  <2>1. claves_esi \in [Esis -> Seq(Claves)]
    BY <1>0 DEF PlanificadorInit
  <2>2. terminando \in [paso : Pasos, victima : Esis \cup {NULL}, origen : Origenes, i : Nat]
    BY DEF PlanificadorInit, Nadie, Pasos, Origenes
  <2>3. comandos \in 0..MaxComandos /\ claves_bloqueadas \in Seq(Claves)
    BY PlanificadorAssumption DEF PlanificadorInit
  <2>4. /\ listos \in Seq(Esis) /\ ejecutando \in Seq(Esis)
        /\ bloqueados \in Seq(Esis) /\ terminados \in Seq(Esis)
    BY <1>0 DEF PlanificadorInit
  <2>5. /\ clave_bloqueante \in [Esis -> Claves \cup {NULL}]
        /\ bloqueado \in [Esis -> BOOLEAN]
        /\ memoria \in [Esis -> Memorias]
    BY DEF PlanificadorInit, Memorias
  <2>6. /\ contador_esis \in Nat /\ llego_esi_nuevo \in BOOLEAN
        /\ esi_a_ejecutar \in Esis \cup {NULL} /\ pausado \in BOOLEAN
        /\ mutex_listas \in {"libre", "planificar", "consola"} /\ pc \in Lugares
    BY DEF PlanificadorInit, Lugares
  <2>. QED BY <2>1, <2>2, <2>3, <2>4, <2>5, <2>6 DEF PlanificadorTypeOK
<1>3. EsiTypeOK
  BY DEF EsiInit, EsiTypeOK, Fases, Ejecutando
<1>4. CoordinadorTypeOK
  BY EmptySeq DEF CoordinadorInit, CoordinadorTypeOK, Hilos, EnOperacion, PedidosEsi, Mensaje,
     Avisos
<1>5. PunterosReales /\ LineasLeidas /\ PedidosServidos
  BY DEF PlanificadorInit, EsiInit, CoordinadorInit, PunterosReales, LineasLeidas,
     PedidosServidos, ConVictima, Nadie, EnOperacion
<1>. QED BY <1>1, <1>2, <1>3, <1>4, <1>5 DEF InvTipos, TypeOK


\* Closing both connections keeps the types of what is in them.
LEMMA FinalizarTipo ==
    ASSUME ProtocoloTypeOK, EsiTypeOK, NEW e \in Esis,
           NEW ultimos \in Seq(Respuestas), NEW aviso \in Seq(PedidosEsi),
           Finalizar(e, ultimos, aviso)
    PROVE  /\ fase' \in [Esis -> Fases]
           /\ esiAPlan' \in [Esis -> Seq(Respuestas)]
           /\ esiACoord' \in [Esis -> Seq(PedidosEsi)]
           /\ fase' = [fase EXCEPT ![e] = "fin"]
<1>1. "FALLO_AL_RECIBIR" \in Respuestas /\ Mensaje("FALLO_AL_RECIBIR", NULL) \in PedidosEsi
  BY DEF Respuestas, PedidosEsi, Mensaje, Avisos
<1>2. /\ <<"FALLO_AL_RECIBIR">> \in Seq(Respuestas)
      /\ <<Mensaje("FALLO_AL_RECIBIR", NULL)>> \in Seq(PedidosEsi)
  BY <1>1
<1>3. /\ esiAPlan[e] \o ultimos \o <<"FALLO_AL_RECIBIR">> \in Seq(Respuestas)
      /\ esiACoord[e] \o aviso \o <<Mensaje("FALLO_AL_RECIBIR", NULL)>> \in Seq(PedidosEsi)
  BY <1>2, ConcatProperties DEF ProtocoloTypeOK
<1>. QED BY <1>3 DEF Finalizar, ProtocoloTypeOK, EsiTypeOK, Fases

\* An ESI keeps the types.
LEMMA EsiTipos ==
    ASSUME InvTipos, EsiNext
    PROVE  ProtocoloTypeOK' /\ EsiTypeOK' /\ LineasLeidas'
<1>. USE DEF InvTipos, TypeOK
<1>0. PICK e \in Esis :
       \/ EsiRecibirOrden(e) \/ EsiEmpezar(e)
       \/ EsiPedirOperacion(e) \/ EsiLineaInvalida(e) \/ EsiFinDeGuion(e)
       \/ EsiRecibirResultado(e) \/ EsiContestar(e) \/ EsiFinInstruccion(e)
       \/ EsiCtrlC(e) \/ EsiFinInterrupcion(e)
  BY DEF EsiNext
<1>a. /\ <<>> \in Seq(Respuestas) /\ <<>> \in Seq(PedidosEsi)
      /\ \A r \in Respuestas : <<r>> \in Seq(Respuestas)
      /\ \A p \in PedidosEsi : <<p>> \in Seq(PedidosEsi)
  OBVIOUS
<1>1. CASE EsiRecibirOrden(e)
  <2>1. Recibido(planAEsi, e) \in [Esis -> Seq(Ordenes)]
    BY <1>1, RecibidoTipo DEF EsiRecibirOrden, ProtocoloTypeOK
  <2>2. CASE PasarA(e, "espera_orden", "recibio") /\ UNCHANGED <<esiAPlan, esiACoord>>
    BY <1>1, <2>1, <2>2 DEF EsiRecibirOrden, PasarA, Fases, ProtocoloTypeOK, EsiTypeOK, LineasLeidas
  <2>3. CASE Finalizar(e, <<>>, <<>>)
    BY <1>1, <1>a, <2>1, <2>3, FinalizarTipo DEF EsiRecibirOrden, ProtocoloTypeOK, EsiTypeOK,
       LineasLeidas
  <2>. QED BY <1>1, <2>2, <2>3 DEF EsiRecibirOrden
<1>2. CASE EsiEmpezar(e)
  BY <1>2 DEF EsiEmpezar, PasarA, Fases, Ejecutando, EsiTypeOK, LineasLeidas, ProtocoloTypeOK,
     canales
<1>3. CASE EsiPedirOperacion(e)
  <2>1. linea[e] \in Nat /\ LineaActual(e) \in Nat /\ LineaActual(e) >= 1
    BY DEF EsiTypeOK, LineasLeidas, LineaActual
  <2>2. guion[e] \in Seq(Instrucciones) /\ LineaActual(e) \in 1..Len(guion[e])
    BY <1>3, <2>1, EsiAssumption DEF EsiPedirOperacion, HayLinea, EsiTypeOK
  <2>3. Actual(e) \in Instrucciones
    BY <2>2 DEF Actual
  <2>4. Actual(e).op \in {"GET", "SET", "STORE"} /\ Actual(e).clave \in Claves
    BY <1>3, <2>3 DEF EsiPedirOperacion, Instrucciones
  <2>5. Solicitud(Actual(e)) \in PedidosEsi
    BY <2>4 DEF Solicitud, Mensaje, PedidosEsi, Operaciones
  <2>6. esiACoord' \in [Esis -> Seq(PedidosEsi)]
    BY <1>3, <2>5, EnviarTipo DEF EsiPedirOperacion, ProtocoloTypeOK
  <2>7. EsiTypeOK' /\ LineasLeidas'
    BY <1>3, <2>1 DEF EsiPedirOperacion, PasarA, EsiTypeOK, LineasLeidas, Fases, Ejecutando
  <2>. QED BY <1>3, <2>6, <2>7 DEF EsiPedirOperacion, ProtocoloTypeOK
<1>4. CASE EsiLineaInvalida(e)
  <2>1. linea[e] \in Nat /\ LineaActual(e) \in Nat /\ LineaActual(e) >= 1
    BY DEF EsiTypeOK, LineasLeidas, LineaActual
  <2>2. "EJECUCION_FALLO" \in Respuestas
    BY DEF Respuestas
  <2>3. /\ fase' \in [Esis -> Fases]
        /\ esiAPlan' \in [Esis -> Seq(Respuestas)]
        /\ esiACoord' \in [Esis -> Seq(PedidosEsi)]
        /\ fase' = [fase EXCEPT ![e] = "fin"]
    BY <1>4, <1>a, <2>2, FinalizarTipo DEF EsiLineaInvalida
  <2>. QED BY <1>4, <2>1, <2>3 DEF EsiLineaInvalida, ProtocoloTypeOK, EsiTypeOK, LineasLeidas
<1>5. CASE EsiFinDeGuion(e)
  <2>1. "SCRITP_FINALIZADO" \in Respuestas /\ Mensaje("SCRITP_FINALIZADO", NULL) \in PedidosEsi
    BY DEF Respuestas, PedidosEsi, Avisos, Mensaje
  <2>2. /\ fase' \in [Esis -> Fases]
        /\ esiAPlan' \in [Esis -> Seq(Respuestas)]
        /\ esiACoord' \in [Esis -> Seq(PedidosEsi)]
        /\ fase' = [fase EXCEPT ![e] = "fin"]
    BY <1>5, <1>a, <2>1, FinalizarTipo DEF EsiFinDeGuion
  <2>. QED BY <1>5, <2>2 DEF EsiFinDeGuion, ProtocoloTypeOK, EsiTypeOK, LineasLeidas
<1>6. CASE EsiRecibirResultado(e)
  <2>1. Recibido(coordAEsi, e) \in [Esis -> Seq(Resultados)]
    BY <1>6, RecibidoTipo DEF EsiRecibirResultado, ProtocoloTypeOK
  <2>2. pendiente[e] /\ linea[e] >= 1
    BY <1>6 DEF EsiRecibirResultado, PasarA, LineasLeidas
  <2>3. EsiTypeOK' /\ LineasLeidas'
    BY <1>6, <2>2 DEF EsiRecibirResultado, PasarA, EsiTypeOK, LineasLeidas, Fases, Ejecutando
  <2>. QED BY <1>6, <2>1, <2>3 DEF EsiRecibirResultado, ProtocoloTypeOK
<1>7. CASE EsiContestar(e)
  <2>1. "EJECUCION_CORRECTA" \in Respuestas /\ "EJECUCION_FALLO" \in Respuestas
    BY DEF Respuestas
  <2>2. CASE resultado[e] = "EJECUCION_CORRECTA"
    <3>0. esiAPlan' = Enviar(esiAPlan, e, "EJECUCION_CORRECTA") /\ UNCHANGED esiACoord
      BY <1>7, <2>2 DEF EsiContestar
    <3>1. esiAPlan' \in [Esis -> Seq(Respuestas)] /\ UNCHANGED esiACoord
      BY <2>1, <3>0, EnviarTipo DEF ProtocoloTypeOK
    <3>2. fase' = [fase EXCEPT ![e] = "contesto"]
      BY <1>7, <2>2 DEF EsiContestar, PasarA
    <3>. QED BY <1>7, <3>1, <3>2 DEF EsiContestar, ProtocoloTypeOK, EsiTypeOK, LineasLeidas,
         Fases, Ejecutando
  <2>3. CASE resultado[e] = "EJECUCION_FALLO"
    <3>1. /\ fase' \in [Esis -> Fases]
          /\ esiAPlan' \in [Esis -> Seq(Respuestas)]
          /\ esiACoord' \in [Esis -> Seq(PedidosEsi)]
          /\ fase' = [fase EXCEPT ![e] = "fin"]
      BY <1>7, <1>a, <2>1, <2>3, FinalizarTipo DEF EsiContestar
    <3>. QED BY <1>7, <3>1 DEF EsiContestar, ProtocoloTypeOK, EsiTypeOK, LineasLeidas
  <2>. QED BY <1>7, <2>2, <2>3 DEF EsiContestar
<1>8. CASE EsiFinInstruccion(e)
  BY <1>8 DEF EsiFinInstruccion, PasarA, Fases, Ejecutando, EsiTypeOK, LineasLeidas,
     ProtocoloTypeOK,
     canales
<1>9. CASE EsiCtrlC(e)
  <2>1. "DESCONEXION" \in Respuestas /\ Mensaje("DESCONEXION", NULL) \in PedidosEsi
    BY DEF Respuestas, PedidosEsi, Avisos, Mensaje
  <2>a. \/ esiAPlan' = Enviar(esiAPlan, e, "DESCONEXION") /\ UNCHANGED esiACoord
        \/ esiACoord' = Enviar(esiACoord, e, Mensaje("DESCONEXION", NULL)) /\ UNCHANGED esiAPlan
    BY <1>9 DEF EsiCtrlC
  <2>b. Enviar(esiAPlan, e, "DESCONEXION") \in [Esis -> Seq(Respuestas)]
    BY <2>1, EnviarTipo DEF ProtocoloTypeOK
  <2>c. Enviar(esiACoord, e, Mensaje("DESCONEXION", NULL)) \in [Esis -> Seq(PedidosEsi)]
    BY <2>1, EnviarTipo DEF ProtocoloTypeOK
  <2>2. /\ esiAPlan' \in [Esis -> Seq(Respuestas)]
        /\ esiACoord' \in [Esis -> Seq(PedidosEsi)]
    BY <2>a, <2>b, <2>c DEF ProtocoloTypeOK
  <2>3. fase' = [fase EXCEPT ![e] = "int_coord"] \/ fase' = [fase EXCEPT ![e] = "int_plan"]
    BY <1>9 DEF EsiCtrlC
  <2>4. /\ fase' \in [Esis -> Fases]
        /\ \A f \in Esis : fase'[f] = "espera_coord" => fase[f] = "espera_coord"
    BY <2>3 DEF EsiTypeOK, Fases
  <2>5. UNCHANGED <<guion, linea, pendiente, resultado, planAEsi, coordAEsi, coordAPlan,
                    planACoord, caida>>
    BY <1>9 DEF EsiCtrlC
  <2>. QED BY <2>2, <2>4, <2>5 DEF ProtocoloTypeOK, EsiTypeOK, LineasLeidas
<1>10. CASE EsiFinInterrupcion(e)
  <2>1. /\ fase' \in [Esis -> Fases]
        /\ esiAPlan' \in [Esis -> Seq(Respuestas)]
        /\ esiACoord' \in [Esis -> Seq(PedidosEsi)]
        /\ fase' = [fase EXCEPT ![e] = "fin"]
    BY <1>10, <1>a, FinalizarTipo DEF EsiFinInterrupcion
  <2>. QED BY <1>10, <2>1 DEF EsiFinInterrupcion, ProtocoloTypeOK, EsiTypeOK, LineasLeidas
<1>. QED BY <1>0, <1>1, <1>2, <1>3, <1>4, <1>5, <1>6, <1>7, <1>8, <1>9, <1>10

-----------------------------------------------------------------------------
\* What the ends of an operation do to the threads and to the connection.
LEMMA RespuestaTipo ==
    ASSUME ProtocoloTypeOK, CoordinadorTypeOK, NEW e \in Esis, NEW r \in Resultados,
           Cumplir(e, r) \/ Fallar(e)
    PROVE  /\ coordAEsi' \in [Esis -> Seq(Resultados)]
           /\ mutex_mensaje' = NULL
           /\ hilo' \in [Esis -> Hilos]
           /\ \A f \in Esis : hilo'[f] \in EnOperacion => hilo[f] \in EnOperacion
<1>1. CASE Cumplir(e, r)
  <2>1. Enviar(coordAEsi, e, r) \in [Esis -> Seq(Resultados)]
    BY EnviarTipo DEF ProtocoloTypeOK
  <2>2. hilo' = [hilo EXCEPT ![e] = "recibe"] /\ mutex_mensaje' = NULL
        /\ coordAEsi' = Enviar(coordAEsi, e, r)
    BY <1>1 DEF Cumplir
  <2>. QED BY <2>1, <2>2 DEF CoordinadorTypeOK, Hilos, EnOperacion
<1>2. CASE Fallar(e)
  <2>1. <<"RESULTADO_OPERACION_FALLO", "FALLO_AL_RECIBIR">> \in Seq(Resultados)
    BY DEF Resultados
  <2>2. coordAEsi[e] \o <<"RESULTADO_OPERACION_FALLO", "FALLO_AL_RECIBIR">> \in Seq(Resultados)
    BY <2>1, ConcatProperties DEF ProtocoloTypeOK
  <2>3. hilo' = [hilo EXCEPT ![e] = "fin"] /\ mutex_mensaje' = NULL
    BY <1>2 DEF Fallar
  <2>4. coordAEsi' \in [Esis -> Seq(Resultados)]
    BY <1>2, <2>2 DEF Fallar, ProtocoloTypeOK
  <2>. QED BY <2>3, <2>4 DEF CoordinadorTypeOK, Hilos, EnOperacion
<1>. QED BY <1>1, <1>2

\* Freeing mensaje_planificador leaves a header, nothing, or a freed block.
LEMMA DestruirTipo ==
    ASSUME ProtocoloTypeOK, CoordinadorTypeOK, Destruir
    PROVE  /\ mensaje_planificador' \in RespuestasSoporte \cup {"liberado", NULL}
           /\ caida' \in Caidas
BY DEF ProtocoloTypeOK, CoordinadorTypeOK, Destruir, Caidas

\* A message to soporte keeps the type of the connection.
LEMMA PedidoTipo ==
    ASSUME ProtocoloTypeOK,
           NEW h \in {"SOLICITUD_CLAVE_LIBRE", "SOLICITUD_CLAVE_BLOQUEADA_POR_ESI",
                      "BLOQUEAR_ESI", "BLOQUEAR_CLAVE_PARA_ESI_EJECUTANDO",
                      "DESBLOQUEAR_CLAVE_DEL_ESI_EJECUTANDO"},
           NEW k \in Claves
    PROVE  Append(coordAPlan, Mensaje(h, k)) \in Seq(PedidosCoord)
<1>1. Mensaje(h, k) \in PedidosCoord
  BY DEF Mensaje, PedidosCoord
<1>. QED BY <1>1, AgregarTipo DEF ProtocoloTypeOK

\* A thread that moves on while it serves a request.
LEMMA HiloTipo ==
    ASSUME CoordinadorTypeOK, PedidosServidos, NEW e \in Esis, NEW h \in EnOperacion,
           EsOperacion(e), UNCHANGED pedido, hilo' = [hilo EXCEPT ![e] = h]
    PROVE  hilo' \in [Esis -> Hilos] /\ PedidosServidos'
BY DEF CoordinadorTypeOK, PedidosServidos, EsOperacion, Hilos

\* store_clave keeps the type of registro_claves.
LEMMA EntradaFuera ==
    ASSUME CoordinadorTypeOK, NEW k
    PROVE  SinPrimeraEntrada(k) \in Seq([clave : Claves, instancia : Instancias])
<1>1. CASE Registrada(k)
  <2>1. Entradas(k) # {} /\ Entradas(k) \subseteq 1..Len(registro_claves)
    BY <1>1 DEF Registrada, Entradas, CoordinadorTypeOK
  <2>2. Min(Entradas(k)) \in 1..Len(registro_claves)
    BY <2>1, HayMinimo DEF Min
  <2>. QED BY <1>1, <2>2, RemoveAtTipo DEF SinPrimeraEntrada, CoordinadorTypeOK
<1>2. CASE ~Registrada(k)
  BY <1>2 DEF SinPrimeraEntrada, CoordinadorTypeOK
<1>. QED BY <1>1, <1>2

\* The Coordinador keeps the types.
LEMMA CoordTipos ==
    ASSUME InvTipos, CoordinadorNext
    PROVE  ProtocoloTypeOK' /\ CoordinadorTypeOK' /\ PedidosServidos'
<1>. USE DEF InvTipos, TypeOK
<1>0. CASE CoordEscucharPlanificador
  <2>1. Head(planACoord) \in RespuestasSoporte /\ Tail(planACoord) \in Seq(RespuestasSoporte)
    BY <1>0, CabezaTipo DEF CoordEscucharPlanificador, ProtocoloTypeOK
  <2>. QED BY <1>0, <2>1 DEF CoordEscucharPlanificador, ProtocoloTypeOK, CoordinadorTypeOK,
       PedidosServidos, EsOperacion
<1>a. SUFFICES ASSUME NEW e \in Esis,
         \/ CoordRecibir(e) \/ CoordDesconexion(e) \/ CoordClaveLarga(e)
         \/ CoordConsultar(e) \/ CoordPermitido(e) \/ CoordClaveBloqueada(e)
         \/ CoordClaveAjena(e) \/ CoordGuardar(e) \/ CoordSetear(e) \/ CoordStorear(e)
         \/ CoordInstanciaFalla(e) \/ CoordInstanciaCalla(e) \/ CoordOrdenEjecutada(e)
       PROVE ProtocoloTypeOK' /\ CoordinadorTypeOK' /\ PedidosServidos'
  BY <1>0 DEF CoordinadorNext
<1>b. hilo[e] \in EnOperacion => EsOperacion(e)
  BY DEF PedidosServidos
<1>c. EsOperacion(e) => pedido[e].clave \in Claves
  BY DEF EsOperacion, CoordinadorTypeOK, PedidosEsi, Avisos, Operaciones
<1>1. CASE CoordRecibir(e)
  <2>1. Head(esiACoord[e]) \in PedidosEsi /\ Recibido(esiACoord, e) \in [Esis -> Seq(PedidosEsi)]
    BY <1>1, RecibidoTipo DEF CoordRecibir, ProtocoloTypeOK
  <2>2. hilo' \in [Esis -> Hilos] /\ pedido' \in [Esis -> PedidosEsi]
    BY <1>1, <2>1 DEF CoordRecibir, CoordinadorTypeOK, Hilos
  <2>3. PedidosServidos'
    BY <1>1 DEF CoordRecibir, PedidosServidos, EnOperacion, EsOperacion, CoordinadorTypeOK
  <2>. QED BY <1>1, <2>1, <2>2, <2>3 DEF CoordRecibir, ProtocoloTypeOK, CoordinadorTypeOK
<1>2. CASE CoordDesconexion(e)
  <2>1. Enviar(coordAEsi, e, "FALLO_AL_RECIBIR") \in [Esis -> Seq(Resultados)]
    BY EnviarTipo DEF ProtocoloTypeOK, Resultados
  <2>2. hilo' \in [Esis -> Hilos] /\ PedidosServidos'
    BY <1>2 DEF CoordDesconexion, CoordinadorTypeOK, Hilos, EnOperacion, PedidosServidos,
       EsOperacion
  <2>. QED BY <1>2, <2>1, <2>2 DEF CoordDesconexion, ProtocoloTypeOK, CoordinadorTypeOK
<1>3. CASE CoordClaveLarga(e)
  <2>1. Destruir /\ Fallar(e) /\ "FALLO_AL_RECIBIR" \in Resultados
    BY <1>3 DEF CoordClaveLarga, Resultados
  <2>. QED BY <1>3, <2>1, DestruirTipo, RespuestaTipo DEF CoordClaveLarga, ProtocoloTypeOK,
       CoordinadorTypeOK, PedidosServidos, EsOperacion
<1>4. CASE CoordConsultar(e)
  <2>1. EsOperacion(e) /\ "consulta" \in EnOperacion
        /\ hilo' = [hilo EXCEPT ![e] = "consulta"] /\ UNCHANGED pedido
    BY <1>4 DEF CoordConsultar, EnOperacion
  <2>2. hilo' \in [Esis -> Hilos] /\ PedidosServidos'
    BY <2>1, HiloTipo
  <2>3. coordAPlan' \in Seq(PedidosCoord)
    BY <1>4, <1>c, <2>1, PedidoTipo DEF CoordConsultar
  <2>. QED BY <1>4, <2>2, <2>3 DEF CoordConsultar, ProtocoloTypeOK, CoordinadorTypeOK
<1>5. CASE CoordPermitido(e)
  <2>1. EsOperacion(e) /\ "instancia" \in EnOperacion
        /\ hilo' = [hilo EXCEPT ![e] = "instancia"] /\ UNCHANGED pedido
    BY <1>5, <1>b DEF CoordPermitido, EnOperacion
  <2>2. hilo' \in [Esis -> Hilos] /\ PedidosServidos'
    BY <2>1, HiloTipo
  <2>3. /\ mensaje_planificador' \in RespuestasSoporte \cup {"liberado", NULL}
        /\ caida' \in Caidas
    BY <1>5, DestruirTipo DEF CoordPermitido, ProtocoloTypeOK, CoordinadorTypeOK
  <2>4. sem_planificador' \in Nat
    BY <1>5 DEF CoordPermitido, EsperarPlanificador, CoordinadorTypeOK
  <2>. QED BY <1>5, <2>2, <2>3, <2>4 DEF CoordPermitido, ProtocoloTypeOK, CoordinadorTypeOK, canales
<1>6. CASE CoordClaveBloqueada(e)
  <2>1. EsOperacion(e) /\ "orden_esi" \in EnOperacion
        /\ hilo' = [hilo EXCEPT ![e] = "orden_esi"] /\ UNCHANGED pedido
    BY <1>6, <1>b DEF CoordClaveBloqueada, EnOperacion
  <2>2. hilo' \in [Esis -> Hilos] /\ PedidosServidos'
    BY <2>1, HiloTipo
  <2>3. coordAPlan' \in Seq(PedidosCoord)
    BY <1>6, <1>c, <2>1, PedidoTipo DEF CoordClaveBloqueada
  <2>4. sem_planificador' \in Nat /\ Destruir
    BY <1>6 DEF CoordClaveBloqueada, EsperarPlanificador, CoordinadorTypeOK
  <2>. QED BY <1>6, <2>2, <2>3, <2>4, DestruirTipo DEF CoordClaveBloqueada, ProtocoloTypeOK,
       CoordinadorTypeOK
<1>7. CASE CoordClaveAjena(e)
  <2>1. Destruir /\ Fallar(e) /\ "FALLO_AL_RECIBIR" \in Resultados
    BY <1>7 DEF CoordClaveAjena, Resultados
  <2>2. sem_planificador' \in Nat
    BY <1>7 DEF CoordClaveAjena, EsperarPlanificador, CoordinadorTypeOK
  <2>. QED BY <1>7, <2>1, <2>2, DestruirTipo, RespuestaTipo DEF CoordClaveAjena, ProtocoloTypeOK,
       CoordinadorTypeOK, PedidosServidos, EsOperacion
<1>8. CASE CoordGuardar(e)
  <2>1. EsOperacion(e) /\ "orden_clave" \in EnOperacion
        /\ hilo' = [hilo EXCEPT ![e] = "orden_clave"] /\ UNCHANGED pedido
    BY <1>8, <1>b DEF CoordGuardar, EnOperacion
  <2>2. hilo' \in [Esis -> Hilos] /\ PedidosServidos'
    BY <2>1, HiloTipo
  <2>3. coordAPlan' \in Seq(PedidosCoord)
    BY <1>8, <1>c, <2>1, PedidoTipo DEF CoordGuardar
  <2>4. registro_claves' \in Seq([clave : Claves, instancia : Instancias])
    BY <1>8, <1>c, <2>1, AgregarTipo DEF CoordGuardar, CoordinadorTypeOK
  <2>. QED BY <1>8, <2>2, <2>3, <2>4 DEF CoordGuardar, ProtocoloTypeOK, CoordinadorTypeOK
<1>9. CASE CoordSetear(e)
  <2>1. /\ Destruir
        /\ Cumplir(e, "RESULTADO_OPERACION_CORRECTA") /\ "RESULTADO_OPERACION_CORRECTA" \in Resultados
    BY <1>9 DEF CoordSetear, Resultados
  <2>. QED BY <1>9, <2>1, DestruirTipo, RespuestaTipo DEF CoordSetear, ProtocoloTypeOK,
       CoordinadorTypeOK, PedidosServidos, EsOperacion
<1>10. CASE CoordStorear(e)
  <2>1. EsOperacion(e) /\ "orden_clave" \in EnOperacion
        /\ hilo' = [hilo EXCEPT ![e] = "orden_clave"] /\ UNCHANGED pedido
    BY <1>10, <1>b DEF CoordStorear, EnOperacion
  <2>2. hilo' \in [Esis -> Hilos] /\ PedidosServidos'
    BY <2>1, HiloTipo
  <2>3. coordAPlan' \in Seq(PedidosCoord)
    BY <1>10, <1>c, <2>1, PedidoTipo DEF CoordStorear
  <2>4. registro_claves' = SinPrimeraEntrada(pedido[e].clave)
    BY <1>10 DEF CoordStorear
  <2>5. registro_claves' \in Seq([clave : Claves, instancia : Instancias])
    BY <2>4, EntradaFuera DEF CoordinadorTypeOK
  <2>. QED BY <1>10, <2>2, <2>3, <2>5 DEF CoordStorear, ProtocoloTypeOK, CoordinadorTypeOK
<1>11. CASE CoordInstanciaFalla(e)
  <2>1. Destruir /\ Fallar(e) /\ "FALLO_AL_RECIBIR" \in Resultados
    BY <1>11 DEF CoordInstanciaFalla, Resultados
  <2>. QED BY <1>11, <2>1, DestruirTipo, RespuestaTipo DEF CoordInstanciaFalla, ProtocoloTypeOK,
       CoordinadorTypeOK, PedidosServidos, EsOperacion
<1>12. CASE CoordInstanciaCalla(e)
  <2>1. EsOperacion(e) /\ "colgado" \in EnOperacion
        /\ hilo' = [hilo EXCEPT ![e] = "colgado"] /\ UNCHANGED pedido
    BY <1>12, <1>b DEF CoordInstanciaCalla, EnOperacion
  <2>2. hilo' \in [Esis -> Hilos] /\ PedidosServidos'
    BY <2>1, HiloTipo
  <2>. QED BY <1>12, <2>2 DEF CoordInstanciaCalla, ProtocoloTypeOK, CoordinadorTypeOK, canales
<1>13. CASE CoordOrdenEjecutada(e)
  <2>1. RespuestaTrasOrden(e) \in Resultados
    BY DEF RespuestaTrasOrden, Resultados
  <2>2. Destruir /\ Cumplir(e, RespuestaTrasOrden(e))
    BY <1>13 DEF CoordOrdenEjecutada
  <2>3. sem_planificador' \in Nat
    BY <1>13 DEF CoordOrdenEjecutada, EsperarPlanificador, CoordinadorTypeOK
  <2>. QED BY <1>13, <2>1, <2>2, <2>3, DestruirTipo, RespuestaTipo DEF CoordOrdenEjecutada,
       ProtocoloTypeOK, CoordinadorTypeOK, PedidosServidos, EsOperacion
<1>. QED BY <1>a, <1>1, <1>2, <1>3, <1>4, <1>5, <1>6, <1>7, <1>8, <1>9, <1>10, <1>11, <1>12, <1>13

-----------------------------------------------------------------------------
\* Moving an ESI between the lists of the Planificador.
LEMMA BloquearTipo ==
    ASSUME PlanificadorTypeOK, NEW e \in Esis, NEW k \in Claves, EjecutandoABloqueado(e, k)
    PROVE  /\ clave_bloqueante' \in [Esis -> Claves \cup {NULL}]
           /\ bloqueado' \in [Esis -> BOOLEAN]
           /\ bloqueados' \in Seq(Esis)
           /\ ejecutando' \in Seq(Esis)
<1>1. Append(bloqueados, e) \in Seq(Esis) /\ Quitar(ejecutando, e) \in Seq(Esis)
  BY AgregarTipo, QuitarTipo DEF PlanificadorTypeOK
<1>. QED BY <1>1 DEF EjecutandoABloqueado, PlanificadorTypeOK

\* Waking the first ESI that waits for a key, if there is one.
LEMMA DesbloquearTipo ==
    ASSUME PlanificadorTypeOK, NEW k, DesbloquearEsiPorClave(k)
    PROVE  /\ clave_bloqueante' \in [Esis -> Claves \cup {NULL}]
           /\ bloqueado' \in [Esis -> BOOLEAN]
           /\ bloqueados' \in Seq(Esis)
           /\ listos' \in Seq(Esis)
           /\ contador_esis' \in Nat
           /\ llego_esi_nuevo' \in BOOLEAN
           /\ Len(listos') - contador_esis' = Len(listos) - contador_esis
           /\ ToSet(listos) \subseteq ToSet(listos')
<1>1. CASE Esperando(k) = {}
  BY <1>1 DEF DesbloquearEsiPorClave, PlanificadorTypeOK, semaforos
<1>2. CASE Esperando(k) # {}
  <2>1. Esperando(k) \subseteq 1..Len(bloqueados)
    BY DEF Esperando, PlanificadorTypeOK
  <2>2. Min(Esperando(k)) \in 1..Len(bloqueados)
    BY <1>2, <2>1, HayMinimo DEF Min
  <2>. DEFINE e == bloqueados[Min(Esperando(k))]
  <2>3. e \in Esis /\ BloqueadoAListo(e)
    BY <1>2, <2>2 DEF DesbloquearEsiPorClave, PlanificadorTypeOK
  <2>. HIDE DEF e
  <2>4. /\ Append(listos, e) \in Seq(Esis) /\ Quitar(bloqueados, e) \in Seq(Esis)
        /\ Len(Append(listos, e)) = Len(listos) + 1
        /\ ToSet(listos) \subseteq ToSet(Append(listos, e))
        /\ Len(listos) \in Nat
    BY <2>3, AgregarTipo, QuitarTipo, LenProperties DEF PlanificadorTypeOK
  <2>. QED BY <2>3, <2>4 DEF BloqueadoAListo, PlanificadorTypeOK
<1>. QED BY <1>1, <1>2

\* planificar and kill begin to terminate an ESI.
LEMMA EmpezarTipo ==
    ASSUME PlanificadorTypeOK, NEW e \in Esis, NEW l \in Origenes, EmpezarTerminar(e, l)
    PROVE  /\ memoria' \in [Esis -> Memorias]
           /\ terminando' \in [paso : Pasos, victima : Esis \cup {NULL},
                               origen : Origenes, i : Nat]
           /\ terminando'.victima = e
BY DEF EmpezarTerminar, PlanificadorTypeOK, Memorias, Pasos

\* soporte serves one request.
LEMMA AtenderTipo ==
    ASSUME ProtocoloTypeOK, NEW h, NEW r \in RespuestasSoporte, Atender(h, r)
    PROVE  ProtocoloTypeOK' /\ clave_pedida \in Claves
<1>1. Head(coordAPlan) \in PedidosCoord /\ Tail(coordAPlan) \in Seq(PedidosCoord)
  BY CabezaTipo DEF Atender, ProtocoloTypeOK
<1>2. Append(planACoord, r) \in Seq(RespuestasSoporte)
  BY AgregarTipo DEF ProtocoloTypeOK
<1>3. clave_pedida \in Claves
  BY <1>1 DEF clave_pedida, PedidosCoord
<1>4. coordAPlan' = Tail(coordAPlan) /\ planACoord' = Append(planACoord, r)
      /\ UNCHANGED <<planAEsi, esiAPlan, esiACoord, coordAEsi, caida>>
  BY DEF Atender
<1>. QED BY <1>1, <1>2, <1>3, <1>4 DEF ProtocoloTypeOK

\* planificar keeps the types.
LEMMA PlanificarTipos ==
    ASSUME InvTipos, Planificar
    PROVE  ProtocoloTypeOK' /\ PlanificadorTypeOK' /\ PunterosReales'
<1>. USE DEF InvTipos, TypeOK, listas, campos, consola, canales, semaforos
<1>1. CASE PlanInicio \/ PlanRevisar \/ PlanDesalojar \/ PlanSelPausa \/ PlanPausa
  <2>1. /\ UNCHANGED <<listas, claves_bloqueadas, campos, semaforos, mutex_listas,
                       terminando, esi_a_ejecutar, consola, canales, caida>>
        /\ pc' \in Lugares /\ pc' # "espera_respuesta"
    BY <1>1 DEF PlanInicio, PlanRevisar, PlanDesalojar, PlanSelPausa, PlanPausa, Ir, Lugares
  <2>. QED BY <2>1 DEF ProtocoloTypeOK, PlanificadorTypeOK, PunterosReales
<1>2. CASE PlanElegir
  <2>1. /\ UNCHANGED <<listas, claves_bloqueadas, campos, semaforos, mutex_listas,
                       terminando, esi_a_ejecutar, consola, canales, caida>>
        /\ pc' \in Lugares /\ pc' # "espera_respuesta"
    BY <1>2 DEF PlanElegir, Ir, Lugares
  <2>. QED BY <2>1 DEF ProtocoloTypeOK, PlanificadorTypeOK, PunterosReales
<1>3. CASE PlanDesalojarMutex
  <2>1. PICK orden \in Reordenadas(listos) :
          \/ /\ listos' = orden
             /\ UNCHANGED <<ejecutando, esi_a_ejecutar>>
          \/ /\ esi_a_ejecutar' = Head(orden)
             /\ ejecutando' = Append(Quitar(ejecutando, esi_a_ejecutar), Head(orden))
             /\ listos' = Quitar(Append(orden, esi_a_ejecutar), Head(orden))
    BY <1>3 DEF PlanDesalojarMutex
  <2>2. esi_a_ejecutar \in Esis /\ listos # <<>> /\ listos \in Seq(Esis) /\ ejecutando \in Seq(Esis)
    BY <1>3 DEF PlanDesalojarMutex, DesalojarValido, PlanificadorTypeOK
  <2>3. orden \in Seq(Esis) /\ Len(orden) = Len(listos)
    BY <2>1, <2>2, ReordenadasTipo
  <2>4. orden # <<>>
    BY <2>2, <2>3, EmptySeq
  <2>5. Head(orden) \in Esis /\ Append(orden, esi_a_ejecutar) \in Seq(Esis)
    BY <2>2, <2>3, <2>4, CabezaTipo, AgregarTipo
  <2>6. /\ Quitar(Append(orden, esi_a_ejecutar), Head(orden)) \in Seq(Esis)
        /\ Quitar(ejecutando, esi_a_ejecutar) \in Seq(Esis)
    BY <2>2, <2>5, QuitarTipo
  <2>7. Append(Quitar(ejecutando, esi_a_ejecutar), Head(orden)) \in Seq(Esis)
    BY <2>5, <2>6, AgregarTipo
  <2>8. listos' \in Seq(Esis) /\ ejecutando' \in Seq(Esis) /\ esi_a_ejecutar' \in Esis
    BY <2>1, <2>2, <2>3, <2>5, <2>6, <2>7
  <2>. QED BY <1>3, <2>8 DEF PlanDesalojarMutex, Ir, Lugares, ProtocoloTypeOK, PlanificadorTypeOK,
       PunterosReales
<1>4. CASE PlanDesalojarFin \/ PlanEsperaSem
  <2>1. contador_esis' \in Nat /\ llego_esi_nuevo' \in BOOLEAN
    <3>1. CASE PlanDesalojarFin
      BY <3>1 DEF PlanDesalojarFin, PlanificadorTypeOK
    <3>2. CASE PlanEsperaSem
      BY <3>2 DEF PlanEsperaSem, PlanificadorTypeOK
    <3>. QED BY <1>4, <3>1, <3>2
  <2>2. /\ UNCHANGED <<listas, claves_bloqueadas, campos, mutex_listas,
                       terminando, esi_a_ejecutar, consola, canales, caida>>
        /\ pc' \in Lugares /\ pc' # "espera_respuesta"
    BY <1>4 DEF PlanDesalojarFin, PlanEsperaSem, Ir, Lugares
  <2>. QED BY <2>1, <2>2 DEF ProtocoloTypeOK, PlanificadorTypeOK, PunterosReales
<1>5. CASE PlanSeleccionar
  <2>1. PICK orden \in OrdenesDeSeleccion :
          esi_a_ejecutar' = Head(orden) /\ ListoAEjecutando(Head(orden), orden)
    BY <1>5 DEF PlanSeleccionar
  <2>2. listos # <<>> /\ listos \in Seq(Esis) /\ ejecutando \in Seq(Esis)
    BY <1>5 DEF PlanSeleccionar, SeleccionValida, PlanificadorTypeOK
  <2>3. orden \in Seq(Esis) /\ Len(orden) = Len(listos)
    BY <2>1, <2>2, ReordenadasTipo DEF OrdenesDeSeleccion
  <2>4. orden # <<>>
    BY <2>2, <2>3, EmptySeq
  <2>5. Head(orden) \in Esis
    BY <2>3, <2>4, CabezaTipo
  <2>6. Append(ejecutando, Head(orden)) \in Seq(Esis) /\ Quitar(orden, Head(orden)) \in Seq(Esis)
    BY <2>2, <2>3, <2>5, AgregarTipo, QuitarTipo
  <2>7. listos' \in Seq(Esis) /\ ejecutando' \in Seq(Esis) /\ esi_a_ejecutar' \in Esis
    BY <2>1, <2>5, <2>6 DEF ListoAEjecutando
  <2>. QED BY <1>5, <2>7 DEF PlanSeleccionar, Ir, Lugares, ProtocoloTypeOK, PlanificadorTypeOK,
       PunterosReales
<1>6. CASE PlanDespachar
  <2>1. esi_a_ejecutar \in Esis
    BY <1>6 DEF PlanDespachar, DespachoValido, PlanificadorTypeOK
  <2>2. Enviar(planAEsi, esi_a_ejecutar, "EJECUTAR_SCRIPTS") \in [Esis -> Seq(Ordenes)]
    BY <2>1, EnviarTipo DEF ProtocoloTypeOK, Ordenes
  <2>. QED BY <1>6, <2>1, <2>2 DEF PlanDespachar, Ir, Lugares, ProtocoloTypeOK, PlanificadorTypeOK,
       PunterosReales
<1>7. CASE PlanRespuestaCorrecta
  <2>1. esi_a_ejecutar \in Esis
    BY <1>7 DEF PlanRespuestaCorrecta, Ir, PunterosReales
  <2>2. esiAPlan' \in [Esis -> Seq(Respuestas)]
    BY <1>7, <2>1, RecibidoTipo DEF PlanRespuestaCorrecta, ProtocoloTypeOK
  <2>. QED BY <1>7, <2>2 DEF PlanRespuestaCorrecta, Ir, Lugares, ProtocoloTypeOK,
              PlanificadorTypeOK,
       PunterosReales
<1>8. CASE PlanRespuestaFinal
  <2>1. esi_a_ejecutar \in Esis /\ "ejecutando" \in Origenes
    BY <1>8 DEF PlanRespuestaFinal, PunterosReales, Origenes
  <2>2. esiAPlan' \in [Esis -> Seq(Respuestas)]
    BY <1>8, <2>1, RecibidoTipo DEF PlanRespuestaFinal, ProtocoloTypeOK
  <2>3. /\ memoria' \in [Esis -> Memorias]
        /\ terminando' \in [paso : Pasos, victima : Esis \cup {NULL},
                            origen : Origenes, i : Nat]
        /\ terminando'.victima = esi_a_ejecutar
    BY <1>8, <2>1, EmpezarTipo DEF PlanRespuestaFinal
  <2>. QED BY <1>8, <2>1, <2>2, <2>3 DEF PlanRespuestaFinal, ProtocoloTypeOK, PlanificadorTypeOK,
       PunterosReales
<1>. QED BY <1>1, <1>2, <1>3, <1>4, <1>5, <1>6, <1>7, <1>8 DEF Planificar

\* terminar_esi goes on to the next key of the victim.
LEMMA AvanzarTipo ==
    ASSUME NEW t \in [paso : Pasos, victima : Esis \cup {NULL}, origen : Origenes, i : Nat]
    PROVE  /\ [t EXCEPT !.i = @ + 1] \in [paso : Pasos, victima : Esis \cup {NULL},
                                         origen : Origenes, i : Nat]
           /\ [t EXCEPT !.i = @ + 1].victima = t.victima
           /\ [t EXCEPT !.i = @ + 1].paso = t.paso
           /\ [t EXCEPT !.i = @ + 1].origen = t.origen
OBVIOUS

\* The steps of terminar_esi keep the types.
LEMMA TerminarTipos ==
    ASSUME InvTipos, TerminarEsi
    PROVE  ProtocoloTypeOK' /\ PlanificadorTypeOK' /\ PunterosReales'
<1>. USE DEF InvTipos, TypeOK, listas, campos, consola, canales, semaforos
<1>1. CASE TerminarDesbloquear
  <2>1. DesbloquearEsiPorClave(claves_esi[terminando.victima][terminando.i])
    BY <1>1 DEF TerminarDesbloquear
  <2>2. /\ clave_bloqueante' \in [Esis -> Claves \cup {NULL}]
        /\ bloqueado' \in [Esis -> BOOLEAN]
        /\ bloqueados' \in Seq(Esis)
        /\ listos' \in Seq(Esis)
        /\ contador_esis' \in Nat
        /\ llego_esi_nuevo' \in BOOLEAN
    BY <2>1, DesbloquearTipo
  <2>3. /\ terminando' \in [paso : Pasos, victima : Esis \cup {NULL}, origen : Origenes, i : Nat]
        /\ terminando'.victima = terminando.victima /\ terminando'.paso = terminando.paso
    <3>1. terminando' = [terminando EXCEPT !.i = @ + 1]
      BY <1>1 DEF TerminarDesbloquear
    <3>. QED BY <3>1, AvanzarTipo DEF PlanificadorTypeOK
  <2>. QED BY <1>1, <2>2, <2>3 DEF TerminarDesbloquear, ProtocoloTypeOK, PlanificadorTypeOK,
       PunterosReales
<1>2. CASE TerminarEliminar
  <2>1. claves_bloqueadas' \in Seq(Claves)
    BY <1>2, QuitarTipo DEF TerminarEliminar, PlanificadorTypeOK
  <2>2. /\ terminando' \in [paso : Pasos, victima : Esis \cup {NULL}, origen : Origenes, i : Nat]
        /\ terminando'.victima = terminando.victima /\ terminando'.paso = terminando.paso
    <3>1. terminando' = [terminando EXCEPT !.i = @ + 1]
      BY <1>2 DEF TerminarEliminar
    <3>. QED BY <3>1, AvanzarTipo DEF PlanificadorTypeOK
  <2>. QED BY <1>2, <2>1, <2>2 DEF TerminarEliminar, ProtocoloTypeOK, PlanificadorTypeOK,
       PunterosReales
<1>3. CASE TerminarSiguientePaso
  <2>1. /\ terminando' \in [paso : Pasos, victima : Esis \cup {NULL}, origen : Origenes, i : Nat]
        /\ terminando'.victima = terminando.victima /\ terminando.paso \in ConVictima
    BY <1>3 DEF TerminarSiguientePaso, PlanificadorTypeOK, Pasos, ConVictima
  <2>. QED BY <1>3, <2>1 DEF TerminarSiguientePaso, ProtocoloTypeOK, PlanificadorTypeOK,
       PunterosReales
<1>4. CASE TerminarLiberar
  <2>1. terminando.victima \in Esis
    BY <1>4 DEF TerminarLiberar, PunterosReales, ConVictima
  <2>2. /\ listos' \in Seq(Esis) /\ ejecutando' \in Seq(Esis) /\ bloqueados' \in Seq(Esis)
        /\ terminados' \in Seq(Esis)
    BY <1>4, <2>1, QuitarTipo, AgregarTipo DEF TerminarLiberar, PlanificadorTypeOK
  <2>3. planAEsi' \in [Esis -> Seq(Ordenes)]
    BY <1>4, <2>1, EnviarTipo DEF TerminarLiberar, ProtocoloTypeOK, Ordenes
  <2>4. memoria' \in [Esis -> Memorias] /\ claves_esi' \in [Esis -> Seq(Claves)]
        /\ clave_bloqueante' \in [Esis -> Claves \cup {NULL}]
    BY <1>4, <2>1, EmptySeq DEF TerminarLiberar, PlanificadorTypeOK, Memorias
  <2>5. /\ terminando' \in [paso : Pasos, victima : Esis \cup {NULL}, origen : Origenes, i : Nat]
        /\ terminando'.paso \notin ConVictima
    BY <1>4 DEF TerminarLiberar, Nadie, Pasos, Origenes, ConVictima
  <2>6. mutex_listas' \in {"libre", "planificar", "consola"} /\ pc' \in Lugares
        /\ (pc' = "espera_respuesta" => pc = "espera_respuesta")
    BY <1>4 DEF TerminarLiberar, PlanificadorTypeOK, Lugares
  <2>. QED BY <1>4, <2>2, <2>3, <2>4, <2>5, <2>6 DEF TerminarLiberar, ProtocoloTypeOK,
       PlanificadorTypeOK, PunterosReales
<1>. QED BY <1>1, <1>2, <1>3, <1>4 DEF TerminarEsi

\* soporte keeps the types.
LEMMA SoporteTipos ==
    ASSUME InvTipos, Soporte
    PROVE  ProtocoloTypeOK' /\ PlanificadorTypeOK' /\ PunterosReales'
<1>. USE DEF InvTipos, TypeOK, listas, campos, consola, semaforos, hilos
<1>0. {"RESPUESTA_CLAVE_BLOQUEADA", "RESPUESTA_CLAVE_LIBRE", "ORDEN_EJECUTADA",
       "RESPUESTA_CLAVE_BLOQUEADA_POR_ESI_OK", "RESPUESTA_CLAVE_BLOQUEADA_POR_ESI_FALLO"}
         \subseteq RespuestasSoporte
  BY DEF RespuestasSoporte
<1>1. CASE SoporteClaveLibre \/ SoporteClaveDeEsi
  <2>1. ProtocoloTypeOK' /\ UNCHANGED varsPlan
    BY <1>0, <1>1, AtenderTipo DEF SoporteClaveLibre, SoporteClaveDeEsi
  <2>. QED BY <2>1 DEF varsPlan, PlanificadorTypeOK, PunterosReales
<1>2. CASE SoporteBloquearEsi
  <2>1. ProtocoloTypeOK' /\ clave_pedida \in Claves
    BY <1>0, <1>2, AtenderTipo DEF SoporteBloquearEsi
  <2>2. esi_a_ejecutar \in Esis
    BY <1>2 DEF SoporteBloquearEsi, SoporteValido, PlanificadorTypeOK
  <2>3. /\ clave_bloqueante' \in [Esis -> Claves \cup {NULL}]
        /\ bloqueado' \in [Esis -> BOOLEAN]
        /\ bloqueados' \in Seq(Esis)
        /\ ejecutando' \in Seq(Esis)
    BY <1>2, <2>1, <2>2, BloquearTipo DEF SoporteBloquearEsi
  <2>. QED BY <1>2, <2>1, <2>3 DEF SoporteBloquearEsi, PlanificadorTypeOK, PunterosReales
<1>3. CASE SoporteBloquearClave
  <2>1. ProtocoloTypeOK' /\ clave_pedida \in Claves
    BY <1>0, <1>3, AtenderTipo DEF SoporteBloquearClave
  <2>2. esi_a_ejecutar \in Esis
    BY <1>3 DEF SoporteBloquearClave, SoporteValido, PlanificadorTypeOK
  <2>3. /\ Append(claves_esi[esi_a_ejecutar], clave_pedida) \in Seq(Claves)
        /\ Append(claves_bloqueadas, clave_pedida) \in Seq(Claves)
    BY <2>1, <2>2, AgregarTipo DEF PlanificadorTypeOK
  <2>4. claves_esi' \in [Esis -> Seq(Claves)] /\ claves_bloqueadas' \in Seq(Claves)
    BY <1>3, <2>3 DEF SoporteBloquearClave, PlanificadorTypeOK
  <2>. QED BY <1>3, <2>1, <2>4 DEF SoporteBloquearClave, PlanificadorTypeOK, PunterosReales
<1>4. CASE SoporteDesbloquearClave
  <2>1. ProtocoloTypeOK' /\ clave_pedida \in Claves
    BY <1>0, <1>4, AtenderTipo DEF SoporteDesbloquearClave
  <2>2. esi_a_ejecutar \in Esis
    BY <1>4 DEF SoporteDesbloquearClave, SoporteValido, PlanificadorTypeOK
  <2>3. /\ Quitar(claves_esi[esi_a_ejecutar], clave_pedida) \in Seq(Claves)
        /\ Quitar(claves_bloqueadas, clave_pedida) \in Seq(Claves)
    BY <2>2, QuitarTipo DEF PlanificadorTypeOK
  <2>4. claves_esi' \in [Esis -> Seq(Claves)] /\ claves_bloqueadas' \in Seq(Claves)
    BY <1>4, <2>3 DEF SoporteDesbloquearClave, PlanificadorTypeOK
  <2>5. /\ clave_bloqueante' \in [Esis -> Claves \cup {NULL}]
        /\ bloqueado' \in [Esis -> BOOLEAN]
        /\ bloqueados' \in Seq(Esis)
        /\ listos' \in Seq(Esis)
        /\ contador_esis' \in Nat
        /\ llego_esi_nuevo' \in BOOLEAN
    BY <1>4, DesbloquearTipo DEF SoporteDesbloquearClave
  <2>. QED BY <1>4, <2>1, <2>4, <2>5 DEF SoporteDesbloquearClave, PlanificadorTypeOK, PunterosReales
<1>. QED BY <1>1, <1>2, <1>3, <1>4 DEF Soporte

\* The console keeps the types.
LEMMA ConsolaTipos ==
    ASSUME InvTipos, Consola
    PROVE  ProtocoloTypeOK' /\ PlanificadorTypeOK' /\ PunterosReales'
<1>. USE DEF InvTipos, TypeOK, listas, campos, consola, semaforos, hilos, canales
<1>0. ASSUME NEW c, Comando(c) PROVE comandos' \in 0..MaxComandos
  BY <1>0, PlanificadorAssumption DEF Comando, PlanificadorTypeOK
<1>1. CASE ConsolaPausar \/ ConsolaContinuar
  BY <1>1 DEF ConsolaPausar, ConsolaContinuar, ProtocoloTypeOK, PlanificadorTypeOK, PunterosReales
<1>2. CASE ConsolaSemWait
  <2>1. /\ terminando' \in [paso : Pasos, victima : Esis \cup {NULL}, origen : Origenes, i : Nat]
        /\ terminando'.paso \notin ConVictima
    BY <1>2 DEF ConsolaSemWait, Nadie, Pasos, Origenes, ConVictima
  <2>2. /\ contador_esis' \in Nat /\ mutex_listas' \in {"libre", "planificar", "consola"}
        /\ UNCHANGED <<listas, claves_bloqueadas, campos, llego_esi_nuevo, pc,
                       esi_a_ejecutar, consola, canales, caida>>
    BY <1>2 DEF ConsolaSemWait, PlanificadorTypeOK
  <2>. QED BY <2>1, <2>2 DEF ProtocoloTypeOK, PlanificadorTypeOK, PunterosReales
<1>3. ASSUME NEW e \in Esis, ConsolaKill(e)
      PROVE  ProtocoloTypeOK' /\ PlanificadorTypeOK' /\ PunterosReales'
  <2>1. PICK l \in Origenes : EmpezarTerminar(e, l)
    BY <1>3 DEF ConsolaKill, Origenes
  <2>2. /\ memoria' \in [Esis -> Memorias]
        /\ terminando' \in [paso : Pasos, victima : Esis \cup {NULL}, origen : Origenes, i : Nat]
        /\ terminando'.victima = e
    BY <2>1, EmpezarTipo
  <2>3. comandos' \in 0..MaxComandos
    BY <1>0, <1>3 DEF ConsolaKill
  <2>. QED BY <1>3, <2>2, <2>3 DEF ConsolaKill, ProtocoloTypeOK, PlanificadorTypeOK, PunterosReales
<1>4. ASSUME NEW e \in Esis, NEW k \in Claves, ConsolaBloquearEjecutando(e, k)
      PROVE  ProtocoloTypeOK' /\ PlanificadorTypeOK' /\ PunterosReales'
  <2>1. /\ clave_bloqueante' \in [Esis -> Claves \cup {NULL}]
        /\ bloqueado' \in [Esis -> BOOLEAN]
        /\ bloqueados' \in Seq(Esis)
        /\ ejecutando' \in Seq(Esis)
    BY <1>4, BloquearTipo DEF ConsolaBloquearEjecutando
  <2>2. comandos' \in 0..MaxComandos
    BY <1>0, <1>4 DEF ConsolaBloquearEjecutando
  <2>. QED BY <1>4, <2>1, <2>2 DEF ConsolaBloquearEjecutando, ProtocoloTypeOK, PlanificadorTypeOK,
       PunterosReales
<1>5. ASSUME NEW e \in Esis, NEW k \in Claves, ConsolaBloquearListo(e, k)
      PROVE  ProtocoloTypeOK' /\ PlanificadorTypeOK' /\ PunterosReales'
  <2>1. bloqueados' \in Seq(Esis) /\ listos' \in Seq(Esis)
    BY <1>5, AgregarTipo, QuitarTipo DEF ConsolaBloquearListo, PlanificadorTypeOK
  <2>2. clave_bloqueante' \in [Esis -> Claves \cup {NULL}] /\ bloqueado' \in [Esis -> BOOLEAN]
    BY <1>5 DEF ConsolaBloquearListo, PlanificadorTypeOK
  <2>3. comandos' \in 0..MaxComandos
    BY <1>0, <1>5 DEF ConsolaBloquearListo
  <2>4. /\ terminando' \in [paso : Pasos, victima : Esis \cup {NULL}, origen : Origenes, i : Nat]
        /\ terminando'.paso \notin ConVictima
    BY <1>5 DEF ConsolaBloquearListo, Nadie, Pasos, Origenes, ConVictima
  <2>. QED BY <1>5, <2>1, <2>2, <2>3, <2>4 DEF ConsolaBloquearListo, ProtocoloTypeOK,
       PlanificadorTypeOK, PunterosReales
<1>6. ASSUME NEW k \in Claves, ConsolaDesbloquear(k)
      PROVE  ProtocoloTypeOK' /\ PlanificadorTypeOK' /\ PunterosReales'
  <2>1. /\ clave_bloqueante' \in [Esis -> Claves \cup {NULL}]
        /\ bloqueado' \in [Esis -> BOOLEAN]
        /\ bloqueados' \in Seq(Esis)
        /\ listos' \in Seq(Esis)
        /\ contador_esis' \in Nat
        /\ llego_esi_nuevo' \in BOOLEAN
    BY <1>6, DesbloquearTipo DEF ConsolaDesbloquear
  <2>2. claves_bloqueadas' \in Seq(Claves)
    BY <1>6, QuitarTipo DEF ConsolaDesbloquear, PlanificadorTypeOK
  <2>3. comandos' \in 0..MaxComandos
    BY <1>0, <1>6 DEF ConsolaDesbloquear
  <2>. QED BY <1>6, <2>1, <2>2, <2>3 DEF ConsolaDesbloquear, ProtocoloTypeOK, PlanificadorTypeOK,
       PunterosReales
<1>. QED BY <1>1, <1>2, <1>3, <1>4, <1>5, <1>6 DEF Consola

\* Every step keeps the types.
LEMMA PasoTipos == InvTipos /\ [Next]_vars => InvTipos'
<1>. SUFFICES ASSUME InvTipos, [Next]_vars PROVE InvTipos'
  OBVIOUS
<1>1. CASE DePlan(PlanificadorNext)
  <2>1. ProtocoloTypeOK' /\ PlanificadorTypeOK' /\ PunterosReales'
    <3>1. CASE Planificar \/ TerminarEsi \/ Soporte \/ Consola
      BY <3>1, PlanificarTipos, TerminarTipos, SoporteTipos, ConsolaTipos
    <3>2. CASE UsoIndebido
      BY <3>2 DEF UsoIndebido, varsPlan, canales, InvTipos, TypeOK, ProtocoloTypeOK, Caidas,
         PlanificadorTypeOK, PunterosReales, listas, campos, semaforos, hilos, consola
    <3>3. ASSUME NEW e \in Esis, AgregarNuevoEsi(e)
          PROVE  ProtocoloTypeOK' /\ PlanificadorTypeOK' /\ PunterosReales'
      <4>1. listos' \in Seq(Esis) /\ contador_esis' \in Nat
        BY <3>3, AgregarTipo DEF AgregarNuevoEsi, InvTipos, TypeOK, PlanificadorTypeOK
      <4>2. bloqueado' \in [Esis -> BOOLEAN] /\ memoria' \in [Esis -> Memorias]
        BY <3>3, PlanificadorAssumption DEF AgregarNuevoEsi, InvTipos, TypeOK, PlanificadorTypeOK,
           Memorias
      <4>. QED BY <3>3, <4>1, <4>2 DEF AgregarNuevoEsi, hilos, consola, canales, InvTipos, TypeOK,
           ProtocoloTypeOK, PlanificadorTypeOK, PunterosReales
    <3>. QED BY <1>1, <3>1, <3>2, <3>3 DEF DePlan, PlanificadorNext
  <2>2. UNCHANGED <<varsEsi, varsCoord>>
    BY <1>1 DEF DePlan
  <2>. QED BY <2>1, <2>2 DEF InvTipos, TypeOK, varsEsi, varsCoord, EsiTypeOK, CoordinadorTypeOK,
       LineasLeidas, PedidosServidos, EsOperacion
<1>2. CASE DeEsi(EsiNext)
  <2>1. ProtocoloTypeOK' /\ EsiTypeOK' /\ LineasLeidas'
    BY <1>2, EsiTipos DEF DeEsi
  <2>2. UNCHANGED <<varsPlan, varsCoord>>
    BY <1>2 DEF DeEsi
  <2>. QED BY <2>1, <2>2 DEF InvTipos, TypeOK, varsPlan, varsCoord, PlanificadorTypeOK,
       CoordinadorTypeOK, PunterosReales, PedidosServidos, EsOperacion, listas, campos,
       semaforos, hilos, consola
<1>3. CASE DeCoord(CoordinadorNext)
  <2>1. ProtocoloTypeOK' /\ CoordinadorTypeOK' /\ PedidosServidos'
    BY <1>3, CoordTipos DEF DeCoord
  <2>2. UNCHANGED <<varsPlan, varsEsi>>
    BY <1>3 DEF DeCoord
  <2>. QED BY <2>1, <2>2 DEF InvTipos, TypeOK, varsPlan, varsEsi, PlanificadorTypeOK,
       EsiTypeOK, PunterosReales, LineasLeidas, listas, campos, semaforos, hilos, consola
<1>4. CASE UNCHANGED vars
  BY <1>4 DEF vars, varsPlan, varsEsi, varsCoord, canales, listas, campos, semaforos, hilos,
     consola, InvTipos, TypeOK, ProtocoloTypeOK, PlanificadorTypeOK, EsiTypeOK, CoordinadorTypeOK,
     PunterosReales, LineasLeidas, PedidosServidos, EsOperacion
<1>. QED BY <1>1, <1>2, <1>3, <1>4 DEF Next, Reposo

\* Every variable has its type in every state the system reaches.
THEOREM TiposCorrectos == Spec => []TypeOK
<1>1. Spec => []InvTipos
  BY InicioTipos, PasoTipos, PTL DEF Spec
<1>2. InvTipos => TypeOK
  BY DEF InvTipos
<1>. QED BY <1>1, <1>2, PTL

-----------------------------------------------------------------------------
(* The semaphore contador_esis counts the ready ESIs.                      *)
\* planificar owns mutex_listas exactly while it waits for an answer.
MutexDePlanificar == (pc = "espera_respuesta") <=> (mutex_listas = "planificar")

\* terminar_esi and the sem_wait that follows it run under the mutex; only kill
\* takes its victim out of listos, where it still is.
MutexDeQuienTermina ==
    /\ terminando.paso # "ninguno" => mutex_listas # "libre"
    /\ terminando.paso = "sem_wait" => mutex_listas = "consola"
    /\ terminando.paso \in ConVictima /\ terminando.origen = "listos" =>
          mutex_listas = "consola" /\ terminando.victima \in ToSet(listos)

Cuenta    == SemaforoExacto /\ MutexDePlanificar /\ MutexDeQuienTermina
InvCuenta == InvTipos /\ Cuenta

-----------------------------------------------------------------------------
\* At first nothing is ready and nobody owns the mutex.
LEMMA InicioCuenta == Init => Cuenta
<1>. SUFFICES ASSUME Init PROVE Cuenta
  OBVIOUS
<1>1. Len(listos) = 0
  BY EmptySeq DEF Init, PlanificadorInit
<1>. QED BY <1>1 DEF Init, PlanificadorInit, Nadie, Cuenta, SemaforoExacto, Reclamado, Adeudado,
     MutexDePlanificar, MutexDeQuienTermina, ConVictima

\* The facts about types that the arithmetic needs.
LEMMA Numeros ==
    ASSUME InvTipos
    PROVE  Len(listos) \in Nat /\ contador_esis \in Nat /\ listos \in Seq(Esis)
BY LenProperties DEF InvTipos, TypeOK, PlanificadorTypeOK

\* A step that only moves planificar, outside of the places that count.
LEMMA MoverCuenta ==
    ASSUME Cuenta, Reclamado' = Reclamado,
           pc # "espera_respuesta", pc' # "espera_respuesta",
           UNCHANGED <<listos, contador_esis, mutex_listas, terminando>>
    PROVE  Cuenta'
BY DEF Cuenta, SemaforoExacto, Adeudado, MutexDePlanificar, MutexDeQuienTermina

\* A step that wakes an ESI: it enters listos as the semaphore goes up.
LEMMA DespertarCuenta ==
    ASSUME InvCuenta, NEW k, DesbloquearEsiPorClave(k), pc' = pc, mutex_listas' = mutex_listas,
           terminando'.paso = terminando.paso, terminando'.origen = terminando.origen,
           terminando'.victima = terminando.victima
    PROVE  Cuenta'
<1>1. /\ Len(listos') - contador_esis' = Len(listos) - contador_esis
      /\ ToSet(listos) \subseteq ToSet(listos')
      /\ contador_esis' \in Nat /\ listos' \in Seq(Esis)
  BY DesbloquearTipo DEF InvCuenta, InvTipos, TypeOK
<1>2. Len(listos') \in Nat /\ Len(listos) \in Nat /\ contador_esis \in Nat
  BY <1>1, Numeros, LenProperties DEF InvCuenta
<1>3. SemaforoExacto'
  BY <1>1, <1>2 DEF InvCuenta, Cuenta, SemaforoExacto, Reclamado, Adeudado
<1>. QED BY <1>1, <1>3 DEF InvCuenta, Cuenta, MutexDePlanificar, MutexDeQuienTermina

\* planificar keeps the count.
LEMMA PlanificarCuenta ==
    ASSUME InvCuenta, Planificar
    PROVE  Cuenta'
<1>. USE DEF InvCuenta, listas, semaforos
<1>0. Len(listos) \in Nat /\ contador_esis \in Nat /\ listos \in Seq(Esis)
  BY Numeros
<1>1. CASE PlanInicio \/ PlanRevisar \/ PlanDesalojar \/ PlanDesalojarFin \/ PlanElegir
           \/ PlanSelPausa \/ PlanPausa
  <2>1. /\ UNCHANGED <<listos, contador_esis, mutex_listas, terminando>>
        /\ pc # "espera_respuesta" /\ pc' # "espera_respuesta"
    BY <1>1 DEF PlanInicio, PlanRevisar, PlanDesalojar, PlanDesalojarFin, PlanElegir,
       PlanSelPausa, PlanPausa, Ir
  <2>2. Reclamado' = Reclamado
    BY <1>1 DEF PlanInicio, PlanRevisar, PlanDesalojar, PlanDesalojarFin, PlanElegir,
       PlanSelPausa, PlanPausa, Ir, Reclamado
  <2>. QED BY <2>1, <2>2, MoverCuenta
<1>2. CASE PlanDesalojarMutex
  <2>1. /\ Ir("desalojar_mutex", "desalojar_fin") /\ mutex_listas = "libre"
        /\ UNCHANGED <<contador_esis, mutex_listas, terminando>>
        /\ esi_a_ejecutar \in Esis /\ listos # <<>>
    BY <1>2 DEF PlanDesalojarMutex, DesalojarValido, InvTipos, TypeOK, PlanificadorTypeOK
  <2>2. PICK orden \in Reordenadas(listos) :
          listos' = orden \/ listos' = Quitar(Append(orden, esi_a_ejecutar), Head(orden))
    BY <1>2 DEF PlanDesalojarMutex
  <2>3. orden \in Seq(Esis) /\ Len(orden) = Len(listos) /\ Len(listos) # 0
    BY <1>0, <2>1, ReordenadasTipo, EmptySeq
  <2>4. /\ Append(orden, esi_a_ejecutar) \in Seq(Esis)
        /\ Len(Append(orden, esi_a_ejecutar)) = Len(listos) + 1
        /\ Head(orden) \in ToSet(Append(orden, esi_a_ejecutar))
    <3>1. orden # <<>>
      BY <2>3, EmptySeq
    <3>2. Head(orden) \in ToSet(orden)
      BY <2>3, <3>1, CabezaTipo
    <3>3. /\ Append(orden, esi_a_ejecutar) \in Seq(Esis)
          /\ Len(Append(orden, esi_a_ejecutar)) = Len(orden) + 1
          /\ ToSet(Append(orden, esi_a_ejecutar)) = ToSet(orden) \cup {esi_a_ejecutar}
      BY <2>1, <2>3, AgregarTipo
    <3>. QED BY <2>3, <3>2, <3>3
  <2>5. Len(Quitar(Append(orden, esi_a_ejecutar), Head(orden))) = Len(listos)
    <3>1. Len(Quitar(Append(orden, esi_a_ejecutar), Head(orden)))
            = Len(Append(orden, esi_a_ejecutar)) - 1
      BY <2>4, QuitarLargo
    <3>. QED BY <1>0, <2>4, <3>1
  <2>6. Len(listos') = Len(listos)
    BY <2>2, <2>3, <2>5
  <2>. QED BY <2>1, <2>6 DEF Ir, Cuenta, SemaforoExacto, Reclamado, Adeudado,
       MutexDePlanificar, MutexDeQuienTermina, ConVictima
<1>3. CASE PlanEsperaSem
  <2>1. /\ Ir("espera_sem", "sel_pausa") /\ contador_esis' = contador_esis - 1
        /\ UNCHANGED <<listos, mutex_listas, terminando>>
    BY <1>3 DEF PlanEsperaSem
  <2>. QED BY <1>0, <2>1 DEF Ir, Cuenta, SemaforoExacto, Reclamado, Adeudado,
       MutexDePlanificar, MutexDeQuienTermina
<1>4. CASE PlanSeleccionar
  <2>1. /\ Ir("seleccionar", "pausa") /\ mutex_listas = "libre" /\ listos # <<>>
        /\ UNCHANGED <<contador_esis, mutex_listas, terminando>>
    BY <1>4 DEF PlanSeleccionar, SeleccionValida
  <2>2. PICK orden \in OrdenesDeSeleccion : listos' = Quitar(orden, Head(orden))
    BY <1>4 DEF PlanSeleccionar, ListoAEjecutando
  <2>3. orden \in Seq(Esis) /\ Len(orden) = Len(listos)
    BY <1>0, <2>2, ReordenadasTipo DEF OrdenesDeSeleccion
  <2>4. Head(orden) \in ToSet(orden)
    BY <1>0, <2>1, <2>3, CabezaTipo, EmptySeq
  <2>5. Len(listos') = Len(listos) - 1
    BY <2>2, <2>3, <2>4, QuitarLargo
  <2>. QED BY <1>0, <2>1, <2>5 DEF Ir, Cuenta, SemaforoExacto, Reclamado, Adeudado,
       MutexDePlanificar, MutexDeQuienTermina, ConVictima
<1>5. CASE PlanDespachar
  <2>1. /\ Ir("despachar", "espera_respuesta") /\ mutex_listas = "libre"
        /\ mutex_listas' = "planificar" /\ UNCHANGED <<listos, contador_esis, terminando>>
    BY <1>5 DEF PlanDespachar
  <2>. QED BY <2>1 DEF Ir, Cuenta, SemaforoExacto, Reclamado, Adeudado,
       MutexDePlanificar, MutexDeQuienTermina, ConVictima
<1>6. CASE PlanRespuestaCorrecta
  <2>1. /\ Ir("espera_respuesta", "inicio") /\ terminando = Nadie
        /\ mutex_listas' = "libre" /\ UNCHANGED <<listos, contador_esis, terminando>>
    BY <1>6 DEF PlanRespuestaCorrecta
  <2>. QED BY <2>1 DEF Ir, Nadie, Cuenta, SemaforoExacto, Reclamado, Adeudado,
       MutexDePlanificar, MutexDeQuienTermina, ConVictima
<1>7. CASE PlanRespuestaFinal
  <2>1. /\ pc = "espera_respuesta" /\ terminando = Nadie
        /\ UNCHANGED <<listos, contador_esis, pc, mutex_listas>>
        /\ terminando'.paso = "desbloquear" /\ terminando'.origen = "ejecutando"
    BY <1>7 DEF PlanRespuestaFinal, EmpezarTerminar
  <2>. QED BY <2>1 DEF Nadie, Cuenta, SemaforoExacto, Reclamado, Adeudado,
       MutexDePlanificar, MutexDeQuienTermina, ConVictima
<1>. QED BY <1>1, <1>2, <1>3, <1>4, <1>5, <1>6, <1>7 DEF Planificar

\* terminar_esi keeps the count: the ready ESI that kill takes out is owed to
\* the semaphore until the sem_wait.
LEMMA TerminarCuenta ==
    ASSUME InvCuenta, TerminarEsi
    PROVE  Cuenta'
<1>. USE DEF InvCuenta, listas, semaforos
<1>0. Len(listos) \in Nat /\ contador_esis \in Nat /\ listos \in Seq(Esis)
      /\ terminando \in [paso : Pasos, victima : Esis \cup {NULL}, origen : Origenes, i : Nat]
      /\ mutex_listas \in {"libre", "planificar", "consola"}
  BY Numeros DEF InvTipos, TypeOK, PlanificadorTypeOK
<1>1. CASE TerminarDesbloquear
  <2>1. /\ DesbloquearEsiPorClave(claves_esi[terminando.victima][terminando.i])
        /\ terminando' = [terminando EXCEPT !.i = @ + 1] /\ UNCHANGED <<mutex_listas, pc>>
    BY <1>1 DEF TerminarDesbloquear
  <2>2. /\ terminando'.paso = terminando.paso /\ terminando'.origen = terminando.origen
        /\ terminando'.victima = terminando.victima
    BY <1>0, <2>1, AvanzarTipo
  <2>. QED BY <2>1, <2>2, DespertarCuenta
<1>2. CASE TerminarEliminar
  <2>1. /\ terminando' = [terminando EXCEPT !.i = @ + 1]
        /\ UNCHANGED <<listos, contador_esis, mutex_listas, pc>>
    BY <1>2 DEF TerminarEliminar
  <2>2. /\ terminando'.paso = terminando.paso /\ terminando'.origen = terminando.origen
        /\ terminando'.victima = terminando.victima
    BY <1>0, <2>1, AvanzarTipo
  <2>. QED BY <2>1, <2>2 DEF Cuenta, SemaforoExacto, Reclamado, Adeudado,
       MutexDePlanificar, MutexDeQuienTermina
<1>3. CASE TerminarSiguientePaso
  <2>1. /\ terminando.paso \in ConVictima /\ terminando'.paso \in {"eliminar", "liberar"}
        /\ terminando'.origen = terminando.origen /\ terminando'.victima = terminando.victima
        /\ UNCHANGED <<listos, contador_esis, mutex_listas, pc>>
    BY <1>0, <1>3 DEF TerminarSiguientePaso, ConVictima
  <2>. QED BY <2>1 DEF Cuenta, SemaforoExacto, Reclamado, Adeudado,
       MutexDePlanificar, MutexDeQuienTermina, ConVictima
<1>4. CASE TerminarLiberar
  <2>1. terminando.paso = "liberar" /\ mutex_listas # "libre" /\ UNCHANGED contador_esis
    BY <1>4 DEF TerminarLiberar, Cuenta, MutexDeQuienTermina
  <2>2. CASE terminando.origen = "listos"
    <3>1. mutex_listas = "consola" /\ terminando.victima \in ToSet(listos)
      BY <2>1, <2>2 DEF Cuenta, MutexDeQuienTermina, ConVictima
    <3>2. /\ listos' = Quitar(listos, terminando.victima) /\ mutex_listas' = "consola"
          /\ terminando'.paso = "sem_wait" /\ UNCHANGED pc
      BY <1>4, <2>2, <3>1 DEF TerminarLiberar, Nadie
    <3>3. Len(listos') = Len(listos) - 1
      BY <1>0, <3>1, <3>2, QuitarLargo
    <3>. QED BY <1>0, <2>1, <3>1, <3>2, <3>3 DEF Cuenta, SemaforoExacto, Reclamado, Adeudado,
         MutexDePlanificar, MutexDeQuienTermina, ConVictima
  <2>3. CASE terminando.origen # "listos"
    <3>1. /\ listos' = listos /\ mutex_listas' = "libre" /\ terminando' = Nadie
          /\ pc' = IF mutex_listas = "planificar" THEN "inicio" ELSE pc
      BY <1>4, <2>3 DEF TerminarLiberar
    <3>. QED BY <1>0, <2>1, <3>1 DEF Nadie, Cuenta, SemaforoExacto, Reclamado, Adeudado,
         MutexDePlanificar, MutexDeQuienTermina, ConVictima
  <2>. QED BY <2>2, <2>3
<1>. QED BY <1>1, <1>2, <1>3, <1>4 DEF TerminarEsi

\* soporte keeps the count: of its orders, only the unlock touches listos.
LEMMA SoporteCuenta ==
    ASSUME InvCuenta, Soporte
    PROVE  Cuenta'
<1>. USE DEF listas, semaforos, hilos
<1>1. CASE SoporteClaveLibre \/ SoporteClaveDeEsi \/ SoporteBloquearEsi \/ SoporteBloquearClave
  <2>1. UNCHANGED <<listos, contador_esis, pc, mutex_listas, terminando>>
    BY <1>1 DEF SoporteClaveLibre, SoporteClaveDeEsi, SoporteBloquearEsi, SoporteBloquearClave,
       varsPlan
  <2>. QED BY <2>1 DEF InvCuenta, Cuenta, SemaforoExacto, Reclamado, Adeudado,
       MutexDePlanificar, MutexDeQuienTermina
<1>2. CASE SoporteDesbloquearClave
  <2>1. DesbloquearEsiPorClave(clave_pedida) /\ UNCHANGED <<pc, mutex_listas, terminando>>
    BY <1>2 DEF SoporteDesbloquearClave
  <2>. QED BY <2>1, DespertarCuenta
<1>. QED BY <1>1, <1>2 DEF Soporte

\* The console keeps the count.
LEMMA ConsolaCuenta ==
    ASSUME InvCuenta, Consola
    PROVE  Cuenta'
<1>. USE DEF InvCuenta, listas, semaforos, hilos
<1>0. Len(listos) \in Nat /\ contador_esis \in Nat /\ listos \in Seq(Esis)
  BY Numeros
<1>1. CASE ConsolaPausar \/ ConsolaContinuar
           \/ \E e \in Esis, k \in Claves : ConsolaBloquearEjecutando(e, k)
  <2>1. UNCHANGED <<listos, contador_esis, pc, mutex_listas, terminando>>
    BY <1>1 DEF ConsolaPausar, ConsolaContinuar, ConsolaBloquearEjecutando
  <2>. QED BY <2>1 DEF Cuenta, SemaforoExacto, Reclamado, Adeudado,
       MutexDePlanificar, MutexDeQuienTermina
<1>2. CASE ConsolaSemWait
  <2>1. /\ terminando.paso = "sem_wait" /\ contador_esis' = contador_esis - 1
        /\ terminando' = Nadie /\ mutex_listas' = "libre" /\ UNCHANGED <<listos, pc>>
    BY <1>2 DEF ConsolaSemWait
  <2>. QED BY <1>0, <2>1 DEF Nadie, Cuenta, SemaforoExacto, Reclamado, Adeudado,
       MutexDePlanificar, MutexDeQuienTermina, ConVictima
<1>3. ASSUME NEW e \in Esis, ConsolaKill(e) PROVE Cuenta'
  <2>1. /\ mutex_listas = "libre" /\ mutex_listas' = "consola"
        /\ UNCHANGED <<listos, contador_esis, pc>>
    BY <1>3 DEF ConsolaKill, Comando
  <2>2. /\ terminando'.paso = "desbloquear" /\ terminando'.victima = e
        /\ terminando'.origen = "listos" => e \in ToSet(listos)
    BY <1>3 DEF ConsolaKill, EmpezarTerminar
  <2>. QED BY <2>1, <2>2 DEF Cuenta, SemaforoExacto, Reclamado, Adeudado,
       MutexDePlanificar, MutexDeQuienTermina, ConVictima
<1>4. ASSUME NEW e \in Esis, NEW k \in Claves, ConsolaBloquearListo(e, k) PROVE Cuenta'
  <2>1. /\ mutex_listas = "libre" /\ mutex_listas' = "consola" /\ terminando'.paso = "sem_wait"
        /\ e \in ToSet(listos) /\ listos' = Quitar(listos, e) /\ UNCHANGED <<contador_esis, pc>>
    BY <1>4 DEF ConsolaBloquearListo, Comando, Nadie
  <2>2. Len(listos') = Len(listos) - 1
    BY <1>0, <2>1, QuitarLargo
  <2>. QED BY <1>0, <2>1, <2>2 DEF Cuenta, SemaforoExacto, Reclamado, Adeudado,
       MutexDePlanificar, MutexDeQuienTermina, ConVictima
<1>5. ASSUME NEW k \in Claves, ConsolaDesbloquear(k) PROVE Cuenta'
  <2>1. DesbloquearEsiPorClave(k) /\ UNCHANGED <<pc, mutex_listas, terminando>>
    BY <1>5 DEF ConsolaDesbloquear
  <2>. QED BY <2>1, DespertarCuenta
<1>. QED BY <1>1, <1>2, <1>3, <1>4, <1>5 DEF Consola

\* A new ESI enters listos as the semaphore goes up.
LEMMA AgregarCuenta ==
    ASSUME InvCuenta, NEW e \in Esis, AgregarNuevoEsi(e)
    PROVE  Cuenta'
<1>0. Len(listos) \in Nat /\ contador_esis \in Nat /\ listos \in Seq(Esis)
  BY Numeros DEF InvCuenta
<1>1. /\ mutex_listas = "libre" /\ listos' = Append(listos, e)
      /\ contador_esis' = contador_esis + 1 /\ UNCHANGED <<pc, mutex_listas, terminando>>
  BY DEF AgregarNuevoEsi, hilos
<1>2. Len(listos') = Len(listos) + 1
  BY <1>0, <1>1, AgregarTipo
<1>. QED BY <1>0, <1>1, <1>2 DEF InvCuenta, Cuenta, SemaforoExacto, Reclamado, Adeudado,
     MutexDePlanificar, MutexDeQuienTermina, ConVictima

\* Every step keeps the count.
LEMMA PasoCuenta == InvCuenta /\ [Next]_vars => InvCuenta'
<1>. SUFFICES ASSUME InvCuenta, [Next]_vars PROVE InvCuenta'
  OBVIOUS
<1>1. InvTipos'
  BY PasoTipos DEF InvCuenta
<1>2. CASE DePlan(PlanificadorNext)
  <2>1. CASE Planificar \/ TerminarEsi \/ Soporte \/ Consola
    BY <1>1, <2>1, PlanificarCuenta, TerminarCuenta, SoporteCuenta, ConsolaCuenta DEF InvCuenta
  <2>2. CASE \E e \in Esis : AgregarNuevoEsi(e)
    BY <1>1, <2>2, AgregarCuenta DEF InvCuenta
  <2>3. CASE UsoIndebido
    <3>1. UNCHANGED <<listos, contador_esis, pc, mutex_listas, terminando>>
      BY <2>3 DEF UsoIndebido, varsPlan, listas, semaforos, hilos
    <3>. QED BY <1>1, <3>1 DEF InvCuenta, Cuenta, SemaforoExacto, Reclamado, Adeudado,
         MutexDePlanificar, MutexDeQuienTermina
  <2>. QED BY <1>2, <2>1, <2>2, <2>3 DEF DePlan, PlanificadorNext
<1>3. CASE DeEsi(EsiNext) \/ DeCoord(CoordinadorNext) \/ UNCHANGED vars
  <2>1. UNCHANGED <<listos, contador_esis, pc, mutex_listas, terminando>>
    BY <1>3 DEF DeEsi, DeCoord, vars, varsPlan, listas, semaforos, hilos
  <2>. QED BY <1>1, <2>1 DEF InvCuenta, Cuenta, SemaforoExacto, Reclamado, Adeudado,
       MutexDePlanificar, MutexDeQuienTermina
<1>. QED BY <1>2, <1>3 DEF Next, Reposo

\* The semaphore counts the ready ESIs, up to the one planificar has claimed
\* and the one kill or bloquear owes, in every state the system reaches.
THEOREM SemaforoCuenta == Spec => []SemaforoExacto
<1>1. Init => InvCuenta
  BY InicioTipos, InicioCuenta DEF InvCuenta
<1>2. Spec => []InvCuenta
  BY <1>1, PasoCuenta, PTL DEF Spec
<1>3. InvCuenta => SemaforoExacto
  BY DEF InvCuenta, Cuenta
<1>. QED BY <1>2, <1>3, PTL

------------------------------------------------------------------------------
(***************************************************************************)
(* The round trip of an instruction through the three processes.           *)
(***************************************************************************)

EnEspera == {"consulta", "orden_clave", "orden_esi"}
DeConsulta == {"SOLICITUD_CLAVE_LIBRE", "SOLICITUD_CLAVE_BLOQUEADA_POR_ESI"}

\* The mutex belongs to the thread that serves an operation.
UnaOperacion == \A e \in Esis : hilo[e] \in EnOperacion <=> mutex_mensaje = e

\* What is under way between the Coordinador and soporte.
NadaEnVuelo == coordAPlan = <<>> /\ planACoord = <<>> /\ sem_planificador = 0
PedidoEnVuelo(e) ==
    /\ planACoord = <<>> /\ sem_planificador = 0
    /\ \E m \in PedidosCoord :
          /\ coordAPlan = <<m>> /\ m.clave = pedido[e].clave
          /\ m.head \in DeConsulta <=> hilo[e] = "consulta"
RespuestaEnVuelo(e) ==
    /\ coordAPlan = <<>> /\ sem_planificador = 0
    /\ \E r \in RespuestasSoporte :
          planACoord = <<r>> /\ (r = "ORDEN_EJECUTADA" <=> hilo[e] # "consulta")
RespuestaDejada(e) ==
    /\ coordAPlan = <<>> /\ planACoord = <<>> /\ sem_planificador = 1
    /\ mensaje_planificador = "ORDEN_EJECUTADA" <=> hilo[e] # "consulta"

SoporteEnVuelo ==
    /\ (\A e \in Esis : hilo[e] \notin EnEspera) => NadaEnVuelo
    /\ \A e \in Esis : hilo[e] \in EnEspera =>
          PedidoEnVuelo(e) \/ RespuestaEnVuelo(e) \/ RespuestaDejada(e)

InvSoporte == InvCuenta /\ UnaOperacion /\ SoporteEnVuelo

-----------------------------------------------------------------------------
\* Connections with one message or two.
LEMMA DosMensajes == ASSUME NEW m, NEW n PROVE <<m>> \o <<n>> = <<m, n>>
<1> DEFINE S == {m, n}
<1>1. <<m>> \in Seq(S) /\ <<n>> \in Seq(S) /\ <<m, n>> \in Seq(S)
  OBVIOUS
<1>2. Len(<<m>>) = 1 /\ Len(<<n>>) = 1 /\ Len(<<m, n>>) = 2 /\ <<m>>[1] = m /\ <<n>>[1] = n
      /\ <<m, n>>[1] = m /\ <<m, n>>[2] = n
  OBVIOUS
<1>3. /\ <<m>> \o <<n>> \in Seq(S) /\ Len(<<m>> \o <<n>>) = 2
      /\ (<<m>> \o <<n>>)[1] = m /\ (<<m>> \o <<n>>)[2] = n
  BY <1>1, <1>2, ConcatProperties
<1>4. \A i \in 1..2 : (<<m>> \o <<n>>)[i] = <<m, n>>[i]
  BY <1>2, <1>3
<1> DEFINE s == <<m>> \o <<n>>
           t == <<m, n>>
<1>5. s \in Seq(S) /\ t \in Seq(S) /\ Len(s) = Len(t) /\ \A i \in 1..Len(s) : s[i] = t[i]
  BY <1>1, <1>2, <1>3, <1>4
<1> HIDE DEF s, t, S
<1>6. s = t
  BY <1>5, SeqEqual
<1>. QED BY <1>6 DEF s, t

LEMMA Mensajes ==
    /\ \A m : /\ Append(<<>>, m) = <<m>> /\ Head(<<m>>) = m /\ Tail(<<m>>) = <<>>
              /\ <<m>> # <<>> /\ <<>> \o <<m>> = <<m>>
    /\ \A m, n : /\ Head(<<m, n>>) = m /\ Tail(<<m, n>>) = <<n>> /\ <<m, n>> # <<>>
                 /\ <<m>> \o <<n>> = <<m, n>> /\ <<>> \o <<m, n>> = <<m, n>>
    /\ <<>> \o <<>> = <<>>
<1>1. \A m : /\ Append(<<>>, m) = <<m>> /\ Head(<<m>>) = m /\ Tail(<<m>>) = <<>>
             /\ <<m>> # <<>> /\ <<>> \o <<m>> = <<m>>
  OBVIOUS
<1>2. \A m, n : /\ Head(<<m, n>>) = m /\ Tail(<<m, n>>) = <<n>> /\ <<m, n>> # <<>>
                /\ <<>> \o <<m, n>> = <<m, n>>
  OBVIOUS
<1>3. <<>> \o <<>> = <<>>
  OBVIOUS
<1>. QED BY <1>1, <1>2, <1>3, DosMensajes

\* The step of another process leaves what is under way as it is.
LEMMA SoporteAjeno ==
    ASSUME InvSoporte,
           UNCHANGED <<hilo, pedido, mutex_mensaje, mensaje_planificador, sem_planificador,
                       coordAPlan, planACoord>>
    PROVE  UnaOperacion' /\ SoporteEnVuelo'
BY DEF InvSoporte, UnaOperacion, SoporteEnVuelo, NadaEnVuelo, PedidoEnVuelo, RespuestaEnVuelo,
   RespuestaDejada

\* soporte answers the one request there is, in kind.
LEMMA SoporteResponde ==
    ASSUME InvSoporte, Soporte, UNCHANGED varsCoord
    PROVE  UnaOperacion' /\ SoporteEnVuelo'
<1>1. PICK r \in RespuestasSoporte :
        /\ coordAPlan # <<>> /\ coordAPlan' = Tail(coordAPlan)
        /\ planACoord' = Append(planACoord, r)
        /\ r = "ORDEN_EJECUTADA" <=> Head(coordAPlan).head \notin DeConsulta
  BY DEF Soporte, SoporteClaveLibre, SoporteBloquearEsi, SoporteBloquearClave,
     SoporteClaveDeEsi, SoporteDesbloquearClave, Atender, RespuestasSoporte, DeConsulta
<1>2. UNCHANGED <<hilo, pedido, mutex_mensaje, mensaje_planificador, sem_planificador>>
  BY DEF varsCoord
<1>3. ASSUME NEW e \in Esis, hilo[e] \in EnEspera PROVE RespuestaEnVuelo(e)'
  <2>1. PedidoEnVuelo(e)
    BY <1>1, <1>3 DEF InvSoporte, SoporteEnVuelo, RespuestaEnVuelo, RespuestaDejada
  <2>. QED BY <1>1, <1>2, <2>1, Mensajes DEF PedidoEnVuelo, RespuestaEnVuelo
<1>4. \E e \in Esis : hilo[e] \in EnEspera
  BY <1>1 DEF InvSoporte, SoporteEnVuelo, NadaEnVuelo
<1>. QED BY <1>2, <1>3, <1>4 DEF InvSoporte, UnaOperacion, SoporteEnVuelo

\* A thread that ends its operation, or begins one with no other in course.
LEMMA SoporteLibre ==
    ASSUME InvSoporte, NEW e \in Esis, NEW h \in Hilos \ EnOperacion,
           hilo' = [hilo EXCEPT ![e] = h], mutex_mensaje' = NULL,
           hilo[e] \in EnOperacion \/ mutex_mensaje = NULL,
           coordAPlan' = <<>>, planACoord' = <<>>, sem_planificador' = 0
    PROVE  UnaOperacion' /\ SoporteEnVuelo'
<1>1. hilo \in [Esis -> Hilos] /\ mutex_mensaje \in Esis \cup {NULL} /\ NULL \notin Esis
  BY ProtocoloAssumption DEF InvSoporte, InvCuenta, InvTipos, TypeOK, CoordinadorTypeOK
<1>2. \A f \in Esis : f # e => hilo[f] \notin EnOperacion
  BY <1>1 DEF InvSoporte, UnaOperacion
<1>3. \A f \in Esis : hilo'[f] \notin EnOperacion
  BY <1>1, <1>2
<1>4. \A f \in Esis : hilo'[f] \notin EnEspera
  BY <1>3 DEF EnEspera, EnOperacion
<1>. QED BY <1>1, <1>3, <1>4 DEF UnaOperacion, SoporteEnVuelo, NadaEnVuelo

\* A thread that sends soporte a request, or waits for an instance.
LEMMA SoporteSigue ==
    ASSUME InvSoporte, NEW e \in Esis, NEW h \in EnOperacion,
           hilo' = [hilo EXCEPT ![e] = h], mutex_mensaje' = e,
           hilo[e] \in EnOperacion \/ mutex_mensaje = NULL,
           h \in EnEspera => PedidoEnVuelo(e)',
           h \notin EnEspera => NadaEnVuelo'
    PROVE  UnaOperacion' /\ SoporteEnVuelo'
<1>1. hilo \in [Esis -> Hilos] /\ mutex_mensaje \in Esis \cup {NULL} /\ NULL \notin Esis
  BY ProtocoloAssumption DEF InvSoporte, InvCuenta, InvTipos, TypeOK, CoordinadorTypeOK
<1>2. \A f \in Esis : f # e => hilo[f] \notin EnOperacion
  BY <1>1 DEF InvSoporte, UnaOperacion
<1>3. hilo'[e] = h /\ \A f \in Esis : f # e => hilo'[f] \notin EnOperacion
  BY <1>1, <1>2
<1>4. \A f \in Esis : f # e => hilo'[f] \notin EnEspera
  BY <1>3 DEF EnEspera, EnOperacion
<1>. QED BY <1>1, <1>3, <1>4 DEF UnaOperacion, SoporteEnVuelo

\* A thread of the Coordinador takes the answer to its own request.
LEMMA CoordSoporte ==
    ASSUME InvSoporte, CoordinadorNext
    PROVE  UnaOperacion' /\ SoporteEnVuelo'
<1>0. /\ hilo \in [Esis -> Hilos] /\ mutex_mensaje \in Esis \cup {NULL} /\ NULL \notin Esis
      /\ sem_planificador \in Nat /\ pedido \in [Esis -> PedidosEsi]
  BY ProtocoloAssumption DEF InvSoporte, InvCuenta, InvTipos, TypeOK, CoordinadorTypeOK
<1>a. \A f \in Esis : hilo[f] \in EnEspera => hilo[f] \in EnOperacion
  BY DEF EnEspera, EnOperacion
<1>1. CASE CoordEscucharPlanificador
  <2>1. planACoord # <<>> /\ mensaje_planificador' = Head(planACoord)
        /\ planACoord' = Tail(planACoord) /\ sem_planificador' = sem_planificador + 1
        /\ UNCHANGED <<hilo, pedido, mutex_mensaje, coordAPlan>>
    BY <1>1 DEF CoordEscucharPlanificador
  <2>2. ASSUME NEW e \in Esis, hilo[e] \in EnEspera PROVE RespuestaDejada(e)'
    <3>1. RespuestaEnVuelo(e)
      BY <2>1, <2>2 DEF InvSoporte, SoporteEnVuelo, PedidoEnVuelo, RespuestaDejada
    <3>. QED BY <2>1, <3>1, Mensajes DEF RespuestaDejada, RespuestaEnVuelo
  <2>3. \E e \in Esis : hilo[e] \in EnEspera
    BY <2>1 DEF InvSoporte, SoporteEnVuelo, NadaEnVuelo
  <2>. QED BY <2>1, <2>2, <2>3 DEF InvSoporte, UnaOperacion, SoporteEnVuelo
<1>b. SUFFICES ASSUME NEW e \in Esis,
         \/ CoordRecibir(e) \/ CoordDesconexion(e) \/ CoordClaveLarga(e)
         \/ CoordConsultar(e) \/ CoordPermitido(e) \/ CoordClaveBloqueada(e)
         \/ CoordClaveAjena(e) \/ CoordGuardar(e) \/ CoordSetear(e) \/ CoordStorear(e)
         \/ CoordInstanciaFalla(e) \/ CoordInstanciaCalla(e) \/ CoordOrdenEjecutada(e)
       PROVE UnaOperacion' /\ SoporteEnVuelo'
  BY <1>1 DEF CoordinadorNext
<1>c. mutex_mensaje = NULL \/ hilo[e] \in EnOperacion =>
         \A f \in Esis : f # e => hilo[f] \notin EnOperacion
  BY <1>0 DEF InvSoporte, UnaOperacion
<1>d. mutex_mensaje = NULL \/ hilo[e] \in EnOperacion \ EnEspera => NadaEnVuelo
  BY <1>0, <1>a, <1>c DEF InvSoporte, UnaOperacion, SoporteEnVuelo
<1>e. hilo[e] \in EnEspera /\ sem_planificador > 0 => RespuestaDejada(e)
  BY DEF InvSoporte, SoporteEnVuelo, PedidoEnVuelo, RespuestaEnVuelo
<1>f. hilo[e] \in EnOperacion => mutex_mensaje = e
  BY DEF InvSoporte, UnaOperacion
<1>g. EsOperacion(e) => pedido[e].clave \in Claves
  BY <1>0 DEF EsOperacion, PedidosEsi, Avisos, Operaciones
<1>h. hilo[e] \in EnOperacion => EsOperacion(e)
  BY DEF InvSoporte, InvCuenta, InvTipos, PedidosServidos
<1>2. CASE CoordRecibir(e)
  <2>1. /\ hilo[e] = "recibe" /\ hilo' = [hilo EXCEPT ![e] = "mutex"]
        /\ \A f \in Esis : f # e => pedido'[f] = pedido[f]
        /\ UNCHANGED <<mutex_mensaje, mensaje_planificador, sem_planificador, coordAPlan,
                       planACoord>>
    BY <1>0, <1>2 DEF CoordRecibir
  <2>2. \A f \in Esis : f # e => hilo'[f] = hilo[f]
    BY <1>0, <2>1
  <2>3. hilo'[e] \notin EnOperacion \cup EnEspera /\ hilo[e] \notin EnOperacion \cup EnEspera
    BY <1>0, <2>1 DEF EnOperacion, EnEspera
  <2>4. UnaOperacion'
    BY <2>1, <2>2, <2>3 DEF InvSoporte, UnaOperacion
  <2>5. ASSUME NEW f \in Esis, hilo'[f] \in EnEspera
        PROVE  (PedidoEnVuelo(f) \/ RespuestaEnVuelo(f) \/ RespuestaDejada(f))'
    <3>1. f # e /\ pedido'[f] = pedido[f] /\ hilo'[f] = hilo[f]
      BY <2>1, <2>2, <2>3, <2>5
    <3>2. PedidoEnVuelo(f) \/ RespuestaEnVuelo(f) \/ RespuestaDejada(f)
      BY <2>5, <3>1 DEF InvSoporte, SoporteEnVuelo
    <3>. QED BY <2>1, <3>1, <3>2 DEF PedidoEnVuelo, RespuestaEnVuelo, RespuestaDejada
  <2>6. (\A f \in Esis : hilo'[f] \notin EnEspera) => NadaEnVuelo'
    BY <2>1, <2>2, <2>3 DEF InvSoporte, SoporteEnVuelo, NadaEnVuelo
  <2>. QED BY <2>4, <2>5, <2>6 DEF SoporteEnVuelo
<1>3. CASE CoordDesconexion(e)
  <2>1. /\ mutex_mensaje = NULL /\ hilo' = [hilo EXCEPT ![e] = "fin"]
        /\ UNCHANGED <<mutex_mensaje, sem_planificador, coordAPlan, planACoord>>
    BY <1>3 DEF CoordDesconexion
  <2>. QED BY <1>d, <2>1, SoporteLibre DEF NadaEnVuelo, Hilos, EnOperacion
<1>4. CASE CoordClaveLarga(e)
  <2>1. /\ mutex_mensaje = NULL /\ hilo' = [hilo EXCEPT ![e] = "fin"] /\ mutex_mensaje' = NULL
        /\ UNCHANGED <<sem_planificador, coordAPlan, planACoord>>
    BY <1>4 DEF CoordClaveLarga, Fallar
  <2>. QED BY <1>d, <2>1, SoporteLibre DEF NadaEnVuelo, Hilos, EnOperacion
<1>5. CASE CoordConsultar(e)
  <2>1. /\ mutex_mensaje = NULL /\ hilo' = [hilo EXCEPT ![e] = "consulta"] /\ mutex_mensaje' = e
        /\ EsOperacion(e) /\ UNCHANGED <<pedido, sem_planificador, planACoord>>
    BY <1>5 DEF CoordConsultar
  <2>2. PICK h \in DeConsulta : coordAPlan' = Append(coordAPlan, Mensaje(h, pedido[e].clave))
    BY <1>5 DEF CoordConsultar, DeConsulta
  <2>3. Mensaje(h, pedido[e].clave) \in PedidosCoord
    BY <1>g, <2>1 DEF Mensaje, PedidosCoord, DeConsulta
  <2>4. coordAPlan' = <<Mensaje(h, pedido[e].clave)>>
    BY <1>d, <2>1, <2>2, Mensajes DEF NadaEnVuelo
  <2>5. PedidoEnVuelo(e)'
    BY <1>0, <1>d, <2>1, <2>3, <2>4 DEF PedidoEnVuelo, NadaEnVuelo, Mensaje
  <2>. QED BY <2>1, <2>5, SoporteSigue DEF EnOperacion, EnEspera
<1>6. CASE CoordPermitido(e)
  <2>1. /\ hilo[e] = "consulta" /\ hilo' = [hilo EXCEPT ![e] = "instancia"]
        /\ sem_planificador > 0 /\ sem_planificador' = sem_planificador - 1
        /\ UNCHANGED <<mutex_mensaje, coordAPlan, planACoord>>
    BY <1>6 DEF CoordPermitido, EsperarPlanificador, canales
  <2>2. NadaEnVuelo' /\ mutex_mensaje' = e
    BY <1>e, <1>f, <2>1 DEF RespuestaDejada, NadaEnVuelo, EnEspera, EnOperacion
  <2>. QED BY <2>1, <2>2, SoporteSigue DEF EnOperacion, EnEspera
<1>7. CASE CoordClaveBloqueada(e) \/ CoordGuardar(e) \/ CoordStorear(e)
  <2>1. PICK h \in EnEspera \ {"consulta"}, x \in {"BLOQUEAR_ESI",
               "BLOQUEAR_CLAVE_PARA_ESI_EJECUTANDO", "DESBLOQUEAR_CLAVE_DEL_ESI_EJECUTANDO"} :
          /\ hilo' = [hilo EXCEPT ![e] = h]
          /\ coordAPlan' = Append(coordAPlan, Mensaje(x, pedido[e].clave))
          /\ hilo[e] \in EnOperacion
          /\ UNCHANGED <<pedido, mutex_mensaje, planACoord>>
    BY <1>7 DEF CoordClaveBloqueada, CoordGuardar, CoordStorear, EnEspera, EnOperacion
  <2>2. coordAPlan = <<>> /\ planACoord = <<>> /\ sem_planificador' = 0
    <3>1. CASE CoordClaveBloqueada(e)
      BY <1>e, <3>1 DEF CoordClaveBloqueada, EsperarPlanificador, RespuestaDejada, EnEspera
    <3>2. CASE CoordGuardar(e) \/ CoordStorear(e)
      BY <1>d, <3>2 DEF CoordGuardar, CoordStorear, NadaEnVuelo, EnEspera, EnOperacion
    <3>. QED BY <1>7, <3>1, <3>2
  <2>3. Mensaje(x, pedido[e].clave) \in PedidosCoord
    BY <1>g, <1>h, <2>1 DEF Mensaje, PedidosCoord
  <2>4. coordAPlan' = <<Mensaje(x, pedido[e].clave)>>
    BY <2>1, <2>2, Mensajes
  <2>5. PedidoEnVuelo(e)'
    BY <1>0, <2>1, <2>2, <2>3, <2>4 DEF PedidoEnVuelo, Mensaje, DeConsulta
  <2>6. h \in EnOperacion /\ h \in EnEspera
    BY <2>1 DEF EnOperacion, EnEspera
  <2>. QED BY <1>f, <2>1, <2>5, <2>6, SoporteSigue
<1>8. CASE CoordClaveAjena(e) \/ CoordOrdenEjecutada(e)
  <2>1. /\ hilo[e] \in EnEspera
        /\ hilo' = [hilo EXCEPT ![e] = "fin"] \/ hilo' = [hilo EXCEPT ![e] = "recibe"]
        /\ mutex_mensaje' = NULL /\ sem_planificador > 0
        /\ sem_planificador' = sem_planificador - 1 /\ UNCHANGED <<coordAPlan, planACoord>>
    BY <1>8 DEF CoordClaveAjena, CoordOrdenEjecutada, EsperarPlanificador, Fallar, Cumplir, EnEspera
  <2>2. coordAPlan' = <<>> /\ planACoord' = <<>> /\ sem_planificador' = 0
    BY <1>e, <2>1 DEF RespuestaDejada
  <2>. QED BY <1>a, <2>1, <2>2, SoporteLibre DEF Hilos, EnOperacion
<1>9. CASE CoordSetear(e) \/ CoordInstanciaFalla(e)
  <2>1. /\ hilo[e] = "instancia"
        /\ hilo' = [hilo EXCEPT ![e] = "fin"] \/ hilo' = [hilo EXCEPT ![e] = "recibe"]
        /\ mutex_mensaje' = NULL /\ UNCHANGED <<sem_planificador, coordAPlan, planACoord>>
    BY <1>9 DEF CoordSetear, CoordInstanciaFalla, Fallar, Cumplir
  <2>2. NadaEnVuelo /\ hilo[e] \in EnOperacion
    BY <1>d, <2>1 DEF EnOperacion, EnEspera
  <2>. QED BY <2>1, <2>2, SoporteLibre DEF Hilos, EnOperacion, NadaEnVuelo
<1>10. CASE CoordInstanciaCalla(e)
  <2>1. /\ hilo[e] = "instancia" /\ hilo' = [hilo EXCEPT ![e] = "colgado"]
        /\ UNCHANGED <<mutex_mensaje, sem_planificador, coordAPlan, planACoord>>
    BY <1>10 DEF CoordInstanciaCalla, canales
  <2>2. NadaEnVuelo /\ hilo[e] \in EnOperacion
    BY <1>d, <2>1 DEF EnOperacion, EnEspera
  <2>. QED BY <1>f, <2>1, <2>2, SoporteSigue DEF EnOperacion, EnEspera, NadaEnVuelo
<1>. QED BY <1>b, <1>2, <1>3, <1>4, <1>5, <1>6, <1>7, <1>8, <1>9, <1>10

\* The answers of soporte keep their way through every step.
LEMMA PasoSoporte == InvSoporte /\ [Next]_vars => InvSoporte'
<1>. SUFFICES ASSUME InvSoporte, [Next]_vars PROVE InvSoporte'
  OBVIOUS
<1>1. InvCuenta'
  BY PasoCuenta DEF InvSoporte
<1>2. CASE DePlan(PlanificadorNext)
  <2>1. UNCHANGED varsCoord
    BY <1>2 DEF DePlan
  <2>2. CASE Soporte
    BY <1>1, <2>1, <2>2, SoporteResponde DEF InvSoporte
  <2>3. CASE Planificar \/ TerminarEsi \/ Consola \/ UsoIndebido \/ \E e \in Esis : AgregarNuevoEsi(e)
    <3>1. UNCHANGED <<coordAPlan, planACoord>>
      BY <2>3 DEF Planificar, PlanInicio, PlanRevisar, PlanDesalojar, PlanDesalojarMutex,
         PlanDesalojarFin, PlanElegir, PlanEsperaSem, PlanSelPausa, PlanSeleccionar, PlanPausa,
         PlanDespachar, PlanRespuestaCorrecta, PlanRespuestaFinal, TerminarEsi,
         TerminarDesbloquear, TerminarEliminar, TerminarSiguientePaso, TerminarLiberar,
         Consola, ConsolaPausar, ConsolaContinuar, ConsolaSemWait, ConsolaKill,
         ConsolaBloquearEjecutando, ConsolaBloquearListo, ConsolaDesbloquear,
         UsoIndebido, AgregarNuevoEsi, canales
    <3>. QED BY <1>1, <2>1, <3>1, SoporteAjeno DEF InvSoporte, varsCoord
  <2>. QED BY <1>2, <2>2, <2>3 DEF DePlan, PlanificadorNext
<1>3. CASE DeEsi(EsiNext)
  <2>1. UNCHANGED <<coordAPlan, planACoord>>
    BY <1>3 DEF DeEsi, EsiNext, EsiRecibirOrden, EsiEmpezar, EsiPedirOperacion, EsiLineaInvalida,
       EsiFinDeGuion, EsiRecibirResultado, EsiContestar, EsiFinInstruccion, EsiCtrlC,
       EsiFinInterrupcion, canales
  <2>. QED BY <1>1, <1>3, <2>1, SoporteAjeno DEF DeEsi, varsCoord, InvSoporte
<1>4. CASE DeCoord(CoordinadorNext)
  BY <1>1, <1>4, CoordSoporte DEF DeCoord, InvSoporte
<1>5. CASE UNCHANGED vars
  BY <1>1, <1>5, SoporteAjeno DEF vars, varsCoord, canales, InvSoporte
<1>. QED BY <1>2, <1>3, <1>4, <1>5 DEF Next, Reposo

LEMMA InicioSoporte == Init => InvSoporte
<1>. SUFFICES ASSUME Init PROVE InvSoporte
  OBVIOUS
<1>1. InvCuenta
  BY InicioTipos, InicioCuenta DEF InvCuenta
<1>2. UnaOperacion /\ SoporteEnVuelo
  BY ProtocoloAssumption DEF Init, ProtocoloInit, CoordinadorInit, UnaOperacion, SoporteEnVuelo,
     NadaEnVuelo, EnOperacion, EnEspera
<1>. QED BY <1>1, <1>2 DEF InvSoporte

\* A thread of the Coordinador reads the answer to its own request, from a
\* message and a semaphore that all of them share.
THEOREM RespuestaDeSoporte == Spec => []RespuestaPropia
<1>1. ASSUME InvSoporte PROVE RespuestaPropia
  <2>1. EsperaSoporte = {e \in Esis : hilo[e] \in EnEspera}
    BY DEF EsperaSoporte, EnEspera
  <2>2. CASE EsperaSoporte = {}
    <3>1. NadaEnVuelo
      BY <1>1, <2>1, <2>2 DEF InvSoporte, SoporteEnVuelo
    <3>2. Cardinality(EsperaSoporte) = 0
      BY <2>2, FS_EmptySet
    <3>3. Len(coordAPlan) = 0 /\ Len(planACoord) = 0
      BY <3>1, EmptySeq DEF NadaEnVuelo
    <3>. QED BY <2>2, <3>1, <3>2, <3>3 DEF RespuestaPropia, NadaEnVuelo
  <2>3. ASSUME NEW e \in EsperaSoporte PROVE RespuestaPropia
    <3>1. EsperaSoporte = {e}
      <4>1. \A f \in EsperaSoporte : hilo[f] \in EnOperacion
        BY DEF EsperaSoporte, EnOperacion
      <4>. QED BY <1>1, <2>3, <4>1 DEF InvSoporte, UnaOperacion, EsperaSoporte
    <3>2. Cardinality(EsperaSoporte) = 1
      BY <3>1, FS_Singleton
    <3>3. PedidoEnVuelo(e) \/ RespuestaEnVuelo(e) \/ RespuestaDejada(e)
      BY <1>1, <2>1, <2>3 DEF InvSoporte, SoporteEnVuelo
    <3>4. Len(<<>>) = 0 /\ \A m : Len(<<m>>) = 1
      OBVIOUS
    <3>5. Len(coordAPlan) + Len(planACoord) + sem_planificador = 1
      <4>1. ASSUME PedidoEnVuelo(e)
            PROVE  Len(coordAPlan) = 1 /\ Len(planACoord) = 0 /\ sem_planificador = 0
        BY <3>4, <4>1 DEF PedidoEnVuelo
      <4>2. ASSUME RespuestaEnVuelo(e)
            PROVE  Len(coordAPlan) = 0 /\ Len(planACoord) = 1 /\ sem_planificador = 0
        BY <3>4, <4>2 DEF RespuestaEnVuelo
      <4>3. ASSUME RespuestaDejada(e)
            PROVE  Len(coordAPlan) = 0 /\ Len(planACoord) = 0 /\ sem_planificador = 1
        BY <3>4, <4>3 DEF RespuestaDejada
      <4> DEFINE a == Len(coordAPlan)
                 b == Len(planACoord)
      <4>4. \/ a = 1 /\ b = 0 /\ sem_planificador = 0
            \/ a = 0 /\ b = 1 /\ sem_planificador = 0
            \/ a = 0 /\ b = 0 /\ sem_planificador = 1
        BY <3>3, <4>1, <4>2, <4>3
      <4> HIDE DEF a, b
      <4>5. a + b + sem_planificador = 1
        BY <4>4
      <4>. QED BY <4>5 DEF a, b
    <3>6. coordAPlan # <<>> => Head(coordAPlan).clave = pedido[e].clave
      BY <3>3, Mensajes DEF PedidoEnVuelo, RespuestaEnVuelo, RespuestaDejada
    <3>7. sem_planificador = 1 => (mensaje_planificador = "ORDEN_EJECUTADA" <=> hilo[e] # "consulta")
      BY <3>3 DEF PedidoEnVuelo, RespuestaEnVuelo, RespuestaDejada
    <3>8. sem_planificador = 1 =>
             (mensaje_planificador = "ORDEN_EJECUTADA") = (hilo[e] # "consulta")
      BY <3>7
    <3>. QED BY <3>1, <3>2, <3>5, <3>6, <3>8 DEF RespuestaPropia
  <2>. QED BY <2>2, <2>3
<1>2. Spec => []InvSoporte
  BY InicioSoporte, PasoSoporte, PTL DEF Spec
<1>. QED BY <1>1, <1>2, PTL

-----------------------------------------------------------------------------
(* Without Ctrl-C, where an ESI and its thread of the Coordinador are, with *)
(* what is on the connections of the ESI.                                  *)
EnServicio(e) == hilo[e] \in EnOperacion \/ (hilo[e] = "mutex" /\ EsOperacion(e))
EntreOrdenes(e) == fase[e] \in {"contesto", "espera_orden"} /\ hilo[e] = "recibe"
Conexiones(e, plan, resp, ped, res) ==
    planAEsi[e] = plan /\ esiAPlan[e] = resp /\ esiACoord[e] = ped /\ coordAEsi[e] = res

(* The way of an instruction.                                              *)
Ordenada(e) ==
    EntreOrdenes(e) /\ Conexiones(e, <<"EJECUTAR_SCRIPTS">>, <<>>, <<>>, <<>>)
Leida(e) ==
    fase[e] \in {"recibio", "leer"} /\ hilo[e] = "recibe" /\ Conexiones(e, <<>>, <<>>, <<>>, <<>>)
Pedida(e) ==
    /\ fase[e] = "espera_coord" /\ hilo[e] = "recibe"
    /\ \E m \in PedidosEsi : m.head \in Operaciones /\ Conexiones(e, <<>>, <<>>, <<m>>, <<>>)
Servida(e) ==
    fase[e] = "espera_coord" /\ EnServicio(e) /\ Conexiones(e, <<>>, <<>>, <<>>, <<>>)
Resuelta(e) ==
    /\ fase[e] = "espera_coord"
    /\ \/ hilo[e] = "recibe" /\ \E r \in Resultados : Conexiones(e, <<>>, <<>>, <<>>, <<r>>)
       \/ /\ hilo[e] = "fin"
          /\ Conexiones(e, <<>>, <<>>, <<>>, <<"RESULTADO_OPERACION_FALLO", "FALLO_AL_RECIBIR">>)
PorContestar(e) ==
    /\ fase[e] = "contestar"
    /\ \/ hilo[e] = "recibe" /\ Conexiones(e, <<>>, <<>>, <<>>, <<>>)
       \/ /\ hilo[e] = "fin" /\ resultado[e] = "EJECUCION_FALLO"
          /\ Conexiones(e, <<>>, <<>>, <<>>, <<"FALLO_AL_RECIBIR">>)
Contestada(e) ==
    EntreOrdenes(e) /\ Conexiones(e, <<>>, <<"EJECUCION_CORRECTA">>, <<>>, <<>>)

(* An ESI that has ended asks for nothing more.                            *)
Acabado(e) ==
    /\ fase[e] = "fin" /\ ~EnServicio(e)
    /\ \A i \in DOMAIN esiACoord[e] : esiACoord[e][i].head \notin Operaciones
Despedida(e) ==
    /\ Acabado(e) /\ planAEsi[e] = <<>>
    /\ \E x \in Respuestas \ {"EJECUCION_CORRECTA"} : esiAPlan[e] = <<x, "FALLO_AL_RECIBIR">>

EnCurso(e) ==
    \/ Ordenada(e) \/ Leida(e) \/ Pedida(e) \/ Servida(e) \/ Resuelta(e)
    \/ PorContestar(e) \/ Contestada(e) \/ Despedida(e)
Quieto(e) == EntreOrdenes(e) /\ Conexiones(e, <<>>, <<>>, <<>>, <<>>)
Echado(e) == EntreOrdenes(e) /\ Conexiones(e, <<"FALLO_AL_RECIBIR">>, <<>>, <<>>, <<>>)

(* planificar waits for an ESI exactly while its instruction is under way. *)
Aguardado(e) == pc = "espera_respuesta" /\ terminando = Nadie /\ esi_a_ejecutar = e
VueltaDe(e) ==
    \/ /\ memoria[e] = "terminando"
       /\ \/ mutex_listas = "consola" /\ Quieto(e)
          \/ mutex_listas # "consola" /\ Acabado(e)
    \/ memoria[e] = "viva" /\ Aguardado(e) /\ EnCurso(e)
    \/ memoria[e] \in {"sin_crear", "viva"} /\ ~Aguardado(e) /\ Quieto(e)
    \/ memoria[e] = "liberada" /\ ~Aguardado(e) /\ (Echado(e) \/ Acabado(e))
Vueltas == \A e \in Esis : VueltaDe(e)

(* terminar_esi has one victim, that only it marks.                        *)
UnaVictima ==
    /\ terminando.paso = "ninguno" => terminando = Nadie
    /\ \A e \in Esis :
          memoria[e] = "terminando" <=> terminando.paso \in ConVictima /\ terminando.victima = e

SinCtrlC == Interrumpibles = {}
InvVuelta == SinCtrlC /\ InvSoporte /\ UnaVictima /\ Vueltas

-----------------------------------------------------------------------------
\* The step of one side of e's connections, seen from where e is.
Local(e) == <<planAEsi[e], esiAPlan[e], esiACoord[e], coordAEsi[e], fase[e], hilo[e], pedido[e],
              resultado[e]>>
LEMMA LocalIgual ==
    ASSUME NEW e \in Esis, UNCHANGED Local(e)
    PROVE  /\ EnCurso(e)' <=> EnCurso(e)
           /\ Quieto(e)' <=> Quieto(e)
           /\ Echado(e)' <=> Echado(e)
           /\ Acabado(e)' <=> Acabado(e)
<1>1. /\ planAEsi'[e] = planAEsi[e] /\ esiAPlan'[e] = esiAPlan[e] /\ esiACoord'[e] = esiACoord[e]
      /\ coordAEsi'[e] = coordAEsi[e] /\ fase'[e] = fase[e] /\ hilo'[e] = hilo[e]
      /\ pedido'[e] = pedido[e] /\ resultado'[e] = resultado[e]
  BY DEF Local
<1>2. /\ EntreOrdenes(e)' <=> EntreOrdenes(e)
      /\ EnServicio(e)' <=> EnServicio(e)
  BY <1>1 DEF EntreOrdenes, EnServicio, EsOperacion
<1>3. Acabado(e)' <=> Acabado(e)
  BY <1>1, <1>2 DEF Acabado
<1>4. Ordenada(e)' <=> Ordenada(e)
  BY <1>1, <1>2 DEF Ordenada, Conexiones
<1>5. Leida(e)' <=> Leida(e)
  BY <1>1, <1>2 DEF Leida, Conexiones
<1>6. Pedida(e)' <=> Pedida(e)
  BY <1>1, <1>2 DEF Pedida, Conexiones
<1>7. Servida(e)' <=> Servida(e)
  BY <1>1, <1>2 DEF Servida, Conexiones
<1>8. Resuelta(e)' <=> Resuelta(e)
  BY <1>1, <1>2 DEF Resuelta, Conexiones
<1>9. PorContestar(e)' <=> PorContestar(e)
  BY <1>1, <1>2 DEF PorContestar, Conexiones
<1>10. Contestada(e)' <=> Contestada(e)
  BY <1>1, <1>2 DEF Contestada, Conexiones
<1>11. Despedida(e)' <=> Despedida(e)
  BY <1>1, <1>3 DEF Despedida
<1>12. (Quieto(e)' <=> Quieto(e)) /\ (Echado(e)' <=> Echado(e))
  BY <1>1, <1>2 DEF Quieto, Echado, Conexiones
<1>. QED BY <1>3, <1>4, <1>5, <1>6, <1>7, <1>8, <1>9, <1>10, <1>11, <1>12 DEF EnCurso

\* planificar sees the same of e as long as e stays on its way.
LEMMA VueltaSigue ==
    ASSUME NEW e \in Esis, VueltaDe(e), UNCHANGED varsPlan,
           EnCurso(e) => EnCurso(e)', Quieto(e) => Quieto(e)',
           Acabado(e) => Acabado(e)', Echado(e) => Echado(e)' \/ Acabado(e)'
    PROVE  VueltaDe(e)'
<1>1. UNCHANGED <<pc, terminando, esi_a_ejecutar, memoria, mutex_listas>>
  BY DEF varsPlan, hilos, campos
<1>2. Aguardado(e)' <=> Aguardado(e)
  BY <1>1 DEF Aguardado
<1>. QED BY <1>1, <1>2 DEF VueltaDe

\* The end of an ESI: what it says last, and no more operations.
LEMMA FinalizarVuelta ==
    ASSUME InvTipos, NEW e \in Esis, NEW u, NEW a, Finalizar(e, u, a),
           esiACoord[e] = <<>>, ~EnServicio(e), UNCHANGED varsCoord,
           a = <<>> \/ a = <<Mensaje("SCRITP_FINALIZADO", NULL)>>
    PROVE  Acabado(e)'
<1> DEFINE m == Mensaje("FALLO_AL_RECIBIR", NULL)
           n == Mensaje("SCRITP_FINALIZADO", NULL)
<1>1. m.head \notin Operaciones /\ n.head \notin Operaciones
  BY DEF Mensaje, Operaciones
<1> HIDE DEF m, n
<1>2. esiACoord'[e] = <<m>> \/ esiACoord'[e] = <<n, m>>
  <2>1. esiACoord'[e] = <<>> \o a \o <<m>>
    BY DEF Finalizar, InvTipos, TypeOK, ProtocoloTypeOK, m
  <2>2. a = <<>> \/ a = <<n>>
    BY DEF n
  <2>3. CASE a = <<>>
    BY <2>1, <2>3, Mensajes
  <2>4. CASE a = <<n>>
    BY <2>1, <2>4, Mensajes
  <2>. QED BY <2>2, <2>3, <2>4
<1>3. \A i \in DOMAIN esiACoord'[e] : esiACoord'[e][i].head \notin Operaciones
  BY <1>1, <1>2
<1>4. fase'[e] = "fin"
  BY DEF Finalizar, InvTipos, TypeOK, EsiTypeOK
<1>5. ~EnServicio(e)'
  BY DEF EnServicio, EsOperacion, varsCoord
<1>. QED BY <1>3, <1>4, <1>5 DEF Acabado

\* What an ESI and its thread may find, wherever e is.
LEMMA DondeEsta ==
    ASSUME NEW e \in Esis, VueltaDe(e)
    PROVE  EnCurso(e) \/ Quieto(e) \/ Echado(e) \/ Acabado(e)
BY DEF VueltaDe

\* What EXCEPT does to the connections and the places of the others.
LEMMA OtrosIgual ==
    ASSUME InvTipos, NEW e \in Esis, NEW f \in Esis, f # e,
           EsiRecibirOrden(e) \/ EsiEmpezar(e) \/ EsiPedirOperacion(e) \/ EsiLineaInvalida(e)
           \/ EsiFinDeGuion(e) \/ EsiRecibirResultado(e) \/ EsiContestar(e)
           \/ EsiFinInstruccion(e) \/ EsiFinInterrupcion(e),
           UNCHANGED varsCoord
    PROVE  UNCHANGED Local(f)
<1>1. UNCHANGED <<hilo, pedido>>
  BY DEF varsCoord
<1>2. fase'[f] = fase[f] /\ planAEsi'[f] = planAEsi[f] /\ coordAEsi'[f] = coordAEsi[f]
      /\ resultado'[f] = resultado[f]
  BY DEF EsiRecibirOrden, EsiEmpezar, EsiPedirOperacion, EsiLineaInvalida, EsiFinDeGuion,
     EsiRecibirResultado, EsiContestar, EsiFinInstruccion, EsiFinInterrupcion, PasarA, Finalizar,
     Recibido, canales, InvTipos, TypeOK, ProtocoloTypeOK, EsiTypeOK
<1>3. esiAPlan'[f] = esiAPlan[f] /\ esiACoord'[f] = esiACoord[f]
  BY DEF EsiRecibirOrden, EsiEmpezar, EsiPedirOperacion, EsiLineaInvalida, EsiFinDeGuion,
     EsiRecibirResultado, EsiContestar, EsiFinInstruccion, EsiFinInterrupcion, PasarA, Finalizar,
     Enviar, canales, InvTipos, TypeOK, ProtocoloTypeOK, EsiTypeOK
<1>. QED BY <1>1, <1>2, <1>3 DEF Local

\* Each instruction of the script takes the ESI one situation further.
LEMMA EsiVuelta ==
    ASSUME InvVuelta, EsiNext, UNCHANGED <<varsPlan, varsCoord>>
    PROVE  Vueltas'
<1>1. PICK e \in Esis :
        \/ EsiRecibirOrden(e) \/ EsiEmpezar(e) \/ EsiPedirOperacion(e) \/ EsiLineaInvalida(e)
        \/ EsiFinDeGuion(e) \/ EsiRecibirResultado(e) \/ EsiContestar(e)
        \/ EsiFinInstruccion(e) \/ EsiFinInterrupcion(e)
  BY DEF EsiNext, EsiCtrlC, InvVuelta, SinCtrlC
<1>0. InvTipos /\ VueltaDe(e) /\ UNCHANGED <<hilo, pedido, hilo[e], pedido[e]>>
  BY DEF InvVuelta, InvSoporte, InvCuenta, Vueltas, varsCoord
<1>t. /\ fase \in [Esis -> Fases] /\ resultado \in [Esis -> {"EJECUCION_CORRECTA", "EJECUCION_FALLO"}]
      /\ planAEsi \in [Esis -> Seq(Ordenes)] /\ esiAPlan \in [Esis -> Seq(Respuestas)]
      /\ esiACoord \in [Esis -> Seq(PedidosEsi)] /\ coordAEsi \in [Esis -> Seq(Resultados)]
  BY <1>0 DEF InvTipos, TypeOK, ProtocoloTypeOK, EsiTypeOK
<1>2. ASSUME NEW f \in Esis, f # e PROVE VueltaDe(f)'
  BY <1>0, <1>1, <1>2, OtrosIgual, LocalIgual, VueltaSigue DEF InvVuelta, Vueltas
<1>3. SUFFICES /\ EnCurso(e) => EnCurso(e)'
               /\ Quieto(e) => Quieto(e)'
               /\ Acabado(e) => Acabado(e)'
               /\ Echado(e) => Echado(e)' \/ Acabado(e)'
  BY <1>0, <1>2, VueltaSigue DEF Vueltas
<1>c. EnServicio(e)' <=> EnServicio(e)
  BY <1>0 DEF EnServicio, EsOperacion
<1>4. CASE EsiRecibirOrden(e)
  <2>1. planAEsi[e] # <<>> /\ planAEsi'[e] = Tail(planAEsi[e]) /\ fase[e] = "espera_orden"
        /\ UNCHANGED <<coordAEsi, resultado>>
    BY <1>4, <1>t DEF EsiRecibirOrden, Recibido, PasarA
  <2>2. ASSUME Ordenada(e) PROVE Leida(e)'
    <3>1. /\ planAEsi[e] = <<"EJECUTAR_SCRIPTS">> /\ esiAPlan[e] = <<>> /\ esiACoord[e] = <<>>
          /\ coordAEsi[e] = <<>> /\ hilo[e] = "recibe"
      BY <2>2 DEF Ordenada, Conexiones, EntreOrdenes
    <3>2. Head(planAEsi[e]) = "EJECUTAR_SCRIPTS" /\ planAEsi'[e] = <<>>
      BY <2>1, <3>1, Mensajes
    <3>3. PasarA(e, "espera_orden", "recibio") /\ UNCHANGED <<esiAPlan, esiACoord>>
      BY <1>4, <3>2 DEF EsiRecibirOrden
    <3>. QED BY <1>0, <1>t, <2>1, <3>1, <3>2, <3>3 DEF Leida, Conexiones, PasarA
  <2>3. ASSUME Echado(e) PROVE Acabado(e)'
    <3>1. /\ planAEsi[e] = <<"FALLO_AL_RECIBIR">> /\ esiACoord[e] = <<>> /\ hilo[e] = "recibe"
      BY <2>3 DEF Echado, Conexiones, EntreOrdenes
    <3>2. Head(planAEsi[e]) = "FALLO_AL_RECIBIR"
      BY <3>1, Mensajes
    <3>3. Finalizar(e, <<>>, <<>>) /\ ~EnServicio(e)
      BY <1>4, <3>1, <3>2 DEF EsiRecibirOrden, EnServicio, EnOperacion
    <3>. QED BY <1>0, <3>1, <3>3, FinalizarVuelta
  <2>4. EnCurso(e) => Ordenada(e)
    BY <2>1 DEF EnCurso, Leida, Pedida, Servida, Resuelta, PorContestar, Contestada, Despedida,
       Conexiones
  <2>5. ~Quieto(e) /\ ~Acabado(e)
    BY <2>1 DEF Quieto, Acabado, Conexiones
  <2>. QED BY <2>2, <2>3, <2>4, <2>5 DEF EnCurso
<1>5. CASE EsiEmpezar(e)
  <2>1. fase[e] = "recibio" /\ fase'[e] = "leer"
        /\ UNCHANGED <<planAEsi, esiAPlan, esiACoord, coordAEsi, resultado>>
    BY <1>5, <1>t DEF EsiEmpezar, PasarA, canales
  <2>2. EnCurso(e) => Leida(e)
    BY <2>1 DEF EnCurso, Ordenada, Pedida, Servida, Resuelta, PorContestar, Contestada, Despedida,
       EntreOrdenes, Acabado
  <2>3. Leida(e) => Leida(e)'
    BY <1>0, <2>1 DEF Leida, Conexiones
  <2>4. ~Quieto(e) /\ ~Acabado(e) /\ ~Echado(e)
    BY <2>1 DEF Quieto, Acabado, Echado, EntreOrdenes
  <2>. QED BY <2>2, <2>3, <2>4 DEF EnCurso
<1>6. CASE EsiPedirOperacion(e)
  <2>1. fase[e] = "leer" /\ fase'[e] = "espera_coord" /\ HayLinea(e) /\ Actual(e).op # "INVALIDA"
        /\ esiACoord'[e] = Append(esiACoord[e], Solicitud(Actual(e)))
        /\ UNCHANGED <<planAEsi, esiAPlan, coordAEsi, resultado>>
    BY <1>6, <1>t DEF EsiPedirOperacion, PasarA, Enviar
  <2>2. EnCurso(e) => Leida(e)
    BY <2>1 DEF EnCurso, Ordenada, Pedida, Servida, Resuelta, PorContestar, Contestada, Despedida,
       EntreOrdenes, Acabado
  <2>3. Solicitud(Actual(e)) \in PedidosEsi /\ Solicitud(Actual(e)).head \in Operaciones
    <3>1. linea[e] \in Nat /\ LineaActual(e) \in Nat /\ LineaActual(e) >= 1
      BY <1>0 DEF InvTipos, TypeOK, EsiTypeOK, LineasLeidas, LineaActual
    <3>2. guion[e] \in Seq(Instrucciones) /\ LineaActual(e) \in 1..Len(guion[e])
      BY <1>0, <2>1, <3>1, EsiAssumption DEF HayLinea, InvTipos, TypeOK, EsiTypeOK
    <3>3. Actual(e) \in Instrucciones
      BY <3>2 DEF Actual
    <3>4. Actual(e).op \in {"GET", "SET", "STORE"} /\ Actual(e).clave \in Claves
      BY <2>1, <3>3 DEF Instrucciones
    <3>. QED BY <3>4 DEF Solicitud, Mensaje, PedidosEsi, Operaciones
  <2>4. Leida(e) => Pedida(e)'
    <3>1. Leida(e) => esiACoord'[e] = <<Solicitud(Actual(e))>>
      BY <2>1, Mensajes DEF Leida, Conexiones
    <3>. QED BY <1>0, <2>1, <2>3, <3>1 DEF Leida, Pedida, Conexiones
  <2>5. ~Quieto(e) /\ ~Acabado(e) /\ ~Echado(e)
    BY <2>1 DEF Quieto, Acabado, Echado, EntreOrdenes
  <2>. QED BY <2>2, <2>4, <2>5 DEF EnCurso
<1>7. CASE EsiLineaInvalida(e) \/ EsiFinDeGuion(e)
  <2>1. PICK x \in {"EJECUCION_FALLO", "SCRITP_FINALIZADO"},
             a \in {<<>>, <<Mensaje("SCRITP_FINALIZADO", NULL)>>} : Finalizar(e, <<x>>, a)
    BY <1>7 DEF EsiLineaInvalida, EsiFinDeGuion
  <2>2. fase[e] = "leer" /\ UNCHANGED planAEsi
    BY <1>7 DEF EsiLineaInvalida, EsiFinDeGuion
  <2>3. EnCurso(e) => Leida(e)
    BY <2>2 DEF EnCurso, Ordenada, Pedida, Servida, Resuelta, PorContestar, Contestada, Despedida,
       EntreOrdenes, Acabado
  <2>4. ASSUME Leida(e) PROVE Despedida(e)'
    <3>1. planAEsi[e] = <<>> /\ esiAPlan[e] = <<>> /\ esiACoord[e] = <<>> /\ ~EnServicio(e)
      BY <2>4 DEF Leida, Conexiones, EnServicio, EnOperacion
    <3>2. Acabado(e)'
      BY <1>0, <2>1, <3>1, FinalizarVuelta
    <3>3. esiAPlan'[e] = <<>> \o <<x>> \o <<"FALLO_AL_RECIBIR">>
      BY <1>t, <2>1, <3>1 DEF Finalizar
    <3>4. esiAPlan'[e] = <<x, "FALLO_AL_RECIBIR">>
      BY <3>3, Mensajes
    <3>. QED BY <2>1, <2>2, <3>1, <3>2, <3>4 DEF Despedida, Respuestas
  <2>5. ~Quieto(e) /\ ~Acabado(e) /\ ~Echado(e)
    BY <2>2 DEF Quieto, Acabado, Echado, EntreOrdenes
  <2>. QED BY <2>3, <2>4, <2>5 DEF EnCurso
<1>8. CASE EsiRecibirResultado(e)
  <2>1. fase[e] = "espera_coord" /\ fase'[e] = "contestar" /\ coordAEsi[e] # <<>>
        /\ coordAEsi'[e] = Tail(coordAEsi[e]) /\ UNCHANGED <<planAEsi, esiAPlan, esiACoord>>
    BY <1>8, <1>t DEF EsiRecibirResultado, PasarA, Recibido
  <2>2. EnCurso(e) => Resuelta(e)
    BY <2>1 DEF EnCurso, Ordenada, Leida, Pedida, Servida, PorContestar, Contestada, Despedida,
       EntreOrdenes, Acabado, Conexiones
  <2>3. Head(coordAEsi[e]) = "RESULTADO_OPERACION_FALLO" => resultado'[e] = "EJECUCION_FALLO"
    BY <1>8, <1>t DEF EsiRecibirResultado
  <2>4. ASSUME Resuelta(e) PROVE PorContestar(e)'
    <3>1. planAEsi[e] = <<>> /\ esiAPlan[e] = <<>> /\ esiACoord[e] = <<>>
      BY <2>4 DEF Resuelta, Conexiones
    <3>2. \/ hilo[e] = "recibe" /\ coordAEsi'[e] = <<>>
          \/ /\ hilo[e] = "fin" /\ Head(coordAEsi[e]) = "RESULTADO_OPERACION_FALLO"
             /\ coordAEsi'[e] = <<"FALLO_AL_RECIBIR">>
      <4>1. CASE hilo[e] = "recibe" /\ \E r \in Resultados : coordAEsi[e] = <<r>>
        BY <2>1, <4>1, Mensajes
      <4>2. CASE /\ hilo[e] = "fin"
                 /\ coordAEsi[e] = <<"RESULTADO_OPERACION_FALLO", "FALLO_AL_RECIBIR">>
        BY <2>1, <4>2, Mensajes
      <4>. QED BY <2>4, <4>1, <4>2 DEF Resuelta, Conexiones
    <3>. QED BY <1>0, <2>1, <2>3, <3>1, <3>2 DEF PorContestar, Conexiones
  <2>5. ~Quieto(e) /\ ~Acabado(e) /\ ~Echado(e)
    BY <2>1 DEF Quieto, Acabado, Echado, EntreOrdenes
  <2>. QED BY <2>2, <2>4, <2>5 DEF EnCurso
<1>9. CASE EsiContestar(e)
  <2>1. fase[e] = "contestar" /\ UNCHANGED <<planAEsi, coordAEsi>>
    BY <1>9 DEF EsiContestar, PasarA
  <2>2. EnCurso(e) => PorContestar(e)
    BY <2>1 DEF EnCurso, Ordenada, Leida, Pedida, Servida, Resuelta, Contestada, Despedida,
       EntreOrdenes, Acabado
  <2>3. ASSUME PorContestar(e), resultado[e] = "EJECUCION_CORRECTA" PROVE Contestada(e)'
    <3>1. fase'[e] = "contesto" /\ esiAPlan'[e] = Append(esiAPlan[e], "EJECUCION_CORRECTA")
          /\ UNCHANGED esiACoord
      BY <1>9, <1>t, <2>3 DEF EsiContestar, PasarA, Enviar
    <3>. QED BY <1>0, <2>1, <2>3, <3>1, Mensajes DEF PorContestar, Contestada, EntreOrdenes,
                Conexiones
  <2>4. ASSUME PorContestar(e), resultado[e] = "EJECUCION_FALLO" PROVE Despedida(e)'
    <3>1. Finalizar(e, <<"EJECUCION_FALLO">>, <<>>)
      BY <1>9, <2>4 DEF EsiContestar
    <3>2. planAEsi[e] = <<>> /\ esiAPlan[e] = <<>> /\ esiACoord[e] = <<>> /\ ~EnServicio(e)
      BY <2>4 DEF PorContestar, Conexiones, EnServicio, EnOperacion
    <3>3. Acabado(e)'
      BY <1>0, <3>1, <3>2, FinalizarVuelta
    <3>4. esiAPlan'[e] = <<>> \o <<"EJECUCION_FALLO">> \o <<"FALLO_AL_RECIBIR">>
      BY <1>t, <3>1, <3>2 DEF Finalizar
    <3>5. esiAPlan'[e] = <<"EJECUCION_FALLO", "FALLO_AL_RECIBIR">>
      BY <3>4, Mensajes
    <3>. QED BY <2>1, <3>2, <3>3, <3>5 DEF Despedida, Respuestas
  <2>5. ~Quieto(e) /\ ~Acabado(e) /\ ~Echado(e)
    BY <2>1 DEF Quieto, Acabado, Echado, EntreOrdenes
  <2>. QED BY <1>t, <2>2, <2>3, <2>4, <2>5 DEF EnCurso
<1>10. CASE EsiFinInstruccion(e)
  <2>1. fase[e] = "contesto" /\ fase'[e] = "espera_orden"
        /\ UNCHANGED <<planAEsi, esiAPlan, esiACoord, coordAEsi, resultado>>
    BY <1>10, <1>t DEF EsiFinInstruccion, PasarA, canales
  <2>2. EnCurso(e) => Ordenada(e) \/ Contestada(e)
    BY <2>1 DEF EnCurso, Leida, Pedida, Servida, Resuelta, PorContestar, Despedida, Acabado
  <2>3. EntreOrdenes(e)'
    <3>1. EntreOrdenes(e)
      BY <1>0, <2>1, <2>2, DondeEsta DEF Ordenada, Contestada, Quieto, Echado, Acabado
    <3>. QED BY <1>0, <2>1, <3>1 DEF EntreOrdenes
  <2>4. (Ordenada(e) => Ordenada(e)') /\ (Contestada(e) => Contestada(e)')
    BY <2>1, <2>3 DEF Ordenada, Contestada, Conexiones
  <2>5. (Quieto(e) => Quieto(e)') /\ (Echado(e) => Echado(e)') /\ ~Acabado(e)
    BY <2>1, <2>3 DEF Quieto, Echado, Acabado, Conexiones
  <2>. QED BY <2>2, <2>4, <2>5 DEF EnCurso
<1>11. CASE EsiFinInterrupcion(e)
  <2>1. fase[e] \in {"int_coord", "int_plan"}
    BY <1>11 DEF EsiFinInterrupcion
  <2>. QED BY <1>0, <2>1, DondeEsta DEF EnCurso, Quieto, Echado, Acabado, Ordenada, Leida, Pedida,
       Servida, Resuelta, PorContestar, Contestada, Despedida, EntreOrdenes
<1>. QED BY <1>1, <1>4, <1>5, <1>6, <1>7, <1>8, <1>9, <1>10, <1>11

-----------------------------------------------------------------------------
\* A thread of the Coordinador disturbs only the ESI it serves.
LEMMA OtrosHilos ==
    ASSUME InvTipos, NEW e \in Esis, NEW f \in Esis, f # e,
           \/ CoordRecibir(e) \/ CoordDesconexion(e) \/ CoordClaveLarga(e)
           \/ CoordConsultar(e) \/ CoordPermitido(e) \/ CoordClaveBloqueada(e)
           \/ CoordClaveAjena(e) \/ CoordGuardar(e) \/ CoordSetear(e) \/ CoordStorear(e)
           \/ CoordInstanciaFalla(e) \/ CoordInstanciaCalla(e) \/ CoordOrdenEjecutada(e),
           UNCHANGED varsEsi
    PROVE  UNCHANGED Local(f)
<1>1. UNCHANGED <<fase, resultado, planAEsi, esiAPlan>>
  BY DEF varsEsi, CoordRecibir, CoordDesconexion, CoordClaveLarga, CoordConsultar, CoordPermitido,
     CoordClaveBloqueada, CoordClaveAjena, CoordGuardar, CoordSetear, CoordStorear,
     CoordInstanciaFalla, CoordInstanciaCalla, CoordOrdenEjecutada, canales
<1>2. hilo'[f] = hilo[f] /\ pedido'[f] = pedido[f]
  BY DEF CoordRecibir, CoordDesconexion, CoordClaveLarga, CoordConsultar, CoordPermitido,
     CoordClaveBloqueada, CoordClaveAjena, CoordGuardar, CoordSetear, CoordStorear,
     CoordInstanciaFalla, CoordInstanciaCalla, CoordOrdenEjecutada, Cumplir, Fallar,
     InvTipos, TypeOK, CoordinadorTypeOK
<1>3. esiACoord'[f] = esiACoord[f] /\ coordAEsi'[f] = coordAEsi[f]
  BY DEF CoordRecibir, CoordDesconexion, CoordClaveLarga, CoordConsultar, CoordPermitido,
     CoordClaveBloqueada, CoordClaveAjena, CoordGuardar, CoordSetear, CoordStorear,
     CoordInstanciaFalla, CoordInstanciaCalla, CoordOrdenEjecutada, Cumplir, Fallar, Enviar,
     Recibido, canales, InvTipos, TypeOK, ProtocoloTypeOK
<1>. QED BY <1>1, <1>2, <1>3 DEF Local

\* Whoever is being served waits for that, and for nothing else.
LEMMA SoloServida ==
    ASSUME NEW e \in Esis, VueltaDe(e), EnServicio(e)
    PROVE  Servida(e) /\ Aguardado(e) /\ memoria[e] = "viva"
<1>1. hilo[e] \notin {"recibe", "fin"}
  BY DEF EnServicio, EnOperacion
<1>2. ~Quieto(e) /\ ~Echado(e) /\ ~Acabado(e)
  BY <1>1 DEF Quieto, Echado, Acabado, EntreOrdenes
<1>3. EnCurso(e) => Servida(e)
  BY <1>1, <1>2 DEF EnCurso, Ordenada, Leida, Pedida, Resuelta, PorContestar, Contestada,
     Despedida, EntreOrdenes
<1>. QED BY <1>2, <1>3 DEF VueltaDe

\* The thread takes the request one situation further, and answers it.
LEMMA CoordVuelta ==
    ASSUME InvVuelta, CoordinadorNext, UNCHANGED <<varsPlan, varsEsi>>
    PROVE  Vueltas'
<1>0. InvTipos /\ \A e \in Esis : VueltaDe(e)
  BY DEF InvVuelta, InvSoporte, InvCuenta, Vueltas
<1>t. /\ hilo \in [Esis -> Hilos] /\ pedido \in [Esis -> PedidosEsi]
      /\ esiACoord \in [Esis -> Seq(PedidosEsi)] /\ coordAEsi \in [Esis -> Seq(Resultados)]
  BY <1>0 DEF InvTipos, TypeOK, ProtocoloTypeOK, CoordinadorTypeOK
<1>u. UNCHANGED <<fase, resultado>>
  BY DEF varsEsi
<1>1. CASE CoordEscucharPlanificador
  <2>1. ASSUME NEW e \in Esis PROVE UNCHANGED Local(e)
    BY <1>1, <1>u DEF CoordEscucharPlanificador, Local
  <2>. QED BY <1>0, <2>1, LocalIgual, VueltaSigue DEF Vueltas
<1>2. SUFFICES ASSUME NEW e \in Esis,
         \/ CoordRecibir(e) \/ CoordDesconexion(e) \/ CoordClaveLarga(e)
         \/ CoordConsultar(e) \/ CoordPermitido(e) \/ CoordClaveBloqueada(e)
         \/ CoordClaveAjena(e) \/ CoordGuardar(e) \/ CoordSetear(e) \/ CoordStorear(e)
         \/ CoordInstanciaFalla(e) \/ CoordInstanciaCalla(e) \/ CoordOrdenEjecutada(e)
       PROVE Vueltas'
  BY <1>1 DEF CoordinadorNext
<1>3. ASSUME NEW f \in Esis, f # e PROVE VueltaDe(f)'
  BY <1>0, <1>2, <1>3, OtrosHilos, LocalIgual, VueltaSigue
<1>4. SUFFICES /\ EnCurso(e) => EnCurso(e)'
               /\ Quieto(e) => Quieto(e)'
               /\ Acabado(e) => Acabado(e)'
               /\ Echado(e) => Echado(e)' \/ Acabado(e)'
  BY <1>0, <1>3, VueltaSigue DEF Vueltas
<1>5. CASE CoordRecibir(e)
  <2>1. /\ hilo[e] = "recibe" /\ hilo'[e] = "mutex" /\ esiACoord[e] # <<>>
        /\ pedido'[e] = Head(esiACoord[e]) /\ esiACoord'[e] = Tail(esiACoord[e])
        /\ UNCHANGED <<planAEsi, esiAPlan, coordAEsi>>
    BY <1>5, <1>t DEF CoordRecibir, Recibido
  <2>2. EnCurso(e) => Pedida(e) \/ Despedida(e)
    BY <2>1 DEF EnCurso, Ordenada, Leida, Servida, Resuelta, PorContestar, Contestada,
       EntreOrdenes, Conexiones
  <2>3. Pedida(e) => Servida(e)'
    BY <1>u, <2>1, Mensajes DEF Pedida, Servida, EnServicio, EsOperacion, Conexiones
  <2>4. ASSUME Acabado(e) PROVE Acabado(e)'
    <3>1. /\ Head(esiACoord[e]) = esiACoord[e][1] /\ 1 \in DOMAIN esiACoord[e]
          /\ \A i \in DOMAIN Tail(esiACoord[e]) :
                i + 1 \in DOMAIN esiACoord[e] /\ Tail(esiACoord[e])[i] = esiACoord[e][i + 1]
      <4>1. esiACoord[e] \in Seq(PedidosEsi)
        BY <1>t
      <4>. QED BY <2>1, <4>1, HeadTailProperties, LenProperties, EmptySeq
    <3>2. ~EnServicio(e)'
      BY <2>1, <2>4, <3>1 DEF Acabado, EnServicio, EsOperacion, EnOperacion
    <3>. QED BY <1>u, <2>1, <2>4, <3>1, <3>2 DEF Acabado
  <2>5. Despedida(e) => Despedida(e)'
    BY <2>1, <2>4 DEF Despedida
  <2>6. ~Quieto(e) /\ ~Echado(e)
    BY <2>1 DEF Quieto, Echado, Conexiones
  <2>. QED BY <2>2, <2>3, <2>4, <2>5, <2>6 DEF EnCurso
<1>6. CASE CoordDesconexion(e)
  <2>1. /\ hilo[e] = "mutex" /\ ~EsOperacion(e) /\ hilo'[e] = "fin"
        /\ UNCHANGED <<planAEsi, esiAPlan, esiACoord>>
    BY <1>6, <1>t DEF CoordDesconexion
  <2>2. EnCurso(e) => Despedida(e)
    BY <2>1 DEF EnCurso, Ordenada, Leida, Pedida, Servida, Resuelta, PorContestar, Contestada,
       EntreOrdenes, EnServicio, EnOperacion
  <2>3. Acabado(e) => Acabado(e)'
    BY <1>u, <2>1 DEF Acabado, EnServicio, EnOperacion
  <2>4. Despedida(e) => Despedida(e)'
    BY <2>1, <2>3 DEF Despedida
  <2>5. ~Quieto(e) /\ ~Echado(e)
    BY <2>1 DEF Quieto, Echado, EntreOrdenes
  <2>. QED BY <2>2, <2>3, <2>4, <2>5 DEF EnCurso
<1>a. SUFFICES ASSUME
         \/ CoordClaveLarga(e) \/ CoordConsultar(e) \/ CoordPermitido(e) \/ CoordClaveBloqueada(e)
         \/ CoordClaveAjena(e) \/ CoordGuardar(e) \/ CoordSetear(e) \/ CoordStorear(e)
         \/ CoordInstanciaFalla(e) \/ CoordInstanciaCalla(e) \/ CoordOrdenEjecutada(e)
       PROVE /\ EnCurso(e) => EnCurso(e)'
             /\ Quieto(e) => Quieto(e)'
             /\ Acabado(e) => Acabado(e)'
             /\ Echado(e) => Echado(e)' \/ Acabado(e)'
  BY <1>2, <1>5, <1>6
<1>7. SUFFICES ASSUME EnServicio(e), Servida(e) PROVE EnCurso(e)'
  <2>2. EnServicio(e)
    BY <1>a DEF EnServicio, EnOperacion, CoordClaveLarga, CoordConsultar, CoordPermitido,
       CoordClaveBloqueada, CoordClaveAjena, CoordGuardar, CoordSetear, CoordStorear,
       CoordInstanciaFalla, CoordInstanciaCalla, CoordOrdenEjecutada
  <2>3. Servida(e)
    BY <1>0, <2>2, SoloServida
  <2>. QED BY <2>2, <2>3 DEF Quieto, Echado, Acabado, EntreOrdenes, EnServicio, EnOperacion
<1>8. /\ planAEsi[e] = <<>> /\ esiAPlan[e] = <<>> /\ esiACoord[e] = <<>> /\ coordAEsi[e] = <<>>
      /\ fase'[e] = "espera_coord"
  BY <1>7, <1>u DEF Servida, Conexiones
<1>9. CASE CoordConsultar(e) \/ CoordPermitido(e) \/ CoordClaveBloqueada(e) \/ CoordGuardar(e)
           \/ CoordStorear(e) \/ CoordInstanciaCalla(e)
  <2>1. hilo'[e] \in EnOperacion
    BY <1>9, <1>t DEF EnOperacion, CoordConsultar, CoordPermitido, CoordClaveBloqueada,
       CoordGuardar, CoordStorear, CoordInstanciaCalla
  <2>2. UNCHANGED <<planAEsi, esiAPlan, esiACoord, coordAEsi>>
    BY <1>9 DEF CoordConsultar, CoordPermitido, CoordClaveBloqueada,
       CoordGuardar, CoordStorear, CoordInstanciaCalla, canales
  <2>. QED BY <1>8, <2>1, <2>2 DEF EnCurso, Servida, EnServicio, Conexiones
<1>10. CASE CoordClaveLarga(e) \/ CoordClaveAjena(e) \/ CoordInstanciaFalla(e)
  <2>1. Fallar(e) /\ UNCHANGED <<planAEsi, esiAPlan, esiACoord>>
    BY <1>10 DEF CoordClaveLarga, CoordClaveAjena, CoordInstanciaFalla
  <2>2. hilo'[e] = "fin"
        /\ coordAEsi'[e] = <<>> \o <<"RESULTADO_OPERACION_FALLO", "FALLO_AL_RECIBIR">>
    BY <1>8, <1>t, <2>1 DEF Fallar
  <2>3. coordAEsi'[e] = <<"RESULTADO_OPERACION_FALLO", "FALLO_AL_RECIBIR">>
    BY <2>2, Mensajes
  <2>. QED BY <1>8, <2>1, <2>2, <2>3 DEF EnCurso, Resuelta, Conexiones
<1>11. CASE CoordSetear(e) \/ CoordOrdenEjecutada(e)
  <2>1. PICK r \in Resultados : Cumplir(e, r)
    BY <1>11 DEF CoordSetear, CoordOrdenEjecutada, RespuestaTrasOrden, Resultados
  <2>2. UNCHANGED <<planAEsi, esiAPlan, esiACoord>>
    BY <1>11 DEF CoordSetear, CoordOrdenEjecutada
  <2>3. hilo'[e] = "recibe" /\ coordAEsi'[e] = <<r>>
    BY <1>8, <1>t, <2>1, Mensajes DEF Cumplir, Enviar
  <2>. QED BY <1>8, <2>2, <2>3 DEF EnCurso, Resuelta, Conexiones
<1>. QED BY <1>a, <1>9, <1>10, <1>11

-----------------------------------------------------------------------------
EnReposo == \A e \in Esis : ~Aguardado(e)

\* planificar waits for nobody unless it owns the mutex.
LEMMA MutexLibre ==
    ASSUME InvVuelta, mutex_listas # "planificar"
    PROVE  pc # "espera_respuesta" /\ EnReposo
BY DEF InvVuelta, InvSoporte, InvCuenta, Cuenta, MutexDePlanificar, EnReposo, Aguardado

\* With the mutex free nobody is being terminated.
LEMMA NadieTermina ==
    ASSUME InvVuelta, mutex_listas = "libre"
    PROVE  terminando = Nadie /\ \A e \in Esis : memoria[e] # "terminando"
BY DEF InvVuelta, InvSoporte, InvCuenta, Cuenta, MutexDeQuienTermina, UnaVictima, Nadie, ConVictima

\* Steps of the Planificador that neither talk to an ESI nor mark one.
LEMMA PlanLejos ==
    ASSUME InvVuelta,
           UNCHANGED <<varsEsi, varsCoord, planAEsi, esiAPlan, esiACoord, coordAEsi, memoria>>,
           \/ UNCHANGED <<pc, terminando, esi_a_ejecutar>>
           \/ EnReposo /\ EnReposo',
           mutex_listas' = mutex_listas \/ \A e \in Esis : memoria[e] # "terminando"
    PROVE  Vueltas'
<1>1. SUFFICES ASSUME NEW e \in Esis PROVE VueltaDe(e)'
  BY DEF Vueltas
<1>2. UNCHANGED Local(e)
  BY DEF Local, varsEsi, varsCoord
<1>3. /\ EnCurso(e)' <=> EnCurso(e)
      /\ Quieto(e)' <=> Quieto(e)
      /\ Echado(e)' <=> Echado(e)
      /\ Acabado(e)' <=> Acabado(e)
  BY <1>2, LocalIgual
<1>4. Aguardado(e)' <=> Aguardado(e)
  BY DEF Aguardado, EnReposo
<1>5. VueltaDe(e)
  BY DEF InvVuelta, Vueltas
<1>. QED BY <1>3, <1>4, <1>5 DEF VueltaDe

\* The order is sent to an ESI that has nothing under way, and the answer that
\* planificar takes is to it.
LEMMA PlanificarVuelta ==
    ASSUME InvVuelta, Planificar, UNCHANGED <<varsEsi, varsCoord>>
    PROVE  UnaVictima' /\ Vueltas'
<1>0. InvTipos /\ UnaVictima /\ \A f \in Esis : VueltaDe(f)
  BY DEF InvVuelta, InvSoporte, InvCuenta, Vueltas
<1>t. /\ planAEsi \in [Esis -> Seq(Ordenes)] /\ esiAPlan \in [Esis -> Seq(Respuestas)]
      /\ memoria \in [Esis -> Memorias] /\ esi_a_ejecutar \in Esis \cup {NULL}
  BY <1>0 DEF InvTipos, TypeOK, ProtocoloTypeOK, PlanificadorTypeOK
<1>l. ASSUME NEW f \in Esis, planAEsi'[f] = planAEsi[f], esiAPlan'[f] = esiAPlan[f],
             UNCHANGED <<esiACoord, coordAEsi>>
      PROVE  UNCHANGED Local(f)
  BY <1>l DEF Local, varsEsi, varsCoord
<1>1. CASE PlanInicio \/ PlanRevisar \/ PlanDesalojar \/ PlanDesalojarMutex \/ PlanDesalojarFin
           \/ PlanElegir \/ PlanEsperaSem \/ PlanSelPausa \/ PlanSeleccionar \/ PlanPausa
  <2>1. /\ UNCHANGED <<planAEsi, esiAPlan, esiACoord, coordAEsi, memoria, mutex_listas, terminando>>
        /\ pc # "espera_respuesta" /\ pc' # "espera_respuesta"
    BY <1>1 DEF PlanInicio, PlanRevisar, PlanDesalojar, PlanDesalojarMutex, PlanDesalojarFin,
       PlanElegir, PlanEsperaSem, PlanSelPausa, PlanSeleccionar, PlanPausa, Ir, campos, canales
  <2>2. EnReposo /\ EnReposo'
    BY <2>1 DEF EnReposo, Aguardado
  <2>3. UnaVictima'
    BY <1>0, <2>1 DEF UnaVictima
  <2>. QED BY <2>1, <2>2, <2>3, PlanLejos
<1>2. CASE PlanDespachar
  <2>0. PICK e \in Esis : e = esi_a_ejecutar
    BY <1>2, <1>t DEF PlanDespachar, DespachoValido
  <2>1. /\ pc' = "espera_respuesta" /\ mutex_listas = "libre" /\ esi_a_ejecutar = e
        /\ memoria[e] \in {"viva", "terminando"} /\ planAEsi' = Enviar(planAEsi, e, "EJECUTAR_SCRIPTS")
        /\ UNCHANGED <<memoria, terminando, esi_a_ejecutar, esiAPlan, esiACoord, coordAEsi>>
    BY <1>2, <2>0 DEF PlanDespachar, Ir, DespachoValido, Legible, campos
  <2>2. /\ EnReposo /\ terminando = Nadie /\ \A f \in Esis : memoria[f] # "terminando"
    BY <2>1, MutexLibre, NadieTermina
  <2>3. UnaVictima'
    BY <1>0, <2>1 DEF UnaVictima
  <2>4. ASSUME NEW f \in Esis, f # e PROVE VueltaDe(f)'
    <3>1. planAEsi'[f] = planAEsi[f]
      BY <1>t, <2>1, <2>4 DEF Enviar
    <3>2. UNCHANGED Local(f)
      BY <1>l, <2>1, <3>1
    <3>3. (Quieto(f)' <=> Quieto(f)) /\ (Echado(f)' <=> Echado(f)) /\ (Acabado(f)' <=> Acabado(f))
      BY <3>2, LocalIgual
    <3>4. ~Aguardado(f) /\ ~Aguardado(f)'
      BY <2>1, <2>2, <2>4 DEF EnReposo, Aguardado
    <3>. QED BY <1>0, <2>1, <2>2, <3>3, <3>4 DEF VueltaDe
  <2>5. VueltaDe(e)'
    <3>1. memoria[e] = "viva" /\ Quieto(e)
      BY <1>0, <2>1, <2>2 DEF VueltaDe, EnReposo
    <3>2. planAEsi'[e] = <<"EJECUTAR_SCRIPTS">>
      BY <1>t, <2>1, <3>1, Mensajes DEF Quieto, Conexiones, Enviar
    <3>3. Ordenada(e)'
      BY <2>1, <3>1, <3>2 DEF Quieto, Ordenada, EntreOrdenes, Conexiones, varsEsi, varsCoord
    <3>4. Aguardado(e)' /\ memoria'[e] = "viva"
      BY <2>1, <2>2, <3>1 DEF Aguardado
    <3>. QED BY <3>3, <3>4 DEF VueltaDe, EnCurso
  <2>. QED BY <2>3, <2>4, <2>5 DEF Vueltas
<1>3. CASE PlanRespuestaCorrecta \/ PlanRespuestaFinal
  <2>0. PICK e \in Esis : e = esi_a_ejecutar
    BY <1>0, <1>3 DEF PlanRespuestaCorrecta, PlanRespuestaFinal, Ir, InvTipos, PunterosReales
  <2>1. /\ pc = "espera_respuesta" /\ terminando = Nadie /\ esiAPlan[e] # <<>>
        /\ esi_a_ejecutar = e
        /\ esiAPlan' = Recibido(esiAPlan, e)
        /\ UNCHANGED <<esi_a_ejecutar, planAEsi, esiACoord, coordAEsi>>
    BY <1>3, <2>0 DEF PlanRespuestaCorrecta, PlanRespuestaFinal, Ir
  <2>2. Aguardado(e) /\ \A f \in Esis : f # e => ~Aguardado(f)
    BY <2>1 DEF Aguardado
  <2>3. mutex_listas = "planificar" /\ \A f \in Esis : memoria[f] # "terminando"
    BY <1>0, <2>1 DEF InvVuelta, InvSoporte, InvCuenta, Cuenta, MutexDePlanificar, UnaVictima,
       Nadie, ConVictima
  <2>4. memoria[e] = "viva" /\ EnCurso(e)
    BY <1>0, <2>1, <2>2, <2>3 DEF VueltaDe, EnCurso, Echado, Acabado
  <2>5. Contestada(e) \/ Despedida(e)
    BY <2>1, <2>4 DEF EnCurso, Ordenada, Leida, Pedida, Servida, Resuelta, PorContestar, Conexiones
  <2>6. ASSUME NEW f \in Esis, f # e, memoria'[f] = memoria[f], ~Aguardado(f)' PROVE VueltaDe(f)'
    <3>1. esiAPlan'[f] = esiAPlan[f]
      BY <1>t, <2>1, <2>6 DEF Recibido
    <3>2. UNCHANGED Local(f)
      BY <1>l, <2>1, <3>1
    <3>3. (Quieto(f)' <=> Quieto(f)) /\ (Echado(f)' <=> Echado(f)) /\ (Acabado(f)' <=> Acabado(f))
      BY <3>2, LocalIgual
    <3>. QED BY <1>0, <2>2, <2>3, <2>6, <3>3 DEF VueltaDe
  <2>7. CASE PlanRespuestaCorrecta
    <3>1. /\ pc' = "inicio" /\ UNCHANGED <<memoria, terminando>> /\ Head(esiAPlan[e]) = "EJECUCION_CORRECTA"
      BY <2>1, <2>7 DEF PlanRespuestaCorrecta, Ir, campos
    <3>2. Contestada(e)
      BY <2>5, <3>1, Mensajes DEF Despedida
    <3>3. esiAPlan'[e] = <<>>
      BY <1>t, <2>1, <3>2, Mensajes DEF Contestada, Conexiones, Recibido
    <3>4. Quieto(e)'
      BY <2>1, <3>2, <3>3 DEF Contestada, Quieto, EntreOrdenes, Conexiones, varsEsi, varsCoord
    <3>5. \A f \in Esis : ~Aguardado(f)'
      BY <3>1 DEF Aguardado
    <3>6. VueltaDe(e)'
      BY <2>4, <3>1, <3>4, <3>5 DEF VueltaDe
    <3>7. UnaVictima'
      BY <1>0, <3>1 DEF UnaVictima
    <3>. QED BY <2>6, <3>1, <3>5, <3>6, <3>7 DEF Vueltas
  <2>8. CASE PlanRespuestaFinal
    <3>1. /\ memoria' = [memoria EXCEPT ![e] = "terminando"]
          /\ terminando'.paso = "desbloquear" /\ terminando'.victima = e
          /\ UNCHANGED mutex_listas /\ Head(esiAPlan[e]) # "EJECUCION_CORRECTA"
      BY <2>1, <2>8 DEF PlanRespuestaFinal, EmpezarTerminar
    <3>2. Despedida(e)
      BY <2>5, <3>1, Mensajes DEF Contestada, Conexiones
    <3>3. Acabado(e)'
      BY <2>1, <3>2 DEF Despedida, Acabado, EnServicio, EsOperacion, varsEsi, varsCoord
    <3>4. \A f \in Esis : ~Aguardado(f)'
      BY <3>1 DEF Aguardado, Nadie
    <3>5. memoria'[e] = "terminando" /\ \A f \in Esis : f # e => memoria'[f] = memoria[f]
      BY <1>t, <3>1
    <3>6. VueltaDe(e)'
      BY <2>3, <3>1, <3>3, <3>5 DEF VueltaDe
    <3>7. UnaVictima'
      BY <2>3, <3>1, <3>5 DEF UnaVictima, ConVictima, Nadie
    <3>. QED BY <2>6, <3>4, <3>5, <3>6, <3>7 DEF Vueltas
  <2>. QED BY <1>3, <2>7, <2>8
<1>. QED BY <1>1, <1>2, <1>3 DEF Planificar

\* terminar_esi closes the connection of an ESI that has nothing under way.
LEMMA TerminarVuelta ==
    ASSUME InvVuelta, TerminarEsi, UNCHANGED <<varsEsi, varsCoord>>
    PROVE  UnaVictima' /\ Vueltas'
<1>0. InvTipos /\ UnaVictima /\ \A f \in Esis : VueltaDe(f)
  BY DEF InvVuelta, InvSoporte, InvCuenta, Vueltas
<1>t. /\ planAEsi \in [Esis -> Seq(Ordenes)] /\ memoria \in [Esis -> Memorias]
      /\ terminando \in [paso : Pasos, victima : Esis \cup {NULL}, origen : Origenes, i : Nat]
  BY <1>0 DEF InvTipos, TypeOK, ProtocoloTypeOK, PlanificadorTypeOK
<1>1. CASE TerminarDesbloquear \/ TerminarEliminar \/ TerminarSiguientePaso
  <2>1. /\ terminando.paso \in ConVictima /\ terminando'.paso \in ConVictima
        /\ terminando'.victima = terminando.victima
    BY <1>1, <1>t, AvanzarTipo DEF TerminarDesbloquear, TerminarEliminar, TerminarSiguientePaso,
       ConVictima
  <2>2. UNCHANGED <<memoria, mutex_listas, planAEsi, esiAPlan, esiACoord, coordAEsi>>
    BY <1>1 DEF TerminarDesbloquear, TerminarEliminar, TerminarSiguientePaso, campos, canales
  <2>3. EnReposo /\ EnReposo'
    BY <2>1 DEF EnReposo, Aguardado, Nadie, ConVictima
  <2>4. UnaVictima'
    BY <1>0, <2>1, <2>2 DEF UnaVictima, ConVictima
  <2>. QED BY <2>2, <2>3, <2>4, PlanLejos
<1>2. CASE TerminarLiberar
  <2>0. PICK v \in Esis : v = terminando.victima
    BY <1>0, <1>2 DEF TerminarLiberar, InvTipos, PunterosReales, ConVictima
  <2>1. /\ terminando.paso = "liberar" /\ terminando.victima = v /\ memoria[v] = "terminando"
        /\ memoria' = [memoria EXCEPT ![v] = "liberada"]
        /\ planAEsi' = Enviar(planAEsi, v, "FALLO_AL_RECIBIR")
        /\ terminando' = Nadie \/ (terminando' = [Nadie EXCEPT !.paso = "sem_wait"]
                                   /\ mutex_listas = "consola")
        /\ pc' = IF mutex_listas = "planificar" THEN "inicio" ELSE pc
        /\ UNCHANGED <<esiAPlan, esiACoord, coordAEsi>>
    BY <1>0, <1>2, <2>0 DEF TerminarLiberar, UnaVictima, ConVictima
  <2>2. \A f \in Esis : f # v => memoria[f] # "terminando" /\ memoria'[f] = memoria[f]
    BY <1>0, <1>t, <2>1 DEF UnaVictima
  <2>3. EnReposo
    BY <2>1 DEF EnReposo, Aguardado, Nadie
  <2>4. EnReposo'
    <3>1. pc' # "espera_respuesta"
      BY <2>1, MutexLibre
    <3>. QED BY <3>1 DEF EnReposo, Aguardado
  <2>5. memoria'[v] = "liberada"
    BY <1>t, <2>1
  <2>6. UnaVictima'
    BY <2>1, <2>2, <2>5 DEF UnaVictima, Nadie, ConVictima
  <2>7. ASSUME NEW f \in Esis, f # v PROVE VueltaDe(f)'
    <3>1. planAEsi'[f] = planAEsi[f]
      BY <1>t, <2>1, <2>7 DEF Enviar
    <3>2. UNCHANGED Local(f)
      BY <2>1, <3>1 DEF Local, varsEsi, varsCoord
    <3>3. (Quieto(f)' <=> Quieto(f)) /\ (Echado(f)' <=> Echado(f)) /\ (Acabado(f)' <=> Acabado(f))
      BY <3>2, LocalIgual
    <3>. QED BY <1>0, <2>2, <2>3, <2>4, <2>7, <3>3 DEF VueltaDe, EnReposo
  <2>8. Quieto(v) \/ Acabado(v)
    BY <1>0, <2>1 DEF VueltaDe
  <2>9. Quieto(v) => Echado(v)'
    <3>1. Quieto(v) => planAEsi'[v] = <<"FALLO_AL_RECIBIR">>
      BY <1>t, <2>1, Mensajes DEF Quieto, Conexiones, Enviar
    <3>. QED BY <2>1, <3>1 DEF Quieto, Echado, EntreOrdenes, Conexiones, varsEsi, varsCoord
  <2>10. Acabado(v) => Acabado(v)'
    BY <2>1 DEF Acabado, EnServicio, EsOperacion, varsEsi, varsCoord
  <2>11. VueltaDe(v)'
    BY <2>4, <2>5, <2>8, <2>9, <2>10 DEF VueltaDe, EnReposo
  <2>. QED BY <2>6, <2>7, <2>11 DEF Vueltas
<1>. QED BY <1>1, <1>2 DEF TerminarEsi

\* soporte, pausar, continuar and the commands on the lists do not go near it.
LEMMA AjenoVuelta ==
    ASSUME InvVuelta, Soporte \/ ConsolaPausar \/ ConsolaContinuar \/ UsoIndebido
                      \/ (\E e \in Esis, k \in Claves : ConsolaBloquearEjecutando(e, k))
                      \/ (\E k \in Claves : ConsolaDesbloquear(k)),
           UNCHANGED <<varsEsi, varsCoord>>
    PROVE  UnaVictima' /\ Vueltas'
<1>1. UNCHANGED <<memoria, pc, terminando, esi_a_ejecutar, mutex_listas,
                  planAEsi, esiAPlan, esiACoord, coordAEsi>>
  BY DEF Soporte, SoporteClaveLibre, SoporteBloquearEsi, SoporteBloquearClave, SoporteClaveDeEsi,
     SoporteDesbloquearClave, Atender, ConsolaPausar, ConsolaContinuar, UsoIndebido,
     ConsolaBloquearEjecutando, ConsolaDesbloquear, varsPlan, hilos, campos, canales
<1>2. UnaVictima'
  BY <1>1 DEF InvVuelta, UnaVictima
<1>. QED BY <1>1, <1>2, PlanLejos

\* kill and bloquear, which take the mutex and keep it.
LEMMA ConsolaVuelta ==
    ASSUME InvVuelta, Consola, UNCHANGED <<varsEsi, varsCoord>>
    PROVE  UnaVictima' /\ Vueltas'
<1>0. UnaVictima /\ \A f \in Esis : VueltaDe(f)
  BY DEF InvVuelta, Vueltas
<1>t. memoria \in [Esis -> Memorias]
  BY DEF InvVuelta, InvSoporte, InvCuenta, InvTipos, TypeOK, PlanificadorTypeOK
<1>1. CASE ConsolaSemWait
  <2>1. /\ terminando.paso = "sem_wait" /\ terminando' = Nadie
        /\ UNCHANGED <<memoria, pc, planAEsi, esiAPlan, esiACoord, coordAEsi>>
    BY <1>1 DEF ConsolaSemWait, campos, canales
  <2>2. mutex_listas = "consola"
    BY <2>1 DEF InvVuelta, InvSoporte, InvCuenta, Cuenta, MutexDeQuienTermina
  <2>3. EnReposo /\ EnReposo'
    BY <2>1, <2>2, MutexLibre DEF EnReposo, Aguardado
  <2>4. \A f \in Esis : memoria[f] # "terminando"
    BY <1>0, <2>1 DEF UnaVictima, ConVictima
  <2>5. UnaVictima'
    BY <2>1, <2>4 DEF UnaVictima, Nadie, ConVictima
  <2>. QED BY <2>1, <2>3, <2>4, <2>5, PlanLejos
<1>2. ASSUME NEW e \in Esis, NEW k \in Claves, ConsolaBloquearListo(e, k)
      PROVE  UnaVictima' /\ Vueltas'
  <2>1. /\ mutex_listas = "libre" /\ terminando' = [Nadie EXCEPT !.paso = "sem_wait"]
        /\ UNCHANGED <<memoria, pc, planAEsi, esiAPlan, esiACoord, coordAEsi>>
    BY <1>2 DEF ConsolaBloquearListo, Comando, canales
  <2>2. EnReposo /\ EnReposo'
    BY <2>1, MutexLibre DEF EnReposo, Aguardado
  <2>3. \A f \in Esis : memoria[f] # "terminando"
    BY <2>1, NadieTermina
  <2>4. UnaVictima'
    BY <2>1, <2>3 DEF UnaVictima, Nadie, ConVictima
  <2>. QED BY <2>1, <2>2, <2>3, <2>4, PlanLejos
<1>3. ASSUME NEW e \in Esis, ConsolaKill(e) PROVE UnaVictima' /\ Vueltas'
  <2>1. /\ mutex_listas = "libre" /\ mutex_listas' = "consola" /\ Legible(e)
        /\ memoria' = [memoria EXCEPT ![e] = "terminando"]
        /\ terminando'.paso = "desbloquear" /\ terminando'.victima = e
        /\ UNCHANGED <<pc, planAEsi, esiAPlan, esiACoord, coordAEsi>>
    BY <1>3 DEF ConsolaKill, Comando, EmpezarTerminar, canales
  <2>2. EnReposo /\ EnReposo'
    BY <2>1, MutexLibre DEF EnReposo, Aguardado
  <2>3. \A f \in Esis : memoria[f] # "terminando"
    BY <2>1, NadieTermina
  <2>4. memoria'[e] = "terminando" /\ \A f \in Esis : f # e => memoria'[f] = memoria[f]
    BY <1>t, <2>1
  <2>5. UnaVictima'
    BY <2>1, <2>3, <2>4 DEF UnaVictima, ConVictima
  <2>6. ASSUME NEW f \in Esis
        PROVE  /\ Quieto(f)' <=> Quieto(f)
               /\ Echado(f)' <=> Echado(f)
               /\ Acabado(f)' <=> Acabado(f)
    <3>1. UNCHANGED Local(f)
      BY <2>1 DEF Local, varsEsi, varsCoord
    <3>. QED BY <3>1, LocalIgual
  <2>7. VueltaDe(e)'
    <3>1. Quieto(e)
      BY <1>0, <2>1, <2>2, <2>3 DEF VueltaDe, EnReposo, Legible
    <3>. QED BY <2>1, <2>4, <2>6, <3>1 DEF VueltaDe
  <2>8. ASSUME NEW f \in Esis, f # e PROVE VueltaDe(f)'
    BY <1>0, <2>2, <2>3, <2>4, <2>6, <2>8 DEF VueltaDe, EnReposo
  <2>. QED BY <2>5, <2>7, <2>8 DEF Vueltas
<1>. QED BY <1>1, <1>2, <1>3, AjenoVuelta DEF Consola

\* A new ESI has nothing under way.
LEMMA AgregarVuelta ==
    ASSUME InvVuelta, NEW e \in Esis, AgregarNuevoEsi(e), UNCHANGED <<varsEsi, varsCoord>>
    PROVE  UnaVictima' /\ Vueltas'
<1>0. UnaVictima /\ \A f \in Esis : VueltaDe(f)
  BY DEF InvVuelta, Vueltas
<1>1. /\ mutex_listas = "libre" /\ memoria[e] = "sin_crear"
      /\ memoria' = [memoria EXCEPT ![e] = "viva"]
      /\ UNCHANGED <<pc, terminando, esi_a_ejecutar, planAEsi, esiAPlan, esiACoord, coordAEsi>>
  BY DEF AgregarNuevoEsi, hilos, canales
<1>2. memoria'[e] = "viva" /\ \A f \in Esis : f # e => memoria'[f] = memoria[f]
  BY <1>1 DEF InvVuelta, InvSoporte, InvCuenta, InvTipos, TypeOK, PlanificadorTypeOK
<1>3. terminando = Nadie /\ \A f \in Esis : memoria[f] # "terminando"
  BY <1>1, NadieTermina
<1>4. EnReposo /\ EnReposo'
  BY <1>1, MutexLibre DEF EnReposo, Aguardado
<1>5. UnaVictima'
  BY <1>1, <1>2, <1>3 DEF UnaVictima, Nadie, ConVictima
<1>6. ASSUME NEW f \in Esis PROVE VueltaDe(f)'
  <2>1. UNCHANGED Local(f)
    BY <1>1 DEF Local, varsEsi, varsCoord
  <2>2. (Quieto(f)' <=> Quieto(f)) /\ (Echado(f)' <=> Echado(f)) /\ (Acabado(f)' <=> Acabado(f))
    BY <2>1, LocalIgual
  <2>. QED BY <1>0, <1>1, <1>2, <1>3, <1>4, <2>2 DEF VueltaDe, EnReposo
<1>. QED BY <1>5, <1>6 DEF Vueltas

\* Without Ctrl-C every step leaves each ESI in one of the situations.
LEMMA PasoVuelta == InvVuelta /\ [Next]_vars => InvVuelta'
<1>. SUFFICES ASSUME InvVuelta, [Next]_vars PROVE InvVuelta'
  OBVIOUS
<1>0. SinCtrlC' /\ InvSoporte' /\ UnaVictima
  BY PasoSoporte DEF InvVuelta, SinCtrlC
<1>1. CASE DePlan(PlanificadorNext)
  <2>1. UNCHANGED <<varsEsi, varsCoord>>
    BY <1>1 DEF DePlan
  <2>2. UnaVictima' /\ Vueltas'
    BY <1>1, <2>1, PlanificarVuelta, TerminarVuelta, AjenoVuelta, ConsolaVuelta, AgregarVuelta
       DEF DePlan, PlanificadorNext
  <2>. QED BY <1>0, <2>2 DEF InvVuelta
<1>2. CASE DeEsi(EsiNext) \/ DeCoord(CoordinadorNext)
  <2>1. UNCHANGED varsPlan
    BY <1>2 DEF DeEsi, DeCoord
  <2>2. UnaVictima'
    BY <1>0, <2>1 DEF UnaVictima, varsPlan, hilos, campos
  <2>3. Vueltas'
    BY <1>2, EsiVuelta, CoordVuelta DEF DeEsi, DeCoord
  <2>. QED BY <1>0, <2>2, <2>3 DEF InvVuelta
<1>3. CASE UNCHANGED vars
  <2>1. UNCHANGED <<varsPlan, varsEsi, varsCoord, planAEsi, esiAPlan, esiACoord, coordAEsi>>
    BY <1>3 DEF vars, canales
  <2>2. UNCHANGED <<memoria, pc, terminando, esi_a_ejecutar, mutex_listas>>
    BY <2>1 DEF varsPlan, hilos, campos
  <2>3. UnaVictima'
    BY <1>0, <2>2 DEF UnaVictima
  <2>. QED BY <1>0, <2>1, <2>2, <2>3, PlanLejos DEF InvVuelta
<1>. QED BY <1>1, <1>2, <1>3 DEF Next, Reposo

LEMMA InicioVuelta == Init /\ SinCtrlC => InvVuelta
<1>. SUFFICES ASSUME Init, SinCtrlC PROVE InvVuelta
  OBVIOUS
<1>1. UnaVictima
  BY DEF Init, PlanificadorInit, UnaVictima, Nadie, ConVictima
<1>2. ASSUME NEW e \in Esis PROVE VueltaDe(e)
  BY DEF Init, ProtocoloInit, PlanificadorInit, EsiInit, CoordinadorInit, VueltaDe, Aguardado,
     Quieto, EntreOrdenes, Conexiones
<1>. QED BY <1>1, <1>2, InicioSoporte DEF InvVuelta, Vueltas

LEMMA VueltaSiempre == Spec /\ SinCtrlC => []InvVuelta
BY InicioVuelta, PasoVuelta, PTL DEF Spec

LEMMA ProtegeSoporte == InvVuelta => SoporteProtegido
<1>1. SUFFICES ASSUME InvVuelta, NEW e \in Esis, hilo[e] \in EnOperacion
               PROVE  /\ esi_a_ejecutar = e /\ memoria[e] = "viva"
                      /\ mutex_listas = "planificar" /\ pc = "espera_respuesta"
                      /\ terminando = Nadie
  BY DEF SoporteProtegido
<1>2. Aguardado(e) /\ memoria[e] = "viva"
  BY <1>1, SoloServida DEF InvVuelta, Vueltas, EnServicio
<1>. QED BY <1>1, <1>2 DEF Aguardado, InvVuelta, InvSoporte, InvCuenta, Cuenta, MutexDePlanificar

\* While the Coordinador serves an ESI nobody else touches the scheduler: soporte
\* needs no mutex as long as no ESI is interrupted.
THEOREM SoporteSinMutex == Spec /\ SinCtrlC => []SoporteProtegido
BY ProtegeSoporte, VueltaSiempre, PTL

\* "Se supone que se hace STORE sobre el ESI que esta ejecutando": it is so, as
\* long as no ESI is interrupted in the middle of its STORE.
THEOREM StoreSinCtrlC == Spec /\ SinCtrlC => []StoreDelEjecutando
<1>1. SoporteProtegido => StoreDelEjecutando
  BY DEF SoporteProtegido, StoreDelEjecutando, EnOperacion
<1>. QED BY <1>1, SoporteSinMutex, PTL

\* In each situation of an instruction one thing carries it.
LEMMA UnPortador ==
    ASSUME InvTipos, NEW e \in Esis, EnCurso(e)
    PROVE  \E c \in {"orden", "esi", "pedido", "hilo", "resultado", "respuesta"} :
              Portadores(e) = {c}
<1>1. \A m : Head(<<m>>) = m /\ <<m>> # <<>>
  BY Mensajes
<1>2. \A m, n : <<m, n>> # <<>>
  BY Mensajes
<1>3. ASSUME Ordenada(e) PROVE Portadores(e) = {"orden"}
  BY <1>1, <1>3 DEF Portadores, Ordenada, EntreOrdenes, Conexiones, EnOperacion
<1>4. ASSUME Leida(e) PROVE Portadores(e) = {"esi"}
  BY <1>4 DEF Portadores, Leida, Conexiones, EnOperacion
<1>5. ASSUME Pedida(e) PROVE Portadores(e) = {"pedido"}
  BY <1>1, <1>5 DEF Portadores, Pedida, Conexiones, EnOperacion
<1>6. ASSUME Servida(e) PROVE Portadores(e) = {"hilo"}
  BY <1>6 DEF Portadores, Servida, EnServicio, Conexiones
<1>7. ASSUME Resuelta(e) PROVE Portadores(e) = {"resultado"}
  BY <1>1, <1>2, <1>7 DEF Portadores, Resuelta, Conexiones, EnOperacion
<1>8. ASSUME PorContestar(e) PROVE Portadores(e) = {"esi"}
  BY <1>8 DEF Portadores, PorContestar, Conexiones, EnOperacion
<1>9. ASSUME Contestada(e) PROVE Portadores(e) = {"respuesta"}
  BY <1>1, <1>9 DEF Portadores, Contestada, EntreOrdenes, Conexiones, EnOperacion
<1>10. ASSUME Despedida(e) PROVE Portadores(e) = {"respuesta"}
  <2>1. esiACoord[e] \in Seq(PedidosEsi)
    BY DEF InvTipos, TypeOK, ProtocoloTypeOK
  <2>2. esiACoord[e] # <<>> => 1 \in DOMAIN esiACoord[e] /\ Head(esiACoord[e]) = esiACoord[e][1]
    BY <2>1, LenProperties, EmptySeq
  <2>3. esiACoord[e] # <<>> => Head(esiACoord[e]).head \notin Operaciones
    BY <1>10, <2>2 DEF Despedida, Acabado
  <2>. QED BY <1>2, <1>10, <2>3 DEF Portadores, Despedida, Acabado, EnServicio
<1>. QED BY <1>3, <1>4, <1>5, <1>6, <1>7, <1>8, <1>9, <1>10 DEF EnCurso

\* What planificar waits for, holding mutex_listas, is on its way.
THEOREM InstruccionEnCamino == Spec /\ SinCtrlC => []RespuestaEnCamino
<1>1. ASSUME InvVuelta PROVE RespuestaEnCamino
  <2>1. SUFFICES ASSUME pc = "espera_respuesta", terminando = Nadie
                 PROVE  Cardinality(Portadores(esi_a_ejecutar)) = 1
    BY DEF RespuestaEnCamino
  <2>2. PICK e \in Esis : e = esi_a_ejecutar
    BY <1>1, <2>1 DEF InvVuelta, InvSoporte, InvCuenta, InvTipos, PunterosReales
  <2>3. Aguardado(e) /\ VueltaDe(e) /\ memoria[e] # "terminando"
    BY <1>1, <2>1, <2>2 DEF Aguardado, InvVuelta, Vueltas, UnaVictima, Nadie, ConVictima
  <2>4. EnCurso(e)
    BY <2>3 DEF VueltaDe
  <2>5. PICK c : Portadores(e) = {c}
    BY <1>1, <2>4, UnPortador DEF InvVuelta, InvSoporte, InvCuenta
  <2>. QED BY <2>2, <2>5, FS_Singleton
<1>. QED BY <1>1, VueltaSiempre, PTL

\* The order never goes to an ESI that has closed its connection.
THEOREM OrdenAQuienEscucha == Spec /\ SinCtrlC => []OrdenSinSigpipe
<1>1. ASSUME InvVuelta PROVE OrdenSinSigpipe
  <2>1. SUFFICES ASSUME pc = "despachar", DespachoValido
                 PROVE  ~Cerrado(esiAPlan, esi_a_ejecutar)
    BY DEF OrdenSinSigpipe
  <2>2. PICK e \in Esis : e = esi_a_ejecutar
    BY <1>1, <2>1 DEF InvVuelta, InvSoporte, InvCuenta, InvTipos, TypeOK, PlanificadorTypeOK,
       DespachoValido
  <2>3. VueltaDe(e) /\ ~Aguardado(e) /\ Legible(e)
    BY <1>1, <2>1, <2>2 DEF Aguardado, InvVuelta, Vueltas, DespachoValido
  <2>4. memoria[e] = "terminando" => mutex_listas = "consola"
    <3>1. memoria[e] = "terminando" => mutex_listas # "libre"
      BY <1>1, NadieTermina DEF InvVuelta
    <3>2. mutex_listas # "planificar"
      BY <1>1, <2>1 DEF InvVuelta, InvSoporte, InvCuenta, Cuenta, MutexDePlanificar
    <3>. QED BY <1>1, <3>1, <3>2 DEF InvVuelta, InvSoporte, InvCuenta, InvTipos, TypeOK,
         PlanificadorTypeOK
  <2>5. Quieto(e)
    BY <2>3, <2>4 DEF VueltaDe, Legible
  <2>6. ToSet(<<>>) = {}
    BY DEF ToSet
  <2>. QED BY <2>2, <2>5, <2>6 DEF Quieto, Conexiones, Cerrado
<1>. QED BY <1>1, VueltaSiempre, PTL
=============================================================================
