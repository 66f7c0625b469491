--------------------------------- MODULE ESI ---------------------------------
(***************************************************************************)
(* The ESI processes (proyecto-esi): each runs its script one instruction  *)
(* per order of the Planificador, through the Coordinador, and may be      *)
(* interrupted with Ctrl-C.  EJECUCION_* answers go to the Planificador.   *)
(***************************************************************************)
EXTENDS Protocolo

CONSTANTS
    Guiones,        \* the scripts: sequences of instructions
    Interrumpibles  \* the ESIs the user may interrupt with Ctrl-C

Instrucciones == [op : {"GET", "SET", "STORE"}, clave : Claves]
                    \cup [op : {"INVALIDA"}, clave : {NULL}]

ASSUME EsiAssumption ==
    /\ Guiones \subseteq Seq(Instrucciones)
    /\ Interrumpibles \subseteq Esis

VARIABLES
    guion,       \* [Esis -> Guiones]
    linea,       \* [Esis -> Nat]: lines read so far
    pendiente,   \* [Esis -> BOOLEAN]: hay_operacion_pendiente
    resultado,   \* [Esis -> what the ESI is about to answer]
    fase         \* [Esis -> Fases]: where main, or the handler, is

varsEsi == <<guion, linea, pendiente, resultado, fase>>

\* ejecutando_instrucciones is set on leaving "recibio", reset on leaving "contesto".
Ejecutando == {"leer", "espera_coord", "contestar", "contesto"}
Fases == Ejecutando \cup {"espera_orden", "recibio", "int_coord", "int_plan", "fin"}

EsiTypeOK ==
    /\ guion \in [Esis -> Guiones]
    /\ linea \in [Esis -> Nat]
    /\ pendiente \in [Esis -> BOOLEAN]
    /\ resultado \in [Esis -> {"EJECUCION_CORRECTA", "EJECUCION_FALLO"}]
    /\ fase \in [Esis -> Fases]

EsiInit ==
    /\ guion \in [Esis -> Guiones]
    /\ linea = [e \in Esis |-> 0]
    /\ pendiente = [e \in Esis |-> FALSE]
    /\ resultado = [e \in Esis |-> "EJECUCION_CORRECTA"]
    /\ fase = [e \in Esis |-> "espera_orden"]

-----------------------------------------------------------------------------
PasarA(e, desde, hasta) == fase[e] = desde /\ fase' = [fase EXCEPT ![e] = hasta]

(* finalizar, after the last messages: both sockets are closed.            *)
Finalizar(e, ultimos, aviso) ==
    /\ fase' = [fase EXCEPT ![e] = "fin"]
    /\ esiAPlan' = [esiAPlan EXCEPT ![e] = @ \o ultimos \o <<"FALLO_AL_RECIBIR">>]
    /\ esiACoord' = [esiACoord EXCEPT ![e] =
                        @ \o aviso \o <<Mensaje("FALLO_AL_RECIBIR", NULL)>>]

EsiRecibirOrden(e) ==
    /\ planAEsi[e] # <<>>
    /\ planAEsi' = Recibido(planAEsi, e)
    /\ \/ /\ Head(planAEsi[e]) = "EJECUTAR_SCRIPTS"
          /\ PasarA(e, "espera_orden", "recibio")
          /\ UNCHANGED <<esiAPlan, esiACoord>>
       \/ /\ Head(planAEsi[e]) # "EJECUTAR_SCRIPTS"
          /\ fase[e] = "espera_orden"
          /\ Finalizar(e, <<>>, <<>>)
    /\ UNCHANGED <<guion, linea, pendiente, resultado, coordAEsi, coordAPlan, planACoord, caida>>

EsiEmpezar(e) ==
    /\ PasarA(e, "recibio", "leer")
    /\ UNCHANGED <<guion, linea, pendiente, resultado, canales, caida>>

(* The line to run: the one a blocked GET left pending, or the next one.   *)
LineaActual(e) == IF pendiente[e] THEN linea[e] ELSE linea[e] + 1
HayLinea(e) == LineaActual(e) <= Len(guion[e])
Actual(e) == guion[e][LineaActual(e)]

Solicitud(i) ==
    Mensaje(CASE i.op = "GET" -> "SOLICITAR_CLAVE"
              [] i.op = "SET" -> "ASIGNAR_VALOR"
              [] OTHER        -> "PERSISTIR_CLAVE", i.clave)

EsiPedirOperacion(e) ==
    /\ PasarA(e, "leer", "espera_coord")
    /\ HayLinea(e)
    /\ Actual(e).op # "INVALIDA"
    /\ linea' = [linea EXCEPT ![e] = LineaActual(e)]
    /\ pendiente' = [pendiente EXCEPT ![e] = TRUE]
    /\ esiACoord' = Enviar(esiACoord, e, Solicitud(Actual(e)))
    /\ UNCHANGED <<guion, resultado, planAEsi, esiAPlan, coordAEsi, coordAPlan,
                   planACoord, caida>>

EsiLineaInvalida(e) ==
    /\ fase[e] = "leer"
    /\ HayLinea(e)
    /\ Actual(e).op = "INVALIDA"
    /\ linea' = [linea EXCEPT ![e] = LineaActual(e)]
    /\ Finalizar(e, <<"EJECUCION_FALLO">>, <<>>)
    /\ UNCHANGED <<guion, pendiente, resultado, planAEsi, coordAEsi, coordAPlan,
                   planACoord, caida>>

EsiFinDeGuion(e) ==
    /\ fase[e] = "leer"
    /\ ~HayLinea(e)
    /\ Finalizar(e, <<"SCRITP_FINALIZADO">>, <<Mensaje("SCRITP_FINALIZADO", NULL)>>)
    /\ UNCHANGED <<guion, linea, pendiente, resultado, planAEsi, coordAEsi, coordAPlan,
                   planACoord, caida>>

(* OPERACION_GET, OPERACION_SET and OPERACION_STORE on the answer: a GET   *)
(* of a locked key succeeds and stays pending, a failure ends the ESI.     *)
EsiRecibirResultado(e) ==
    /\ PasarA(e, "espera_coord", "contestar")
    /\ coordAEsi[e] # <<>>
    /\ coordAEsi' = Recibido(coordAEsi, e)
    /\ LET r == Head(coordAEsi[e])
           es_get == guion[e][linea[e]].op = "GET"
           aceptados == IF es_get THEN {"CLAVE_LIBRE", "CLAVE_YA_BLOQUEADA"}
                                  ELSE {"RESULTADO_OPERACION_CORRECTA"}
       IN  /\ resultado' = [resultado EXCEPT ![e] =
                  IF r \in aceptados THEN "EJECUCION_CORRECTA" ELSE "EJECUCION_FALLO"]
           /\ pendiente' = [pendiente EXCEPT ![e] =
                  r \notin {"CLAVE_LIBRE", "RESULTADO_OPERACION_CORRECTA"}]
    /\ UNCHANGED <<guion, linea, planAEsi, esiAPlan, esiACoord, coordAPlan, planACoord, caida>>

EsiContestar(e) ==
    /\ \/ /\ resultado[e] = "EJECUCION_CORRECTA"
          /\ PasarA(e, "contestar", "contesto")
          /\ esiAPlan' = Enviar(esiAPlan, e, "EJECUCION_CORRECTA")
          /\ UNCHANGED esiACoord
       \/ /\ resultado[e] = "EJECUCION_FALLO"
          /\ fase[e] = "contestar"
          /\ Finalizar(e, <<"EJECUCION_FALLO">>, <<>>)
    /\ UNCHANGED <<guion, linea, pendiente, resultado, planAEsi, coordAEsi, coordAPlan,
                   planACoord, caida>>

EsiFinInstruccion(e) ==
    /\ PasarA(e, "contesto", "espera_orden")
    /\ UNCHANGED <<guion, linea, pendiente, resultado, canales, caida>>

(* hander_ctrl_c: tell one server, wait for any message of the other.      *)
EsiCtrlC(e) ==
    /\ e \in Interrumpibles
    /\ \/ /\ fase[e] \in Ejecutando
          /\ fase' = [fase EXCEPT ![e] = "int_coord"]
          /\ esiAPlan' = Enviar(esiAPlan, e, "DESCONEXION")
          /\ UNCHANGED esiACoord
       \/ /\ fase[e] \in {"espera_orden", "recibio"}
          /\ fase' = [fase EXCEPT ![e] = "int_plan"]
          /\ esiACoord' = Enviar(esiACoord, e, Mensaje("DESCONEXION", NULL))
          /\ UNCHANGED esiAPlan
    /\ UNCHANGED <<guion, linea, pendiente, resultado, planAEsi, coordAEsi, coordAPlan,
                   planACoord, caida>>

EsiFinInterrupcion(e) ==
    /\ \/ fase[e] = "int_coord" /\ coordAEsi[e] # <<>>
       \/ fase[e] = "int_plan" /\ planAEsi[e] # <<>>
    /\ Finalizar(e, <<>>, <<>>)
    /\ UNCHANGED <<guion, linea, pendiente, resultado, planAEsi, coordAEsi, coordAPlan,
                   planACoord, caida>>

EsiNext == \E e \in Esis :
    \/ EsiRecibirOrden(e) \/ EsiEmpezar(e)
    \/ EsiPedirOperacion(e) \/ EsiLineaInvalida(e) \/ EsiFinDeGuion(e)
    \/ EsiRecibirResultado(e) \/ EsiContestar(e) \/ EsiFinInstruccion(e)
    \/ EsiCtrlC(e) \/ EsiFinInterrupcion(e)
=============================================================================
