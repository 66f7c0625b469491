------------------------------ MODULE Protocolo ------------------------------
(***************************************************************************)
(* The connections of Re Distinto (bibliotecas_compartidas/protocolo.c).   *)
(*                                                                         *)
(* Every pair of processes talks over one TCP connection per direction: a  *)
(* FIFO sequence of messages.  A message is its header, with the key when  *)
(* a guard reads it.  prot_enviar_mensaje's two sends (size, then bytes)   *)
(* are one Append, prot_recibir_mensaje's two recvs one Tail.  Closing a   *)
(* socket appends FALLO_AL_RECIBIR: what the peer's prot_recibir_mensaje   *)
(* returns once it has drained the connection.                             *)
(***************************************************************************)
EXTENDS Integers, SequencesExt

CONSTANTS
    Esis,          \* the ESI processes that may connect
    Claves,        \* the keys the scripts, the console and the configuration name
    ClavesLargas,  \* those of Claves with strlen >= LARGO_MAXIMO_CLAVE
    NULL           \* the null pointer

ASSUME ProtocoloAssumption ==
    /\ NULL \notin Esis
    /\ NULL \notin Claves
    /\ ClavesLargas \subseteq Claves

VARIABLES
    planAEsi,      \* [Esis -> Seq]: Planificador -> ESI
    esiAPlan,      \* [Esis -> Seq]: ESI -> Planificador
    esiACoord,     \* [Esis -> Seq]: ESI -> Coordinador
    coordAEsi,     \* [Esis -> Seq]: Coordinador -> ESI
    coordAPlan,    \* Seq: Coordinador -> Planificador (soporte)
    planACoord,    \* Seq: Planificador (soporte) -> Coordinador
    caida          \* how a process of the system died, if one did

canales == <<planAEsi, esiAPlan, esiACoord, coordAEsi, coordAPlan, planACoord>>

-----------------------------------------------------------------------------
(* Headers (t_header), by connection.                                      *)
Ordenes      == {"EJECUTAR_SCRIPTS", "FALLO_AL_RECIBIR"}
Respuestas   == {"EJECUCION_CORRECTA", "EJECUCION_FALLO", "SCRITP_FINALIZADO",
                 "DESCONEXION", "FALLO_AL_RECIBIR"}
Operaciones  == {"SOLICITAR_CLAVE", "ASIGNAR_VALOR", "PERSISTIR_CLAVE"}
Avisos       == {"SCRITP_FINALIZADO", "DESCONEXION", "FALLO_AL_RECIBIR"}
PedidosEsi   == [head : Operaciones, clave : Claves] \cup [head : Avisos, clave : {NULL}]
Resultados   == {"CLAVE_LIBRE", "CLAVE_YA_BLOQUEADA", "RESULTADO_OPERACION_CORRECTA",
                 "RESULTADO_OPERACION_FALLO", "FALLO_AL_RECIBIR"}
PedidosCoord == [head : {"SOLICITUD_CLAVE_LIBRE", "SOLICITUD_CLAVE_BLOQUEADA_POR_ESI",
                         "BLOQUEAR_ESI", "BLOQUEAR_CLAVE_PARA_ESI_EJECUTANDO",
                         "DESBLOQUEAR_CLAVE_DEL_ESI_EJECUTANDO"},
                 clave : Claves]
RespuestasSoporte == {"RESPUESTA_CLAVE_LIBRE", "RESPUESTA_CLAVE_BLOQUEADA",
                      "RESPUESTA_CLAVE_BLOQUEADA_POR_ESI_OK",
                      "RESPUESTA_CLAVE_BLOQUEADA_POR_ESI_FALLO", "ORDEN_EJECUTADA"}

(* What stops the system: undefined behaviour (a freed or null pointer is  *)
(* dereferenced, a block is freed twice).                                  *)
Caidas == {"ninguna", "indefinido"}

-----------------------------------------------------------------------------
Mensaje(h, k) == [head |-> h, clave |-> k]

(* prot_enviar_mensaje on the connection of e; closing that connection.    *)
Enviar(canal, e, m) == [canal EXCEPT ![e] = Append(@, m)]
Recibido(canal, e)  == [canal EXCEPT ![e] = Tail(@)]

(* The peer has closed its end, whether or not this side has noticed.      *)
Cerrado(canal, e) == "FALLO_AL_RECIBIR" \in ToSet(canal[e])

ProtocoloTypeOK ==
    /\ planAEsi \in [Esis -> Seq(Ordenes)]
    /\ esiAPlan \in [Esis -> Seq(Respuestas)]
    /\ esiACoord \in [Esis -> Seq(PedidosEsi)]
    /\ coordAEsi \in [Esis -> Seq(Resultados)]
    /\ coordAPlan \in Seq(PedidosCoord)
    /\ planACoord \in Seq(RespuestasSoporte)
    /\ caida \in Caidas

ProtocoloInit ==
    /\ planAEsi = [e \in Esis |-> <<>>]
    /\ esiAPlan = [e \in Esis |-> <<>>]
    /\ esiACoord = [e \in Esis |-> <<>>]
    /\ coordAEsi = [e \in Esis |-> <<>>]
    /\ coordAPlan = <<>>
    /\ planACoord = <<>>
    /\ caida = "ninguna"
=============================================================================
