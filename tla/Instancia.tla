------------------------------ MODULE Instancia ------------------------------
(***************************************************************************)
(* The threads of an Instancia (proyecto-instancia): escuchar_coordinador  *)
(* serves the requests of the Coordinador, dump persists the table every   *)
(* so often, and consola pauses and continues the former.                  *)
(*                                                                         *)
(* The table and the storage are left out: guardar_clave, setear_valor and *)
(* storear_valor are taken to answer, which they do when the value fits.   *)
(***************************************************************************)

VARIABLES
    pedido,                 \* the exchange with the Coordinador: see Pedidos
    lugar,                  \* escuchar_coordinador: see Lugares
    mutex_dump_compactar,   \* "libre", or the thread that holds it
    persistiendo,           \* dump is between its lock and its unlock
    pausado                 \* consola holds mutex_pausar_continuar

vars == <<pedido, lugar, mutex_dump_compactar, persistiendo, pausado>>

Pedidos == {"ninguno", "enviado", "recibido", "contestado", "cerrado", "cierre_recibido"}
Lugares == {"inicio", "pausa", "recibir", "mutex", "fin"}

TypeOK ==
    /\ pedido \in Pedidos
    /\ lugar \in Lugares
    /\ mutex_dump_compactar \in {"libre", "escuchar", "dump"}
    /\ persistiendo \in BOOLEAN
    /\ pausado \in BOOLEAN

Init ==
    /\ pedido = "ninguno"
    /\ lugar = "inicio"
    /\ mutex_dump_compactar = "libre"
    /\ persistiendo = FALSE
    /\ pausado = FALSE

-----------------------------------------------------------------------------
(* The Coordinador sends one request at a time (the thread that sends it   *)
(* holds mutex_mensaje_planificador) and waits for its answer in sem_wait. *)
CoordPide ==
    /\ pedido = "ninguno"
    /\ pedido' \in {"enviado", "cerrado"}
    /\ UNCHANGED <<lugar, mutex_dump_compactar, persistiendo, pausado>>

CoordRecibeRespuesta ==
    /\ pedido = "contestado"
    /\ pedido' = "ninguno"
    /\ UNCHANGED <<lugar, mutex_dump_compactar, persistiendo, pausado>>

-----------------------------------------------------------------------------
EscInicio ==
    /\ lugar = "inicio"
    /\ lugar' = IF pausado THEN "pausa" ELSE "recibir"
    /\ UNCHANGED <<pedido, mutex_dump_compactar, persistiendo, pausado>>

EscPausa ==
    /\ lugar = "pausa"
    /\ ~pausado
    /\ lugar' = "recibir"
    /\ UNCHANGED <<pedido, mutex_dump_compactar, persistiendo, pausado>>

EscRecibir ==
    /\ lugar = "recibir"
    /\ \/ pedido = "enviado" /\ pedido' = "recibido"
       \/ pedido = "cerrado" /\ pedido' = "cierre_recibido"
    /\ lugar' = "mutex"
    /\ UNCHANGED <<mutex_dump_compactar, persistiendo, pausado>>

(* The mutex is taken for every message and no path gives it back.         *)
EscAtender ==
    /\ lugar = "mutex"
    /\ mutex_dump_compactar = "libre"
    /\ mutex_dump_compactar' = "escuchar"
    /\ \/ pedido = "recibido" /\ pedido' = "contestado" /\ lugar' = "inicio"
       \/ pedido = "cierre_recibido" /\ lugar' = "fin" /\ UNCHANGED pedido
    /\ UNCHANGED <<persistiendo, pausado>>

DumpEmpieza ==
    /\ ~persistiendo
    /\ mutex_dump_compactar = "libre"
    /\ mutex_dump_compactar' = "dump"
    /\ persistiendo' = TRUE
    /\ UNCHANGED <<pedido, lugar, pausado>>

DumpTermina ==
    /\ persistiendo
    /\ mutex_dump_compactar' = "libre"
    /\ persistiendo' = FALSE
    /\ UNCHANGED <<pedido, lugar, pausado>>

Pausar ==
    /\ ~pausado
    /\ pausado' = TRUE
    /\ UNCHANGED <<pedido, lugar, mutex_dump_compactar, persistiendo>>

Continuar ==
    /\ pausado
    /\ pausado' = FALSE
    /\ UNCHANGED <<pedido, lugar, mutex_dump_compactar, persistiendo>>

Escuchar == EscInicio \/ EscPausa \/ EscRecibir \/ EscAtender

Next ==
    \/ CoordPide \/ CoordRecibeRespuesta
    \/ Escuchar
    \/ DumpEmpieza \/ DumpTermina
    \/ Pausar \/ Continuar

(* Every thread that can go on does; the mutexes are granted fairly even   *)
(* though dump and consola take theirs again and again; whoever pauses the *)
(* instance continues it.                                                  *)
SpecJusta ==
    /\ Init /\ [][Next]_vars
    /\ WF_vars(CoordRecibeRespuesta) /\ WF_vars(DumpTermina) /\ WF_vars(Continuar)
    /\ WF_vars(EscInicio \/ EscRecibir) /\ SF_vars(EscPausa) /\ SF_vars(EscAtender)

-----------------------------------------------------------------------------
(* "Enviar mensaje Coordinador": every request of the Coordinador is       *)
(* answered, CLAVE_GUARDADA or CLAVE_NO_GUARDADA for a GET.                *)
PedidoContestado == pedido = "enviado" ~> pedido = "contestado"
=============================================================================
