----------------------------- MODULE Distribucion -----------------------------
(***************************************************************************)
(* The Coordinador and its instances: escuchar_instancia, one thread per   *)
(* connected instance, the three distribution algorithms, the exchange of  *)
(* an operation with the instance it chose, and the status request.        *)
(*                                                                         *)
(* mutex_mensaje_planificador lets one operation at a time come here: it   *)
(* is oper.  What soporte allows (a GET of a key nobody owns, a SET or a   *)
(* STORE of an own key) is dueno.  An instance is a connection: one that   *)
(* comes back is another member of Instancias.                             *)
(***************************************************************************)
EXTENDS Integers, FiniteSetsExt, SequencesExt

CONSTANTS
    Instancias, Esis, Claves, NULL,
    Algoritmos,       \* the values of config_info.algoritmo_distribucion tried
    Letra,            \* [Claves -> Nat]: first letter, 0 for 'a'; 26 and up are not letters
    Largo,            \* [Claves -> Nat]: strlen of the key
    EspacioTotal,     \* espacio_memoria_total, the same for every instance
    Desconectables,   \* the instances that may close their connection
    MaxOperaciones,   \* bound on the operations
    MaxStatus         \* bound on the status requests

CANTIDAD_DE_LETRAS == 26
Heads == {"GET", "SET", "STORE"}
Respuestas == {"CLAVE_GUARDADA", "VALOR_SETEADO", "VALOR_NO_SETEADO",
               "CLAVE_STOREADA", "CLAVE_NO_STOREADA"}

ASSUME DistribucionAssumption ==
    /\ NULL \notin Instancias \cup Esis \cup Claves \cup Respuestas
    /\ NULL \notin [head : Heads, clave : Claves]
    /\ Algoritmos \subseteq {"EL", "LSU", "KE"}
    /\ Letra \in [Claves -> Nat] /\ Largo \in [Claves -> Nat]
    /\ EspacioTotal \in Nat
    /\ MaxOperaciones \in Nat /\ MaxStatus \in Nat

VARIABLES
    algoritmo,            \* config_info.algoritmo_distribucion
    lista_instancias,     \* Seq(Instancias)
    prox_instancia_a_seleccionar,
    espacio_utilizado,    \* [Instancias -> Int]
    registro_claves,      \* Seq of entries [clave, instancia]
    mutex_instancia,      \* "libre", "oper" or "status"
    mutex_registro,       \* "libre" or "status"
    oper,                 \* the operation in progress: see Operaciones
    dueno,                \* [Claves -> Esis \cup {NULL}]
    hechas,               \* operations begun
    status,               \* escuchar_planificador inside PIDE_STATUS
    hechos,               \* status requests begun
    conexion,             \* [Instancias -> Conexiones]: escuchar_instancia
    mensaje_instancia,    \* [Instancias -> header, NULL or "liberado"]
    semaforo,             \* productor_consumidor_de_esta_instancia
    aInstancia,           \* requests on their way, [head, clave]
    deInstancia,          \* answers on their way
    abierta,              \* the instance has not closed its connection
    tabla,                \* what each instance has of a key: see EnTabla
    repartidas,           \* keys EL gave each instance since the list changed
    caida                 \* how the Coordinador died, or "ninguna"; "ajena": see InstRecibirFin

lista == <<lista_instancias, prox_instancia_a_seleccionar, espacio_utilizado, repartidas>>
mutexes == <<mutex_instancia, mutex_registro>>
operacion == <<oper, dueno, hechas>>
red == <<aInstancia, deInstancia, abierta, tabla>>
hilos == <<conexion, mensaje_instancia, semaforo>>
vars == <<algoritmo, lista, registro_claves, mutexes, operacion, status, hechos, hilos,
          red, caida>>

Pasos == {"libre", "algoritmo", "mutex", "registro", "enviar", "espera", "leer", "quitar"}
Operaciones == [paso : Pasos, esi : Esis \cup {NULL}, head : Heads \cup {NULL},
                clave : Claves \cup {NULL}, instancia : Instancias \cup {NULL}]
Libre == [paso |-> "libre", esi |-> NULL, head |-> NULL, clave |-> NULL, instancia |-> NULL]

\* fin_recibido: it holds a FALLO_AL_RECIBIR not yet destroyed.
Conexiones == {"no", "nombre", "agregar", "escucha", "fin_recibido", "quitar", "liberar", "fin"}
EnTabla == {"nada", "sin_valor", "con_valor"}

EntradasRegistro == [clave : Claves, instancia : Instancias]

TypeOK ==
    /\ algoritmo \in Algoritmos
    /\ lista_instancias \in Seq(Instancias)
    /\ prox_instancia_a_seleccionar \in Nat
    /\ espacio_utilizado \in [Instancias -> Int]
    /\ registro_claves \in Seq(EntradasRegistro)
    /\ mutex_instancia \in {"libre", "oper", "status"}
    /\ mutex_registro \in {"libre", "status"}
    /\ oper \in Operaciones
    /\ dueno \in [Claves -> Esis \cup {NULL}]
    /\ hechas \in Nat /\ hechos \in Nat
    /\ status \in {"no", "instancia", "ambos"}
    /\ conexion \in [Instancias -> Conexiones]
    /\ mensaje_instancia \in
          [Instancias -> Respuestas \cup {"FALLO_AL_RECIBIR", "liberado", NULL}]
    /\ semaforo \in [Instancias -> Nat]
    /\ aInstancia \in [Instancias -> Seq([head : Heads, clave : Claves])]
    /\ deInstancia \in [Instancias -> Seq(Respuestas)]
    /\ abierta \in [Instancias -> BOOLEAN]
    /\ tabla \in [Instancias -> [Claves -> EnTabla]]
    /\ repartidas \in [Instancias -> Nat]
    /\ caida \in {"ninguna", "senal", "sigpipe", "indefinido", "ajena"}

Init ==
    /\ algoritmo \in Algoritmos
    /\ lista_instancias = <<>>
    /\ prox_instancia_a_seleccionar = 0
    /\ espacio_utilizado = [i \in Instancias |-> 0]
    /\ registro_claves = <<>>
    /\ mutex_instancia = "libre" /\ mutex_registro = "libre"
    /\ oper = Libre
    /\ dueno = [k \in Claves |-> NULL]
    /\ hechas = 0 /\ hechos = 0
    /\ status = "no"
    /\ conexion = [i \in Instancias |-> "no"]
    /\ mensaje_instancia = [i \in Instancias |-> NULL]
    /\ semaforo = [i \in Instancias |-> 0]
    /\ aInstancia = [i \in Instancias |-> <<>>]
    /\ deInstancia = [i \in Instancias |-> <<>>]
    /\ abierta = [i \in Instancias |-> TRUE]
    /\ tabla = [i \in Instancias |-> [k \in Claves |-> "nada"]]
    /\ repartidas = [i \in Instancias |-> 0]
    /\ caida = "ninguna"

-----------------------------------------------------------------------------
(* escuchar_instancia, from accept to pthread_exit.                        *)
InstConectar(i) ==
    /\ conexion[i] = "no"
    /\ conexion' = [conexion EXCEPT ![i] = "nombre"]
    /\ UNCHANGED <<algoritmo, lista, registro_claves, mutexes, operacion, status, hechos,
                   mensaje_instancia, semaforo, red, caida>>

(* The first message: NOMBRE, or the close of an instance that never said  *)
(* it, which is added to the list all the same.                            *)
InstRecibirNombre(i) ==
    /\ conexion[i] = "nombre"
    /\ conexion' = [conexion EXCEPT ![i] = "agregar"]
    /\ mensaje_instancia' = [mensaje_instancia EXCEPT ![i] =
                                IF abierta[i] THEN NULL ELSE "FALLO_AL_RECIBIR"]
    /\ UNCHANGED <<algoritmo, lista, registro_claves, mutexes, operacion, status, hechos,
                   semaforo, red, caida>>

Repartir == repartidas' = [i \in Instancias |-> 0]

InstAgregar(i) ==
    /\ conexion[i] = "agregar"
    /\ mutex_instancia = "libre"
    /\ lista_instancias' = Append(lista_instancias, i)
    /\ Repartir
    /\ conexion' = [conexion EXCEPT ![i] =
                       IF mensaje_instancia[i] = NULL THEN "escucha" ELSE "quitar"]
    /\ UNCHANGED <<algoritmo, prox_instancia_a_seleccionar, espacio_utilizado, registro_claves,
                   mutexes, operacion, status, hechos, mensaje_instancia, semaforo, red, caida>>

\* A mutant of InstRecibir: CLAVE_NO_STOREADA is not announced.
InstRecibirSinAviso(i) ==
    /\ conexion[i] = "escucha"
    /\ deInstancia[i] # <<>>
    /\ mensaje_instancia' = [mensaje_instancia EXCEPT ![i] = Head(deInstancia[i])]
    /\ deInstancia' = [deInstancia EXCEPT ![i] = Tail(@)]
    /\ semaforo' = [semaforo EXCEPT ![i] =
                       IF Head(deInstancia[i]) = "CLAVE_NO_STOREADA" THEN @ ELSE @ + 1]
    /\ UNCHANGED <<algoritmo, lista, registro_claves, mutexes, operacion, status, hechos,
                   conexion, aInstancia, abierta, tabla, caida>>

InstRecibir(i) ==
    /\ conexion[i] = "escucha"
    /\ deInstancia[i] # <<>>
    /\ mensaje_instancia' = [mensaje_instancia EXCEPT ![i] = Head(deInstancia[i])]
    /\ deInstancia' = [deInstancia EXCEPT ![i] = Tail(@)]
    /\ semaforo' = [semaforo EXCEPT ![i] = @ + 1]
    /\ UNCHANGED <<algoritmo, lista, registro_claves, mutexes, operacion, status, hechos,
                   conexion, aInstancia, abierta, tabla, caida>>

(* DESCONEXION or FALLO_AL_RECIBIR: no sem_post, whoever waits.  Between   *)
(* the assignment and the free an operation may read this message.         *)
(* prot_recibir_mensaje has closed the socket: from here on its number may *)
(* be that of a later connection, of an instance or of an ESI.  "ajena" is *)
(* that what is done with the number reaches that other connection;        *)
(* nothing is modelled after it.                                           *)
InstRecibirFin(i) ==
    /\ conexion[i] = "escucha"
    /\ deInstancia[i] = <<>> /\ ~abierta[i]
    /\ mensaje_instancia' = [mensaje_instancia EXCEPT ![i] = "FALLO_AL_RECIBIR"]
    /\ conexion' = [conexion EXCEPT ![i] = "fin_recibido"]
    /\ UNCHANGED <<algoritmo, lista, registro_claves, mutexes, operacion, status, hechos,
                   semaforo, red, caida>>

(* prot_destruir_mensaje of a message freed before is undefined: the       *)
(* process may survive it.                                                 *)
Destruir(i) ==
    /\ mensaje_instancia' = [mensaje_instancia EXCEPT ![i] = "liberado"]
    /\ \/ UNCHANGED caida
       \/ mensaje_instancia[i] = "liberado" /\ caida' = "indefinido"

\* A mutant of InstDestruirFin: the thread goes on listening.
InstDestruirFinSigue(i) ==
    /\ conexion[i] = "fin_recibido"
    /\ Destruir(i)
    /\ conexion' = [conexion EXCEPT ![i] = "escucha"]
    /\ UNCHANGED <<algoritmo, lista, registro_claves, mutexes, operacion, status, hechos,
                   semaforo, red>>

InstDestruirFin(i) ==
    /\ conexion[i] = "fin_recibido"
    /\ Destruir(i)
    /\ conexion' = [conexion EXCEPT ![i] = "quitar"]
    /\ UNCHANGED <<algoritmo, lista, registro_claves, mutexes, operacion, status, hechos,
                   semaforo, red>>

\* A mutant of InstQuitar: the first of the list is taken out.
InstQuitarPrimera(i) ==
    /\ conexion[i] = "quitar"
    /\ mutex_instancia = "libre"
    /\ lista_instancias' = Tail(lista_instancias)
    /\ Repartir
    /\ conexion' = [conexion EXCEPT ![i] = "liberar"]
    /\ UNCHANGED <<algoritmo, prox_instancia_a_seleccionar, espacio_utilizado, registro_claves,
                   mutexes, operacion, status, hechos, mensaje_instancia, semaforo, red, caida>>

(* es_instancia compares socket numbers: a later instance with that of i   *)
(* comes after i in the list, unless LSU has sorted it.                    *)
InstQuitar(i) ==
    /\ conexion[i] = "quitar"
    /\ mutex_instancia = "libre"
    /\ lista_instancias' = RemoveFirst(lista_instancias, i)
    /\ \/ UNCHANGED caida
       \/ algoritmo = "LSU" /\ Head(lista_instancias) # i /\ caida' = "ajena"
    /\ Repartir
    /\ conexion' = [conexion EXCEPT ![i] = "liberar"]
    /\ UNCHANGED <<algoritmo, prox_instancia_a_seleccionar, espacio_utilizado, registro_claves,
                   mutexes, operacion, status, hechos, mensaje_instancia, semaforo, red>>

(* nombre, the message (again: InstDestruirFin freed it) and the semaphore *)
(* are freed and the socket closed, again: it may be another's by now.     *)
(* t_instancia stays, for registro_claves points to it.  Without a NOMBRE, *)
(* the name freed is uninitialised.                                        *)
InstLiberar(i) ==
    /\ conexion[i] = "liberar"
    /\ mensaje_instancia' = [mensaje_instancia EXCEPT ![i] = "liberado"]
    /\ caida' \in {"ninguna", "indefinido", "ajena"}
    /\ conexion' = [conexion EXCEPT ![i] = "fin"]
    /\ UNCHANGED <<algoritmo, lista, registro_claves, mutexes, operacion, status, hechos,
                   semaforo, red>>

Escuchar(i) ==
    \/ InstConectar(i) \/ InstRecibirNombre(i) \/ InstAgregar(i) \/ InstRecibir(i)
    \/ InstRecibirFin(i) \/ InstDestruirFin(i) \/ InstQuitar(i) \/ InstLiberar(i)

-----------------------------------------------------------------------------
(* The process at the other end: it may answer a request, by what it has   *)
(* of the key, stay connected and never answer, or go away.  Instancia has *)
(* the reason of its silence: mutex_dump_compactar, that nobody unlocks.   *)
Contesta(i, p) ==
    CASE p.head = "GET"   -> "CLAVE_GUARDADA"
      [] p.head = "SET"   -> IF tabla[i][p.clave] = "nada" THEN "VALOR_NO_SETEADO"
                                                           ELSE "VALOR_SETEADO"
      [] p.head = "STORE" -> IF tabla[i][p.clave] = "con_valor" THEN "CLAVE_STOREADA"
                                                                ELSE "CLAVE_NO_STOREADA"

Anota(i, p) ==
    CASE p.head = "GET"                               -> "sin_valor"
      [] p.head = "SET" /\ tabla[i][p.clave] # "nada" -> "con_valor"
      [] OTHER                                        -> tabla[i][p.clave]

InstanciaResponder(i) ==
    /\ abierta[i] /\ aInstancia[i] # <<>>
    /\ LET p == Head(aInstancia[i]) IN
          /\ deInstancia' = [deInstancia EXCEPT ![i] = Append(@, Contesta(i, p))]
          /\ tabla' = [tabla EXCEPT ![i][p.clave] = Anota(i, p)]
    /\ aInstancia' = [aInstancia EXCEPT ![i] = Tail(@)]
    /\ UNCHANGED <<algoritmo, lista, registro_claves, mutexes, operacion, status, hechos,
                   hilos, abierta, caida>>

InstanciaCerrar(i) ==
    /\ i \in Desconectables
    /\ conexion[i] # "no" /\ abierta[i]
    /\ abierta' = [abierta EXCEPT ![i] = FALSE]
    /\ aInstancia' = [aInstancia EXCEPT ![i] = <<>>]
    /\ UNCHANGED <<algoritmo, lista, registro_claves, mutexes, operacion, status, hechos,
                   hilos, deInstancia, tabla, caida>>

-----------------------------------------------------------------------------
(* The operations.  An ESI that fails, is killed or ends gives its keys    *)
(* back without the Coordinador knowing.                                   *)
Permitida(e, h, k) == dueno[k] = IF h = "GET" THEN NULL ELSE e

SinClavesDe(e) == [k \in Claves |-> IF dueno[k] = e THEN NULL ELSE dueno[k]]

OperPedir(e, h, k) ==
    /\ oper = Libre /\ hechas < MaxOperaciones
    /\ Permitida(e, h, k)
    /\ oper' = [paso |-> IF h = "GET" THEN "algoritmo" ELSE "registro",
                esi |-> e, head |-> h, clave |-> k, instancia |-> NULL]
    /\ hechas' = hechas + 1
    /\ UNCHANGED <<algoritmo, lista, registro_claves, mutexes, dueno, status, hechos, hilos,
                   red, caida>>

EsiTermina(e) ==
    /\ e # oper.esi
    /\ \E k \in Claves : dueno[k] = e
    /\ dueno' = SinClavesDe(e)
    /\ UNCHANGED <<algoritmo, lista, registro_claves, mutexes, oper, hechas, status, hechos,
                   hilos, red, caida>>

Cumplir ==
    /\ oper' = Libre
    /\ dueno' = CASE oper.head = "GET"   -> [dueno EXCEPT ![oper.clave] = oper.esi]
                  [] oper.head = "SET"   -> dueno
                  [] oper.head = "STORE" -> [dueno EXCEPT ![oper.clave] = NULL]
    /\ UNCHANGED hechas

Fallar ==
    /\ oper' = Libre
    /\ dueno' = SinClavesDe(oper.esi)
    /\ UNCHANGED hechas

A(paso) == oper' = [oper EXCEPT !.paso = paso] /\ UNCHANGED <<dueno, hechas>>

Elegir(n) ==
    /\ oper' = [oper EXCEPT !.paso = "enviar", !.instancia = n]
    /\ UNCHANGED <<dueno, hechas>>

(* aplicar_algoritmo_distribucion looks at the list before it locks.       *)
OperMirarLista ==
    /\ oper.paso = "algoritmo"
    /\ IF lista_instancias = <<>> THEN Fallar ELSE A("mutex")
    /\ UNCHANGED <<algoritmo, lista, registro_claves, mutexes, status, hechos, hilos, red,
                   caida>>

-----------------------------------------------------------------------------
Turno == lista_instancias[(prox_instancia_a_seleccionar % Len(lista_instancias)) + 1]

\* A mutant of OperElegirEL: the turn does not advance.
OperElegirELFijo ==
    /\ oper.paso = "mutex" /\ mutex_instancia = "libre"
    /\ algoritmo = "EL" /\ lista_instancias # <<>>
    /\ Elegir(Turno)
    /\ repartidas' = [repartidas EXCEPT ![Turno] = @ + 1]
    /\ UNCHANGED <<algoritmo, lista_instancias, espacio_utilizado, prox_instancia_a_seleccionar,
                   registro_claves, mutexes, status, hechos, hilos, red, caida>>

OperElegirEL ==
    /\ oper.paso = "mutex" /\ mutex_instancia = "libre"
    /\ algoritmo = "EL" /\ lista_instancias # <<>>
    /\ Elegir(Turno)
    /\ prox_instancia_a_seleccionar' = prox_instancia_a_seleccionar + 1
    /\ repartidas' = [repartidas EXCEPT ![Turno] = @ + 1]
    /\ UNCHANGED <<algoritmo, lista_instancias, espacio_utilizado, registro_claves, mutexes,
                   status, hechos, hilos, red, caida>>

(* list_sort by ordenar_por_espacio_restante, in any order among equals.   *)
EspacioLibre(i) == EspacioTotal - espacio_utilizado[i]

Ordenadas(l) ==
    {s \in SetToSeqs(ToSet(l)) :
        \A x, y \in DOMAIN s : x < y => EspacioLibre(s[x]) >= EspacioLibre(s[y])}

\* A mutant of OperElegirLSU: the mutex is given back before the exchange.
OperElegirLSUSuelto ==
    /\ oper.paso = "mutex" /\ mutex_instancia = "libre"
    /\ algoritmo = "LSU" /\ lista_instancias # <<>>
    /\ \E s \in Ordenadas(lista_instancias) : lista_instancias' = s /\ Elegir(s[1])
    /\ UNCHANGED <<algoritmo, prox_instancia_a_seleccionar, espacio_utilizado, repartidas,
                   registro_claves, mutexes, status, hechos, hilos, red, caida>>

(* The mutex stays taken until the instance has answered.                  *)
OperElegirLSU ==
    /\ oper.paso = "mutex" /\ mutex_instancia = "libre"
    /\ algoritmo = "LSU" /\ lista_instancias # <<>>
    /\ mutex_instancia' = "oper"
    /\ \E s \in Ordenadas(lista_instancias) : lista_instancias' = s /\ Elegir(s[1])
    /\ UNCHANGED <<algoritmo, prox_instancia_a_seleccionar, espacio_utilizado, repartidas,
                   registro_claves, mutex_registro, status, hechos, hilos, red, caida>>

LetraValida(k) == Letra[k] < CANTIDAD_DE_LETRAS

(* ceil(CANTIDAD_DE_LETRAS / n), and the position of a letter among n.     *)
LetrasPorInstancia(n) == (CANTIDAD_DE_LETRAS + n - 1) \div n
PosicionKE(letra, n) == letra \div LetrasPorInstancia(n)

OperElegirKE ==
    /\ oper.paso = "mutex" /\ mutex_instancia = "libre"
    /\ algoritmo = "KE" /\ LetraValida(oper.clave) /\ lista_instancias # <<>>
    /\ Elegir(lista_instancias[PosicionKE(Letra[oper.clave], Len(lista_instancias)) + 1])
    /\ UNCHANGED <<algoritmo, lista, registro_claves, mutexes, status, hechos, hilos, red,
                   caida>>

OperLetraInvalida ==
    /\ oper.paso = "mutex" /\ mutex_instancia = "libre"
    /\ algoritmo = "KE" /\ ~LetraValida(oper.clave)
    /\ Fallar
    /\ UNCHANGED <<algoritmo, lista, registro_claves, mutexes, status, hechos, hilos, red,
                   caida>>

(* The list emptied after OperMirarLista: a division by zero in EL, the    *)
(* null of list_get in the others.                                         *)
OperElegirDeVacia ==
    /\ oper.paso = "mutex" /\ mutex_instancia = "libre"
    /\ lista_instancias = <<>>
    /\ algoritmo = "KE" => LetraValida(oper.clave)
    /\ caida' = "senal"
    /\ UNCHANGED <<algoritmo, lista, registro_claves, mutexes, operacion, status, hechos,
                   hilos, red>>

-----------------------------------------------------------------------------
(* set_valor and store_clave: the instance of the first entry of the key.  *)
Entradas(k) == {j \in DOMAIN registro_claves : registro_claves[j].clave = k}
Primera(k) == CHOOSE j \in Entradas(k) : \A l \in Entradas(k) : j <= l

OperBuscarRegistro ==
    /\ oper.paso = "registro"
    /\ mutex_registro = "libre"
    /\ IF Entradas(oper.clave) # {}
          THEN Elegir(registro_claves[Primera(oper.clave)].instancia) /\ UNCHANGED caida
          ELSE caida' = "senal" /\ UNCHANGED operacion
    /\ UNCHANGED <<algoritmo, lista, registro_claves, mutexes, status, hechos, hilos, red>>

n0 == oper.instancia

\* A mutant of OperEnviar: a GET adds its entry before the instance has answered.
OperEnviarRegistrando ==
    /\ oper.paso = "enviar"
    /\ conexion[n0] # "fin" /\ abierta[n0]
    /\ A("espera")
    /\ aInstancia' = [aInstancia EXCEPT ![n0] =
                          Append(@, [head |-> oper.head, clave |-> oper.clave])]
    /\ registro_claves' = IF oper.head # "GET" THEN registro_claves
          ELSE Append(registro_claves, [clave |-> oper.clave, instancia |-> n0])
    /\ UNCHANGED <<algoritmo, lista, mutexes, status, hechos, hilos, deInstancia, abierta,
                   tabla, caida>>

(* The thread of the instance is on its way out.                           *)
SocketCerrado(i) == conexion[i] \in {"fin_recibido", "quitar", "liberar"}

(* The request is lost if the instance has closed, and then the signal of  *)
(* the second send may end the process; or it goes to whoever has got the  *)
(* number of its socket.                                                   *)
OperEnviar ==
    /\ oper.paso = "enviar"
    /\ conexion[n0] # "fin"
    /\ A("espera")
    /\ IF abierta[n0]
          THEN /\ aInstancia' = [aInstancia EXCEPT ![n0] =
                                    Append(@, [head |-> oper.head, clave |-> oper.clave])]
               /\ UNCHANGED caida
          ELSE /\ \/ caida' \in {"ninguna", "sigpipe"}
                  \/ SocketCerrado(n0) /\ caida' = "ajena"
               /\ UNCHANGED aInstancia
    /\ UNCHANGED <<algoritmo, lista, registro_claves, mutexes, status, hechos, hilos,
                   deInstancia, abierta, tabla>>

(* The thread of the instance ended: the semaphore is freed memory, and    *)
(* the number of its socket may be another's.  The wait may go on for      *)
(* ever, or anything may happen.                                           *)
OperEnviarALiberada ==
    /\ oper.paso = "enviar"
    /\ conexion[n0] = "fin"
    /\ A("espera")
    /\ caida' \in {"ninguna", "indefinido", "ajena"}
    /\ UNCHANGED <<algoritmo, lista, registro_claves, mutexes, status, hechos, hilos, red>>

\* A mutant of OperEsperar: the semaphore is looked at, not taken.
OperEsperarSinBajar ==
    /\ oper.paso = "espera"
    /\ semaforo[n0] > 0
    /\ A("leer")
    /\ caida' = IF conexion[n0] = "fin" THEN "indefinido" ELSE "ninguna"
    /\ UNCHANGED <<algoritmo, lista, registro_claves, mutexes, status, hechos, hilos, red>>

\* A mutant of OperEsperar: it goes on before the answer.
OperEsperarSinEsperar ==
    /\ oper.paso = "espera"
    /\ semaforo' = [semaforo EXCEPT ![n0] = @ - 1]
    /\ A("leer")
    /\ caida' = IF conexion[n0] = "fin" THEN "indefinido" ELSE "ninguna"
    /\ UNCHANGED <<algoritmo, lista, registro_claves, mutexes, status, hechos, conexion,
                   mensaje_instancia, red>>

OperEsperar ==
    /\ oper.paso = "espera"
    /\ semaforo[n0] > 0
    /\ semaforo' = [semaforo EXCEPT ![n0] = @ - 1]
    /\ A("leer")
    /\ caida' = IF conexion[n0] = "fin" THEN "indefinido" ELSE "ninguna"
    /\ UNCHANGED <<algoritmo, lista, registro_claves, mutexes, status, hechos, conexion,
                   mensaje_instancia, red>>

(* mensaje_instancia was overwritten and freed since the sem_post.         *)
OperLeerLiberado ==
    /\ oper.paso = "leer"
    /\ mensaje_instancia[n0] = "liberado"
    /\ caida' = "indefinido"
    /\ UNCHANGED <<algoritmo, lista, registro_claves, mutexes, operacion, status, hechos,
                   hilos, red>>

Leer(m) ==
    /\ oper.paso = "leer"
    /\ mensaje_instancia[n0] = m
    /\ mensaje_instancia' = [mensaje_instancia EXCEPT ![n0] = "liberado"]
    /\ UNCHANGED <<conexion, semaforo>>

\* distribuirPorLSU unlocks when guardarEnInstancia is back.
SoltarInstancia ==
    mutex_instancia' = IF algoritmo = "LSU" /\ oper.head = "GET" THEN "libre" ELSE mutex_instancia

\* A mutant of OperGuardada: the entry points to the next instance.
OperGuardadaEnOtra ==
    /\ oper.head = "GET"
    /\ Leer("CLAVE_GUARDADA")
    /\ registro_claves' = Append(registro_claves,
          [clave |-> oper.clave,
           instancia |-> IF algoritmo = "EL" /\ lista_instancias # <<>> THEN Turno ELSE n0])
    /\ espacio_utilizado' = [espacio_utilizado EXCEPT ![n0] =
                                IF algoritmo = "LSU" THEN @ - Largo[oper.clave] ELSE @]
    /\ SoltarInstancia
    /\ Cumplir
    /\ UNCHANGED <<algoritmo, lista_instancias, prox_instancia_a_seleccionar, repartidas,
                   mutex_registro, status, hechos, red, caida>>

\* A mutant of OperGuardada: no entry is added.
OperGuardadaSinEntrada ==
    /\ oper.head = "GET"
    /\ Leer("CLAVE_GUARDADA")
    /\ espacio_utilizado' = [espacio_utilizado EXCEPT ![n0] =
                                IF algoritmo = "LSU" THEN @ - Largo[oper.clave] ELSE @]
    /\ SoltarInstancia
    /\ Cumplir
    /\ UNCHANGED <<algoritmo, lista_instancias, prox_instancia_a_seleccionar, repartidas,
                   registro_claves, mutex_registro, status, hechos, red, caida>>

OperGuardada ==
    /\ oper.head = "GET"
    /\ Leer("CLAVE_GUARDADA")
    /\ registro_claves' = Append(registro_claves, [clave |-> oper.clave, instancia |-> n0])
    /\ espacio_utilizado' = [espacio_utilizado EXCEPT ![n0] =
                                IF algoritmo = "LSU" THEN @ - Largo[oper.clave] ELSE @]
    /\ SoltarInstancia
    /\ Cumplir
    /\ UNCHANGED <<algoritmo, lista_instancias, prox_instancia_a_seleccionar, repartidas,
                   mutex_registro, status, hechos, red, caida>>

OperSeteada ==
    /\ oper.head = "SET"
    /\ Leer("VALOR_SETEADO")
    /\ Cumplir
    /\ UNCHANGED <<algoritmo, lista, registro_claves, mutexes, status, hechos, red, caida>>

OperStoreada ==
    /\ oper.head = "STORE"
    /\ Leer("CLAVE_STOREADA")
    /\ A("quitar")
    /\ UNCHANGED <<algoritmo, lista, registro_claves, mutexes, status, hechos, red, caida>>

OperQuitar ==
    /\ oper.paso = "quitar"
    /\ mutex_registro = "libre"
    /\ registro_claves' = RemoveAt(registro_claves, Primera(oper.clave))
    /\ Cumplir
    /\ UNCHANGED <<algoritmo, lista, mutexes, status, hechos, hilos, red, caida>>

(* Any other answer, the DESCONEXION that a reader may still see included. *)
Exito == [GET |-> "CLAVE_GUARDADA", SET |-> "VALOR_SETEADO", STORE |-> "CLAVE_STOREADA"]

OperRechazada ==
    /\ oper.paso = "leer"
    /\ \E m \in (Respuestas \cup {"FALLO_AL_RECIBIR"}) \ {Exito[oper.head]} : Leer(m)
    /\ SoltarInstancia
    /\ Fallar
    /\ UNCHANGED <<algoritmo, lista, registro_claves, mutex_registro, status, hechos, red,
                   caida>>

OperAvanza ==
    \/ OperMirarLista \/ OperElegirEL \/ OperElegirLSU \/ OperElegirKE \/ OperLetraInvalida
    \/ OperElegirDeVacia \/ OperBuscarRegistro \/ OperEnviar \/ OperEnviarALiberada
    \/ OperEsperar \/ OperLeerLiberado \/ OperGuardada \/ OperSeteada \/ OperStoreada
    \/ OperQuitar \/ OperRechazada

-----------------------------------------------------------------------------
(* PIDE_STATUS in escuchar_planificador: both mutexes, the entry of the    *)
(* key, the instance it would go to, and one answer.                       *)
StatusPedir ==
    /\ status = "no" /\ hechos < MaxStatus
    /\ mutex_instancia = "libre"
    /\ mutex_instancia' = "status"
    /\ status' = "instancia"
    /\ hechos' = hechos + 1
    /\ UNCHANGED <<algoritmo, lista, registro_claves, mutex_registro, operacion, hilos, red,
                   caida>>

StatusTomarRegistro ==
    /\ status = "instancia"
    /\ mutex_registro = "libre"
    /\ mutex_registro' = "status"
    /\ status' = "ambos"
    /\ UNCHANGED <<algoritmo, lista, registro_claves, mutex_instancia, operacion, hechos,
                   hilos, red, caida>>

(* seleccionar_instancia_para_distribuir_clave sorts the list in LSU, and  *)
(* is NULL without instances or, in KE, without a letter: NULL->nombre.    *)
SeleccionNula(k) == lista_instancias = <<>> \/ (algoritmo = "KE" /\ ~LetraValida(k))

StatusSinSeleccion(k) ==
    /\ status = "ambos"
    /\ SeleccionNula(k)
    /\ caida' = "senal"
    /\ UNCHANGED <<algoritmo, lista, registro_claves, mutexes, operacion, status, hechos,
                   hilos, red>>

(* What is freed at the end belongs to an instance or is a literal, and    *)
(* the name of an instance that left is freed already: undefined, but the  *)
(* answer has been sent.                                                   *)
StatusResponder(k) ==
    /\ status = "ambos"
    /\ ~SeleccionNula(k)
    /\ lista_instancias' \in IF algoritmo = "LSU" THEN Ordenadas(lista_instancias)
                                                 ELSE {lista_instancias}
    /\ caida' \in {"ninguna", "indefinido"}
    /\ mutex_instancia' = "libre" /\ mutex_registro' = "libre"
    /\ status' = "no"
    /\ UNCHANGED <<algoritmo, prox_instancia_a_seleccionar, espacio_utilizado, repartidas,
                   registro_claves, operacion, hechos, hilos, red>>

Status ==
    \/ StatusPedir \/ StatusTomarRegistro
    \/ \E k \in Claves : StatusSinSeleccion(k) \/ StatusResponder(k)

-----------------------------------------------------------------------------
(* Nothing is modelled of the Coordinador after it has died.               *)
Viva(X) == caida = "ninguna" /\ X

Next ==
    \/ \E i \in Instancias :
          Viva(Escuchar(i)) \/ Viva(InstanciaResponder(i)) \/ Viva(InstanciaCerrar(i))
    \/ \E e \in Esis :
          \/ Viva(EsiTermina(e))
          \/ \E h \in Heads, k \in Claves : Viva(OperPedir(e, h, k))
    \/ Viva(OperAvanza)
    \/ Viva(Status)

Spec == Init /\ [][Next]_vars

(* The threads of the Coordinador that can go on do.  Nobody has to        *)
(* connect, to leave or to ask for anything, and no instance to answer.    *)
Justicia ==
    /\ WF_vars(Viva(OperAvanza))
    /\ WF_vars(Viva(Status) /\ status # "no")
    /\ \A i \in Instancias : WF_vars(Viva(Escuchar(i)) /\ conexion[i] # "no")

SpecJusta == Spec /\ Justicia

-----------------------------------------------------------------------------
(* The list is the instances whose thread has added them and not yet taken *)
(* them out, once each (list_add and list_remove_by_condition under        *)
(* mutex_instancia, list_sort in LSU).                                     *)
ListaExacta ==
    /\ ToSet(lista_instancias) =
          {i \in Instancias : conexion[i] \in {"escucha", "fin_recibido", "quitar"}}
    /\ IsInjective(lista_instancias)

(* The requests of an instance that are on their way, answered, or with a  *)
(* sem_post still to be taken.                                             *)
EnCurso(i) == Len(aInstancia[i]) + Len(deInstancia[i]) + semaforo[i]
UnPedidoEnCurso ==
    \A i \in Instancias : EnCurso(i) > 0 => EnCurso(i) = 1 /\ i = n0 /\ oper.paso = "espera"

(* An instance has one request under way at most, that of the operation in *)
(* progress: no answer is left over for a later one.  So the answer an     *)
(* operation reads is to its own request, unless the instance left after   *)
(* giving it.                                                              *)
RespuestasA == [GET |-> {"CLAVE_GUARDADA"},
                SET |-> {"VALOR_SETEADO", "VALOR_NO_SETEADO"},
                STORE |-> {"CLAVE_STOREADA", "CLAVE_NO_STOREADA"}]
RespuestaPropia ==
    /\ UnPedidoEnCurso
    /\ oper.paso = "leer" /\ conexion[n0] = "escucha" =>
          mensaje_instancia[n0] \in RespuestasA[oper.head]

(* A SET and a STORE go to an instance that has the key: the GET that      *)
(* registered it, or an older one, was answered by that instance.          *)
RegistroEnTabla ==
    \A j \in DOMAIN registro_claves :
        tabla[registro_claves[j].instancia][registro_claves[j].clave] # "nada"

(* mutex_instancia is given back on every path: the operation that holds   *)
(* it is a GET of LSU between its choice and the answer, and the instance  *)
(* it asks stays in the list meanwhile.                                    *)
MutexDeLSU ==
    mutex_instancia = "oper" =>
        /\ algoritmo = "LSU" /\ oper.head = "GET"
        /\ oper.paso \in {"enviar", "espera", "leer"}
LSUProtegida ==
    algoritmo = "LSU" /\ oper.head = "GET" /\ n0 # NULL => n0 \in ToSet(lista_instancias)
LSUOrdenada == MutexDeLSU /\ LSUProtegida

(* "Equitative Load": while the list does not change, no instance is given *)
(* two keys more than another.                                             *)
ELEquitativo ==
    algoritmo = "EL" =>
        \A i, j \in ToSet(lista_instancias) : repartidas[i] <= repartidas[j] + 1

(* The implementation: Registro, with the operation that is in progress    *)
(* and the entries of the keys.                                            *)
OperacionAtendida ==
    IF oper = Libre THEN NULL ELSE [head |-> oper.head, clave |-> oper.clave]
R == INSTANCE Registro WITH registro <- registro_claves, atendida <- OperacionAtendida
ImplementaRegistro == R!Spec

-----------------------------------------------------------------------------
(* The Coordinador dies of a signal only when it has no instance, or when  *)
(* a status asks where a key without a letter would go in KE: a SET and a  *)
(* STORE always find the entry that they dereference without looking.      *)
SenalSinInstancias ==
    caida = "senal" =>
        lista_instancias = <<>> \/ (algoritmo = "KE" /\ \E k \in Claves : ~LetraValida(k))

(* The operation waits, and its instance has the request and has not       *)
(* answered it, or has gone without answering: no sem_post is to come yet, *)
(* or ever.                                                                *)
SinQuienAvise == oper.paso = "espera" /\ ~abierta[n0] /\ EnCurso(n0) = 0
Desatendida   == SinQuienAvise \/ (oper.paso = "espera" /\ aInstancia[n0] # <<>>)

(* Every operation ends, with the answer of the instance or with a failure,*)
(* unless its instance never answers it: an answer that was given is taken,*)
(* whatever it is, though the instance leaves right after.                 *)
OperacionTermina ==
    oper # Libre ~> (oper = Libre \/ caida # "ninguna" \/ []Desatendida)

(* Instances come and go: one that connects is listened to and one that    *)
(* disconnects leaves the list, whatever the operations are doing, unless  *)
(* a GET of LSU that no instance answers keeps mutex_instancia for ever.   *)
Impedida == Desatendida /\ mutex_instancia = "oper"
AltaYBaja ==
    \A i \in Instancias :
        /\ conexion[i] = "agregar" ~>
              (conexion[i] # "agregar" \/ caida # "ninguna" \/ []Impedida)
        /\ conexion[i] = "escucha" /\ ~abierta[i] ~>
              (conexion[i] = "fin" \/ caida # "ninguna" \/ []Impedida)
=============================================================================
