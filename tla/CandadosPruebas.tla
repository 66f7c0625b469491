--------------------------- MODULE CandadosPruebas ---------------------------
(***************************************************************************)
(* Proofs about the locks of the Planificador and who holds them, for any  *)
(* ESIs, keys, scripts and failures, without Ctrl-C: the global list and   *)
(* the lists of the owners, and that the Planificador and the Coordinador  *)
(* agree on them at every answer.  That a key has one owner is proved      *)
(* without desbloquear, and with it of the keys it was not given; that the *)
(* processes agree, with every command.                                    *)
(***************************************************************************)
EXTENDS ReDistintoPruebas, HistoriaConsola

\* x is at most once in the list.
Unica(lista, x) == \A i, j \in DOMAIN lista : lista[i] = x /\ lista[j] = x => i = j

\* Taking out an element of which there is one takes it out of the set.
LEMMA QuitarUnica ==
    ASSUME NEW S, NEW lista \in Seq(S), NEW x, Unica(lista, x)
    PROVE  ToSet(Quitar(lista, x)) = ToSet(lista) \ {x}
<1>1. CASE x \notin ToSet(lista)
  BY <1>1, SacarAusente DEF Quitar
<1>2. CASE x \in ToSet(lista)
  <2>1. PICK n \in 1..Len(lista) : lista[n] = x /\ Quitar(lista, x) = RemoveAt(lista, n)
    BY <1>2, SacarPresente DEF Quitar
  <2>2. DOMAIN lista = 1..Len(lista) /\ Len(lista) \in Nat
    BY LenProperties
  <2>3. /\ DOMAIN RemoveAt(lista, n) = 1..(Len(lista) - 1)
        /\ \A i \in 1..(Len(lista) - 1) :
              RemoveAt(lista, n)[i] = lista[IF i < n THEN i ELSE i + 1]
    BY RemoveAtLugares
  <2>4. \A i \in 1..(Len(lista) - 1) : RemoveAt(lista, n)[i] \in ToSet(lista) \ {x}
    <3>1. SUFFICES ASSUME NEW i \in 1..(Len(lista) - 1)
                   PROVE  RemoveAt(lista, n)[i] \in ToSet(lista) \ {x}
      OBVIOUS
    <3>2. PICK m \in 1..Len(lista) : m # n /\ RemoveAt(lista, n)[i] = lista[m]
      BY <2>2, <2>3
    <3>. QED BY <2>1, <2>2, <3>2 DEF ToSet, Unica
  <2>5. ASSUME NEW y \in ToSet(lista) \ {x} PROVE y \in ToSet(RemoveAt(lista, n))
    <3>1. PICK j \in 1..Len(lista) : lista[j] = y
      BY <2>2 DEF ToSet
    <3>. QED BY <2>1, <2>5, <3>1, RemoveAtQuedan
  <2>6. ToSet(RemoveAt(lista, n)) = {RemoveAt(lista, n)[i] : i \in 1..(Len(lista) - 1)}
    BY <2>3 DEF ToSet
  <2>. QED BY <2>1, <2>4, <2>5, <2>6
<1>. QED BY <1>1, <1>2

\* It leaves what there was one of as it was.
LEMMA QuitarSigueUnica ==
    ASSUME NEW S, NEW lista \in Seq(S), NEW x, NEW y, Unica(lista, y)
    PROVE  Unica(Quitar(lista, x), y)
<1>1. CASE x \notin ToSet(lista)
  BY <1>1, SacarAusente DEF Quitar
<1>2. CASE x \in ToSet(lista)
  <2>1. PICK n \in 1..Len(lista) : Quitar(lista, x) = RemoveAt(lista, n)
    BY <1>2, SacarPresente DEF Quitar
  <2>2. DOMAIN lista = 1..Len(lista) /\ Len(lista) \in Nat
    BY LenProperties
  <2>3. /\ DOMAIN RemoveAt(lista, n) = 1..(Len(lista) - 1)
        /\ \A i \in 1..(Len(lista) - 1) :
              RemoveAt(lista, n)[i] = lista[IF i < n THEN i ELSE i + 1]
    BY RemoveAtLugares
  <2>4. ASSUME NEW i \in 1..(Len(lista) - 1), NEW j \in 1..(Len(lista) - 1),
               RemoveAt(lista, n)[i] = y, RemoveAt(lista, n)[j] = y
        PROVE  i = j
    <3>1. (IF i < n THEN i ELSE i + 1) = (IF j < n THEN j ELSE j + 1)
      BY <2>2, <2>3, <2>4 DEF Unica
    <3>. QED BY <2>2, <3>1
  <2>. QED BY <2>1, <2>3, <2>4 DEF Unica
<1>. QED BY <1>1, <1>2

\* Appending an element: of the others there are as many, of one that was not there
\* there is one.
LEMMA AgregarUnica ==
    ASSUME NEW S, NEW lista \in Seq(S), NEW x \in S
    PROVE  /\ x \notin ToSet(lista) => Unica(Append(lista, x), x)
           /\ \A y : y # x /\ Unica(lista, y) => Unica(Append(lista, x), y)
<1>1. /\ Append(lista, x) \in Seq(S) /\ Len(Append(lista, x)) = Len(lista) + 1
      /\ \A i \in 1..Len(lista) : Append(lista, x)[i] = lista[i]
      /\ Append(lista, x)[Len(lista) + 1] = x
  OBVIOUS
<1> DEFINE t == Append(lista, x)
<1> HIDE DEF t
<1>2. /\ DOMAIN lista = 1..Len(lista) /\ Len(lista) \in Nat
      /\ DOMAIN t = 1..(Len(lista) + 1)
      /\ \A i \in 1..Len(lista) : t[i] = lista[i]
      /\ t[Len(lista) + 1] = x
  BY <1>1, LenProperties DEF t
<1>3. ASSUME x \notin ToSet(lista) PROVE Unica(t, x)
  <2>1. \A i \in 1..Len(lista) : t[i] # x
    BY <1>2, <1>3 DEF ToSet
  <2>2. \A i \in DOMAIN t : t[i] = x => i = Len(lista) + 1
    BY <1>2, <2>1
  <2>. QED BY <2>2 DEF Unica
<1>4. ASSUME NEW y, y # x, Unica(lista, y) PROVE Unica(t, y)
  <2>1. \A i \in DOMAIN t : t[i] = y => i \in DOMAIN lista /\ lista[i] = y
    BY <1>2, <1>4
  <2>. QED BY <1>4, <2>1 DEF Unica
<1>. QED BY <1>3, <1>4 DEF t

\* Taking out an element leaves the others where they are.
LEMMA QuitarOtros ==
    ASSUME NEW S, NEW lista \in Seq(S), NEW x, NEW y \in ToSet(lista), y # x
    PROVE  y \in ToSet(Quitar(lista, x))
<1>1. CASE x \notin ToSet(lista)
  BY <1>1, SacarAusente DEF Quitar
<1>2. CASE x \in ToSet(lista)
  <2>1. PICK n \in 1..Len(lista) : lista[n] = x /\ Quitar(lista, x) = RemoveAt(lista, n)
    BY <1>2, SacarPresente DEF Quitar
  <2>2. PICK j \in 1..Len(lista) : lista[j] = y
    BY LenProperties DEF ToSet
  <2>. QED BY <2>1, <2>2, RemoveAtQuedan
<1>. QED BY <1>1, <1>2

\* and adds none.
LEMMA QuitarDentro ==
    ASSUME NEW S, NEW lista \in Seq(S), NEW x
    PROVE  ToSet(Quitar(lista, x)) \subseteq ToSet(lista)
<1>1. CASE x \notin ToSet(lista)
  BY <1>1, SacarAusente DEF Quitar
<1>2. CASE x \in ToSet(lista)
  <2>1. PICK n \in 1..Len(lista) : lista[n] = x /\ Quitar(lista, x) = RemoveAt(lista, n)
    BY <1>2, SacarPresente DEF Quitar
  <2>2. DOMAIN lista = 1..Len(lista) /\ Len(lista) \in Nat
    BY LenProperties
  <2>3. /\ DOMAIN RemoveAt(lista, n) = 1..(Len(lista) - 1)
        /\ \A i \in 1..(Len(lista) - 1) :
              RemoveAt(lista, n)[i] = lista[IF i < n THEN i ELSE i + 1]
    BY RemoveAtLugares
  <2>4. ASSUME NEW i \in 1..(Len(lista) - 1) PROVE RemoveAt(lista, n)[i] \in ToSet(lista)
    <3>1. PICK m \in 1..Len(lista) : RemoveAt(lista, n)[i] = lista[m]
      BY <2>2, <2>3
    <3>. QED BY <2>2, <3>1 DEF ToSet
  <2>. QED BY <2>1, <2>3, <2>4 DEF ToSet
<1>. QED BY <1>1, <1>2

-----------------------------------------------------------------------------
\* What a thread that waits has asked soporte for.
OrdenDebida(e) ==
    CASE hilo[e] = "consulta" /\ pedido[e].head = "SOLICITAR_CLAVE"  -> "SOLICITUD_CLAVE_LIBRE"
      [] hilo[e] = "consulta" /\ pedido[e].head # "SOLICITAR_CLAVE"  ->
                                                             "SOLICITUD_CLAVE_BLOQUEADA_POR_ESI"
      [] hilo[e] = "orden_esi"                                       -> "BLOQUEAR_ESI"
      [] hilo[e] = "orden_clave" /\ pedido[e].head = "SOLICITAR_CLAVE" ->
                                                             "BLOQUEAR_CLAVE_PARA_ESI_EJECUTANDO"
      [] OTHER                                            -> "DESBLOQUEAR_CLAVE_DEL_ESI_EJECUTANDO"
PedidosDebidos ==
    \A e \in Esis : hilo[e] \in EnEspera /\ coordAPlan # <<>> =>
        Head(coordAPlan).head = OrdenDebida(e)

\* A GET that was granted and is not recorded yet: the key is still free.
Concedida(e) ==
    /\ pedido[e].head = "SOLICITAR_CLAVE"
    /\ \/ /\ hilo[e] = "consulta"
          /\ \/ planACoord # <<>> /\ Head(planACoord) # "RESPUESTA_CLAVE_BLOQUEADA"
             \/ sem_planificador = 1 /\ mensaje_planificador # "RESPUESTA_CLAVE_BLOQUEADA"
       \/ hilo[e] = "instancia"
       \/ hilo[e] = "orden_clave" /\ coordAPlan # <<>>
Concedidas ==
    \A e \in Esis : Concedida(e) => pedido[e].clave \notin ToSet(claves_bloqueadas)

\* How far through the keys of its victim terminar_esi is.
RecorridoEliminar ==
    terminando.paso = "eliminar" =>
        terminando.i >= 1 /\ terminando.i - 1 <= Len(claves_esi[terminando.victima])

\* What is asked and granted, whatever the operator does.
InvPedidos == InvVuelta /\ PedidosDebidos /\ Concedidas /\ RecorridoEliminar

\* The keys of the victim that terminar_esi has taken off the global list.
Devueltas ==
    IF terminando.paso = "eliminar"
    THEN {claves_esi[terminando.victima][j] : j \in 1..(terminando.i - 1)}
    ELSE IF terminando.paso = "liberar" THEN ToSet(claves_esi[terminando.victima]) ELSE {}

\* The lock of one key, in the middle of terminar_esi too.
Duenos(k) == {e \in Esis : k \in ToSet(claves_esi[e])}
CandadoDe(k) ==
    /\ \A e \in Esis : Unica(claves_esi[e], k)
    /\ \A e, f \in Duenos(k) : e = f
    /\ Duenos(k) # {} => k \notin ToSet(ClavesIniciales) /\ Unica(claves_bloqueadas, k)
    /\ k \in ToSet(claves_bloqueadas)
          <=> k \in ToSet(ClavesIniciales) \/ (Duenos(k) # {} /\ k \notin Devueltas)

\* The locks of all the keys.
Candados ==
    /\ \A e \in Esis : IsInjective(claves_esi[e])
    /\ \A e, f \in Esis : e # f => ToSet(claves_esi[e]) \cap ToSet(claves_esi[f]) = {}
    /\ ToSet(claves_bloqueadas) = ToSet(ClavesIniciales) \cup (ClavesDeAlguien \ Devueltas)
    /\ ToSet(ClavesIniciales) \cap ClavesDeAlguien = {}
    /\ \A k \in ClavesDeAlguien : Unica(claves_bloqueadas, k)

SinDesbloquear == "desbloquear" \notin Comandos
InvCandados == SinDesbloquear /\ InvPedidos /\ Candados

-----------------------------------------------------------------------------
LEMMA DeAlguien == \A x : x \in ClavesDeAlguien <=> \E e \in Esis : x \in ToSet(claves_esi[e])
BY DEF ClavesDeAlguien

\* The types the lists of keys have.
LEMMA TiposDeClaves ==
    ASSUME InvVuelta
    PROVE  /\ claves_esi \in [Esis -> Seq(Claves)] /\ claves_bloqueadas \in Seq(Claves)
           /\ terminando \in [paso : Pasos, victima : Esis \cup {NULL}, origen : Origenes, i : Nat]
           /\ terminando.paso \in ConVictima => terminando.victima \in Esis
BY DEF InvVuelta, InvSoporte, InvCuenta, InvTipos, TypeOK, PlanificadorTypeOK, PunterosReales

\* The locks are those of each key.
LEMMA CandadosPorClave == Candados <=> \A k : CandadoDe(k)
<1>1. ASSUME Candados, NEW k PROVE CandadoDe(k)
  <2>1. \A e \in Esis : Unica(claves_esi[e], k)
    BY <1>1 DEF Candados, Unica, IsInjective
  <2>2. Duenos(k) # {} <=> k \in ClavesDeAlguien
    BY DeAlguien DEF Duenos
  <2>3. \A e, f \in Duenos(k) : e = f
    BY <1>1 DEF Candados, Duenos
  <2>. QED BY <1>1, <2>1, <2>2, <2>3 DEF Candados, CandadoDe
<1>2. ASSUME \A k : CandadoDe(k) PROVE Candados
  <2>1. \A k : Duenos(k) # {} <=> k \in ClavesDeAlguien
    BY DeAlguien DEF Duenos
  <2>2. \A e \in Esis : IsInjective(claves_esi[e])
    BY <1>2 DEF CandadoDe, Unica, IsInjective
  <2>3. \A e, f \in Esis : e # f => ToSet(claves_esi[e]) \cap ToSet(claves_esi[f]) = {}
    BY <1>2 DEF CandadoDe, Duenos
  <2>4. ToSet(claves_bloqueadas) = ToSet(ClavesIniciales) \cup (ClavesDeAlguien \ Devueltas)
    BY <1>2, <2>1 DEF CandadoDe
  <2>5. /\ ToSet(ClavesIniciales) \cap ClavesDeAlguien = {}
        /\ \A k \in ClavesDeAlguien : Unica(claves_bloqueadas, k)
    BY <1>2, <2>1 DEF CandadoDe
  <2>. QED BY <2>2, <2>3, <2>4, <2>5 DEF Candados
<1>. QED BY <1>1, <1>2

\* What soporte works for: the one thread that waits, and its ESI.
LEMMA EnSoporte ==
    ASSUME InvPedidos, Soporte
    PROVE  \E e \in Esis :
              /\ hilo[e] \in EnEspera /\ esi_a_ejecutar = e /\ Servida(e)
              /\ clave_pedida = pedido[e].clave /\ Head(coordAPlan).head = OrdenDebida(e)
              /\ coordAPlan # <<>> /\ planACoord = <<>> /\ sem_planificador = 0
              /\ coordAPlan' = <<>> /\ clave_pedida \in Claves /\ terminando = Nadie
              /\ \A f \in Esis : hilo[f] \in EnOperacion => f = e
<1>0. InvVuelta /\ InvSoporte /\ coordAPlan # <<>> /\ coordAPlan' = Tail(coordAPlan)
  BY DEF InvPedidos, InvVuelta, Soporte, SoporteClaveLibre, SoporteBloquearEsi,
     SoporteBloquearClave, SoporteClaveDeEsi, SoporteDesbloquearClave, Atender
<1>1. PICK e \in Esis : hilo[e] \in EnEspera
  BY <1>0 DEF InvSoporte, SoporteEnVuelo, NadaEnVuelo
<1>2. PedidoEnVuelo(e) /\ Head(coordAPlan).head = OrdenDebida(e)
  BY <1>0, <1>1 DEF InvSoporte, SoporteEnVuelo, RespuestaEnVuelo, RespuestaDejada, InvPedidos,
     PedidosDebidos
<1>3. /\ planACoord = <<>> /\ sem_planificador = 0
      /\ \E m \in PedidosCoord : coordAPlan = <<m>> /\ m.clave = pedido[e].clave
  BY <1>2 DEF PedidoEnVuelo
<1>4. clave_pedida = pedido[e].clave /\ clave_pedida \in Claves /\ Tail(coordAPlan) = <<>>
  BY <1>3, Mensajes DEF clave_pedida, PedidosCoord
<1>5. hilo[e] \in EnOperacion /\ \A f \in Esis : hilo[f] \in EnOperacion => f = e
  BY <1>0, <1>1 DEF EnEspera, EnOperacion, InvSoporte, UnaOperacion
<1>6. Servida(e) /\ esi_a_ejecutar = e
  BY <1>0, <1>5, SoloServida DEF InvVuelta, Vueltas, EnServicio, Aguardado
<1>7. terminando = Nadie
  BY <1>0, <1>5, ProtegeSoporte DEF SoporteProtegido
<1>. QED BY <1>0, <1>1, <1>2, <1>3, <1>4, <1>5, <1>6, <1>7

\* A step that does not talk to soporte, and locks no key.
LEMMA PedidosAjenos ==
    ASSUME PedidosDebidos, Concedidas,
           UNCHANGED <<hilo, pedido, coordAPlan, planACoord, sem_planificador,
           mensaje_planificador>>,
           ToSet(claves_bloqueadas') \subseteq ToSet(claves_bloqueadas)
    PROVE  PedidosDebidos' /\ Concedidas'
<1>1. PedidosDebidos'
  BY DEF PedidosDebidos, OrdenDebida
<1>2. \A e \in Esis : Concedida(e)' => Concedida(e) /\ pedido'[e] = pedido[e]
  BY DEF Concedida
<1>3. Concedidas'
  BY <1>2 DEF Concedidas
<1>. QED BY <1>1, <1>3

\* soporte answers a GET that the key is free when it is, and a thread asks soporte
\* for one thing at a time.
LEMMA SoportePedidos ==
    ASSUME InvPedidos, Soporte, UNCHANGED varsCoord
    PROVE  (PedidosDebidos /\ Concedidas /\ RecorridoEliminar)'
<1>0. InvVuelta
  BY DEF InvPedidos
<1>1. PICK e \in Esis :
              /\ hilo[e] \in EnEspera /\ esi_a_ejecutar = e /\ Servida(e)
              /\ clave_pedida = pedido[e].clave /\ Head(coordAPlan).head = OrdenDebida(e)
              /\ coordAPlan # <<>> /\ planACoord = <<>> /\ sem_planificador = 0
              /\ coordAPlan' = <<>> /\ clave_pedida \in Claves /\ terminando = Nadie
              /\ \A f \in Esis : hilo[f] \in EnOperacion => f = e
  BY EnSoporte
<1>2. UNCHANGED <<hilo, pedido, sem_planificador, mensaje_planificador>>
  BY DEF varsCoord
<1>3. PICK r : /\ planACoord' = <<r>>
               /\ r = "RESPUESTA_CLAVE_BLOQUEADA" \/ ~SoporteClaveLibre
                  \/ clave_pedida \notin ToSet(claves_bloqueadas)
  <2>1. PICK r : /\ planACoord' = Append(planACoord, r)
                 /\ r = "RESPUESTA_CLAVE_BLOQUEADA" \/ ~SoporteClaveLibre
                    \/ clave_pedida \notin ToSet(claves_bloqueadas)
    BY DEF Soporte, SoporteClaveLibre, SoporteBloquearEsi, SoporteBloquearClave,
       SoporteClaveDeEsi, SoporteDesbloquearClave, Atender
  <2>. QED BY <1>1, <2>1, Mensajes
<1>4. PedidosDebidos'
  BY <1>1 DEF PedidosDebidos
<1>5. Concedidas'
  <2>1. SUFFICES ASSUME NEW f \in Esis, Concedida(f)'
                 PROVE  pedido'[f].clave \notin ToSet(claves_bloqueadas')
    BY DEF Concedidas
  <2>2. f = e
    BY <1>1, <1>2, <2>1 DEF Concedida, EnOperacion
  <2>3. /\ hilo[e] = "consulta" /\ pedido[e].head = "SOLICITAR_CLAVE"
        /\ r # "RESPUESTA_CLAVE_BLOQUEADA"
    BY <1>1, <1>2, <1>3, <2>1, <2>2, Mensajes DEF Concedida, EnEspera
  <2>4. Head(coordAPlan).head = "SOLICITUD_CLAVE_LIBRE"
    BY <1>1, <2>3 DEF OrdenDebida
  <2>5. SoporteClaveLibre
    BY <2>4 DEF Soporte, SoporteBloquearEsi, SoporteBloquearClave, SoporteClaveDeEsi,
       SoporteDesbloquearClave, Atender
  <2>6. clave_pedida \notin ToSet(claves_bloqueadas) /\ UNCHANGED claves_bloqueadas
    BY <1>3, <2>3, <2>5 DEF SoporteClaveLibre, varsPlan
  <2>. QED BY <1>1, <1>2, <2>2, <2>6
<1>6. RecorridoEliminar'
  <2>1. UNCHANGED terminando
    BY DEF Soporte, SoporteClaveLibre, SoporteBloquearEsi, SoporteBloquearClave,
       SoporteClaveDeEsi, SoporteDesbloquearClave, varsPlan, hilos
  <2>. QED BY <1>1, <2>1 DEF RecorridoEliminar, Nadie
<1>. QED BY <1>4, <1>5, <1>6

\* terminar_esi only takes keys off the global list, one of its victim's after
\* another.
LEMMA TerminarPedidos ==
    ASSUME InvPedidos, TerminarEsi, UNCHANGED varsCoord
    PROVE  (PedidosDebidos /\ Concedidas /\ RecorridoEliminar)'
<1>0. InvVuelta /\ RecorridoEliminar /\ PedidosDebidos /\ Concedidas
  BY DEF InvPedidos
<1>t. /\ claves_esi \in [Esis -> Seq(Claves)] /\ claves_bloqueadas \in Seq(Claves)
      /\ terminando \in [paso : Pasos, victima : Esis \cup {NULL}, origen : Origenes, i : Nat]
  BY <1>0, TiposDeClaves
<1>1. PICK v \in Esis : v = terminando.victima
  BY <1>0, TiposDeClaves DEF TerminarEsi, TerminarDesbloquear, TerminarEliminar,
     TerminarSiguientePaso, TerminarLiberar, ConVictima
<1>2. claves_esi[v] \in Seq(Claves) /\ Len(claves_esi[v]) \in Nat /\ terminando.i \in Nat
  BY <1>t, LenProperties
<1>3. UNCHANGED <<coordAPlan, planACoord>>
  BY DEF TerminarEsi, TerminarDesbloquear, TerminarEliminar, TerminarSiguientePaso,
     TerminarLiberar, canales
<1>4. ToSet(claves_bloqueadas') \subseteq ToSet(claves_bloqueadas)
  <2>1. CASE TerminarEliminar
    BY <1>t, <2>1, QuitarDentro DEF TerminarEliminar
  <2>2. CASE TerminarDesbloquear \/ TerminarSiguientePaso \/ TerminarLiberar
    BY <2>2 DEF TerminarDesbloquear, TerminarSiguientePaso, TerminarLiberar
  <2>. QED BY <2>1, <2>2 DEF TerminarEsi
<1>5. RecorridoEliminar'
  <2>1. CASE TerminarDesbloquear
    <3>1. terminando'.paso = "desbloquear"
      BY <1>t, <2>1, AvanzarTipo DEF TerminarDesbloquear
    <3>. QED BY <3>1 DEF RecorridoEliminar
  <2>2. CASE TerminarEliminar
    <3>1. /\ terminando.paso = "eliminar" /\ terminando'.victima = v /\ UNCHANGED claves_esi
          /\ terminando'.i = terminando.i + 1 /\ terminando.i <= Len(claves_esi[v])
      BY <1>1, <1>t, <2>2 DEF TerminarEliminar, campos
    <3>. QED BY <1>0, <1>1, <1>2, <3>1 DEF RecorridoEliminar
  <2>3. CASE TerminarSiguientePaso
    <3>1. /\ terminando'.victima = v /\ terminando'.i = 1 /\ UNCHANGED claves_esi
      BY <1>1, <1>t, <2>3 DEF TerminarSiguientePaso, campos
    <3>. QED BY <1>2, <3>1 DEF RecorridoEliminar
  <2>4. CASE TerminarLiberar
    BY <2>4 DEF TerminarLiberar, RecorridoEliminar, Nadie
  <2>. QED BY <2>1, <2>2, <2>3, <2>4 DEF TerminarEsi
<1>. QED BY <1>0, <1>3, <1>4, <1>5, PedidosAjenos DEF varsCoord

\* A thread of the Coordinador asks for what its request needs, and keeps a GET
\* that was granted until soporte has recorded it.
LEMMA CoordPedidos ==
    ASSUME InvPedidos, InvSoporte', CoordinadorNext, UNCHANGED varsPlan
    PROVE  (PedidosDebidos /\ Concedidas)'
<1>0. InvVuelta /\ InvSoporte /\ PedidosDebidos /\ Concedidas /\ UnaOperacion' /\ SoporteEnVuelo
  BY DEF InvPedidos, InvVuelta, InvSoporte
<1>t. /\ hilo \in [Esis -> Hilos] /\ mutex_mensaje \in Esis \cup {NULL} /\ NULL \notin Esis
      /\ sem_planificador \in Nat /\ pedido \in [Esis -> PedidosEsi]
  BY <1>0, ProtocoloAssumption DEF InvSoporte, InvCuenta, InvTipos, TypeOK, CoordinadorTypeOK
<1>2. UNCHANGED claves_bloqueadas
  BY DEF varsPlan
<1>3. EnEspera \subseteq EnOperacion /\ \A f \in Esis : Concedida(f)' => hilo'[f] \in EnOperacion
  BY DEF EnEspera, EnOperacion, Concedida
<1>4. CASE CoordEscucharPlanificador
  <2>1. /\ planACoord # <<>> /\ planACoord' = Tail(planACoord)
        /\ mensaje_planificador' = Head(planACoord)
        /\ UNCHANGED <<hilo, pedido, coordAPlan>>
    BY <1>4 DEF CoordEscucharPlanificador
  <2>2. PedidosDebidos'
    BY <1>0, <2>1 DEF PedidosDebidos, OrdenDebida
  <2>3. ASSUME NEW f \in Esis, Concedida(f)' PROVE Concedida(f)
    <3>1. CASE hilo[f] = "consulta"
      <4>1. PICK r : planACoord = <<r>>
        BY <1>0, <2>1, <3>1 DEF SoporteEnVuelo, PedidoEnVuelo, RespuestaEnVuelo, RespuestaDejada,
           EnEspera
      <4>2. planACoord' = <<>> /\ mensaje_planificador' = r
        BY <2>1, <4>1, Mensajes
      <4>3. r # "RESPUESTA_CLAVE_BLOQUEADA" /\ pedido[f].head = "SOLICITAR_CLAVE"
        BY <2>1, <2>3, <3>1, <4>2 DEF Concedida
      <4>. QED BY <3>1, <4>1, <4>3, Mensajes DEF Concedida
    <3>2. CASE hilo[f] # "consulta"
      BY <2>1, <2>3, <3>2 DEF Concedida
    <3>. QED BY <3>1, <3>2
  <2>. QED BY <1>0, <1>2, <2>1, <2>2, <2>3 DEF Concedidas
<1>5. SUFFICES ASSUME NEW e \in Esis,
         \/ CoordRecibir(e) \/ CoordDesconexion(e) \/ CoordClaveLarga(e)
         \/ CoordConsultar(e) \/ CoordPermitido(e) \/ CoordClaveBloqueada(e)
         \/ CoordClaveAjena(e) \/ CoordGuardar(e) \/ CoordSetear(e) \/ CoordStorear(e)
         \/ CoordInstanciaFalla(e) \/ CoordInstanciaCalla(e) \/ CoordOrdenEjecutada(e)
       PROVE (PedidosDebidos /\ Concedidas)'
  BY <1>4 DEF CoordinadorNext
<1>6. CASE CoordRecibir(e)
  <2>1. /\ hilo' = [hilo EXCEPT ![e] = "mutex"]
        /\ \A f \in Esis : f # e => pedido'[f] = pedido[f]
        /\ UNCHANGED <<mensaje_planificador, sem_planificador, coordAPlan, planACoord>>
    BY <1>6, <1>t DEF CoordRecibir
  <2>2. hilo'[e] \notin EnOperacion /\ \A f \in Esis : f # e => hilo'[f] = hilo[f]
    BY <1>t, <2>1 DEF EnOperacion
  <2>3. PedidosDebidos'
    <3>1. SUFFICES ASSUME NEW f \in Esis, hilo'[f] \in EnEspera, coordAPlan' # <<>>
                   PROVE  Head(coordAPlan').head = OrdenDebida(f)'
      BY DEF PedidosDebidos
    <3>2. hilo'[f] = hilo[f] /\ pedido'[f] = pedido[f]
      BY <1>3, <2>1, <2>2, <3>1
    <3>. QED BY <1>0, <2>1, <3>1, <3>2 DEF PedidosDebidos, OrdenDebida
  <2>4. ASSUME NEW f \in Esis, Concedida(f)' PROVE Concedida(f) /\ pedido'[f] = pedido[f]
    <3>1. hilo'[f] = hilo[f] /\ pedido'[f] = pedido[f]
      BY <1>3, <2>1, <2>2, <2>4
    <3>. QED BY <2>1, <2>4, <3>1 DEF Concedida
  <2>. QED BY <1>0, <1>2, <2>3, <2>4 DEF Concedidas
<1>7. CASE mutex_mensaje' = NULL
  <2>1. \A f \in Esis : hilo'[f] \notin EnOperacion
    BY <1>0, <1>7, <1>t DEF UnaOperacion
  <2>. QED BY <1>3, <2>1 DEF PedidosDebidos, Concedidas
<1>8. CASE mutex_mensaje' = e
  <2>1. \A f \in Esis : hilo'[f] \in EnOperacion => f = e
    BY <1>0, <1>8 DEF UnaOperacion
  <2>2. SUFFICES /\ hilo'[e] \in EnEspera /\ coordAPlan' # <<>> =>
                        Head(coordAPlan').head = OrdenDebida(e)'
                 /\ Concedida(e)' => pedido'[e].clave \notin ToSet(claves_bloqueadas')
    BY <1>3, <2>1 DEF PedidosDebidos, Concedidas
  <2>3. mutex_mensaje = NULL \/ hilo[e] = "instancia" => NadaEnVuelo
    <3>1. mutex_mensaje = NULL \/ hilo[e] = "instancia" => \A f \in Esis : hilo[f] \notin EnEspera
      BY <1>0, <1>t DEF InvSoporte, UnaOperacion, EnEspera, EnOperacion
    <3>. QED BY <1>0, <3>1 DEF SoporteEnVuelo
  <2>4. hilo[e] = "consulta" /\ sem_planificador > 0 => RespuestaDejada(e)
    BY <1>0 DEF SoporteEnVuelo, PedidoEnVuelo, RespuestaEnVuelo, EnEspera
  <2>5. CASE CoordConsultar(e)
    <3>1. /\ hilo'[e] = "consulta" /\ UNCHANGED <<pedido, planACoord, sem_planificador>>
          /\ coordAPlan' = Append(coordAPlan, Mensaje(
                IF pedido[e].head = "SOLICITAR_CLAVE" THEN "SOLICITUD_CLAVE_LIBRE"
                ELSE "SOLICITUD_CLAVE_BLOQUEADA_POR_ESI", pedido[e].clave))
          /\ NadaEnVuelo
      BY <1>t, <2>3, <2>5 DEF CoordConsultar
    <3>2. ~Concedida(e)'
      BY <3>1 DEF Concedida, NadaEnVuelo
    <3>3. Head(coordAPlan').head = OrdenDebida(e)'
      BY <3>1, Mensajes DEF NadaEnVuelo, Mensaje, OrdenDebida
    <3>. QED BY <3>2, <3>3
  <2>6. CASE CoordPermitido(e)
    <3>1. /\ hilo[e] = "consulta" /\ hilo'[e] = "instancia" /\ sem_planificador > 0
          /\ mensaje_planificador # "RESPUESTA_CLAVE_BLOQUEADA" /\ UNCHANGED pedido
      BY <1>t, <2>6 DEF CoordPermitido, EsperarPlanificador
    <3>2. Concedida(e)' => Concedida(e)
      BY <2>4, <3>1 DEF Concedida, RespuestaDejada
    <3>. QED BY <1>0, <1>2, <3>1, <3>2 DEF EnEspera, Concedidas
  <2>7. CASE CoordClaveBloqueada(e)
    <3>1. /\ hilo'[e] = "orden_esi" /\ UNCHANGED pedido
          /\ coordAPlan' = Append(coordAPlan, Mensaje("BLOQUEAR_ESI", pedido[e].clave))
          /\ coordAPlan = <<>>
      BY <1>t, <2>4, <2>7 DEF CoordClaveBloqueada, EsperarPlanificador, RespuestaDejada
    <3>. QED BY <3>1, Mensajes DEF Concedida, OrdenDebida, Mensaje
  <2>8. CASE CoordGuardar(e)
    <3>1. /\ hilo'[e] = "orden_clave" /\ hilo[e] = "instancia" /\ UNCHANGED pedido
          /\ coordAPlan' = Append(coordAPlan,
                Mensaje("BLOQUEAR_CLAVE_PARA_ESI_EJECUTANDO", pedido[e].clave))
          /\ coordAPlan = <<>> /\ pedido[e].head = "SOLICITAR_CLAVE"
      BY <1>t, <2>3, <2>8 DEF CoordGuardar, NadaEnVuelo
    <3>2. pedido[e].clave \notin ToSet(claves_bloqueadas)
      BY <1>0, <3>1 DEF Concedida, Concedidas
    <3>. QED BY <1>2, <3>1, <3>2, Mensajes DEF OrdenDebida, Mensaje
  <2>9. CASE CoordStorear(e)
    <3>1. /\ hilo'[e] = "orden_clave" /\ UNCHANGED pedido
          /\ coordAPlan' = Append(coordAPlan,
                Mensaje("DESBLOQUEAR_CLAVE_DEL_ESI_EJECUTANDO", pedido[e].clave))
          /\ coordAPlan = <<>> /\ pedido[e].head = "PERSISTIR_CLAVE"
      BY <1>t, <2>3, <2>9 DEF CoordStorear, NadaEnVuelo
    <3>. QED BY <3>1, Mensajes DEF Concedida, OrdenDebida, Mensaje
  <2>10. CASE CoordInstanciaCalla(e)
    <3>1. hilo'[e] = "colgado"
      BY <1>t, <2>10 DEF CoordInstanciaCalla
    <3>. QED BY <3>1 DEF Concedida, EnEspera
  <2>11. CASE \/ CoordDesconexion(e) \/ CoordClaveLarga(e) \/ CoordClaveAjena(e) \/ CoordSetear(e)
              \/ CoordInstanciaFalla(e) \/ CoordOrdenEjecutada(e)
    <3>1. mutex_mensaje' = NULL
      BY <2>11 DEF CoordDesconexion, CoordClaveLarga, CoordClaveAjena, CoordSetear,
         CoordInstanciaFalla, CoordOrdenEjecutada, Fallar, Cumplir
    <3>. QED BY <1>8, <1>t, <3>1
  <2>12. CASE CoordRecibir(e)
    BY <1>6, <2>2, <2>12 DEF PedidosDebidos, Concedidas
  <2>. QED BY <1>5, <2>5, <2>6, <2>7, <2>8, <2>9, <2>10, <2>11, <2>12
<1>9. CoordRecibir(e) \/ mutex_mensaje' = NULL \/ mutex_mensaje' = e
  <2>1. hilo[e] \in EnOperacion => mutex_mensaje = e
    BY <1>0 DEF InvSoporte, UnaOperacion
  <2>. QED BY <1>5, <2>1 DEF EnOperacion, CoordDesconexion, CoordClaveLarga, CoordConsultar,
       CoordPermitido, CoordClaveBloqueada, CoordClaveAjena, CoordGuardar, CoordSetear,
       CoordStorear,
       CoordInstanciaFalla, CoordInstanciaCalla, CoordOrdenEjecutada, Cumplir, Fallar
<1>. QED BY <1>6, <1>7, <1>8, <1>9

-----------------------------------------------------------------------------
\* A step that changes nothing about the key, whatever it does to others.
LEMMA CandadoIgual ==
    ASSUME NEW k, CandadoDe(k),
           \A e \in Esis : /\ k \in ToSet(claves_esi'[e]) <=> k \in ToSet(claves_esi[e])
                           /\ Unica(claves_esi[e], k) => Unica(claves_esi'[e], k),
           k \in ToSet(claves_bloqueadas') <=> k \in ToSet(claves_bloqueadas),
           Unica(claves_bloqueadas, k) => Unica(claves_bloqueadas', k),
           Duenos(k) # {} => (k \in Devueltas' <=> k \in Devueltas)
    PROVE  CandadoDe(k)'
<1>1. Duenos(k)' = Duenos(k)
  BY DEF Duenos
<1>. QED BY <1>1 DEF CandadoDe

\* A step that leaves the keys alone, and terminar_esi where it is or far from
\* the end.
LEMMA CandadoAjeno ==
    ASSUME NEW k, CandadoDe(k), UNCHANGED <<claves_esi, claves_bloqueadas>>,
           \/ UNCHANGED terminando
           \/ /\ terminando.paso \notin {"eliminar", "liberar"}
              /\ terminando'.paso \notin {"eliminar", "liberar"}
    PROVE  CandadoDe(k)'
<1>1. Devueltas' = Devueltas
  BY DEF Devueltas
<1>. QED BY <1>1, CandadoIgual

\* soporte locks and unlocks the key of its request, and no other.
LEMMA SoporteCandado ==
    ASSUME InvPedidos, Soporte, NEW k, CandadoDe(k)
    PROVE  CandadoDe(k)'
<1>0. InvVuelta /\ Concedidas
  BY DEF InvPedidos
<1>t. claves_esi \in [Esis -> Seq(Claves)] /\ claves_bloqueadas \in Seq(Claves)
  BY <1>0, TiposDeClaves
<1>1. PICK e \in Esis :
              /\ hilo[e] \in EnEspera /\ esi_a_ejecutar = e /\ Servida(e)
              /\ clave_pedida = pedido[e].clave /\ Head(coordAPlan).head = OrdenDebida(e)
              /\ coordAPlan # <<>> /\ planACoord = <<>> /\ sem_planificador = 0
              /\ coordAPlan' = <<>> /\ clave_pedida \in Claves /\ terminando = Nadie
              /\ \A f \in Esis : hilo[f] \in EnOperacion => f = e
  BY EnSoporte
<1>2. PICK q \in Claves : q = clave_pedida
  BY <1>1
<1>3. Devueltas = {} /\ (UNCHANGED terminando => Devueltas' = {})
  BY <1>1 DEF Devueltas, Nadie
<1>4. claves_esi[e] \in Seq(Claves)
  BY <1>t
<1>5. CASE SoporteClaveLibre \/ SoporteClaveDeEsi \/ SoporteBloquearEsi
  <2>1. UNCHANGED <<claves_esi, claves_bloqueadas, terminando>>
    BY <1>5 DEF SoporteClaveLibre, SoporteClaveDeEsi, SoporteBloquearEsi, varsPlan, campos, hilos
  <2>. QED BY <2>1, CandadoAjeno
<1>6. CASE SoporteBloquearClave
  <2>1. /\ Head(coordAPlan).head = "BLOQUEAR_CLAVE_PARA_ESI_EJECUTANDO"
        /\ claves_esi' = [claves_esi EXCEPT ![e] = Append(@, q)]
        /\ claves_bloqueadas' = Append(claves_bloqueadas, q) /\ UNCHANGED terminando
    BY <1>1, <1>2, <1>6 DEF SoporteBloquearClave, Atender, hilos
  <2>2. /\ claves_esi'[e] = Append(claves_esi[e], q)
        /\ \A f \in Esis : f # e => claves_esi'[f] = claves_esi[f]
        /\ ToSet(claves_esi'[e]) = ToSet(claves_esi[e]) \cup {q}
        /\ ToSet(claves_bloqueadas') = ToSet(claves_bloqueadas) \cup {q}
    BY <1>t, <1>4, <2>1, AgregarTipo
  <2>3. hilo[e] = "orden_clave" /\ pedido[e].head = "SOLICITAR_CLAVE"
    BY <1>1, <2>1 DEF OrdenDebida, EnEspera
  <2>4. q \notin ToSet(claves_bloqueadas)
    BY <1>0, <1>1, <1>2, <2>3 DEF Concedidas, Concedida
  <2>5. CASE q = k
    <3>1. k \notin ToSet(ClavesIniciales) /\ Duenos(k) = {}
      BY <1>3, <2>4, <2>5 DEF CandadoDe
    <3>2. Duenos(k)' = {e}
      BY <2>2, <2>5, <3>1 DEF Duenos
    <3>3. Unica(claves_bloqueadas', k)
      BY <1>t, <2>1, <2>4, <2>5, AgregarUnica
    <3>4. Unica(claves_esi'[e], k)
      BY <1>4, <2>2, <2>5, <3>1, AgregarUnica DEF Duenos
    <3>5. \A f \in Esis : Unica(claves_esi'[f], k)
      BY <2>2, <3>4 DEF CandadoDe
    <3>. QED BY <1>3, <2>1, <2>2, <2>5, <3>1, <3>2, <3>3, <3>5 DEF CandadoDe
  <2>6. CASE q # k
    <3>1. Unica(claves_esi[e], k) => Unica(claves_esi'[e], k)
      BY <1>4, <2>2, <2>6, AgregarUnica
    <3>2. Unica(claves_bloqueadas, k) => Unica(claves_bloqueadas', k)
      BY <1>t, <2>1, <2>6, AgregarUnica
    <3>. QED BY <1>3, <2>1, <2>2, <2>6, <3>1, <3>2, CandadoIgual
  <2>. QED BY <2>5, <2>6
<1>7. CASE SoporteDesbloquearClave
  <2>1. /\ claves_esi' = [claves_esi EXCEPT ![e] = Quitar(@, q)]
        /\ claves_bloqueadas' = IF q \in ToSet(claves_esi[e])
                                THEN Quitar(claves_bloqueadas, q) ELSE claves_bloqueadas
        /\ UNCHANGED terminando
    BY <1>1, <1>2, <1>7 DEF SoporteDesbloquearClave, hilos
  <2>2. /\ claves_esi'[e] = Quitar(claves_esi[e], q)
        /\ \A f \in Esis : f # e => claves_esi'[f] = claves_esi[f]
    BY <1>t, <2>1
  <2>3. CASE q \notin ToSet(claves_esi[e])
    <3>1. UNCHANGED <<claves_esi, claves_bloqueadas>>
      BY <1>4, <1>t, <2>1, <2>3, SacarAusente DEF Quitar
    <3>. QED BY <2>1, <3>1, CandadoAjeno
  <2>4. CASE q \in ToSet(claves_esi[e]) /\ q = k
    <3>1. Duenos(k) = {e} /\ k \notin ToSet(ClavesIniciales) /\ Unica(claves_bloqueadas, k)
      BY <2>4 DEF CandadoDe, Duenos
    <3>2. ToSet(claves_esi'[e]) = ToSet(claves_esi[e]) \ {k}
      BY <1>4, <2>2, <2>4, QuitarUnica DEF CandadoDe
    <3>3. Duenos(k)' = {}
      BY <2>2, <3>1, <3>2 DEF Duenos
    <3>4. ToSet(claves_bloqueadas') = ToSet(claves_bloqueadas) \ {k}
      BY <1>t, <2>1, <2>4, <3>1, QuitarUnica
    <3>5. Unica(claves_esi'[e], k)
      BY <1>4, <2>2, QuitarSigueUnica DEF CandadoDe
    <3>6. \A f \in Esis : Unica(claves_esi'[f], k)
      BY <2>2, <3>5 DEF CandadoDe
    <3>. QED BY <3>1, <3>3, <3>4, <3>6 DEF CandadoDe
  <2>5. CASE q \in ToSet(claves_esi[e]) /\ q # k
    <3>1. /\ Unica(claves_esi[e], k) => Unica(claves_esi'[e], k)
          /\ k \in ToSet(claves_esi'[e]) <=> k \in ToSet(claves_esi[e])
      BY <1>4, <2>2, <2>5, QuitarSigueUnica, QuitarOtros, QuitarDentro
    <3>2. /\ Unica(claves_bloqueadas, k) => Unica(claves_bloqueadas', k)
          /\ k \in ToSet(claves_bloqueadas') <=> k \in ToSet(claves_bloqueadas)
      BY <1>t, <2>1, <2>5, QuitarSigueUnica, QuitarOtros, QuitarDentro
    <3>. QED BY <1>3, <2>1, <2>2, <3>1, <3>2, CandadoIgual
  <2>. QED BY <2>3, <2>4, <2>5
<1>. QED BY <1>5, <1>6, <1>7 DEF Soporte

\* terminar_esi unlocks the keys of its victim one by one, then forgets them.
LEMMA TerminarCandado ==
    ASSUME InvPedidos, TerminarEsi, NEW k, CandadoDe(k)
    PROVE  CandadoDe(k)'
<1>0. InvVuelta /\ RecorridoEliminar
  BY DEF InvPedidos
<1>t. /\ claves_esi \in [Esis -> Seq(Claves)] /\ claves_bloqueadas \in Seq(Claves)
      /\ terminando \in [paso : Pasos, victima : Esis \cup {NULL}, origen : Origenes, i : Nat]
  BY <1>0, TiposDeClaves
<1>1. CASE TerminarDesbloquear
  <2>1. /\ terminando.paso = "desbloquear" /\ terminando'.paso = "desbloquear"
        /\ UNCHANGED <<claves_esi, claves_bloqueadas>>
    BY <1>1, <1>t, AvanzarTipo DEF TerminarDesbloquear
  <2>. QED BY <2>1, CandadoAjeno
<1>a. SUFFICES ASSUME TerminarEliminar \/ TerminarSiguientePaso \/ TerminarLiberar
               PROVE  CandadoDe(k)'
  BY <1>1 DEF TerminarEsi
<1>2. PICK v \in Esis : v = terminando.victima
  BY <1>0, <1>a, TiposDeClaves DEF TerminarEliminar, TerminarSiguientePaso, TerminarLiberar,
     ConVictima
<1>3. /\ claves_esi[v] \in Seq(Claves) /\ Len(claves_esi[v]) \in Nat /\ terminando.i \in Nat
      /\ ToSet(claves_esi[v]) = {claves_esi[v][j] : j \in 1..Len(claves_esi[v])}
  BY <1>t, LenProperties DEF ToSet
<1>5. CASE TerminarEliminar
  <2>1. PICK q : q = claves_esi[v][terminando.i]
    OBVIOUS
  <2>2. /\ terminando.paso = "eliminar" /\ terminando'.paso = "eliminar" /\ terminando'.victima = v
        /\ terminando'.i = terminando.i + 1 /\ terminando.i <= Len(claves_esi[v])
        /\ claves_bloqueadas' = Quitar(claves_bloqueadas, q) /\ UNCHANGED claves_esi
    BY <1>2, <1>5, <1>t, <2>1 DEF TerminarEliminar, campos
  <2>3. terminando.i >= 1 /\ terminando.i - 1 <= Len(claves_esi[v])
    BY <1>0, <1>2, <2>2 DEF RecorridoEliminar
  <2>4. Devueltas = {claves_esi[v][j] : j \in 1..(terminando.i - 1)}
    BY <1>2, <2>2 DEF Devueltas
  <2>5. Devueltas' = {claves_esi[v][j] : j \in 1..terminando.i}
    <3>1. terminando'.i - 1 = terminando.i
      BY <1>3, <2>2
    <3>. QED BY <2>2, <3>1 DEF Devueltas
  <2>6. Devueltas' = Devueltas \cup {q}
    BY <1>3, <2>1, <2>3, <2>4, <2>5
  <2>7. CASE q = k
    <3>1. v \in Duenos(k)
      <4>1. terminando.i \in 1..Len(claves_esi[v])
        BY <1>3, <2>2, <2>3
      <4>. QED BY <1>3, <2>1, <2>7, <4>1 DEF Duenos
    <3>2. k \notin ToSet(ClavesIniciales) /\ Unica(claves_bloqueadas, k)
      BY <3>1 DEF CandadoDe
    <3>3. ToSet(claves_bloqueadas') = ToSet(claves_bloqueadas) \ {k} /\ Unica(claves_bloqueadas', k)
      BY <1>t, <2>2, <2>7, <3>2, QuitarUnica, QuitarSigueUnica
    <3>4. Duenos(k)' = Duenos(k) /\ k \in Devueltas'
      BY <2>2, <2>6, <2>7 DEF Duenos
    <3>. QED BY <2>2, <3>2, <3>3, <3>4 DEF CandadoDe
  <2>8. CASE q # k
    <3>1. /\ Unica(claves_bloqueadas, k) => Unica(claves_bloqueadas', k)
          /\ k \in ToSet(claves_bloqueadas') <=> k \in ToSet(claves_bloqueadas)
      BY <1>t, <2>2, <2>8, QuitarSigueUnica, QuitarOtros, QuitarDentro
    <3>. QED BY <2>2, <2>6, <2>8, <3>1, CandadoIgual
  <2>. QED BY <2>7, <2>8
<1>6. CASE TerminarSiguientePaso
  <2>1. /\ terminando'.victima = v /\ terminando'.i = 1 /\ terminando.i > Len(claves_esi[v])
        /\ UNCHANGED <<claves_esi, claves_bloqueadas>>
        /\ \/ terminando.paso = "desbloquear" /\ terminando'.paso = "eliminar"
           \/ terminando.paso = "eliminar" /\ terminando'.paso = "liberar"
    BY <1>2, <1>6, <1>t DEF TerminarSiguientePaso, campos
  <2>2. Devueltas' = Devueltas
    <3>1. CASE terminando.paso = "desbloquear"
      BY <2>1, <3>1 DEF Devueltas
    <3>2. CASE terminando.paso = "eliminar"
      <4>1. terminando.i - 1 = Len(claves_esi[v])
        BY <1>0, <1>2, <1>3, <2>1, <3>2 DEF RecorridoEliminar
      <4>. QED BY <1>2, <1>3, <2>1, <3>2, <4>1 DEF Devueltas
    <3>. QED BY <2>1, <3>1, <3>2
  <2>. QED BY <2>1, <2>2, CandadoIgual
<1>7. CASE TerminarLiberar
  <2>1. /\ terminando.paso = "liberar" /\ terminando'.paso \notin {"eliminar", "liberar"}
        /\ claves_esi' = [claves_esi EXCEPT ![v] = <<>>] /\ UNCHANGED claves_bloqueadas
    BY <1>2, <1>7 DEF TerminarLiberar, Nadie
  <2>2. Devueltas = ToSet(claves_esi[v]) /\ Devueltas' = {}
    BY <1>2, <2>1 DEF Devueltas
  <2>3. /\ ToSet(claves_esi'[v]) = {} /\ Unica(claves_esi'[v], k)
        /\ \A f \in Esis : f # v => claves_esi'[f] = claves_esi[f]
    BY <1>t, <2>1 DEF ToSet, Unica
  <2>4. CASE v \in Duenos(k)
    <3>1. Duenos(k) = {v} /\ Duenos(k)' = {} /\ k \in Devueltas
      BY <2>2, <2>3, <2>4 DEF CandadoDe, Duenos
    <3>2. \A f \in Esis : Unica(claves_esi'[f], k)
      BY <2>3 DEF CandadoDe
    <3>. QED BY <2>1, <3>1, <3>2 DEF CandadoDe
  <2>5. CASE v \notin Duenos(k)
    <3>1. k \notin Devueltas /\ k \notin Devueltas'
      BY <2>2, <2>5 DEF Duenos
    <3>2. \A f \in Esis : /\ k \in ToSet(claves_esi'[f]) <=> k \in ToSet(claves_esi[f])
                          /\ Unica(claves_esi[f], k) => Unica(claves_esi'[f], k)
      BY <2>3, <2>5 DEF Duenos
    <3>. QED BY <2>1, <3>1, <3>2, CandadoIgual
  <2>. QED BY <2>4, <2>5
<1>. QED BY <1>a, <1>5, <1>6, <1>7

\* What planificar does itself and the admission of ESIs leave every key where it
\* is, and of what the console does, all but desbloquear.
LEMMA PlanQuieto ==
    ASSUME InvVuelta, Planificar \/ Consola \/ UsoIndebido \/ \E e \in Esis : AgregarNuevoEsi(e)
    PROVE  /\ UNCHANGED <<claves_esi, coordAPlan, planACoord>>
           /\ \/ UNCHANGED terminando
              \/ /\ terminando.paso \notin {"eliminar", "liberar"}
                 /\ terminando'.paso \notin {"eliminar", "liberar"}
           /\ UNCHANGED claves_bloqueadas \/ \E q \in Claves : ConsolaDesbloquear(q)
<1>1. CASE Planificar
  BY <1>1 DEF Planificar, PlanInicio, PlanRevisar, PlanDesalojar, PlanDesalojarMutex,
     PlanDesalojarFin, PlanElegir, PlanEsperaSem, PlanSelPausa, PlanSeleccionar, PlanPausa,
     PlanDespachar, PlanRespuestaCorrecta, PlanRespuestaFinal, EmpezarTerminar, Nadie,
     campos, canales
<1>2. CASE ConsolaPausar \/ ConsolaContinuar \/ ConsolaSemWait
           \/ \E e \in Esis, k \in Claves : ConsolaBloquearEjecutando(e, k)
  BY <1>2 DEF ConsolaPausar, ConsolaContinuar, ConsolaSemWait, ConsolaBloquearEjecutando, Nadie,
     campos, hilos, canales
<1>3. ASSUME NEW e \in Esis, ConsolaKill(e) \/ \E k \in Claves : ConsolaBloquearListo(e, k)
      PROVE  /\ UNCHANGED <<claves_esi, claves_bloqueadas, coordAPlan, planACoord>>
             /\ terminando.paso \notin {"eliminar", "liberar"}
             /\ terminando'.paso \notin {"eliminar", "liberar"}
  <2>1. mutex_listas = "libre"
    BY <1>3 DEF ConsolaKill, ConsolaBloquearListo, Comando
  <2>2. terminando = Nadie
    BY <2>1, NadieTermina
  <2>. QED BY <1>3, <2>2 DEF ConsolaKill, ConsolaBloquearListo, EmpezarTerminar, Nadie, canales
<1>4. CASE \E k \in Claves : ConsolaDesbloquear(k)
  BY <1>4 DEF ConsolaDesbloquear, hilos, canales
<1>5. CASE UsoIndebido \/ \E e \in Esis : AgregarNuevoEsi(e)
  BY <1>5 DEF UsoIndebido, AgregarNuevoEsi, varsPlan, campos, hilos, canales
<1>. QED BY <1>1, <1>2, <1>3, <1>4, <1>5 DEF Consola

LEMMA PlanPedidos ==
    ASSUME InvPedidos, Planificar \/ Consola \/ UsoIndebido \/ \E e \in Esis : AgregarNuevoEsi(e),
           UNCHANGED varsCoord
    PROVE  (PedidosDebidos /\ Concedidas /\ RecorridoEliminar)'
<1>0. InvVuelta /\ PedidosDebidos /\ Concedidas /\ RecorridoEliminar
  BY DEF InvPedidos
<1>1. claves_bloqueadas \in Seq(Claves)
  BY <1>0, TiposDeClaves
<1>2. ToSet(claves_bloqueadas') \subseteq ToSet(claves_bloqueadas)
  BY <1>0, <1>1, PlanQuieto, QuitarDentro DEF ConsolaDesbloquear
<1>3. PedidosDebidos' /\ Concedidas'
  BY <1>0, <1>2, PlanQuieto, PedidosAjenos DEF varsCoord
<1>. QED BY <1>0, <1>3, PlanQuieto DEF RecorridoEliminar

LEMMA PlanCandado ==
    ASSUME InvPedidos, Planificar \/ Consola \/ UsoIndebido \/ \E e \in Esis : AgregarNuevoEsi(e),
           NEW k, CandadoDe(k), ~ConsolaDesbloquear(k)
    PROVE  CandadoDe(k)'
<1>0. InvVuelta /\ claves_bloqueadas \in Seq(Claves)
  BY TiposDeClaves DEF InvPedidos
<1>1. CASE UNCHANGED claves_bloqueadas
  BY <1>0, <1>1, PlanQuieto, CandadoAjeno
<1>2. ASSUME NEW q \in Claves, ConsolaDesbloquear(q) PROVE CandadoDe(k)'
  <2>1. /\ claves_bloqueadas' = Quitar(claves_bloqueadas, q) /\ UNCHANGED <<claves_esi, terminando>>
        /\ q # k
    BY <1>2 DEF ConsolaDesbloquear, hilos
  <2>2. /\ Unica(claves_bloqueadas, k) => Unica(claves_bloqueadas', k)
        /\ k \in ToSet(claves_bloqueadas') <=> k \in ToSet(claves_bloqueadas)
    BY <1>0, <2>1, QuitarSigueUnica, QuitarOtros, QuitarDentro
  <2>3. Devueltas' = Devueltas
    BY <2>1 DEF Devueltas
  <2>. QED BY <2>1, <2>2, <2>3, CandadoIgual
<1>. QED BY <1>0, <1>1, <1>2, PlanQuieto

\* Every step keeps what is asked and granted, without Ctrl-C.
LEMMA PasoPedidos == InvPedidos /\ [Next]_vars => InvPedidos'
<1>. SUFFICES ASSUME InvPedidos, [Next]_vars PROVE InvPedidos'
  OBVIOUS
<1>0. /\ InvVuelta /\ InvVuelta' /\ InvSoporte' /\ PedidosDebidos /\ Concedidas
      /\ RecorridoEliminar
  BY PasoVuelta DEF InvPedidos, InvVuelta
<1>1. SUFFICES (PedidosDebidos /\ Concedidas /\ RecorridoEliminar)'
  BY <1>0 DEF InvPedidos
<1>2. CASE DePlan(PlanificadorNext)
  BY <1>2, SoportePedidos, TerminarPedidos, PlanPedidos DEF DePlan, PlanificadorNext
<1>3. CASE DeEsi(EsiNext)
  <2>1. UNCHANGED <<varsPlan, varsCoord, coordAPlan, planACoord>>
    BY <1>3 DEF DeEsi, EsiNext, EsiRecibirOrden, EsiEmpezar, EsiPedirOperacion, EsiLineaInvalida,
       EsiFinDeGuion, EsiRecibirResultado, EsiContestar, EsiFinInstruccion, EsiCtrlC,
       EsiFinInterrupcion, canales
  <2>. QED BY <1>0, <2>1, PedidosAjenos DEF RecorridoEliminar, varsPlan, varsCoord, campos, hilos
<1>4. CASE DeCoord(CoordinadorNext)
  <2>1. UNCHANGED <<terminando, claves_esi>>
    BY <1>4 DEF DeCoord, varsPlan, campos, hilos
  <2>. QED BY <1>0, <1>4, <2>1, CoordPedidos DEF DeCoord, RecorridoEliminar
<1>5. CASE UNCHANGED vars
  <2>1. UNCHANGED <<varsPlan, varsCoord, coordAPlan, planACoord>>
    BY <1>5 DEF vars, canales
  <2>. QED BY <1>0, <2>1, PedidosAjenos DEF RecorridoEliminar, varsPlan, varsCoord, campos, hilos
<1>. QED BY <1>2, <1>3, <1>4, <1>5 DEF Next, Reposo

\* Every step but a desbloquear of the key keeps its lock.
LEMMA PasoCandado ==
    ASSUME InvPedidos, [Next]_vars, NEW k, CandadoDe(k), ~ConsolaDesbloquear(k)
    PROVE  CandadoDe(k)'
<1>1. CASE DePlan(PlanificadorNext)
  BY <1>1, SoporteCandado, TerminarCandado, PlanCandado DEF DePlan, PlanificadorNext
<1>2. CASE DeEsi(EsiNext) \/ DeCoord(CoordinadorNext) \/ UNCHANGED vars
  <2>1. UNCHANGED <<claves_esi, claves_bloqueadas, terminando>>
    BY <1>2 DEF DeEsi, DeCoord, vars, varsPlan, campos, hilos
  <2>. QED BY <2>1, CandadoAjeno
<1>. QED BY <1>1, <1>2 DEF Next, Reposo

LEMMA InicioCandado ==
    ASSUME Init, SinCtrlC PROVE InvPedidos /\ \A k : CandadoDe(k)
<1>1. /\ claves_esi = [e \in Esis |-> <<>>] /\ claves_bloqueadas = ClavesIniciales
      /\ terminando = Nadie /\ \A e \in Esis : hilo[e] = "recibe"
  BY DEF Init, PlanificadorInit, CoordinadorInit
<1>2. ASSUME NEW k PROVE CandadoDe(k)
  <2>1. Duenos(k) = {} /\ \A e \in Esis : Unica(claves_esi[e], k)
    BY <1>1 DEF Duenos, Unica, ToSet
  <2>. QED BY <1>1, <2>1 DEF CandadoDe
<1>3. PedidosDebidos /\ Concedidas /\ RecorridoEliminar
  BY <1>1 DEF PedidosDebidos, Concedidas, Concedida, EnEspera, RecorridoEliminar, Nadie
<1>. QED BY <1>2, <1>3, InicioVuelta DEF InvPedidos

-----------------------------------------------------------------------------
\* Every step keeps all the locks, without Ctrl-C and without desbloquear.
LEMMA PasoCandados == InvCandados /\ [Next]_vars => InvCandados'
<1>. SUFFICES ASSUME InvCandados, [Next]_vars PROVE InvCandados'
  OBVIOUS
<1>1. SinDesbloquear /\ SinDesbloquear' /\ InvPedidos /\ InvPedidos' /\ Candados
  BY PasoPedidos DEF InvCandados, SinDesbloquear
<1>2. ASSUME NEW k PROVE CandadoDe(k)'
  <2>1. CandadoDe(k)
    BY <1>1, CandadosPorClave DEF InvPedidos
  <2>2. ~ConsolaDesbloquear(k)
    BY <1>1 DEF SinDesbloquear, ConsolaDesbloquear, Comando
  <2>. QED BY <1>1, <2>1, <2>2, PasoCandado
<1>3. Candados'
  <2>1. (Candados <=> \A k : CandadoDe(k))'
    BY CandadosPorClave, PTL
  <2>. QED BY <1>2, <2>1
<1>. QED BY <1>1, <1>3 DEF InvCandados

LEMMA InicioCandados == Init /\ SinCtrlC /\ SinDesbloquear => InvCandados
BY InicioCandado, CandadosPorClave DEF InvCandados, InvPedidos

\* GET locks: no key has two owners, and GET finds locked the keys somebody owns
\* and those of the configuration.  The global list of the Planificador and the
\* lists of the ESIs are written by soporte, which takes no mutex, and by
\* terminar_esi in two passes.
THEOREM CandadosSinDesbloquear == Spec /\ SinCtrlC /\ SinDesbloquear => []CandadosCoherentes
<1>1. ASSUME InvCandados PROVE CandadosCoherentes
  <2>1. Candados
    BY <1>1 DEF InvCandados
  <2>2. ExclusionClaves
    <3>1. SUFFICES ASSUME NEW e \in Esis, NEW f \in Esis, NEW i \in DOMAIN claves_esi[e],
                          NEW j \in DOMAIN claves_esi[f], claves_esi[e][i] = claves_esi[f][j]
                   PROVE  e = f /\ i = j
      BY DEF ExclusionClaves
    <3>2. claves_esi[e][i] \in ToSet(claves_esi[e]) \cap ToSet(claves_esi[f])
      BY <3>1 DEF ToSet
    <3>3. e = f
      BY <2>1, <3>2 DEF Candados
    <3>. QED BY <2>1, <3>1, <3>3 DEF Candados, IsInjective
  <2>3. ClavesCoherentes
    <3>1. SUFFICES ASSUME terminando.paso \notin {"eliminar", "liberar"}
                   PROVE  ToSet(claves_bloqueadas) = ToSet(ClavesIniciales) \cup ClavesDeAlguien
      BY DEF ClavesCoherentes
    <3>2. Devueltas = {}
      BY <3>1 DEF Devueltas
    <3>. QED BY <2>1, <3>2 DEF Candados
  <2>. QED BY <2>2, <2>3 DEF CandadosCoherentes
<1>2. Spec /\ SinCtrlC /\ SinDesbloquear => []InvCandados
  BY InicioCandados, PasoCandados, PTL DEF Spec
<1>. QED BY <1>1, <1>2, PTL

\* The locks of the keys that desbloquear was not given.
InvConsola == InvPedidos /\ \A k \in Claves \ desbloqueadas : CandadoDe(k)

\* The operator gives no key to two ESIs with bloquear and kill, whenever they come:
\* a key with two owners is one that desbloquear has taken from the global list.
THEOREM ExclusionConConsola == SpecConsola /\ SinCtrlC => []ExclusionSalvoDesbloquear
<1>1. InitConsola /\ SinCtrlC => InvConsola
  BY InicioCandado DEF InitConsola, InvConsola
<1>2. InvConsola /\ [NextConsola]_<<vars, desbloqueadas>> => InvConsola'
  <2>1. SUFFICES ASSUME InvConsola, [NextConsola]_<<vars, desbloqueadas>> PROVE InvConsola'
    OBVIOUS
  <2>2. [Next]_vars
    BY <2>1 DEF NextConsola
  <2>3. InvPedidos /\ InvPedidos'
    BY <2>1, <2>2, PasoPedidos DEF InvConsola
  <2>4. ASSUME NEW k \in Claves \ desbloqueadas' PROVE CandadoDe(k)'
    <3>1. CASE UNCHANGED <<vars, desbloqueadas>>
      <4>1. UNCHANGED <<claves_esi, claves_bloqueadas, terminando>>
        BY <3>1 DEF vars, varsPlan, campos, hilos
      <4>. QED BY <2>1, <2>4, <3>1, <4>1, CandadoAjeno DEF InvConsola
    <3>2. CASE NextConsola
      <4>1. k \notin desbloqueadas /\ ~ConsolaDesbloquear(k)
        BY <2>4, <3>2 DEF NextConsola
      <4>. QED BY <2>1, <2>2, <2>3, <2>4, <4>1, PasoCandado DEF InvConsola
    <3>. QED BY <2>1, <3>1, <3>2
  <2>. QED BY <2>3, <2>4 DEF InvConsola
<1>3. InvConsola => ExclusionSalvoDesbloquear
  <2>1. SUFFICES ASSUME InvConsola, NEW e \in Esis, NEW f \in Esis, e # f,
                        NEW k \in ToSet(claves_esi[e]) \cap ToSet(claves_esi[f])
                 PROVE  k \in desbloqueadas
    BY DEF ExclusionSalvoDesbloquear
  <2>2. k \in Claves
    BY <2>1, TiposDeClaves DEF InvConsola, InvPedidos, ToSet
  <2>. QED BY <2>1, <2>2 DEF InvConsola, CandadoDe, Duenos
<1>. QED BY <1>1, <1>2, <1>3, PTL DEF SpecConsola

-----------------------------------------------------------------------------
(* What the ESIs own, as the three processes know it.                      *)
Instruccion(e) == guion[e][linea[e]]

\* What a thread serves, and what it answers, is the line its ESI has read.
GuionDe(e) ==
    /\ linea[e] \in DOMAIN guion[e]
    /\ esiACoord[e] # <<>> => esiACoord[e] = <<Solicitud(Instruccion(e))>>
    /\ EnServicio(e) => pedido[e] = Solicitud(Instruccion(e))
    /\ coordAEsi[e] \in {<<"CLAVE_LIBRE">>, <<"CLAVE_YA_BLOQUEADA">>} => Instruccion(e).op = "GET"
    /\ coordAEsi[e] = <<"RESULTADO_OPERACION_CORRECTA">> => Instruccion(e).op # "GET"
    /\ coordAEsi[e] = <<"CLAVE_LIBRE">> => Instruccion(e).clave \in ToSet(claves_esi[e])
GuionServido == \A e \in Esis : fase[e] = "espera_coord" => GuionDe(e)

\* The answer of soporte to a consultation, on its way or taken by the thread
\* that listens.
Contestado(e, r) ==
    /\ hilo[e] = "consulta"
    /\ planACoord = <<r>> \/ (sem_planificador = 1 /\ mensaje_planificador = r)

\* A thread goes on as its request and the answer to it ask for.
Servicio(e) ==
    /\ hilo[e] \in EnOperacion => pedido[e].clave \notin ClavesLargas
    /\ hilo[e] = "orden_esi" => pedido[e].head = "SOLICITAR_CLAVE"
    /\ hilo[e] = "orden_clave" => pedido[e].head # "ASIGNAR_VALOR"
    /\ \A r \in RespuestasSoporte : Contestado(e, r) =>
          (pedido[e].head = "SOLICITAR_CLAVE"
             <=> r \in {"RESPUESTA_CLAVE_LIBRE", "RESPUESTA_CLAVE_BLOQUEADA"})
Servicios == \A e \in Esis : Servicio(e)

\* The key of a SET or STORE that was allowed is of its ESI until soporte takes
\* it, that of a GET from when soporte gives it.
Tenida(e) ==
    \/ /\ pedido[e].head # "SOLICITAR_CLAVE"
       /\ \/ Contestado(e, "RESPUESTA_CLAVE_BLOQUEADA_POR_ESI_OK")
          \/ hilo[e] = "instancia"
          \/ hilo[e] = "orden_clave" /\ coordAPlan # <<>>
    \/ hilo[e] = "orden_clave" /\ coordAPlan = <<>> /\ pedido[e].head = "SOLICITAR_CLAVE"
Tenencias == \A e \in Esis : Tenida(e) => pedido[e].clave \in ToSet(claves_esi[e])

\* PosesionReal, of the ESIs that have not been admitted too.
Posesiones == \A e \in Esis :
    memoria[e] \in {"sin_crear", "viva"} /\ fase[e] # "fin" =>
        CreePoseer(e) \subseteq ToSet(claves_esi[e])

\* The places of k in the lists of the ESIs: desbloquear lets a key be there more
\* than once.
Registros(k) ==
    {p \in Esis \X Nat : p[2] \in DOMAIN claves_esi[p[1]] /\ claves_esi[p[1]][p[2]] = k}

\* The Coordinador has added or taken out its entry, and soporte is about to do
\* the same with that of the ESI.
EnCamino(e, op, k) ==
    hilo[e] = "orden_clave" /\ coordAPlan # <<>> /\ pedido[e].head = op /\ pedido[e].clave = k
Anotando(k) == \E e \in Esis : EnCamino(e, "SOLICITAR_CLAVE", k)
Borrando(k) == \E e \in Esis : EnCamino(e, "PERSISTIR_CLAVE", k)

\* The registry of the Coordinador has an entry of its own for each place where the
\* Planificador has the key.
Registradas == \A k \in Claves :
    /\ IsFiniteSet(Registros(k))
    /\ Cardinality(Registros(k)) + (IF Anotando(k) THEN 1 ELSE 0)
          <= Cardinality(Entradas(k)) + (IF Borrando(k) THEN 1 ELSE 0)

InvPosesion ==
    InvPedidos /\ GuionServido /\ Servicios /\ Tenencias /\ Posesiones /\ Registradas

-----------------------------------------------------------------------------
\* What the thread serves is the line of the script.
LEMMA LineaServida ==
    ASSUME InvTipos, NEW e \in Esis, GuionDe(e), EnServicio(e)
    PROVE  /\ Instruccion(e) \in Instrucciones
           /\ pedido[e].clave = Instruccion(e).clave /\ pedido[e].clave \in Claves
           /\ pedido[e].head = "SOLICITAR_CLAVE" <=> Instruccion(e).op = "GET"
           /\ pedido[e].head = "PERSISTIR_CLAVE" <=> Instruccion(e).op = "STORE"
<1>1. guion[e] \in Seq(Instrucciones) /\ pedido[e] \in PedidosEsi
  BY EsiAssumption DEF InvTipos, TypeOK, EsiTypeOK, CoordinadorTypeOK
<1>2. Instruccion(e) \in Instrucciones
  BY <1>1 DEF GuionDe, Instruccion
<1>3. pedido[e] = Solicitud(Instruccion(e)) /\ pedido[e].head \in Operaciones
  BY DEF GuionDe, EnServicio, InvTipos, PedidosServidos, EsOperacion
<1>4. pedido[e].clave \in Claves
  BY <1>1, <1>3 DEF PedidosEsi, Operaciones, Avisos
<1>5. Instruccion(e).op \in {"GET", "SET", "STORE"}
  BY <1>2, <1>3, <1>4, ProtocoloAssumption DEF Instrucciones, Solicitud, Mensaje
<1>. QED BY <1>2, <1>3, <1>4, <1>5 DEF Solicitud, Mensaje

\* The same script line, connections and thread: nothing changes for e.
LEMMA GuionIgual ==
    ASSUME NEW e \in Esis, GuionDe(e), guion'[e] = guion[e], linea'[e] = linea[e],
           esiACoord'[e] = esiACoord[e], coordAEsi'[e] = coordAEsi[e], pedido'[e] = pedido[e],
           EnServicio(e)' => EnServicio(e),
           ToSet(claves_esi[e]) \subseteq ToSet(claves_esi'[e]) \/ coordAEsi[e] = <<>>
    PROVE  GuionDe(e)'
<1>1. Instruccion(e)' = Instruccion(e)
  BY DEF Instruccion
<1>2. coordAEsi[e] = <<>> => coordAEsi[e] # <<"CLAVE_LIBRE">>
  BY Mensajes
<1>. QED BY <1>1, <1>2 DEF GuionDe

LEMMA CreeIgual ==
    ASSUME NEW e \in Esis, guion'[e] = guion[e], linea'[e] = linea[e], pendiente'[e] = pendiente[e]
    PROVE  CreePoseer(e)' = CreePoseer(e)
BY DEF CreePoseer, Hechas

\* One more place, for the key that is added.
LEMMA RegistroNuevo ==
    ASSUME claves_esi \in [Esis -> Seq(Claves)], NEW e \in Esis, NEW k \in Claves,
           claves_esi' = [claves_esi EXCEPT ![e] = Append(@, k)]
    PROVE  /\ Registros(k)' = Registros(k) \cup {<<e, Len(claves_esi[e]) + 1>>}
           /\ \A c : c # k => Registros(c)' = Registros(c)
<1>1. /\ Append(claves_esi[e], k) \in Seq(Claves)
      /\ Len(Append(claves_esi[e], k)) = Len(claves_esi[e]) + 1
      /\ \A i \in 1..Len(claves_esi[e]) : Append(claves_esi[e], k)[i] = claves_esi[e][i]
      /\ Append(claves_esi[e], k)[Len(claves_esi[e]) + 1] = k
  BY AppendProperties
<1>2. /\ DOMAIN Append(claves_esi[e], k) = 1..(Len(claves_esi[e]) + 1)
      /\ DOMAIN claves_esi[e] = 1..Len(claves_esi[e]) /\ Len(claves_esi[e]) \in Nat
  BY <1>1, LenProperties
<1>3. /\ claves_esi'[e] = Append(claves_esi[e], k)
      /\ \A f \in Esis : f # e => claves_esi'[f] = claves_esi[f]
  OBVIOUS
<1>4. ASSUME NEW c, NEW f \in Esis, NEW i \in Nat
      PROVE  <<f, i>> \in Registros(c)' <=>
                <<f, i>> \in Registros(c) \/ (c = k /\ f = e /\ i = Len(claves_esi[e]) + 1)
  <2>1. /\ <<f, i>> \in Registros(c) <=> i \in DOMAIN claves_esi[f] /\ claves_esi[f][i] = c
        /\ <<f, i>> \in Registros(c)' <=> i \in DOMAIN claves_esi'[f] /\ claves_esi'[f][i] = c
    BY DEF Registros
  <2>2. CASE f = e
    BY <1>1, <1>2, <1>3, <2>1, <2>2
  <2>3. CASE f # e
    BY <1>3, <2>1, <2>3
  <2>. QED BY <2>2, <2>3
<1>5. \A c : Registros(c) \subseteq Esis \X Nat /\ Registros(c)' \subseteq Esis \X Nat
  BY DEF Registros
<1>6. <<e, Len(claves_esi[e]) + 1>> \in Esis \X Nat
  BY <1>2
<1>7. ASSUME NEW c
      PROVE  Registros(c)' = Registros(c) \cup (IF c = k THEN {<<e, Len(claves_esi[e]) + 1>>} ELSE {})
  <2>1. \A p \in Esis \X Nat : p \in Registros(c)' <=>
           p \in Registros(c) \/ (c = k /\ p = <<e, Len(claves_esi[e]) + 1>>)
    BY <1>4
  <2>. QED BY <1>5, <1>6, <2>1
<1>8. \A c : c # k => Registros(c)' = Registros(c)
  BY <1>7
<1>. QED BY <1>7, <1>8

\* One place less, of the key that is taken out: each one that is left comes from
\* a place of its own.
LEMMA RegistroMenos ==
    ASSUME claves_esi \in [Esis -> Seq(Claves)], NEW e \in Esis, NEW k \in ToSet(claves_esi[e]),
           claves_esi' = [claves_esi EXCEPT ![e] = Quitar(@, k)],
           NEW c, IsFiniteSet(Registros(c))
    PROVE  /\ IsFiniteSet(Registros(c)')
           /\ Cardinality(Registros(c)') <= Cardinality(Registros(c)) - (IF c = k THEN 1 ELSE 0)
<1>1. PICK n \in 1..Len(claves_esi[e]) :
         claves_esi[e][n] = k /\ Quitar(claves_esi[e], k) = RemoveAt(claves_esi[e], n)
  BY SacarPresente DEF Quitar
<1>2. /\ DOMAIN RemoveAt(claves_esi[e], n) = 1..(Len(claves_esi[e]) - 1)
      /\ \A i \in 1..(Len(claves_esi[e]) - 1) :
            RemoveAt(claves_esi[e], n)[i] = claves_esi[e][IF i < n THEN i ELSE i + 1]
      /\ DOMAIN claves_esi[e] = 1..Len(claves_esi[e]) /\ Len(claves_esi[e]) \in Nat
  BY RemoveAtLugares, LenProperties
<1>3. /\ claves_esi'[e] = RemoveAt(claves_esi[e], n)
      /\ \A f \in Esis : f # e => claves_esi'[f] = claves_esi[f]
  BY <1>1
<1> DEFINE Quedan == Registros(c) \ {<<e, n>>}
           viejo(f, i) == IF f = e /\ i >= n THEN i + 1 ELSE i
           m == [p \in Registros(c)' |-> <<p[1], viejo(p[1], p[2])>>]
<1>4. ASSUME NEW f \in Esis, NEW i \in Nat, <<f, i>> \in Registros(c)'
      PROVE  <<f, viejo(f, i)>> \in Quedan
  <2>1. i \in DOMAIN claves_esi'[f] /\ claves_esi'[f][i] = c
    BY <1>4 DEF Registros
  <2>2. viejo(f, i) \in DOMAIN claves_esi[f] /\ claves_esi[f][viejo(f, i)] = c
    BY <1>2, <1>3, <2>1
  <2>3. viejo(f, i) \in Nat /\ (f = e => viejo(f, i) # n)
    BY <1>2
  <2> HIDE DEF viejo
  <2>. QED BY <2>2, <2>3 DEF Registros
<1>5. ASSUME NEW i \in Nat, NEW j \in Nat, NEW f \in Esis, viejo(f, i) = viejo(f, j)
      PROVE  i = j
  BY <1>2, <1>5
<1>6. \A p \in Registros(c)' : p = <<p[1], p[2]>> /\ p[1] \in Esis /\ p[2] \in Nat
  BY DEF Registros
<1> HIDE DEF viejo
<1>7. m \in Injection(Registros(c)', Quedan)
  <2>1. m \in [Registros(c)' -> Quedan]
    BY <1>4, <1>6
  <2>2. ASSUME NEW p \in Registros(c)', NEW q \in Registros(c)', m[p] = m[q] PROVE p = q
    <3>1. p[1] = q[1] /\ viejo(p[1], p[2]) = viejo(q[1], q[2])
      BY <2>2
    <3>2. p[2] = q[2]
      BY <1>5, <1>6, <3>1
    <3>. QED BY <1>6, <3>1, <3>2
  <2>. QED BY <2>1, <2>2 DEF Injection, IsInjective
<1>8. /\ IsFiniteSet(Quedan) /\ Cardinality(Registros(c)) \in Nat
      /\ Cardinality(Quedan) =
            IF <<e, n>> \in Registros(c) THEN Cardinality(Registros(c)) - 1 ELSE Cardinality(Registros(c))
  BY FS_RemoveElement, FS_CardinalityType
<1>9. c = k => <<e, n>> \in Registros(c)
  BY <1>1, <1>2 DEF Registros
<1>10. Cardinality(Quedan) <= Cardinality(Registros(c)) - (IF c = k THEN 1 ELSE 0)
  BY <1>8, <1>9
<1>11. /\ IsFiniteSet(Registros(c)') /\ Cardinality(Registros(c)') <= Cardinality(Quedan)
       /\ Cardinality(Registros(c)') \in Nat /\ Cardinality(Quedan) \in Nat
  BY <1>7, <1>8, FS_Injection, FS_CardinalityType
<1>. QED BY <1>8, <1>10, <1>11

\* The entries of a key in a list are finitely many.
LEMMA EntradasContadas ==
    ASSUME NEW S, NEW lista \in Seq(S), NEW k
    PROVE  LET lugares == {i \in DOMAIN lista : lista[i].clave = k}
           IN  IsFiniteSet(lugares) /\ Cardinality(lugares) \in Nat
<1> DEFINE lugares == {i \in DOMAIN lista : lista[i].clave = k}
<1>1. DOMAIN lista = 1..Len(lista) /\ Len(lista) \in Nat
  BY LenProperties
<1>2. IsFiniteSet(1..Len(lista))
  BY <1>1, FS_Interval
<1>3. lugares \in SUBSET (1..Len(lista))
  BY <1>1
<1> HIDE DEF lugares
<1>4. IsFiniteSet(lugares) /\ Cardinality(lugares) \in Nat
  BY <1>2, <1>3, FS_Subset, FS_CardinalityType
<1>. QED BY <1>4 DEF lugares

\* Those of a key in the registry.
LEMMA RegistroContado ==
    ASSUME InvTipos, NEW k
    PROVE  IsFiniteSet(Entradas(k)) /\ Cardinality(Entradas(k)) \in Nat
<1>1. registro_claves \in Seq([clave : Claves, instancia : Instancias])
  BY DEF InvTipos, TypeOK, CoordinadorTypeOK
<1>. QED BY <1>1, EntradasContadas DEF Entradas

\* And after a step.
LEMMA RegistroContadoLuego ==
    ASSUME InvTipos', NEW k
    PROVE  IsFiniteSet(Entradas(k)') /\ Cardinality(Entradas(k)') \in Nat
<1>1. PICK l \in Seq([clave : Claves, instancia : Instancias]) : l = registro_claves'
  BY DEF InvTipos, TypeOK, CoordinadorTypeOK
<1>2. Entradas(k)' = {i \in DOMAIN l : l[i].clave = k}
  BY <1>1 DEF Entradas
<1>3. IsFiniteSet({i \in DOMAIN l : l[i].clave = k}) /\ Cardinality({i \in DOMAIN l : l[i].clave = k}) \in Nat
  BY EntradasContadas
<1>. QED BY <1>2, <1>3

\* No other place, no entry less and no order more.
LEMMA RegistradasIgual ==
    ASSUME Registradas, UNCHANGED <<claves_esi, registro_claves>>,
           \A k \in Claves : (Anotando(k)' => Anotando(k)) /\ (Borrando(k) => Borrando(k)'),
           InvTipos
    PROVE  Registradas'
<1>1. SUFFICES ASSUME NEW k \in Claves
               PROVE  /\ IsFiniteSet(Registros(k)')
                      /\ Cardinality(Registros(k)') + (IF Anotando(k)' THEN 1 ELSE 0)
                            <= Cardinality(Entradas(k)') + (IF Borrando(k)' THEN 1 ELSE 0)
  BY DEF Registradas
<1>2. Registros(k)' = Registros(k) /\ Entradas(k)' = Entradas(k)
  BY DEF Registros, Entradas
<1>3. /\ IsFiniteSet(Registros(k))
      /\ Cardinality(Registros(k)) + (IF Anotando(k) THEN 1 ELSE 0)
            <= Cardinality(Entradas(k)) + (IF Borrando(k) THEN 1 ELSE 0)
  BY DEF Registradas
<1>4. Cardinality(Registros(k)) \in Nat /\ Cardinality(Entradas(k)) \in Nat
  BY <1>3, RegistroContado, FS_CardinalityType
<1>. QED BY <1>2, <1>3, <1>4

\* The registry covers what the ESIs own: an entry that STORE takes out before the
\* key is taken from the ESI is not that of another one.
LEMMA Cubierto == ASSUME InvTipos, Tenencias, Registradas PROVE RegistroCubre
<1>1. SUFFICES ASSUME NEW e \in Esis, NEW k \in Claves, k \in ToSet(claves_esi[e]),
                      ~(hilo[e] = "orden_clave" /\ pedido[e].clave = k)
               PROVE  Entradas(k) # {}
  BY DEF RegistroCubre, Registrada
<1>2. \A f \in Esis : DOMAIN claves_esi[f] \subseteq Nat
  BY DEF InvTipos, TypeOK, PlanificadorTypeOK
<1>3. ASSUME NEW f \in Esis, k \in ToSet(claves_esi[f]) PROVE \E i \in Nat : <<f, i>> \in Registros(k)
  BY <1>2, <1>3 DEF ToSet, Registros
<1>4. PICK i \in Nat : <<e, i>> \in Registros(k)
  BY <1>1, <1>3
<1>5. /\ IsFiniteSet(Registros(k)) /\ Cardinality(Registros(k)) \in Nat
      /\ Cardinality(Registros(k)) + (IF Anotando(k) THEN 1 ELSE 0)
            <= Cardinality(Entradas(k)) + (IF Borrando(k) THEN 1 ELSE 0)
      /\ Cardinality(Entradas(k)) \in Nat
  BY RegistroContado, FS_CardinalityType DEF Registradas
<1>6. SUFFICES Cardinality(Entradas(k)) # 0
  BY FS_EmptySet
<1>7. CASE ~Borrando(k)
  BY <1>4, <1>5, <1>7, FS_EmptySet
<1>8. CASE Borrando(k)
  <2>1. PICK f \in Esis : EnCamino(f, "PERSISTIR_CLAVE", k)
    BY <1>8 DEF Borrando
  <2>2. f # e /\ k \in ToSet(claves_esi[f])
    BY <1>1, <2>1 DEF EnCamino, Tenencias, Tenida
  <2>3. PICK j \in Nat : <<f, j>> \in Registros(k)
    BY <1>3, <2>2
  <2>4. <<e, i>> # <<f, j>>
    BY <2>2
  <2>5. Cardinality(Registros(k)) # 1
    BY <1>4, <1>5, <2>3, <2>4, FS_Singleton
  <2>6. Cardinality(Registros(k)) # 0
    BY <1>4, <1>5, FS_EmptySet
  <2>. QED BY <1>5, <2>5, <2>6
<1>. QED BY <1>7, <1>8

\* soporte gives and takes keys for the thread that asks it to.
LEMMA SoportePosesion ==
    ASSUME InvPosesion, Soporte, UNCHANGED <<varsEsi, varsCoord>>
    PROVE  (GuionServido /\ Servicios /\ Tenencias /\ Posesiones /\ Registradas)'
<1>0. /\ InvPedidos /\ InvVuelta /\ InvTipos /\ GuionServido /\ Servicios /\ Tenencias
      /\ Posesiones /\ Registradas
  BY DEF InvPosesion, InvPedidos, InvVuelta, InvSoporte, InvCuenta
<1>t. claves_esi \in [Esis -> Seq(Claves)]
  BY <1>0, TiposDeClaves
<1>1. PICK e \in Esis :
        /\ hilo[e] \in EnEspera /\ esi_a_ejecutar = e /\ Servida(e)
        /\ clave_pedida = pedido[e].clave /\ Head(coordAPlan).head = OrdenDebida(e)
        /\ coordAPlan # <<>> /\ planACoord = <<>> /\ sem_planificador = 0
        /\ coordAPlan' = <<>>
        /\ \A f \in Esis : hilo[f] \in EnOperacion => f = e
  BY <1>0, EnSoporte
<1>2. /\ GuionDe(e) /\ EnServicio(e) /\ fase[e] = "espera_coord" /\ coordAEsi[e] = <<>>
      /\ hilo[e] \in EnOperacion
  BY <1>0, <1>1 DEF Servida, Conexiones, GuionServido, EnEspera, EnOperacion
<1>3. /\ Instruccion(e) \in Instrucciones
      /\ pedido[e].clave = Instruccion(e).clave /\ pedido[e].clave \in Claves
      /\ pedido[e].head = "SOLICITAR_CLAVE" <=> Instruccion(e).op = "GET"
      /\ pedido[e].head = "PERSISTIR_CLAVE" <=> Instruccion(e).op = "STORE"
  BY <1>0, <1>2, LineaServida
<1>4. /\ UNCHANGED <<hilo, pedido, sem_planificador, mensaje_planificador, registro_claves,
                     guion, linea, pendiente, fase, esiACoord, coordAEsi, memoria>>
  BY DEF varsEsi, varsCoord, Soporte, SoporteClaveLibre, SoporteBloquearEsi, varsPlan, campos,
     SoporteBloquearClave, SoporteClaveDeEsi, SoporteDesbloquearClave, Atender
<1>5. PICK r \in RespuestasSoporte :
        /\ planACoord' = <<r>>
        /\ \/ /\ SoporteClaveLibre /\ UNCHANGED claves_esi
              /\ r \in {"RESPUESTA_CLAVE_LIBRE", "RESPUESTA_CLAVE_BLOQUEADA"}
           \/ /\ SoporteClaveDeEsi /\ UNCHANGED claves_esi
              /\ \/ /\ r = "RESPUESTA_CLAVE_BLOQUEADA_POR_ESI_OK"
                    /\ pedido[e].clave \in ToSet(claves_esi[e])
                 \/ r = "RESPUESTA_CLAVE_BLOQUEADA_POR_ESI_FALLO"
           \/ SoporteBloquearEsi /\ UNCHANGED claves_esi /\ r = "ORDEN_EJECUTADA"
           \/ /\ SoporteBloquearClave /\ r = "ORDEN_EJECUTADA"
              /\ claves_esi' = [claves_esi EXCEPT ![e] = Append(@, pedido[e].clave)]
           \/ /\ SoporteDesbloquearClave /\ r = "ORDEN_EJECUTADA"
              /\ claves_esi' = [claves_esi EXCEPT ![e] = Quitar(@, pedido[e].clave)]
  BY <1>1, Mensajes DEF Soporte, SoporteClaveLibre, SoporteBloquearEsi, SoporteBloquearClave,
     SoporteClaveDeEsi, SoporteDesbloquearClave, Atender, RespuestasSoporte, varsPlan, campos
<1>6. /\ SoporteClaveLibre => OrdenDebida(e) = "SOLICITUD_CLAVE_LIBRE"
      /\ SoporteClaveDeEsi => OrdenDebida(e) = "SOLICITUD_CLAVE_BLOQUEADA_POR_ESI"
      /\ SoporteBloquearEsi => OrdenDebida(e) = "BLOQUEAR_ESI"
      /\ SoporteBloquearClave => OrdenDebida(e) = "BLOQUEAR_CLAVE_PARA_ESI_EJECUTANDO"
      /\ SoporteDesbloquearClave => OrdenDebida(e) = "DESBLOQUEAR_CLAVE_DEL_ESI_EJECUTANDO"
  BY <1>1 DEF SoporteClaveLibre, SoporteBloquearEsi, SoporteBloquearClave, SoporteClaveDeEsi,
     SoporteDesbloquearClave, Atender
<1>7. /\ \A f \in Esis : f # e => claves_esi'[f] = claves_esi[f]
      /\ SoporteBloquearClave => ToSet(claves_esi'[e]) = ToSet(claves_esi[e]) \cup {pedido[e].clave}
      /\ SoporteDesbloquearClave =>
            ToSet(claves_esi[e]) \ {pedido[e].clave} \subseteq ToSet(claves_esi'[e])
      /\ ~SoporteDesbloquearClave => ToSet(claves_esi[e]) \subseteq ToSet(claves_esi'[e])
  <2>1. ToSet(Append(claves_esi[e], pedido[e].clave)) = ToSet(claves_esi[e]) \cup {pedido[e].clave}
    BY <1>t, <1>3, AgregarTipo
  <2>2. ToSet(claves_esi[e]) \ {pedido[e].clave} \subseteq ToSet(Quitar(claves_esi[e], pedido[e].clave))
    BY <1>t, QuitarOtros
  <2>. QED BY <1>t, <1>5, <1>6, <2>1, <2>2
<1>8. \A f \in Esis : EnServicio(f)' <=> EnServicio(f)
  BY <1>4 DEF EnServicio, EsOperacion
<1>9. GuionServido'
  <2>1. SUFFICES ASSUME NEW f \in Esis, fase'[f] = "espera_coord" PROVE GuionDe(f)'
    BY DEF GuionServido
  <2>2. GuionDe(f)
    BY <1>0, <1>4, <2>1 DEF GuionServido
  <2>. QED BY <1>2, <1>4, <1>7, <1>8, <2>2, GuionIgual
<1>10. Servicios'
  <2>1. SUFFICES ASSUME NEW f \in Esis PROVE Servicio(f)'
    BY DEF Servicios
  <2>2. Servicio(f)
    BY <1>0 DEF Servicios
  <2>3. ASSUME NEW q \in RespuestasSoporte, Contestado(f, q)'
        PROVE  pedido[f].head = "SOLICITAR_CLAVE"
                  <=> q \in {"RESPUESTA_CLAVE_LIBRE", "RESPUESTA_CLAVE_BLOQUEADA"}
    <3>1. f = e /\ q = r /\ hilo[e] = "consulta"
      BY <1>1, <1>4, <1>5, <2>3, Mensajes DEF Contestado, EnOperacion
    <3>. QED BY <1>5, <1>6, <3>1 DEF OrdenDebida
  <2>. QED BY <1>4, <2>2, <2>3 DEF Servicio
<1>11. Tenencias'
  <2>1. SUFFICES ASSUME NEW f \in Esis, Tenida(f)' PROVE pedido[f].clave \in ToSet(claves_esi'[f])
    BY <1>4 DEF Tenencias
  <2>2. f = e
    BY <1>1, <1>4, <2>1 DEF Tenida, Contestado, EnOperacion
  <2>3. ASSUME Tenida(e)' PROVE pedido[e].clave \in ToSet(claves_esi'[e])
    <3>1. CASE hilo[e] = "consulta"
      <4>1. Contestado(e, "RESPUESTA_CLAVE_BLOQUEADA_POR_ESI_OK")'
        BY <1>4, <2>3, <3>1 DEF Tenida
      <4>2. r = "RESPUESTA_CLAVE_BLOQUEADA_POR_ESI_OK"
        BY <1>1, <1>4, <1>5, <4>1, Mensajes DEF Contestado
      <4>. QED BY <1>5, <4>2
    <3>2. CASE hilo[e] # "consulta"
      <4>1. hilo[e] = "orden_clave" /\ pedido[e].head = "SOLICITAR_CLAVE"
        BY <1>1, <1>4, <2>3, <3>2 DEF Tenida, Contestado, EnEspera
      <4>2. SoporteBloquearClave
        BY <1>5, <1>6, <4>1 DEF OrdenDebida
      <4>. QED BY <1>7, <4>2
    <3>. QED BY <3>1, <3>2
  <2>. QED BY <2>1, <2>2, <2>3
<1>12. Posesiones'
  <2>1. SUFFICES ASSUME NEW f \in Esis, memoria[f] \in {"sin_crear", "viva"}, fase[f] # "fin"
                 PROVE  CreePoseer(f) \subseteq ToSet(claves_esi'[f])
    BY <1>4, CreeIgual DEF Posesiones
  <2>2. CreePoseer(f) \subseteq ToSet(claves_esi[f])
    BY <1>0, <2>1 DEF Posesiones
  <2>3. CASE f = e /\ SoporteDesbloquearClave
    <3>1. pedido[e].head # "SOLICITAR_CLAVE" /\ hilo[e] = "orden_clave"
      BY <1>1, <1>6, <2>3 DEF OrdenDebida, EnEspera
    <3>2. Instruccion(e) = [op |-> "STORE", clave |-> pedido[e].clave]
      BY <1>0, <1>3, <3>1, ProtocoloAssumption DEF Servicios, Servicio, InvTipos, PedidosServidos,
         EsOperacion, Operaciones, EnOperacion, Instrucciones
    <3>3. linea[e] \in Nat
      BY <1>0 DEF InvTipos, TypeOK, EsiTypeOK
    <3>4. pedido[e].clave \notin CreePoseer(e)
      BY <3>2, <3>3 DEF CreePoseer, Hechas, Instruccion
    <3>. QED BY <1>7, <2>2, <2>3, <3>4
  <2>. QED BY <1>7, <2>2, <2>3
<1>13. Registradas'
  <2>1. SUFFICES ASSUME NEW k \in Claves
                 PROVE  /\ IsFiniteSet(Registros(k)')
                        /\ Cardinality(Registros(k)') <= Cardinality(Entradas(k))
    <3>1. \A c : ~Anotando(c)' /\ ~Borrando(c)' /\ Entradas(c)' = Entradas(c)
      BY <1>1, <1>4 DEF Anotando, Borrando, EnCamino, Entradas
    <3>2. \A c : Cardinality(Entradas(c)) \in Nat
      BY <1>0, RegistroContado
    <3>3. \A c : IsFiniteSet(Registros(c)') => Cardinality(Registros(c)') \in Nat
      BY FS_CardinalityType
    <3>. QED BY <2>1, <3>1, <3>2, <3>3 DEF Registradas
  <2>2. /\ IsFiniteSet(Registros(k)) /\ Cardinality(Registros(k)) \in Nat
        /\ Cardinality(Registros(k)) + (IF Anotando(k) THEN 1 ELSE 0)
              <= Cardinality(Entradas(k)) + (IF Borrando(k) THEN 1 ELSE 0)
        /\ Cardinality(Entradas(k)) \in Nat
    BY <1>0, RegistroContado, FS_CardinalityType DEF Registradas
  <2>3. \A f \in Esis : \A op : EnCamino(f, op, k) => f = e /\ pedido[e].head = op /\ pedido[e].clave = k
    BY <1>1 DEF EnCamino, EnOperacion
  <2>4. CASE SoporteBloquearClave
    <3>1. hilo[e] = "orden_clave" /\ pedido[e].head = "SOLICITAR_CLAVE"
      BY <1>1, <1>6, <2>4 DEF OrdenDebida, EnEspera
    <3>2. claves_esi' = [claves_esi EXCEPT ![e] = Append(@, pedido[e].clave)]
      BY <1>5, <1>6, <2>4
    <3>3. ~Borrando(k)
      BY <2>3, <3>1 DEF Borrando
    <3>4. CASE k = pedido[e].clave
      <4>1. Anotando(k)
        BY <1>1, <3>1, <3>4 DEF Anotando, EnCamino
      <4>2. Registros(k)' = Registros(k) \cup {<<e, Len(claves_esi[e]) + 1>>}
        BY <1>t, <3>2, <3>4, RegistroNuevo
      <4>3. /\ IsFiniteSet(Registros(k)')
            /\ Cardinality(Registros(k)') <= Cardinality(Registros(k)) + 1
        <5>1. PICK x : x = <<e, Len(claves_esi[e]) + 1>>
          OBVIOUS
        <5>2. /\ IsFiniteSet(Registros(k) \cup {x})
              /\ Cardinality(Registros(k) \cup {x}) =
                    IF x \in Registros(k) THEN Cardinality(Registros(k)) ELSE Cardinality(Registros(k)) + 1
          BY <2>2, FS_AddElement
        <5>. QED BY <2>2, <4>2, <5>1, <5>2
      <4>. QED BY <2>2, <3>3, <4>1, <4>3, FS_CardinalityType
    <3>5. CASE k # pedido[e].clave
      <4>1. Registros(k)' = Registros(k)
        BY <1>t, <1>3, <3>2, <3>5, RegistroNuevo
      <4>. QED BY <2>2, <3>3, <4>1
    <3>. QED BY <3>4, <3>5
  <2>5. CASE SoporteDesbloquearClave
    <3>1. hilo[e] = "orden_clave" /\ pedido[e].head # "SOLICITAR_CLAVE"
      BY <1>1, <1>6, <2>5 DEF OrdenDebida, EnEspera
    <3>2. pedido[e].clave \in ToSet(claves_esi[e])
      BY <1>0, <1>1, <3>1 DEF Tenencias, Tenida
    <3>3. claves_esi' = [claves_esi EXCEPT ![e] = Quitar(@, pedido[e].clave)]
      BY <1>5, <1>6, <2>5
    <3>4. /\ IsFiniteSet(Registros(k)')
          /\ Cardinality(Registros(k)')
                <= Cardinality(Registros(k)) - (IF k = pedido[e].clave THEN 1 ELSE 0)
      BY <1>t, <2>2, <3>2, <3>3, RegistroMenos
    <3>5. Borrando(k) => k = pedido[e].clave
      BY <2>3 DEF Borrando
    <3>. QED BY <2>2, <3>4, <3>5, FS_CardinalityType
  <2>6. CASE ~SoporteBloquearClave /\ ~SoporteDesbloquearClave
    <3>1. UNCHANGED claves_esi
      BY <1>5, <2>6
    <3>2. Registros(k)' = Registros(k)
      BY <3>1 DEF Registros
    <3>3. hilo[e] # "orden_clave"
      BY <1>5, <1>6, <2>6 DEF OrdenDebida
    <3>4. ~Borrando(k)
      BY <2>3, <3>3 DEF Borrando, EnCamino
    <3>. QED BY <2>2, <3>2, <3>4
  <2>. QED BY <2>4, <2>5, <2>6
<1>. QED BY <1>9, <1>10, <1>11, <1>12, <1>13

\* An ESI believes that a key is its own only once it has been told so.
LEMMA EsiPosesion ==
    ASSUME InvPosesion, EsiNext, UNCHANGED <<varsPlan, varsCoord>>
    PROVE  (GuionServido /\ Servicios /\ Tenencias /\ Posesiones /\ Registradas)'
<1>0. /\ InvVuelta /\ InvTipos /\ GuionServido /\ Servicios /\ Tenencias
      /\ Posesiones /\ Registradas /\ LineasLeidas /\ \A f \in Esis : VueltaDe(f)
  BY DEF InvPosesion, InvPedidos, InvVuelta, InvSoporte, InvCuenta, InvTipos, Vueltas
<1>t. /\ guion \in [Esis -> Guiones] /\ linea \in [Esis -> Nat] /\ fase \in [Esis -> Fases]
      /\ pendiente \in [Esis -> BOOLEAN] /\ esiACoord \in [Esis -> Seq(PedidosEsi)]
      /\ coordAEsi \in [Esis -> Seq(Resultados)]
  BY <1>0 DEF InvTipos, TypeOK, EsiTypeOK, ProtocoloTypeOK
<1>1. PICK e \in Esis :
         EsiRecibirOrden(e) \/ EsiEmpezar(e) \/ EsiPedirOperacion(e) \/ EsiLineaInvalida(e)
         \/ EsiFinDeGuion(e) \/ EsiRecibirResultado(e) \/ EsiContestar(e)
         \/ EsiFinInstruccion(e) \/ EsiFinInterrupcion(e)
  BY <1>0 DEF EsiNext, EsiCtrlC, InvVuelta, SinCtrlC
<1>2. /\ UNCHANGED <<claves_esi, memoria, hilo, pedido, sem_planificador, mensaje_planificador,
                     registro_claves, coordAPlan, planACoord, guion>>
  BY <1>1 DEF varsPlan, campos, varsCoord, EsiRecibirOrden, EsiEmpezar, EsiPedirOperacion,
     EsiLineaInvalida, EsiFinDeGuion, EsiRecibirResultado, EsiContestar, EsiFinInstruccion,
     EsiFinInterrupcion, canales
<1>3. Servicios' /\ Tenencias'
  BY <1>0, <1>2 DEF Servicios, Servicio, Tenencias, Tenida, Contestado
<1>4. Registradas'
  BY <1>0, <1>2, RegistradasIgual DEF Anotando, Borrando, EnCamino
<1>5. ASSUME NEW f \in Esis, f # e
      PROVE  /\ linea'[f] = linea[f] /\ pendiente'[f] = pendiente[f] /\ fase'[f] = fase[f]
             /\ esiACoord'[f] = esiACoord[f] /\ coordAEsi'[f] = coordAEsi[f]
  <2>1. UNCHANGED Local(f)
    BY <1>0, <1>1, <1>5, OtrosIgual
  <2>2. linea'[f] = linea[f] /\ pendiente'[f] = pendiente[f]
    BY <1>t, <1>1, <1>5 DEF EsiRecibirOrden, EsiEmpezar, EsiPedirOperacion, EsiLineaInvalida,
       EsiFinDeGuion, EsiRecibirResultado, EsiContestar, EsiFinInstruccion, EsiFinInterrupcion
  <2>. QED BY <2>1, <2>2 DEF Local
<1>6. \A f \in Esis : EnServicio(f)' <=> EnServicio(f)
  BY <1>2 DEF EnServicio, EsOperacion
<1>7. SUFFICES /\ fase'[e] = "espera_coord" => GuionDe(e)'
               /\ fase'[e] # "fin" =>
                     fase[e] # "fin" /\ CreePoseer(e)' \subseteq CreePoseer(e) \cup ToSet(claves_esi[e])
  <2>1. GuionServido'
    BY <1>0, <1>2, <1>5, <1>6, <1>7, GuionIgual DEF GuionServido
  <2>2. \A f \in Esis : f # e => CreePoseer(f)' = CreePoseer(f)
    BY <1>2, <1>5, CreeIgual
  <2>3. Posesiones'
    BY <1>0, <1>2, <1>5, <1>7, <2>2 DEF Posesiones
  <2>. QED BY <1>3, <1>4, <2>1, <2>3
<1>8. CASE EsiPedirOperacion(e)
  <2>1. /\ fase[e] = "leer" /\ linea'[e] = LineaActual(e) /\ pendiente'[e] = TRUE
        /\ esiACoord'[e] = Append(esiACoord[e], Solicitud(Actual(e)))
        /\ UNCHANGED coordAEsi /\ LineaActual(e) <= Len(guion[e])
    BY <1>t, <1>8 DEF EsiPedirOperacion, PasarA, Enviar, HayLinea
  <2>2. Leida(e)
    BY <1>0, <2>1, DondeEsta DEF EnCurso, Quieto, Echado, Acabado, Ordenada, Leida, Pedida,
       Servida, Resuelta, PorContestar, Contestada, Despedida, EntreOrdenes
  <2>3. esiACoord[e] = <<>> /\ coordAEsi[e] = <<>> /\ ~EnServicio(e)
    BY <2>2 DEF Leida, Conexiones, EnServicio, EnOperacion
  <2>4. LineaActual(e) \in Nat /\ LineaActual(e) >= 1 /\ LineaActual(e) >= linea[e]
        /\ (LineaActual(e) > linea[e] \/ pendiente[e])
    BY <1>0, <1>t DEF LineaActual, LineasLeidas
  <2>5. guion[e] \in Seq(Instrucciones)
    BY <1>t, EsiAssumption
  <2>6. GuionDe(e)'
    <3>1. Instruccion(e)' = Actual(e) /\ linea'[e] \in DOMAIN guion[e]
      BY <1>2, <2>1, <2>4, <2>5 DEF Instruccion, Actual
    <3>2. esiACoord'[e] = <<Solicitud(Actual(e))>>
      BY <2>1, <2>3, Mensajes
    <3>3. coordAEsi'[e] = <<>>
      BY <2>1, <2>3
    <3>. QED BY <1>2, <1>6, <2>3, <3>1, <3>2, <3>3, Mensajes DEF GuionDe
  <2>7. CreePoseer(e)' \subseteq CreePoseer(e)
    <3>1. SUFFICES ASSUME NEW k \in Claves, NEW i \in Hechas(e)',
                          guion[e][i] = [op |-> "GET", clave |-> k],
                          \A j \in i..LineaActual(e) : guion[e][j] # [op |-> "STORE", clave |-> k]
                   PROVE  k \in CreePoseer(e)
      BY <1>2, <2>1 DEF CreePoseer
    <3>2. i \in Nat /\ i >= 1 /\ i < LineaActual(e)
      BY <2>1, <2>4 DEF Hechas
    <3>3. i \in Hechas(e)
      BY <1>t, <2>4, <3>2 DEF Hechas, LineaActual
    <3>4. i..linea[e] \subseteq i..LineaActual(e)
      BY <1>t, <2>4, <3>2
    <3>. QED BY <3>1, <3>3, <3>4 DEF CreePoseer
  <2>. QED BY <2>1, <2>6, <2>7
<1>9. CASE EsiRecibirResultado(e)
  <2>1. /\ fase[e] = "espera_coord" /\ fase'[e] = "contestar" /\ coordAEsi[e] # <<>>
        /\ linea'[e] = linea[e] /\ pendiente[e]
        /\ pendiente'[e] = (Head(coordAEsi[e]) \notin {"CLAVE_LIBRE", "RESULTADO_OPERACION_CORRECTA"})
    BY <1>0, <1>t, <1>9 DEF EsiRecibirResultado, PasarA, LineasLeidas
  <2>2. CASE pendiente'[e]
    BY <1>2, <2>1, <2>2, CreeIgual
  <2>3. CASE ~pendiente'[e]
    <3>1. Resuelta(e)
      BY <1>0, <2>1, DondeEsta DEF EnCurso, Quieto, Echado, Acabado, Ordenada, Leida, Pedida,
         Servida, Resuelta, PorContestar, Contestada, Despedida, EntreOrdenes, Conexiones
    <3>2. coordAEsi[e] \in {<<"CLAVE_LIBRE">>, <<"RESULTADO_OPERACION_CORRECTA">>}
      <4>1. Head(coordAEsi[e]) \in {"CLAVE_LIBRE", "RESULTADO_OPERACION_CORRECTA"}
        BY <2>1, <2>3
      <4>2. coordAEsi[e] # <<"RESULTADO_OPERACION_FALLO", "FALLO_AL_RECIBIR">>
        BY <4>1, Mensajes
      <4>3. PICK r : coordAEsi[e] = <<r>>
        BY <3>1, <4>2 DEF Resuelta, Conexiones
      <4>4. Head(coordAEsi[e]) = r
        BY <4>3, Mensajes
      <4>. QED BY <4>1, <4>3, <4>4
    <3>3. Instruccion(e).op = "GET" => Instruccion(e).clave \in ToSet(claves_esi[e])
      BY <1>0, <2>1, <3>2 DEF GuionServido, GuionDe
    <3>4. ASSUME NEW k \in Claves, NEW i \in Hechas(e)',
                 guion[e][i] = [op |-> "GET", clave |-> k],
                 \A j \in i..linea[e] : guion[e][j] # [op |-> "STORE", clave |-> k]
          PROVE  k \in CreePoseer(e) \cup ToSet(claves_esi[e])
      <4>1. i \in 1..linea[e]
        BY <2>1 DEF Hechas
      <4>2. CASE i = linea[e]
        BY <3>3, <3>4, <4>2 DEF Instruccion
      <4>3. CASE i < linea[e]
        BY <3>4, <4>1, <4>3 DEF CreePoseer, Hechas
      <4>. QED BY <1>t, <4>1, <4>2, <4>3
    <3>. QED BY <1>2, <2>1, <3>4 DEF CreePoseer
  <2>. QED BY <2>1, <2>2, <2>3
<1>10. CASE EsiRecibirOrden(e) \/ EsiEmpezar(e) \/ EsiLineaInvalida(e) \/ EsiFinDeGuion(e)
            \/ EsiContestar(e) \/ EsiFinInstruccion(e) \/ EsiFinInterrupcion(e)
  <2>1. fase'[e] # "espera_coord"
    BY <1>t, <1>10 DEF EsiRecibirOrden, EsiEmpezar, EsiLineaInvalida, EsiFinDeGuion, EsiContestar,
       EsiFinInstruccion, EsiFinInterrupcion, PasarA, Finalizar
  <2>2. fase'[e] # "fin" => fase[e] # "fin" /\ linea'[e] = linea[e] /\ pendiente'[e] = pendiente[e]
    BY <1>t, <1>10 DEF EsiRecibirOrden, EsiEmpezar, EsiLineaInvalida, EsiFinDeGuion, EsiContestar,
       EsiFinInstruccion, EsiFinInterrupcion, PasarA, Finalizar
  <2>. QED BY <1>2, <2>1, <2>2, CreeIgual
<1>. QED BY <1>1, <1>8, <1>9, <1>10

\* Nobody else gives or takes a key, but from a victim of terminar_esi, which
\* is not being served.
LEMMA PlanPosesion ==
    ASSUME InvPosesion, UNCHANGED <<varsEsi, varsCoord>>,
           \/ Planificar \/ TerminarEsi \/ Consola \/ UsoIndebido
           \/ \E e \in Esis : AgregarNuevoEsi(e)
    PROVE  (GuionServido /\ Servicios /\ Tenencias /\ Posesiones /\ Registradas)'
<1>0. /\ InvVuelta /\ InvTipos /\ GuionServido /\ Servicios /\ Tenencias /\ UnaVictima
      /\ Posesiones /\ Registradas /\ \A f \in Esis : VueltaDe(f)
  BY DEF InvPosesion, InvPedidos, InvVuelta, InvSoporte, InvCuenta, Vueltas
<1>t. /\ memoria \in [Esis -> Memorias] /\ claves_esi \in [Esis -> Seq(Claves)]
  BY <1>0 DEF InvTipos, TypeOK, PlanificadorTypeOK
<1>1. /\ UNCHANGED <<hilo, pedido, sem_planificador, mensaje_planificador, registro_claves,
                     guion, linea, pendiente, fase, esiACoord, coordAEsi, coordAPlan, planACoord>>
  BY DEF varsEsi, varsCoord, Planificar, PlanInicio, PlanRevisar, PlanDesalojar,
     PlanDesalojarMutex, PlanDesalojarFin, PlanElegir, PlanEsperaSem, PlanSelPausa,
     PlanSeleccionar, PlanPausa, PlanDespachar, PlanRespuestaCorrecta, PlanRespuestaFinal,
     TerminarEsi, TerminarDesbloquear, TerminarEliminar, TerminarSiguientePaso, TerminarLiberar,
     Consola, ConsolaPausar, ConsolaContinuar, ConsolaSemWait, ConsolaKill,
     ConsolaBloquearEjecutando, ConsolaBloquearListo, ConsolaDesbloquear, UsoIndebido,
     AgregarNuevoEsi, canales
<1>2. ASSUME NEW f \in Esis
      PROVE  \/ /\ claves_esi'[f] = claves_esi[f]
                /\ memoria'[f] \in {"sin_crear", "viva"} => memoria[f] \in {"sin_crear", "viva"}
             \/ /\ claves_esi'[f] = <<>> /\ memoria'[f] = "liberada"
                /\ fase[f] # "espera_coord" /\ ~EnServicio(f)
  <2>1. CASE TerminarLiberar
    <3>1. PICK v \in Esis : v = terminando.victima /\ memoria[v] = "terminando"
      BY <1>0, <2>1 DEF TerminarLiberar, UnaVictima, ConVictima, InvTipos, PunterosReales
    <3>2. /\ memoria' = [memoria EXCEPT ![v] = "liberada"]
          /\ claves_esi' = [claves_esi EXCEPT ![v] = <<>>]
      BY <2>1, <3>1 DEF TerminarLiberar
    <3>3. Quieto(v) \/ Acabado(v)
      BY <1>0, <3>1 DEF VueltaDe
    <3>4. fase[v] # "espera_coord" /\ ~EnServicio(v)
      BY <3>3 DEF Quieto, Acabado, EntreOrdenes, EnServicio, EnOperacion
    <3>. QED BY <1>t, <3>2, <3>4
  <2>2. CASE ~TerminarLiberar
    <3>1. UNCHANGED claves_esi
      BY <2>2 DEF Planificar, PlanInicio, PlanRevisar, PlanDesalojar,
         PlanDesalojarMutex, PlanDesalojarFin, PlanElegir, PlanEsperaSem, PlanSelPausa,
         PlanSeleccionar, PlanPausa, PlanDespachar, PlanRespuestaCorrecta, PlanRespuestaFinal,
         TerminarEsi, TerminarDesbloquear, TerminarEliminar, TerminarSiguientePaso,
         Consola, ConsolaPausar, ConsolaContinuar, ConsolaSemWait, ConsolaKill,
         ConsolaBloquearEjecutando, ConsolaBloquearListo, ConsolaDesbloquear, UsoIndebido,
         AgregarNuevoEsi, campos, varsPlan
    <3>2. \/ UNCHANGED memoria
          \/ \E e \in Esis : memoria' = [memoria EXCEPT ![e] = "terminando"]
          \/ \E e \in Esis : memoria[e] = "sin_crear" /\ memoria' = [memoria EXCEPT ![e] = "viva"]
      BY <1>0, <2>2 DEF Planificar, PlanInicio, PlanRevisar, PlanDesalojar,
         PlanDesalojarMutex, PlanDesalojarFin, PlanElegir, PlanEsperaSem, PlanSelPausa,
         PlanSeleccionar, PlanPausa, PlanDespachar, PlanRespuestaCorrecta, PlanRespuestaFinal,
         TerminarEsi, TerminarDesbloquear, TerminarEliminar, TerminarSiguientePaso,
         Consola, ConsolaPausar, ConsolaContinuar, ConsolaSemWait, ConsolaKill, EmpezarTerminar,
         ConsolaBloquearEjecutando, ConsolaBloquearListo, ConsolaDesbloquear, UsoIndebido,
         AgregarNuevoEsi, campos, varsPlan, InvTipos, PunterosReales
    <3>. QED BY <1>t, <3>1, <3>2
  <2>. QED BY <2>1, <2>2
<1>3. ToSet(<<>>) = {}
  BY DEF ToSet
<1>4. \A f \in Esis : /\ EnServicio(f)' <=> EnServicio(f)
                      /\ ToSet(claves_esi'[f]) \subseteq ToSet(claves_esi[f])
  BY <1>1, <1>2, <1>3 DEF EnServicio, EsOperacion
<1>5. GuionServido'
  BY <1>0, <1>1, <1>2, <1>4, GuionIgual DEF GuionServido
<1>6. Servicios'
  BY <1>0, <1>1 DEF Servicios, Servicio, Contestado
<1>7. Tenencias'
  <2>1. ASSUME NEW f \in Esis
        PROVE  (Tenida(f)' <=> Tenida(f)) /\ (Tenida(f) => EnServicio(f))
    BY <1>1 DEF Tenida, Contestado, EnServicio, EnOperacion
  <2>. QED BY <1>0, <1>1, <1>2, <1>4, <2>1 DEF Tenencias
<1>8. Posesiones'
  BY <1>0, <1>1, <1>2, CreeIgual DEF Posesiones
<1>9. Registradas'
  <2>1. SUFFICES ASSUME NEW k \in Claves
                 PROVE  /\ IsFiniteSet(Registros(k)')
                        /\ Cardinality(Registros(k)') <= Cardinality(Registros(k))
    <3>1. \A c : /\ Anotando(c)' <=> Anotando(c)
                 /\ Borrando(c)' <=> Borrando(c)
                 /\ Entradas(c)' = Entradas(c)
      BY <1>1 DEF Anotando, Borrando, EnCamino, Entradas
    <3>2. \A c : Cardinality(Entradas(c)) \in Nat
      BY <1>0, RegistroContado
    <3>3. \A c \in Claves : Cardinality(Registros(c)) \in Nat
      BY <1>0, FS_CardinalityType DEF Registradas
    <3>4. \A c : IsFiniteSet(Registros(c)') => Cardinality(Registros(c)') \in Nat
      BY FS_CardinalityType
    <3>. QED BY <1>0, <2>1, <3>1, <3>2, <3>3, <3>4 DEF Registradas
  <2>2. \A f \in Esis : claves_esi'[f] = claves_esi[f] \/ DOMAIN claves_esi'[f] = {}
    BY <1>2
  <2>3. Registros(k)' \in SUBSET Registros(k)
    BY <2>2 DEF Registros
  <2>. QED BY <1>0, <2>3, FS_Subset DEF Registradas
<1>. QED BY <1>5, <1>6, <1>7, <1>8, <1>9

-----------------------------------------------------------------------------
\* registro_claves: what is added, and what is left when an entry is taken out.
LEMMA EntradaNueva ==
    ASSUME InvTipos, NEW k \in Claves, NEW n \in Instancias,
           registro_claves' = Append(registro_claves, [clave |-> k, instancia |-> n])
    PROVE  /\ Cardinality(Entradas(k)') = Cardinality(Entradas(k)) + 1
           /\ \A c : c # k => Entradas(c)' = Entradas(c)
<1> DEFINE S == [clave : Claves, instancia : Instancias]
           x == [clave |-> k, instancia |-> n]
<1>1. registro_claves \in Seq(S) /\ x \in S
  BY DEF InvTipos, TypeOK, CoordinadorTypeOK
<1>2. x.clave = k
  OBVIOUS
<1>3. registro_claves' = Append(registro_claves, x)
  OBVIOUS
<1> HIDE DEF S, x
<1>4. /\ registro_claves' \in Seq(S) /\ Len(registro_claves') = Len(registro_claves) + 1
      /\ \A i \in 1..Len(registro_claves) : registro_claves'[i] = registro_claves[i]
      /\ registro_claves'[Len(registro_claves) + 1] = x
  BY <1>1, <1>3, AppendProperties
<1>5. /\ DOMAIN registro_claves = 1..Len(registro_claves) /\ Len(registro_claves) \in Nat
      /\ DOMAIN registro_claves' = 1..(Len(registro_claves) + 1)
  BY <1>1, <1>4, LenProperties
<1>6. Entradas(k)' = Entradas(k) \cup {Len(registro_claves) + 1}
  BY <1>2, <1>4, <1>5 DEF Entradas
<1>7. Len(registro_claves) + 1 \notin Entradas(k)
  BY <1>5 DEF Entradas
<1>8. \A c : c # k => Entradas(c)' = Entradas(c)
  BY <1>2, <1>4, <1>5 DEF Entradas
<1>. QED BY <1>6, <1>7, <1>8, RegistroContado, FS_AddElement

\* At most one entry less, of the key that is taken out.
LEMMA EntradaMenos ==
    ASSUME InvTipos, InvTipos', NEW k, registro_claves' = SinPrimeraEntrada(k), NEW c
    PROVE  Cardinality(Entradas(c)') >= Cardinality(Entradas(c)) - (IF c = k THEN 1 ELSE 0)
<1>0. /\ Cardinality(Entradas(c)) \in Nat /\ IsFiniteSet(Entradas(c))
      /\ Cardinality(Entradas(c)') \in Nat /\ IsFiniteSet(Entradas(c)')
  BY RegistroContado, RegistroContadoLuego
<1>1. CASE ~Registrada(k)
  <2>1. Entradas(c)' = Entradas(c)
    BY <1>1 DEF SinPrimeraEntrada, Entradas
  <2>. QED BY <1>0, <2>1
<1>2. CASE Registrada(k)
  <2>1. /\ registro_claves \in Seq([clave : Claves, instancia : Instancias])
        /\ DOMAIN registro_claves = 1..Len(registro_claves) /\ Len(registro_claves) \in Nat
    BY LenProperties DEF InvTipos, TypeOK, CoordinadorTypeOK
  <2>2. Entradas(k) \subseteq Nat /\ Entradas(k) # {}
    BY <1>2, <2>1 DEF Entradas, Registrada
  <2>3. Min(Entradas(k)) \in Entradas(k)
    BY <2>2, HayMinimo DEF Min
  <2>4. PICK n \in 1..Len(registro_claves) :
           registro_claves[n].clave = k /\ registro_claves' = RemoveAt(registro_claves, n)
    BY <1>2, <2>1, <2>3 DEF SinPrimeraEntrada, Entradas
  <2>5. /\ DOMAIN registro_claves' = 1..(Len(registro_claves) - 1)
        /\ \A i \in 1..(Len(registro_claves) - 1) :
              registro_claves'[i] = registro_claves[IF i < n THEN i ELSE i + 1]
    BY <2>1, <2>4, RemoveAtLugares
  <2> DEFINE Quedan == Entradas(c) \ {n}
             nuevo(j) == IF j < n THEN j ELSE j - 1
             m == [j \in Quedan |-> nuevo(j)]
  <2>6. Quedan \subseteq (1..Len(registro_claves)) \ {n} /\ \A j \in Quedan : registro_claves[j].clave = c
    BY <2>1 DEF Entradas
  <2>7. \A j \in (1..Len(registro_claves)) \ {n} :
           /\ nuevo(j) \in 1..(Len(registro_claves) - 1)
           /\ registro_claves'[nuevo(j)] = registro_claves[j]
    BY <2>1, <2>5
  <2>8. \A i, j \in (1..Len(registro_claves)) \ {n} : nuevo(i) = nuevo(j) => i = j
    BY <2>1
  <2> HIDE DEF nuevo
  <2>9. \A j \in Quedan : nuevo(j) \in Entradas(c)'
    BY <2>5, <2>6, <2>7 DEF Entradas
  <2> HIDE DEF Quedan
  <2>10. m \in Injection(Quedan, Entradas(c)')
    BY <2>6, <2>8, <2>9 DEF Injection, IsInjective
  <2> HIDE DEF m
  <2>11. Cardinality(Quedan) <= Cardinality(Entradas(c)')
    BY <1>0, <2>10, FS_Injection
  <2>12. Cardinality(Quedan) =
            IF n \in Entradas(c) THEN Cardinality(Entradas(c)) - 1 ELSE Cardinality(Entradas(c))
    BY <1>0, FS_RemoveElement DEF Quedan
  <2>13. c # k => n \notin Entradas(c)
    BY <2>4 DEF Entradas
  <2>. QED BY <1>0, <2>11, <2>12, <2>13
<1>. QED BY <1>1, <1>2

\* A thread serves the line that its ESI asked for, answers as that line wants,
\* and keeps the registry of keys in step with what the Planificador has.
LEMMA CoordPosesion ==
    ASSUME InvPosesion, InvSoporte', CoordinadorNext, UNCHANGED <<varsPlan, varsEsi>>
    PROVE  (GuionServido /\ Servicios /\ Tenencias /\ Posesiones /\ Registradas)'
<1>0. /\ InvVuelta /\ InvTipos /\ GuionServido /\ Servicios /\ Tenencias
      /\ Posesiones /\ Registradas /\ UnaOperacion /\ UnaOperacion' /\ SoporteEnVuelo
      /\ SoporteEnVuelo' /\ InvTipos' /\ \A f \in Esis : VueltaDe(f)
  BY DEF InvPosesion, InvPedidos, InvVuelta, InvSoporte, InvCuenta, Vueltas
<1>t. /\ hilo \in [Esis -> Hilos] /\ mutex_mensaje \in Esis \cup {NULL} /\ NULL \notin Esis
      /\ sem_planificador \in Nat /\ pedido \in [Esis -> PedidosEsi]
      /\ esiACoord \in [Esis -> Seq(PedidosEsi)] /\ coordAEsi \in [Esis -> Seq(Resultados)]
  BY <1>0, ProtocoloAssumption DEF InvTipos, TypeOK, CoordinadorTypeOK, ProtocoloTypeOK
<1>1. UNCHANGED <<claves_esi, memoria, guion, linea, pendiente, fase>>
  BY DEF varsPlan, campos, varsEsi
<1>2. Posesiones'
  BY <1>0, <1>1, CreeIgual DEF Posesiones
<1>3. \A f \in Esis : Instruccion(f)' = Instruccion(f)
  BY <1>1 DEF Instruccion
<1>4. CASE CoordEscucharPlanificador
  <2>1. /\ planACoord # <<>> /\ planACoord' = Tail(planACoord)
        /\ mensaje_planificador' = Head(planACoord)
        /\ UNCHANGED <<hilo, pedido, coordAPlan, esiACoord, coordAEsi, registro_claves>>
    BY <1>4 DEF CoordEscucharPlanificador
  <2>2. ASSUME NEW f \in Esis, NEW q, Contestado(f, q)' PROVE Contestado(f, q)
    <3>1. hilo[f] = "consulta"
      BY <2>1, <2>2 DEF Contestado
    <3>2. PICK r : planACoord = <<r>>
      BY <1>0, <2>1, <3>1 DEF SoporteEnVuelo, PedidoEnVuelo, RespuestaEnVuelo, RespuestaDejada,
         EnEspera
    <3>3. planACoord' = <<>> /\ mensaje_planificador' = r
      BY <2>1, <3>2, Mensajes
    <3>. QED BY <2>2, <3>1, <3>2, <3>3, Mensajes DEF Contestado
  <2>3. GuionServido'
    <3>1. \A f \in Esis : EnServicio(f)' => EnServicio(f)
      BY <2>1 DEF EnServicio, EsOperacion
    <3>. QED BY <1>0, <1>1, <2>1, <3>1, GuionIgual DEF GuionServido
  <2>4. Servicios'
    BY <1>0, <2>1, <2>2 DEF Servicios, Servicio
  <2>5. Tenencias'
    BY <1>0, <1>1, <2>1, <2>2 DEF Tenencias, Tenida
  <2>6. Registradas'
    BY <1>0, <1>1, <2>1, RegistradasIgual DEF Anotando, Borrando, EnCamino
  <2>. QED BY <1>2, <2>3, <2>4, <2>5, <2>6
<1>5. SUFFICES ASSUME NEW e \in Esis,
         \/ CoordRecibir(e) \/ CoordDesconexion(e) \/ CoordClaveLarga(e)
         \/ CoordConsultar(e) \/ CoordPermitido(e) \/ CoordClaveBloqueada(e)
         \/ CoordClaveAjena(e) \/ CoordGuardar(e) \/ CoordSetear(e) \/ CoordStorear(e)
         \/ CoordInstanciaFalla(e) \/ CoordInstanciaCalla(e) \/ CoordOrdenEjecutada(e)
       PROVE (GuionServido /\ Servicios /\ Tenencias /\ Posesiones /\ Registradas)'
  BY <1>4 DEF CoordinadorNext
<1>6. ASSUME NEW f \in Esis, f # e
      PROVE  /\ esiACoord'[f] = esiACoord[f] /\ coordAEsi'[f] = coordAEsi[f]
             /\ hilo'[f] = hilo[f] /\ pedido'[f] = pedido[f]
  BY <1>0, <1>5, <1>6, OtrosHilos DEF Local
<1>7. SUFFICES /\ fase[e] = "espera_coord" => GuionDe(e)'
               /\ Servicios' /\ Tenencias' /\ Registradas'
  <2>1. \A f \in Esis : f # e => (EnServicio(f)' <=> EnServicio(f))
    BY <1>6 DEF EnServicio, EsOperacion
  <2>2. GuionServido'
    BY <1>0, <1>1, <1>6, <1>7, <2>1, GuionIgual DEF GuionServido
  <2>. QED BY <1>2, <1>7, <2>2
<1>8. /\ linea[e] \in DOMAIN guion[e] => linea'[e] \in DOMAIN guion'[e]
      /\ fase[e] = "espera_coord" => GuionDe(e)
  BY <1>0, <1>1 DEF GuionServido
<1>9. hilo[e] \in EnOperacion \cup {"mutex"} =>
         (EnServicio(e) => /\ GuionDe(e) /\ fase[e] = "espera_coord" /\ coordAEsi[e] = <<>>
                           /\ esiACoord[e] = <<>>
                           /\ pedido[e].clave = Instruccion(e).clave /\ pedido[e].clave \in Claves
                           /\ pedido[e].head = "SOLICITAR_CLAVE" <=> Instruccion(e).op = "GET"
                           /\ pedido[e].head = "PERSISTIR_CLAVE" <=> Instruccion(e).op = "STORE")
  BY <1>0, SoloServida, LineaServida DEF Servida, Conexiones, GuionServido
<1>10. hilo[e] \in EnOperacion \/ (EsOperacion(e) /\ hilo[e] = "mutex") => EnServicio(e)
  BY DEF EnServicio
<1>11. CASE CoordRecibir(e)
  <2>1. /\ hilo[e] = "recibe" /\ hilo'[e] = "mutex" /\ esiACoord[e] # <<>>
        /\ pedido'[e] = Head(esiACoord[e]) /\ esiACoord'[e] = Tail(esiACoord[e])
        /\ UNCHANGED <<coordAEsi, coordAPlan, planACoord, sem_planificador, mensaje_planificador,
                       registro_claves>>
    BY <1>11, <1>t DEF CoordRecibir, Recibido
  <2>2. fase[e] = "espera_coord" => GuionDe(e)'
    <3>1. SUFFICES ASSUME fase[e] = "espera_coord" PROVE GuionDe(e)'
      OBVIOUS
    <3>2. GuionDe(e) /\ esiACoord[e] = <<Solicitud(Instruccion(e))>>
      BY <1>8, <2>1, <3>1 DEF GuionDe
    <3>3. pedido'[e] = Solicitud(Instruccion(e)) /\ esiACoord'[e] = <<>>
      BY <2>1, <3>2, Mensajes
    <3>. QED BY <1>1, <1>3, <1>8, <2>1, <3>1, <3>2, <3>3 DEF GuionDe
  <2>3. ASSUME NEW f \in Esis, NEW q
        PROVE  Contestado(f, q)' => Contestado(f, q) /\ pedido'[f] = pedido[f]
    BY <1>6, <2>1 DEF Contestado
  <2>4. \A f \in Esis : hilo'[f] \in EnOperacion => hilo'[f] = hilo[f] /\ pedido'[f] = pedido[f]
    BY <1>6, <2>1 DEF EnOperacion
  <2>5. Servicios'
    <3>1. SUFFICES ASSUME NEW f \in Esis PROVE Servicio(f)'
      BY DEF Servicios
    <3>. QED BY <1>0, <2>3, <2>4 DEF Servicios, Servicio, EnOperacion
  <2>6. Tenencias'
    <3>1. \A f \in Esis : Tenida(f)' => Tenida(f) /\ pedido'[f] = pedido[f]
      BY <2>1, <2>3, <2>4 DEF Tenida, EnOperacion
    <3>. QED BY <1>0, <1>1, <3>1 DEF Tenencias
  <2>7. Registradas'
    <3>1. ASSUME NEW f \in Esis
          PROVE  /\ hilo'[f] = "orden_clave" <=> hilo[f] = "orden_clave"
                 /\ hilo'[f] = "orden_clave" => pedido'[f] = pedido[f]
      BY <1>6, <2>1
    <3>2. \A f \in Esis : \A op, k : EnCamino(f, op, k)' <=> EnCamino(f, op, k)
      BY <2>1, <3>1 DEF EnCamino
    <3>. QED BY <1>0, <1>1, <2>1, <3>2, RegistradasIgual DEF Anotando, Borrando
  <2>. QED BY <2>2, <2>5, <2>6, <2>7
<1>12. CASE \/ CoordDesconexion(e) \/ CoordClaveLarga(e) \/ CoordClaveAjena(e) \/ CoordSetear(e)
            \/ CoordInstanciaFalla(e) \/ CoordOrdenEjecutada(e)
  <2>1. /\ hilo'[e] \in {"recibe", "fin"} /\ mutex_mensaje' = NULL
        /\ UNCHANGED <<pedido, esiACoord, registro_claves>>
    <3>1. mutex_mensaje' = NULL
      BY <1>12 DEF CoordDesconexion, CoordClaveLarga, CoordClaveAjena, CoordSetear,
         CoordInstanciaFalla, CoordOrdenEjecutada, Fallar, Cumplir
    <3>2. hilo'[e] \in {"recibe", "fin"}
      BY <1>12, <1>t DEF CoordDesconexion, CoordClaveLarga, CoordClaveAjena, CoordSetear,
         CoordInstanciaFalla, CoordOrdenEjecutada, Fallar, Cumplir
    <3>3. UNCHANGED <<pedido, esiACoord, registro_claves>>
      BY <1>12 DEF CoordDesconexion, CoordClaveLarga, CoordClaveAjena, CoordSetear,
         CoordInstanciaFalla, CoordOrdenEjecutada
    <3>. QED BY <3>1, <3>2, <3>3
  <2>2. \A f \in Esis : hilo'[f] \notin EnOperacion
    BY <1>0, <1>t, <2>1 DEF UnaOperacion
  <2>3. Servicios' /\ Tenencias'
    BY <2>2 DEF Servicios, Servicio, Tenencias, Tenida, Contestado, EnOperacion
  <2>4. Registradas'
    <3>1. \A f \in Esis : hilo'[f] # "orden_clave"
      BY <2>2 DEF EnOperacion
    <3>2. ASSUME NEW f \in Esis, NEW k, EnCamino(f, "PERSISTIR_CLAVE", k) PROVE FALSE
      <4>1. f = e /\ hilo[e] = "orden_clave" /\ coordAPlan # <<>>
        BY <1>6, <3>1, <3>2 DEF EnCamino
      <4>2. CoordOrdenEjecutada(e) /\ sem_planificador > 0
        BY <1>12, <4>1 DEF CoordDesconexion, CoordClaveLarga, CoordClaveAjena, CoordSetear,
           CoordInstanciaFalla, CoordOrdenEjecutada, EsperarPlanificador
      <4>. QED BY <1>0, <4>1, <4>2 DEF SoporteEnVuelo, PedidoEnVuelo, RespuestaEnVuelo,
           RespuestaDejada, EnEspera
    <3>3. \A k : ~Anotando(k)' /\ ~Borrando(k)
      BY <3>1, <3>2 DEF Anotando, Borrando, EnCamino
    <3>. QED BY <1>0, <1>1, <2>1, <3>3, RegistradasIgual
  <2>5. ASSUME fase[e] = "espera_coord" PROVE GuionDe(e)'
    <3>1. ~CoordDesconexion(e)
      <4>1. ASSUME CoordDesconexion(e) PROVE FALSE
        <5>1. hilo[e] = "mutex" /\ ~EsOperacion(e)
          BY <4>1 DEF CoordDesconexion
        <5>. QED BY <1>0, <2>5, <5>1, DondeEsta DEF EnCurso, Quieto, Echado, Acabado, Ordenada,
             Leida, Pedida, Servida, Resuelta, PorContestar, Contestada, Despedida, EntreOrdenes,
             EnServicio, EnOperacion
      <4>. QED BY <4>1
    <3>2. EnServicio(e)
      BY <1>12, <3>1 DEF CoordClaveLarga, CoordClaveAjena, CoordSetear, CoordInstanciaFalla,
         CoordOrdenEjecutada, EnServicio, EnOperacion
    <3>3. /\ GuionDe(e) /\ coordAEsi[e] = <<>> /\ esiACoord[e] = <<>>
          /\ pedido[e].clave = Instruccion(e).clave
          /\ pedido[e].head = "SOLICITAR_CLAVE" <=> Instruccion(e).op = "GET"
      BY <1>9, <3>2 DEF EnServicio
    <3>4. ~EnServicio(e)'
      BY <2>1 DEF EnServicio, EnOperacion
    <3>5. SUFFICES /\ coordAEsi'[e] \in {<<"CLAVE_LIBRE">>, <<"CLAVE_YA_BLOQUEADA">>} =>
                            pedido[e].head = "SOLICITAR_CLAVE"
                   /\ coordAEsi'[e] = <<"RESULTADO_OPERACION_CORRECTA">> =>
                            pedido[e].head # "SOLICITAR_CLAVE"
                   /\ coordAEsi'[e] = <<"CLAVE_LIBRE">> => pedido[e].clave \in ToSet(claves_esi[e])
      BY <1>1, <1>3, <1>8, <2>1, <3>3, <3>4 DEF GuionDe
    <3>6. CASE CoordClaveLarga(e) \/ CoordClaveAjena(e) \/ CoordInstanciaFalla(e)
      <4>1. coordAEsi'[e] = <<>> \o <<"RESULTADO_OPERACION_FALLO", "FALLO_AL_RECIBIR">>
        BY <1>t, <3>3, <3>6 DEF CoordClaveLarga, CoordClaveAjena, CoordInstanciaFalla, Fallar
      <4>2. Head(coordAEsi'[e]) = "RESULTADO_OPERACION_FALLO"
        BY <4>1, Mensajes
      <4>. QED BY <4>2, Mensajes
    <3>7. CASE CoordSetear(e)
      <4>1. pedido[e].head = "ASIGNAR_VALOR" /\ coordAEsi'[e] = <<"RESULTADO_OPERACION_CORRECTA">>
        BY <1>t, <3>3, <3>7, Mensajes DEF CoordSetear, Cumplir, Enviar
      <4>2. Head(coordAEsi'[e]) = "RESULTADO_OPERACION_CORRECTA"
        BY <4>1, Mensajes
      <4>. QED BY <4>1, <4>2, Mensajes
    <3>8. CASE CoordOrdenEjecutada(e)
      <4>1. /\ coordAEsi'[e] = <<RespuestaTrasOrden(e)>> /\ hilo[e] \in {"orden_clave", "orden_esi"}
            /\ sem_planificador > 0
        BY <1>t, <3>3, <3>8, Mensajes DEF CoordOrdenEjecutada, Cumplir, Enviar, EsperarPlanificador
      <4>2. Head(coordAEsi'[e]) = RespuestaTrasOrden(e)
        BY <4>1, Mensajes
      <4>3. coordAPlan = <<>>
        BY <1>0, <4>1 DEF SoporteEnVuelo, PedidoEnVuelo, RespuestaEnVuelo, RespuestaDejada, EnEspera
      <4>4. hilo[e] = "orden_esi" => pedido[e].head = "SOLICITAR_CLAVE"
        BY <1>0 DEF Servicios, Servicio
      <4>5. /\ coordAEsi'[e] = <<"CLAVE_LIBRE">> =>
                    hilo[e] = "orden_clave" /\ pedido[e].head = "SOLICITAR_CLAVE"
            /\ coordAEsi'[e] = <<"CLAVE_YA_BLOQUEADA">> => hilo[e] = "orden_esi"
            /\ coordAEsi'[e] = <<"RESULTADO_OPERACION_CORRECTA">> => pedido[e].head # "SOLICITAR_CLAVE"
        <5>1. \A r : coordAEsi'[e] = <<r>> => RespuestaTrasOrden(e) = r
          BY <4>2, Mensajes
        <5>2. /\ RespuestaTrasOrden(e) = "CLAVE_LIBRE" =>
                    hilo[e] = "orden_clave" /\ pedido[e].head = "SOLICITAR_CLAVE"
              /\ RespuestaTrasOrden(e) = "CLAVE_YA_BLOQUEADA" => hilo[e] = "orden_esi"
              /\ RespuestaTrasOrden(e) = "RESULTADO_OPERACION_CORRECTA" =>
                    pedido[e].head # "SOLICITAR_CLAVE"
          <6>1. CASE hilo[e] = "orden_esi"
            BY <6>1 DEF RespuestaTrasOrden
          <6>2. CASE hilo[e] = "orden_clave" /\ pedido[e].head = "SOLICITAR_CLAVE"
            BY <6>2 DEF RespuestaTrasOrden
          <6>3. CASE hilo[e] = "orden_clave" /\ pedido[e].head # "SOLICITAR_CLAVE"
            BY <6>3 DEF RespuestaTrasOrden
          <6>. QED BY <4>1, <6>1, <6>2, <6>3
        <5>. QED BY <5>1, <5>2
      <4>6. hilo[e] = "orden_clave" /\ pedido[e].head = "SOLICITAR_CLAVE" =>
               pedido[e].clave \in ToSet(claves_esi[e])
        BY <1>0, <4>3 DEF Tenencias, Tenida
      <4>. QED BY <4>4, <4>5, <4>6
    <3>. QED BY <1>12, <3>1, <3>6, <3>7, <3>8
  <2>. QED BY <2>3, <2>4, <2>5
<1>13. CASE \/ CoordConsultar(e) \/ CoordPermitido(e) \/ CoordClaveBloqueada(e)
            \/ CoordGuardar(e) \/ CoordStorear(e) \/ CoordInstanciaCalla(e)
  <2>1. /\ hilo'[e] \in EnOperacion /\ mutex_mensaje' = e /\ EnServicio(e) /\ EnServicio(e)'
        /\ UNCHANGED <<pedido, esiACoord, coordAEsi>>
    <3>1. UNCHANGED <<pedido, esiACoord, coordAEsi>>
      BY <1>13 DEF CoordConsultar, CoordPermitido, CoordClaveBloqueada, CoordGuardar, CoordStorear,
         CoordInstanciaCalla, canales
    <3>2. hilo'[e] \in EnOperacion /\ EnServicio(e)
      BY <1>13, <1>t DEF CoordConsultar, CoordPermitido, CoordClaveBloqueada, CoordGuardar,
         CoordStorear, CoordInstanciaCalla, EnOperacion, EnServicio
    <3>. QED BY <1>0, <3>1, <3>2 DEF EnServicio, UnaOperacion
  <2>2. /\ GuionDe(e) /\ fase[e] = "espera_coord" /\ pedido[e].clave \in Claves
    BY <1>9, <2>1 DEF EnServicio
  <2>3. GuionDe(e)'
    BY <1>1, <2>1, <2>2, GuionIgual
  <2>4. \A f \in Esis : f # e => hilo'[f] \notin EnOperacion
    BY <1>0, <2>1 DEF UnaOperacion
  <2>5. ASSUME NEW f \in Esis, f # e PROVE ~Tenida(f)' /\ Servicio(f)' /\ hilo'[f] # "orden_clave"
    BY <2>4, <2>5 DEF Servicio, Tenida, Contestado, EnOperacion
  <2>6. hilo[e] = "consulta" /\ sem_planificador > 0 =>
            \A q : Contestado(e, q) <=> mensaje_planificador = q
    <3>1. hilo[e] = "consulta" /\ sem_planificador > 0 => RespuestaDejada(e)
      BY <1>0 DEF SoporteEnVuelo, PedidoEnVuelo, RespuestaEnVuelo, EnEspera
    <3>. QED BY <3>1, Mensajes DEF RespuestaDejada, Contestado
  <2>7. mutex_mensaje = NULL \/ hilo[e] = "instancia" => NadaEnVuelo
    <3>1. mutex_mensaje = NULL \/ hilo[e] = "instancia" => \A f \in Esis : hilo[f] \notin EnEspera
      BY <1>0, <1>t DEF UnaOperacion, EnEspera, EnOperacion
    <3>. QED BY <1>0, <3>1 DEF SoporteEnVuelo
  <2>8. SUFFICES /\ Servicio(e)'
                 /\ Tenida(e)' => pedido[e].clave \in ToSet(claves_esi[e])
                 /\ Registradas'
    BY <1>1, <2>1, <2>3, <2>5 DEF Servicios, Tenencias
  <2>9. Servicio(e) /\ (hilo[e] \in EnOperacion => pedido[e].clave \notin ClavesLargas)
    BY <1>0 DEF Servicios, Servicio
  <2>10. hilo[e] # "orden_clave" /\ \A k : ~Anotando(k) /\ ~Borrando(k)
    <3>1. hilo[e] # "orden_clave"
      BY <1>13 DEF CoordConsultar, CoordPermitido, CoordClaveBloqueada, CoordGuardar, CoordStorear,
         CoordInstanciaCalla
    <3>. QED BY <1>6, <2>5, <3>1 DEF Anotando, Borrando, EnCamino
  <2>11. hilo'[e] # "orden_clave" /\ UNCHANGED registro_claves => Registradas'
    <3>1. hilo'[e] # "orden_clave" => \A k : ~Anotando(k)'
      BY <2>5 DEF Anotando, EnCamino
    <3>. QED BY <1>0, <1>1, <2>10, <3>1, RegistradasIgual
  <2>12. \A f \in Esis : \A op, k : EnCamino(f, op, k)' => f = e /\ pedido[e].head = op /\ pedido[e].clave = k
    BY <2>1, <2>5 DEF EnCamino
  <2>13. ASSUME \A k : /\ ~Anotando(k)' \/ Cardinality(Entradas(k)') >= Cardinality(Entradas(k)) + 1
                       /\ \/ Cardinality(Entradas(k)') >= Cardinality(Entradas(k))
                          \/ /\ Borrando(k)'
                             /\ Cardinality(Entradas(k)') >= Cardinality(Entradas(k)) - 1
         PROVE  Registradas'
    <3>1. SUFFICES ASSUME NEW k \in Claves
                   PROVE  /\ IsFiniteSet(Registros(k)')
                          /\ Cardinality(Registros(k)') + (IF Anotando(k)' THEN 1 ELSE 0)
                                <= Cardinality(Entradas(k)') + (IF Borrando(k)' THEN 1 ELSE 0)
      BY DEF Registradas
    <3>2. Registros(k)' = Registros(k)
      BY <1>1 DEF Registros
    <3>3. /\ IsFiniteSet(Registros(k)) /\ Cardinality(Registros(k)) \in Nat
          /\ Cardinality(Registros(k)) <= Cardinality(Entradas(k))
          /\ Cardinality(Entradas(k)) \in Nat
      BY <1>0, <2>10, RegistroContado, FS_CardinalityType DEF Registradas
    <3>4. Cardinality(Entradas(k)') \in Nat
      BY <1>0, RegistroContadoLuego
    <3>. QED BY <2>13, <3>2, <3>3, <3>4
  <2>14. CASE CoordConsultar(e)
    <3>1. /\ hilo'[e] = "consulta" /\ pedido[e].clave \notin ClavesLargas
          /\ UNCHANGED <<planACoord, sem_planificador, registro_claves>> /\ NadaEnVuelo
          /\ hilo[e] = "mutex"
      BY <1>t, <2>7, <2>14 DEF CoordConsultar
    <3>2. \A q : ~Contestado(e, q)'
      BY <3>1, Mensajes DEF Contestado, NadaEnVuelo
    <3>3. Registradas'
      BY <2>11, <3>1
    <3>. QED BY <2>1, <3>1, <3>2, <3>3 DEF Servicio, Tenida
  <2>15. CASE CoordPermitido(e)
    <3>1. /\ hilo[e] = "consulta" /\ hilo'[e] = "instancia" /\ sem_planificador > 0
          /\ mensaje_planificador \in {"RESPUESTA_CLAVE_LIBRE",
                                       "RESPUESTA_CLAVE_BLOQUEADA_POR_ESI_OK"}
          /\ UNCHANGED registro_claves
      BY <1>t, <2>15 DEF CoordPermitido, EsperarPlanificador
    <3>2. pedido[e].head # "SOLICITAR_CLAVE" => Tenida(e)
      BY <2>6, <2>9, <3>1 DEF Servicio, Tenida, RespuestasSoporte
    <3>3. Tenida(e)' => pedido[e].clave \in ToSet(claves_esi[e])
      BY <1>0, <2>1, <3>1, <3>2 DEF Tenida, Tenencias, Contestado
    <3>4. Registradas'
      BY <2>11, <3>1
    <3>. QED BY <2>1, <2>9, <3>1, <3>3, <3>4 DEF Servicio, Contestado, EnOperacion
  <2>16. CASE CoordClaveBloqueada(e)
    <3>1. /\ hilo[e] = "consulta" /\ hilo'[e] = "orden_esi" /\ sem_planificador > 0
          /\ mensaje_planificador = "RESPUESTA_CLAVE_BLOQUEADA" /\ UNCHANGED registro_claves
      BY <1>t, <2>16 DEF CoordClaveBloqueada, EsperarPlanificador
    <3>2. pedido[e].head = "SOLICITAR_CLAVE"
      BY <2>6, <2>9, <3>1 DEF Servicio, RespuestasSoporte
    <3>3. Registradas'
      BY <2>11, <3>1
    <3>. QED BY <2>1, <2>9, <3>1, <3>2, <3>3 DEF Servicio, Tenida, Contestado, EnOperacion
  <2>17. CASE CoordInstanciaCalla(e)
    <3>1. hilo[e] = "instancia" /\ hilo'[e] = "colgado" /\ UNCHANGED registro_claves
      BY <1>t, <2>17 DEF CoordInstanciaCalla
    <3>2. Registradas'
      BY <2>11, <3>1
    <3>. QED BY <2>1, <2>9, <3>1, <3>2 DEF Servicio, Tenida, Contestado, EnOperacion
  <2>18. CASE CoordGuardar(e)
    <3>1. /\ hilo[e] = "instancia" /\ hilo'[e] = "orden_clave" /\ pedido[e].head = "SOLICITAR_CLAVE"
          /\ \E m : coordAPlan' = Append(coordAPlan, m)
          /\ \E n \in Instancias :
                registro_claves' = Append(registro_claves, [clave |-> pedido[e].clave, instancia |-> n])
          /\ NadaEnVuelo
      BY <1>t, <2>7, <2>18 DEF CoordGuardar
    <3>2. coordAPlan' # <<>>
      BY <3>1, Mensajes DEF NadaEnVuelo
    <3>3. PICK c \in Claves : c = pedido[e].clave
      BY <2>2
    <3>4. PICK n \in Instancias : registro_claves' = Append(registro_claves, [clave |-> c, instancia |-> n])
      BY <3>1, <3>3
    <3>5. /\ Cardinality(Entradas(c)') = Cardinality(Entradas(c)) + 1
          /\ \A k : k # c => Entradas(k)' = Entradas(k)
      BY <1>0, <3>4, EntradaNueva
    <3>6. \A k : Anotando(k)' => k = c
      BY <2>1, <2>12, <3>3 DEF Anotando, EnCamino
    <3>7. Registradas'
      BY <1>0, <2>13, <3>5, <3>6, RegistroContado
    <3>. QED BY <2>1, <2>9, <3>1, <3>2, <3>7 DEF Servicio, Tenida, Contestado, EnOperacion
  <2>19. CASE CoordStorear(e)
    <3>1. /\ hilo[e] = "instancia" /\ hilo'[e] = "orden_clave" /\ pedido[e].head = "PERSISTIR_CLAVE"
          /\ \E m : coordAPlan' = Append(coordAPlan, m)
          /\ registro_claves' = SinPrimeraEntrada(pedido[e].clave)
          /\ NadaEnVuelo
      BY <1>t, <2>7, <2>19 DEF CoordStorear
    <3>2. coordAPlan' # <<>>
      BY <3>1, Mensajes DEF NadaEnVuelo
    <3>3. pedido[e].clave \in ToSet(claves_esi[e])
      BY <1>0, <3>1 DEF Tenencias, Tenida
    <3>4. PICK c \in Claves : c = pedido[e].clave
      BY <2>2
    <3>5. Borrando(c)' /\ \A k : ~Anotando(k)'
      BY <2>1, <2>12, <3>1, <3>2, <3>4 DEF Anotando, Borrando, EnCamino
    <3>6. ASSUME NEW k
          PROVE  \/ Cardinality(Entradas(k)') >= Cardinality(Entradas(k))
                 \/ Borrando(k)' /\ Cardinality(Entradas(k)') >= Cardinality(Entradas(k)) - 1
      <4>1. registro_claves' = SinPrimeraEntrada(c)
        BY <3>1, <3>4
      <4>2. /\ Cardinality(Entradas(k)') >= Cardinality(Entradas(k)) - (IF k = c THEN 1 ELSE 0)
            /\ Cardinality(Entradas(k)) \in Nat
        BY <1>0, <4>1, EntradaMenos, RegistroContado
      <4>3. CASE k = c
        BY <3>5, <4>2, <4>3
      <4>4. CASE k # c
        BY <4>2, <4>4
      <4>. QED BY <4>3, <4>4
    <3>7. Registradas'
      BY <2>13, <3>5, <3>6
    <3>. QED BY <2>1, <2>9, <3>1, <3>2, <3>3, <3>7 DEF Servicio, Tenida, Contestado,
           EnOperacion
  <2>. QED BY <1>13, <2>14, <2>15, <2>16, <2>17, <2>18, <2>19
<1>. QED BY <1>5, <1>11, <1>12, <1>13

-----------------------------------------------------------------------------
LEMMA PasoPosesion == InvPosesion /\ [Next]_vars => InvPosesion'
<1>. SUFFICES ASSUME InvPosesion, [Next]_vars PROVE InvPosesion'
  OBVIOUS
<1>0. InvPedidos /\ InvPedidos' /\ InvSoporte' /\ InvTipos
  BY PasoPedidos DEF InvPosesion, InvPedidos, InvVuelta, InvSoporte, InvCuenta
<1>1. SUFFICES (GuionServido /\ Servicios /\ Tenencias /\ Posesiones /\ Registradas)'
  BY <1>0 DEF InvPosesion
<1>2. CASE DePlan(PlanificadorNext)
  BY <1>2, SoportePosesion, PlanPosesion DEF DePlan, PlanificadorNext
<1>3. CASE DeEsi(EsiNext)
  BY <1>3, EsiPosesion DEF DeEsi
<1>4. CASE DeCoord(CoordinadorNext)
  BY <1>0, <1>4, CoordPosesion DEF DeCoord
<1>5. CASE UNCHANGED vars
  <2>1. UNCHANGED <<claves_esi, memoria, hilo, pedido, sem_planificador, mensaje_planificador,
                    registro_claves, guion, linea, pendiente, fase, esiACoord, coordAEsi,
                    coordAPlan, planACoord>>
    BY <1>5 DEF vars, varsPlan, campos, varsEsi, varsCoord, canales
  <2>2. GuionServido'
    <3>1. \A f \in Esis : EnServicio(f)' => EnServicio(f)
      BY <2>1 DEF EnServicio, EsOperacion
    <3>. QED BY <2>1, <3>1, GuionIgual DEF InvPosesion, GuionServido
  <2>3. Servicios' /\ Tenencias'
    BY <2>1 DEF InvPosesion, Servicios, Servicio, Tenencias, Tenida, Contestado
  <2>4. Posesiones'
    BY <2>1, CreeIgual DEF InvPosesion, Posesiones
  <2>5. Registradas'
    BY <1>0, <2>1, RegistradasIgual DEF InvPosesion, Anotando, Borrando, EnCamino
  <2>. QED BY <2>2, <2>3, <2>4, <2>5
<1>. QED BY <1>2, <1>3, <1>4, <1>5 DEF Next, Reposo

LEMMA InicioPosesion == Init /\ SinCtrlC => InvPosesion
<1>. SUFFICES ASSUME Init, SinCtrlC PROVE InvPosesion
  OBVIOUS
<1>1. /\ \A e \in Esis : claves_esi[e] = <<>> /\ hilo[e] = "recibe" /\ linea[e] = 0
                           /\ fase[e] = "espera_orden"
  BY DEF Init, PlanificadorInit, CoordinadorInit, EsiInit
<1>2. ToSet(<<>>) = {}
  BY DEF ToSet
<1>3. GuionServido
  BY <1>1 DEF GuionServido
<1>4. Servicios /\ Tenencias
  BY <1>1 DEF Servicios, Servicio, Tenencias, Tenida, Contestado, EnOperacion
<1>5. Posesiones
  BY <1>1 DEF Posesiones, CreePoseer, Hechas
<1>6. Registradas
  <2>1. InvTipos
    BY InicioCandado DEF InvPedidos, InvVuelta, InvSoporte, InvCuenta
  <2>2. \A k : Registros(k) = {} /\ ~Anotando(k)
    BY <1>1 DEF Registros, Anotando, EnCamino
  <2>3. \A k : Cardinality(Entradas(k)) \in Nat
    BY <2>1, RegistroContado
  <2>. QED BY <2>2, <2>3, FS_EmptySet DEF Registradas
<1>. QED BY <1>3, <1>4, <1>5, <1>6, InicioCandado DEF InvPosesion

LEMMA PosesionSiempre == Spec /\ SinCtrlC => []InvPosesion
BY InicioPosesion, PasoPosesion, PTL DEF Spec

\* The ESI, the Planificador and the Coordinador agree on who owns what, from one
\* message to the next, whatever the operator commands and however the instances
\* fail, also of a key that desbloquear has given several owners: what an ESI
\* believes to own the Planificador has recorded for it, and set_valor and
\* store_clave find an entry for what the Planificador has recorded.
THEOREM PosesionAcordada == Spec /\ SinCtrlC => []PosesionCompartida
<1>1. InvPosesion => InvTipos
  BY DEF InvPosesion, InvPedidos, InvVuelta, InvSoporte, InvCuenta
<1>2. InvPosesion => PosesionCompartida
  BY <1>1, Cubierto DEF InvPosesion, Posesiones, PosesionCompartida, PosesionReal
<1>. QED BY <1>2, PosesionSiempre, PTL

\* The entry of the key that set_valor and store_clave look up is never missing:
\* the pointer they use without a check is not null.
THEOREM EntradaPresente == Spec /\ SinCtrlC => []RegistroNuncaNulo
<1>1. ASSUME InvPosesion PROVE RegistroNuncaNulo
  <2>1. SUFFICES ASSUME NEW e \in Esis, hilo[e] = "instancia", pedido[e].head # "SOLICITAR_CLAVE"
                 PROVE  Registrada(pedido[e].clave)
    BY DEF RegistroNuncaNulo
  <2>2. pedido[e].clave \in ToSet(claves_esi[e])
    BY <1>1, <2>1 DEF InvPosesion, Tenencias, Tenida
  <2>3. pedido[e].clave \in Claves
    BY <1>1, <2>2, TiposDeClaves DEF ToSet, InvPosesion, InvPedidos
  <2>4. RegistroCubre
    BY <1>1, Cubierto DEF InvPosesion, InvPedidos, InvVuelta, InvSoporte, InvCuenta
  <2>. QED BY <2>1, <2>2, <2>3, <2>4 DEF RegistroCubre
<1>. QED BY <1>1, PosesionSiempre, PTL
=============================================================================
