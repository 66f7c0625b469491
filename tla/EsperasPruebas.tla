--------------------------- MODULE EsperasPruebas ---------------------------
(***************************************************************************)
(* Proofs about the lists of the Planificador and the ESIs that wait, for  *)
(* any ESIs, keys, scripts and instances, when the operator only pauses    *)
(* and resumes: no ESI is lost but those created with bloqueado true; if   *)
(* there is none, the lists implement the table of locks, and as long as   *)
(* no GET is refused either, no ESI waits for a key nobody holds and every *)
(* wait left is without end.                                               *)
(***************************************************************************)
EXTENDS CandadosPruebas

\* The commands of the operator are pausar and continuar.
SinOrdenes == Comandos \subseteq {"pausar"}

\* malloc leaves bloqueado false in every ESI that is created.  Nothing in
\* agregar_nuevo_esi (listas.c:30-51) sees to it: a theorem that rests on this
\* states it.
BloqueadoEnFalso == TRUE \notin BloqueadoInicial

\* The three lists repeat no ESI and share none; the fields of the ESIs agree.
Listas ==
    /\ IsInjective(listos) /\ IsInjective(ejecutando) /\ IsInjective(bloqueados)
    /\ ToSet(listos) \cap ToSet(ejecutando) = {}
    /\ ToSet(listos) \cap ToSet(bloqueados) = {}
    /\ ToSet(ejecutando) \cap ToSet(bloqueados) = {}
    /\ \A e \in Esis :
          /\ Legible(e) <=> e \in ToSet(listos) \cup ToSet(ejecutando) \cup ToSet(bloqueados)
          /\ clave_bloqueante[e] # NULL <=> e \in ToSet(bloqueados)
          /\ e \in ToSet(bloqueados) => bloqueado[e]
          /\ BloqueadoEnFalso /\ bloqueado[e] => e \in ToSet(bloqueados)

\* Only the ESI that planificar works with is executing, unless its last
\* instruction has blocked it; only such an ESI is terminated.
Ejecutor ==
    /\ \A e \in ToSet(ejecutando) : e = esi_a_ejecutar
    /\ pc \in {"espera_sem", "sel_pausa", "seleccionar"} => ToSet(ejecutando) = {}
    /\ pc = "desalojar_mutex" => ejecutando # <<>>
    /\ \A e \in Esis : e = esi_a_ejecutar /\ Legible(e) =>
          /\ e \in ToSet(ejecutando) \cup ToSet(bloqueados)
          /\ pc \in {"pausa", "despachar"} => e \in ToSet(ejecutando)
    /\ \A e \in Esis : memoria[e] = "sin_crear" => e # esi_a_ejecutar
    /\ mutex_listas # "consola"
    /\ terminando.paso \in ConVictima =>
          terminando.origen = "ejecutando" /\ terminando.victima \in ToSet(ejecutando)

\* planificar waits for an ESI that is blocked only when that is the answer.
YaBloqueado(e) ==
    \/ hilo[e] = "orden_esi" /\ coordAPlan = <<>>
    \/ Resuelta(e) /\ coordAEsi[e] = <<"CLAVE_YA_BLOQUEADA">>
    \/ PorContestar(e) /\ resultado[e] = "EJECUCION_CORRECTA"
    \/ Contestada(e)
BloqueoEnCurso ==
    \A e \in Esis : Aguardado(e) /\ e \in ToSet(bloqueados) => YaBloqueado(e)

\* A GET of a locked key, which stays locked until the ESI is blocked.
Negada(e) ==
    \/ Contestado(e, "RESPUESTA_CLAVE_BLOQUEADA")
    \/ hilo[e] = "orden_esi" /\ coordAPlan # <<>>
Negadas == \A e \in Esis : Negada(e) => pedido[e].clave \in ToSet(claves_bloqueadas)

\* The keys of an ESI last as long as the ESI.
DuenosVivos == \A e \in Esis : ToSet(claves_esi[e]) # {} => Legible(e)

\* terminar_esi looks at one key of its victim after another.
Recorrido ==
    terminando.paso = "desbloquear" =>
        terminando.i >= 1 /\ terminando.i - 1 <= Len(claves_esi[terminando.victima])

InvListas ==
    /\ SinOrdenes /\ InvCandados /\ InvPosesion /\ Listas /\ Ejecutor
    /\ BloqueoEnCurso /\ Negadas /\ DuenosVivos /\ Recorrido

\* An ESI that planificar has set aside because it was created with bloqueado
\* true: it stays in ejecutando, alive, and nothing will take it from there.
Apartado(e) ==
    /\ e \in ToSet(ejecutando) /\ e \notin ToSet(listos)
    /\ memoria[e] = "viva" /\ NacioBloqueado(e)
    /\ e = esi_a_ejecutar => pc \in {"espera_sem", "sel_pausa", "seleccionar"}

\* The lists are exact until an ESI is set aside.
InvOrden ==
    \/ InvListas
    \/ SinOrdenes /\ InvCandados /\ \E e \in Esis : Apartado(e)

-----------------------------------------------------------------------------
\* Sorting a list leaves the same ESIs in it, once each.
LEMMA ReordenadasJustas ==
    ASSUME NEW S, NEW lista \in Seq(S), IsInjective(lista), NEW orden \in Reordenadas(lista)
    PROVE  IsInjective(orden) /\ ToSet(orden) = ToSet(lista)
<1>1. PICK p \in [DOMAIN lista -> DOMAIN lista] :
         IsInjective(p) /\ orden = [i \in DOMAIN lista |-> lista[p[i]]]
  BY DEF Reordenadas
<1>2. DOMAIN lista = 1..Len(lista) /\ Len(lista) \in Nat
  BY LenProperties
<1>3. p \in Injection(DOMAIN lista, DOMAIN lista)
  BY <1>1 DEF Injection, IsInjective
<1>4. IsFiniteSet(DOMAIN lista)
  BY <1>2, FS_Interval
<1>5. p \in Surjection(DOMAIN lista, DOMAIN lista)
  BY <1>3, <1>4, FS_Injection
<1>6. \A j \in DOMAIN lista : \E i \in DOMAIN lista : p[i] = j
  BY <1>5 DEF Surjection
<1>7. DOMAIN orden = DOMAIN lista /\ \A i \in DOMAIN lista : orden[i] = lista[p[i]]
  BY <1>1
<1>8. IsInjective(orden)
  BY <1>1, <1>7 DEF IsInjective
<1>9. ToSet(orden) = ToSet(lista)
  BY <1>1, <1>6, <1>7 DEF ToSet
<1>. QED BY <1>8, <1>9

\* Who is woken, if anybody is.
LEMMA Despertado ==
    ASSUME PlanificadorTypeOK, NEW k, DesbloquearEsiPorClave(k), Esperando(k) # {}
    PROVE  \E w \in Esis :
              /\ w \in ToSet(bloqueados) /\ clave_bloqueante[w] = k /\ Legible(w)
              /\ BloqueadoAListo(w)
<1>1. Esperando(k) \subseteq 1..Len(bloqueados)
  BY DEF Esperando, PlanificadorTypeOK
<1>2. Min(Esperando(k)) \in Esperando(k)
  BY <1>1, HayMinimo DEF Min
<1>3. PICK n \in Esperando(k) : n = Min(Esperando(k))
  BY <1>2
<1>4. BloqueadoAListo(bloqueados[n])
  BY <1>3 DEF DesbloquearEsiPorClave
<1>. QED BY <1>1, <1>4 DEF Esperando, PlanificadorTypeOK, ToSet

\* An ESI that is woken is in listos, and nowhere else.
LEMMA ListasDespiertan ==
    ASSUME PlanificadorTypeOK, Listas, NEW w \in Esis, w \in ToSet(bloqueados),
           BloqueadoAListo(w), UNCHANGED <<ejecutando, memoria>>
    PROVE  /\ Listas'
           /\ ToSet(bloqueados') = ToSet(bloqueados) \ {w}
           /\ ToSet(listos') = ToSet(listos) \cup {w}
<1>1. /\ listos \in Seq(Esis) /\ bloqueados \in Seq(Esis)
      /\ IsInjective(listos) /\ IsInjective(bloqueados) /\ w \notin ToSet(listos)
      /\ NULL \notin Claves
  BY ProtocoloAssumption DEF PlanificadorTypeOK, Listas
<1>2. /\ ToSet(listos') = ToSet(listos) \cup {w} /\ IsInjective(listos')
      /\ ToSet(bloqueados') = ToSet(bloqueados) \ {w} /\ IsInjective(bloqueados')
  BY <1>1, AgregarTipo, AgregarInyectiva, SacarInyectiva DEF BloqueadoAListo, Quitar
<1>3. /\ clave_bloqueante'[w] = NULL /\ bloqueado'[w] = FALSE
      /\ \A e \in Esis : e # w => /\ clave_bloqueante'[e] = clave_bloqueante[e]
                                  /\ bloqueado'[e] = bloqueado[e]
  BY DEF BloqueadoAListo, PlanificadorTypeOK
<1>4. \A e \in Esis : Legible(e)' <=> Legible(e)
  BY DEF Legible
<1>5. ASSUME NEW e \in Esis
      PROVE  /\ Legible(e)' <=> e \in ToSet(listos') \cup ToSet(ejecutando') \cup ToSet(bloqueados')
             /\ clave_bloqueante'[e] # NULL <=> e \in ToSet(bloqueados')
             /\ e \in ToSet(bloqueados') => bloqueado'[e]
             /\ BloqueadoEnFalso /\ bloqueado'[e] => e \in ToSet(bloqueados')
  <2>1. CASE e = w
    BY <1>2, <1>3, <1>4, <2>1 DEF Listas
  <2>2. CASE e # w
    BY <1>2, <1>3, <1>4, <2>2 DEF Listas
  <2>. QED BY <2>1, <2>2
<1>6. /\ ToSet(listos') \cap ToSet(ejecutando') = {}
      /\ ToSet(listos') \cap ToSet(bloqueados') = {}
      /\ ToSet(ejecutando') \cap ToSet(bloqueados') = {}
  BY <1>2 DEF Listas
<1>7. IsInjective(ejecutando')
  BY DEF Listas
<1>. QED BY <1>2, <1>5, <1>6, <1>7 DEF Listas

LEMMA EnSeq == ASSUME NEW S, NEW lista \in Seq(S) PROVE ToSet(lista) \subseteq S
<1>1. DOMAIN lista = 1..Len(lista) /\ \A i \in 1..Len(lista) : lista[i] \in S
  BY ElementOfSeq, LenProperties
<1>. QED BY <1>1 DEF ToSet

\* A step that moves nobody.
LEMMA ListasIguales ==
    ASSUME Listas, UNCHANGED <<listos, ejecutando, bloqueados, clave_bloqueante, bloqueado>>,
           \A e \in Esis : Legible(e)' <=> Legible(e)
    PROVE  Listas'
BY DEF Listas

\* Nobody but planificar owns mutex_listas, and terminates an ESI.
LEMMA SoloPlanificar ==
    ASSUME InvVuelta, Ejecutor
    PROVE  /\ mutex_listas # "planificar" => terminando = Nadie /\ pc # "espera_respuesta"
           /\ pc # "espera_respuesta" => terminando = Nadie /\ mutex_listas = "libre"
           /\ terminando = Nadie => \A e \in Esis : memoria[e] # "terminando"
           /\ terminando.paso # "sem_wait"
<1>1. mutex_listas \in {"libre", "planificar"}
  BY DEF InvVuelta, InvSoporte, InvCuenta, InvTipos, TypeOK, PlanificadorTypeOK, Ejecutor
<1>2. pc = "espera_respuesta" <=> mutex_listas = "planificar"
  BY DEF InvVuelta, InvSoporte, InvCuenta, Cuenta, MutexDePlanificar
<1>3. terminando = Nadie => \A e \in Esis : memoria[e] # "terminando"
  BY DEF InvVuelta, UnaVictima, Nadie, ConVictima
<1>4. terminando.paso # "sem_wait"
  BY <1>1 DEF InvVuelta, InvSoporte, InvCuenta, Cuenta, MutexDeQuienTermina, Ejecutor
<1>. QED BY <1>1, <1>2, <1>3, <1>4, NadieTermina

\* planificar takes out of a list the ESI that it puts in another.  It sets its
\* ESI aside, in ejecutando, if it was created with bloqueado true.
LEMMA PlanificarListas ==
    ASSUME InvListas, Planificar, UNCHANGED <<varsEsi, varsCoord>>
    PROVE  Listas' /\ (Ejecutor' \/ \E e \in Esis : Apartado(e)')
<1>0. InvTipos /\ InvVuelta /\ Listas /\ Ejecutor /\ PlanificadorTypeOK
  BY DEF InvListas, InvPosesion, InvCandados, InvPedidos, InvVuelta, InvSoporte, InvCuenta,
     InvTipos, TypeOK
<1>1. /\ mutex_listas # "planificar" => terminando = Nadie /\ pc # "espera_respuesta"
      /\ pc # "espera_respuesta" => terminando = Nadie /\ mutex_listas = "libre"
      /\ terminando = Nadie => \A e \in Esis : memoria[e] # "terminando"
      /\ terminando.paso # "sem_wait"
  BY <1>0, SoloPlanificar
<1>2. CASE \/ PlanInicio \/ PlanRevisar \/ PlanDesalojar \/ PlanDesalojarFin \/ PlanElegir
           \/ PlanEsperaSem \/ PlanSelPausa \/ PlanPausa \/ PlanDespachar \/ PlanRespuestaCorrecta
  <2>1. UNCHANGED <<listos, ejecutando, bloqueados, clave_bloqueante, bloqueado, memoria,
                    esi_a_ejecutar, terminando>>
    BY <1>2 DEF PlanInicio, PlanRevisar, PlanDesalojar, PlanDesalojarFin, PlanElegir,
       PlanEsperaSem, PlanSelPausa, PlanPausa, PlanDespachar, PlanRespuestaCorrecta, listas, campos
  <2>2. \A e \in Esis : Legible(e)' <=> Legible(e)
    BY <2>1 DEF Legible
  <2>3. Listas'
    BY <1>0, <2>1, <2>2, ListasIguales
  <2>4. mutex_listas' # "consola"
    BY <1>0, <1>2 DEF PlanInicio, PlanRevisar, PlanDesalojar, PlanDesalojarFin, PlanElegir,
       PlanEsperaSem, PlanSelPausa, PlanPausa, PlanDespachar, PlanRespuestaCorrecta, Ejecutor
  <2>5. CASE PlanElegir
    <3>1. pc = "elegir" /\ terminando = Nadie /\ \A e \in Esis : memoria[e] # "terminando"
      BY <1>1, <2>5 DEF PlanElegir, Ir
    <3>2. PICK sigue \in SigueEjecutando : pc' = IF sigue THEN "pausa" ELSE "espera_sem"
      BY <2>5 DEF PlanElegir, Ir
    <3>3. CASE esi_a_ejecutar = NULL
      <4>1. ToSet(ejecutando) = {}
        <5>1. ToSet(ejecutando) \subseteq Esis
          BY <1>0, EnSeq DEF PlanificadorTypeOK
        <5>. QED BY <1>0, <3>3, <5>1, ProtocoloAssumption DEF Ejecutor
      <4>. QED BY <1>0, <2>1, <2>2, <2>3, <2>4, <3>2, <3>3, <4>1, ProtocoloAssumption DEF Ejecutor
    <3>4. CASE esi_a_ejecutar # NULL
      <4>1. PICK e \in Esis : e = esi_a_ejecutar
        BY <1>0, <3>4 DEF PlanificadorTypeOK
      <4>2. CASE memoria[e] = "viva" /\ bloqueado[e] /\ e \notin ToSet(bloqueados)
        <5>1. ~sigue /\ ~BloqueadoEnFalso
          BY <1>0, <3>2, <3>4, <4>1, <4>2 DEF SigueEjecutando, Legible, Listas
        <5>2. e \in ToSet(ejecutando) /\ e \notin ToSet(listos)
          BY <1>0, <4>1, <4>2 DEF Ejecutor, Listas, Legible
        <5>3. TRUE \in BloqueadoInicial /\ pc' = "espera_sem"
          BY <3>2, <5>1 DEF BloqueadoEnFalso
        <5>4. Apartado(e)'
          BY <2>1, <4>2, <5>2, <5>3 DEF Apartado, NacioBloqueado
        <5>. QED BY <2>3, <5>4
      <4>3. CASE memoria[e] = "viva" /\ ~(bloqueado[e] /\ e \notin ToSet(bloqueados))
        <5>1. sigue = ~bloqueado[e] /\ Legible(e)
          BY <3>2, <3>4, <4>1, <4>3 DEF SigueEjecutando, Legible
        <5>2. e \in ToSet(ejecutando) <=> sigue
          BY <1>0, <4>1, <4>3, <5>1 DEF Ejecutor, Listas
        <5>3. ~sigue => ToSet(ejecutando) = {}
          BY <1>0, <4>1, <5>2 DEF Ejecutor
        <5>. QED BY <1>0, <2>1, <2>2, <2>3, <2>4, <3>2, <4>1, <5>2, <5>3 DEF Ejecutor
      <4>4. CASE memoria[e] # "viva"
        <5>1. ~Legible(e)
          BY <3>1, <4>4 DEF Legible
        <5>2. ToSet(ejecutando) = {}
          BY <1>0, <4>1, <5>1 DEF Ejecutor, Listas
        <5>. QED BY <1>0, <2>1, <2>2, <2>3, <2>4, <3>2, <4>1, <5>1, <5>2 DEF Ejecutor
      <4>. QED BY <4>2, <4>3, <4>4
    <3>. QED BY <2>3, <3>3, <3>4
  <2>6. CASE ~PlanElegir
    <3>1. /\ pc' \in {"espera_sem", "sel_pausa", "seleccionar"} =>
                pc \in {"espera_sem", "sel_pausa", "seleccionar"}
          /\ pc' \in {"pausa", "despachar"} => pc \in {"pausa", "despachar"}
          /\ pc' = "desalojar_mutex" => ejecutando # <<>>
      BY <1>2, <2>6 DEF PlanInicio, PlanRevisar, PlanDesalojar, PlanDesalojarFin,
       PlanEsperaSem, PlanSelPausa, PlanPausa, PlanDespachar, PlanRespuestaCorrecta, Ir
    <3>. QED BY <1>0, <2>1, <2>2, <2>3, <2>4, <3>1 DEF Ejecutor
  <2>. QED BY <2>5, <2>6
<1>3. CASE PlanSeleccionar
  <2>0. PICK orden \in OrdenesDeSeleccion :
           esi_a_ejecutar' = Head(orden) /\ ListoAEjecutando(Head(orden), orden)
    BY <1>3 DEF PlanSeleccionar
  <2>1. PICK h : /\ h = Head(orden) /\ esi_a_ejecutar' = h
                 /\ ejecutando' = Append(ejecutando, h) /\ listos' = Quitar(orden, h)
    BY <2>0 DEF ListoAEjecutando
  <2>2. /\ pc = "seleccionar" /\ pc' = "pausa" /\ listos # <<>>
        /\ UNCHANGED <<bloqueados, clave_bloqueante, bloqueado, memoria, terminando, mutex_listas>>
    BY <1>3 DEF PlanSeleccionar, Ir, SeleccionValida, campos
  <2>3. /\ listos \in Seq(Esis) /\ ejecutando \in Seq(Esis) /\ IsInjective(listos)
        /\ IsInjective(ejecutando)
    BY <1>0 DEF PlanificadorTypeOK, Listas
  <2>4. /\ orden \in Seq(Esis) /\ IsInjective(orden) /\ ToSet(orden) = ToSet(listos)
        /\ orden # <<>>
    <3>1. CASE orden = listos
      BY <2>2, <2>3, <3>1
    <3>2. CASE orden \in Reordenadas(listos)
      <4>1. Len(listos) # 0
        BY <2>2, <2>3, EmptySeq
      <4>. QED BY <2>3, <3>2, <4>1, ReordenadasTipo, ReordenadasJustas, EmptySeq
    <3>. QED BY <2>1, <3>1, <3>2 DEF OrdenesDeSeleccion
  <2>5. h \in Esis /\ h \in ToSet(listos) /\ ToSet(ejecutando) = {}
    BY <1>0, <2>1, <2>2, <2>4, CabezaTipo DEF Ejecutor
  <2>6. /\ ToSet(ejecutando') = {h} /\ IsInjective(ejecutando')
        /\ ToSet(listos') = ToSet(listos) \ {h} /\ IsInjective(listos')
    BY <2>1, <2>3, <2>4, <2>5, AgregarTipo, AgregarInyectiva, SacarInyectiva DEF Quitar
  <2>7. \A e \in Esis : Legible(e)' <=> Legible(e)
    BY <2>2 DEF Legible
  <2>8. Listas'
    BY <1>0, <2>2, <2>5, <2>6, <2>7 DEF Listas
  <2>9. terminando = Nadie
    BY <1>1, <2>2
  <2>10. memoria[h] # "sin_crear"
    BY <1>0, <2>5 DEF Listas, Legible
  <2>11. Ejecutor'
    BY <1>0, <2>1, <2>2, <2>6, <2>9, <2>10 DEF Ejecutor, Nadie, ConVictima
  <2>. QED BY <2>8, <2>11
<1>4. CASE PlanDesalojarMutex
  <2>1. PICK orden \in Reordenadas(listos) :
          \/ listos' = orden /\ UNCHANGED <<ejecutando, esi_a_ejecutar>>
          \/ /\ esi_a_ejecutar' = Head(orden)
             /\ ejecutando' = Append(Quitar(ejecutando, esi_a_ejecutar), Head(orden))
             /\ listos' = Quitar(Append(orden, esi_a_ejecutar), Head(orden))
    BY <1>4 DEF PlanDesalojarMutex
  <2>2. /\ pc = "desalojar_mutex" /\ pc' = "desalojar_fin" /\ listos # <<>>
        /\ esi_a_ejecutar # NULL
        /\ UNCHANGED <<bloqueados, clave_bloqueante, bloqueado, memoria, terminando, mutex_listas>>
    BY <1>4 DEF PlanDesalojarMutex, Ir, DesalojarValido, campos
  <2>3. /\ listos \in Seq(Esis) /\ ejecutando \in Seq(Esis) /\ IsInjective(listos)
        /\ IsInjective(ejecutando)
    BY <1>0 DEF PlanificadorTypeOK, Listas
  <2>4. /\ orden \in Seq(Esis) /\ IsInjective(orden) /\ ToSet(orden) = ToSet(listos)
        /\ orden # <<>>
    <3>1. Len(listos) # 0
      BY <2>2, <2>3, EmptySeq
    <3>. QED BY <2>3, <3>1, ReordenadasTipo, ReordenadasJustas, EmptySeq
  <2>5. PICK e \in Esis : e = esi_a_ejecutar
    BY <1>0, <2>2 DEF PlanificadorTypeOK
  <2>6. e \in ToSet(ejecutando) /\ ToSet(ejecutando) = {e}
    <3>1. ejecutando # <<>>
      BY <1>0, <2>2 DEF Ejecutor
    <3>2. Head(ejecutando) \in ToSet(ejecutando)
      BY <2>3, <3>1, CabezaTipo
    <3>. QED BY <1>0, <2>5, <3>2 DEF Ejecutor
  <2>7. \A f \in Esis : Legible(f)' <=> Legible(f)
    BY <2>2 DEF Legible
  <2>8. terminando = Nadie
    BY <1>1, <2>2
  <2>9. CASE listos' = orden /\ UNCHANGED <<ejecutando, esi_a_ejecutar>>
    <3>1. Listas'
      BY <1>0, <2>2, <2>4, <2>7, <2>9 DEF Listas
    <3>2. Ejecutor'
      BY <1>0, <2>2, <2>7, <2>8, <2>9 DEF Ejecutor, Nadie, ConVictima
    <3>. QED BY <3>1, <3>2
  <2>10. ASSUME NEW h, h = Head(orden), esi_a_ejecutar' = h,
                ejecutando' = Append(Quitar(ejecutando, e), h),
                listos' = Quitar(Append(orden, e), h)
         PROVE  Listas' /\ Ejecutor'
    <3>1. h \in Esis /\ h \in ToSet(listos) /\ h # e /\ e \notin ToSet(orden)
      BY <1>0, <2>4, <2>6, <2>10, CabezaTipo DEF Listas
    <3>2. /\ Quitar(ejecutando, e) \in Seq(Esis) /\ IsInjective(Quitar(ejecutando, e))
          /\ ToSet(Quitar(ejecutando, e)) = {}
      BY <2>3, <2>6, SacarInyectiva, QuitarTipo DEF Quitar
    <3>3. ToSet(ejecutando') = {h} /\ IsInjective(ejecutando')
      BY <2>10, <3>1, <3>2, AgregarTipo, AgregarInyectiva
    <3>4. /\ Append(orden, e) \in Seq(Esis) /\ ToSet(Append(orden, e)) = ToSet(listos) \cup {e}
          /\ IsInjective(Append(orden, e))
      BY <2>4, <3>1, AgregarTipo, AgregarInyectiva
    <3>5. ToSet(listos') = (ToSet(listos) \cup {e}) \ {h} /\ IsInjective(listos')
      BY <2>10, <3>4, SacarInyectiva DEF Quitar
    <3>6. Listas'
      BY <1>0, <2>2, <2>6, <2>7, <3>1, <3>3, <3>5 DEF Listas
    <3>7. memoria[h] # "sin_crear"
      BY <1>0, <3>1 DEF Listas, Legible
    <3>8. Ejecutor'
      BY <1>0, <2>2, <2>8, <2>10, <3>3, <3>7 DEF Ejecutor, Nadie, ConVictima
    <3>. QED BY <3>6, <3>8
  <2>. QED BY <2>1, <2>5, <2>9, <2>10
<1>5. CASE PlanRespuestaFinal
  <2>0. PICK e \in Esis : e = esi_a_ejecutar
    BY <1>0, <1>5 DEF PlanRespuestaFinal, InvTipos, PunterosReales
  <2>1. /\ pc = "espera_respuesta" /\ terminando = Nadie /\ esiAPlan[e] # <<>>
        /\ Head(esiAPlan[e]) # "EJECUCION_CORRECTA"
        /\ memoria' = [memoria EXCEPT ![e] = "terminando"]
        /\ terminando' = [paso |-> "desbloquear", victima |-> e, origen |-> "ejecutando", i |-> 1]
        /\ UNCHANGED <<listos, ejecutando, bloqueados, clave_bloqueante, bloqueado, mutex_listas,
                       pc, esi_a_ejecutar>>
    BY <1>5, <2>0 DEF PlanRespuestaFinal, EmpezarTerminar, listas
  <2>2. Aguardado(e) /\ memoria[e] = "viva" /\ EnCurso(e)
    <3>1. Aguardado(e) /\ VueltaDe(e)
      BY <1>0, <2>0, <2>1 DEF Aguardado, InvVuelta, Vueltas
    <3>. QED BY <1>1, <2>1, <3>1 DEF VueltaDe
  <2>3. ~YaBloqueado(e)
    <3>1. ~Contestada(e)
      BY <2>1, Mensajes DEF Contestada, Conexiones
    <3>2. ~PorContestar(e) /\ ~Resuelta(e)
      BY <2>1 DEF PorContestar, Resuelta, Conexiones
    <3>3. hilo[e] # "orden_esi"
      <4>1. hilo[e] = "orden_esi" => Servida(e)
        BY <1>0, SoloServida DEF InvVuelta, Vueltas, EnServicio, EnOperacion
      <4>. QED BY <2>1, <4>1 DEF Servida, Conexiones
    <3>. QED BY <3>1, <3>2, <3>3 DEF YaBloqueado
  <2>4. e \in ToSet(ejecutando)
    BY <1>0, <2>0, <2>2, <2>3 DEF InvListas, BloqueoEnCurso, Ejecutor, Legible
  <2>5. \A f \in Esis : Legible(f)' <=> Legible(f)
    BY <1>0, <2>1, <2>2 DEF Legible, PlanificadorTypeOK
  <2>6. Listas'
    BY <1>0, <2>1, <2>5, ListasIguales
  <2>7. Ejecutor'
    BY <1>0, <2>1, <2>4, <2>5 DEF Ejecutor
  <2>. QED BY <2>6, <2>7
<1>. QED BY <1>2, <1>3, <1>4, <1>5 DEF Planificar

\* What soporte does to the lists: the ESI it works for is executing, and not
\* blocked yet.
LEMMA SoporteEjecuta ==
    ASSUME InvListas, Soporte
    PROVE  \E e \in Esis :
              /\ hilo[e] \in EnEspera /\ esi_a_ejecutar = e /\ Servida(e) /\ memoria[e] = "viva"
              /\ clave_pedida = pedido[e].clave /\ pedido[e].clave \in Claves
              /\ Head(coordAPlan).head = OrdenDebida(e)
              /\ coordAPlan # <<>> /\ planACoord = <<>> /\ sem_planificador = 0
              /\ coordAPlan' = <<>>
              /\ \A f \in Esis : hilo[f] \in EnOperacion => f = e
              /\ e \in ToSet(ejecutando) /\ e \notin ToSet(bloqueados)
              /\ terminando = Nadie /\ pc = "espera_respuesta"
<1>0. InvCandados /\ InvVuelta /\ InvTipos /\ Listas /\ Ejecutor /\ BloqueoEnCurso /\ GuionServido
  BY DEF InvListas, InvPosesion, InvCandados, InvPedidos, InvVuelta, InvSoporte, InvCuenta
<1>1. PICK e \in Esis :
         /\ hilo[e] \in EnEspera /\ esi_a_ejecutar = e /\ Servida(e)
         /\ clave_pedida = pedido[e].clave /\ Head(coordAPlan).head = OrdenDebida(e)
         /\ coordAPlan # <<>> /\ planACoord = <<>> /\ sem_planificador = 0
         /\ coordAPlan' = <<>>
         /\ \A f \in Esis : hilo[f] \in EnOperacion => f = e
  BY <1>0, EnSoporte DEF InvCandados
<1>2. EnServicio(e) /\ fase[e] = "espera_coord"
  BY <1>1 DEF Servida
<1>3. Aguardado(e) /\ memoria[e] = "viva"
  BY <1>0, <1>2, SoloServida DEF InvVuelta, Vueltas
<1>4. pedido[e].clave \in Claves
  BY <1>0, <1>2, LineaServida DEF GuionServido
<1>5. ~YaBloqueado(e)
  BY <1>1, <1>2 DEF YaBloqueado, Resuelta, PorContestar, Contestada, EntreOrdenes, EnEspera
<1>6. e \in ToSet(ejecutando) /\ e \notin ToSet(bloqueados)
  BY <1>0, <1>1, <1>3, <1>5 DEF BloqueoEnCurso, Ejecutor, Legible
<1>. QED BY <1>1, <1>3, <1>4, <1>6 DEF Aguardado

\* soporte blocks the executing ESI, or wakes another.
LEMMA SoporteListas ==
    ASSUME InvListas, Soporte
    PROVE  Listas' /\ Ejecutor'
<1>0. InvTipos /\ InvVuelta /\ Listas /\ Ejecutor /\ PlanificadorTypeOK
  BY DEF InvListas, InvPosesion, InvCandados, InvPedidos, InvVuelta, InvSoporte, InvCuenta,
     InvTipos, TypeOK
<1>1. PICK e \in Esis :
         /\ esi_a_ejecutar = e /\ memoria[e] = "viva" /\ clave_pedida \in Claves
         /\ e \in ToSet(ejecutando) /\ e \notin ToSet(bloqueados)
         /\ terminando = Nadie /\ pc = "espera_respuesta"
  BY SoporteEjecuta
<1>2. UNCHANGED <<esi_a_ejecutar, pc, mutex_listas, terminando, memoria>>
  BY DEF Soporte, SoporteClaveLibre, SoporteBloquearEsi, SoporteBloquearClave, SoporteClaveDeEsi,
     SoporteDesbloquearClave, varsPlan, hilos, campos
<1>3. \A f \in Esis : Legible(f)' <=> Legible(f)
  BY <1>2 DEF Legible
<1>4. terminando'.paso \notin ConVictima
  BY <1>1, <1>2 DEF Nadie, ConVictima
<1>5. CASE SoporteClaveLibre \/ SoporteBloquearClave \/ SoporteClaveDeEsi
  <2>1. UNCHANGED <<listos, ejecutando, bloqueados, clave_bloqueante, bloqueado>>
    BY <1>5 DEF SoporteClaveLibre, SoporteBloquearClave, SoporteClaveDeEsi, varsPlan, listas, campos
  <2>. QED BY <1>0, <1>2, <1>3, <2>1, ListasIguales DEF Ejecutor
<1>6. CASE SoporteBloquearEsi
  <2>1. /\ clave_bloqueante' = [clave_bloqueante EXCEPT ![e] = clave_pedida]
        /\ bloqueado' = [bloqueado EXCEPT ![e] = TRUE]
        /\ bloqueados' = Append(bloqueados, e)
        /\ ejecutando' = Quitar(ejecutando, e)
        /\ UNCHANGED listos
    BY <1>1, <1>6 DEF SoporteBloquearEsi, EjecutandoABloqueado
  <2>2. /\ bloqueados \in Seq(Esis) /\ ejecutando \in Seq(Esis) /\ NULL \notin Claves
        /\ IsInjective(bloqueados) /\ IsInjective(ejecutando)
    BY <1>0, ProtocoloAssumption DEF PlanificadorTypeOK, Listas
  <2>3. /\ ToSet(bloqueados') = ToSet(bloqueados) \cup {e} /\ IsInjective(bloqueados')
        /\ ToSet(ejecutando') = ToSet(ejecutando) \ {e} /\ IsInjective(ejecutando')
    BY <1>1, <2>1, <2>2, AgregarTipo, AgregarInyectiva, SacarInyectiva DEF Quitar
  <2>4. /\ clave_bloqueante'[e] # NULL /\ bloqueado'[e] = TRUE
        /\ \A f \in Esis : f # e => /\ clave_bloqueante'[f] = clave_bloqueante[f]
                                    /\ bloqueado'[f] = bloqueado[f]
    BY <1>0, <1>1, <2>1, <2>2 DEF PlanificadorTypeOK
  <2>5. ASSUME NEW f \in Esis
        PROVE  /\ Legible(f)' <=>
                     f \in ToSet(listos') \cup ToSet(ejecutando') \cup ToSet(bloqueados')
               /\ clave_bloqueante'[f] # NULL <=> f \in ToSet(bloqueados')
               /\ f \in ToSet(bloqueados') => bloqueado'[f]
               /\ BloqueadoEnFalso /\ bloqueado'[f] => f \in ToSet(bloqueados')
    <3>1. CASE f = e
      BY <1>0, <1>1, <1>3, <2>1, <2>3, <2>4, <3>1 DEF Listas
    <3>2. CASE f # e
      BY <1>0, <1>3, <2>1, <2>3, <2>4, <3>2 DEF Listas
    <3>. QED BY <3>1, <3>2
  <2>6. Listas'
    BY <1>0, <1>1, <2>1, <2>3, <2>5 DEF Listas
  <2>7. Ejecutor'
    BY <1>0, <1>1, <1>2, <1>3, <1>4, <2>3 DEF Ejecutor
  <2>. QED BY <2>6, <2>7
<1>7. CASE SoporteDesbloquearClave
  <2>0. PICK k : k = clave_pedida
    OBVIOUS
  <2>1. DesbloquearEsiPorClave(k) /\ UNCHANGED ejecutando
    BY <1>7, <2>0 DEF SoporteDesbloquearClave
  <2>2. CASE Esperando(k) = {}
    <3>1. UNCHANGED <<listos, bloqueados, clave_bloqueante, bloqueado>>
      BY <2>1, <2>2 DEF DesbloquearEsiPorClave
    <3>. QED BY <1>0, <1>2, <1>3, <2>1, <3>1, ListasIguales DEF Ejecutor
  <2>3. CASE Esperando(k) # {}
    <3>1. PICK w \in Esis : w \in ToSet(bloqueados) /\ BloqueadoAListo(w)
      BY <1>0, <2>1, <2>3, Despertado
    <3>2. Listas'
      BY <1>0, <1>2, <2>1, <3>1, ListasDespiertan
    <3>3. Ejecutor'
      BY <1>0, <1>1, <1>2, <1>3, <1>4, <2>1 DEF Ejecutor
    <3>. QED BY <3>2, <3>3
  <2>. QED BY <2>2, <2>3
<1>. QED BY <1>5, <1>6, <1>7 DEF Soporte

\* terminar_esi wakes others, and takes its victim out of ejecutando.
LEMMA TerminarListas ==
    ASSUME InvListas, TerminarEsi, UNCHANGED <<varsEsi, varsCoord>>
    PROVE  Listas' /\ Ejecutor'
<1>0. InvTipos /\ InvVuelta /\ Listas /\ Ejecutor /\ PlanificadorTypeOK
  BY DEF InvListas, InvPosesion, InvCandados, InvPedidos, InvVuelta, InvSoporte, InvCuenta,
     InvTipos, TypeOK
<1>1. terminando.paso \in ConVictima
  BY <1>0 DEF TerminarEsi, TerminarDesbloquear, TerminarEliminar, TerminarSiguientePaso,
     TerminarLiberar, ConVictima
<1>2. PICK v \in Esis :
         /\ v = terminando.victima /\ terminando.origen = "ejecutando" /\ v \in ToSet(ejecutando)
         /\ v = esi_a_ejecutar
  BY <1>0, <1>1 DEF Ejecutor, InvTipos, PunterosReales
<1>3. pc = "espera_respuesta" /\ terminando # Nadie /\ mutex_listas = "planificar"
  <2>1. terminando # Nadie
    BY <1>1 DEF Nadie, ConVictima
  <2>. QED BY <1>0, <2>1, SoloPlanificar
<1>4. v \notin ToSet(bloqueados) /\ v \notin ToSet(listos) /\ ToSet(ejecutando) = {v}
  BY <1>0, <1>2 DEF Listas, Ejecutor
<1>5. CASE TerminarDesbloquear \/ TerminarEliminar \/ TerminarSiguientePaso
  <2>1. /\ UNCHANGED <<ejecutando, memoria, mutex_listas, pc, esi_a_ejecutar>>
        /\ terminando'.victima = v /\ terminando'.origen = "ejecutando"
    BY <1>0, <1>2, <1>5, AvanzarTipo DEF TerminarDesbloquear, TerminarEliminar,
       TerminarSiguientePaso, PlanificadorTypeOK, listas, campos
  <2>2. \A f \in Esis : Legible(f)' <=> Legible(f)
    BY <2>1 DEF Legible
  <2>3. \/ UNCHANGED <<listos, bloqueados, clave_bloqueante, bloqueado>>
        \/ \E w \in Esis : w \in ToSet(bloqueados) /\ BloqueadoAListo(w)
    <3>1. CASE TerminarDesbloquear
      <4>0. PICK k : k = claves_esi[v][terminando.i]
        OBVIOUS
      <4>1. DesbloquearEsiPorClave(k)
        BY <1>2, <3>1, <4>0 DEF TerminarDesbloquear
      <4>2. CASE Esperando(k) = {}
        BY <4>1, <4>2 DEF DesbloquearEsiPorClave
      <4>3. CASE Esperando(k) # {}
        BY <1>0, <4>1, <4>3, Despertado
      <4>. QED BY <4>2, <4>3
    <3>2. CASE ~TerminarDesbloquear
      BY <1>5, <3>2 DEF TerminarEliminar, TerminarSiguientePaso, listas, campos
    <3>. QED BY <3>1, <3>2
  <2>4. CASE UNCHANGED <<listos, bloqueados, clave_bloqueante, bloqueado>>
    BY <1>0, <1>2, <2>1, <2>2, <2>4, ListasIguales DEF Ejecutor
  <2>5. ASSUME NEW w \in Esis, w \in ToSet(bloqueados), BloqueadoAListo(w)
        PROVE  Listas' /\ Ejecutor'
    <3>1. Listas'
      BY <1>0, <2>1, <2>5, ListasDespiertan
    <3>2. Ejecutor'
      BY <1>0, <1>2, <1>3, <1>4, <2>1, <2>2 DEF Ejecutor
    <3>. QED BY <3>1, <3>2
  <2>. QED BY <2>3, <2>4, <2>5
<1>6. CASE TerminarLiberar
  <2>1. /\ ejecutando' = Quitar(ejecutando, v)
        /\ memoria' = [memoria EXCEPT ![v] = "liberada"]
        /\ clave_bloqueante' = [clave_bloqueante EXCEPT ![v] = NULL]
        /\ mutex_listas' = "libre" /\ terminando' = Nadie /\ pc' = "inicio"
        /\ UNCHANGED <<listos, bloqueados, bloqueado, esi_a_ejecutar>>
    BY <1>2, <1>3, <1>6 DEF TerminarLiberar
  <2>2. /\ ToSet(ejecutando') = {} /\ IsInjective(ejecutando')
    <3>1. ejecutando \in Seq(Esis) /\ IsInjective(ejecutando)
      BY <1>0 DEF PlanificadorTypeOK, Listas
    <3>. QED BY <1>4, <2>1, <3>1, SacarInyectiva DEF Quitar
  <2>3. /\ ~Legible(v)' /\ clave_bloqueante'[v] = NULL
        /\ \A f \in Esis : f # v => /\ Legible(f)' <=> Legible(f)
                                    /\ clave_bloqueante'[f] = clave_bloqueante[f]
    BY <1>0, <2>1 DEF Legible, PlanificadorTypeOK
  <2>4. ASSUME NEW f \in Esis
        PROVE  /\ Legible(f)' <=>
                     f \in ToSet(listos') \cup ToSet(ejecutando') \cup ToSet(bloqueados')
               /\ clave_bloqueante'[f] # NULL <=> f \in ToSet(bloqueados')
               /\ f \in ToSet(bloqueados') => bloqueado'[f]
               /\ BloqueadoEnFalso /\ bloqueado'[f] => f \in ToSet(bloqueados')
    <3>1. CASE f = v
      BY <1>0, <1>4, <2>1, <2>2, <2>3, <3>1 DEF Listas
    <3>2. CASE f # v
      BY <1>0, <1>4, <2>1, <2>2, <2>3, <3>2 DEF Listas
    <3>. QED BY <3>1, <3>2
  <2>5. Listas'
    BY <1>0, <2>1, <2>2, <2>4 DEF Listas
  <2>6. Ejecutor'
    BY <1>0, <1>2, <2>1, <2>2, <2>3 DEF Ejecutor, Nadie, ConVictima
  <2>. QED BY <2>5, <2>6
<1>. QED BY <1>5, <1>6 DEF TerminarEsi

\* The console pauses and continues, and a new ESI is ready.
LEMMA OtrosListas ==
    ASSUME InvListas, UNCHANGED <<varsEsi, varsCoord>>,
           Consola \/ UsoIndebido \/ \E e \in Esis : AgregarNuevoEsi(e)
    PROVE  Listas' /\ Ejecutor'
<1>0. InvTipos /\ InvVuelta /\ Listas /\ Ejecutor /\ PlanificadorTypeOK /\ SinOrdenes
  BY DEF InvListas, InvPosesion, InvCandados, InvPedidos, InvVuelta, InvSoporte, InvCuenta,
     InvTipos, TypeOK
<1>1. Consola => ConsolaPausar \/ ConsolaContinuar
  <2>1. ~ConsolaSemWait
    BY <1>0, SoloPlanificar DEF ConsolaSemWait
  <2>. QED BY <1>0, <2>1 DEF Consola, SinOrdenes, Comando, ConsolaKill, ConsolaBloquearEjecutando,
       ConsolaBloquearListo, ConsolaDesbloquear
<1>2. CASE Consola \/ UsoIndebido
  <2>1. UNCHANGED <<listos, ejecutando, bloqueados, clave_bloqueante, bloqueado, memoria,
                    esi_a_ejecutar, pc, terminando, mutex_listas>>
    BY <1>1, <1>2 DEF ConsolaPausar, ConsolaContinuar, UsoIndebido, varsPlan, listas, campos, hilos
  <2>2. \A e \in Esis : Legible(e)' <=> Legible(e)
    BY <2>1 DEF Legible
  <2>. QED BY <1>0, <2>1, <2>2, ListasIguales DEF Ejecutor
<1>3. ASSUME NEW e \in Esis, AgregarNuevoEsi(e) PROVE Listas' /\ Ejecutor'
  <2>0. PICK b \in BloqueadoInicial : bloqueado' = [bloqueado EXCEPT ![e] = b]
    BY <1>3 DEF AgregarNuevoEsi
  <2>1. /\ memoria[e] = "sin_crear" /\ memoria' = [memoria EXCEPT ![e] = "viva"]
        /\ listos' = Append(listos, e)
        /\ UNCHANGED <<ejecutando, bloqueados, clave_bloqueante, mutex_listas, pc, terminando,
                       esi_a_ejecutar>>
    BY <1>3 DEF AgregarNuevoEsi, hilos
  <2>2. ~Legible(e) /\ e \notin ToSet(listos) \cup ToSet(ejecutando) \cup ToSet(bloqueados)
    BY <1>0, <2>1 DEF Listas, Legible
  <2>3. listos \in Seq(Esis) /\ IsInjective(listos)
    BY <1>0 DEF PlanificadorTypeOK, Listas
  <2>4. ToSet(listos') = ToSet(listos) \cup {e} /\ IsInjective(listos')
    BY <2>1, <2>2, <2>3, AgregarTipo, AgregarInyectiva
  <2>5. /\ Legible(e)' /\ (BloqueadoEnFalso => bloqueado'[e] = FALSE)
        /\ \A f \in Esis : f # e => /\ Legible(f)' <=> Legible(f)
                                    /\ bloqueado'[f] = bloqueado[f]
    <3>1. b \in BOOLEAN /\ (BloqueadoEnFalso => b = FALSE)
      BY PlanificadorAssumption DEF BloqueadoEnFalso
    <3>. QED BY <1>0, <2>0, <2>1, <3>1 DEF Legible, PlanificadorTypeOK
  <2>6. ASSUME NEW f \in Esis
        PROVE  /\ Legible(f)' <=>
                     f \in ToSet(listos') \cup ToSet(ejecutando') \cup ToSet(bloqueados')
               /\ clave_bloqueante'[f] # NULL <=> f \in ToSet(bloqueados')
               /\ f \in ToSet(bloqueados') => bloqueado'[f]
               /\ BloqueadoEnFalso /\ bloqueado'[f] => f \in ToSet(bloqueados')
    <3>1. CASE f = e
      BY <1>0, <2>1, <2>2, <2>4, <2>5, <3>1 DEF Listas
    <3>2. CASE f # e
      BY <1>0, <2>1, <2>4, <2>5, <3>2 DEF Listas
    <3>. QED BY <3>1, <3>2
  <2>7. Listas'
    BY <1>0, <2>1, <2>2, <2>4, <2>6 DEF Listas
  <2>8. Ejecutor'
    <3>1. e # esi_a_ejecutar
      BY <1>0, <2>1 DEF Ejecutor
    <3>2. \A f \in Esis : memoria'[f] = "sin_crear" => memoria[f] = "sin_crear"
      BY <1>0, <2>1 DEF PlanificadorTypeOK
    <3>. QED BY <1>0, <2>1, <2>5, <3>1, <3>2 DEF Ejecutor
  <2>. QED BY <2>7, <2>8
<1>. QED BY <1>2, <1>3

\* An ESI that has been told that its key is locked answers that all went well.
LEMMA EsiBloqueo ==
    ASSUME InvListas, EsiNext, UNCHANGED <<varsPlan, varsCoord>>
    PROVE  BloqueoEnCurso' /\ Negadas'
<1>0. /\ InvVuelta /\ InvTipos /\ BloqueoEnCurso /\ GuionServido /\ Negadas
      /\ coordAEsi \in [Esis -> Seq(Resultados)] /\ esiAPlan \in [Esis -> Seq(Respuestas)]
      /\ fase \in [Esis -> Fases] /\ resultado \in [Esis -> {"EJECUCION_CORRECTA", "EJECUCION_FALLO"}]
  BY DEF InvListas, InvPosesion, InvCandados, InvPedidos, InvVuelta, InvSoporte, InvCuenta,
     InvTipos, TypeOK,
     ProtocoloTypeOK, EsiTypeOK
<1>1. PICK e \in Esis :
         EsiRecibirOrden(e) \/ EsiEmpezar(e) \/ EsiPedirOperacion(e) \/ EsiLineaInvalida(e)
         \/ EsiFinDeGuion(e) \/ EsiRecibirResultado(e) \/ EsiContestar(e)
         \/ EsiFinInstruccion(e) \/ EsiFinInterrupcion(e)
  BY <1>0 DEF EsiNext, EsiCtrlC, InvVuelta, SinCtrlC
<1>2. UNCHANGED <<coordAPlan, planACoord>>
  BY <1>1 DEF EsiRecibirOrden, EsiEmpezar, EsiPedirOperacion, EsiLineaInvalida, EsiFinDeGuion,
     EsiRecibirResultado, EsiContestar, EsiFinInstruccion, EsiFinInterrupcion, canales
<1>3. UNCHANGED <<hilo, pedido, claves_bloqueadas, bloqueados, pc, terminando, esi_a_ejecutar,
                  sem_planificador, mensaje_planificador>>
  BY DEF varsPlan, varsCoord, listas, hilos
<1>4. Negadas'
  BY <1>0, <1>2, <1>3 DEF Negadas, Negada, Contestado
<1>5. SUFFICES ASSUME NEW f \in Esis, Aguardado(f)', f \in ToSet(bloqueados)
               PROVE  YaBloqueado(f)'
  BY <1>3, <1>4 DEF BloqueoEnCurso
<1>6. YaBloqueado(f)
  BY <1>0, <1>3, <1>5 DEF BloqueoEnCurso, Aguardado
<1>7. CASE hilo[f] = "orden_esi" /\ coordAPlan = <<>>
  BY <1>2, <1>3, <1>7 DEF YaBloqueado
<1>8. CASE f # e
  <2>1. UNCHANGED Local(f)
    BY <1>0, <1>1, <1>8, OtrosIgual
  <2>. QED BY <1>2, <1>6, <2>1 DEF Local, YaBloqueado, Resuelta, PorContestar, Contestada,
              Conexiones, EntreOrdenes
<1>9. CASE f = e /\ Resuelta(e) /\ coordAEsi[e] = <<"CLAVE_YA_BLOQUEADA">>
  <2>0. /\ fase[e] = "espera_coord" /\ hilo[e] = "recibe"
        /\ planAEsi[e] = <<>> /\ esiAPlan[e] = <<>> /\ esiACoord[e] = <<>>
    BY <1>9, Mensajes DEF Resuelta, Conexiones
  <2>1. EsiRecibirResultado(e)
    BY <1>1, <2>0 DEF EsiRecibirOrden, EsiEmpezar, EsiPedirOperacion, EsiLineaInvalida,
       EsiFinDeGuion, EsiContestar, EsiFinInstruccion, EsiFinInterrupcion, PasarA
  <2>2. guion[e][linea[e]].op = "GET"
    BY <1>0, <1>9, <2>0 DEF GuionServido, GuionDe, Instruccion
  <2>3. Head(coordAEsi[e]) = "CLAVE_YA_BLOQUEADA"
    BY <1>9, Mensajes
  <2>4. resultado'[e] = "EJECUCION_CORRECTA"
    BY <1>0, <2>1, <2>2, <2>3 DEF EsiRecibirResultado
  <2>5. coordAEsi'[e] = <<>>
    BY <1>0, <1>9, <2>1, Mensajes DEF EsiRecibirResultado, Recibido
  <2>6. fase'[e] = "contestar" /\ planAEsi'[e] = <<>> /\ esiAPlan'[e] = <<>> /\ esiACoord'[e] = <<>>
    BY <1>0, <2>0, <2>1 DEF EsiRecibirResultado, PasarA
  <2>. QED BY <1>3, <1>9, <2>0, <2>4, <2>5, <2>6 DEF YaBloqueado, PorContestar, Conexiones
<1>10. CASE f = e /\ PorContestar(e) /\ resultado[e] = "EJECUCION_CORRECTA"
  <2>0. /\ fase[e] = "contestar" /\ hilo[e] = "recibe" /\ Conexiones(e, <<>>, <<>>, <<>>, <<>>)
    BY <1>10 DEF PorContestar
  <2>1. EsiContestar(e)
    BY <1>1, <2>0 DEF EsiRecibirOrden, EsiEmpezar, EsiPedirOperacion, EsiLineaInvalida,
       EsiFinDeGuion, EsiRecibirResultado, EsiFinInstruccion, EsiFinInterrupcion, PasarA
  <2>2. /\ fase'[e] = "contesto" /\ esiAPlan'[e] = <<"EJECUCION_CORRECTA">>
        /\ UNCHANGED <<planAEsi, esiACoord, coordAEsi>>
    BY <1>0, <1>10, <2>0, <2>1, Mensajes DEF EsiContestar, PasarA, Enviar, Conexiones
  <2>. QED BY <1>3, <1>10, <2>0, <2>2 DEF YaBloqueado, Contestada, EntreOrdenes, Conexiones
<1>11. CASE f = e /\ Contestada(e)
  <2>0. /\ fase[e] \in {"contesto", "espera_orden"} /\ hilo[e] = "recibe"
        /\ Conexiones(e, <<>>, <<"EJECUCION_CORRECTA">>, <<>>, <<>>)
    BY <1>11 DEF Contestada, EntreOrdenes
  <2>1. EsiFinInstruccion(e)
    BY <1>1, <2>0 DEF EsiRecibirOrden, EsiEmpezar, EsiPedirOperacion, EsiLineaInvalida,
       EsiFinDeGuion, EsiRecibirResultado, EsiContestar, EsiFinInterrupcion, PasarA, Conexiones
  <2>2. fase'[e] = "espera_orden" /\ UNCHANGED <<planAEsi, esiAPlan, esiACoord, coordAEsi>>
    BY <1>0, <2>1 DEF EsiFinInstruccion, PasarA, canales
  <2>. QED BY <1>3, <1>11, <2>0, <2>2 DEF YaBloqueado, Contestada, EntreOrdenes, Conexiones
<1>. QED BY <1>6, <1>7, <1>8, <1>9, <1>10, <1>11 DEF YaBloqueado

\* While a thread is in an operation the others only receive.
LEMMA SoloRecibe ==
    ASSUME InvVuelta, NEW e \in Esis, NEW f \in Esis, f # e, hilo[f] \in EnOperacion,
           \/ CoordRecibir(e) \/ CoordDesconexion(e) \/ CoordClaveLarga(e)
           \/ CoordConsultar(e) \/ CoordPermitido(e) \/ CoordClaveBloqueada(e)
           \/ CoordClaveAjena(e) \/ CoordGuardar(e) \/ CoordSetear(e) \/ CoordStorear(e)
           \/ CoordInstanciaFalla(e) \/ CoordInstanciaCalla(e) \/ CoordOrdenEjecutada(e)
    PROVE  UNCHANGED <<coordAPlan, planACoord, sem_planificador, mensaje_planificador>>
<1>1. mutex_mensaje = f /\ hilo[e] \notin EnOperacion /\ f # NULL
  BY ProtocoloAssumption DEF InvVuelta, InvSoporte, UnaOperacion
<1>2. CoordRecibir(e)
  BY <1>1 DEF CoordDesconexion, CoordClaveLarga, CoordConsultar, CoordPermitido,
     CoordClaveBloqueada, CoordClaveAjena, CoordGuardar, CoordSetear, CoordStorear,
     CoordInstanciaFalla, CoordInstanciaCalla, CoordOrdenEjecutada, EnOperacion
<1>. QED BY <1>2 DEF CoordRecibir

\* The ESI is told that its key is locked after soporte has blocked it, which it
\* is ordered to do when soporte has said that the key is locked.
LEMMA CoordBloqueo ==
    ASSUME InvListas, CoordinadorNext, UNCHANGED <<varsPlan, varsEsi>>
    PROVE  BloqueoEnCurso' /\ Negadas'
<1>0. /\ InvVuelta /\ InvTipos /\ BloqueoEnCurso /\ Negadas /\ UnaOperacion /\ SoporteEnVuelo
      /\ \A f \in Esis : VueltaDe(f)
  BY DEF InvListas, InvPosesion, InvCandados, InvPedidos, InvVuelta, InvSoporte, InvCuenta, Vueltas
<1>t. /\ hilo \in [Esis -> Hilos] /\ mutex_mensaje \in Esis \cup {NULL} /\ NULL \notin Esis
      /\ sem_planificador \in Nat /\ pedido \in [Esis -> PedidosEsi]
      /\ coordAEsi \in [Esis -> Seq(Resultados)]
  BY <1>0, ProtocoloAssumption DEF InvTipos, TypeOK, CoordinadorTypeOK, ProtocoloTypeOK
<1>1. UNCHANGED <<claves_bloqueadas, bloqueados, pc, terminando, esi_a_ejecutar, fase, resultado>>
  BY DEF varsPlan, varsEsi, listas, hilos
<1>2. CASE CoordEscucharPlanificador
  <2>1. /\ planACoord # <<>> /\ planACoord' = Tail(planACoord)
        /\ mensaje_planificador' = Head(planACoord)
        /\ UNCHANGED <<hilo, pedido, coordAPlan, planAEsi, esiAPlan, esiACoord, coordAEsi>>
    BY <1>2 DEF CoordEscucharPlanificador
  <2>2. ASSUME NEW f \in Esis, NEW q, Contestado(f, q)' PROVE Contestado(f, q)
    <3>1. hilo[f] = "consulta"
      BY <2>1, <2>2 DEF Contestado
    <3>2. PICK r : planACoord = <<r>>
      BY <1>0, <2>1, <3>1 DEF SoporteEnVuelo, PedidoEnVuelo, RespuestaEnVuelo, RespuestaDejada,
         EnEspera
    <3>3. planACoord' = <<>> /\ mensaje_planificador' = r
      BY <2>1, <3>2, Mensajes
    <3>. QED BY <2>2, <3>1, <3>2, <3>3, Mensajes DEF Contestado
  <2>3. Negadas'
    BY <1>0, <1>1, <2>1, <2>2 DEF Negadas, Negada
  <2>4. BloqueoEnCurso'
    BY <1>0, <1>1, <2>1 DEF BloqueoEnCurso, Aguardado, YaBloqueado, Resuelta, PorContestar,
       Contestada, Conexiones, EntreOrdenes
  <2>. QED BY <2>3, <2>4
<1>3. ASSUME NEW e \in Esis,
         \/ CoordRecibir(e) \/ CoordDesconexion(e) \/ CoordClaveLarga(e)
         \/ CoordConsultar(e) \/ CoordPermitido(e) \/ CoordClaveBloqueada(e)
         \/ CoordClaveAjena(e) \/ CoordGuardar(e) \/ CoordSetear(e) \/ CoordStorear(e)
         \/ CoordInstanciaFalla(e) \/ CoordInstanciaCalla(e) \/ CoordOrdenEjecutada(e)
      PROVE BloqueoEnCurso' /\ Negadas'
  <2>1. ASSUME NEW f \in Esis, f # e PROVE UNCHANGED Local(f)
    BY <1>0, <1>3, <2>1, OtrosHilos
  <2>2. ASSUME NEW f \in Esis, f # e, hilo[f] \in EnOperacion
        PROVE  UNCHANGED <<coordAPlan, planACoord, sem_planificador, mensaje_planificador>>
    BY <1>0, <1>3, <2>2, SoloRecibe
  <2>3. Negadas'
    <3>1. SUFFICES ASSUME NEW f \in Esis, Negada(f)'
                   PROVE  pedido'[f].clave \in ToSet(claves_bloqueadas)
      BY <1>1 DEF Negadas
    <3>2. hilo'[f] \in {"consulta", "orden_esi"}
      BY <3>1 DEF Negada, Contestado
    <3>3. CASE f # e
      <4>1. hilo'[f] = hilo[f] /\ pedido'[f] = pedido[f]
        BY <2>1, <3>3 DEF Local
      <4>2. hilo[f] \in EnOperacion
        BY <3>2, <4>1 DEF EnOperacion
      <4>3. UNCHANGED <<coordAPlan, planACoord, sem_planificador, mensaje_planificador>>
        BY <2>2, <3>3, <4>2
      <4>4. Negada(f)
        BY <3>1, <4>1, <4>3 DEF Negada, Contestado
      <4>. QED BY <1>0, <4>1, <4>4 DEF Negadas
    <3>4. CASE f = e
      <4>1. CoordConsultar(e) \/ CoordClaveBloqueada(e)
        BY <1>t, <1>3, <3>2, <3>4 DEF CoordRecibir, CoordDesconexion, CoordClaveLarga,
           CoordPermitido, CoordClaveAjena, CoordGuardar, CoordSetear, CoordStorear,
           CoordInstanciaFalla, CoordInstanciaCalla, CoordOrdenEjecutada, Cumplir, Fallar
      <4>2. CASE CoordConsultar(e)
        <5>1. /\ mutex_mensaje = NULL /\ hilo'[e] = "consulta"
              /\ UNCHANGED <<planACoord, sem_planificador>>
          BY <1>t, <4>2 DEF CoordConsultar
        <5>2. planACoord = <<>> /\ sem_planificador = 0
          BY <1>0, <1>t, <5>1 DEF UnaOperacion, SoporteEnVuelo, NadaEnVuelo, EnEspera, EnOperacion
        <5>. QED BY <3>1, <3>4, <5>1, <5>2, Mensajes DEF Negada, Contestado
      <4>3. CASE CoordClaveBloqueada(e)
        <5>1. /\ hilo[e] = "consulta" /\ sem_planificador > 0 /\ pedido' = pedido
              /\ mensaje_planificador = "RESPUESTA_CLAVE_BLOQUEADA"
          BY <4>3 DEF CoordClaveBloqueada, EsperarPlanificador
        <5>2. sem_planificador = 1
          BY <1>0, <5>1 DEF SoporteEnVuelo, PedidoEnVuelo, RespuestaEnVuelo, RespuestaDejada,
             EnEspera
        <5>. QED BY <1>0, <3>4, <5>1, <5>2 DEF Negadas, Negada, Contestado
      <4>. QED BY <4>1, <4>2, <4>3
    <3>. QED BY <3>3, <3>4
  <2>4. BloqueoEnCurso'
    <3>1. SUFFICES ASSUME NEW f \in Esis, Aguardado(f)', f \in ToSet(bloqueados)
                   PROVE  YaBloqueado(f)'
      BY <1>1 DEF BloqueoEnCurso
    <3>2. YaBloqueado(f)
      BY <1>0, <1>1, <3>1 DEF BloqueoEnCurso, Aguardado
    <3>3. CASE f # e
      <4>1. UNCHANGED Local(f)
        BY <2>1, <3>3
      <4>2. hilo[f] = "orden_esi" => UNCHANGED coordAPlan
        BY <2>2, <3>3 DEF EnOperacion
      <4>. QED BY <3>2, <4>1, <4>2 DEF Local, YaBloqueado, Resuelta, PorContestar, Contestada,
                  Conexiones, EntreOrdenes
    <3>4. CASE f = e /\ hilo[e] = "orden_esi"
      <4>1. CoordOrdenEjecutada(e)
        BY <1>3, <3>4 DEF CoordRecibir, CoordDesconexion, CoordClaveLarga, CoordConsultar,
           CoordPermitido, CoordClaveBloqueada, CoordClaveAjena, CoordGuardar, CoordSetear,
           CoordStorear, CoordInstanciaFalla, CoordInstanciaCalla
      <4>2. Servida(e)
        BY <1>0, <3>4, SoloServida DEF EnServicio, EnOperacion
      <4>3. /\ coordAEsi'[e] = <<"CLAVE_YA_BLOQUEADA">> /\ hilo'[e] = "recibe"
            /\ UNCHANGED <<planAEsi, esiAPlan, esiACoord>>
        BY <1>t, <3>4, <4>1, <4>2, Mensajes DEF CoordOrdenEjecutada, Cumplir, Enviar,
           RespuestaTrasOrden, Servida, Conexiones
      <4>. QED BY <1>1, <3>4, <4>2, <4>3 DEF YaBloqueado, Resuelta, Servida, Conexiones, Resultados
    <3>5. CASE f = e /\ hilo[e] # "orden_esi"
      <4>1. hilo[e] = "recibe" /\ esiACoord[e] = <<>>
        BY <3>2, <3>5, Mensajes DEF YaBloqueado, Resuelta, PorContestar, Contestada, Conexiones,
           EntreOrdenes
      <4>2. FALSE
        BY <1>3, <4>1 DEF CoordRecibir, CoordDesconexion, CoordClaveLarga, CoordConsultar,
           CoordPermitido, CoordClaveBloqueada, CoordClaveAjena, CoordGuardar, CoordSetear,
           CoordStorear, CoordInstanciaFalla, CoordInstanciaCalla, CoordOrdenEjecutada
      <4>. QED BY <4>2
    <3>. QED BY <3>3, <3>4, <3>5
  <2>. QED BY <2>3, <2>4
<1>. QED BY <1>2, <1>3 DEF CoordinadorNext

\* planificar orders an instruction of an ESI that is not blocked, soporte blocks
\* the one it works for, and nobody gives back a key that a GET has found locked.
LEMMA PlanBloqueo ==
    ASSUME InvListas, PlanificadorNext, UNCHANGED <<varsEsi, varsCoord>>
    PROVE  BloqueoEnCurso' /\ Negadas'
<1>0. /\ InvVuelta /\ InvTipos /\ BloqueoEnCurso /\ Negadas /\ UnaOperacion /\ SoporteEnVuelo
      /\ Listas /\ Ejecutor /\ PlanificadorTypeOK /\ SinOrdenes
  BY DEF InvListas, InvPosesion, InvCandados, InvPedidos, InvVuelta, InvSoporte, InvCuenta,
     InvTipos, TypeOK
<1>1. UNCHANGED <<hilo, pedido, sem_planificador, mensaje_planificador, fase, resultado>>
  BY DEF varsEsi, varsCoord
<1>p. /\ mutex_listas # "planificar" => terminando = Nadie /\ pc # "espera_respuesta"
      /\ pc # "espera_respuesta" => terminando = Nadie /\ mutex_listas = "libre"
      /\ terminando.paso # "sem_wait"
  BY <1>0, SoloPlanificar
<1>2. CASE Soporte
  <2>1. PICK e \in Esis :
              /\ hilo[e] \in EnEspera /\ esi_a_ejecutar = e /\ Servida(e)
              /\ clave_pedida = pedido[e].clave /\ Head(coordAPlan).head = OrdenDebida(e)
              /\ planACoord = <<>> /\ sem_planificador = 0 /\ coordAPlan' = <<>>
              /\ \A f \in Esis : hilo[f] \in EnOperacion => f = e
              /\ e \in ToSet(ejecutando) /\ e \notin ToSet(bloqueados)
    BY <1>2, SoporteEjecuta
  <2>2. Negadas'
    <3>1. SUFFICES ASSUME NEW f \in Esis, Negada(f)'
                   PROVE  pedido[f].clave \in ToSet(claves_bloqueadas')
      BY <1>1 DEF Negadas
    <3>2. hilo[f] = "consulta" /\ planACoord' = <<"RESPUESTA_CLAVE_BLOQUEADA">>
      BY <1>1, <2>1, <3>1 DEF Negada, Contestado
    <3>3. f = e
      BY <2>1, <3>2 DEF EnOperacion
    <3>4. SoporteClaveLibre
      <4>1. planACoord' # <<"ORDEN_EJECUTADA">> /\ ~SoporteClaveDeEsi
        BY <2>1, <3>2, Mensajes DEF SoporteClaveDeEsi, Atender
      <4>. QED BY <1>2, <2>1, <4>1, Mensajes DEF Soporte, SoporteBloquearEsi, SoporteBloquearClave,
                  SoporteDesbloquearClave, Atender
    <3>5. clave_pedida \in ToSet(claves_bloqueadas) /\ UNCHANGED claves_bloqueadas
      BY <2>1, <3>2, <3>4, Mensajes DEF SoporteClaveLibre, Atender, varsPlan
    <3>. QED BY <2>1, <3>3, <3>5
  <2>3. BloqueoEnCurso'
    <3>1. SUFFICES ASSUME NEW f \in Esis, Aguardado(f)', f \in ToSet(bloqueados')
                   PROVE  YaBloqueado(f)'
      BY DEF BloqueoEnCurso
    <3>2. UNCHANGED <<esi_a_ejecutar, pc, terminando>>
      BY <1>2 DEF Soporte, SoporteClaveLibre, SoporteBloquearEsi, SoporteBloquearClave,
         SoporteClaveDeEsi, SoporteDesbloquearClave, varsPlan, hilos
    <3>3. f = e
      BY <2>1, <3>1, <3>2 DEF Aguardado
    <3>4. SoporteBloquearEsi
      <4>1. CASE SoporteClaveLibre \/ SoporteBloquearClave \/ SoporteClaveDeEsi
        BY <2>1, <3>1, <3>3, <4>1 DEF SoporteClaveLibre, SoporteBloquearClave, SoporteClaveDeEsi,
           varsPlan, listas
      <4>2. CASE SoporteDesbloquearClave
        <5>0. PICK k : k = clave_pedida
          OBVIOUS
        <5>1. DesbloquearEsiPorClave(k)
          BY <4>2, <5>0 DEF SoporteDesbloquearClave
        <5>2. ToSet(bloqueados') \subseteq ToSet(bloqueados)
          <6>1. CASE Esperando(k) = {}
            BY <5>1, <6>1 DEF DesbloquearEsiPorClave
          <6>2. CASE Esperando(k) # {}
            <7>1. PICK w \in Esis : BloqueadoAListo(w)
              BY <1>0, <5>1, <6>2, Despertado
            <7>2. bloqueados \in Seq(Esis) /\ IsInjective(bloqueados)
              BY <1>0 DEF PlanificadorTypeOK, Listas
            <7>. QED BY <7>1, <7>2, SacarInyectiva DEF BloqueadoAListo, Quitar
          <6>. QED BY <6>1, <6>2
        <5>. QED BY <2>1, <3>1, <3>3, <5>2
      <4>. QED BY <1>2, <4>1, <4>2 DEF Soporte
    <3>5. hilo[e] = "orden_esi"
      <4>1. Head(coordAPlan).head = "BLOQUEAR_ESI"
        BY <3>4 DEF SoporteBloquearEsi, Atender
      <4>. QED BY <2>1, <4>1 DEF OrdenDebida, EnEspera
    <3>. QED BY <1>1, <2>1, <3>3, <3>5 DEF YaBloqueado
  <2>. QED BY <2>2, <2>3
<1>3. CASE ~Soporte
  <2>1. UNCHANGED <<coordAPlan, planACoord>>
    BY <1>3 DEF PlanificadorNext, Planificar, PlanInicio, PlanRevisar, PlanDesalojar,
       PlanDesalojarMutex, PlanDesalojarFin, PlanElegir, PlanEsperaSem, PlanSelPausa,
       PlanSeleccionar, PlanPausa, PlanDespachar, PlanRespuestaCorrecta, PlanRespuestaFinal,
       TerminarEsi, TerminarDesbloquear, TerminarEliminar, TerminarSiguientePaso, TerminarLiberar,
       Consola, ConsolaPausar, ConsolaContinuar, ConsolaSemWait, ConsolaKill,
       ConsolaBloquearEjecutando, ConsolaBloquearListo, ConsolaDesbloquear, UsoIndebido,
       AgregarNuevoEsi, canales
  <2>2. ConsolaSemWait => FALSE
    BY <1>p DEF ConsolaSemWait
  <2>3. Consola => ConsolaPausar \/ ConsolaContinuar
    BY <1>0, <2>2 DEF Consola, SinOrdenes, Comando, ConsolaKill, ConsolaBloquearEjecutando,
       ConsolaBloquearListo, ConsolaDesbloquear
  <2>4. Negadas'
    <3>1. SUFFICES ASSUME NEW f \in Esis, Negada(f)'
                   PROVE  pedido[f].clave \in ToSet(claves_bloqueadas')
      BY <1>1 DEF Negadas
    <3>2. Negada(f)
      BY <1>1, <2>1, <3>1 DEF Negada, Contestado
    <3>3. terminando = Nadie
      BY <1>0, <3>2, ProtegeSoporte DEF Negada, Contestado, SoporteProtegido, EnOperacion
    <3>4. ~TerminarEsi
      BY <3>3 DEF TerminarEsi, TerminarDesbloquear, TerminarEliminar, TerminarSiguientePaso,
         TerminarLiberar, Nadie
    <3>5. UNCHANGED claves_bloqueadas
      BY <1>3, <2>3, <3>4 DEF PlanificadorNext, Planificar, PlanInicio, PlanRevisar, PlanDesalojar,
       PlanDesalojarMutex, PlanDesalojarFin, PlanElegir, PlanEsperaSem, PlanSelPausa,
       PlanSeleccionar, PlanPausa, PlanDespachar, PlanRespuestaCorrecta, PlanRespuestaFinal,
       ConsolaPausar, ConsolaContinuar, UsoIndebido, AgregarNuevoEsi, varsPlan
    <3>. QED BY <1>0, <3>2, <3>5 DEF Negadas
  <2>5. BloqueoEnCurso'
    <3>1. SUFFICES ASSUME NEW f \in Esis, Aguardado(f)', f \in ToSet(bloqueados')
                   PROVE  YaBloqueado(f)'
      BY DEF BloqueoEnCurso
    <3>2. CASE Consola \/ UsoIndebido \/ \E e \in Esis : AgregarNuevoEsi(e)
      <4>1. UNCHANGED <<pc, terminando, esi_a_ejecutar, bloqueados, canales>>
        BY <2>3, <3>2 DEF ConsolaPausar, ConsolaContinuar, UsoIndebido, AgregarNuevoEsi, varsPlan,
           listas, hilos
      <4>2. YaBloqueado(f)
        BY <1>0, <3>1, <4>1 DEF BloqueoEnCurso, Aguardado
      <4>. QED BY <1>1, <4>1, <4>2 DEF canales, YaBloqueado, Resuelta, PorContestar, Contestada,
                  Conexiones, EntreOrdenes
    <3>3. CASE TerminarEsi
      <4>1. terminando.paso \in ConVictima /\ terminando # Nadie
        BY <3>3 DEF TerminarEsi, TerminarDesbloquear, TerminarEliminar, TerminarSiguientePaso,
           TerminarLiberar, Nadie, ConVictima
      <4>2. mutex_listas = "planificar"
        BY <1>p, <4>1
      <4>3. CASE TerminarLiberar
        BY <3>1, <4>2, <4>3 DEF TerminarLiberar, Aguardado
      <4>4. CASE TerminarDesbloquear \/ TerminarEliminar \/ TerminarSiguientePaso
        <5>1. terminando'.paso \in ConVictima
          BY <1>0, <4>1, <4>4, AvanzarTipo DEF TerminarDesbloquear, TerminarEliminar,
             TerminarSiguientePaso, PlanificadorTypeOK, ConVictima
        <5>. QED BY <3>1, <5>1 DEF Aguardado, Nadie, ConVictima
      <4>. QED BY <3>3, <4>3, <4>4 DEF TerminarEsi
    <3>4. CASE Planificar
      <4>1. PlanDespachar
        BY <3>1, <3>4 DEF Aguardado, Planificar, PlanInicio, PlanRevisar, PlanDesalojar,
         PlanDesalojarMutex, PlanDesalojarFin, PlanElegir, PlanEsperaSem, PlanSelPausa,
         PlanSeleccionar, PlanPausa, PlanRespuestaCorrecta, PlanRespuestaFinal, Ir, Nadie,
         EmpezarTerminar
      <4>2. /\ pc = "despachar" /\ Legible(f) /\ esi_a_ejecutar = f /\ UNCHANGED bloqueados
        BY <3>1, <4>1 DEF PlanDespachar, DespachoValido, Aguardado, Ir, listas
      <4>3. f \in ToSet(ejecutando)
        BY <1>0, <4>2 DEF Ejecutor
      <4>. QED BY <1>0, <3>1, <4>2, <4>3 DEF Listas
    <3>. QED BY <1>3, <3>2, <3>3, <3>4 DEF PlanificadorNext
  <2>. QED BY <2>4, <2>5
<1>. QED BY <1>2, <1>3

\* Only soporte gives keys, to an ESI that lives; the end of an ESI takes them.
LEMMA PlanDuenos ==
    ASSUME InvListas, PlanificadorNext
    PROVE  DuenosVivos'
<1>0. InvVuelta /\ DuenosVivos /\ PlanificadorTypeOK /\ Ejecutor /\ SinOrdenes
  BY DEF InvListas, InvPosesion, InvCandados, InvPedidos, InvVuelta, InvSoporte, InvCuenta,
     InvTipos, TypeOK
<1>1. CASE SoporteBloquearClave
  <2>1. PICK e \in Esis : esi_a_ejecutar = e /\ memoria[e] = "viva"
    BY <1>1, SoporteEjecuta DEF Soporte
  <2>2. UNCHANGED memoria /\ \A f \in Esis : f # e => claves_esi'[f] = claves_esi[f]
    BY <1>0, <1>1, <2>1 DEF SoporteBloquearClave, PlanificadorTypeOK
  <2>. QED BY <1>0, <2>1, <2>2 DEF DuenosVivos, Legible
<1>2. CASE SoporteDesbloquearClave
  <2>1. PICK e \in Esis : esi_a_ejecutar = e /\ memoria[e] = "viva"
    BY <1>2, SoporteEjecuta DEF Soporte
  <2>2. UNCHANGED memoria /\ \A f \in Esis : f # e => claves_esi'[f] = claves_esi[f]
    BY <1>0, <1>2, <2>1 DEF SoporteDesbloquearClave, PlanificadorTypeOK
  <2>. QED BY <1>0, <2>1, <2>2 DEF DuenosVivos, Legible
<1>3. CASE TerminarLiberar
  <2>1. PICK v \in Esis : v = terminando.victima
    BY <1>0, <1>3 DEF TerminarLiberar, InvVuelta, InvSoporte, InvCuenta, InvTipos, PunterosReales,
       ConVictima
  <2>2. /\ claves_esi'[v] = <<>>
        /\ \A f \in Esis : f # v => claves_esi'[f] = claves_esi[f] /\ memoria'[f] = memoria[f]
    BY <1>0, <1>3, <2>1 DEF TerminarLiberar, PlanificadorTypeOK
  <2>3. ToSet(claves_esi'[v]) = {}
    BY <2>2 DEF ToSet
  <2>. QED BY <1>0, <2>2, <2>3 DEF DuenosVivos, Legible
<1>4. CASE ~SoporteBloquearClave /\ ~SoporteDesbloquearClave /\ ~TerminarLiberar
  <2>1. UNCHANGED claves_esi
    BY <1>4 DEF PlanificadorNext, Planificar, PlanInicio, PlanRevisar, PlanDesalojar,
       PlanDesalojarMutex, PlanDesalojarFin, PlanElegir, PlanEsperaSem, PlanSelPausa,
       PlanSeleccionar, PlanPausa, PlanDespachar, PlanRespuestaCorrecta, PlanRespuestaFinal,
       TerminarEsi, TerminarDesbloquear, TerminarEliminar, TerminarSiguientePaso,
       Soporte, SoporteClaveLibre, SoporteBloquearEsi, SoporteClaveDeEsi,
       Consola, ConsolaPausar, ConsolaContinuar, ConsolaSemWait, ConsolaKill,
       ConsolaBloquearEjecutando, ConsolaBloquearListo, ConsolaDesbloquear, UsoIndebido,
       AgregarNuevoEsi, campos, varsPlan
  <2>2. \/ UNCHANGED memoria
        \/ \E e : memoria' = [memoria EXCEPT ![e] = "viva"]
        \/ \E e : memoria' = [memoria EXCEPT ![e] = "terminando"]
    BY <1>4 DEF PlanificadorNext, Planificar, PlanInicio, PlanRevisar, PlanDesalojar,
       PlanDesalojarMutex, PlanDesalojarFin, PlanElegir, PlanEsperaSem, PlanSelPausa,
       PlanSeleccionar, PlanPausa, PlanDespachar, PlanRespuestaCorrecta, PlanRespuestaFinal,
       TerminarEsi, TerminarDesbloquear, TerminarEliminar, TerminarSiguientePaso,
       Soporte, SoporteClaveLibre, SoporteBloquearEsi, SoporteClaveDeEsi,
       Consola, ConsolaPausar, ConsolaContinuar, ConsolaSemWait, ConsolaKill,
       ConsolaBloquearEjecutando, ConsolaBloquearListo, ConsolaDesbloquear, UsoIndebido,
       AgregarNuevoEsi, EmpezarTerminar, campos, varsPlan
  <2>3. \A f \in Esis : Legible(f) => Legible(f)'
    BY <1>0, <2>2 DEF Legible, PlanificadorTypeOK
  <2>. QED BY <1>0, <2>1, <2>3 DEF DuenosVivos
<1>. QED BY <1>1, <1>2, <1>3, <1>4

LEMMA PlanRecorrido ==
    ASSUME InvListas, PlanificadorNext
    PROVE  Recorrido'
<1>0. /\ InvVuelta /\ Recorrido /\ PlanificadorTypeOK /\ Ejecutor /\ SinOrdenes
      /\ terminando.paso # "sem_wait"
      /\ \A f \in Esis : Len(claves_esi[f]) \in Nat
  <2>1. InvVuelta /\ Recorrido /\ PlanificadorTypeOK /\ Ejecutor /\ SinOrdenes
    BY DEF InvListas, InvPosesion, InvCandados, InvPedidos, InvVuelta, InvSoporte, InvCuenta,
       InvTipos, TypeOK
  <2>2. \A f \in Esis : claves_esi[f] \in Seq(Claves)
    BY <2>1 DEF PlanificadorTypeOK
  <2>. QED BY <2>1, <2>2, SoloPlanificar, LenProperties
<1>1. CASE TerminarDesbloquear
  <2>1. terminando.i <= Len(claves_esi[terminando.victima]) /\ terminando.victima \in Esis
    BY <1>0, <1>1 DEF TerminarDesbloquear, InvVuelta, InvSoporte, InvCuenta, InvTipos,
       PunterosReales, ConVictima
  <2>2. /\ terminando'.victima = terminando.victima /\ terminando'.i = terminando.i + 1
        /\ terminando.i \in Nat /\ UNCHANGED claves_esi
    BY <1>0, <1>1 DEF TerminarDesbloquear, PlanificadorTypeOK
  <2>3. Len(claves_esi[terminando.victima]) \in Nat
    BY <1>0, <2>1
  <2>. QED BY <1>0, <1>1, <2>1, <2>2, <2>3 DEF Recorrido, TerminarDesbloquear
<1>2. CASE PlanRespuestaFinal
  <2>1. PICK e \in Esis : e = esi_a_ejecutar
    BY <1>0, <1>2 DEF PlanRespuestaFinal, InvVuelta, InvSoporte, InvCuenta, InvTipos,
       PunterosReales
  <2>2. terminando'.i = 1 /\ terminando'.victima = e /\ UNCHANGED claves_esi
    BY <1>2, <2>1 DEF PlanRespuestaFinal, EmpezarTerminar
  <2>. QED BY <1>0, <2>2 DEF Recorrido
<1>3. CASE TerminarEliminar \/ TerminarSiguientePaso \/ TerminarLiberar
  <2>1. terminando'.paso # "desbloquear"
    <3>1. CASE TerminarEliminar
      BY <1>0, <3>1, AvanzarTipo DEF TerminarEliminar, PlanificadorTypeOK
    <3>2. CASE TerminarSiguientePaso
      BY <1>0, <3>2 DEF TerminarSiguientePaso, PlanificadorTypeOK
    <3>3. CASE TerminarLiberar
      BY <3>3 DEF TerminarLiberar, Nadie
    <3>. QED BY <1>3, <3>1, <3>2, <3>3
  <2>. QED BY <2>1 DEF Recorrido
<1>4. CASE Soporte
  <2>1. terminando = Nadie
    BY <1>4, SoporteEjecuta
  <2>2. UNCHANGED terminando
    BY <1>4 DEF Soporte, SoporteClaveLibre, SoporteBloquearEsi, SoporteBloquearClave,
       SoporteClaveDeEsi, SoporteDesbloquearClave, varsPlan, hilos
  <2>. QED BY <2>1, <2>2 DEF Recorrido, Nadie
<1>5. CASE ~TerminarEsi /\ ~PlanRespuestaFinal /\ ~Soporte
  <2>1. ~ConsolaSemWait
    BY <1>0 DEF ConsolaSemWait
  <2>2. UNCHANGED <<terminando, claves_esi>>
    BY <1>0, <1>5, <2>1 DEF PlanificadorNext, Planificar, PlanInicio, PlanRevisar, PlanDesalojar,
       PlanDesalojarMutex, PlanDesalojarFin, PlanElegir, PlanEsperaSem, PlanSelPausa,
       PlanSeleccionar, PlanPausa, PlanDespachar, PlanRespuestaCorrecta,
       Consola, ConsolaPausar, ConsolaContinuar, ConsolaKill, Comando, SinOrdenes,
       ConsolaBloquearEjecutando, ConsolaBloquearListo, ConsolaDesbloquear, UsoIndebido,
       AgregarNuevoEsi, campos, hilos, varsPlan
  <2>. QED BY <1>0, <2>2 DEF Recorrido
<1>. QED BY <1>1, <1>2, <1>3, <1>4, <1>5 DEF TerminarEsi

\* The first of a list that has been sorted was in it.
LEMMA PrimeroDeReordenada ==
    ASSUME NEW S, NEW lista \in Seq(S), lista # <<>>, NEW orden \in Reordenadas(lista)
    PROVE  /\ orden \in Seq(S) /\ orden # <<>>
           /\ ToSet(orden) \subseteq ToSet(lista) /\ Head(orden) \in ToSet(lista)
<1>1. orden \in Seq(S) /\ orden # <<>>
  BY ReordenadasTipo, EmptySeq
<1>2. ToSet(orden) \subseteq ToSet(lista)
  <2>1. PICK p \in [DOMAIN lista -> DOMAIN lista] : orden = [i \in DOMAIN lista |-> lista[p[i]]]
    BY DEF Reordenadas
  <2>. QED BY <2>1 DEF ToSet
<1>. QED BY <1>1, <1>2, CabezaTipo

\* planificar never works with an ESI that has been set aside: the others that it
\* picks are those of listos.
LEMMA PlanificarApartado ==
    ASSUME InvCandados, Planificar, NEW e \in Esis, Apartado(e)
    PROVE  Apartado(e)'
<1>0. InvVuelta /\ PlanificadorTypeOK /\ PunterosReales
  BY DEF InvCandados, InvPedidos, InvVuelta, InvSoporte, InvCuenta, InvTipos, TypeOK
<1>1. /\ listos \in Seq(Esis) /\ ejecutando \in Seq(Esis)
      /\ UNCHANGED <<bloqueados, bloqueado>>
  BY <1>0 DEF PlanificadorTypeOK, Planificar, PlanInicio, PlanRevisar, PlanDesalojar, PlanDesalojarMutex,
     PlanDesalojarFin, PlanElegir, PlanEsperaSem, PlanSelPausa, PlanSeleccionar, PlanPausa,
     PlanDespachar, PlanRespuestaCorrecta, PlanRespuestaFinal, listas, campos
<1>2. CASE \/ PlanInicio \/ PlanRevisar \/ PlanDesalojar \/ PlanDesalojarFin \/ PlanElegir
           \/ PlanEsperaSem \/ PlanSelPausa \/ PlanPausa \/ PlanDespachar \/ PlanRespuestaCorrecta
  <2>1. UNCHANGED <<listos, ejecutando, memoria, esi_a_ejecutar>>
    BY <1>2 DEF PlanInicio, PlanRevisar, PlanDesalojar, PlanDesalojarFin, PlanElegir,
       PlanEsperaSem, PlanSelPausa, PlanPausa, PlanDespachar, PlanRespuestaCorrecta, listas, campos
  <2>2. e = esi_a_ejecutar => pc' \in {"espera_sem", "sel_pausa", "seleccionar"}
    BY <1>2 DEF Apartado, PlanInicio, PlanRevisar, PlanDesalojar, PlanDesalojarFin, PlanElegir,
       PlanEsperaSem, PlanSelPausa, PlanPausa, PlanDespachar, PlanRespuestaCorrecta, Ir
  <2>. QED BY <1>1, <2>1, <2>2 DEF Apartado, NacioBloqueado
<1>3. CASE PlanSeleccionar
  <2>1. PICK orden \in OrdenesDeSeleccion :
           esi_a_ejecutar' = Head(orden) /\ ListoAEjecutando(Head(orden), orden)
    BY <1>3 DEF PlanSeleccionar
  <2>2. listos # <<>> /\ UNCHANGED memoria
    BY <1>3 DEF PlanSeleccionar, SeleccionValida, campos
  <2>3. PICK h : h = Head(orden) /\ esi_a_ejecutar' = h
                 /\ ejecutando' = Append(ejecutando, h) /\ listos' = Quitar(orden, h)
    BY <2>1 DEF ListoAEjecutando
  <2>4. orden \in Seq(Esis) /\ ToSet(orden) \subseteq ToSet(listos) /\ h \in ToSet(listos)
    BY <1>1, <2>2, <2>3, CabezaTipo, PrimeroDeReordenada DEF OrdenesDeSeleccion
  <2>5. h \in Esis /\ h # e
    BY <1>1, <2>4, EnSeq DEF Apartado
  <2>6. e \in ToSet(ejecutando') /\ e \notin ToSet(listos')
    BY <1>1, <2>3, <2>4, <2>5, AgregarTipo, QuitarDentro DEF Apartado
  <2>. QED BY <1>1, <2>2, <2>3, <2>5, <2>6 DEF Apartado, NacioBloqueado
<1>4. CASE PlanDesalojarMutex
  <2>1. PICK orden \in Reordenadas(listos) :
          \/ listos' = orden /\ UNCHANGED <<ejecutando, esi_a_ejecutar>>
          \/ /\ esi_a_ejecutar' = Head(orden)
             /\ ejecutando' = Append(Quitar(ejecutando, esi_a_ejecutar), Head(orden))
             /\ listos' = Quitar(Append(orden, esi_a_ejecutar), Head(orden))
    BY <1>4 DEF PlanDesalojarMutex
  <2>2. pc = "desalojar_mutex" /\ listos # <<>> /\ esi_a_ejecutar # NULL /\ UNCHANGED memoria
    BY <1>4 DEF PlanDesalojarMutex, Ir, DesalojarValido, campos
  <2>3. PICK f \in Esis : f = esi_a_ejecutar
    BY <1>0, <2>2 DEF PlanificadorTypeOK
  <2>4. f # e
    BY <2>2, <2>3 DEF Apartado
  <2>5. /\ orden \in Seq(Esis) /\ ToSet(orden) \subseteq ToSet(listos)
        /\ Head(orden) \in ToSet(listos)
    BY <1>1, <2>2, PrimeroDeReordenada
  <2>6. CASE listos' = orden /\ UNCHANGED <<ejecutando, esi_a_ejecutar>>
    BY <1>1, <2>2, <2>3, <2>4, <2>5, <2>6 DEF Apartado, NacioBloqueado
  <2>7. ASSUME NEW h, h = Head(orden), esi_a_ejecutar' = h,
               ejecutando' = Append(Quitar(ejecutando, f), h),
               listos' = Quitar(Append(orden, f), h)
        PROVE  Apartado(e)'
    <3>1. h \in Esis /\ h # e
      BY <1>1, <2>5, <2>7, EnSeq DEF Apartado
    <3>2. e \in ToSet(ejecutando')
      <4>1. Quitar(ejecutando, f) \in Seq(Esis) /\ e \in ToSet(Quitar(ejecutando, f))
        BY <1>1, <2>4, QuitarTipo, QuitarOtros DEF Apartado
      <4>. QED BY <2>7, <3>1, <4>1, AgregarTipo
    <3>3. e \notin ToSet(listos')
      <4>1. Append(orden, f) \in Seq(Esis) /\ ToSet(Append(orden, f)) = ToSet(orden) \cup {f}
        BY <2>5, AgregarTipo
      <4>2. ToSet(listos') \subseteq ToSet(Append(orden, f))
        BY <2>7, <4>1, QuitarDentro
      <4>. QED BY <2>4, <2>5, <4>1, <4>2 DEF Apartado
    <3>. QED BY <1>1, <2>2, <2>7, <3>1, <3>2, <3>3 DEF Apartado, NacioBloqueado
  <2>. QED BY <2>1, <2>3, <2>6, <2>7
<1>5. CASE PlanRespuestaFinal
  <2>1. PICK f \in Esis : f = esi_a_ejecutar
    BY <1>0, <1>5 DEF PlanRespuestaFinal, PunterosReales
  <2>2. /\ pc = "espera_respuesta" /\ memoria' = [memoria EXCEPT ![f] = "terminando"]
        /\ UNCHANGED <<listos, ejecutando, esi_a_ejecutar>>
    BY <1>5, <2>1 DEF PlanRespuestaFinal, EmpezarTerminar, listas
  <2>3. f # e
    BY <2>1, <2>2 DEF Apartado
  <2>4. memoria'[e] = "viva"
    BY <1>0, <2>2, <2>3 DEF Apartado, PlanificadorTypeOK
  <2>. QED BY <1>1, <2>1, <2>2, <2>3, <2>4 DEF Apartado, NacioBloqueado
<1>. QED BY <1>2, <1>3, <1>4, <1>5 DEF Planificar

\* What is woken waits in bloqueados, and what ends is the ESI of planificar.
LEMMA DespertarApartado ==
    ASSUME PlanificadorTypeOK, NEW e \in Esis, Apartado(e), NEW k, DesbloquearEsiPorClave(k)
    PROVE  /\ e \notin ToSet(listos') /\ e \notin ToSet(bloqueados') /\ bloqueado'[e] = bloqueado[e]
<1>1. CASE Esperando(k) = {}
  BY <1>1 DEF DesbloquearEsiPorClave, Apartado, NacioBloqueado
<1>2. CASE Esperando(k) # {}
  <2>1. PICK w \in Esis : w \in ToSet(bloqueados) /\ BloqueadoAListo(w)
    BY <1>2, Despertado
  <2>2. listos \in Seq(Esis) /\ bloqueados \in Seq(Esis) /\ w # e
    BY <2>1 DEF PlanificadorTypeOK, Apartado, NacioBloqueado
  <2>. QED BY <2>1, <2>2, AgregarTipo, QuitarDentro
           DEF BloqueadoAListo, Apartado, NacioBloqueado, PlanificadorTypeOK
<1>. QED BY <1>1, <1>2

LEMMA SigueApartado ==
    ASSUME SinOrdenes, InvCandados, [Next]_vars, NEW e \in Esis, Apartado(e)
    PROVE  Apartado(e)'
<1>0. InvPedidos /\ InvVuelta /\ PlanificadorTypeOK /\ PunterosReales
  BY DEF InvCandados, InvPedidos, InvVuelta, InvSoporte, InvCuenta, InvTipos, TypeOK
<1>1. /\ listos \in Seq(Esis) /\ ejecutando \in Seq(Esis) /\ bloqueados \in Seq(Esis)
  BY <1>0 DEF PlanificadorTypeOK
<1>2. CASE Planificar
  BY <1>2, PlanificarApartado
<1>3. CASE Soporte
  <2>1. PICK f \in Esis : f = esi_a_ejecutar /\ pc = "espera_respuesta"
    BY <1>0, <1>3, EnSoporte, SoloServida DEF InvVuelta, Vueltas, Servida, Aguardado
  <2>2. f # e /\ UNCHANGED <<memoria, esi_a_ejecutar, pc>>
    BY <1>3, <2>1 DEF Apartado, Soporte, SoporteClaveLibre, SoporteBloquearEsi,
       SoporteBloquearClave, SoporteClaveDeEsi, SoporteDesbloquearClave, varsPlan, hilos, campos
  <2>3. CASE SoporteClaveLibre \/ SoporteBloquearClave \/ SoporteClaveDeEsi
    <3>1. UNCHANGED <<listos, ejecutando, bloqueados, bloqueado>>
      BY <2>3 DEF SoporteClaveLibre, SoporteBloquearClave, SoporteClaveDeEsi, varsPlan, listas,
         campos
    <3>. QED BY <2>2, <3>1 DEF Apartado, NacioBloqueado
  <2>4. CASE SoporteBloquearEsi
    <3>1. /\ bloqueado' = [bloqueado EXCEPT ![f] = TRUE]
          /\ bloqueados' = Append(bloqueados, f) /\ ejecutando' = Quitar(ejecutando, f)
          /\ UNCHANGED listos
      BY <2>1, <2>4 DEF SoporteBloquearEsi, EjecutandoABloqueado
    <3>2. e \in ToSet(ejecutando') /\ e \notin ToSet(bloqueados') /\ bloqueado'[e] = bloqueado[e]
      BY <1>0, <1>1, <2>2, <3>1, QuitarOtros, AgregarTipo
         DEF Apartado, NacioBloqueado, PlanificadorTypeOK
    <3>. QED BY <2>2, <3>1, <3>2 DEF Apartado, NacioBloqueado
  <2>5. CASE SoporteDesbloquearClave
    <3>1. PICK k : DesbloquearEsiPorClave(k) /\ UNCHANGED ejecutando
      BY <2>5 DEF SoporteDesbloquearClave
    <3>. QED BY <1>0, <2>2, <3>1, DespertarApartado DEF Apartado, NacioBloqueado
  <2>. QED BY <1>3, <2>3, <2>4, <2>5 DEF Soporte
<1>4. CASE TerminarEsi
  <2>1. CASE TerminarDesbloquear
    <3>1. PICK k : DesbloquearEsiPorClave(k)
      BY <2>1 DEF TerminarDesbloquear
    <3>2. UNCHANGED <<ejecutando, memoria, esi_a_ejecutar, pc>>
      BY <2>1 DEF TerminarDesbloquear
    <3>. QED BY <1>0, <3>1, <3>2, DespertarApartado DEF Apartado, NacioBloqueado
  <2>2. CASE TerminarEliminar \/ TerminarSiguientePaso
    BY <2>2 DEF TerminarEliminar, TerminarSiguientePaso, Apartado, NacioBloqueado, listas, campos
  <2>3. CASE TerminarLiberar
    <3>1. PICK v \in Esis : v = terminando.victima /\ memoria[v] = "terminando"
      BY <1>0, <2>3 DEF TerminarLiberar, PunterosReales, ConVictima, InvVuelta, UnaVictima
    <3>2. /\ v # e /\ memoria' = [memoria EXCEPT ![v] = "liberada"]
          /\ UNCHANGED <<bloqueado, esi_a_ejecutar>>
          /\ listos' \in {listos, Quitar(listos, v)}
          /\ ejecutando' \in {ejecutando, Quitar(ejecutando, v)}
          /\ bloqueados' \in {bloqueados, Quitar(bloqueados, v)}
      BY <2>3, <3>1 DEF TerminarLiberar, Apartado
    <3>3. /\ e \in ToSet(ejecutando') /\ e \notin ToSet(listos') /\ e \notin ToSet(bloqueados')
      BY <1>1, <3>2, QuitarOtros, QuitarDentro DEF Apartado, NacioBloqueado
    <3>4. memoria'[e] = "viva"
      BY <1>0, <3>2 DEF Apartado, PlanificadorTypeOK
    <3>5. e = esi_a_ejecutar => pc' \in {"espera_sem", "sel_pausa", "seleccionar"}
      <4>1. pc = "espera_respuesta" <=> mutex_listas = "planificar"
        BY <1>0 DEF InvVuelta, InvSoporte, InvCuenta, Cuenta, MutexDePlanificar
      <4>. QED BY <2>3, <4>1 DEF TerminarLiberar, Apartado
    <3>. QED BY <3>2, <3>3, <3>4, <3>5 DEF Apartado, NacioBloqueado
  <2>. QED BY <1>4, <2>1, <2>2, <2>3 DEF TerminarEsi
<1>5. CASE Consola \/ UsoIndebido \/ UNCHANGED varsPlan
  <2>1. UNCHANGED <<listos, ejecutando, bloqueados, bloqueado, memoria, esi_a_ejecutar, pc>>
    BY <1>5 DEF Consola, SinOrdenes, Comando, ConsolaKill, ConsolaBloquearEjecutando,
       ConsolaBloquearListo, ConsolaDesbloquear, ConsolaPausar, ConsolaContinuar, ConsolaSemWait,
       UsoIndebido, varsPlan, listas, campos, hilos
  <2>. QED BY <2>1 DEF Apartado, NacioBloqueado
<1>6. ASSUME NEW f \in Esis, AgregarNuevoEsi(f) PROVE Apartado(e)'
  <2>1. /\ f # e /\ memoria' = [memoria EXCEPT ![f] = "viva"] /\ listos' = Append(listos, f)
        /\ \E b : bloqueado' = [bloqueado EXCEPT ![f] = b]
        /\ UNCHANGED <<ejecutando, bloqueados, esi_a_ejecutar, pc>>
    BY <1>6 DEF AgregarNuevoEsi, Apartado, hilos
  <2>2. memoria'[e] = "viva" /\ bloqueado'[e] = bloqueado[e] /\ e \notin ToSet(listos')
    BY <1>0, <1>1, <2>1, AgregarTipo DEF Apartado, PlanificadorTypeOK
  <2>. QED BY <2>1, <2>2 DEF Apartado, NacioBloqueado
<1>7. \/ PlanificadorNext \/ UNCHANGED varsPlan
  BY DEF Next, DePlan, DeEsi, DeCoord, Reposo, vars
<1>. QED BY <1>2, <1>3, <1>4, <1>5, <1>6, <1>7 DEF PlanificadorNext

\* Without the operator every step keeps the lists exact, or sets aside an ESI that
\* was created with bloqueado true.
LEMMA PasoOrden == InvListas /\ [Next]_vars => InvListas' \/ \E e \in Esis : Apartado(e)'
<1>. SUFFICES ASSUME InvListas, [Next]_vars, ~\E e \in Esis : Apartado(e)' PROVE InvListas'
  OBVIOUS
<1>1. InvCandados' /\ InvPosesion' /\ SinOrdenes'
  BY PasoCandados, PasoPosesion DEF InvListas, SinOrdenes
<1>2. SUFFICES (Listas /\ Ejecutor /\ BloqueoEnCurso /\ Negadas /\ DuenosVivos /\ Recorrido)'
  BY <1>1 DEF InvListas
<1>3. CASE DePlan(PlanificadorNext)
  <2>1. PlanificadorNext /\ UNCHANGED <<varsEsi, varsCoord>>
    BY <1>3 DEF DePlan
  <2>2. Listas' /\ Ejecutor'
    BY <2>1, PlanificarListas, SoporteListas, TerminarListas, OtrosListas DEF PlanificadorNext
  <2>. QED BY <2>1, <2>2, PlanBloqueo, PlanDuenos, PlanRecorrido
<1>4. CASE DeEsi(EsiNext) \/ DeCoord(CoordinadorNext) \/ UNCHANGED vars
  <2>1. UNCHANGED varsPlan
    BY <1>4 DEF DeEsi, DeCoord, vars
  <2>2. UNCHANGED <<listos, ejecutando, bloqueados, clave_bloqueante, bloqueado, memoria,
                    claves_esi, esi_a_ejecutar, pc, terminando, mutex_listas>>
    BY <2>1 DEF varsPlan, listas, campos, hilos
  <2>3. \A f \in Esis : Legible(f)' <=> Legible(f)
    BY <2>2 DEF Legible
  <2>4. Listas' /\ Ejecutor' /\ DuenosVivos' /\ Recorrido'
    BY <2>2, <2>3, ListasIguales DEF InvListas, Ejecutor, DuenosVivos, Recorrido
  <2>5. BloqueoEnCurso' /\ Negadas'
    <3>1. CASE DeEsi(EsiNext)
      BY <3>1, EsiBloqueo DEF DeEsi
    <3>2. CASE DeCoord(CoordinadorNext)
      BY <3>2, CoordBloqueo DEF DeCoord
    <3>3. CASE UNCHANGED vars
      <4>1. UNCHANGED <<varsPlan, varsEsi, varsCoord, canales, claves_bloqueadas>>
        BY <3>3 DEF vars, varsPlan
      <4>. QED BY <2>2, <4>1 DEF varsEsi, varsCoord, canales, InvListas, BloqueoEnCurso, Negadas,
                  Negada, Contestado, Aguardado, YaBloqueado, Resuelta, PorContestar, Contestada,
                  Conexiones, EntreOrdenes
    <3>. QED BY <1>4, <3>1, <3>2, <3>3
  <2>. QED BY <2>4, <2>5
<1>. QED BY <1>3, <1>4 DEF Next, Reposo

LEMMA PasoListas == BloqueadoEnFalso /\ InvListas /\ [Next]_vars => InvListas'
BY PasoOrden DEF Apartado, NacioBloqueado, BloqueadoEnFalso

LEMMA InicioListas == Init /\ SinCtrlC /\ SinOrdenes => InvListas
<1>. SUFFICES ASSUME Init, SinCtrlC, SinOrdenes PROVE InvListas
  OBVIOUS
<1>1. /\ listos = <<>> /\ ejecutando = <<>> /\ bloqueados = <<>> /\ mutex_listas = "libre"
      /\ esi_a_ejecutar = NULL /\ pc = "inicio" /\ terminando = Nadie
      /\ \A e \in Esis : /\ memoria[e] = "sin_crear" /\ claves_esi[e] = <<>> /\ hilo[e] = "recibe"
                         /\ clave_bloqueante[e] = NULL /\ bloqueado[e] = FALSE
  BY DEF Init, PlanificadorInit, CoordinadorInit
<1>2. ToSet(<<>>) = {} /\ IsInjective(<<>>)
  BY DEF ToSet, IsInjective
<1>3. InvCandados /\ InvPosesion
  BY InicioCandados, InicioPosesion DEF SinOrdenes, SinDesbloquear
<1>4. Listas
  BY <1>1, <1>2 DEF Listas, Legible
<1>5. Ejecutor
  BY <1>1, <1>2, ProtocoloAssumption DEF Ejecutor, Nadie, ConVictima
<1>6. BloqueoEnCurso /\ Negadas /\ DuenosVivos /\ Recorrido
  BY <1>1, <1>2 DEF BloqueoEnCurso, Negadas, Negada, Contestado, DuenosVivos, Recorrido, Nadie
<1>. QED BY <1>3, <1>4, <1>5, <1>6 DEF InvListas

LEMMA ListasSiempre == Spec /\ SinCtrlC /\ SinOrdenes /\ BloqueadoEnFalso => []InvListas
<1>1. BloqueadoEnFalso /\ InvListas /\ [Next]_vars => (BloqueadoEnFalso /\ InvListas)'
  BY PasoListas DEF BloqueadoEnFalso
<1>. QED BY <1>1, InicioListas, PTL DEF Spec

LEMMA OrdenSiempre == Spec /\ SinCtrlC /\ SinOrdenes => []InvOrden
<1>1. Init /\ SinCtrlC /\ SinOrdenes => InvOrden
  BY InicioListas DEF InvOrden
<1>2. InvOrden /\ [Next]_vars => InvOrden'
  <2>1. InvListas /\ [Next]_vars => InvOrden'
    BY PasoOrden, PasoCandados DEF InvListas, InvOrden, SinOrdenes
  <2>2. ASSUME SinOrdenes, InvCandados, [Next]_vars, NEW e \in Esis, Apartado(e)
        PROVE  InvOrden'
    BY <2>2, SigueApartado, PasoCandados DEF InvOrden, SinOrdenes
  <2>. QED BY <2>1, <2>2 DEF InvOrden
<1>. QED BY <1>1, <1>2, PTL DEF Spec

\* How often an ESI appears in a list without repetitions.
LEMMA VecesEnLista ==
    ASSUME NEW S, NEW lista \in Seq(S), IsInjective(lista), NEW x
    PROVE  Cardinality({i \in DOMAIN lista : lista[i] = x}) = IF x \in ToSet(lista) THEN 1 ELSE 0
<1> DEFINE P == {i \in DOMAIN lista : lista[i] = x}
<1>1. CASE x \in ToSet(lista)
  <2>1. PICK n \in DOMAIN lista : lista[n] = x
    BY <1>1 DEF ToSet
  <2>2. P = {n}
    BY <2>1 DEF IsInjective
  <2>. QED BY <1>1, <2>2, FS_Singleton
<1>2. CASE x \notin ToSet(lista)
  <2>1. P = {}
    BY <1>2 DEF ToSet
  <2>. QED BY <1>2, <2>1, FS_EmptySet
<1>. QED BY <1>1, <1>2

\* As long as the operator only pauses and continues, every live ESI is in exactly
\* one of the three lists, once, a dead one in none, and only the ESI that
\* planificar works with is left in ejecutando.  This ends, if it does, when
\* planificar sets aside, in ejecutando, an ESI that agregar_nuevo_esi created with
\* bloqueado true: from then on that ESI is there, alive and never chosen.
THEOREM NadieSePierde == Spec /\ SinCtrlC /\ SinOrdenes => []NingunoPerdido
<1>1. ASSUME InvListas PROVE NingunoPerdido
  <2>1. Listas /\ Ejecutor /\ PlanificadorTypeOK
    BY <1>1 DEF InvListas, InvPosesion, InvCandados, InvPedidos, InvVuelta, InvSoporte, InvCuenta,
       InvTipos,
       TypeOK
  <2>2. ListasExactas
    <3>1. SUFFICES ASSUME NEW e \in Esis PROVE Apariciones(e) = IF Legible(e) THEN 1 ELSE 0
      BY DEF ListasExactas
    <3>2. /\ listos \in Seq(Esis) /\ ejecutando \in Seq(Esis) /\ bloqueados \in Seq(Esis)
          /\ IsInjective(listos) /\ IsInjective(ejecutando) /\ IsInjective(bloqueados)
      BY <2>1 DEF Listas, PlanificadorTypeOK
    <3>3. /\ Cardinality({i \in DOMAIN listos : listos[i] = e})
                = IF e \in ToSet(listos) THEN 1 ELSE 0
          /\ Cardinality({i \in DOMAIN ejecutando : ejecutando[i] = e})
                = IF e \in ToSet(ejecutando) THEN 1 ELSE 0
          /\ Cardinality({i \in DOMAIN bloqueados : bloqueados[i] = e})
                = IF e \in ToSet(bloqueados) THEN 1 ELSE 0
      BY <3>2, VecesEnLista
    <3>. QED BY <2>1, <3>3 DEF Listas, Apariciones
  <2>3. Abandonados = {}
    <3>1. ejecutando \in Seq(Esis)
      BY <2>1 DEF PlanificadorTypeOK
    <3>2. ToSet(ejecutando) = {} => ejecutando = <<>>
      BY <3>1, CabezaTipo
    <3>. QED BY <2>1, <3>2 DEF Ejecutor, Abandonados
  <2>. QED BY <2>2, <2>3 DEF NingunoPerdido
<1>2. ASSUME NEW e \in Esis, Apartado(e) PROVE NingunoPerdido
  BY <1>2 DEF Apartado, Abandonados, NingunoPerdido
<1>3. InvOrden => NingunoPerdido
  BY <1>1, <1>2 DEF InvOrden
<1>. QED BY <1>3, OrdenSiempre, PTL

-----------------------------------------------------------------------------
(* The lists implement the table of locks.                                 *)
\* The keys, when nobody is being terminated.
LEMMA TablaDeClaves ==
    ASSUME InvListas, terminando = Nadie
    PROVE  \A k \in Claves :
              k \in ToSet(claves_bloqueadas) <=> k \in ToSet(ClavesIniciales) \/ Duenos(k) # {}
<1>1. Candados /\ Devueltas = {}
  BY DEF InvListas, InvPosesion, InvCandados, InvPedidos, Devueltas, Nadie
<1>. QED BY <1>1, DeAlguien DEF Candados, Duenos

\* A key has one owner.
LEMMA UnDueno ==
    ASSUME InvListas, NEW e \in Esis, NEW k \in ToSet(claves_esi[e])
    PROVE  Duenos(k) = {e}
<1>1. \A f \in Esis : f # e => k \notin ToSet(claves_esi[f])
  BY DEF InvListas, InvPosesion, InvCandados, InvPedidos, Candados
<1>. QED BY <1>1 DEF Duenos

\* Steps that lock or unlock no key and block or wake nobody.
LEMMA TablaIgual ==
    ASSUME UNCHANGED <<claves_esi, clave_bloqueante>>
    PROVE  UNCHANGED Tabla!cerrojos
BY DEF Tabla!cerrojos

\* A GET, and a STORE, as soporte does them.
LEMMA SoporteTabla ==
    ASSUME InvListas, Soporte
    PROVE  [Tabla!Next]_(Tabla!cerrojos)
<1>0. /\ InvTipos /\ Listas /\ PlanificadorTypeOK /\ SoporteEnVuelo /\ Candados /\ Concedidas
      /\ Negadas /\ Tenencias /\ Servicios
      /\ claves_esi \in [Esis -> Seq(Claves)]
  BY DEF InvListas, InvPosesion, InvCandados, InvPedidos, InvVuelta, InvSoporte, InvCuenta,
     InvTipos, TypeOK,
     PlanificadorTypeOK
<1>1. PICK e \in Esis :
              /\ hilo[e] \in EnEspera /\ esi_a_ejecutar = e
              /\ clave_pedida = pedido[e].clave /\ pedido[e].clave \in Claves
              /\ Head(coordAPlan).head = OrdenDebida(e) /\ coordAPlan # <<>>
              /\ e \in ToSet(ejecutando) /\ e \notin ToSet(bloqueados) /\ terminando = Nadie
  BY SoporteEjecuta
<1>2. PICK k \in Claves : k = clave_pedida
  BY <1>1
<1>3. clave_bloqueante[e] = NULL
  BY <1>0, <1>1 DEF Listas
<1>4. CASE SoporteClaveLibre \/ SoporteClaveDeEsi
  BY <1>4, TablaIgual DEF SoporteClaveLibre, SoporteClaveDeEsi, varsPlan, campos
<1>5. CASE SoporteBloquearEsi
  <2>1. hilo[e] = "orden_esi"
    <3>1. Head(coordAPlan).head = "BLOQUEAR_ESI"
      BY <1>5 DEF SoporteBloquearEsi, Atender
    <3>. QED BY <1>1, <3>1 DEF OrdenDebida, EnEspera
  <2>2. k \in ToSet(ClavesIniciales) \/ Duenos(k) # {}
    BY <1>0, <1>1, <1>2, <2>1, TablaDeClaves DEF Negadas, Negada
  <2>3. clave_bloqueante' = [clave_bloqueante EXCEPT ![e] = k] /\ UNCHANGED claves_esi
    BY <1>1, <1>2, <1>5 DEF SoporteBloquearEsi, EjecutandoABloqueado
  <2>4. Tabla!Esperar(e, k)
    BY <1>2, <1>3, <2>2, <2>3 DEF Tabla!Esperar, Tabla!Libre, Duenos
  <2>. QED BY <2>4 DEF Tabla!Next
<1>6. CASE SoporteBloquearClave
  <2>1. hilo[e] = "orden_clave" /\ pedido[e].head = "SOLICITAR_CLAVE"
    <3>1. Head(coordAPlan).head = "BLOQUEAR_CLAVE_PARA_ESI_EJECUTANDO"
      BY <1>6 DEF SoporteBloquearClave, Atender
    <3>. QED BY <1>1, <3>1 DEF OrdenDebida, EnEspera
  <2>2. k \notin ToSet(claves_bloqueadas)
    BY <1>0, <1>1, <1>2, <2>1 DEF Concedidas, Concedida
  <2>3. k \notin ToSet(ClavesIniciales) /\ Duenos(k) = {}
    BY <1>1, <2>2, TablaDeClaves
  <2>4. claves_esi' = [claves_esi EXCEPT ![e] = Append(@, k)] /\ UNCHANGED clave_bloqueante
    BY <1>1, <1>2, <1>6 DEF SoporteBloquearClave
  <2>5. /\ ToSet(claves_esi'[e]) = ToSet(claves_esi[e]) \cup {k}
        /\ \A f \in Esis : f # e => claves_esi'[f] = claves_esi[f]
    BY <1>0, <2>4, AgregarTipo
  <2>6. [c \in Claves |-> {f \in Esis : c \in ToSet(claves_esi'[f])}]
          = [[c \in Claves |-> {f \in Esis : c \in ToSet(claves_esi[f])}] EXCEPT ![k] = {e}]
    <3>1. ASSUME NEW c \in Claves
          PROVE  {f \in Esis : c \in ToSet(claves_esi'[f])}
                   = IF c = k THEN {e} ELSE {f \in Esis : c \in ToSet(claves_esi[f])}
      BY <2>3, <2>5 DEF Duenos
    <3>. QED BY <3>1
  <2>7. Tabla!Tomar(e, k)
    BY <1>3, <2>3, <2>4, <2>6 DEF Tabla!Tomar, Tabla!Libre, Duenos
  <2>. QED BY <2>7 DEF Tabla!Next
<1>7. CASE SoporteDesbloquearClave
  <2>1. hilo[e] = "orden_clave" /\ pedido[e].head # "SOLICITAR_CLAVE"
    <3>1. Head(coordAPlan).head = "DESBLOQUEAR_CLAVE_DEL_ESI_EJECUTANDO"
      BY <1>7 DEF SoporteDesbloquearClave, Atender
    <3>. QED BY <1>1, <3>1 DEF OrdenDebida, EnEspera
  <2>2. k \in ToSet(claves_esi[e])
    BY <1>0, <1>1, <1>2, <2>1 DEF Tenencias, Tenida
  <2>3. Duenos(k) = {e}
    BY <2>2, UnDueno
  <2>4. claves_esi' = [claves_esi EXCEPT ![e] = Quitar(@, k)] /\ DesbloquearEsiPorClave(k)
    BY <1>1, <1>2, <1>7 DEF SoporteDesbloquearClave
  <2>5. /\ ToSet(claves_esi'[e]) = ToSet(claves_esi[e]) \ {k}
        /\ \A f \in Esis : f # e => claves_esi'[f] = claves_esi[f]
    <3>1. claves_esi[e] \in Seq(Claves) /\ IsInjective(claves_esi[e])
      BY <1>0 DEF Candados
    <3>2. claves_esi'[e] = RemoveFirst(claves_esi[e], k)
      BY <1>0, <2>4 DEF Quitar
    <3>. QED BY <1>0, <2>4, <3>1, <3>2, SacarInyectiva
  <2>6. [c \in Claves |-> {f \in Esis : c \in ToSet(claves_esi'[f])}]
          = [[c \in Claves |-> {f \in Esis : c \in ToSet(claves_esi[f])}] EXCEPT ![k] = {}]
    <3>1. ASSUME NEW c \in Claves
          PROVE  {f \in Esis : c \in ToSet(claves_esi'[f])}
                   = IF c = k THEN {} ELSE {f \in Esis : c \in ToSet(claves_esi[f])}
      BY <2>3, <2>5 DEF Duenos
    <3>. QED BY <3>1
  <2>7. \/ UNCHANGED clave_bloqueante /\ \A f \in Esis : clave_bloqueante[f] # k
        \/ \E f \in Esis : /\ clave_bloqueante[f] = k
                           /\ clave_bloqueante' = [clave_bloqueante EXCEPT ![f] = NULL]
    <3>1. CASE Esperando(k) = {}
      <4>1. UNCHANGED clave_bloqueante
        BY <2>4, <3>1 DEF DesbloquearEsiPorClave
      <4>2. ASSUME NEW f \in Esis, clave_bloqueante[f] = k PROVE FALSE
        <5>1. f \in ToSet(bloqueados) /\ Legible(f)
          BY <1>0, <1>2, <4>2, ProtocoloAssumption DEF Listas
        <5>. QED BY <3>1, <4>2, <5>1 DEF Esperando, ToSet
      <4>. QED BY <4>1, <4>2
    <3>2. CASE Esperando(k) # {}
      BY <1>0, <2>4, <3>2, Despertado DEF BloqueadoAListo
    <3>. QED BY <3>1, <3>2
  <2>8. Tabla!Soltar(e, k)
    BY <1>2, <1>3, <2>3, <2>6, <2>7 DEF Tabla!Soltar, Duenos
  <2>. QED BY <2>8 DEF Tabla!Next
<1>. QED BY <1>4, <1>5, <1>6, <1>7 DEF Soporte

\* The end of an ESI, as terminar_esi does it.
LEMMA TerminarTabla ==
    ASSUME InvListas, TerminarEsi
    PROVE  [Tabla!Next]_(Tabla!cerrojos)
<1>0. /\ InvTipos /\ Listas /\ PlanificadorTypeOK /\ Recorrido
      /\ claves_esi \in [Esis -> Seq(Claves)]
  BY DEF InvListas, InvPosesion, InvCandados, InvPedidos, InvVuelta, InvSoporte, InvCuenta,
     InvTipos, TypeOK,
     PlanificadorTypeOK
<1>1. terminando.paso \in ConVictima
  BY <1>0 DEF TerminarEsi, TerminarDesbloquear, TerminarEliminar, TerminarSiguientePaso,
     TerminarLiberar, ConVictima
<1>2. PICK v \in Esis : v = terminando.victima
  BY <1>0, <1>1 DEF InvTipos, PunterosReales
<1>3. CASE TerminarEliminar \/ TerminarSiguientePaso
  BY <1>3, TablaIgual DEF TerminarEliminar, TerminarSiguientePaso, campos
<1>4. CASE TerminarDesbloquear
  <2>0. PICK k : k = claves_esi[v][terminando.i]
    OBVIOUS
  <2>1. DesbloquearEsiPorClave(k) /\ UNCHANGED claves_esi
    BY <1>2, <1>4, <2>0 DEF TerminarDesbloquear
  <2>2. CASE Esperando(k) = {}
    BY <2>1, <2>2, TablaIgual DEF DesbloquearEsiPorClave
  <2>3. CASE Esperando(k) # {}
    <3>1. PICK w \in Esis : /\ w \in ToSet(bloqueados) /\ clave_bloqueante[w] = k
                            /\ BloqueadoAListo(w)
      BY <1>0, <2>1, <2>3, Despertado
    <3>2. clave_bloqueante[w] \in Claves /\ clave_bloqueante[w] # NULL
      BY <1>0, <3>1, ProtocoloAssumption DEF Listas, PlanificadorTypeOK
    <3>3. k \in Claves
      BY <3>1, <3>2
    <3>4. k \in ToSet(claves_esi[v])
      <4>1. terminando.i \in 1..Len(claves_esi[v])
        BY <1>0, <1>2, <1>4, LenProperties DEF TerminarDesbloquear, Recorrido, PlanificadorTypeOK
      <4>. QED BY <1>0, <2>0, <4>1, LenProperties DEF ToSet
    <3>5. Duenos(k) = {v}
      BY <3>4, UnDueno
    <3>6. clave_bloqueante' = [clave_bloqueante EXCEPT ![w] = NULL]
      BY <3>1 DEF BloqueadoAListo
    <3>7. Tabla!Despertar(v, w)
      BY <2>1, <3>1, <3>2, <3>3, <3>5, <3>6 DEF Tabla!Despertar, Duenos
    <3>. QED BY <3>7 DEF Tabla!Next
  <2>. QED BY <2>2, <2>3
<1>5. CASE TerminarLiberar
  <2>1. /\ claves_esi' = [claves_esi EXCEPT ![v] = <<>>]
        /\ clave_bloqueante' = [clave_bloqueante EXCEPT ![v] = NULL]
    BY <1>2, <1>5 DEF TerminarLiberar
  <2>2. /\ ToSet(claves_esi'[v]) = {}
        /\ \A f \in Esis : f # v => claves_esi'[f] = claves_esi[f]
    BY <1>0, <2>1 DEF ToSet
  <2>3. ASSUME NEW c \in Claves
        PROVE  {f \in Esis : c \in ToSet(claves_esi'[f])}
                 = {f \in Esis : c \in ToSet(claves_esi[f])} \ {v}
    BY <2>2
  <2>4. Tabla!Terminar(v)
    BY <2>1, <2>3 DEF Tabla!Terminar
  <2>. QED BY <2>4 DEF Tabla!Next
<1>. QED BY <1>3, <1>4, <1>5 DEF TerminarEsi

\* The other threads of the Planificador lock no key and block nobody.
LEMMA OtrosTabla ==
    ASSUME InvListas, Planificar \/ Consola \/ UsoIndebido \/ \E e \in Esis : AgregarNuevoEsi(e)
    PROVE  UNCHANGED <<claves_esi, clave_bloqueante>>
<1>0. SinOrdenes /\ terminando.paso # "sem_wait"
  BY SoloPlanificar DEF InvListas, InvPosesion, InvCandados, InvPedidos
<1>1. ~ConsolaSemWait
  BY <1>0 DEF ConsolaSemWait
<1>2. Consola => ConsolaPausar \/ ConsolaContinuar
  BY <1>0, <1>1 DEF Consola, SinOrdenes, Comando, ConsolaKill, ConsolaBloquearEjecutando,
     ConsolaBloquearListo, ConsolaDesbloquear
<1>. QED BY <1>2 DEF Planificar, PlanInicio, PlanRevisar, PlanDesalojar, PlanDesalojarMutex,
       PlanDesalojarFin, PlanElegir, PlanEsperaSem, PlanSelPausa, PlanSeleccionar, PlanPausa,
       PlanDespachar, PlanRespuestaCorrecta, PlanRespuestaFinal, ConsolaPausar, ConsolaContinuar,
       UsoIndebido, AgregarNuevoEsi, campos, varsPlan

LEMMA PasoTabla == InvListas /\ [Next]_vars => [Tabla!Next]_(Tabla!cerrojos)
<1>. SUFFICES ASSUME InvListas, [Next]_vars PROVE [Tabla!Next]_(Tabla!cerrojos)
  OBVIOUS
<1>1. CASE DePlan(PlanificadorNext)
  BY <1>1, SoporteTabla, TerminarTabla, OtrosTabla, TablaIgual DEF DePlan, PlanificadorNext
<1>2. CASE DeEsi(EsiNext) \/ DeCoord(CoordinadorNext) \/ UNCHANGED vars
  BY <1>2, TablaIgual DEF DeEsi, DeCoord, vars, varsPlan, campos
<1>. QED BY <1>1, <1>2 DEF Next, Reposo

\* The Planificador and the Coordinador, over their connections and with their
\* lists, keep what Cerrojos promises: a GET takes a free key or waits for a locked
\* one, a STORE gives back a key that its ESI owns and lets one ESI that waits for
\* it try again, and an ESI that ends lets go of whoever waits for its keys.  Every
\* ESI is created with bloqueado false.
THEOREM CerrojosImplementados ==
    Spec /\ SinCtrlC /\ SinOrdenes /\ BloqueadoEnFalso => ImplementaCerrojos
<1>1. Init => Tabla!Init
  <2>1. SUFFICES ASSUME Init PROVE Tabla!Init
    OBVIOUS
  <2>2. claves_esi = [e \in Esis |-> <<>>] /\ clave_bloqueante = [e \in Esis |-> NULL]
    BY <2>1 DEF Init, PlanificadorInit
  <2>3. ToSet(<<>>) = {}
    BY DEF ToSet
  <2>4. \A k \in Claves : {e \in Esis : k \in ToSet(claves_esi[e])} = {}
    BY <2>2, <2>3
  <2>. QED BY <2>2, <2>4 DEF Tabla!Init
<1>. QED BY <1>1, ListasSiempre, PasoTabla, PTL DEF Spec, ImplementaCerrojos, Tabla!Spec

-----------------------------------------------------------------------------
(* The ESIs in deadlock.                                                   *)
Circulo(D, bloq, cb, ce) ==
    D \subseteq ToSet(bloq) /\ \A e \in D : \E f \in D : f \in Esis /\ cb[e] \in ToSet(ce[f])
EnCirculo(D) == Circulo(D, bloqueados, clave_bloqueante, claves_esi)

LEMMA Circulos ==
    ASSUME NEW bloq, NEW cb, NEW ce, NEW x
    PROVE  x \in Interbloqueados([e \in ToSet(bloq) |-> {f \in Esis : cb[e] \in ToSet(ce[f])}])
             <=> \E D : Circulo(D, bloq, cb, ce) /\ x \in D
<1>1. \A D : Circulo(D, bloq, cb, ce) <=>
         /\ D \in SUBSET ToSet(bloq)
         /\ Trabados(D, [e \in ToSet(bloq) |-> {f \in Esis : cb[e] \in ToSet(ce[f])}])
  BY DEF Circulo, Trabados
<1>. QED BY <1>1 DEF Interbloqueados

\* Who is woken when an ESI that is not blocked gives back a key is in no circle.
LEMMA DespertadoFuera ==
    ASSUME InvListas, NEW D, EnCirculo(D), NEW v \in Esis, v \notin ToSet(bloqueados),
           NEW k \in ToSet(claves_esi[v]), DesbloquearEsiPorClave(k)
    PROVE  \A e \in D : e \in ToSet(bloqueados') /\ clave_bloqueante'[e] = clave_bloqueante[e]
<1>0. Listas /\ PlanificadorTypeOK
  BY DEF InvListas, InvPosesion, InvCandados, InvPedidos, InvVuelta, InvSoporte, InvCuenta,
     InvTipos, TypeOK
<1>1. CASE Esperando(k) = {}
  BY <1>1 DEF DesbloquearEsiPorClave, EnCirculo, Circulo
<1>2. CASE Esperando(k) # {}
  <2>1. PICK w \in Esis : w \in ToSet(bloqueados) /\ clave_bloqueante[w] = k /\ BloqueadoAListo(w)
    BY <1>0, <1>2, Despertado
  <2>2. w \notin D
    <3>1. SUFFICES ASSUME w \in D PROVE FALSE
      OBVIOUS
    <3>2. PICK f \in D : f \in Esis /\ k \in ToSet(claves_esi[f])
      BY <2>1, <3>1 DEF EnCirculo, Circulo
    <3>3. f = v
      <4>1. Duenos(k) = {v} /\ f \in Duenos(k)
        BY <3>2, UnDueno DEF Duenos
      <4>. QED BY <4>1
    <3>. QED BY <3>2, <3>3 DEF EnCirculo, Circulo
  <2>3. ToSet(bloqueados') = ToSet(bloqueados) \ {w}
    <3>1. bloqueados \in Seq(Esis) /\ IsInjective(bloqueados)
      BY <1>0 DEF PlanificadorTypeOK, Listas
    <3>. QED BY <2>1, <3>1, SacarInyectiva DEF BloqueadoAListo, Quitar
  <2>4. \A e \in D : e \in Esis
    BY <1>0, EnSeq DEF EnCirculo, Circulo, PlanificadorTypeOK
  <2>5. \A e \in D : clave_bloqueante'[e] = clave_bloqueante[e]
    BY <1>0, <2>1, <2>2, <2>4 DEF BloqueadoAListo, PlanificadorTypeOK
  <2>. QED BY <2>2, <2>3, <2>5 DEF EnCirculo, Circulo
<1>. QED BY <1>1, <1>2

\* Nobody of a circle is woken, nor loses a key.
LEMMA CirculoQuieto ==
    ASSUME InvListas, NEW D, EnCirculo(D), PlanificadorNext
    PROVE  \A e \in D : /\ e \in ToSet(bloqueados') /\ clave_bloqueante'[e] = clave_bloqueante[e]
                        /\ claves_esi'[e] = claves_esi[e]
<1>0. /\ Listas /\ Ejecutor /\ PlanificadorTypeOK /\ Recorrido /\ PunterosReales /\ SinOrdenes
      /\ Tenencias /\ D \subseteq Esis /\ D \subseteq ToSet(bloqueados)
  <2>1. /\ Listas /\ Ejecutor /\ PlanificadorTypeOK /\ Recorrido /\ PunterosReales /\ SinOrdenes
        /\ Tenencias
    BY DEF InvListas, InvPosesion, InvCandados, InvPedidos, InvVuelta, InvSoporte, InvCuenta,
       InvTipos, TypeOK
  <2>. QED BY <2>1, EnSeq DEF EnCirculo, Circulo, PlanificadorTypeOK
<1>1. CASE Soporte
  <2>1. PICK e \in Esis :
              /\ hilo[e] \in EnEspera /\ esi_a_ejecutar = e
              /\ clave_pedida = pedido[e].clave /\ Head(coordAPlan).head = OrdenDebida(e)
              /\ coordAPlan # <<>> /\ e \notin ToSet(bloqueados) /\ e \notin D
    BY <1>0, <1>1, SoporteEjecuta
  <2>2. CASE SoporteClaveLibre \/ SoporteClaveDeEsi
    BY <1>0, <2>2 DEF SoporteClaveLibre, SoporteClaveDeEsi, varsPlan, listas, campos
  <2>3. CASE SoporteBloquearEsi
    <3>1. bloqueados' = Append(bloqueados, e) /\ UNCHANGED claves_esi
      BY <2>1, <2>3 DEF SoporteBloquearEsi, EjecutandoABloqueado
    <3>2. ToSet(bloqueados') = ToSet(bloqueados) \cup {e}
      BY <1>0, <3>1, AgregarTipo DEF PlanificadorTypeOK
    <3>3. \A f \in D : clave_bloqueante'[f] = clave_bloqueante[f]
      BY <1>0, <2>1, <2>3 DEF SoporteBloquearEsi, EjecutandoABloqueado, PlanificadorTypeOK
    <3>. QED BY <1>0, <3>1, <3>2, <3>3
  <2>4. CASE SoporteBloquearClave
    <3>1. UNCHANGED <<bloqueados, clave_bloqueante>>
      BY <2>4 DEF SoporteBloquearClave, listas
    <3>2. \A f \in D : claves_esi'[f] = claves_esi[f]
      BY <1>0, <2>1, <2>4 DEF SoporteBloquearClave, PlanificadorTypeOK
    <3>. QED BY <1>0, <3>1, <3>2
  <2>5. CASE SoporteDesbloquearClave
    <3>0. PICK k : k = clave_pedida
      OBVIOUS
    <3>1. hilo[e] = "orden_clave" /\ pedido[e].head # "SOLICITAR_CLAVE"
      <4>1. Head(coordAPlan).head = "DESBLOQUEAR_CLAVE_DEL_ESI_EJECUTANDO"
        BY <2>5 DEF SoporteDesbloquearClave, Atender
      <4>. QED BY <2>1, <4>1 DEF OrdenDebida, EnEspera
    <3>2. k \in ToSet(claves_esi[e]) /\ DesbloquearEsiPorClave(k)
      BY <1>0, <2>1, <2>5, <3>0, <3>1 DEF Tenencias, Tenida, SoporteDesbloquearClave
    <3>3. \A f \in D : claves_esi'[f] = claves_esi[f]
      BY <1>0, <2>1, <2>5 DEF SoporteDesbloquearClave, PlanificadorTypeOK
    <3>. QED BY <2>1, <3>2, <3>3, DespertadoFuera
  <2>. QED BY <1>1, <2>2, <2>3, <2>4, <2>5 DEF Soporte
<1>2. CASE TerminarEsi
  <2>1. terminando.paso \in ConVictima
    BY <1>2 DEF TerminarEsi, TerminarDesbloquear, TerminarEliminar, TerminarSiguientePaso,
       TerminarLiberar, ConVictima
  <2>2. PICK v \in Esis : /\ v = terminando.victima /\ terminando.origen = "ejecutando"
                          /\ v \notin ToSet(bloqueados) /\ v \notin D
    BY <1>0, <2>1 DEF Ejecutor, PunterosReales, Listas
  <2>3. CASE TerminarDesbloquear
    <3>0. PICK k : k = claves_esi[v][terminando.i]
      OBVIOUS
    <3>1. DesbloquearEsiPorClave(k) /\ UNCHANGED claves_esi
      BY <2>2, <2>3, <3>0 DEF TerminarDesbloquear
    <3>2. claves_esi[v] \in Seq(Claves) /\ terminando.i \in 1..Len(claves_esi[v])
      BY <1>0, <2>2, <2>3, LenProperties DEF TerminarDesbloquear, Recorrido, PlanificadorTypeOK
    <3>3. k \in ToSet(claves_esi[v])
      BY <3>0, <3>2, LenProperties DEF ToSet
    <3>. QED BY <2>2, <3>1, <3>3, DespertadoFuera
  <2>4. CASE TerminarEliminar \/ TerminarSiguientePaso
    BY <1>0, <2>4 DEF TerminarEliminar, TerminarSiguientePaso, listas, campos
  <2>5. CASE TerminarLiberar
    <3>1. UNCHANGED bloqueados
      BY <2>2, <2>5 DEF TerminarLiberar
    <3>2. \A f \in D : claves_esi'[f] = claves_esi[f] /\ clave_bloqueante'[f] = clave_bloqueante[f]
      BY <1>0, <2>2, <2>5 DEF TerminarLiberar, PlanificadorTypeOK
    <3>. QED BY <1>0, <3>1, <3>2
  <2>. QED BY <1>2, <2>3, <2>4, <2>5 DEF TerminarEsi
<1>3. CASE Planificar \/ Consola \/ UsoIndebido \/ \E e \in Esis : AgregarNuevoEsi(e)
  <2>1. UNCHANGED <<claves_esi, clave_bloqueante>>
    BY <1>3, OtrosTabla
  <2>2. UNCHANGED bloqueados
    <3>1. terminando.paso # "sem_wait"
      BY SoloPlanificar DEF InvListas, InvPosesion, InvCandados, InvPedidos
    <3>2. ~ConsolaSemWait
      BY <3>1 DEF ConsolaSemWait
    <3>3. Consola => ConsolaPausar \/ ConsolaContinuar
      BY <1>0, <3>2 DEF Consola, SinOrdenes, Comando, ConsolaKill, ConsolaBloquearEjecutando,
         ConsolaBloquearListo, ConsolaDesbloquear
    <3>. QED BY <1>3, <3>3 DEF Planificar, PlanInicio, PlanRevisar, PlanDesalojar,
             PlanDesalojarMutex, PlanDesalojarFin, PlanElegir, PlanEsperaSem, PlanSelPausa,
             PlanSeleccionar, PlanPausa, PlanDespachar, PlanRespuestaCorrecta, PlanRespuestaFinal,
             ConsolaPausar, ConsolaContinuar, UsoIndebido, AgregarNuevoEsi, listas, varsPlan
  <2>. QED BY <1>0, <2>1, <2>2
<1>. QED BY <1>1, <1>2, <1>3 DEF PlanificadorNext

\* What the command deadlock reports stays true: as long as the operator does not
\* step in, an ESI in deadlock is never freed, neither by a STORE nor by the end of
\* another ESI.  Every ESI is created with bloqueado false.
THEOREM InterbloqueoSinSalida ==
    Spec /\ SinCtrlC /\ SinOrdenes /\ BloqueadoEnFalso => InterbloqueoEstable
<1>1. ASSUME InvListas, [Next]_vars PROVE EnInterbloqueo \subseteq EnInterbloqueo'
  <2>1. SUFFICES ASSUME NEW D, EnCirculo(D) PROVE EnCirculo(D)'
    <3>1. ASSUME NEW x \in EnInterbloqueo PROVE x \in EnInterbloqueo'
      <4>1. PICK D : EnCirculo(D) /\ x \in D
        BY <3>1, Circulos DEF EnInterbloqueo, EnCirculo
      <4>2. Circulo(D, bloqueados', clave_bloqueante', claves_esi')
        BY <2>1, <4>1 DEF EnCirculo
      <4>. QED BY <4>1, <4>2, Circulos DEF EnInterbloqueo
    <3>. QED BY <3>1
  <2>2. \A e \in D : /\ e \in ToSet(bloqueados') /\ clave_bloqueante'[e] = clave_bloqueante[e]
                     /\ claves_esi'[e] = claves_esi[e]
    <3>1. CASE DePlan(PlanificadorNext)
      BY <1>1, <2>1, <3>1, CirculoQuieto DEF DePlan
    <3>2. CASE DeEsi(EsiNext) \/ DeCoord(CoordinadorNext) \/ UNCHANGED vars
      <4>1. UNCHANGED <<bloqueados, clave_bloqueante, claves_esi>>
        BY <3>2 DEF DeEsi, DeCoord, vars, varsPlan, listas, campos
      <4>. QED BY <2>1, <4>1 DEF EnCirculo, Circulo
    <3>. QED BY <1>1, <3>1, <3>2 DEF Next, Reposo
  <2>. QED BY <2>1, <2>2 DEF EnCirculo, Circulo
<1>. QED BY <1>1, ListasSiempre, PTL DEF Spec, InterbloqueoEstable

-----------------------------------------------------------------------------
(* Whoever waits for a key that is free has somebody to wake it: the ESI   *)
(* that was woken before it, which asks for the key again.                 *)
SinFallo == "fallo" \notin RespuestasInstancia

\* A GET that is pending, of a key that is not too long, does not fail.
PideOtraVez(e) ==
    /\ memoria[e] \in {"sin_crear", "viva"} /\ pendiente[e]
    /\ Instruccion(e).op = "GET" /\ Instruccion(e).clave \notin ClavesLargas
Insistente(e) ==
    /\ fase[e] # "fin"
    /\ fase[e] = "contestar" => resultado[e] = "EJECUCION_CORRECTA"
    /\ fase[e] = "espera_coord" =>
          hilo[e] # "fin" /\ coordAEsi[e] \in {<<>>, <<"CLAVE_LIBRE">>, <<"CLAVE_YA_BLOQUEADA">>}
Insistentes == \A e \in Esis :
    /\ pendiente[e] => linea[e] \in DOMAIN guion[e]
    /\ PideOtraVez(e) => Insistente(e)

\* What a blocked ESI waits for is the GET it has pending.
Pendientes == \A e \in ToSet(bloqueados) :
    /\ pendiente[e] /\ Instruccion(e) = [op |-> "GET", clave |-> clave_bloqueante[e]]
    /\ clave_bloqueante[e] \notin ClavesLargas

\* The keys of the victim whose waiters terminar_esi has seen to.
Atendidas ==
    IF terminando.paso = "desbloquear"
    THEN {claves_esi[terminando.victima][j] : j \in 1..(terminando.i - 1)}
    ELSE IF terminando.paso \in {"eliminar", "liberar"} THEN ToSet(claves_esi[terminando.victima])
    ELSE {}

HayQuienPida(k) == \E f \in Esis : VuelveAPedir(f, k)
Tomada(k) == k \in ToSet(claves_bloqueadas) /\ k \notin Atendidas
Esperas ==
    \A e \in ToSet(bloqueados) : Tomada(clave_bloqueante[e]) \/ HayQuienPida(clave_bloqueante[e])

InvEsperas ==
    SinFallo /\ BloqueadoEnFalso /\ InvListas /\ Insistentes /\ Pendientes /\ Esperas

\* The next line of an ESI that has one pending is that one.
LEMMA LineaPendiente ==
    ASSUME NEW e \in Esis, pendiente[e] PROVE LineaActual(e) = linea[e]
BY DEF LineaActual

\* The step of an ESI leaves the scripts of the others alone.
LEMMA OtrosGuiones ==
    ASSUME InvTipos, NEW e \in Esis, NEW f \in Esis, f # e,
           EsiRecibirOrden(e) \/ EsiEmpezar(e) \/ EsiPedirOperacion(e) \/ EsiLineaInvalida(e)
           \/ EsiFinDeGuion(e) \/ EsiRecibirResultado(e) \/ EsiContestar(e)
           \/ EsiFinInstruccion(e) \/ EsiFinInterrupcion(e)
    PROVE  linea'[f] = linea[f] /\ pendiente'[f] = pendiente[f] /\ UNCHANGED guion
BY DEF InvTipos, TypeOK, EsiTypeOK, EsiRecibirOrden, EsiEmpezar, EsiPedirOperacion,
   EsiLineaInvalida, EsiFinDeGuion, EsiRecibirResultado, EsiContestar, EsiFinInstruccion,
   EsiFinInterrupcion

\* A pending GET is repeated until it is granted.
LEMMA EsiInsiste ==
    ASSUME InvEsperas, EsiNext, UNCHANGED <<varsPlan, varsCoord>>
    PROVE  Insistentes'
<1>0. /\ InvVuelta /\ InvTipos /\ Insistentes /\ GuionServido /\ LineasLeidas
      /\ \A f \in Esis : VueltaDe(f)
      /\ coordAEsi \in [Esis -> Seq(Resultados)] /\ planAEsi \in [Esis -> Seq(Ordenes)]
      /\ fase \in [Esis -> Fases] /\ linea \in [Esis -> Nat] /\ pendiente \in [Esis -> BOOLEAN]
      /\ resultado \in [Esis -> {"EJECUCION_CORRECTA", "EJECUCION_FALLO"}]
      /\ guion \in [Esis -> Seq(Instrucciones)]
  BY EsiAssumption DEF InvEsperas, InvListas, InvPosesion, InvCandados, InvPedidos, InvVuelta,
     InvSoporte,
     InvCuenta, InvTipos, TypeOK, ProtocoloTypeOK, EsiTypeOK, Vueltas
<1>1. PICK e \in Esis :
         EsiRecibirOrden(e) \/ EsiEmpezar(e) \/ EsiPedirOperacion(e) \/ EsiLineaInvalida(e)
         \/ EsiFinDeGuion(e) \/ EsiRecibirResultado(e) \/ EsiContestar(e)
         \/ EsiFinInstruccion(e) \/ EsiFinInterrupcion(e)
  BY <1>0 DEF EsiNext, EsiCtrlC, InvVuelta, SinCtrlC
<1>2. UNCHANGED <<memoria, hilo>>
  BY DEF varsPlan, campos, varsCoord
<1>3. UNCHANGED guion
  BY <1>1 DEF EsiRecibirOrden, EsiEmpezar, EsiPedirOperacion, EsiLineaInvalida, EsiFinDeGuion,
     EsiRecibirResultado, EsiContestar, EsiFinInstruccion, EsiFinInterrupcion
<1>4. SUFFICES ASSUME NEW f \in Esis
               PROVE  /\ pendiente'[f] => linea'[f] \in DOMAIN guion[f]
                      /\ PideOtraVez(f)' => Insistente(f)'
  BY <1>3 DEF Insistentes
<1>5. CASE f # e
  <2>1. UNCHANGED Local(f) /\ linea'[f] = linea[f] /\ pendiente'[f] = pendiente[f]
    BY <1>0, <1>1, <1>5, OtrosIgual, OtrosGuiones
  <2>. QED BY <1>0, <1>2, <1>3, <2>1 DEF Insistentes, PideOtraVez, Insistente, Instruccion, Local
<1>6. CASE f = e
  <2>1. /\ pendiente[e] => linea[e] \in DOMAIN guion[e]
        /\ PideOtraVez(e) => Insistente(e)
        /\ VueltaDe(e)
    BY <1>0 DEF Insistentes
  <2>2. CASE EsiRecibirOrden(e)
    <3>1. planAEsi[e] # <<>> /\ fase[e] = "espera_orden" /\ UNCHANGED <<linea, pendiente>>
      BY <2>2 DEF EsiRecibirOrden, PasarA
    <3>2. PideOtraVez(e)' => PideOtraVez(e)
      BY <1>2, <1>3, <3>1 DEF PideOtraVez, Instruccion
    <3>3. memoria[e] \in {"sin_crear", "viva"} => Head(planAEsi[e]) = "EJECUTAR_SCRIPTS"
      BY <2>1, <3>1, Mensajes DEF VueltaDe, EnCurso, Quieto, Ordenada, Leida, Pedida, Servida,
         Resuelta, PorContestar, Contestada, Despedida, Acabado, Conexiones
    <3>4. PideOtraVez(e)' => fase'[e] = "recibio"
      BY <1>0, <2>2, <3>2, <3>3 DEF PideOtraVez, EsiRecibirOrden, PasarA
    <3>. QED BY <1>3, <1>6, <2>1, <3>1, <3>4 DEF Insistente
  <2>3. CASE EsiEmpezar(e)
    <3>1. fase'[e] = "leer" /\ UNCHANGED <<linea, pendiente>>
      BY <1>0, <2>3 DEF EsiEmpezar, PasarA
    <3>. QED BY <1>3, <1>6, <2>1, <3>1 DEF Insistente
  <2>4. CASE EsiPedirOperacion(e)
    <3>1. /\ fase[e] = "leer" /\ fase'[e] = "espera_coord" /\ UNCHANGED <<coordAEsi>>
          /\ linea'[e] = LineaActual(e) /\ LineaActual(e) <= Len(guion[e])
      BY <1>0, <2>4 DEF EsiPedirOperacion, PasarA, HayLinea
    <3>2. Leida(e)
      BY <2>1, <3>1 DEF VueltaDe, EnCurso, Quieto, Echado, Ordenada, Leida, Pedida, Servida,
         Resuelta, PorContestar, Contestada, Despedida, Acabado, EntreOrdenes
    <3>3. linea'[e] \in DOMAIN guion[e]
      <4>1. LineaActual(e) \in Nat /\ LineaActual(e) >= 1
        BY <1>0 DEF LineaActual, LineasLeidas
      <4>2. guion[e] \in Seq(Instrucciones)
        BY <1>0
      <4>. QED BY <3>1, <4>1, <4>2, LenProperties
    <3>. QED BY <1>2, <1>3, <1>6, <3>1, <3>2, <3>3 DEF Insistente, Leida, Conexiones
  <2>5. CASE EsiLineaInvalida(e)
    <3>1. /\ linea'[e] = LineaActual(e) /\ UNCHANGED pendiente
          /\ guion[e][LineaActual(e)].op = "INVALIDA"
      BY <1>0, <2>5 DEF EsiLineaInvalida, Actual
    <3>. QED BY <1>3, <1>6, <2>1, <3>1, LineaPendiente DEF PideOtraVez, Instruccion
  <2>6. CASE EsiFinDeGuion(e)
    <3>1. UNCHANGED <<linea, pendiente>> /\ ~(LineaActual(e) <= Len(guion[e]))
      BY <2>6 DEF EsiFinDeGuion, HayLinea
    <3>2. ~pendiente[e]
      <4>1. guion[e] \in Seq(Instrucciones)
        BY <1>0
      <4>. QED BY <2>1, <3>1, <4>1, LineaPendiente, LenProperties
    <3>. QED BY <1>6, <3>1, <3>2 DEF PideOtraVez
  <2>7. CASE EsiRecibirResultado(e)
    <3>1. /\ fase[e] = "espera_coord" /\ fase'[e] = "contestar" /\ coordAEsi[e] # <<>>
          /\ UNCHANGED linea
      BY <1>0, <2>7 DEF EsiRecibirResultado, PasarA
    <3>2. pendiente[e]
      BY <1>0, <3>1 DEF LineasLeidas
    <3>3. ASSUME PideOtraVez(e)' PROVE resultado'[e] = "EJECUCION_CORRECTA"
      <4>1. PideOtraVez(e)
        BY <1>2, <1>3, <3>1, <3>2, <3>3 DEF PideOtraVez, Instruccion
      <4>2. Head(coordAEsi[e]) \in {"CLAVE_LIBRE", "CLAVE_YA_BLOQUEADA"}
        BY <2>1, <3>1, <4>1, Mensajes DEF Insistente
      <4>3. guion[e][linea[e]].op = "GET"
        BY <4>1 DEF PideOtraVez, Instruccion
      <4>. QED BY <1>0, <2>7, <4>2, <4>3 DEF EsiRecibirResultado
    <3>. QED BY <1>3, <1>6, <2>1, <3>1, <3>2, <3>3 DEF Insistente
  <2>8. CASE EsiContestar(e)
    <3>1. UNCHANGED <<linea, pendiente, resultado>> /\ fase[e] = "contestar"
      BY <2>8 DEF EsiContestar, PasarA
    <3>2. ASSUME PideOtraVez(e)' PROVE fase'[e] = "contesto"
      <4>1. PideOtraVez(e)
        BY <1>2, <1>3, <3>1, <3>2 DEF PideOtraVez, Instruccion
      <4>. QED BY <1>0, <2>1, <2>8, <3>1, <4>1 DEF Insistente, EsiContestar, PasarA
    <3>. QED BY <1>3, <1>6, <2>1, <3>1, <3>2 DEF Insistente
  <2>9. CASE EsiFinInstruccion(e)
    <3>1. fase'[e] = "espera_orden" /\ UNCHANGED <<linea, pendiente>>
      BY <1>0, <2>9 DEF EsiFinInstruccion, PasarA
    <3>. QED BY <1>3, <1>6, <2>1, <3>1 DEF Insistente
  <2>10. CASE EsiFinInterrupcion(e)
    <3>1. fase[e] \in {"int_coord", "int_plan"}
      BY <2>10 DEF EsiFinInterrupcion
    <3>. QED BY <2>1, <3>1 DEF VueltaDe, EnCurso, Quieto, Echado, Ordenada, Leida, Pedida, Servida,
         Resuelta, PorContestar, Contestada, Despedida, Acabado, EntreOrdenes
  <2>. QED BY <1>1, <2>2, <2>3, <2>4, <2>5, <2>6, <2>7, <2>8, <2>9, <2>10
<1>. QED BY <1>5, <1>6

\* The Coordinador grants a GET, or answers that its key is locked.
LEMMA CoordInsiste ==
    ASSUME InvEsperas, CoordinadorNext, UNCHANGED <<varsPlan, varsEsi>>
    PROVE  Insistentes'
<1>0. /\ InvVuelta /\ InvTipos /\ Insistentes /\ GuionServido /\ Servicios /\ SinFallo
      /\ SoporteEnVuelo /\ \A f \in Esis : VueltaDe(f)
      /\ hilo \in [Esis -> Hilos] /\ coordAEsi \in [Esis -> Seq(Resultados)]
      /\ sem_planificador \in Nat
  BY DEF InvEsperas, InvListas, InvPosesion, InvCandados, InvPedidos, InvVuelta, InvSoporte,
     InvCuenta, InvTipos, TypeOK, ProtocoloTypeOK, CoordinadorTypeOK, Vueltas
<1>1. UNCHANGED <<memoria, guion, linea, pendiente, fase, resultado>>
  BY DEF varsPlan, campos, varsEsi
<1>2. \A f \in Esis : PideOtraVez(f)' <=> PideOtraVez(f)
  BY <1>1 DEF PideOtraVez, Instruccion
<1>3. SUFFICES ASSUME NEW f \in Esis, PideOtraVez(f), Insistente(f), fase[f] = "espera_coord"
               PROVE  /\ hilo'[f] # "fin"
                      /\ coordAEsi'[f] \in {<<>>, <<"CLAVE_LIBRE">>, <<"CLAVE_YA_BLOQUEADA">>}
  BY <1>0, <1>1, <1>2 DEF Insistentes, Insistente
<1>4. GuionDe(f) /\ hilo[f] # "fin"
  BY <1>0, <1>3 DEF GuionServido, Insistente
<1>5. CASE hilo'[f] = hilo[f] /\ coordAEsi'[f] = coordAEsi[f]
  BY <1>3, <1>5 DEF Insistente
<1>6. CASE CoordEscucharPlanificador
  BY <1>5, <1>6 DEF CoordEscucharPlanificador
<1>7. ASSUME NEW e \in Esis,
         \/ CoordRecibir(e) \/ CoordDesconexion(e) \/ CoordClaveLarga(e)
         \/ CoordConsultar(e) \/ CoordPermitido(e) \/ CoordClaveBloqueada(e)
         \/ CoordClaveAjena(e) \/ CoordGuardar(e) \/ CoordSetear(e) \/ CoordStorear(e)
         \/ CoordInstanciaFalla(e) \/ CoordInstanciaCalla(e) \/ CoordOrdenEjecutada(e)
      PROVE  /\ hilo'[f] # "fin"
             /\ coordAEsi'[f] \in {<<>>, <<"CLAVE_LIBRE">>, <<"CLAVE_YA_BLOQUEADA">>}
  <2>1. CASE f # e
    BY <1>0, <1>5, <1>7, <2>1, OtrosHilos DEF Local
  <2>2. CASE f = e
    <3>1. EnServicio(e) => /\ pedido[e] = Solicitud(Instruccion(e)) /\ Servida(e)
                           /\ pedido[e].clave = Instruccion(e).clave
                           /\ pedido[e].head = "SOLICITAR_CLAVE"
      BY <1>0, <1>3, <1>4, <2>2, LineaServida, SoloServida DEF GuionDe, PideOtraVez
    <3>2. CASE CoordRecibir(e) \/ CoordConsultar(e) \/ CoordPermitido(e) \/ CoordClaveBloqueada(e)
               \/ CoordGuardar(e) \/ CoordStorear(e) \/ CoordInstanciaCalla(e)
      <4>1. hilo'[e] \in Hilos \ {"fin"} /\ UNCHANGED coordAEsi
        BY <1>0, <3>2 DEF CoordRecibir, CoordConsultar, CoordPermitido, CoordClaveBloqueada,
           CoordGuardar, CoordStorear, CoordInstanciaCalla, Hilos, EnOperacion, canales
      <4>. QED BY <1>3, <2>2, <4>1 DEF Insistente
    <3>3. CASE CoordDesconexion(e)
      <4>1. hilo[e] = "mutex" /\ ~EsOperacion(e)
        BY <3>3 DEF CoordDesconexion
      <4>2. VueltaDe(e) /\ fase[e] = "espera_coord"
        BY <1>0, <1>3, <2>2
      <4>. QED BY <4>1, <4>2 DEF VueltaDe, EnCurso, Quieto, Echado, Ordenada, Leida, Pedida,
                  Servida,
         Resuelta, PorContestar, Contestada, Despedida, Acabado, EntreOrdenes, EnServicio,
         EnOperacion
    <3>4. CASE CoordClaveLarga(e)
      <4>1. EnServicio(e) /\ pedido[e].clave \in ClavesLargas
        BY <3>4 DEF CoordClaveLarga, EnServicio
      <4>. QED BY <1>3, <2>2, <3>1, <4>1 DEF PideOtraVez
    <3>5. CASE CoordClaveAjena(e)
      <4>1. /\ hilo[e] = "consulta" /\ sem_planificador > 0
            /\ mensaje_planificador = "RESPUESTA_CLAVE_BLOQUEADA_POR_ESI_FALLO"
        BY <3>5 DEF CoordClaveAjena, EsperarPlanificador
      <4>2. sem_planificador = 1
        BY <1>0, <4>1 DEF SoporteEnVuelo, PedidoEnVuelo, RespuestaEnVuelo, RespuestaDejada, EnEspera
      <4>3. Contestado(e, "RESPUESTA_CLAVE_BLOQUEADA_POR_ESI_FALLO")
        BY <4>1, <4>2 DEF Contestado
      <4>4. pedido[e].head # "SOLICITAR_CLAVE"
        BY <1>0, <4>3 DEF Servicios, Servicio, RespuestasSoporte
      <4>. QED BY <3>1, <4>1, <4>4 DEF EnServicio, EnOperacion
    <3>6. CASE CoordSetear(e)
      BY <3>1, <3>6 DEF CoordSetear, EnServicio, EnOperacion
    <3>7. CASE CoordInstanciaFalla(e)
      BY <1>0, <3>7 DEF CoordInstanciaFalla, Responde, SinFallo
    <3>8. CASE CoordOrdenEjecutada(e)
      <4>1. EnServicio(e)
        BY <3>8 DEF CoordOrdenEjecutada, EnServicio, EnOperacion
      <4>2. coordAEsi[e] = <<>> /\ RespuestaTrasOrden(e) \in {"CLAVE_LIBRE", "CLAVE_YA_BLOQUEADA"}
        BY <3>1, <4>1 DEF Servida, Conexiones, RespuestaTrasOrden
      <4>3. /\ hilo'[e] = "recibe"
            /\ coordAEsi'[e] = Append(coordAEsi[e], RespuestaTrasOrden(e))
        BY <1>0, <3>8 DEF CoordOrdenEjecutada, Cumplir, Enviar
      <4>. QED BY <2>2, <4>2, <4>3, Mensajes
    <3>. QED BY <1>7, <3>2, <3>3, <3>4, <3>5, <3>6, <3>7, <3>8
  <2>. QED BY <2>1, <2>2
<1>. QED BY <1>6, <1>7 DEF CoordinadorNext

\* The Planificador does not touch what an ESI insists on.
LEMMA PlanInsiste ==
    ASSUME InvEsperas, PlanificadorNext, UNCHANGED <<varsEsi, varsCoord>>
    PROVE  Insistentes'
<1>0. Insistentes /\ PlanificadorTypeOK
  BY DEF InvEsperas, InvListas, InvPosesion, InvCandados, InvPedidos, InvVuelta, InvSoporte,
     InvCuenta,
     InvTipos, TypeOK
<1>1. UNCHANGED <<guion, linea, pendiente, fase, resultado, hilo>>
  BY DEF varsEsi, varsCoord
<1>2. UNCHANGED coordAEsi
  BY DEF PlanificadorNext, Planificar, PlanInicio, PlanRevisar, PlanDesalojar, PlanDesalojarMutex,
     PlanDesalojarFin, PlanElegir, PlanEsperaSem, PlanSelPausa, PlanSeleccionar, PlanPausa,
     PlanDespachar, PlanRespuestaCorrecta, PlanRespuestaFinal, TerminarEsi, TerminarDesbloquear,
     TerminarEliminar, TerminarSiguientePaso, TerminarLiberar, Soporte, SoporteClaveLibre,
     SoporteBloquearEsi, SoporteBloquearClave, SoporteClaveDeEsi, SoporteDesbloquearClave, Atender,
     Consola, ConsolaPausar, ConsolaContinuar, ConsolaSemWait, ConsolaKill,
     ConsolaBloquearEjecutando, ConsolaBloquearListo, ConsolaDesbloquear, UsoIndebido,
     AgregarNuevoEsi, canales
<1>3. ASSUME NEW f \in Esis, memoria'[f] \in {"sin_crear", "viva"}
      PROVE  memoria[f] \in {"sin_crear", "viva"}
  <2>1. \/ UNCHANGED memoria
        \/ \E e \in Esis : memoria[e] = "sin_crear" /\ memoria' = [memoria EXCEPT ![e] = "viva"]
        \/ \E e : memoria' = [memoria EXCEPT ![e] = "terminando"]
        \/ \E e : memoria' = [memoria EXCEPT ![e] = "liberada"]
    BY DEF PlanificadorNext, Planificar, PlanInicio, PlanRevisar, PlanDesalojar,
     PlanDesalojarMutex, PlanDesalojarFin, PlanElegir, PlanEsperaSem, PlanSelPausa,
     PlanSeleccionar, PlanPausa, PlanDespachar, PlanRespuestaCorrecta, PlanRespuestaFinal,
     TerminarEsi, TerminarDesbloquear, TerminarEliminar, TerminarSiguientePaso, TerminarLiberar,
     Soporte, SoporteClaveLibre, SoporteBloquearEsi, SoporteBloquearClave, SoporteClaveDeEsi,
     SoporteDesbloquearClave, Consola, ConsolaPausar, ConsolaContinuar, ConsolaSemWait, ConsolaKill,
     ConsolaBloquearEjecutando, ConsolaBloquearListo, ConsolaDesbloquear, UsoIndebido,
     AgregarNuevoEsi, EmpezarTerminar, campos, varsPlan
  <2>. QED BY <1>0, <1>3, <2>1 DEF PlanificadorTypeOK
<1>4. \A f \in Esis : PideOtraVez(f)' => PideOtraVez(f)
  BY <1>1, <1>3 DEF PideOtraVez, Instruccion
<1>. QED BY <1>0, <1>1, <1>2, <1>4 DEF Insistentes, Insistente

\* Blocked ESIs are alive.
LEMMA BloqueadosVivos ==
    ASSUME InvListas, NEW e \in ToSet(bloqueados)
    PROVE  e \in Esis /\ memoria[e] = "viva" /\ bloqueado[e] /\ Legible(e)
<1>1. /\ Listas /\ Ejecutor /\ UnaVictima /\ bloqueados \in Seq(Esis)
      /\ memoria \in [Esis -> Memorias]
  BY DEF InvListas, InvPosesion, InvCandados, InvPedidos, InvVuelta, InvSoporte, InvCuenta,
     InvTipos, TypeOK,
     PlanificadorTypeOK
<1>2. e \in Esis
  BY <1>1, EnSeq
<1>3. Legible(e) /\ bloqueado[e]
  BY <1>1, <1>2 DEF Listas
<1>4. memoria[e] # "terminando"
  BY <1>1, <1>2 DEF UnaVictima, Ejecutor, Listas
<1>. QED BY <1>2, <1>3, <1>4 DEF Legible

\* A blocked ESI does not go on to another line.
LEMMA EsiPendientes ==
    ASSUME InvEsperas, EsiNext, UNCHANGED <<varsPlan, varsCoord>>
    PROVE  Pendientes'
<1>0. /\ InvVuelta /\ InvTipos /\ Pendientes /\ BloqueoEnCurso /\ InvListas
      /\ \A f \in Esis : VueltaDe(f)
      /\ linea \in [Esis -> Nat] /\ pendiente \in [Esis -> BOOLEAN]
      /\ coordAEsi \in [Esis -> Seq(Resultados)]
  BY DEF InvEsperas, InvListas, InvPosesion, InvCandados, InvPedidos, InvVuelta, InvSoporte,
     InvCuenta, InvTipos, TypeOK, EsiTypeOK, ProtocoloTypeOK, Vueltas
<1>1. PICK e \in Esis :
         EsiRecibirOrden(e) \/ EsiEmpezar(e) \/ EsiPedirOperacion(e) \/ EsiLineaInvalida(e)
         \/ EsiFinDeGuion(e) \/ EsiRecibirResultado(e) \/ EsiContestar(e)
         \/ EsiFinInstruccion(e) \/ EsiFinInterrupcion(e)
  BY <1>0 DEF EsiNext, EsiCtrlC, InvVuelta, SinCtrlC
<1>2. UNCHANGED <<bloqueados, clave_bloqueante>>
  BY DEF varsPlan, listas, campos
<1>3. UNCHANGED guion
  BY <1>1 DEF EsiRecibirOrden, EsiEmpezar, EsiPedirOperacion, EsiLineaInvalida, EsiFinDeGuion,
     EsiRecibirResultado, EsiContestar, EsiFinInstruccion, EsiFinInterrupcion
<1>4. SUFFICES ASSUME NEW f \in ToSet(bloqueados)
               PROVE  pendiente'[f] /\ linea'[f] = linea[f]
  BY <1>0, <1>2, <1>3 DEF Pendientes, Instruccion
<1>5. f \in Esis /\ pendiente[f] /\ memoria[f] = "viva"
  BY <1>0, <1>4, BloqueadosVivos DEF Pendientes
<1>6. CASE f # e
  BY <1>0, <1>1, <1>5, <1>6, OtrosGuiones
<1>7. CASE f = e /\ EsiRecibirResultado(e)
  <2>1. fase[e] = "espera_coord" /\ coordAEsi[e] # <<>>
    BY <1>7 DEF EsiRecibirResultado, PasarA
  <2>2. Resuelta(e) /\ Aguardado(e)
    BY <1>0, <1>5, <1>7, <2>1 DEF VueltaDe, EnCurso, Quieto, Echado, Ordenada, Leida, Pedida,
       Servida, Resuelta, PorContestar, Contestada, Despedida, Acabado, EntreOrdenes, Conexiones
  <2>3. YaBloqueado(e)
    BY <1>0, <1>4, <1>5, <1>7, <2>2 DEF BloqueoEnCurso
  <2>4. coordAEsi[e] = <<"CLAVE_YA_BLOQUEADA">>
    BY <2>1, <2>2, <2>3 DEF YaBloqueado, Resuelta, PorContestar, Contestada, EntreOrdenes
  <2>5. Head(coordAEsi[e]) = "CLAVE_YA_BLOQUEADA"
    BY <2>4, Mensajes
  <2>. QED BY <1>0, <1>7, <2>5 DEF EsiRecibirResultado
<1>8. CASE f = e /\ ~EsiRecibirResultado(e)
  BY <1>0, <1>1, <1>5, <1>8, LineaPendiente DEF EsiRecibirOrden, EsiEmpezar, EsiPedirOperacion,
     EsiLineaInvalida, EsiFinDeGuion, EsiContestar, EsiFinInstruccion, EsiFinInterrupcion
<1>. QED BY <1>6, <1>7, <1>8

\* Waking somebody changes nothing for who goes on being blocked.
LEMMA QuedanBloqueados ==
    ASSUME InvListas, NEW k, DesbloquearEsiPorClave(k), NEW f \in ToSet(bloqueados')
    PROVE  f \in ToSet(bloqueados) /\ clave_bloqueante'[f] = clave_bloqueante[f]
<1>0. Listas /\ PlanificadorTypeOK
  BY DEF InvListas, InvPosesion, InvCandados, InvPedidos, InvVuelta, InvSoporte, InvCuenta,
     InvTipos, TypeOK
<1>1. CASE Esperando(k) = {}
  BY <1>1 DEF DesbloquearEsiPorClave
<1>2. CASE Esperando(k) # {}
  <2>1. PICK w \in Esis : w \in ToSet(bloqueados) /\ BloqueadoAListo(w)
    BY <1>0, <1>2, Despertado
  <2>2. ToSet(bloqueados') = ToSet(bloqueados) \ {w}
    <3>1. bloqueados \in Seq(Esis) /\ IsInjective(bloqueados)
      BY <1>0 DEF PlanificadorTypeOK, Listas
    <3>. QED BY <2>1, <3>1, SacarInyectiva DEF BloqueadoAListo, Quitar
  <2>3. f \in Esis /\ f # w
    BY <1>0, <2>2, EnSeq DEF PlanificadorTypeOK
  <2>. QED BY <1>0, <2>1, <2>2, <2>3 DEF BloqueadoAListo, PlanificadorTypeOK
<1>. QED BY <1>1, <1>2

\* Only soporte blocks an ESI, and nobody changes what one waits for.
LEMMA SiguenBloqueados ==
    ASSUME InvListas, PlanificadorNext, ~SoporteBloquearEsi, NEW f \in ToSet(bloqueados')
    PROVE  f \in ToSet(bloqueados) /\ clave_bloqueante'[f] = clave_bloqueante[f]
<1>0. /\ Listas /\ Ejecutor /\ PlanificadorTypeOK /\ PunterosReales /\ SinOrdenes
      /\ terminando.paso # "sem_wait"
  BY SoloPlanificar DEF InvListas, InvPosesion, InvCandados, InvPedidos, InvVuelta, InvSoporte,
     InvCuenta,
     InvTipos, TypeOK
<1>1. CASE Soporte
  <2>1. CASE SoporteClaveLibre \/ SoporteClaveDeEsi \/ SoporteBloquearClave
    BY <2>1 DEF SoporteClaveLibre, SoporteClaveDeEsi, SoporteBloquearClave, varsPlan, listas, campos
  <2>2. CASE SoporteDesbloquearClave
    <3>1. DesbloquearEsiPorClave(clave_pedida)
      BY <2>2 DEF SoporteDesbloquearClave
    <3>2. PICK k : k = clave_pedida
      OBVIOUS
    <3>. QED BY <3>1, <3>2, QuedanBloqueados
  <2>. QED BY <1>1, <2>1, <2>2 DEF Soporte
<1>2. CASE TerminarEsi
  <2>1. CASE TerminarDesbloquear
    <3>1. PICK k : DesbloquearEsiPorClave(k)
      BY <2>1 DEF TerminarDesbloquear
    <3>. QED BY <3>1, QuedanBloqueados
  <2>2. CASE TerminarEliminar \/ TerminarSiguientePaso
    BY <2>2 DEF TerminarEliminar, TerminarSiguientePaso, listas, campos
  <2>3. CASE TerminarLiberar
    <3>1. PICK v \in Esis : /\ v = terminando.victima /\ terminando.origen = "ejecutando"
                            /\ v \notin ToSet(bloqueados)
      BY <1>0, <2>3 DEF TerminarLiberar, ConVictima, Ejecutor, PunterosReales, Listas
    <3>2. UNCHANGED bloqueados /\ clave_bloqueante' = [clave_bloqueante EXCEPT ![v] = NULL]
      BY <2>3, <3>1 DEF TerminarLiberar
    <3>3. f \in Esis /\ f # v
      BY <1>0, <3>1, <3>2, EnSeq DEF PlanificadorTypeOK
    <3>. QED BY <1>0, <3>2, <3>3 DEF PlanificadorTypeOK
  <2>. QED BY <1>2, <2>1, <2>2, <2>3 DEF TerminarEsi
<1>3. CASE Planificar \/ Consola \/ UsoIndebido \/ \E e \in Esis : AgregarNuevoEsi(e)
  <2>1. ~ConsolaSemWait
    BY <1>0 DEF ConsolaSemWait
  <2>2. Consola => ConsolaPausar \/ ConsolaContinuar
    BY <1>0, <2>1 DEF Consola, SinOrdenes, Comando, ConsolaKill, ConsolaBloquearEjecutando,
       ConsolaBloquearListo, ConsolaDesbloquear
  <2>. QED BY <1>3, <2>2 DEF Planificar, PlanInicio, PlanRevisar, PlanDesalojar,
           PlanDesalojarMutex, PlanDesalojarFin, PlanElegir, PlanEsperaSem, PlanSelPausa,
           PlanSeleccionar, PlanPausa, PlanDespachar, PlanRespuestaCorrecta, PlanRespuestaFinal,
           ConsolaPausar, ConsolaContinuar, UsoIndebido, AgregarNuevoEsi, listas, campos, varsPlan
<1>. QED BY <1>1, <1>2, <1>3 DEF PlanificadorNext

\* soporte blocks the ESI whose GET was denied.
LEMMA NuevoBloqueado ==
    ASSUME InvListas, SoporteBloquearEsi
    PROVE  \E e \in Esis :
              /\ e \notin ToSet(bloqueados) /\ ToSet(bloqueados') = ToSet(bloqueados) \cup {e}
              /\ bloqueado' = [bloqueado EXCEPT ![e] = TRUE]
              /\ \A f \in ToSet(bloqueados) : clave_bloqueante'[f] = clave_bloqueante[f]
              /\ pendiente[e] /\ Instruccion(e) = [op |-> "GET", clave |-> clave_bloqueante'[e]]
              /\ clave_bloqueante'[e] \notin ClavesLargas
              /\ clave_bloqueante'[e] \in ToSet(claves_bloqueadas)
              /\ terminando = Nadie
<1>0. /\ Listas /\ PlanificadorTypeOK /\ InvTipos /\ GuionServido /\ Servicios /\ Negadas
      /\ LineasLeidas
  BY DEF InvListas, InvPosesion, InvCandados, InvPedidos, InvVuelta, InvSoporte, InvCuenta,
     InvTipos, TypeOK
<1>1. PICK e \in Esis :
              /\ hilo[e] \in EnEspera /\ esi_a_ejecutar = e /\ Servida(e)
              /\ clave_pedida = pedido[e].clave /\ pedido[e].clave \in Claves
              /\ Head(coordAPlan).head = OrdenDebida(e) /\ coordAPlan # <<>>
              /\ e \notin ToSet(bloqueados) /\ terminando = Nadie
  BY SoporteEjecuta DEF Soporte
<1>2. hilo[e] = "orden_esi"
  <2>1. Head(coordAPlan).head = "BLOQUEAR_ESI"
    BY DEF SoporteBloquearEsi, Atender
  <2>. QED BY <1>1, <2>1 DEF OrdenDebida, EnEspera
<1>3. /\ Instruccion(e) \in Instrucciones /\ pedido[e].clave = Instruccion(e).clave
      /\ Instruccion(e).op = "GET" /\ pedido[e].clave \notin ClavesLargas
  BY <1>0, <1>1, <1>2, LineaServida DEF Servida, GuionServido, Servicios, Servicio, EnOperacion
<1>4. Instruccion(e) = [op |-> "GET", clave |-> pedido[e].clave]
  BY <1>3 DEF Instrucciones
<1>5. pendiente[e] /\ pedido[e].clave \in ToSet(claves_bloqueadas)
  BY <1>0, <1>1, <1>2 DEF LineasLeidas, Servida, Negadas, Negada
<1>6. /\ bloqueados' = Append(bloqueados, e)
      /\ clave_bloqueante' = [clave_bloqueante EXCEPT ![e] = pedido[e].clave]
      /\ bloqueado' = [bloqueado EXCEPT ![e] = TRUE]
  BY <1>1 DEF SoporteBloquearEsi, EjecutandoABloqueado
<1>7. ToSet(bloqueados') = ToSet(bloqueados) \cup {e}
  BY <1>0, <1>6, AgregarTipo DEF PlanificadorTypeOK
<1>8. /\ clave_bloqueante'[e] = pedido[e].clave
      /\ \A f \in ToSet(bloqueados) : clave_bloqueante'[f] = clave_bloqueante[f]
  BY <1>0, <1>1, <1>6, EnSeq DEF PlanificadorTypeOK
<1>. QED BY <1>1, <1>3, <1>4, <1>5, <1>6, <1>7, <1>8

\* What is pending stays so, whatever the Planificador does.
LEMMA PlanPendientes ==
    ASSUME InvEsperas, PlanificadorNext, UNCHANGED <<varsEsi, varsCoord>>
    PROVE  Pendientes'
<1>0. InvListas /\ Pendientes /\ UNCHANGED <<pendiente, guion, linea>>
  BY DEF InvEsperas, varsEsi
<1>1. CASE SoporteBloquearEsi
  BY <1>0, <1>1, NuevoBloqueado DEF Pendientes, Instruccion
<1>2. CASE ~SoporteBloquearEsi
  <2>1. SUFFICES ASSUME NEW f \in ToSet(bloqueados')
                 PROVE  /\ pendiente[f]
                        /\ Instruccion(f) = [op |-> "GET", clave |-> clave_bloqueante'[f]]
                        /\ clave_bloqueante'[f] \notin ClavesLargas
    BY <1>0 DEF Pendientes, Instruccion
  <2>. QED BY <1>0, <1>2, <2>1, SiguenBloqueados DEF Pendientes
<1>. QED BY <1>1, <1>2

\* Nobody is being terminated: no key has been seen to.
LEMMA NadaAtendido == ASSUME terminando = Nadie PROVE Atendidas = {}
BY DEF Atendidas, Nadie

\* Who has a GET of a free key pending goes on until it is granted.
LEMMA EsiEsperas ==
    ASSUME InvEsperas, EsiNext, UNCHANGED <<varsPlan, varsCoord>>
    PROVE  Esperas'
<1>0. /\ InvVuelta /\ InvTipos /\ Insistentes /\ Pendientes /\ Esperas /\ InvListas
      /\ GuionServido /\ \A f \in Esis : VueltaDe(f)
      /\ linea \in [Esis -> Nat] /\ pendiente \in [Esis -> BOOLEAN]
      /\ coordAEsi \in [Esis -> Seq(Resultados)]
  BY DEF InvEsperas, InvListas, InvPosesion, InvCandados, InvPedidos, InvVuelta, InvSoporte,
     InvCuenta, InvTipos, TypeOK, EsiTypeOK, ProtocoloTypeOK, Vueltas
<1>1. PICK e \in Esis :
         EsiRecibirOrden(e) \/ EsiEmpezar(e) \/ EsiPedirOperacion(e) \/ EsiLineaInvalida(e)
         \/ EsiFinDeGuion(e) \/ EsiRecibirResultado(e) \/ EsiContestar(e)
         \/ EsiFinInstruccion(e) \/ EsiFinInterrupcion(e)
  BY <1>0 DEF EsiNext, EsiCtrlC, InvVuelta, SinCtrlC
<1>2. UNCHANGED <<bloqueados, clave_bloqueante, claves_bloqueadas, claves_esi, terminando,
                  memoria, bloqueado>>
  BY DEF varsPlan, listas, campos, hilos
<1>3. UNCHANGED guion
  BY <1>1 DEF EsiRecibirOrden, EsiEmpezar, EsiPedirOperacion, EsiLineaInvalida, EsiFinDeGuion,
     EsiRecibirResultado, EsiContestar, EsiFinInstruccion, EsiFinInterrupcion
<1>4. \A k : Tomada(k)' <=> Tomada(k)
  BY <1>2 DEF Tomada, Atendidas
<1>5. SUFFICES ASSUME NEW x \in ToSet(bloqueados), NEW f \in Esis,
                      VuelveAPedir(f, clave_bloqueante[x])
               PROVE  Tomada(clave_bloqueante[x]) \/ VuelveAPedir(f, clave_bloqueante[x])'
  BY <1>0, <1>2, <1>4 DEF Esperas, HayQuienPida, VuelveAPedir
<1>6. PICK k : k = clave_bloqueante[x] /\ k \notin ClavesLargas
  BY <1>0 DEF Pendientes
<1>7. /\ pendiente[f] /\ ~bloqueado[f] /\ memoria[f] = "viva"
      /\ guion[f][linea[f]] = [op |-> "GET", clave |-> k]
  BY <1>5, <1>6 DEF VuelveAPedir
<1>8. CASE pendiente'[f] /\ linea'[f] = linea[f]
  BY <1>2, <1>3, <1>6, <1>7, <1>8 DEF VuelveAPedir
<1>9. CASE f # e
  BY <1>0, <1>1, <1>7, <1>8, <1>9, OtrosGuiones
<1>10. CASE f = e /\ ~EsiRecibirResultado(e)
  BY <1>0, <1>1, <1>7, <1>8, <1>10, LineaPendiente DEF EsiRecibirOrden, EsiEmpezar,
     EsiPedirOperacion, EsiLineaInvalida, EsiFinDeGuion, EsiContestar, EsiFinInstruccion,
     EsiFinInterrupcion
<1>11. CASE f = e /\ EsiRecibirResultado(e)
  <2>1. fase[e] = "espera_coord" /\ coordAEsi[e] # <<>> /\ UNCHANGED linea
    BY <1>11 DEF EsiRecibirResultado, PasarA
  <2>2. PideOtraVez(e)
    BY <1>6, <1>7, <1>11 DEF PideOtraVez, Instruccion
  <2>3. coordAEsi[e] \in {<<"CLAVE_LIBRE">>, <<"CLAVE_YA_BLOQUEADA">>}
    BY <1>0, <2>1, <2>2 DEF Insistentes, Insistente
  <2>4. CASE coordAEsi[e] = <<"CLAVE_YA_BLOQUEADA">>
    <3>1. Head(coordAEsi[e]) = "CLAVE_YA_BLOQUEADA"
      BY <2>4, Mensajes
    <3>. QED BY <1>0, <1>8, <1>11, <2>1, <3>1 DEF EsiRecibirResultado
  <2>5. CASE coordAEsi[e] = <<"CLAVE_LIBRE">>
    <3>1. k \in ToSet(claves_esi[e])
      BY <1>0, <1>7, <1>11, <2>1, <2>5 DEF GuionServido, GuionDe, Instruccion
    <3>2. terminando = Nadie
      BY <1>0, <1>7, <1>11, <2>1 DEF VueltaDe, EnCurso, Quieto, Echado, Acabado, EntreOrdenes,
         Aguardado
    <3>3. k \in Claves
      <4>1. ToSet(claves_esi[e]) \subseteq Claves
        BY <1>0, EnSeq DEF InvTipos, TypeOK, PlanificadorTypeOK
      <4>. QED BY <3>1, <4>1
    <3>4. k \in ToSet(claves_bloqueadas)
      BY <1>0, <3>1, <3>2, <3>3, TablaDeClaves DEF Duenos
    <3>. QED BY <1>6, <3>2, <3>4, NadaAtendido DEF Tomada
  <2>. QED BY <2>3, <2>4, <2>5
<1>. QED BY <1>1, <1>9, <1>10, <1>11

\* The Planificador does not stop who asks again, but to block it.
LEMMA TestigoSigue ==
    ASSUME InvEsperas, PlanificadorNext, ~SoporteBloquearEsi, UNCHANGED <<varsEsi, varsCoord>>,
           NEW f \in Esis, NEW k, k \notin ClavesLargas, VuelveAPedir(f, k)
    PROVE  VuelveAPedir(f, k)'
<1>0. /\ InvListas /\ Insistentes /\ PlanificadorTypeOK /\ VueltaDe(f) /\ UnaVictima
      /\ SinOrdenes /\ terminando.paso # "sem_wait"
  BY SoloPlanificar DEF InvEsperas, InvListas, InvPosesion, InvCandados, InvPedidos, InvVuelta,
     InvSoporte,
     InvCuenta, InvTipos, TypeOK, Vueltas
<1>1. /\ pendiente[f] /\ ~bloqueado[f] /\ memoria[f] = "viva"
      /\ guion[f][linea[f]] = [op |-> "GET", clave |-> k]
      /\ UNCHANGED <<pendiente, guion, linea>>
  BY DEF VuelveAPedir, varsEsi
<1>2. SUFFICES memoria'[f] = "viva" /\ ~bloqueado'[f]
  BY <1>1 DEF VuelveAPedir
<1>3. CASE Soporte
  <2>1. UNCHANGED memoria
    BY <1>3 DEF Soporte, SoporteClaveLibre, SoporteBloquearClave, SoporteClaveDeEsi,
       SoporteDesbloquearClave, varsPlan, campos
  <2>2. CASE SoporteDesbloquearClave
    <3>1. UNCHANGED bloqueado \/ \E w : bloqueado' = [bloqueado EXCEPT ![w] = FALSE]
      BY <2>2 DEF SoporteDesbloquearClave, DesbloquearEsiPorClave, BloqueadoAListo
    <3>. QED BY <1>0, <1>1, <2>1, <3>1 DEF PlanificadorTypeOK
  <2>3. CASE ~SoporteDesbloquearClave
    BY <1>1, <1>3, <2>1, <2>3 DEF Soporte, SoporteClaveLibre, SoporteBloquearClave,
       SoporteClaveDeEsi, varsPlan, campos
  <2>. QED BY <2>2, <2>3
<1>4. CASE TerminarEsi
  <2>1. CASE TerminarDesbloquear
    <3>1. /\ UNCHANGED bloqueado \/ \E w : bloqueado' = [bloqueado EXCEPT ![w] = FALSE]
          /\ UNCHANGED memoria
      BY <2>1 DEF TerminarDesbloquear, DesbloquearEsiPorClave, BloqueadoAListo
    <3>. QED BY <1>0, <1>1, <3>1 DEF PlanificadorTypeOK
  <2>2. CASE TerminarEliminar \/ TerminarSiguientePaso
    BY <1>1, <2>2 DEF TerminarEliminar, TerminarSiguientePaso, campos
  <2>3. CASE TerminarLiberar
    <3>1. f # terminando.victima
      BY <1>0, <1>1, <2>3 DEF UnaVictima, TerminarLiberar, ConVictima
    <3>. QED BY <1>0, <1>1, <2>3, <3>1 DEF TerminarLiberar, PlanificadorTypeOK
  <2>. QED BY <1>4, <2>1, <2>2, <2>3 DEF TerminarEsi
<1>5. CASE PlanRespuestaFinal
  <2>1. f # esi_a_ejecutar
    <3>1. SUFFICES ASSUME f = esi_a_ejecutar PROVE FALSE
      OBVIOUS
    <3>2. /\ Aguardado(f) /\ esiAPlan[f] # <<>> /\ Head(esiAPlan[f]) # "EJECUCION_CORRECTA"
      BY <1>5, <3>1 DEF PlanRespuestaFinal, Aguardado
    <3>3. Despedida(f)
      BY <1>0, <1>1, <3>2, Mensajes DEF VueltaDe, EnCurso, Ordenada, Leida, Pedida, Servida,
         Resuelta, PorContestar, Contestada, Conexiones
    <3>4. PideOtraVez(f)
      BY <1>1 DEF PideOtraVez, Instruccion
    <3>. QED BY <1>0, <3>3, <3>4 DEF Insistentes, Insistente, Despedida, Acabado
  <2>. QED BY <1>0, <1>1, <1>5, <2>1 DEF PlanRespuestaFinal, EmpezarTerminar, PlanificadorTypeOK
<1>6. ASSUME NEW e \in Esis, AgregarNuevoEsi(e) PROVE memoria'[f] = "viva" /\ ~bloqueado'[f]
  BY <1>0, <1>1, <1>6 DEF AgregarNuevoEsi, PlanificadorTypeOK
<1>7. CASE (Planificar /\ ~PlanRespuestaFinal) \/ Consola \/ UsoIndebido
  <2>1. ~ConsolaSemWait
    BY <1>0 DEF ConsolaSemWait
  <2>2. Consola => ConsolaPausar \/ ConsolaContinuar
    BY <1>0, <2>1 DEF Consola, SinOrdenes, Comando, ConsolaKill, ConsolaBloquearEjecutando,
       ConsolaBloquearListo, ConsolaDesbloquear
  <2>. QED BY <1>1, <1>7, <2>2 DEF Planificar, PlanInicio, PlanRevisar, PlanDesalojar,
           PlanDesalojarMutex, PlanDesalojarFin, PlanElegir, PlanEsperaSem, PlanSelPausa,
           PlanSeleccionar, PlanPausa, PlanDespachar, PlanRespuestaCorrecta,
           ConsolaPausar, ConsolaContinuar, UsoIndebido, campos, varsPlan
<1>. QED BY <1>3, <1>4, <1>5, <1>6, <1>7 DEF PlanificadorNext

\* Whoever goes on waiting for a key that is given back has the one that was woken
\* to ask for it again.
LEMMA DespertadoPide ==
    ASSUME InvEsperas, UNCHANGED <<varsEsi, memoria>>, NEW k, DesbloquearEsiPorClave(k),
           NEW x \in ToSet(bloqueados'), clave_bloqueante'[x] = k
    PROVE  HayQuienPida(k)'
<1>0. InvListas /\ Pendientes /\ PlanificadorTypeOK
  BY DEF InvEsperas, InvListas, InvPosesion, InvCandados, InvPedidos, InvVuelta, InvSoporte,
     InvCuenta,
     InvTipos, TypeOK
<1>1. x \in ToSet(bloqueados) /\ clave_bloqueante[x] = k
  BY <1>0, QuedanBloqueados
<1>2. Esperando(k) # {}
  BY <1>0, <1>1, BloqueadosVivos DEF Esperando, ToSet
<1>3. PICK w \in Esis : w \in ToSet(bloqueados) /\ clave_bloqueante[w] = k /\ BloqueadoAListo(w)
  BY <1>0, <1>2, Despertado
<1>4. /\ pendiente[w] /\ memoria[w] = "viva"
      /\ guion[w][linea[w]] = [op |-> "GET", clave |-> k]
  BY <1>0, <1>3, BloqueadosVivos DEF Pendientes, Instruccion
<1>5. ~bloqueado'[w]
  BY <1>0, <1>3 DEF BloqueadoAListo, PlanificadorTypeOK
<1>6. VuelveAPedir(w, k)'
  BY <1>4, <1>5 DEF VuelveAPedir, varsEsi
<1>. QED BY <1>6 DEF HayQuienPida

\* A key that is locked stays so, is taken by who asks for it, or is given back to
\* somebody who asks for it again.
LEMMA TomadaSigue ==
    ASSUME InvEsperas, PlanificadorNext, ~SoporteBloquearEsi, UNCHANGED <<varsEsi, varsCoord>>,
           NEW x \in ToSet(bloqueados'), NEW k, clave_bloqueante'[x] = k, Tomada(k)
    PROVE  Tomada(k)' \/ HayQuienPida(k)'
<1>0. /\ InvListas /\ PlanificadorTypeOK /\ SinOrdenes /\ PunterosReales /\ Recorrido
      /\ terminando.paso # "sem_wait" /\ Candados /\ Ejecutor
      /\ claves_bloqueadas \in Seq(Claves) /\ claves_esi \in [Esis -> Seq(Claves)]
      /\ mutex_listas # "consola"
  BY SoloPlanificar DEF InvEsperas, InvListas, InvPosesion, InvCandados, InvPedidos, InvVuelta,
     InvSoporte,
     InvCuenta, InvTipos, TypeOK, PlanificadorTypeOK, Ejecutor
<1>1. CASE UNCHANGED <<claves_bloqueadas, claves_esi, terminando>>
  BY <1>1 DEF Tomada, Atendidas
<1>2. k \in ToSet(claves_bloqueadas) /\ k \notin Atendidas
  BY DEF Tomada
<1>3. CASE Soporte
  <2>1. /\ terminando = Nadie /\ terminando' = Nadie
    BY <1>0, <1>3, SoporteEjecuta DEF Soporte, SoporteClaveLibre, SoporteBloquearClave,
       SoporteClaveDeEsi, SoporteDesbloquearClave, varsPlan, hilos
  <2>2. Atendidas' = {}
    BY <2>1 DEF Atendidas, Nadie
  <2>3. CASE SoporteClaveLibre \/ SoporteClaveDeEsi
    BY <1>1, <2>3 DEF SoporteClaveLibre, SoporteClaveDeEsi, varsPlan, campos, hilos
  <2>4. CASE SoporteBloquearClave
    <3>1. PICK c \in Claves : c = clave_pedida
      BY <1>0, <1>3, SoporteEjecuta
    <3>2. claves_bloqueadas' = Append(claves_bloqueadas, c)
      BY <2>4, <3>1 DEF SoporteBloquearClave
    <3>3. k \in ToSet(claves_bloqueadas')
      BY <1>0, <1>2, <3>2, AgregarTipo
    <3>. QED BY <2>2, <3>3 DEF Tomada
  <2>5. CASE SoporteDesbloquearClave
    <3>1. PICK c : c = clave_pedida
      OBVIOUS
    <3>2. /\ DesbloquearEsiPorClave(c) /\ UNCHANGED memoria
          /\ claves_bloqueadas' = claves_bloqueadas
             \/ claves_bloqueadas' = Quitar(claves_bloqueadas, c)
      BY <2>5, <3>1 DEF SoporteDesbloquearClave
    <3>3. CASE k = c
      BY <3>2, <3>3, DespertadoPide
    <3>4. CASE k # c
      <4>1. k \in ToSet(claves_bloqueadas')
        BY <1>0, <1>2, <3>2, <3>4, QuitarOtros
      <4>. QED BY <2>2, <4>1 DEF Tomada
    <3>. QED BY <3>3, <3>4
  <2>. QED BY <1>3, <2>3, <2>4, <2>5 DEF Soporte
<1>4. CASE TerminarEsi
  <2>1. terminando.paso \in ConVictima
    BY <1>4 DEF TerminarEsi, TerminarDesbloquear, TerminarEliminar, TerminarSiguientePaso,
       TerminarLiberar, ConVictima
  <2>2. PICK v \in Esis : v = terminando.victima
    BY <1>0, <2>1 DEF PunterosReales
  <2>3. /\ claves_esi[v] \in Seq(Claves) /\ DOMAIN claves_esi[v] = 1..Len(claves_esi[v])
        /\ Len(claves_esi[v]) \in Nat /\ terminando.i \in Nat
    BY <1>0, <2>2, LenProperties DEF PlanificadorTypeOK
  <2>4. CASE TerminarDesbloquear
    <3>1. PICK c : c = claves_esi[v][terminando.i]
      OBVIOUS
    <3>2. /\ DesbloquearEsiPorClave(c) /\ UNCHANGED <<memoria, claves_bloqueadas, claves_esi>>
          /\ terminando' = [terminando EXCEPT !.i = @ + 1] /\ terminando.paso = "desbloquear"
          /\ terminando.i >= 1
      BY <1>0, <2>2, <2>4, <3>1 DEF TerminarDesbloquear, Recorrido
    <3>3. CASE k = c
      BY <3>2, <3>3, DespertadoPide
    <3>4. CASE k # c
      <4>1. Atendidas = {claves_esi[v][j] : j \in 1..(terminando.i - 1)}
        BY <2>2, <3>2 DEF Atendidas
      <4>2. /\ terminando'.paso = "desbloquear" /\ terminando'.victima = v
            /\ terminando'.i = terminando.i + 1
        BY <1>0, <2>2, <3>2 DEF PlanificadorTypeOK
      <4>3. Atendidas' = {claves_esi[v][j] : j \in 1..terminando.i}
        BY <2>3, <3>2, <4>2 DEF Atendidas
      <4>4. k \notin Atendidas'
        BY <1>2, <2>3, <3>1, <3>2, <3>4, <4>1, <4>3
      <4>. QED BY <1>2, <3>2, <4>4 DEF Tomada
    <3>. QED BY <3>3, <3>4
  <2>5. CASE TerminarSiguientePaso
    <3>1. /\ terminando.paso \in {"desbloquear", "eliminar"} /\ terminando.i > Len(claves_esi[v])
          /\ UNCHANGED <<claves_bloqueadas, claves_esi>>
          /\ terminando'.victima = v /\ terminando'.paso \in {"eliminar", "liberar"}
      BY <1>0, <2>2, <2>5 DEF TerminarSiguientePaso, PlanificadorTypeOK, campos
    <3>2. Atendidas' = ToSet(claves_esi[v])
      BY <3>1 DEF Atendidas
    <3>3. Atendidas = ToSet(claves_esi[v])
      <4>1. CASE terminando.paso = "eliminar"
        BY <2>2, <4>1 DEF Atendidas
      <4>2. CASE terminando.paso = "desbloquear"
        <5>0. terminando.i - 1 <= Len(claves_esi[v])
          BY <1>0, <2>2, <4>2 DEF Recorrido
        <5>1. terminando.i - 1 = Len(claves_esi[v])
          BY <2>3, <3>1, <5>0
        <5>2. Atendidas = {claves_esi[v][j] : j \in 1..Len(claves_esi[v])}
          BY <2>2, <4>2, <5>1 DEF Atendidas
        <5>. QED BY <2>3, <5>2 DEF ToSet
      <4>. QED BY <3>1, <4>1, <4>2
    <3>. QED BY <1>2, <3>1, <3>2, <3>3 DEF Tomada
  <2>6. CASE TerminarEliminar
    <3>1. PICK c : c = claves_esi[v][terminando.i]
      OBVIOUS
    <3>2. /\ claves_bloqueadas' = Quitar(claves_bloqueadas, c) /\ UNCHANGED claves_esi
          /\ terminando.paso = "eliminar" /\ terminando.i <= Len(claves_esi[v])
          /\ terminando'.victima = v /\ terminando'.paso = "eliminar"
      BY <1>0, <2>2, <2>6, <3>1 DEF TerminarEliminar, PlanificadorTypeOK, campos
    <3>3. Atendidas = ToSet(claves_esi[v]) /\ Atendidas' = ToSet(claves_esi[v])
      BY <2>2, <3>2 DEF Atendidas
    <3>4. c \in ToSet(claves_esi[v])
      <4>1. terminando.i >= 1
        BY <2>2, <3>2 DEF InvEsperas, InvListas, InvPosesion, InvCandados, InvPedidos,
           RecorridoEliminar
      <4>. QED BY <1>0, <2>2, <2>3, <3>1, <3>2, <4>1 DEF ToSet
    <3>5. k \in ToSet(claves_bloqueadas')
      BY <1>0, <1>2, <3>2, <3>3, <3>4, QuitarOtros
    <3>. QED BY <1>2, <3>3, <3>5 DEF Tomada
  <2>7. CASE TerminarLiberar
    <3>1. terminando' = Nadie /\ UNCHANGED claves_bloqueadas
      BY <1>0, <2>7 DEF TerminarLiberar
    <3>2. Atendidas' = {}
      BY <3>1 DEF Atendidas, Nadie
    <3>. QED BY <1>2, <3>1, <3>2 DEF Tomada
  <2>. QED BY <1>4, <2>4, <2>5, <2>6, <2>7 DEF TerminarEsi
<1>5. CASE PlanRespuestaFinal
  <2>1. /\ UNCHANGED claves_bloqueadas /\ terminando'.paso = "desbloquear" /\ terminando'.i = 1
    BY <1>5 DEF PlanRespuestaFinal, EmpezarTerminar
  <2>2. Atendidas' = {}
    BY <2>1 DEF Atendidas
  <2>. QED BY <1>2, <2>1, <2>2 DEF Tomada
<1>6. CASE \/ Planificar /\ ~PlanRespuestaFinal
           \/ Consola \/ UsoIndebido \/ \E e \in Esis : AgregarNuevoEsi(e)
  <2>1. ~ConsolaSemWait
    BY <1>0 DEF ConsolaSemWait
  <2>2. Consola => ConsolaPausar \/ ConsolaContinuar
    BY <1>0, <2>1 DEF Consola, SinOrdenes, Comando, ConsolaKill, ConsolaBloquearEjecutando,
       ConsolaBloquearListo, ConsolaDesbloquear
  <2>. QED BY <1>1, <1>6, <2>2 DEF Planificar, PlanInicio, PlanRevisar, PlanDesalojar,
           PlanDesalojarMutex, PlanDesalojarFin, PlanElegir, PlanEsperaSem, PlanSelPausa,
           PlanSeleccionar, PlanPausa, PlanDespachar, PlanRespuestaCorrecta, hilos,
           ConsolaPausar, ConsolaContinuar, UsoIndebido, AgregarNuevoEsi, campos, varsPlan
<1>. QED BY <1>3, <1>4, <1>5, <1>6 DEF PlanificadorNext

LEMMA PlanEsperas ==
    ASSUME InvEsperas, PlanificadorNext, UNCHANGED <<varsEsi, varsCoord>>
    PROVE  Esperas'
<1>0. InvListas /\ Pendientes /\ Esperas /\ PlanificadorTypeOK
  BY DEF InvEsperas, InvListas, InvPosesion, InvCandados, InvPedidos, InvVuelta, InvSoporte,
     InvCuenta,
     InvTipos, TypeOK
<1>1. SUFFICES ASSUME NEW x \in ToSet(bloqueados'), NEW k, clave_bloqueante'[x] = k
               PROVE  Tomada(k)' \/ HayQuienPida(k)'
  BY DEF Esperas
<1>2. CASE SoporteBloquearEsi
  <2>1. PICK e \in Esis :
              /\ ToSet(bloqueados') = ToSet(bloqueados) \cup {e}
              /\ bloqueado' = [bloqueado EXCEPT ![e] = TRUE]
              /\ \A f \in ToSet(bloqueados) : clave_bloqueante'[f] = clave_bloqueante[f]
              /\ Instruccion(e) = [op |-> "GET", clave |-> clave_bloqueante'[e]]
              /\ clave_bloqueante'[e] \in ToSet(claves_bloqueadas)
              /\ terminando = Nadie
    BY <1>0, <1>2, NuevoBloqueado
  <2>2. UNCHANGED <<claves_bloqueadas, terminando, memoria, pendiente, guion, linea>>
    BY <1>2 DEF SoporteBloquearEsi, hilos, varsEsi
  <2>3. Atendidas' = {}
    BY <2>1, <2>2 DEF Atendidas, Nadie
  <2>4. CASE k \in ToSet(claves_bloqueadas)
    BY <2>2, <2>3, <2>4 DEF Tomada
  <2>5. CASE k \notin ToSet(claves_bloqueadas)
    <3>1. x \in ToSet(bloqueados) /\ clave_bloqueante[x] = k
      BY <1>1, <2>1, <2>5
    <3>2. PICK f \in Esis : VuelveAPedir(f, k)
      BY <1>0, <2>5, <3>1 DEF Esperas, Tomada, HayQuienPida
    <3>3. f # e
      <4>1. SUFFICES ASSUME f = e PROVE FALSE
        OBVIOUS
      <4>2. [op |-> "GET", clave |-> k] = [op |-> "GET", clave |-> clave_bloqueante'[e]]
        BY <2>1, <3>2, <4>1 DEF VuelveAPedir, Instruccion
      <4>3. k = clave_bloqueante'[e]
        BY <4>2
      <4>. QED BY <2>1, <2>5, <4>3
    <3>4. bloqueado'[f] = bloqueado[f]
      BY <1>0, <2>1, <3>3 DEF PlanificadorTypeOK
    <3>5. VuelveAPedir(f, k)'
      BY <2>2, <3>2, <3>4 DEF VuelveAPedir
    <3>. QED BY <3>5 DEF HayQuienPida
  <2>. QED BY <2>4, <2>5
<1>3. CASE ~SoporteBloquearEsi
  <2>1. x \in ToSet(bloqueados) /\ clave_bloqueante[x] = k
    BY <1>0, <1>1, <1>3, SiguenBloqueados
  <2>2. CASE Tomada(k)
    BY <1>1, <1>3, <2>2, TomadaSigue
  <2>3. ASSUME NEW f \in Esis, VuelveAPedir(f, k) PROVE HayQuienPida(k)'
    <3>1. k \notin ClavesLargas
      BY <1>0, <2>1 DEF Pendientes
    <3>2. VuelveAPedir(f, k)'
      BY <1>3, <2>3, <3>1, TestigoSigue
    <3>. QED BY <3>2 DEF HayQuienPida
  <2>. QED BY <1>0, <2>1, <2>2, <2>3 DEF Esperas, HayQuienPida
<1>. QED BY <1>2, <1>3

LEMMA PasoEsperas == InvEsperas /\ [Next]_vars => InvEsperas'
<1>. SUFFICES ASSUME InvEsperas, [Next]_vars PROVE InvEsperas'
  OBVIOUS
<1>1. SinFallo' /\ BloqueadoEnFalso' /\ InvListas'
  BY PasoListas DEF InvEsperas, SinFallo, BloqueadoEnFalso
<1>2. CASE DePlan(PlanificadorNext)
  BY <1>1, <1>2, PlanInsiste, PlanPendientes, PlanEsperas DEF DePlan, InvEsperas
<1>3. CASE DeEsi(EsiNext)
  BY <1>1, <1>3, EsiInsiste, EsiPendientes, EsiEsperas DEF DeEsi, InvEsperas
<1>4. CASE DeCoord(CoordinadorNext)
  <2>1. UNCHANGED <<varsPlan, varsEsi>>
    BY <1>4 DEF DeCoord
  <2>2. Pendientes'
    BY <2>1 DEF InvEsperas, Pendientes, Instruccion, varsPlan, listas, campos, varsEsi
  <2>3. Esperas'
    BY <2>1 DEF InvEsperas, Esperas, Tomada, Atendidas, HayQuienPida, VuelveAPedir, varsPlan,
       listas, campos, hilos, varsEsi
  <2>. QED BY <1>1, <1>4, <2>2, <2>3, CoordInsiste DEF DeCoord, InvEsperas
<1>5. CASE UNCHANGED vars
  <2>1. Pendientes'
    BY <1>5 DEF InvEsperas, Pendientes, Instruccion, vars, varsPlan, listas, campos, varsEsi
  <2>2. Esperas'
    BY <1>5 DEF InvEsperas, Esperas, Tomada, Atendidas, HayQuienPida, VuelveAPedir, vars, varsPlan,
       listas, campos, hilos, varsEsi
  <2>3. Insistentes'
    BY <1>5 DEF InvEsperas, Insistentes, PideOtraVez, Insistente, Instruccion, vars, varsPlan,
       campos, varsEsi, varsCoord, canales
  <2>. QED BY <1>1, <2>1, <2>2, <2>3 DEF InvEsperas
<1>. QED BY <1>2, <1>3, <1>4, <1>5 DEF Next, Reposo

LEMMA InicioEsperas ==
    Init /\ SinCtrlC /\ SinOrdenes /\ BloqueadoEnFalso /\ SinFallo => InvEsperas
<1>. SUFFICES ASSUME Init, SinCtrlC, SinOrdenes, BloqueadoEnFalso, SinFallo PROVE InvEsperas
  OBVIOUS
<1>1. InvListas
  BY InicioListas
<1>2. \A e \in Esis : ~pendiente[e]
  BY DEF Init, EsiInit
<1>3. Insistentes
  BY <1>2 DEF Insistentes, PideOtraVez
<1>4. ToSet(bloqueados) = {}
  BY DEF Init, PlanificadorInit, ToSet
<1>. QED BY <1>1, <1>3, <1>4 DEF InvEsperas, Pendientes, Esperas

\* No wakeup is lost: a STORE wakes one of the ESIs that wait for its key, and so
\* does, for each of its keys, the end of an ESI; as long as there are others, that
\* one is still to ask for the key again, and then blocks with it locked or takes it.
\* An instance that fails a GET would end that ESI without it; every ESI is created
\* with bloqueado false.
THEOREM NadieSinDespertar ==
    Spec /\ SinCtrlC /\ SinOrdenes /\ BloqueadoEnFalso /\ SinFallo => []SinDespertarPerdido
<1>1. InvEsperas => SinDespertarPerdido
  BY DEF InvEsperas, Esperas, Tomada, HayQuienPida, SinDespertarPerdido
<1>. QED BY <1>1, InicioEsperas, PasoEsperas, PTL DEF Spec

\* When the system stands still, every ESI that has not ended is blocked, and what it
\* waits for is a key locked by configuration or one of an ESI that is blocked too:
\* none is left waiting for a key that is free, and none is set aside.  A GET that an
\* instance refuses would end the ESI that was woken and leave the others waiting.
THEOREM SoloEsperasSinFin ==
    Spec /\ SinCtrlC /\ SinOrdenes /\ BloqueadoEnFalso /\ SinFallo => []SoloInterbloqueados
<1>1. ASSUME InvEsperas, SinTrabajo PROVE {e \in Esis : Legible(e)} \subseteq EsperaSinFin
  <2> DEFINE D == ToSet(bloqueados)
             duenos == [e \in D |->
               {f \in Esis : \/ clave_bloqueante[e] \in ToSet(claves_esi[f])
                             \/ f = e /\ clave_bloqueante[e] \in ToSet(ClavesIniciales)}]
  <2>0. /\ InvListas /\ InvVuelta /\ Cuenta /\ PlanificadorTypeOK /\ Listas /\ Ejecutor
        /\ pc = "espera_sem" /\ contador_esis = 0 /\ mutex_listas = "libre"
    BY <1>1 DEF InvEsperas, InvListas, InvPosesion, InvCandados, InvPedidos, InvVuelta, InvSoporte,
       InvCuenta, InvTipos, TypeOK, SinTrabajo
  <2>1. terminando = Nadie
    BY <2>0, NadieTermina
  <2>2. ToSet(listos) = {}
    <3>1. Len(listos) = 0
      BY <2>0, <2>1, LenProperties
         DEF Cuenta, SemaforoExacto, Adeudado, Reclamado, Nadie, PlanificadorTypeOK
    <3>2. listos = <<>>
      BY <2>0, <3>1, EmptySeq DEF PlanificadorTypeOK
    <3>. QED BY <3>2 DEF ToSet
  <2>3. \A e \in Esis : Legible(e) => e \in D
    BY <2>0, <2>2 DEF Listas, Ejecutor
  <2>4. ASSUME NEW e \in D PROVE clave_bloqueante[e] \in ToSet(claves_bloqueadas)
    <3>1. ~HayQuienPida(clave_bloqueante[e])
      BY <2>0, <2>3 DEF HayQuienPida, VuelveAPedir, Legible, Listas
    <3>. QED BY <1>1, <3>1 DEF InvEsperas, Esperas, Tomada
  <2>5. ASSUME NEW e \in D PROVE D \cap duenos[e] # {}
    <3>1. e \in Esis
      BY <2>0, <2>5, BloqueadosVivos
    <3>2. clave_bloqueante[e] \in ToSet(claves_bloqueadas)
      BY <2>4
    <3>3. clave_bloqueante[e] \in Claves
      <4>1. ToSet(claves_bloqueadas) \subseteq Claves
        BY <2>0, EnSeq DEF PlanificadorTypeOK
      <4>. QED BY <3>2, <4>1
    <3>4. CASE clave_bloqueante[e] \in ToSet(ClavesIniciales)
      BY <2>5, <3>1, <3>4
    <3>5. CASE clave_bloqueante[e] \notin ToSet(ClavesIniciales)
      <4>1. PICK f \in Esis : clave_bloqueante[e] \in ToSet(claves_esi[f])
        BY <2>0, <2>1, <3>2, <3>3, <3>5, TablaDeClaves DEF Duenos
      <4>2. Legible(f)
        BY <2>0, <4>1 DEF InvListas, DuenosVivos
      <4>. QED BY <2>3, <2>5, <4>1, <4>2
    <3>. QED BY <3>4, <3>5
  <2>6. Trabados(D, duenos) /\ D \in SUBSET DOMAIN duenos
    BY <2>5 DEF Trabados
  <2>7. D \subseteq EsperaSinFin
    BY <2>6 DEF EsperaSinFin, Interbloqueados
  <2>. QED BY <2>3, <2>7
<1>2. InvEsperas => SoloInterbloqueados
  BY <1>1 DEF SoloInterbloqueados
<1>. QED BY <1>2, InicioEsperas, PasoEsperas, PTL DEF Spec
=============================================================================
