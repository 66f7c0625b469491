--------------------------- MODULE EstimacionPruebas ---------------------------
(***************************************************************************)
(* For any ESIs, estimates and bounds: rafaga_actaual counts the orders of *)
(* the ESI that executes; SJF with preemption lets no other execute while  *)
(* a ready one is shorter, but for the notice it forgets; the estimate of  *)
(* an ESI is the average of its bursts; HRRN starves nobody.               *)
(***************************************************************************)
EXTENDS Estimacion, LemasListas, FiniteSetTheorems

(* rafaga_actaual of the ESI that executes, and of one that will go on     *)
(* with a burst, is the orders it was sent; the others start from zero.    *)
RafagaDeOrdenes ==
    \A e \in Esis :
        /\ lugar[e] = "ejecutando" => ~desalojado[e] /\ rafaga[e] = ordenes[e]
        /\ lugar[e] \in {"sin_crear", "listos", "bloqueados"} =>
              IF algoritmo = "SJF_CD" /\ desalojado[e] THEN rafaga[e] = ordenes[e]
                                                       ELSE ordenes[e] = 0

(* Where planificar may be, and who executes then.                         *)
UnoEjecuta ==
    /\ \A e, f \in Esis : lugar[e] = "ejecutando" /\ lugar[f] = "ejecutando" => e = f
    /\ pc = "seleccionar" => En("ejecutando") = {}
    /\ pc \in {"desalojar", "comparar", "reset"} => algoritmo = "SJF_CD"

(* Once planificar has compared, only those that came afterwards may be    *)
(* shorter than what is left of the one that executes.                     *)
ComparadoAntesDeReset ==
    pc = "reset" =>
        \A f \in En("listos") : Deberia(f) => f \in sin_comparar \cup perdidos

InvEstimacion ==
    /\ TypeOK /\ RafagaDeOrdenes /\ UnoEjecuta
    /\ ComparadoAntesDeReset /\ DesalojoSalvoReset

-----------------------------------------------------------------------------
\* An estimate is a natural number of units.
LEMMA EstimarTipo ==
    ASSUME NEW a \in Nat, NEW r \in Nat
    PROVE  estimar(a, r) \in Nat
<1> DEFINE x == Alfa * r * Escala + (100 - Alfa) * a
<1>1. Alfa \in Nat /\ 100 - Alfa \in Nat /\ Escala \in Nat
  BY EstimacionAssumption
<1>2. Alfa * r \in Nat /\ (100 - Alfa) * a \in Nat
  BY <1>1
<1>3. Alfa * r * Escala \in Nat
  BY <1>1, <1>2
<1>4. x \in Nat
  BY <1>2, <1>3
<1> HIDE DEF x
<1>5. x \div 100 \in Nat
  BY <1>4
<1>. QED BY <1>5 DEF estimar, x

\* The orders of a burst take something, or nothing if there were none.
LEMMA OrdenesCuestan ==
    ASSUME NEW n \in Nat
    PROVE  /\ n * Escala \in Nat
           /\ n = 0 => n * Escala = 0
           /\ (n + 1) * Escala >= n * Escala
<1>1. Escala \in Nat
  BY EstimacionAssumption
<1>2. (n + 1) * Escala = n * Escala + Escala /\ n * Escala \in Nat
  BY <1>1
<1>. QED BY <1>1, <1>2

\* The bounds of the model are natural numbers.
LEMMA Cotas == MaxRafaga \in Nat /\ MaxTiempo \in Nat /\ MaxComandos \in Nat /\ Escala \in Nat
BY EstimacionAssumption

-----------------------------------------------------------------------------
\* The types, step by step.
LEMMA TiposLlegan ==
    ASSUME TypeOK, NEW S \in SUBSET Esis, NEW t \in Nat, t >= tiempo, Llegan(S, t)
    PROVE  /\ llegada' \in [Esis -> 0..t]
           /\ llego_esi_nuevo' \in BOOLEAN
           /\ perdidos' \subseteq Esis /\ sin_comparar' \subseteq Esis
<1>1. tiempo \in Nat
  BY Cotas DEF TypeOK
<1>. QED BY <1>1 DEF Llegan, Con, TypeOK

LEMMA TiposPlanificar ==
    ASSUME InvEstimacion, UNCHANGED <<algoritmo, consola>>,
           Inicio \/ Desalojar \/ Comparar \/ Reset \/ Elegir \/ Seleccionar
    PROVE  TypeOK'
<1>1. tiempo \in Nat /\ tiempo \in 0..tiempo /\ 0 \in 0..MaxRafaga + 2
  BY Cotas DEF InvEstimacion, TypeOK
<1>2. \A e : RafagaAlEjecutar(e) \in [Esis -> 0..MaxRafaga + 2]
  BY <1>1 DEF RafagaAlEjecutar, InvEstimacion, TypeOK
<1>3. CASE Inicio \/ Desalojar \/ Reset \/ Elegir
  BY <1>3 DEF InvEstimacion, Inicio, Desalojar, Reset, Elegir, Ir, Pasos, TypeOK, campos,
              fantasmas, consola
<1>4. CASE Comparar
  <2>1. /\ lugar' \in [Esis -> Lugares] /\ rafaga' \in [Esis -> 0..MaxRafaga + 2]
        /\ desalojado' \in [Esis -> BOOLEAN] /\ llegada' \in [Esis -> 0..tiempo]
    <3>1. \/ UNCHANGED <<lugar, rafaga, desalojado, llegada>>
          \/ \E e, f \in Esis :
                /\ lugar' = [lugar EXCEPT ![e] = "listos", ![f] = "ejecutando"]
                /\ rafaga' = RafagaAlEjecutar(f)
                /\ desalojado' = [desalojado EXCEPT ![f] = FALSE, ![e] = TRUE]
                /\ llegada' = [llegada EXCEPT ![f] = tiempo]
      BY <1>4 DEF Comparar, Cambiar, En, MasCortos
    <3>2. /\ lugar \in [Esis -> Lugares] /\ rafaga \in [Esis -> 0..MaxRafaga + 2]
          /\ desalojado \in [Esis -> BOOLEAN] /\ llegada \in [Esis -> 0..tiempo]
      BY DEF InvEstimacion, TypeOK
    <3>3. lugar' \in [Esis -> Lugares]
      BY <3>1, <3>2 DEF Lugares
    <3>4. rafaga' \in [Esis -> 0..MaxRafaga + 2]
      BY <1>2, <3>1, <3>2
    <3>5. desalojado' \in [Esis -> BOOLEAN] /\ llegada' \in [Esis -> 0..tiempo]
      BY <1>1, <3>1, <3>2
    <3>. QED BY <3>3, <3>4, <3>5
  <2>. QED
    BY <1>4, <2>1 DEF InvEstimacion, Comparar, Ir, Pasos, TypeOK, consola
<1>5. CASE Seleccionar
  <2>1. /\ lugar' \in [Esis -> Lugares] /\ rafaga' \in [Esis -> 0..MaxRafaga + 2]
        /\ desalojado' \in [Esis -> BOOLEAN] /\ llegada' \in [Esis -> 0..tiempo]
    <3>1. \E e \in Esis :
              /\ lugar' = [lugar EXCEPT ![e] = "ejecutando"] /\ rafaga' = RafagaAlEjecutar(e)
              /\ desalojado' = [desalojado EXCEPT ![e] = FALSE]
              /\ llegada' = [llegada EXCEPT ![e] = tiempo]
      BY <1>5 DEF Seleccionar, listo_a_ejecutando, En
    <3>2. /\ lugar \in [Esis -> Lugares] /\ desalojado \in [Esis -> BOOLEAN]
          /\ llegada \in [Esis -> 0..tiempo]
      BY DEF InvEstimacion, TypeOK
    <3>3. lugar' \in [Esis -> Lugares]
      BY <3>1, <3>2 DEF Lugares
    <3>4. rafaga' \in [Esis -> 0..MaxRafaga + 2]
      BY <1>2, <3>1
    <3>5. desalojado' \in [Esis -> BOOLEAN] /\ llegada' \in [Esis -> 0..tiempo]
      BY <1>1, <3>1, <3>2
    <3>. QED BY <3>3, <3>4, <3>5
  <2>. QED
    BY <1>5, <2>1 DEF InvEstimacion, Seleccionar, Ir, Pasos, TypeOK, consola
<1>. QED BY <1>3, <1>4, <1>5

LEMMA TiposInstruccion ==
    ASSUME InvEstimacion, UNCHANGED <<algoritmo, consola>>, NEW e \in Esis,
           InstruccionCorrecta(e) \/ InstruccionBloquea(e) \/ UltimaInstruccion(e)
    PROVE  TypeOK'
<1>1. /\ TypeOK /\ lugar[e] = "ejecutando" /\ rafaga[e] = ordenes[e]
      /\ pc' = "inicio" /\ tiempo < MaxTiempo /\ ordenes[e] < MaxRafaga /\ tiempo' = tiempo + 1
  BY DEF InstruccionCorrecta, InstruccionBloquea, UltimaInstruccion, Ordenar, Ir,
         InvEstimacion, RafagaDeOrdenes
<1>2. tiempo' \in 0..MaxTiempo /\ tiempo' \in Nat /\ tiempo' >= tiempo /\ tiempo \in Nat
  BY <1>1, Cotas DEF TypeOK
<1>3. ordenes[e] \in Nat /\ ordenes[e] + 1 \in 0..MaxRafaga /\ 0 \in 0..MaxRafaga
      /\ rafaga[e] + 1 \in 0..MaxRafaga + 2 /\ rafaga[e] + 2 \in 0..MaxRafaga + 2
  BY <1>1, Cotas DEF TypeOK
<1>4. CASE InstruccionCorrecta(e) \/ UltimaInstruccion(e)
  <2>1. PICK S \in SUBSET Esis : /\ Llegan(S, tiempo')
                                 /\ \/ lugar' = Con(lugar, S, "listos")
                                    \/ lugar' = [Con(lugar, S, "listos") EXCEPT ![e] = "terminados"]
    BY <1>4 DEF InstruccionCorrecta, UltimaInstruccion, En
  <2>2. lugar' \in [Esis -> Lugares]
    BY <1>1, <2>1 DEF TypeOK, Con, Lugares
  <2>3. /\ rafaga' \in [Esis -> 0..MaxRafaga + 2] /\ ordenes' \in [Esis -> 0..MaxRafaga]
    BY <1>1, <1>3, <1>4 DEF InstruccionCorrecta, UltimaInstruccion, TypeOK
  <2>4. /\ llegada' \in [Esis -> 0..tiempo'] /\ llego_esi_nuevo' \in BOOLEAN
        /\ perdidos' \subseteq Esis /\ sin_comparar' \subseteq Esis
    BY <1>1, <1>2, <2>1, TiposLlegan
  <2>. QED
    BY <1>1, <1>2, <1>4, <2>2, <2>3, <2>4
       DEF InstruccionCorrecta, UltimaInstruccion, TypeOK, Pasos, consola
<1>5. CASE InstruccionBloquea(e)
  <2>1. estimar(actual[e], rafaga[e] + 1) \in Nat
    <3>1. actual[e] \in Nat /\ rafaga[e] + 1 \in Nat
      BY <1>1, <1>3 DEF TypeOK
    <3>. QED BY <3>1, EstimarTipo
  <2>2. /\ lugar' \in [Esis -> Lugares] /\ actual' \in [Esis -> Nat]
        /\ rafaga' \in [Esis -> 0..MaxRafaga + 2] /\ ordenes' \in [Esis -> 0..MaxRafaga]
    BY <1>1, <1>3, <1>5, <2>1
       DEF InstruccionBloquea, ejecutando_a_bloqueado, TypeOK, Lugares
  <2>3. historia' \in [Esis -> Seq(0..MaxRafaga)]
    <3>1. historia[e] \in Seq(0..MaxRafaga)
      BY <1>1 DEF TypeOK
    <3>2. Append(historia[e], ordenes[e] + 1) \in Seq(0..MaxRafaga)
      BY <1>3, <3>1, AppendProperties
    <3>. QED BY <1>1, <1>5, <3>2 DEF InstruccionBloquea, TypeOK
  <2>4. llegada' \in [Esis -> 0..tiempo']
    BY <1>1, <1>2, <1>5 DEF InstruccionBloquea, TypeOK
  <2>. QED
    BY <1>1, <1>2, <1>5, <2>2, <2>3, <2>4 DEF InstruccionBloquea, TypeOK, Pasos, consola
<1>. QED BY <1>4, <1>5

LEMMA TiposConsola ==
    ASSUME InvEstimacion, NEW e \in Esis,
           \/ agregar_nuevo_esi(e) /\ UNCHANGED <<algoritmo, consola>>
           \/ ConsolaBloquearEjecutando(e) \/ ConsolaBloquearListo(e) \/ ConsolaDesbloquear(e)
    PROVE  TypeOK'
<1>1. TypeOK /\ tiempo \in Nat /\ 0 \in 0..MaxRafaga
  BY Cotas DEF InvEstimacion, TypeOK
<1>2. comandos' \in 0..MaxComandos
  BY <1>1, Cotas DEF ConsolaBloquearEjecutando, ConsolaBloquearListo, ConsolaDesbloquear, Comando,
                     TypeOK, consola
<1>3. CASE \/ agregar_nuevo_esi(e) /\ UNCHANGED <<algoritmo, consola>>
           \/ ConsolaDesbloquear(e)
  <2>1. Llegan({e}, tiempo) /\ lugar' = [lugar EXCEPT ![e] = "listos"]
        /\ UNCHANGED <<algoritmo, actual, rafaga, desalojado, tiempo, pc, historia, ordenes,
                       sobrecontados>>
    BY <1>3 DEF agregar_nuevo_esi, ConsolaDesbloquear, Comando, consola
  <2>2. /\ llegada' \in [Esis -> 0..tiempo] /\ llego_esi_nuevo' \in BOOLEAN
        /\ perdidos' \subseteq Esis /\ sin_comparar' \subseteq Esis
    BY <1>1, <2>1, TiposLlegan
  <2>3. lugar' \in [Esis -> Lugares]
    BY <1>1, <2>1 DEF TypeOK, Lugares
  <2>. QED BY <1>1, <1>2, <2>1, <2>2, <2>3 DEF TypeOK
<1>4. CASE ConsolaBloquearListo(e)
  BY <1>1, <1>2, <1>4 DEF ConsolaBloquearListo, Comando, TypeOK, Lugares, fantasmas
<1>5. CASE ConsolaBloquearEjecutando(e)
  <2>1. lugar[e] = "ejecutando" /\ rafaga[e] = ordenes[e] /\ ordenes[e] \in 0..MaxRafaga
    BY <1>1, <1>5 DEF ConsolaBloquearEjecutando, InvEstimacion, RafagaDeOrdenes, TypeOK
  <2>2. /\ rafaga[e] + 1 \in 0..MaxRafaga + 2 /\ rafaga[e] + 1 \in Nat
    BY <2>1, Cotas
  <2>3. estimar(actual[e], rafaga[e] + 1) \in Nat
    BY <1>1, <2>2, EstimarTipo DEF TypeOK
  <2>4. /\ lugar' \in [Esis -> Lugares] /\ actual' \in [Esis -> Nat]
        /\ rafaga' \in [Esis -> 0..MaxRafaga + 2] /\ ordenes' \in [Esis -> 0..MaxRafaga]
    BY <1>1, <1>5, <2>2, <2>3
       DEF ConsolaBloquearEjecutando, ejecutando_a_bloqueado, TypeOK, Lugares
  <2>5. historia' \in [Esis -> Seq(0..MaxRafaga)]
    <3>1. historia[e] \in Seq(0..MaxRafaga)
      BY <1>1 DEF TypeOK
    <3>2. Append(historia[e], ordenes[e]) \in Seq(0..MaxRafaga)
      BY <2>1, <3>1, AppendProperties
    <3>. QED BY <1>1, <1>5, <3>2 DEF ConsolaBloquearEjecutando, TypeOK
  <2>. QED
    BY <1>1, <1>2, <1>5, <2>4, <2>5 DEF ConsolaBloquearEjecutando, Comando, TypeOK
<1>. QED BY <1>3, <1>4, <1>5

-----------------------------------------------------------------------------
\* What planificar is told and remembers of those that should execute.
Avisados == ComparadoAntesDeReset /\ DesalojoSalvoReset

\* Nobody should execute instead of who does.
LEMMA SinPendientes ==
    ASSUME \A f \in En("listos")' : ~Deberia(f)'
    PROVE  Avisados'
BY DEF Avisados, ComparadoAntesDeReset, DesalojoSalvoReset

\* Who should execute after a step should before, or has just arrived.
LEMMA PendientesSiguen ==
    ASSUME InvEstimacion, UNCHANGED algoritmo,
           llego_esi_nuevo => llego_esi_nuevo', sin_comparar \subseteq sin_comparar',
           pc' = "reset" => pc = "reset",
           \A f \in En("listos")' : Deberia(f)' =>
              \/ /\ f \in En("listos") /\ Deberia(f)
                 /\ f \in perdidos => f \in perdidos'
              \/ llego_esi_nuevo' /\ f \in sin_comparar'
    PROVE  Avisados'
BY DEF InvEstimacion, Avisados, ComparadoAntesDeReset, DesalojoSalvoReset

\* An ESI that becomes ready is announced.
LEMMA LlegadaAvisada ==
    ASSUME InvEstimacion, UNCHANGED <<algoritmo, actual>>, pc' = "reset" => pc = "reset",
           NEW S \in SUBSET Esis, NEW t, Llegan(S, t),
           \A f \in Esis : lugar'[f] = "listos" => lugar[f] = "listos" \/ f \in S,
           \A g \in Esis : lugar'[g] = "ejecutando" =>
              lugar[g] = "ejecutando" /\ ordenes'[g] * Escala >= ordenes[g] * Escala,
           ordenes' \in [Esis -> Nat]
    PROVE  Avisados'
<1>1. /\ llego_esi_nuevo' = (llego_esi_nuevo \/ S # {}) /\ sin_comparar' = sin_comparar \cup S
      /\ perdidos' = perdidos \ S
  BY DEF Llegan
<1>2. llego_esi_nuevo => llego_esi_nuevo'
  BY <1>1, Zenon
<1>3. ASSUME NEW f \in En("listos")', Deberia(f)', f \notin S
      PROVE  f \in En("listos") /\ Deberia(f) /\ (f \in perdidos => f \in perdidos')
  <2>1. f \in Esis /\ lugar[f] = "listos"
    BY <1>3 DEF En
  <2>2. PICK g \in Esis : lugar'[g] = "ejecutando" /\ actual[f] < actual[g] - ordenes'[g] * Escala
    BY <1>3 DEF Deberia, En
  <2>3. lugar[g] = "ejecutando" /\ ordenes'[g] * Escala >= ordenes[g] * Escala
    BY <2>2
  <2>4. /\ actual[f] \in Nat /\ actual[g] \in Nat
        /\ ordenes[g] * Escala \in Nat /\ ordenes'[g] * Escala \in Nat
    <3>1. actual[f] \in Nat /\ actual[g] \in Nat /\ ordenes[g] \in Nat /\ ordenes'[g] \in Nat
      BY <2>1, Cotas DEF InvEstimacion, TypeOK
    <3>. QED BY <3>1, OrdenesCuestan
  <2>5. actual[f] < actual[g] - ordenes[g] * Escala
    BY <2>2, <2>3, <2>4
  <2>. QED BY <1>1, <1>3, <2>1, <2>3, <2>5 DEF Deberia, En
<1>4. ASSUME NEW f \in S PROVE llego_esi_nuevo' /\ f \in sin_comparar'
  <2>1. S # {}
    BY <1>4
  <2>. QED BY <1>1, <1>4, <2>1
<1>. QED BY <1>1, <1>2, <1>3, <1>4, PendientesSiguen

-----------------------------------------------------------------------------
\* The steps of planificar that only decide where to go.
LEMMA MirarMantiene ==
    ASSUME InvEstimacion, UNCHANGED <<algoritmo, consola>>, Inicio \/ Desalojar \/ Elegir
    PROVE  RafagaDeOrdenes' /\ UnoEjecuta' /\ Avisados'
<1>1. UNCHANGED <<lugar, actual, rafaga, desalojado, ordenes, llego_esi_nuevo, perdidos,
                  sin_comparar>>
  BY DEF Inicio, Desalojar, Elegir, campos, fantasmas
<1>2. RafagaDeOrdenes'
  BY <1>1 DEF InvEstimacion, RafagaDeOrdenes
<1>3. UnoEjecuta'
  BY <1>1 DEF InvEstimacion, UnoEjecuta, Inicio, Desalojar, Elegir, Ir, En
<1>4. \A f \in En("listos")' : Deberia(f)' => f \in En("listos") /\ Deberia(f)
  BY <1>1 DEF En, Deberia
<1>5. CASE pc' = "reset"
  <2>1. En("ejecutando") = {} \/ En("listos") = {}
    BY <1>5 DEF Inicio, Desalojar, Elegir, Ir
  <2>2. \A f \in En("listos") : ~Deberia(f)
    BY <2>1 DEF Deberia
  <2>. QED BY <1>2, <1>3, <1>4, <2>2, SinPendientes
<1>6. CASE pc' # "reset"
  BY <1>1, <1>2, <1>3, <1>4, <1>6, PendientesSiguen
<1>. QED BY <1>5, <1>6

\* The reset forgets the notice of those that arrived after the comparison.
LEMMA ResetMantiene ==
    ASSUME InvEstimacion, UNCHANGED <<algoritmo, consola>>, Reset
    PROVE  RafagaDeOrdenes' /\ UnoEjecuta' /\ Avisados'
<1>1. /\ UNCHANGED <<lugar, actual, rafaga, desalojado, ordenes>>
      /\ pc = "reset" /\ pc' = "elegir" /\ perdidos' = perdidos \cup sin_comparar
  BY DEF Reset, Ir, campos
<1>2. RafagaDeOrdenes' /\ UnoEjecuta'
  BY <1>1 DEF InvEstimacion, RafagaDeOrdenes, UnoEjecuta, En
<1>3. \A f \in En("listos")' : Deberia(f)' => f \in perdidos'
  BY <1>1 DEF InvEstimacion, ComparadoAntesDeReset, En, Deberia
<1>. QED BY <1>1, <1>2, <1>3 DEF Avisados, ComparadoAntesDeReset, DesalojoSalvoReset

\* The change of the executing ESI for the shortest: what is left of the burst
\* of one that goes on is in rafaga_actaual, the others start from zero.
LEMMA CambiarMantiene ==
    ASSUME InvEstimacion, UNCHANGED <<algoritmo, consola>>, Comparar
    PROVE  RafagaDeOrdenes' /\ UnoEjecuta' /\ Avisados'
<1>1. /\ algoritmo = "SJF_CD" /\ pc' = "reset" /\ UNCHANGED <<actual, ordenes>>
  BY DEF Comparar, Ir, InvEstimacion, UnoEjecuta
<1>2. PICK e \in En("ejecutando"), f \in MasCortos :
          \/ Cambiar(e, f)
          \/ Restante(e) <= actual[f] /\ UNCHANGED <<lugar, rafaga, desalojado, llegada>>
  BY DEF Comparar
<1>3. /\ e \in Esis /\ f \in Esis /\ lugar[e] = "ejecutando" /\ lugar[f] = "listos"
      /\ \A g \in Esis : lugar[g] = "ejecutando" => g = e
      /\ \A g \in Esis : lugar[g] = "listos" => actual[f] <= actual[g]
  BY DEF En, MasCortos, InvEstimacion, UnoEjecuta
<1>4. /\ Restante(e) = actual[e] - ordenes[e] * Escala
      /\ \A g \in Esis : ordenes[g] * Escala \in Nat /\ actual[g] \in Nat
  <2>1. \A g \in Esis : ordenes[g] \in Nat /\ actual[g] \in Nat
    BY Cotas DEF InvEstimacion, TypeOK
  <2>. QED BY <1>3, <2>1, OrdenesCuestan DEF Restante, InvEstimacion, RafagaDeOrdenes
<1>5. CASE Cambiar(e, f)
  <2>1. /\ Restante(e) > actual[f]
        /\ lugar' = [lugar EXCEPT ![e] = "listos", ![f] = "ejecutando"]
        /\ desalojado' = [desalojado EXCEPT ![f] = FALSE, ![e] = TRUE]
        /\ rafaga' = IF desalojado[f] THEN rafaga ELSE [rafaga EXCEPT ![f] = 0]
    BY <1>1, <1>5 DEF Cambiar, RafagaAlEjecutar
  <2>2. /\ lugar'[f] = "ejecutando" /\ lugar'[e] = "listos" /\ desalojado'[f] = FALSE
        /\ desalojado'[e] = TRUE
        /\ \A g \in Esis \ {e, f} : lugar'[g] = lugar[g] /\ desalojado'[g] = desalojado[g]
        /\ rafaga'[f] = IF desalojado[f] THEN rafaga[f] ELSE 0
        /\ \A g \in Esis \ {f} : rafaga'[g] = rafaga[g]
    BY <1>3, <2>1 DEF InvEstimacion, TypeOK
  <2>3. rafaga'[f] = ordenes[f] /\ rafaga'[e] = ordenes[e]
    BY <1>1, <1>3, <2>2 DEF InvEstimacion, RafagaDeOrdenes
  <2>4. RafagaDeOrdenes'
    BY <1>1, <1>3, <2>2, <2>3 DEF InvEstimacion, RafagaDeOrdenes
  <2>5. UnoEjecuta'
    BY <1>1, <1>3, <2>2 DEF UnoEjecuta
  <2>6. ASSUME NEW h \in En("listos")', Deberia(h)' PROVE FALSE
    <3>1. h \in Esis /\ lugar'[h] = "listos" /\ h # f
      BY <2>2 DEF En
    <3>2. \A g \in Esis : lugar'[g] = "ejecutando" => g = f
      BY <1>3, <2>2
    <3>3. actual[h] < actual[f] - ordenes[f] * Escala
      BY <1>1, <2>6, <3>2 DEF Deberia, En
    <3>4. actual[f] <= actual[h]
      <4>1. CASE h = e
        BY <1>3, <1>4, <2>1, <4>1
      <4>2. CASE h # e
        BY <1>3, <2>2, <3>1, <4>2
      <4>. QED BY <4>1, <4>2
    <3>. QED BY <1>3, <1>4, <3>1, <3>3, <3>4
  <2>. QED BY <2>4, <2>5, <2>6, SinPendientes
<1>6. CASE Restante(e) <= actual[f] /\ UNCHANGED <<lugar, rafaga, desalojado, llegada>>
  <2>1. RafagaDeOrdenes' /\ UnoEjecuta'
    BY <1>1, <1>6 DEF InvEstimacion, RafagaDeOrdenes, UnoEjecuta
  <2>2. ASSUME NEW h \in En("listos")', Deberia(h)' PROVE FALSE
    <3>1. h \in Esis /\ actual[f] <= actual[h]
      BY <1>3, <1>6 DEF En
    <3>2. actual[h] < actual[e] - ordenes[e] * Escala
      BY <1>1, <1>3, <1>6, <2>2 DEF Deberia, En
    <3>. QED BY <1>3, <1>4, <1>6, <3>1, <3>2
  <2>. QED BY <2>1, <2>2, SinPendientes
<1>. QED BY <1>2, <1>5, <1>6

\* seleccionar_esi: of SJF, the shortest.
LEMMA SeleccionarMantiene ==
    ASSUME InvEstimacion, UNCHANGED <<algoritmo, consola>>, Seleccionar
    PROVE  RafagaDeOrdenes' /\ UnoEjecuta' /\ Avisados'
<1>1. PICK e \in En("listos") :
          /\ Elegido(e) /\ lugar' = [lugar EXCEPT ![e] = "ejecutando"] /\ listo_a_ejecutando(e)
  BY DEF Seleccionar
<1>2. /\ e \in Esis /\ lugar[e] = "listos" /\ UNCHANGED <<actual, ordenes>>
      /\ pc' = "despachar"
      /\ \A g \in Esis : lugar[g] # "ejecutando"
  BY DEF En, Seleccionar, Ir, InvEstimacion, UnoEjecuta
<1>3. /\ lugar'[e] = "ejecutando" /\ desalojado'[e] = FALSE
      /\ \A g \in Esis \ {e} : /\ lugar'[g] = lugar[g] /\ desalojado'[g] = desalojado[g]
                               /\ rafaga'[g] = rafaga[g]
      /\ rafaga'[e] = IF algoritmo = "SJF_CD" /\ desalojado[e] THEN rafaga[e] ELSE 0
  BY <1>1, <1>2 DEF listo_a_ejecutando, RafagaAlEjecutar, InvEstimacion, TypeOK
<1>4. RafagaDeOrdenes'
  BY <1>2, <1>3 DEF InvEstimacion, RafagaDeOrdenes
<1>5. UnoEjecuta'
  BY <1>2, <1>3 DEF UnoEjecuta
<1>6. CASE algoritmo = "SJF_CD"
  <2>1. \A g \in Esis : lugar[g] = "listos" => actual[e] <= actual[g]
    BY <1>1, <1>6 DEF Elegido, MasCortos, En
  <2>2. ASSUME NEW h \in En("listos")', Deberia(h)' PROVE FALSE
    <3>1. h \in Esis /\ lugar[h] = "listos" /\ actual[e] <= actual[h]
      BY <1>3, <2>1 DEF En
    <3>2. actual[h] < actual[e] - ordenes[e] * Escala
      BY <1>2, <1>3, <2>2 DEF Deberia, En
    <3>3. actual[e] \in Nat /\ actual[h] \in Nat /\ ordenes[e] \in Nat
      BY <1>2, <3>1, Cotas DEF InvEstimacion, TypeOK
    <3>4. ordenes[e] * Escala \in Nat
      BY <3>3, OrdenesCuestan
    <3>. QED BY <3>1, <3>2, <3>3, <3>4
  <2>. QED BY <1>4, <1>5, <2>2, SinPendientes
<1>7. CASE algoritmo # "SJF_CD"
  BY <1>2, <1>4, <1>5, <1>7 DEF Avisados, ComparadoAntesDeReset, DesalojoSalvoReset
<1>. QED BY <1>6, <1>7

\* An order and its answer.
LEMMA InstruccionMantiene ==
    ASSUME InvEstimacion, TypeOK', UNCHANGED <<algoritmo, consola>>, NEW e \in Esis,
           InstruccionCorrecta(e) \/ InstruccionBloquea(e) \/ UltimaInstruccion(e)
    PROVE  RafagaDeOrdenes' /\ UnoEjecuta' /\ Avisados'
<1>1. /\ lugar[e] = "ejecutando" /\ pc' = "inicio" /\ ~desalojado[e] /\ rafaga[e] = ordenes[e]
      /\ \A g \in Esis : lugar[g] = "ejecutando" => g = e
      /\ desalojado' = desalojado
  BY DEF InstruccionCorrecta, InstruccionBloquea, UltimaInstruccion, Ordenar, Ir,
         InvEstimacion, RafagaDeOrdenes, UnoEjecuta
<1>2. CASE InstruccionCorrecta(e)
  <2>1. PICK S \in SUBSET En("bloqueados") :
            lugar' = Con(lugar, S, "listos") /\ Llegan(S, tiempo')
    BY <1>2 DEF InstruccionCorrecta
  <2>2. /\ rafaga' = [rafaga EXCEPT ![e] = @ + 1] /\ ordenes' = [ordenes EXCEPT ![e] = @ + 1]
        /\ UNCHANGED actual
    BY <1>2 DEF InstruccionCorrecta
  <2>3. \A g \in Esis : lugar'[g] = IF g \in S THEN "listos" ELSE lugar[g]
    BY <2>1 DEF Con
  <2>4. /\ \A g \in S : g \in Esis /\ lugar[g] = "bloqueados" /\ g # e
        /\ rafaga'[e] = ordenes'[e]
        /\ \A g \in Esis \ {e} : rafaga'[g] = rafaga[g] /\ ordenes'[g] = ordenes[g]
    BY <1>1, <2>1, <2>2 DEF En, InvEstimacion, TypeOK
  <2>5. RafagaDeOrdenes'
    BY <1>1, <2>3, <2>4 DEF InvEstimacion, RafagaDeOrdenes
  <2>6. UnoEjecuta'
    BY <1>1, <2>3 DEF UnoEjecuta
  <2>7. ordenes[e] \in Nat /\ ordenes'[e] = ordenes[e] + 1 /\ ordenes' \in [Esis -> Nat]
    <3>1. ordenes \in [Esis -> 0..MaxRafaga] /\ ordenes' \in [Esis -> 0..MaxRafaga]
      BY DEF InvEstimacion, TypeOK
    <3>. QED BY <2>2, <3>1, Cotas
  <2>8. ordenes'[e] * Escala >= ordenes[e] * Escala
    BY <2>7, OrdenesCuestan
  <2>9. Avisados'
    <3>1. \A g \in Esis : lugar'[g] = "ejecutando" =>
              lugar[g] = "ejecutando" /\ ordenes'[g] * Escala >= ordenes[g] * Escala
      BY <1>1, <2>3, <2>8
    <3>2. \A f \in Esis : lugar'[f] = "listos" => lugar[f] = "listos" \/ f \in S
      BY <2>3
    <3>3. S \in SUBSET Esis
      BY <2>4
    <3>. QED BY <1>1, <2>1, <2>2, <2>7, <3>1, <3>2, <3>3, LlegadaAvisada
  <2>. QED BY <2>5, <2>6, <2>9
<1>3. CASE InstruccionBloquea(e)
  <2>1. /\ lugar' = [lugar EXCEPT ![e] = "bloqueados"] /\ rafaga' = [rafaga EXCEPT ![e] = @ + 2]
        /\ ordenes' = [ordenes EXCEPT ![e] = 0]
    BY <1>3 DEF InstruccionBloquea, ejecutando_a_bloqueado
  <2>2. /\ lugar'[e] = "bloqueados" /\ ordenes'[e] = 0
        /\ \A g \in Esis \ {e} : /\ lugar'[g] = lugar[g] /\ rafaga'[g] = rafaga[g]
                                 /\ ordenes'[g] = ordenes[g]
    BY <2>1 DEF InvEstimacion, TypeOK
  <2>3. RafagaDeOrdenes' /\ UnoEjecuta'
    BY <1>1, <2>2 DEF InvEstimacion, RafagaDeOrdenes, UnoEjecuta
  <2>4. \A g \in Esis : lugar'[g] # "ejecutando"
    BY <1>1, <2>2
  <2>. QED BY <2>3, <2>4, SinPendientes DEF Deberia, En
<1>4. CASE UltimaInstruccion(e)
  <2>1. PICK S \in SUBSET En("bloqueados") :
            lugar' = [Con(lugar, S, "listos") EXCEPT ![e] = "terminados"]
    BY <1>4 DEF UltimaInstruccion
  <2>2. UNCHANGED <<rafaga, ordenes>>
    BY <1>4 DEF UltimaInstruccion
  <2>3. /\ lugar'[e] = "terminados"
        /\ \A g \in Esis \ {e} : lugar'[g] = IF g \in S THEN "listos" ELSE lugar[g]
        /\ \A g \in S : g \in Esis /\ lugar[g] = "bloqueados"
    BY <2>1 DEF Con, En
  <2>4. RafagaDeOrdenes' /\ UnoEjecuta'
    BY <1>1, <2>2, <2>3 DEF InvEstimacion, RafagaDeOrdenes, UnoEjecuta
  <2>5. \A g \in Esis : lugar'[g] # "ejecutando"
    BY <1>1, <2>3
  <2>. QED BY <2>4, <2>5, SinPendientes DEF Deberia, En
<1>. QED BY <1>2, <1>3, <1>4

\* An ESI is admitted, and the console blocks and unblocks.
LEMMA ConsolaMantiene ==
    ASSUME InvEstimacion, NEW e \in Esis,
           \/ agregar_nuevo_esi(e) /\ UNCHANGED <<algoritmo, consola>>
           \/ ConsolaBloquearEjecutando(e) \/ ConsolaBloquearListo(e) \/ ConsolaDesbloquear(e)
    PROVE  RafagaDeOrdenes' /\ UnoEjecuta' /\ Avisados'
<1>1. UNCHANGED <<algoritmo, pc, desalojado>>
  BY DEF agregar_nuevo_esi, ConsolaBloquearEjecutando, ConsolaBloquearListo,
         ConsolaDesbloquear, Comando
<1>2. CASE \/ agregar_nuevo_esi(e) /\ UNCHANGED <<algoritmo, consola>>
           \/ ConsolaDesbloquear(e)
  <2>1. /\ lugar[e] \in {"sin_crear", "bloqueados"} /\ lugar' = [lugar EXCEPT ![e] = "listos"]
        /\ Llegan({e}, tiempo) /\ UNCHANGED <<actual, rafaga, ordenes>>
    BY <1>2 DEF agregar_nuevo_esi, ConsolaDesbloquear
  <2>2. lugar'[e] = "listos" /\ \A g \in Esis \ {e} : lugar'[g] = lugar[g]
    BY <2>1 DEF InvEstimacion, TypeOK
  <2>3. RafagaDeOrdenes' /\ UnoEjecuta'
    BY <1>1, <2>1, <2>2 DEF InvEstimacion, RafagaDeOrdenes, UnoEjecuta, En
  <2>4. Avisados'
    <3>1. \A g \in Esis : lugar'[g] = "ejecutando" =>
              lugar[g] = "ejecutando" /\ ordenes'[g] * Escala >= ordenes[g] * Escala
      <4>1. \A g \in Esis : ordenes[g] \in Nat
        BY Cotas DEF InvEstimacion, TypeOK
      <4>2. \A g \in Esis : ordenes[g] * Escala \in Nat
        BY <4>1, OrdenesCuestan
      <4>. QED BY <2>1, <2>2, <4>2
    <3>2. \A f \in Esis : lugar'[f] = "listos" => lugar[f] = "listos" \/ f \in {e}
      BY <2>2
    <3>3. {e} \in SUBSET Esis /\ ordenes' \in [Esis -> Nat]
      BY <2>1, Cotas DEF InvEstimacion, TypeOK
    <3>. QED BY <1>1, <2>1, <3>1, <3>2, <3>3, LlegadaAvisada
  <2>. QED BY <2>3, <2>4
<1>3. CASE ConsolaBloquearListo(e)
  <2>1. /\ lugar[e] = "listos" /\ lugar' = [lugar EXCEPT ![e] = "bloqueados"]
        /\ UNCHANGED <<actual, rafaga, ordenes, llego_esi_nuevo, perdidos, sin_comparar>>
    BY <1>3 DEF ConsolaBloquearListo, fantasmas
  <2>2. lugar'[e] = "bloqueados" /\ \A g \in Esis \ {e} : lugar'[g] = lugar[g]
    BY <2>1 DEF InvEstimacion, TypeOK
  <2>3. RafagaDeOrdenes' /\ UnoEjecuta'
    BY <1>1, <2>1, <2>2 DEF InvEstimacion, RafagaDeOrdenes, UnoEjecuta, En
  <2>4. \A f \in En("listos")' : Deberia(f)' => f \in En("listos") /\ Deberia(f)
    BY <2>1, <2>2 DEF En, Deberia
  <2>. QED BY <1>1, <2>1, <2>3, <2>4, PendientesSiguen
<1>4. CASE ConsolaBloquearEjecutando(e)
  <2>1. /\ lugar[e] = "ejecutando" /\ lugar' = [lugar EXCEPT ![e] = "bloqueados"]
        /\ rafaga' = [rafaga EXCEPT ![e] = @ + 1] /\ ordenes' = [ordenes EXCEPT ![e] = 0]
    BY <1>4 DEF ConsolaBloquearEjecutando, ejecutando_a_bloqueado
  <2>2. /\ lugar'[e] = "bloqueados" /\ ordenes'[e] = 0
        /\ \A g \in Esis \ {e} : /\ lugar'[g] = lugar[g] /\ rafaga'[g] = rafaga[g]
                                 /\ ordenes'[g] = ordenes[g]
    BY <2>1 DEF InvEstimacion, TypeOK
  <2>3. RafagaDeOrdenes' /\ UnoEjecuta'
    BY <1>1, <2>1, <2>2 DEF InvEstimacion, RafagaDeOrdenes, UnoEjecuta, En
  <2>4. \A g \in Esis : lugar'[g] # "ejecutando"
    BY <2>1, <2>2 DEF InvEstimacion, UnoEjecuta
  <2>. QED BY <2>3, <2>4, SinPendientes DEF Deberia, En
<1>. QED BY <1>2, <1>3, <1>4

-----------------------------------------------------------------------------
LEMMA EstimacionInicia == Init => InvEstimacion
<1> SUFFICES ASSUME Init PROVE InvEstimacion
  OBVIOUS
<1>1. EstimacionInicial * Escala \in Nat
  BY EstimacionAssumption
<1>2. TypeOK
  <2>1. 0 \in 0..MaxRafaga + 2 /\ 0 \in 0..MaxRafaga /\ 0 \in 0..MaxTiempo /\ 0 \in 0..MaxComandos
    BY Cotas
  <2>2. tiempo = 0 /\ 0 \in 0..tiempo
    BY DEF Init
  <2>3. <<>> \in Seq(0..MaxRafaga)
    OBVIOUS
  <2>. QED BY <1>1, <2>1, <2>2, <2>3 DEF Init, TypeOK, Lugares, Pasos
<1>3. RafagaDeOrdenes /\ UnoEjecuta
  BY DEF Init, RafagaDeOrdenes, UnoEjecuta
<1>4. ComparadoAntesDeReset /\ DesalojoSalvoReset
  BY DEF Init, ComparadoAntesDeReset, DesalojoSalvoReset, En
<1>. QED BY <1>2, <1>3, <1>4 DEF InvEstimacion

LEMMA EstimacionMantiene == InvEstimacion /\ [Next]_vars => InvEstimacion'
<1> SUFFICES ASSUME InvEstimacion, [Next]_vars PROVE InvEstimacion'
  OBVIOUS
<1>1. CASE UNCHANGED vars
  BY <1>1 DEF vars, campos, fantasmas, consola, InvEstimacion, TypeOK, RafagaDeOrdenes,
              UnoEjecuta, ComparadoAntesDeReset, DesalojoSalvoReset, En, Deberia
<1>2. CASE Planificar /\ UNCHANGED <<algoritmo, consola>>
  <2>1. CASE Inicio \/ Desalojar \/ Comparar \/ Reset \/ Elegir \/ Seleccionar
    <3>1. TypeOK'
      BY <1>2, <2>1, TiposPlanificar
    <3>2. RafagaDeOrdenes' /\ UnoEjecuta' /\ Avisados'
      BY <1>2, <2>1, MirarMantiene, ResetMantiene, CambiarMantiene, SeleccionarMantiene
    <3>. QED BY <3>1, <3>2 DEF InvEstimacion, Avisados
  <2>2. ASSUME NEW e \in Esis,
               InstruccionCorrecta(e) \/ InstruccionBloquea(e) \/ UltimaInstruccion(e)
        PROVE  InvEstimacion'
    BY <1>2, <2>2, TiposInstruccion, InstruccionMantiene DEF InvEstimacion, Avisados
  <2>. QED BY <1>2, <2>1, <2>2 DEF Planificar
<1>3. ASSUME NEW e \in Esis,
             \/ agregar_nuevo_esi(e) /\ UNCHANGED <<algoritmo, consola>>
             \/ ConsolaBloquearEjecutando(e) \/ ConsolaBloquearListo(e) \/ ConsolaDesbloquear(e)
      PROVE  InvEstimacion'
  BY <1>3, TiposConsola, ConsolaMantiene DEF InvEstimacion, Avisados
<1>. QED BY <1>1, <1>2, <1>3 DEF Next

-----------------------------------------------------------------------------
\* SJF with preemption: no ESI executes while a ready one would take less than
\* what is left of its burst, except until planificar looks at the notice of its
\* arrival, and for those whose notice the reset has forgotten.
THEOREM EstimacionDesalojo == Spec => []DesalojoSalvoReset
<1>1. InvEstimacion => DesalojoSalvoReset
  BY DEF InvEstimacion
<1>. QED BY <1>1, EstimacionInicia, EstimacionMantiene, PTL DEF Spec

\* The types; rafaga_actaual is two orders at most over those of a burst.
THEOREM EstimacionTipos == Spec => []TypeOK
<1>1. InvEstimacion => TypeOK
  BY DEF InvEstimacion
<1>. QED BY <1>1, EstimacionInicia, EstimacionMantiene, PTL DEF Spec

-----------------------------------------------------------------------------
(* What the recursive definitions of the average compute.                  *)
LEMMA PotenciasSon ==
    ASSUME NEW b \in Nat, NEW n \in Nat
    PROVE  /\ Potencias(b, n) \in [0..n -> Nat]
           /\ Potencias(b, n)[0] = 1
           /\ \A k \in 1..n : Potencias(b, n)[k] = b * Potencias(b, n)[k - 1]
<1> DEFINE F == [k \in 1..n |-> [x \in Nat |-> b * x]]
<1>1. F \in [1..n -> [Nat -> Nat]]
  OBVIOUS
<1>2. PICK g \in [0..n -> Nat] : g[0] = 1 /\ \A k \in 1..n : g[k] = F[k][g[k - 1]]
  <2> HIDE DEF F
  <2>1. 1 \in Nat
    OBVIOUS
  <2>. QED BY <1>1, <2>1, HayRecursion
<1>3. g = [k \in 0..n |-> IF k = 0 THEN 1 ELSE b * g[k - 1]]
  <2>1. \A k \in 0..n : k # 0 => k \in 1..n /\ k - 1 \in 0..n
    OBVIOUS
  <2>2. \A k \in 0..n : k # 0 => F[k][g[k - 1]] = b * g[k - 1]
    BY <2>1
  <2>3. \A k \in 0..n : g[k] = IF k = 0 THEN 1 ELSE b * g[k - 1]
    BY <1>2, <2>1, <2>2
  <2>. QED BY <2>3
<1> DEFINE p == Potencias(b, n)
<1>4. p = [k \in 0..n |-> IF k = 0 THEN 1 ELSE b * p[k - 1]]
  BY <1>3 DEF Potencias
<1> HIDE DEF p, F
<1>5. p[0] = 1 /\ \A k \in 1..n : p[k] = b * p[k - 1]
  BY <1>4
<1> DEFINE T == {k \in 0..n : p[k] \in Nat}
<1>6. 0 \in T /\ \A k \in 0..n - 1 : k \in T => k + 1 \in T
  BY <1>5
<1>7. \A k \in 0..n : p[k] \in Nat
  <2> HIDE DEF T
  <2>1. \A k \in 0..n : k \in T
    BY <1>6, InduccionHasta
  <2>. QED BY <2>1 DEF T
<1>8. p \in [0..n -> Nat]
  BY <1>4, <1>7
<1>. QED BY <1>5, <1>8 DEF p

\* The powers up to n + 1 begin as those up to n.
LEMMA PotenciaPaso ==
    ASSUME NEW b \in Nat, NEW n \in Nat
    PROVE  /\ Potencia(b, 0) = 1 /\ Potencia(b, n) \in Nat
           /\ Potencia(b, n + 1) = b * Potencia(b, n)
<1> DEFINE p == Potencias(b, n)
           q == Potencias(b, n + 1)
           T == {k \in 0..n : p[k] = q[k]}
<1>1. p \in [0..n -> Nat] /\ p[0] = 1 /\ \A k \in 1..n : p[k] = b * p[k - 1]
  BY PotenciasSon
<1>2. q[0] = 1 /\ \A k \in 1..n + 1 : q[k] = b * q[k - 1]
  BY PotenciasSon
<1>3. Potencia(b, 0) = 1
  BY PotenciasSon DEF Potencia
<1> HIDE DEF p, q
<1>4. 0 \in T /\ \A k \in 0..n - 1 : k \in T => k + 1 \in T
  BY <1>1, <1>2
<1>5. n \in T
  <2> HIDE DEF T
  <2>1. \A k \in 0..n : k \in T
    BY <1>4, InduccionHasta
  <2>. QED BY <2>1
<1>6. q[n + 1] = b * q[n] /\ p[n] \in Nat
  BY <1>1, <1>2
<1>. QED BY <1>3, <1>5, <1>6 DEF Potencia, p, q

LEMMA PotenciaPositiva ==
    ASSUME NEW n \in Nat
    PROVE  Potencia(100, n) \in Nat \ {0}
<1> DEFINE p == Potencias(100, n)
           T == {k \in 0..n : p[k] \in Nat \ {0}}
<1>1. p[0] = 1 /\ \A k \in 1..n : p[k] = 100 * p[k - 1]
  BY PotenciasSon
<1> HIDE DEF p
<1>2. 0 \in T /\ \A k \in 0..n - 1 : k \in T => k + 1 \in T
  BY <1>1
<1>3. n \in T
  <2> HIDE DEF T
  <2>1. \A k \in 0..n : k \in T
    BY <1>2, InduccionHasta
  <2>. QED BY <2>1
<1>. QED BY <1>3 DEF Potencia, p

\* The sums of the first k.
LEMMA SumasSon ==
    ASSUME NEW t \in Seq(Nat)
    PROVE  /\ Sumas(t) \in [0..Len(t) -> Nat]
           /\ Sumas(t)[0] = 0
           /\ \A k \in 1..Len(t) : Sumas(t)[k] = Sumas(t)[k - 1] + t[k]
<1> DEFINE n == Len(t)
           F == [k \in 1..n |-> [x \in Nat |-> x + t[k]]]
<1>0. n \in Nat /\ \A k \in 1..n : t[k] \in Nat
  OBVIOUS
<1>1. F \in [1..n -> [Nat -> Nat]]
  BY <1>0
<1>2. PICK g \in [0..n -> Nat] : g[0] = 0 /\ \A k \in 1..n : g[k] = F[k][g[k - 1]]
  <2> HIDE DEF F, n
  <2>1. 0 \in Nat
    OBVIOUS
  <2>. QED BY <1>0, <1>1, <2>1, HayRecursion
<1>3. g = [k \in 0..n |-> IF k = 0 THEN 0 ELSE g[k - 1] + t[k]]
  <2>1. \A k \in 0..n : k # 0 => k \in 1..n /\ k - 1 \in 0..n
    BY <1>0
  <2>2. \A k \in 0..n : k # 0 => F[k][g[k - 1]] = g[k - 1] + t[k]
    BY <2>1
  <2> HIDE DEF F, n
  <2>. QED BY <1>2, <2>2
<1> DEFINE p == Sumas(t)
<1>4. p = [k \in 0..n |-> IF k = 0 THEN 0 ELSE p[k - 1] + t[k]]
  BY <1>3 DEF Sumas
<1> HIDE DEF p, F, n
<1>5. p[0] = 0 /\ \A k \in 1..n : p[k] = p[k - 1] + t[k]
  BY <1>0, <1>4
<1> DEFINE T == {k \in 0..n : p[k] \in Nat}
<1>6. 0 \in T /\ \A k \in 0..n - 1 : k \in T => k + 1 \in T
  <2>1. ASSUME NEW k \in 0..n - 1, k \in T PROVE k + 1 \in T
    <3>1. k + 1 \in 1..n /\ k + 1 - 1 = k /\ k + 1 \in 0..n /\ p[k] \in Nat
      BY <1>0, <2>1
    <3>2. p[k + 1] = p[k] + t[k + 1] /\ t[k + 1] \in Nat
      BY <1>0, <1>5, <3>1
    <3>. QED BY <3>1, <3>2
  <2>. QED BY <1>0, <1>5, <2>1
<1>7. \A k \in 0..n : p[k] \in Nat
  <2> HIDE DEF T
  <2>1. \A k \in 0..n : k \in T
    BY <1>0, <1>6, InduccionHasta
  <2>. QED BY <2>1 DEF T
<1>8. p \in [0..n -> Nat]
  BY <1>4, <1>7
<1>. QED BY <1>5, <1>8 DEF p, n

\* A sum of terms c times as large, with one term more.
LEMMA SumaPorYUno ==
    ASSUME NEW c \in Nat, NEW t \in Seq(Nat), NEW u \in Seq(Nat), Len(u) = Len(t) + 1,
           \A k \in 1..Len(t) : u[k] = c * t[k]
    PROVE  Sumas(u)[Len(u)] = c * Sumas(t)[Len(t)] + u[Len(u)]
<1> DEFINE n == Len(t)
           p == Sumas(t)
           q == Sumas(u)
           T == {k \in 0..n : q[k] = c * p[k]}
<1>1. n \in Nat /\ Len(u) = n + 1 /\ \A k \in 1..n : t[k] \in Nat /\ u[k] = c * t[k]
  OBVIOUS
<1>2. p \in [0..n -> Nat] /\ p[0] = 0 /\ \A k \in 1..n : p[k] = p[k - 1] + t[k]
  BY SumasSon
<1>3. q[0] = 0 /\ \A k \in 1..n + 1 : q[k] = q[k - 1] + u[k]
  BY <1>1, SumasSon
<1> HIDE DEF n, p, q
<1>4. 0 \in T
  BY <1>1, <1>2, <1>3
<1>5. ASSUME NEW k \in 0..n - 1, k \in T PROVE k + 1 \in T
  <2>1. k + 1 \in 1..n /\ k + 1 \in 1..n + 1 /\ k + 1 - 1 = k /\ p[k] \in Nat /\ k + 1 \in 0..n
    BY <1>1, <1>2, <1>5
  <2>2. p[k + 1] = p[k] + t[k + 1] /\ q[k + 1] = q[k] + c * t[k + 1] /\ t[k + 1] \in Nat
    <3>1. t[k + 1] \in Nat /\ u[k + 1] = c * t[k + 1]
      BY <1>1, <2>1
    <3>2. p[k + 1] = p[k] + t[k + 1]
      BY <1>2, <2>1
    <3>3. q[k + 1] = q[k] + u[k + 1]
      BY <1>3, <2>1
    <3>. QED BY <3>1, <3>2, <3>3
  <2>3. c * (p[k] + t[k + 1]) = c * p[k] + c * t[k + 1]
    BY <2>1, <2>2
  <2>. QED BY <1>5, <2>1, <2>2, <2>3
<1>6. n \in T
  <2> HIDE DEF T
  <2>1. \A k \in 0..n : k \in T
    BY <1>1, <1>4, <1>5, InduccionHasta
  <2>. QED BY <1>1, <2>1
<1>7. q[n + 1] = q[n] + u[n + 1]
  BY <1>1, <1>3
<1>. QED BY <1>1, <1>6, <1>7 DEF n, p, q

\* Multiplication of naturals, for the steps with products of several.
LEMMA Productos ==
    /\ \A a, b \in Nat : a * b \in Nat
    /\ \A a, b, c, d, e \in Nat : a * (b * c) * d * e = b * (a * c * d * e)
OBVIOUS

\* An average of no bursts, and one with a burst more.
LEMMA PromedioVacio == Promedio(<<>>) = EstimacionInicial * Escala
<1>1. 100 - Alfa \in Nat /\ EstimacionInicial * Escala \in Nat
  BY EstimacionAssumption
<1>2. Potencia(100 - Alfa, 0) = 1
  BY <1>1, PotenciaPaso
<1> DEFINE t == [i \in 1..0 |-> Alfa * Potencia(100 - Alfa, 0 - i) * Potencia(100, i - 1)
                                * (<<>>[i] * Escala)]
<1>3. t \in Seq(Nat) /\ Len(t) = 0
  BY IsASeq
<1>4. Sumas(t)[0] = 0
  <2> HIDE DEF t
  <2>. QED BY <1>3, SumasSon
<1>5. Promedio(<<>>) = Potencia(100 - Alfa, 0) * (EstimacionInicial * Escala) + Sumas(t)[0]
  BY Len(<<>>) = 0 DEF Promedio
<1> HIDE DEF t
<1>. QED BY <1>1, <1>2, <1>4, <1>5

LEMMA PromedioMas ==
    ASSUME NEW h \in Seq(Nat), NEW r \in Nat
    PROVE  /\ Promedio(h) \in Nat
           /\ Promedio(Append(h, r)) =
                 (100 - Alfa) * Promedio(h) + Alfa * Potencia(100, Len(h)) * (r * Escala)
<1> DEFINE n == Len(h)
           c == 100 - Alfa
           k == Append(h, r)
           inicial == EstimacionInicial * Escala
           t == [i \in 1..n |-> Alfa * Potencia(c, n - i) * Potencia(100, i - 1) * (h[i] * Escala)]
           u == [i \in 1..n + 1 |->
                    Alfa * Potencia(c, n + 1 - i) * Potencia(100, i - 1) * (k[i] * Escala)]
<1>1. Alfa \in Nat /\ c \in Nat /\ inicial \in Nat /\ Escala \in Nat /\ n \in Nat
  BY EstimacionAssumption, Productos
<1>2. /\ k \in Seq(Nat) /\ Len(k) = n + 1 /\ k[n + 1] = r
      /\ \A i \in 1..n : k[i] = h[i] /\ h[i] \in Nat
  BY AppendProperties
<1>3. Promedio(h) = Potencia(c, n) * inicial + Sumas(t)[n]
  BY DEF Promedio
<1>4. Promedio(k) = Potencia(c, n + 1) * inicial + Sumas(u)[n + 1]
  <2> HIDE DEF k
  <2>. QED BY <1>2 DEF Promedio
<1>5. \A i \in 1..n : t[i] \in Nat /\ u[i] = c * t[i]
  <2>1. SUFFICES ASSUME NEW i \in 1..n PROVE t[i] \in Nat /\ u[i] = c * t[i]
    OBVIOUS
  <2>2. n - i \in Nat /\ n - i + 1 = n + 1 - i /\ i - 1 \in Nat /\ i \in 1..n + 1
    BY <1>1
  <2>3. /\ Potencia(c, n - i) \in Nat /\ Potencia(c, n + 1 - i) = c * Potencia(c, n - i)
        /\ Potencia(100, i - 1) \in Nat /\ h[i] * Escala \in Nat
    <3> HIDE DEF c, n, k
    <3>1. Potencia(c, n - i) \in Nat /\ Potencia(c, n - i + 1) = c * Potencia(c, n - i)
      BY <1>1, <2>2, PotenciaPaso
    <3>2. 100 \in Nat
      OBVIOUS
    <3>3. Potencia(100, i - 1) \in Nat
      BY <2>2, <3>2, PotenciaPaso
    <3>4. h[i] \in Nat /\ h[i] * Escala \in Nat
      BY <1>1, <1>2, Productos
    <3>. QED BY <2>2, <3>1, <3>3, <3>4
  <2> DEFINE p == Potencia(c, n - i)
             s == Potencia(100, i - 1)
             x == h[i] * Escala
  <2>4. t[i] = Alfa * p * s * x /\ u[i] = Alfa * (c * p) * s * x
    BY <1>2, <2>2, <2>3
  <2> HIDE DEF p, s, x, c, n, k, t, u
  <2>5. p \in Nat /\ s \in Nat /\ x \in Nat
    BY <2>3 DEF p, s, x
  <2>6. Alfa * p * s * x \in Nat
    BY <1>1, <2>5, Productos
  <2>7. Alfa * (c * p) * s * x = c * (Alfa * p * s * x)
    BY <1>1, <2>5, Productos
  <2>. QED BY <2>4, <2>6, <2>7
<1>6. u[n + 1] = Alfa * Potencia(100, n) * (r * Escala) /\ u[n + 1] \in Nat
  <2>1. n + 1 \in 1..n + 1 /\ n + 1 - (n + 1) = 0 /\ n + 1 - 1 = n
    BY <1>1
  <2>2. u[n + 1] = Alfa * Potencia(c, 0) * Potencia(100, n) * (k[n + 1] * Escala)
    BY <2>1
  <2>3. Potencia(c, 0) = 1 /\ Potencia(100, n) \in Nat
    <3> HIDE DEF c, n
    <3>. QED BY <1>1, PotenciaPaso
  <2>4. Alfa * 1 = Alfa /\ Alfa * Potencia(100, n) * (r * Escala) \in Nat
    BY <1>1, <2>3, Productos
  <2> HIDE DEF u, k, c, n
  <2>. QED BY <1>2, <2>2, <2>3, <2>4
<1>7. t \in Seq(Nat) /\ Len(t) = n /\ u \in Seq(Nat) /\ Len(u) = n + 1
  <2>1. c * t[1] = c * t[1]
    OBVIOUS
  <2>2. \A i \in 1..n + 1 : u[i] \in Nat
    <3>1. \A i \in 1..n : t[i] \in Nat /\ u[i] \in Nat
      <4> HIDE DEF t, u, c, n
      <4>. QED BY <1>1, <1>5, Productos
    <3>2. \A i \in 1..n + 1 : i \in 1..n \/ i = n + 1
      BY <1>1
    <3> HIDE DEF u, n
    <3>. QED BY <1>6, <3>1, <3>2
  <2>3. t \in [1..n -> Nat] /\ u \in [1..n + 1 -> Nat]
    BY <1>5, <2>2
  <2> HIDE DEF t, u, n
  <2>4. n + 1 \in Nat
    BY <1>1
  <2>. QED BY <1>1, <2>3, <2>4, IsASeq, LenProperties
<1>8. Sumas(u)[n + 1] = c * Sumas(t)[n] + u[n + 1]
  <2> HIDE DEF t, u, n, c
  <2>1. Len(u) = Len(t) + 1 /\ \A i \in 1..Len(t) : u[i] = c * t[i]
    BY <1>5, <1>7
  <2>2. Sumas(u)[Len(u)] = c * Sumas(t)[Len(t)] + u[Len(u)]
    BY <1>1, <1>7, <2>1, SumaPorYUno
  <2>. QED BY <1>7, <2>2
<1>9. Sumas(t)[n] \in Nat
  <2> HIDE DEF t, n
  <2>1. Sumas(t) \in [0..Len(t) -> Nat]
    BY <1>7, SumasSon
  <2>. QED BY <1>1, <1>7, <2>1
<1>10. Potencia(c, n) \in Nat /\ Potencia(c, n + 1) = c * Potencia(c, n)
  <2> HIDE DEF n, c
  <2>. QED BY <1>1, PotenciaPaso
<1> DEFINE p == Potencia(c, n)
           s == Sumas(t)[n]
<1>11. p \in Nat /\ s \in Nat /\ p * inicial \in Nat
  BY <1>1, <1>9, <1>10, Productos
<1>12. Promedio(h) = p * inicial + s /\ Promedio(k) = c * p * inicial + (c * s + u[n + 1])
  BY <1>3, <1>4, <1>8, <1>10
<1> HIDE DEF p, s, t, u, c, k, inicial
<1>13. c * p * inicial + (c * s + u[n + 1]) = c * (p * inicial + s) + u[n + 1]
  BY <1>1, <1>6, <1>11
<1>14. Promedio(h) \in Nat
  BY <1>11, <1>12
<1>. QED BY <1>6, <1>12, <1>13, <1>14 DEF k, c

-----------------------------------------------------------------------------
(* An estimate after n bursts is a whole number of the units that the      *)
(* bursts to come will divide by 100, and so is Escala.                    *)
Unidad(n) == Potencia(100, MaxBloqueos - n)
EnUnidades(a, n) == n \in 0..MaxBloqueos /\ \E q \in Nat : a = q * Unidad(n)

LEMMA UnidadSon ==
    ASSUME NEW n \in 0..MaxBloqueos
    PROVE  /\ Unidad(n) \in Nat \ {0}
           /\ n < MaxBloqueos => Unidad(n) = 100 * Unidad(n + 1)
<1>1. MaxBloqueos \in Nat /\ n \in Nat /\ MaxBloqueos - n \in Nat /\ 100 \in Nat
  BY EstimacionAssumption
<1>2. Unidad(n) \in Nat \ {0}
  BY <1>1, PotenciaPositiva DEF Unidad
<1>3. ASSUME n < MaxBloqueos PROVE Unidad(n) = 100 * Unidad(n + 1)
  <2> DEFINE m == MaxBloqueos - (n + 1)
  <2>1. m \in Nat /\ MaxBloqueos - n = m + 1
    BY <1>1, <1>3
  <2> HIDE DEF m
  <2>2. Potencia(100, m + 1) = 100 * Potencia(100, m)
    BY <1>1, <2>1, PotenciaPaso
  <2>. QED BY <2>1, <2>2 DEF Unidad, m
<1>. QED BY <1>2, <1>3

LEMMA EscalaEnUnidades == \A n \in 0..MaxBloqueos : EnUnidades(Escala, n)
<1> DEFINE T == {n \in 0..MaxBloqueos : \E q \in Nat : Escala = q * Unidad(n)}
<1>1. MaxBloqueos \in Nat /\ Escala \in Nat /\ 0 \in 0..MaxBloqueos
  BY EstimacionAssumption
<1>2. 0 \in T
  <2> DEFINE u == Unidad(0)
  <2>1. u \in Nat \ {0} /\ Escala % u = 0
    BY <1>1, UnidadSon, UnidadExacta DEF Unidad
  <2> HIDE DEF u
  <2>2. Escala = (Escala \div u) * u /\ Escala \div u \in Nat
    BY <1>1, <2>1
  <2>. QED BY <1>1, <2>2 DEF u
<1>3. ASSUME NEW n \in 0..MaxBloqueos - 1, n \in T PROVE n + 1 \in T
  <2>1. PICK q \in Nat : Escala = q * Unidad(n)
    BY <1>3
  <2>2. n \in 0..MaxBloqueos /\ n + 1 \in 0..MaxBloqueos /\ n < MaxBloqueos
    BY <1>1, <1>3
  <2>3. Unidad(n) = 100 * Unidad(n + 1) /\ Unidad(n + 1) \in Nat
    BY <2>2, UnidadSon
  <2> DEFINE v == Unidad(n + 1)
  <2>4. q * (100 * v) = (q * 100) * v /\ q * 100 \in Nat
    <3>1. v \in Nat
      BY <2>3
    <3> HIDE DEF v
    <3>. QED BY <3>1
  <2>. QED BY <2>1, <2>2, <2>3, <2>4
<1>4. \A n \in 0..MaxBloqueos : n \in T
  <2> HIDE DEF T
  <2>. QED BY <1>1, <1>2, <1>3, InduccionHasta
<1>. QED BY <1>4 DEF EnUnidades

\* The division of estimar leaves nothing over.
LEMMA EstimarExacto ==
    ASSUME NEW a \in Nat, NEW r \in Nat, NEW n \in 0..MaxBloqueos, n < MaxBloqueos,
           EnUnidades(a, n)
    PROVE  /\ 100 * estimar(a, r) = Alfa * (r * Escala) + (100 - Alfa) * a
           /\ EnUnidades(estimar(a, r), n + 1) /\ estimar(a, r) \in Nat
<1> DEFINE v == Unidad(n + 1)
           c == 100 - Alfa
<1>1. PICK q \in Nat : a = q * Unidad(n)
  BY DEF EnUnidades
<1>2. PICK k \in Nat : Escala = k * Unidad(n)
  BY EscalaEnUnidades DEF EnUnidades
<1>3. n + 1 \in 0..MaxBloqueos /\ Alfa \in Nat /\ c \in Nat /\ Escala \in Nat
  BY EstimacionAssumption
<1>4. v \in Nat /\ Unidad(n) = 100 * v
  BY <1>3, UnidadSon
<1> HIDE DEF v, c
<1> DEFINE e == Alfa * r * k + c * q
<1>5. Alfa * r * k \in Nat /\ c * q \in Nat /\ e \in Nat /\ e * v \in Nat
  <2>1. Alfa * r * k \in Nat /\ c * q \in Nat
    BY <1>3, Productos
  <2>2. e \in Nat
    BY <2>1
  <2>. QED BY <1>4, <2>1, <2>2, Productos
<1>6. Alfa * r * Escala = Alfa * r * k * (100 * v) /\ Alfa * r * Escala = Alfa * (r * Escala)
  BY <1>2, <1>3, <1>4
<1>7. c * a = c * q * (100 * v)
  BY <1>1, <1>3, <1>4
<1>8. Alfa * r * k * (100 * v) + c * q * (100 * v) = 100 * (e * v)
  BY <1>4, <1>5
<1>9. Alfa * r * Escala + c * a = 100 * (e * v)
  BY <1>6, <1>7, <1>8
<1>10. estimar(a, r) = (Alfa * r * Escala + c * a) \div 100
  BY DEF estimar, c
<1> HIDE DEF e
<1>11. (100 * (e * v)) \div 100 = e * v
  <2> DEFINE x == e * v
  <2>1. x \in Nat
    BY <1>5
  <2> HIDE DEF x
  <2>2. (100 * x) \div 100 = x
    BY <2>1
  <2>. QED BY <2>2 DEF x
<1>12. estimar(a, r) = e * v
  BY <1>9, <1>10, <1>11
<1>13. 100 * estimar(a, r) = Alfa * (r * Escala) + c * a
  BY <1>6, <1>9, <1>12
<1>14. EnUnidades(estimar(a, r), n + 1)
  BY <1>3, <1>5, <1>12 DEF EnUnidades, v
<1>. QED BY <1>5, <1>12, <1>13, <1>14 DEF c

\* A burst more keeps the estimate the average.
LEMMA EstimarPromedia ==
    ASSUME NEW h \in Seq(Nat), NEW r \in Nat, NEW a \in Nat,
           a * Potencia(100, Len(h)) = Promedio(h),
           100 * estimar(a, r) = Alfa * (r * Escala) + (100 - Alfa) * a, estimar(a, r) \in Nat
    PROVE  estimar(a, r) * Potencia(100, Len(Append(h, r))) = Promedio(Append(h, r))
<1> DEFINE n == Len(h)
           p == Potencia(100, n)
           c == 100 - Alfa
           x == r * Escala
           e == estimar(a, r)
<1>1. Alfa \in Nat /\ c \in Nat /\ Escala \in Nat /\ n \in Nat /\ 100 \in Nat
  BY EstimacionAssumption
<1>2. p \in Nat /\ Potencia(100, n + 1) = 100 * p
  <2> HIDE DEF n
  <2>. QED BY <1>1, PotenciaPaso
<1>3. Promedio(Append(h, r)) = c * (a * p) + Alfa * p * x
  BY PromedioMas
<1>4. Len(Append(h, r)) = n + 1
  BY AppendProperties
<1>5. x \in Nat /\ e \in Nat /\ 100 * e = Alfa * x + c * a
  BY <1>1, Productos
<1>6. e * Potencia(100, Len(Append(h, r))) = e * (100 * p)
  BY <1>2, <1>4
<1> HIDE DEF e, x, p, c, n
<1>7. e * (100 * p) = (100 * e) * p
  BY <1>2, <1>5
<1>8. (Alfa * x + c * a) * p = c * (a * p) + Alfa * p * x
  BY <1>1, <1>2, <1>5
<1>9. e * (100 * p) = c * (a * p) + Alfa * p * x
  BY <1>5, <1>7, <1>8
<1>. QED BY <1>3, <1>6, <1>9 DEF e

-----------------------------------------------------------------------------
TodosEnUnidades == \A e \in Esis : EnUnidades(actual[e], Len(historia[e]))
InvPromedio == InvEstimacion /\ TodosEnUnidades /\ EstimacionEsPromedio

\* A step that neither estimates nor ends a burst.
LEMMA PromedioIgual ==
    ASSUME InvPromedio, UNCHANGED <<actual, historia, sobrecontados>>
    PROVE  TodosEnUnidades' /\ EstimacionEsPromedio'
BY DEF InvPromedio, TodosEnUnidades, EstimacionEsPromedio

\* The burst of e ends with an estimate that counts r orders: those it took,
\* or e is one that bloquear took from execution.
LEMMA PromedioRafaga ==
    ASSUME InvPromedio, NEW e \in Esis, NEW r \in Nat, NEW o \in 0..MaxRafaga,
           Len(historia[e]) < MaxBloqueos,
           actual' = [actual EXCEPT ![e] = estimar(@, r)],
           historia' = [historia EXCEPT ![e] = Append(@, o)],
           sobrecontados \subseteq sobrecontados', o = r \/ e \in sobrecontados'
    PROVE  TodosEnUnidades' /\ EstimacionEsPromedio'
<1> DEFINE h == historia[e]
           a == actual[e]
<1>1. /\ h \in Seq(Nat) /\ h \in Seq(0..MaxRafaga) /\ a \in Nat /\ o \in Nat
      /\ Len(h) \in 0..MaxBloqueos /\ EnUnidades(a, Len(h))
      /\ historia \in [Esis -> Seq(0..MaxRafaga)] /\ actual \in [Esis -> Nat]
  <2>1. h \in Seq(0..MaxRafaga) /\ a \in Nat
    BY DEF InvPromedio, InvEstimacion, TypeOK
  <2>2. 0..MaxRafaga \subseteq Nat
    BY Cotas
  <2>3. h \in Seq(Nat) /\ o \in Nat
    <3>1. h \in Seq(Nat)
      BY <2>1, <2>2, SeqMonotonic
    <3>. QED BY <2>2, <3>1
  <2>4. Len(h) \in 0..MaxBloqueos /\ EnUnidades(a, Len(h))
    BY DEF InvPromedio, TodosEnUnidades, EnUnidades
  <2>. QED BY <2>1, <2>3, <2>4 DEF InvPromedio, InvEstimacion, TypeOK
<1>2. /\ actual'[e] = estimar(a, r) /\ historia'[e] = Append(h, o)
      /\ \A f \in Esis \ {e} : actual'[f] = actual[f] /\ historia'[f] = historia[f]
  BY <1>1
<1>3. Len(Append(h, o)) = Len(h) + 1
  BY <1>1, AppendProperties
<1>4. /\ 100 * estimar(a, r) = Alfa * (r * Escala) + (100 - Alfa) * a
      /\ EnUnidades(estimar(a, r), Len(h) + 1) /\ estimar(a, r) \in Nat
  <2> HIDE DEF h, a
  <2>1. Len(h) < MaxBloqueos
    BY DEF h
  <2>. QED BY <1>1, <2>1, EstimarExacto
<1>5. TodosEnUnidades'
  BY <1>2, <1>3, <1>4 DEF InvPromedio, TodosEnUnidades
<1>6. ASSUME NEW f \in Esis \ sobrecontados'
      PROVE  actual'[f] * Potencia(100, Len(historia'[f])) = Promedio(historia'[f])
  <2>1. f \in Esis \ sobrecontados
    BY <1>6
  <2>2. actual[f] * Potencia(100, Len(historia[f])) = Promedio(historia[f])
    BY <2>1 DEF InvPromedio, EstimacionEsPromedio
  <2>3. CASE f = e
    <3>1. o = r
      BY <1>6, <2>3
    <3> HIDE DEF h, a
    <3>2. a * Potencia(100, Len(h)) = Promedio(h)
      BY <2>2, <2>3 DEF h, a
    <3>3. estimar(a, r) * Potencia(100, Len(Append(h, r))) = Promedio(Append(h, r))
      BY <1>1, <1>4, <3>2, EstimarPromedia
    <3>. QED BY <1>2, <2>3, <3>1, <3>3
  <2>4. CASE f # e
    BY <1>2, <2>2, <2>4
  <2>. QED BY <2>3, <2>4
<1>7. EstimacionEsPromedio'
  BY <1>6 DEF EstimacionEsPromedio
<1>. QED BY <1>5, <1>7

LEMMA PromedioMantiene == InvPromedio /\ [Next]_vars => InvPromedio'
<1> SUFFICES ASSUME InvPromedio, [Next]_vars PROVE InvPromedio'
  OBVIOUS
<1>1. InvEstimacion'
  BY EstimacionMantiene DEF InvPromedio
<1>2. CASE UNCHANGED <<actual, historia, sobrecontados>>
  BY <1>1, <1>2, PromedioIgual DEF InvPromedio
<1>3. ASSUME NEW e \in Esis, InstruccionBloquea(e), UNCHANGED consola
      PROVE  InvPromedio'
  <2>1. rafaga[e] = ordenes[e] /\ ordenes[e] < MaxRafaga /\ Len(historia[e]) < MaxBloqueos
    BY <1>3 DEF InstruccionBloquea, Ordenar, InvPromedio, InvEstimacion, RafagaDeOrdenes
  <2>2. ordenes[e] + 1 \in 0..MaxRafaga /\ ordenes[e] + 1 \in Nat
    BY <2>1, Cotas DEF InvPromedio, InvEstimacion, TypeOK
  <2>3. /\ actual' = [actual EXCEPT ![e] = estimar(@, ordenes[e] + 1)]
        /\ historia' = [historia EXCEPT ![e] = Append(@, ordenes[e] + 1)]
        /\ sobrecontados \subseteq sobrecontados'
    BY <1>3, <2>1 DEF InstruccionBloquea, ejecutando_a_bloqueado, consola
  <2>4. TodosEnUnidades' /\ EstimacionEsPromedio'
    BY <2>1, <2>2, <2>3, PromedioRafaga
  <2>. QED BY <1>1, <2>4 DEF InvPromedio
<1>4. ASSUME NEW e \in Esis, ConsolaBloquearEjecutando(e) PROVE InvPromedio'
  <2>1. rafaga[e] + 1 \in Nat /\ ordenes[e] \in 0..MaxRafaga
    BY <1>4, Cotas DEF InvPromedio, InvEstimacion, TypeOK
  <2>2. /\ actual' = [actual EXCEPT ![e] = estimar(@, rafaga[e] + 1)]
        /\ historia' = [historia EXCEPT ![e] = Append(@, ordenes[e])]
        /\ sobrecontados' = sobrecontados \cup {e} /\ Len(historia[e]) < MaxBloqueos
    BY <1>4 DEF ConsolaBloquearEjecutando, ejecutando_a_bloqueado
  <2>3. TodosEnUnidades' /\ EstimacionEsPromedio'
    BY <2>1, <2>2, PromedioRafaga
  <2>. QED BY <1>1, <2>3 DEF InvPromedio
<1>5. CASE Planificar /\ UNCHANGED consola
  <2>1. CASE Inicio \/ Desalojar \/ Comparar \/ Reset \/ Elegir \/ Seleccionar
    BY <1>2, <1>5, <2>1 DEF Inicio, Desalojar, Comparar, Reset, Elegir, Seleccionar, campos,
                            fantasmas, consola
  <2>2. ASSUME NEW e \in Esis, InstruccionCorrecta(e) \/ UltimaInstruccion(e)
        PROVE  InvPromedio'
    BY <1>2, <1>5, <2>2 DEF InstruccionCorrecta, UltimaInstruccion, consola
  <2>. QED BY <1>3, <1>5, <2>1, <2>2 DEF Planificar
<1>6. ASSUME NEW e \in Esis,
             \/ agregar_nuevo_esi(e) /\ UNCHANGED consola
             \/ ConsolaBloquearListo(e) \/ ConsolaDesbloquear(e)
      PROVE  InvPromedio'
  BY <1>2, <1>6 DEF agregar_nuevo_esi, ConsolaBloquearListo, ConsolaDesbloquear, fantasmas, consola
<1>7. CASE UNCHANGED vars
  BY <1>2, <1>7 DEF vars, campos, fantasmas, consola
<1>. QED BY <1>4, <1>5, <1>6, <1>7 DEF Next

\* The estimate of an ESI is the exponential average of what its bursts took, for
\* any weight and any number of bursts, but of those bloquear took from execution.
THEOREM EstimacionPromedio == Spec => []EstimacionEsPromedio
<1>1. Init => InvPromedio
  <2> SUFFICES ASSUME Init PROVE InvPromedio
    OBVIOUS
  <2>1. \A e \in Esis : actual[e] = EstimacionInicial * Escala /\ historia[e] = <<>>
    BY DEF Init
  <2>2. Potencia(100, Len(<<>>)) = 1 /\ EstimacionInicial * Escala \in Nat
    BY PotenciaPaso, EstimacionAssumption
  <2>3. EstimacionEsPromedio
    BY <2>1, <2>2, PromedioVacio DEF EstimacionEsPromedio
  <2>4. EnUnidades(EstimacionInicial * Escala, 0)
    <3>1. 0 \in 0..MaxBloqueos /\ EstimacionInicial \in Nat
      BY EstimacionAssumption
    <3>2. PICK q \in Nat : Escala = q * Unidad(0)
      BY <3>1, EscalaEnUnidades DEF EnUnidades
    <3> DEFINE u == Unidad(0)
    <3>3. u \in Nat
      BY <3>1, UnidadSon
    <3>4. EstimacionInicial * (q * u) = (EstimacionInicial * q) * u
      <4> HIDE DEF u
      <4>. QED BY <3>1, <3>3
    <3>5. EstimacionInicial * q \in Nat
      BY <3>1, Productos
    <3>. QED BY <3>1, <3>2, <3>4, <3>5 DEF EnUnidades
  <2>5. TodosEnUnidades
    BY <2>1, <2>4 DEF TodosEnUnidades
  <2>. QED BY <2>3, <2>5, EstimacionInicia DEF InvPromedio
<1>2. InvPromedio => EstimacionEsPromedio
  BY DEF InvPromedio
<1>. QED BY <1>1, <1>2, PromedioMantiene, PTL DEF Spec

-----------------------------------------------------------------------------
(* The ready ESIs that have waited for more than j bursts per unit of their *)
(* estimate, and d orders.                                                  *)
Atrasados(j, d) ==
    {e \in En("listos") : Espera(e) * Escala > MaxRafaga * (j * actual[e]) + d * Escala}

(* Those that have waited for more than j bursts are fewer the larger j is: *)
(* when planificar is to choose, at most as many as there are ESIs but one  *)
(* and j; while one executes, one less, and its orders do not count.        *)
Caben(S, j, n) == S # {} => Cardinality(S) + j <= n
Escalonados ==
    \A j \in Nat :
        /\ En("ejecutando") = {} => Caben(Atrasados(j, 0), j, Cardinality(Esis) - 1)
        /\ \A x \in En("ejecutando") :
              Caben(Atrasados(j, ordenes[x]), j, Cardinality(Esis) - 2)

AlMenosUna == \A e \in Esis : actual[e] >= Escala

InvInanicion ==
    InvEstimacion /\ AlMenosUna /\ SinInanicion /\ (algoritmo = "HRRN" => Escalonados)

\* Of natural numbers.
LEMMA ProductoCrece ==
    ASSUME NEW x \in Nat, NEW y \in Nat, NEW z \in Nat
    PROVE  /\ x * z \in Nat
           /\ x <= y => x * z <= y * z
           /\ x < y /\ z > 0 => x * z < y * z
<1>1. x * z \in Nat /\ y * z \in Nat
  OBVIOUS
<1>2. ASSUME x <= y PROVE x * z <= y * z
  <2>1. y - x \in Nat /\ y * z = x * z + (y - x) * z
    BY <1>2
  <2>2. (y - x) * z \in Nat
    BY <2>1
  <2>. QED BY <1>1, <2>1, <2>2
<1>3. ASSUME x < y, z > 0 PROVE x * z < y * z
  <2>1. y - x - 1 \in Nat /\ y * z = x * z + (y - x - 1) * z + z
    BY <1>3
  <2>2. (y - x - 1) * z \in Nat
    BY <2>1
  <2>. QED BY <1>1, <1>3, <2>1, <2>2
<1>. QED BY <1>1, <1>2, <1>3

\* Who has the greater ratio is behind if the other is.
LEMMA RatioMayor ==
    ASSUME NEW w \in Nat, NEW a \in Nat \ {0}, NEW v \in Nat, NEW b \in Nat \ {0}, NEW m \in Nat,
           w * b >= v * a, v * Escala > m * b
    PROVE  w * Escala > m * a
<1>1. Escala \in Nat
  BY Cotas
<1>2. SUFFICES ASSUME w * Escala <= m * a PROVE FALSE
  <2>1. w * Escala \in Nat /\ m * a \in Nat
    BY <1>1
  <2>. QED BY <2>1
<1>3. (w * Escala) * b <= (m * a) * b
  BY <1>1, <1>2, ProductoCrece
<1>4. (v * a) * Escala <= (w * b) * Escala
  BY <1>1, ProductoCrece
<1>5. (m * b) * a < (v * Escala) * a
  <2>1. m * b \in Nat /\ v * Escala \in Nat /\ m * b < v * Escala /\ a > 0
    BY <1>1
  <2>. QED BY <2>1, ProductoCrece
<1>6. (w * Escala) * b = (w * b) * Escala /\ (v * a) * Escala = (v * Escala) * a
      /\ (m * a) * b = (m * b) * a
  BY <1>1
<1>7. (m * b) * a \in Nat /\ (v * Escala) * a \in Nat /\ (w * b) * Escala \in Nat
  BY <1>1
<1>. QED BY <1>3, <1>4, <1>5, <1>6, <1>7

\* An estimate is of an order at least if the one before and the burst are.
LEMMA EstimarMinimo ==
    ASSUME NEW a \in Nat, NEW r \in Nat, a >= Escala, r >= 1
    PROVE  estimar(a, r) >= Escala
<1> DEFINE c == 100 - Alfa
           x == Alfa * r * Escala
           y == c * a
<1>1. Alfa \in Nat /\ c \in Nat /\ Escala \in Nat /\ Alfa + c = 100
  BY EstimacionAssumption
<1>2. 1 * Alfa <= r * Alfa
  BY <1>1, ProductoCrece
<1>3. Alfa * Escala <= x
  <2>1. Alfa <= Alfa * r /\ Alfa * r \in Nat
    BY <1>1, <1>2
  <2>. QED BY <1>1, <2>1, ProductoCrece
<1>4. c * Escala <= y
  <2>1. Escala * c <= a * c
    BY <1>1, ProductoCrece
  <2> HIDE DEF c
  <2>. QED BY <1>1, <2>1
<1>5. x \in Nat /\ y \in Nat
  <2>1. Alfa * r \in Nat
    BY <1>1
  <2>. QED BY <1>1, <2>1
<1>6. Alfa * Escala + c * Escala = 100 * Escala
  <2>1. (Alfa + c) * Escala = Alfa * Escala + c * Escala
    <3> HIDE DEF c
    <3>. QED BY <1>1
  <2>. QED BY <1>1, <2>1
<1>7. estimar(a, r) = (x + y) \div 100
  BY DEF estimar
<1> HIDE DEF x, y, c
<1>8. x + y >= 100 * Escala
  BY <1>1, <1>3, <1>4, <1>5, <1>6
<1>9. (x + y) \div 100 >= Escala
  BY <1>1, <1>5, <1>8
<1>. QED BY <1>7, <1>9

-----------------------------------------------------------------------------
\* What the inequalities are about.
LEMMA EsperaTipos ==
    ASSUME TypeOK, AlMenosUna
    PROVE  /\ \A e \in Esis : /\ Espera(e) \in Nat /\ ordenes[e] \in Nat
                              /\ actual[e] \in Nat \ {0} /\ actual[e] >= Escala
           /\ tiempo \in Nat /\ Escala \in Nat \ {0} /\ MaxRafaga \in Nat
<1>1. tiempo \in Nat /\ Escala \in Nat \ {0} /\ MaxRafaga \in Nat
  BY EstimacionAssumption DEF TypeOK
<1>2. \A e \in Esis : llegada[e] \in 0..tiempo /\ ordenes[e] \in 0..MaxRafaga /\ actual[e] \in Nat
  BY DEF TypeOK
<1>. QED BY <1>1, <1>2 DEF Espera, AlMenosUna

\* Who has waited for more has waited for less.
LEMMA AtrasadosMenos ==
    ASSUME TypeOK, AlMenosUna, NEW j \in Nat
    PROVE  /\ \A d, b \in Nat : b <= d => Atrasados(j, d) \subseteq Atrasados(j, b)
           /\ Atrasados(j + 1, 0) \subseteq Atrasados(j, MaxRafaga)
<1>1. /\ Escala \in Nat /\ MaxRafaga \in Nat
      /\ \A e \in Esis : Espera(e) \in Nat /\ actual[e] \in Nat /\ actual[e] >= Escala
  BY EsperaTipos
<1>2. ASSUME NEW d \in Nat, NEW b \in Nat, b <= d PROVE Atrasados(j, d) \subseteq Atrasados(j, b)
  <2>1. SUFFICES ASSUME NEW e \in Atrasados(j, d) PROVE e \in Atrasados(j, b)
    OBVIOUS
  <2>2. e \in En("listos") /\ e \in Esis
        /\ Espera(e) * Escala > MaxRafaga * (j * actual[e]) + d * Escala
    BY DEF Atrasados, En
  <2>3. b * Escala <= d * Escala /\ b * Escala \in Nat /\ d * Escala \in Nat
    BY <1>1, <1>2, ProductoCrece
  <2> DEFINE w == Espera(e) * Escala
             m == MaxRafaga * (j * actual[e])
  <2>4. w \in Nat /\ m \in Nat
    BY <1>1, <2>2, ProductoCrece
  <2>5. w > m + b * Escala
    <3>1. w > m + d * Escala
      BY <2>2
    <3> HIDE DEF w, m
    <3>. QED BY <2>3, <2>4, <3>1
  <2>. QED BY <2>2, <2>5 DEF Atrasados
<1>3. ASSUME NEW e \in Atrasados(j + 1, 0) PROVE e \in Atrasados(j, MaxRafaga)
  <2> DEFINE a == actual[e]
             w == Espera(e) * Escala
  <2>1. e \in En("listos") /\ e \in Esis /\ w > MaxRafaga * ((j + 1) * a) + 0 * Escala
    BY <1>3 DEF Atrasados, En
  <2>2. a \in Nat /\ w \in Nat /\ a >= Escala
    BY <1>1, <2>1, ProductoCrece
  <2> HIDE DEF a, w
  <2>3. MaxRafaga * ((j + 1) * a) = MaxRafaga * (j * a) + a * MaxRafaga
    BY <1>1, <2>2
  <2>4. Escala * MaxRafaga <= a * MaxRafaga /\ Escala * MaxRafaga = MaxRafaga * Escala
    BY <1>1, <2>2, ProductoCrece
  <2>5. /\ MaxRafaga * (j * a) \in Nat /\ a * MaxRafaga \in Nat /\ MaxRafaga * Escala \in Nat
        /\ 0 * Escala = 0
    <3>1. j * a \in Nat
      BY <2>2
    <3>. QED BY <1>1, <2>2, <3>1
  <2>6. w > MaxRafaga * (j * a) + MaxRafaga * Escala
    BY <2>1, <2>2, <2>3, <2>4, <2>5
  <2>. QED BY <2>1, <2>6 DEF Atrasados, a, w
<1>. QED BY <1>2, <1>3

\* After k orders, 0 or 1, the only ones that have waited for d + k more are
\* those that had for d.
LEMMA AtrasadosAntes ==
    ASSUME TypeOK, AlMenosUna, TypeOK', AlMenosUna', NEW k \in {0, 1}, tiempo' = tiempo + k,
           \A f \in Esis : lugar'[f] = "listos" =>
              \/ llegada'[f] = tiempo'
              \/ lugar[f] = "listos" /\ llegada'[f] = llegada[f] /\ actual'[f] = actual[f],
           NEW j \in Nat, NEW d \in Nat
    PROVE  Atrasados(j, d + k)' \subseteq Atrasados(j, d)
<1>1. SUFFICES ASSUME NEW e \in Atrasados(j, d + k)' PROVE e \in Atrasados(j, d)
  OBVIOUS
<1>2. /\ e \in Esis /\ lugar'[e] = "listos"
      /\ Espera(e)' * Escala > MaxRafaga * (j * actual'[e]) + (d + k) * Escala
  BY DEF Atrasados, En
<1>3. /\ Escala \in Nat \ {0} /\ MaxRafaga \in Nat /\ Espera(e) \in Nat /\ actual[e] \in Nat
      /\ tiempo \in Nat
  BY <1>2, EsperaTipos
<1>4. actual'[e] \in Nat /\ Espera(e)' = tiempo' - llegada'[e] /\ Espera(e) = tiempo - llegada[e]
  BY <1>2 DEF TypeOK, Espera
<1>5. /\ MaxRafaga * (j * actual'[e]) \in Nat /\ (d + k) * Escala \in Nat
      /\ MaxRafaga * (j * actual[e]) \in Nat /\ d * Escala \in Nat
  <2>1. j * actual'[e] \in Nat /\ j * actual[e] \in Nat /\ d + k \in Nat
    BY <1>3, <1>4
  <2>. QED BY <1>3, <2>1, ProductoCrece
<1>6. llegada'[e] # tiempo'
  <2>1. CASE llegada'[e] = tiempo'
    <3>1. Espera(e)' = 0
      BY <1>3, <1>4, <2>1
    <3>2. Espera(e)' * Escala = 0
      BY <1>3, <3>1
    <3>. QED BY <1>2, <1>5, <3>2
  <2>. QED BY <2>1
<1>7. lugar[e] = "listos" /\ llegada'[e] = llegada[e] /\ actual'[e] = actual[e]
  BY <1>2, <1>6
<1>8. Espera(e)' = Espera(e) + k
  <2>1. llegada[e] \in 0..tiempo
    BY <1>2 DEF TypeOK
  <2>. QED BY <1>3, <1>4, <1>7, <2>1
<1> DEFINE m == MaxRafaga * (j * actual[e])
<1>9. (Espera(e) + k) * Escala > m + (d + k) * Escala
  BY <1>2, <1>7, <1>8
<1> HIDE DEF m
<1>10. Espera(e) * Escala > m + d * Escala
  <2>1. /\ (Espera(e) + k) * Escala = Espera(e) * Escala + k * Escala
        /\ (d + k) * Escala = d * Escala + k * Escala
    <3> DEFINE w == Espera(e)
    <3>1. w \in Nat /\ k \in Nat /\ Escala \in Nat
      BY <1>3
    <3> HIDE DEF w
    <3>. QED BY <3>1 DEF w
  <2>2. m \in Nat /\ Espera(e) * Escala \in Nat /\ k * Escala \in Nat /\ d * Escala \in Nat
    BY <1>3, <1>5, ProductoCrece DEF m
  <2>. QED BY <1>9, <2>1, <2>2
<1>. QED BY <1>2, <1>7, <1>10 DEF Atrasados, En, m

\* How many there are.
LEMMA CabenMenos ==
    ASSUME NEW S \in SUBSET Esis, NEW R \in SUBSET S, NEW j \in Nat, NEW n \in Int, Caben(S, j, n)
    PROVE  Caben(R, j, n)
<1>1. IsFiniteSet(S)
  BY EstimacionAssumption, FS_Subset
<1>2. Cardinality(R) \in Nat /\ Cardinality(S) \in Nat /\ Cardinality(R) <= Cardinality(S)
  BY <1>1, FS_Subset, FS_CardinalityType
<1>. QED BY <1>2 DEF Caben

LEMMA OtrosCotan ==
    /\ Otros \in Nat /\ Cardinality(Esis) \in Nat
    /\ \A S \in SUBSET Esis : Caben(S, Otros, Cardinality(Esis) - 2) => S = {}
<1> DEFINE n == Cardinality(Esis)
<1>1. n \in Nat
  BY EstimacionAssumption, FS_CardinalityType
<1>2. Otros \in Nat /\ Otros >= n - 2
  <2>1. CASE n - 2 <= 0
    <3>1. \E x \in {0, n - 2} : \A y \in {0, n - 2} : x >= y
      BY <1>1, <2>1
    <3>2. Otros \in {0, n - 2} /\ \A y \in {0, n - 2} : Otros >= y
      BY <3>1 DEF Otros, Max
    <3>. QED BY <1>1, <2>1, <3>2
  <2>2. CASE n - 2 > 0
    <3>1. \E x \in {0, n - 2} : \A y \in {0, n - 2} : x >= y
      BY <1>1, <2>2
    <3>2. Otros \in {0, n - 2} /\ \A y \in {0, n - 2} : Otros >= y
      BY <3>1 DEF Otros, Max
    <3>. QED BY <1>1, <2>2, <3>2
  <2>. QED BY <1>1, <2>1, <2>2
<1>3. ASSUME NEW S \in SUBSET Esis, Caben(S, Otros, n - 2) PROVE S = {}
  <2>1. IsFiniteSet(S)
    BY EstimacionAssumption, FS_Subset
  <2>2. Cardinality(S) \in Nat /\ (Cardinality(S) = 0 <=> S = {})
    BY <2>1, FS_EmptySet, FS_CardinalityType
  <2> HIDE DEF n
  <2>. QED BY <1>1, <1>2, <1>3, <2>2 DEF Caben
<1>. QED BY <1>1, <1>2, <1>3

\* The property says that nobody is late for Otros bursts and the one in progress.
LEMMA SinAtrasados ==
    ASSUME TypeOK, AlMenosUna
    PROVE  SinInanicion <=> (algoritmo = "HRRN" => Atrasados(Otros, MaxRafaga) = {})
<1>1. ASSUME NEW e \in En("listos")
      PROVE  e \in Atrasados(Otros, MaxRafaga) <=>
                ~(Espera(e) * Escala <= MaxRafaga * (Otros * actual[e]) + MaxRafaga * Escala)
  <2> DEFINE w == Espera(e) * Escala
             m == MaxRafaga * (Otros * actual[e])
             r == MaxRafaga * Escala
  <2>1. e \in Esis
    BY DEF En
  <2>2. /\ Espera(e) \in Nat /\ actual[e] \in Nat /\ Escala \in Nat /\ MaxRafaga \in Nat
        /\ Otros \in Nat
    BY <2>1, EsperaTipos, OtrosCotan
  <2>3. w \in Nat /\ m \in Nat /\ r \in Nat
    BY <2>2, ProductoCrece
  <2>4. e \in Atrasados(Otros, MaxRafaga) <=> w > m + r
    BY DEF Atrasados
  <2> HIDE DEF w, m, r
  <2>5. w > m + r <=> ~(w <= m + r)
    BY <2>3
  <2>. QED BY <2>4, <2>5 DEF w, m, r
<1>2. Atrasados(Otros, MaxRafaga) \subseteq En("listos")
  BY DEF Atrasados
<1>. QED BY <1>1, <1>2 DEF SinInanicion

LEMMA AtrasadosMenosDespues ==
    (TypeOK /\ AlMenosUna =>
        \A j \in Nat : Atrasados(j + 1, 0) \subseteq Atrasados(j, MaxRafaga))'
<1>1. TypeOK /\ AlMenosUna => \A j \in Nat : Atrasados(j + 1, 0) \subseteq Atrasados(j, MaxRafaga)
  BY AtrasadosMenos
<1>. QED BY <1>1, PTL

LEMMA SinAtrasadosDespues ==
    (TypeOK /\ AlMenosUna /\ Atrasados(Otros, MaxRafaga) = {} => SinInanicion)'
<1>1. TypeOK /\ AlMenosUna /\ Atrasados(Otros, MaxRafaga) = {} => SinInanicion
  BY SinAtrasados
<1>. QED BY <1>1, PTL

-----------------------------------------------------------------------------
(* The steps of HRRN, which never preempts.                                *)
\* Escalonados after a step, the orders of the one that executes being d.
LEMMA EscalonadosDespues ==
    ASSUME TypeOK',
           \A j \in Nat : En("ejecutando")' = {} =>
              Caben(Atrasados(j, 0)', j, Cardinality(Esis) - 1),
           \A j \in Nat, x \in En("ejecutando")', d \in Nat :
              d = ordenes'[x] => Caben(Atrasados(j, d)', j, Cardinality(Esis) - 2)
    PROVE  Escalonados'
<1>1. ASSUME NEW j \in Nat, NEW x \in En("ejecutando")'
      PROVE  Caben(Atrasados(j, ordenes[x])', j, Cardinality(Esis) - 2)
  <2>1. ordenes'[x] \in Nat
    BY Cotas DEF En, TypeOK
  <2>2. PICK d \in Nat : d = ordenes'[x]
    BY <2>1
  <2>3. Atrasados(j, ordenes[x])' = Atrasados(j, d)'
    BY <2>2 DEF Atrasados
  <2>. QED BY <2>2, <2>3
<1>. QED BY <1>1 DEF Escalonados, Caben

\* No order: nobody waits for more, and who executes does not change.
LEMMA EsperaQuieta ==
    ASSUME InvInanicion, TypeOK', AlMenosUna', algoritmo = "HRRN", UNCHANGED <<algoritmo, tiempo>>,
           En("ejecutando")' = En("ejecutando"),
           \A x \in En("ejecutando") : ordenes'[x] = ordenes[x],
           \A f \in Esis : lugar'[f] = "listos" =>
              \/ llegada'[f] = tiempo'
              \/ lugar[f] = "listos" /\ llegada'[f] = llegada[f] /\ actual'[f] = actual[f]
    PROVE  SinInanicion' /\ Escalonados'
<1>1. TypeOK /\ AlMenosUna /\ Escalonados /\ SinInanicion
  BY DEF InvInanicion, InvEstimacion
<1>2. ASSUME NEW j \in Nat, NEW d \in Nat PROVE Atrasados(j, d)' \subseteq Atrasados(j, d)
  <2>1. tiempo' = tiempo + 0 /\ 0 \in {0, 1} /\ d + 0 = d
    BY <1>1, EsperaTipos
  <2>2. Atrasados(j, d + 0)' \subseteq Atrasados(j, d)
    BY <1>1, <2>1, AtrasadosAntes
  <2>. QED BY <2>1, <2>2 DEF Atrasados
<1>3. \A j, d \in Nat : Atrasados(j, d) \in SUBSET Esis
  BY DEF Atrasados, En
<1>4. /\ Cardinality(Esis) \in Nat /\ Cardinality(Esis) - 1 \in Int /\ Cardinality(Esis) - 2 \in Int
      /\ Otros \in Nat /\ MaxRafaga \in Nat
  BY OtrosCotan, Cotas
<1>5. ASSUME NEW j \in Nat, NEW d \in Nat, NEW n \in Int, Caben(Atrasados(j, d), j, n)
      PROVE  Caben(Atrasados(j, d)', j, n)
  BY <1>2, <1>3, <1>5, CabenMenos
<1>6. Escalonados'
  <2>1. ASSUME NEW j \in Nat, En("ejecutando")' = {}
        PROVE  Caben(Atrasados(j, 0)', j, Cardinality(Esis) - 1)
    <3>1. Caben(Atrasados(j, 0), j, Cardinality(Esis) - 1)
      BY <1>1, <2>1 DEF Escalonados
    <3>. QED BY <1>4, <1>5, <3>1
  <2>2. ASSUME NEW j \in Nat, NEW x \in En("ejecutando")', NEW d \in Nat, d = ordenes'[x]
        PROVE  Caben(Atrasados(j, d)', j, Cardinality(Esis) - 2)
    <3>1. Caben(Atrasados(j, d), j, Cardinality(Esis) - 2)
      BY <1>1, <2>2 DEF Escalonados
    <3>. QED BY <1>4, <1>5, <3>1
  <2>. QED BY <2>1, <2>2, EscalonadosDespues
<1>7. SinInanicion'
  <2>1. Atrasados(Otros, MaxRafaga) = {}
    BY <1>1, SinAtrasados
  <2>2. Atrasados(Otros, MaxRafaga)' = {}
    BY <1>2, <1>4, <2>1
  <2>. QED BY <2>2, SinAtrasadosDespues
<1>. QED BY <1>6, <1>7

\* The choice: who is chosen is late if anybody is.
LEMMA EsperaAlElegir ==
    ASSUME InvInanicion, TypeOK', AlMenosUna', algoritmo = "HRRN", UNCHANGED <<algoritmo, consola>>,
           Seleccionar
    PROVE  SinInanicion' /\ Escalonados'
<1>1. PICK e \in En("listos") :
          Elegido(e) /\ lugar' = [lugar EXCEPT ![e] = "ejecutando"] /\ listo_a_ejecutando(e)
  BY DEF Seleccionar
<1>2. /\ TypeOK /\ AlMenosUna /\ Escalonados /\ SinInanicion
      /\ e \in Esis /\ ordenes[e] = 0 /\ En("ejecutando") = {}
      /\ UNCHANGED <<actual, tiempo, ordenes>>
  BY DEF InvInanicion, InvEstimacion, UnoEjecuta, RafagaDeOrdenes, Seleccionar, Ir, En
<1>3. /\ lugar'[e] = "ejecutando" /\ \A f \in Esis \ {e} : lugar'[f] = lugar[f]
      /\ \A f \in Esis \ {e} : llegada'[f] = llegada[f]
  BY <1>1, <1>2 DEF TypeOK, listo_a_ejecutando
<1>4. ASSUME NEW j \in Nat, NEW d \in Nat
      PROVE  Atrasados(j, d)' \subseteq Atrasados(j, d) \ {e}
  <2>1. tiempo' = tiempo + 0 /\ 0 \in {0, 1} /\ d + 0 = d
    BY <1>2, EsperaTipos
  <2>2. \A f \in Esis : lugar'[f] = "listos" =>
            lugar[f] = "listos" /\ llegada'[f] = llegada[f] /\ actual'[f] = actual[f]
    BY <1>2, <1>3
  <2>3. Atrasados(j, d + 0)' \subseteq Atrasados(j, d)
    BY <1>2, <2>1, <2>2, AtrasadosAntes
  <2>4. e \notin Atrasados(j, d)'
    BY <1>3 DEF Atrasados, En
  <2>. QED BY <2>1, <2>3, <2>4 DEF Atrasados
<1>5. ASSUME NEW j \in Nat, Atrasados(j, 0) # {} PROVE e \in Atrasados(j, 0)
  <2>1. PICK f \in Atrasados(j, 0) : TRUE
    BY <1>5
  <2> DEFINE m == MaxRafaga * j
  <2>2. f \in Esis /\ f \in En("listos")
        /\ Espera(f) * Escala > MaxRafaga * (j * actual[f]) + 0 * Escala
    BY <2>1 DEF Atrasados, En
  <2>3. Espera(e) * actual[f] >= Espera(f) * actual[e]
    BY <1>1, <2>2 DEF Elegido, DeMayorRatio
  <2>4. /\ actual[e] \in Nat \ {0} /\ actual[f] \in Nat \ {0} /\ MaxRafaga \in Nat
        /\ Espera(e) \in Nat /\ Espera(f) \in Nat /\ Escala \in Nat /\ m \in Nat
    <3>1. MaxRafaga \in Nat
      BY Cotas
    <3>2. m \in Nat
      BY <3>1, ProductoCrece
    <3>. QED BY <1>2, <2>2, <3>2, EsperaTipos
  <2>5. /\ MaxRafaga * (j * actual[f]) + 0 * Escala = m * actual[f]
        /\ MaxRafaga * (j * actual[e]) + 0 * Escala = m * actual[e]
    BY <2>4
  <2> HIDE DEF m
  <2>6. Espera(e) * Escala > m * actual[e]
    <3> DEFINE w == Espera(e)
               v == Espera(f)
               a == actual[e]
               b == actual[f]
    <3>1. w \in Nat /\ v \in Nat /\ a \in Nat \ {0} /\ b \in Nat \ {0}
      BY <2>4
    <3>2. w * b >= v * a /\ v * Escala > m * b
      BY <2>2, <2>3, <2>5
    <3> HIDE DEF w, v, a, b
    <3>3. w * Escala > m * a
      BY <2>4, <3>1, <3>2, RatioMayor
    <3>. QED BY <3>3 DEF w, a
  <2>. QED BY <1>1, <2>5, <2>6 DEF Atrasados
<1>6. Cardinality(Esis) \in Nat /\ Otros \in Nat /\ MaxRafaga \in Nat
  BY OtrosCotan, Cotas
<1>7. ASSUME NEW j \in Nat
      PROVE  Caben(Atrasados(j, 0)', j, Cardinality(Esis) - 2)
  <2> DEFINE A == Atrasados(j, 0)
             B == A \ {e}
  <2>1. Caben(A, j, Cardinality(Esis) - 1)
    BY <1>2 DEF Escalonados
  <2>2. IsFiniteSet(A) /\ A \in SUBSET Esis
    <3>1. A \in SUBSET Esis
      BY DEF Atrasados, En
    <3>. QED BY <3>1, EstimacionAssumption, FS_Subset
  <2>3. A # {} => e \in A
    BY <1>5
  <2>4. Atrasados(j, 0)' \in SUBSET B /\ B \in SUBSET Esis
    BY <1>4, <2>2
  <2> HIDE DEF A
  <2>5. Caben(B, j, Cardinality(Esis) - 2)
    <3>1. CASE A = {}
      BY <3>1 DEF Caben
    <3>2. CASE A # {}
      <4>1. Cardinality(B) = Cardinality(A) - 1 /\ Cardinality(A) \in Nat
        BY <2>2, <2>3, <3>2, FS_RemoveElement, FS_CardinalityType
      <4>. QED BY <1>6, <2>1, <3>2, <4>1 DEF Caben
    <3>. QED BY <3>1, <3>2
  <2>. QED BY <1>6, <2>4, <2>5, CabenMenos
<1>8. Escalonados'
  <2>1. En("ejecutando")' # {}
    BY <1>2, <1>3 DEF En
  <2>2. ASSUME NEW j \in Nat, NEW x \in En("ejecutando")', NEW d \in Nat, d = ordenes'[x]
        PROVE  Caben(Atrasados(j, d)', j, Cardinality(Esis) - 2)
    <3>1. x = e
      BY <1>2, <1>3 DEF En
    <3>2. d = 0
      BY <1>2, <2>2, <3>1
    <3>. QED BY <1>7, <3>2 DEF Atrasados
  <2>. QED BY <2>1, <2>2, EscalonadosDespues
<1>9. SinInanicion'
  <2>1. Atrasados(Otros, MaxRafaga) = {}
    BY <1>2, SinAtrasados
  <2>2. Atrasados(Otros, MaxRafaga)' = {}
    BY <1>4, <1>6, <2>1
  <2>. QED BY <2>2, SinAtrasadosDespues
<1>. QED BY <1>8, <1>9

\* An order: each ready ESI waits for one more, and that is not counted.
LEMMA EsperaUnaOrden ==
    ASSUME InvInanicion, TypeOK', AlMenosUna', algoritmo = "HRRN", NEW e \in Esis,
           InstruccionCorrecta(e)
    PROVE  SinInanicion' /\ Escalonados'
<1>1. /\ TypeOK /\ AlMenosUna /\ Escalonados
      /\ e \in En("ejecutando") /\ \A x \in En("ejecutando") : x = e
      /\ tiempo' = tiempo + 1 /\ UNCHANGED actual /\ ordenes' = [ordenes EXCEPT ![e] = @ + 1]
      /\ ordenes[e] < MaxRafaga
  BY DEF InvInanicion, InvEstimacion, UnoEjecuta, InstruccionCorrecta, Ordenar, En
<1>2. PICK S \in SUBSET En("bloqueados") : lugar' = Con(lugar, S, "listos") /\ Llegan(S, tiempo')
  BY DEF InstruccionCorrecta
<1>3. /\ \A f \in Esis : lugar'[f] = IF f \in S THEN "listos" ELSE lugar[f]
      /\ \A f \in Esis : llegada'[f] = IF f \in S THEN tiempo' ELSE llegada[f]
  BY <1>2 DEF Con, Llegan
<1>4. ordenes'[e] = ordenes[e] + 1 /\ ordenes[e] \in Nat
  BY <1>1, Cotas DEF TypeOK, En
<1>5. ASSUME NEW j \in Nat, NEW d \in Nat PROVE Atrasados(j, d + 1)' \subseteq Atrasados(j, d)
  <2>1. 1 \in {0, 1}
    OBVIOUS
  <2>2. \A f \in Esis : lugar'[f] = "listos" =>
            \/ llegada'[f] = tiempo'
            \/ lugar[f] = "listos" /\ llegada'[f] = llegada[f] /\ actual'[f] = actual[f]
    BY <1>1, <1>3
  <2>. QED BY <1>1, <2>1, <2>2, AtrasadosAntes
<1>6. /\ \A j \in Nat : Caben(Atrasados(j, ordenes[e]), j, Cardinality(Esis) - 2)
      /\ Otros \in Nat /\ Cardinality(Esis) - 2 \in Int
      /\ \A j, d \in Nat : Atrasados(j, d) \in SUBSET Esis
  <2>1. \A j \in Nat : Caben(Atrasados(j, ordenes[e]), j, Cardinality(Esis) - 2)
    BY <1>1 DEF Escalonados
  <2>2. \A j, d \in Nat : Atrasados(j, d) \in SUBSET Esis
    BY DEF Atrasados, En
  <2>. QED BY <2>1, <2>2, OtrosCotan
<1>7. Escalonados'
  <2>1. e \in En("ejecutando")' /\ \A x \in En("ejecutando")' : x = e
    BY <1>1, <1>2, <1>3 DEF En
  <2>2. ASSUME NEW j \in Nat, NEW x \in En("ejecutando")', NEW d \in Nat, d = ordenes'[x]
        PROVE  Caben(Atrasados(j, d)', j, Cardinality(Esis) - 2)
    <3>1. d = ordenes[e] + 1
      BY <1>4, <2>1, <2>2
    <3>2. PICK b \in Nat : b = ordenes[e]
      BY <1>4
    <3>3. Atrasados(j, d)' = Atrasados(j, b + 1)'
      BY <3>1, <3>2 DEF Atrasados
    <3>4. Atrasados(j, b + 1)' \subseteq Atrasados(j, ordenes[e])
      BY <1>5, <3>2
    <3>. QED BY <1>4, <1>6, <3>3, <3>4, CabenMenos
  <2>. QED BY <2>1, <2>2, EscalonadosDespues
<1>8. SinInanicion'
  <2>1. MaxRafaga \in Nat \ {0} /\ MaxRafaga - 1 \in Nat /\ ordenes[e] <= MaxRafaga - 1
        /\ MaxRafaga - 1 + 1 = MaxRafaga
    BY <1>1, <1>4, Cotas
  <2>2. Atrasados(Otros, ordenes[e]) = {}
    BY <1>4, <1>6, OtrosCotan
  <2>3. Atrasados(Otros, MaxRafaga - 1) \subseteq Atrasados(Otros, ordenes[e])
    BY <1>1, <1>4, <1>6, <2>1, AtrasadosMenos
  <2>4. Atrasados(Otros, MaxRafaga - 1 + 1)' \subseteq Atrasados(Otros, MaxRafaga - 1)
    BY <1>5, <1>6, <2>1
  <2>5. Atrasados(Otros, MaxRafaga)' = {}
    BY <2>1, <2>2, <2>3, <2>4 DEF Atrasados
  <2>. QED BY <2>5, SinAtrasadosDespues
<1>. QED BY <1>7, <1>8

\* The end of the burst of x, with k orders more: x has not waited, and who has
\* waited for j + 1 bursts had for j.
LEMMA EsperaAlTerminar ==
    ASSUME InvInanicion, TypeOK', AlMenosUna', algoritmo = "HRRN", NEW x \in Esis,
           lugar[x] = "ejecutando", lugar'[x] \notin {"listos", "ejecutando"},
           NEW k \in {0, 1}, tiempo' = tiempo + k, ordenes[x] + k <= MaxRafaga,
           \A f \in Esis \ {x} : lugar'[f] = "ejecutando" => lugar[f] = "ejecutando",
           \A f \in Esis : lugar'[f] = "listos" =>
              \/ llegada'[f] = tiempo'
              \/ lugar[f] = "listos" /\ llegada'[f] = llegada[f] /\ actual'[f] = actual[f]
    PROVE  SinInanicion' /\ Escalonados'
<1>1. /\ TypeOK /\ AlMenosUna /\ Escalonados /\ x \in En("ejecutando")
      /\ En("ejecutando")' = {}
  BY DEF InvInanicion, InvEstimacion, UnoEjecuta, En
<1>2. PICK b \in Nat : b = ordenes[x]
  <2>1. ordenes[x] \in Nat
    BY <1>1, Cotas DEF TypeOK
  <2>. QED BY <2>1
<1>3. ASSUME NEW j \in Nat
      PROVE  Atrasados(j, MaxRafaga)' \subseteq Atrasados(j, b)
  <2>1. MaxRafaga - k \in Nat /\ b <= MaxRafaga - k /\ MaxRafaga - k + k = MaxRafaga
    BY <1>2, Cotas
  <2>2. Atrasados(j, MaxRafaga - k + k)' \subseteq Atrasados(j, MaxRafaga - k)
    BY <1>1, <2>1, AtrasadosAntes
  <2>3. Atrasados(j, MaxRafaga - k) \subseteq Atrasados(j, b)
    BY <1>1, <2>1, AtrasadosMenos
  <2>. QED BY <2>1, <2>2, <2>3 DEF Atrasados
<1>4. /\ \A j \in Nat : Caben(Atrasados(j, b), j, Cardinality(Esis) - 2)
      /\ Otros \in Nat /\ Cardinality(Esis) \in Nat
      /\ \A j, d \in Nat : Atrasados(j, d) \in SUBSET Esis
  BY <1>1, <1>2, OtrosCotan DEF Escalonados, Atrasados, En
<1>5. ASSUME NEW j \in Nat PROVE Caben(Atrasados(j, 0)', j, Cardinality(Esis) - 1)
  <2>1. CASE j = 0
    <3>1. Atrasados(0, 0)' \in SUBSET (Esis \ {x})
      BY DEF Atrasados, En
    <3>2. IsFiniteSet(Esis \ {x}) /\ Cardinality(Esis \ {x}) = Cardinality(Esis) - 1
      BY EstimacionAssumption, FS_RemoveElement
    <3>3. Caben(Esis \ {x}, 0, Cardinality(Esis) - 1)
      BY <1>4, <3>2 DEF Caben
    <3>4. Caben(Atrasados(0, 0)', 0, Cardinality(Esis) - 1)
      BY <1>4, <3>1, <3>3, CabenMenos
    <3>. QED BY <2>1, <3>4 DEF Atrasados
  <2>2. CASE j # 0
    <3>1. PICK i \in Nat : j = i + 1
      <4>1. j - 1 \in Nat /\ j = j - 1 + 1
        BY <2>2
      <4>. QED BY <4>1
    <3>2. Atrasados(i + 1, 0)' \subseteq Atrasados(i, MaxRafaga)'
      BY AtrasadosMenosDespues
    <3>3. Atrasados(j, 0)' = Atrasados(i + 1, 0)'
      BY <3>1
    <3>4. Atrasados(j, 0)' \subseteq Atrasados(i, b)
      BY <1>3, <3>2, <3>3
    <3>5. Caben(Atrasados(j, 0)', i, Cardinality(Esis) - 2)
      BY <1>4, <3>4, CabenMenos
    <3>6. IsFiniteSet(Atrasados(j, 0)')
      <4>1. Atrasados(j, 0)' \in SUBSET Esis
        BY DEF Atrasados, En
      <4>. QED BY <4>1, EstimacionAssumption, FS_Subset
    <3>7. Cardinality(Atrasados(j, 0)') \in Nat
      BY <3>6, FS_CardinalityType
    <3>. QED BY <1>4, <3>1, <3>5, <3>7 DEF Caben
  <2>. QED BY <2>1, <2>2
<1>6. Escalonados'
  BY <1>1, <1>5, EscalonadosDespues
<1>7. SinInanicion'
  <2>1. Atrasados(Otros, b) = {}
    BY <1>4, OtrosCotan
  <2>2. Atrasados(Otros, MaxRafaga)' = {}
    BY <1>3, <1>4, <2>1
  <2>. QED BY <2>2, SinAtrasadosDespues
<1>. QED BY <1>6, <1>7

\* Estimates are of an order at least: a burst counts one or more.
LEMMA MinimoMantiene == InvInanicion /\ [Next]_vars => AlMenosUna'
<1> SUFFICES ASSUME InvInanicion, [Next]_vars PROVE AlMenosUna'
  OBVIOUS
<1>1. CASE UNCHANGED actual
  BY <1>1 DEF InvInanicion, AlMenosUna
<1>2. ASSUME NEW e \in Esis, ejecutando_a_bloqueado(e) PROVE AlMenosUna'
  <2>1. actual[e] \in Nat /\ actual[e] >= Escala /\ rafaga[e] + 1 \in Nat /\ rafaga[e] + 1 >= 1
    BY Cotas DEF InvInanicion, InvEstimacion, TypeOK, AlMenosUna
  <2>2. estimar(actual[e], rafaga[e] + 1) >= Escala
    BY <2>1, EstimarMinimo
  <2>3. actual' = [actual EXCEPT ![e] = estimar(actual[e], rafaga[e] + 1)]
    BY <1>2 DEF ejecutando_a_bloqueado
  <2>. QED BY <2>2, <2>3 DEF InvInanicion, InvEstimacion, TypeOK, AlMenosUna
<1>3. CASE Planificar /\ UNCHANGED consola
  <2>1. CASE Inicio \/ Desalojar \/ Comparar \/ Reset \/ Elegir \/ Seleccionar
    BY <1>1, <2>1 DEF Inicio, Desalojar, Comparar, Reset, Elegir, Seleccionar, campos
  <2>2. ASSUME NEW e \in Esis,
               InstruccionCorrecta(e) \/ InstruccionBloquea(e) \/ UltimaInstruccion(e)
        PROVE  AlMenosUna'
    BY <1>1, <1>2, <2>2 DEF InstruccionCorrecta, InstruccionBloquea, UltimaInstruccion
  <2>. QED BY <1>3, <2>1, <2>2 DEF Planificar
<1>4. ASSUME NEW e \in Esis,
             \/ agregar_nuevo_esi(e) \/ ConsolaBloquearEjecutando(e)
             \/ ConsolaBloquearListo(e) \/ ConsolaDesbloquear(e)
      PROVE  AlMenosUna'
  BY <1>1, <1>2, <1>4 DEF agregar_nuevo_esi, ConsolaBloquearEjecutando, ConsolaBloquearListo,
                          ConsolaDesbloquear
<1>5. CASE UNCHANGED vars
  BY <1>1, <1>5 DEF vars, campos
<1>. QED BY <1>3, <1>4, <1>5 DEF Next

LEMMA InanicionMantiene == InvInanicion /\ [Next]_vars => InvInanicion'
<1> SUFFICES ASSUME InvInanicion, [Next]_vars PROVE InvInanicion'
  OBVIOUS
<1>1. InvEstimacion' /\ TypeOK' /\ AlMenosUna' /\ TypeOK
  BY EstimacionMantiene, MinimoMantiene DEF InvInanicion, InvEstimacion
<1>2. UNCHANGED algoritmo
  BY DEF Next, vars, ConsolaBloquearEjecutando, ConsolaBloquearListo, ConsolaDesbloquear, Comando
<1>3. SUFFICES ASSUME algoritmo = "HRRN" PROVE SinInanicion' /\ Escalonados'
  BY <1>1, <1>2 DEF InvInanicion, SinInanicion
<1>4. CASE UNCHANGED <<lugar, actual, llegada, tiempo, ordenes>>
  BY <1>1, <1>2, <1>3, <1>4, EsperaQuieta DEF En
<1>5. CASE Planificar /\ UNCHANGED <<algoritmo, consola>>
  <2>1. CASE Inicio \/ Elegir \/ Reset
    BY <1>4, <2>1 DEF Inicio, Elegir, Reset, campos, fantasmas
  <2>2. CASE Desalojar \/ Comparar
    BY <1>3, <2>2 DEF Desalojar, Comparar, Ir, InvInanicion, InvEstimacion, UnoEjecuta
  <2>3. CASE Seleccionar
    BY <1>1, <1>3, <1>5, <2>3, EsperaAlElegir
  <2>4. ASSUME NEW e \in Esis, InstruccionCorrecta(e) PROVE SinInanicion' /\ Escalonados'
    BY <1>1, <1>3, <2>4, EsperaUnaOrden
  <2>5. ASSUME NEW e \in Esis, InstruccionBloquea(e) \/ UltimaInstruccion(e)
        PROVE  SinInanicion' /\ Escalonados'
    <3>1. lugar[e] = "ejecutando" /\ tiempo' = tiempo + 1 /\ ordenes[e] + 1 <= MaxRafaga
      BY <1>1, <2>5, Cotas DEF InstruccionBloquea, UltimaInstruccion, Ordenar, TypeOK
    <3>2. CASE InstruccionBloquea(e)
      <4>1. /\ lugar' = [lugar EXCEPT ![e] = "bloqueados"] /\ UNCHANGED llegada
            /\ actual' = [actual EXCEPT ![e] = estimar(@, rafaga[e] + 1)]
        BY <3>2 DEF InstruccionBloquea, ejecutando_a_bloqueado
      <4>2. /\ lugar'[e] = "bloqueados"
            /\ \A f \in Esis \ {e} : lugar'[f] = lugar[f] /\ actual'[f] = actual[f]
        BY <1>1, <4>1 DEF TypeOK
      <4>. QED BY <1>1, <1>3, <3>1, <4>1, <4>2, EsperaAlTerminar
    <3>3. CASE UltimaInstruccion(e)
      <4>1. PICK S \in SUBSET En("bloqueados") :
                /\ lugar' = [Con(lugar, S, "listos") EXCEPT ![e] = "terminados"]
                /\ Llegan(S, tiempo')
        BY <3>3 DEF UltimaInstruccion
      <4>2. UNCHANGED actual
        BY <3>3 DEF UltimaInstruccion
      <4>3. /\ lugar'[e] = "terminados"
            /\ \A f \in Esis \ {e} : lugar'[f] = IF f \in S THEN "listos" ELSE lugar[f]
            /\ \A f \in Esis : llegada'[f] = IF f \in S THEN tiempo' ELSE llegada[f]
        BY <4>1 DEF Con, Llegan
      <4>4. \A f \in Esis : lugar'[f] = "listos" =>
                \/ llegada'[f] = tiempo'
                \/ lugar[f] = "listos" /\ llegada'[f] = llegada[f]
        BY <4>3
      <4>5. \A f \in Esis \ {e} : lugar'[f] = "ejecutando" => lugar[f] = "ejecutando"
        BY <4>3
      <4>. QED BY <1>1, <1>3, <3>1, <4>2, <4>3, <4>4, <4>5, EsperaAlTerminar
    <3>. QED BY <2>5, <3>2, <3>3
  <2>. QED BY <1>5, <2>1, <2>2, <2>3, <2>4, <2>5 DEF Planificar
<1>6. ASSUME NEW e \in Esis, agregar_nuevo_esi(e) \/ ConsolaDesbloquear(e)
      PROVE  SinInanicion' /\ Escalonados'
  <2>1. /\ lugar[e] \in {"sin_crear", "bloqueados"} /\ lugar' = [lugar EXCEPT ![e] = "listos"]
        /\ Llegan({e}, tiempo) /\ UNCHANGED <<actual, tiempo, ordenes>>
    BY <1>6 DEF agregar_nuevo_esi, ConsolaDesbloquear, Comando
  <2>2. /\ lugar'[e] = "listos" /\ \A f \in Esis \ {e} : lugar'[f] = lugar[f]
        /\ \A f \in Esis : llegada'[f] = IF f = e THEN tiempo ELSE llegada[f]
    BY <1>1, <2>1 DEF Llegan, Con, TypeOK
  <2>3. En("ejecutando")' = En("ejecutando")
    BY <2>1, <2>2 DEF En
  <2>. QED BY <1>1, <1>2, <1>3, <2>1, <2>2, <2>3, EsperaQuieta
<1>7. ASSUME NEW e \in Esis, ConsolaBloquearListo(e) PROVE SinInanicion' /\ Escalonados'
  <2>1. /\ lugar[e] = "listos" /\ lugar' = [lugar EXCEPT ![e] = "bloqueados"]
        /\ UNCHANGED <<actual, llegada, tiempo, ordenes>>
    BY <1>7 DEF ConsolaBloquearListo, Comando, fantasmas
  <2>2. lugar'[e] = "bloqueados" /\ \A f \in Esis \ {e} : lugar'[f] = lugar[f]
    BY <1>1, <2>1 DEF TypeOK
  <2>3. En("ejecutando")' = En("ejecutando")
    BY <2>1, <2>2 DEF En
  <2>. QED BY <1>1, <1>2, <1>3, <2>1, <2>2, <2>3, EsperaQuieta
<1>8. ASSUME NEW e \in Esis, ConsolaBloquearEjecutando(e) PROVE SinInanicion' /\ Escalonados'
  <2>1. /\ lugar[e] = "ejecutando" /\ lugar' = [lugar EXCEPT ![e] = "bloqueados"]
        /\ actual' = [actual EXCEPT ![e] = estimar(@, rafaga[e] + 1)] /\ UNCHANGED <<llegada, tiempo>>
    BY <1>8 DEF ConsolaBloquearEjecutando, ejecutando_a_bloqueado, Comando
  <2>2. /\ lugar'[e] = "bloqueados"
        /\ \A f \in Esis \ {e} : lugar'[f] = lugar[f] /\ actual'[f] = actual[f]
    BY <1>1, <2>1 DEF TypeOK
  <2>3. 0 \in {0, 1} /\ tiempo' = tiempo + 0 /\ ordenes[e] + 0 <= MaxRafaga
    <3>1. tiempo \in Nat /\ ordenes[e] \in 0..MaxRafaga
      BY <1>1, Cotas DEF TypeOK
    <3>. QED BY <2>1, <3>1, Cotas
  <2>. QED BY <1>1, <1>3, <2>1, <2>2, <2>3, EsperaAlTerminar
<1>9. CASE UNCHANGED vars
  BY <1>4, <1>9 DEF vars, campos, fantasmas
<1>. QED BY <1>5, <1>6, <1>7, <1>8, <1>9 DEF Next

\* HRRN starves nobody, of any number of ESIs: the wait of each is bounded by a
\* number of bursts that depends on its estimate and on how many there are.
THEOREM EstimacionSinInanicion == Spec => []SinInanicion
<1>1. Init => InvInanicion
  <2> SUFFICES ASSUME Init PROVE InvInanicion
    OBVIOUS
  <2>1. AlMenosUna
    <3>1. 1 * Escala <= EstimacionInicial * Escala /\ 1 * Escala = Escala
      BY EstimacionAssumption, ProductoCrece
    <3>. QED BY <3>1 DEF Init, AlMenosUna
  <2>2. En("listos") = {}
    BY DEF Init, En
  <2>3. SinInanicion
    BY <2>2 DEF SinInanicion
  <2>4. Escalonados
    BY <2>2 DEF Escalonados, Atrasados, Caben
  <2>. QED BY <2>1, <2>3, <2>4, EstimacionInicia DEF InvInanicion
<1>2. InvInanicion => SinInanicion
  BY DEF InvInanicion
<1>. QED BY <1>1, <1>2, InanicionMantiene, PTL DEF Spec
================================================================================
