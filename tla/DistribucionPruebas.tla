-------------------------- MODULE DistribucionPruebas --------------------------
(***************************************************************************)
(* For any instances, ESIs, keys and algorithm: the operations of the      *)
(* Coordinador over its instances implement Registro; LSU chooses and      *)
(* registers an instance that stays in the list; the list of instances is  *)
(* the instances listened to; an operation reads the answer to its own     *)
(* request; and the registry sends it to an instance that has the key.     *)
(***************************************************************************)
EXTENDS Distribucion, FiniteSetTheorems, LemasListas

Tipos ==
    /\ algoritmo \in {"EL", "LSU", "KE"}
    /\ lista_instancias \in Seq(Instancias)
    /\ prox_instancia_a_seleccionar \in Nat
    /\ registro_claves \in Seq(EntradasRegistro)
    /\ oper \in Operaciones
    /\ dueno \in [Claves -> Esis \cup {NULL}]

(* What an operation has at each step.                                     *)
OperCoherente ==
    /\ oper.paso = "libre" => oper = Libre
    /\ oper.paso # "libre" => oper.esi \in Esis /\ oper.head \in Heads /\ oper.clave \in Claves
    /\ oper.paso \in {"algoritmo", "mutex"} => oper.head = "GET"
    /\ oper.paso = "registro" => oper.head # "GET"
    /\ oper.paso = "quitar" => oper.head = "STORE"
    /\ IF oper.paso \in {"enviar", "espera", "leer", "quitar"}
          THEN oper.instancia \in Instancias
          ELSE oper.instancia = NULL

(* A SET or a STORE is of a key that its ESI owns until it ends, and a key *)
(* that is owned is in the registry.                                       *)
OperDeDueno == oper.paso # "libre" /\ oper.head # "GET" => dueno[oper.clave] = oper.esi
DuenoRegistrado == \A k \in Claves : dueno[k] # NULL => Entradas(k) # {}

(* Who has mutex_instancia.                                                *)
DistribuyeLSU ==
    /\ algoritmo = "LSU" /\ oper.head = "GET"
    /\ oper.paso \in {"enviar", "espera", "leer"}
MutexExacto ==
    /\ mutex_instancia = "oper" <=> DistribuyeLSU
    /\ status # "no" => mutex_instancia = "status"

InvDistribucion ==
    /\ Tipos /\ OperCoherente /\ OperDeDueno /\ DuenoRegistrado
    /\ MutexExacto /\ LSUProtegida

-----------------------------------------------------------------------------
\* distribuirPorKE: the position of a letter is one of the list.
LEMMA PosicionEnRango ==
    ASSUME NEW n \in Nat \ {0}, NEW letra \in 0..25
    PROVE  PosicionKE(letra, n) \in 0..(n - 1)
<1> DEFINE l == LetrasPorInstancia(n)
           p == PosicionKE(letra, n)
<1>1. \A a \in Nat, b \in Nat \ {0} :
          a \div b \in Nat /\ a % b \in 0..(b - 1) /\ a = b * (a \div b) + (a % b)
  OBVIOUS
<1>2. l \in Nat /\ n * l >= 26
  <2>1. l = (25 + n) \div n /\ 25 + n \in Nat
    BY DEF LetrasPorInstancia, CANTIDAD_DE_LETRAS
  <2>2. l \in Nat /\ (25 + n) % n \in 0..(n - 1) /\ 25 + n = n * l + ((25 + n) % n)
    BY <1>1, <2>1
  <2>. QED BY <2>2
<1>3. l # 0
  BY <1>2
<1>4. p = letra \div l
  BY DEF PosicionKE
<1> HIDE DEF l, p
<1>5. p \in Nat /\ l * p <= letra
  <2>1. letra \in Nat /\ l \in Nat \ {0}
    BY <1>2, <1>3
  <2>2. p \in Nat /\ letra % l \in Nat /\ letra = l * p + (letra % l)
    BY <1>1, <1>4, <2>1
  <2>3. l * p \in Nat
    BY <2>1, <2>2
  <2>. QED BY <2>1, <2>2, <2>3
<1>6. p < n
  <2> SUFFICES ASSUME p >= n PROVE FALSE
    BY <1>5
  <2> DEFINE d == p - n
  <2>1. d \in Nat /\ p = n + d
    BY <1>5
  <2> HIDE DEF d
  <2>2. l * p = l * n + l * d /\ l * n = n * l /\ l * d \in Nat
    BY <1>2, <2>1
  <2>. QED BY <1>2, <1>5, <2>2
<1>. QED BY <1>5, <1>6 DEF p

\* distribuirPorEL: the turn falls on an instance of the list.
LEMMA TurnoReal ==
    ASSUME Tipos, lista_instancias # <<>>
    PROVE  Turno \in Instancias
<1>1. Len(lista_instancias) \in Nat \ {0}
  BY EmptySeq DEF Tipos
<1>2. (prox_instancia_a_seleccionar % Len(lista_instancias)) + 1 \in 1..Len(lista_instancias)
  BY <1>1 DEF Tipos
<1>. QED BY <1>2, ElementOfSeq DEF Turno, Tipos

\* list_sort in LSU leaves the same instances in the list.
LEMMA OrdenadasTipo ==
    ASSUME Tipos, NEW s \in Ordenadas(lista_instancias)
    PROVE  /\ s \in Seq(Instancias)
           /\ lista_instancias # <<>> => s[1] \in Instancias /\ s[1] \in ToSet(s)
<1> DEFINE T == ToSet(lista_instancias)
           n == Cardinality(T)
<1>1. DOMAIN lista_instancias = 1..Len(lista_instancias) /\ Len(lista_instancias) \in Nat
  BY LenProperties DEF Tipos
<1>2. T \subseteq Instancias
  BY <1>1, ElementOfSeq DEF Tipos, ToSet
<1>3. IsFiniteSet(T)
  <2>1. lista_instancias \in Surjection(DOMAIN lista_instancias, T)
    BY <1>1, LenProperties DEF Surjection, ToSet, Tipos
  <2>2. IsFiniteSet(DOMAIN lista_instancias)
    BY <1>1, FS_Interval
  <2>. QED BY <2>1, <2>2, FS_Surjection
<1>4. n \in Nat
  BY <1>3, FS_CardinalityType
<1>5. s \in [1..n -> T]
  BY DEF Ordenadas, SetToSeqs
<1>6. s \in [1..n -> Instancias]
  BY <1>2, <1>5
<1>7. s \in Seq(Instancias)
  BY <1>4, <1>6, SeqDef
<1>8. ASSUME lista_instancias # <<>> PROVE s[1] \in Instancias /\ s[1] \in ToSet(s)
  <2>1. Len(lista_instancias) # 0
    BY <1>8, EmptySeq DEF Tipos
  <2>2. lista_instancias[1] \in T
    BY <1>1, <2>1 DEF ToSet
  <2>3. n # 0
    BY <1>3, <2>2, FS_EmptySet
  <2>4. 1 \in DOMAIN s
    BY <1>4, <1>5, <2>3
  <2>. QED BY <1>4, <1>6, <2>3, <2>4 DEF ToSet
<1>. QED BY <1>7, <1>8

\* The first entry of a key in the registry, when it has one.
LEMMA PrimeraReal ==
    ASSUME Tipos, NEW k \in Claves, Entradas(k) # {}
    PROVE  /\ Primera(k) \in 1..Len(registro_claves)
           /\ registro_claves[Primera(k)].clave = k
           /\ registro_claves[Primera(k)].instancia \in Instancias
           /\ \A j \in 1..(Primera(k) - 1) : registro_claves[j].clave # k
<1>1. DOMAIN registro_claves = 1..Len(registro_claves) /\ Len(registro_claves) \in Nat
  BY LenProperties DEF Tipos
<1>2. Entradas(k) \subseteq 1..Len(registro_claves) /\ Entradas(k) \subseteq Nat
  BY <1>1 DEF Entradas
<1>3. Primera(k) \in Entradas(k) /\ \A l \in Entradas(k) : Primera(k) <= l
  <2>1. \E j \in Entradas(k) : \A l \in Entradas(k) : j <= l
    BY <1>2, HayMinimo
  <2>. QED BY <2>1 DEF Primera
<1>4. registro_claves[Primera(k)] \in EntradasRegistro
  BY <1>2, <1>3, ElementOfSeq DEF Tipos
<1>5. \A j \in 1..(Primera(k) - 1) : registro_claves[j].clave # k
  <2> SUFFICES ASSUME NEW j \in 1..(Primera(k) - 1), registro_claves[j].clave = k PROVE FALSE
    OBVIOUS
  <2>1. j \in DOMAIN registro_claves /\ ~(Primera(k) <= j)
    BY <1>1, <1>2, <1>3
  <2>. QED BY <1>3, <2>1 DEF Entradas
<1>. QED BY <1>2, <1>3, <1>4, <1>5 DEF Entradas, EntradasRegistro

-----------------------------------------------------------------------------
\* What the other threads do: neither the operation nor the registry, and the
\* list keeps the instance that LSU holds.
LEMMA AjenoMantiene ==
    ASSUME InvDistribucion,
           UNCHANGED <<algoritmo, prox_instancia_a_seleccionar, registro_claves, oper, dueno>>,
           lista_instancias' \in Seq(Instancias),
           mutex_instancia' = "oper" <=> mutex_instancia = "oper",
           status' # "no" => mutex_instancia' = "status",
           mutex_instancia = "oper" => lista_instancias' = lista_instancias
    PROVE  InvDistribucion'
<1>1. Tipos' /\ OperCoherente' /\ OperDeDueno' /\ DuenoRegistrado'
  BY DEF InvDistribucion, Tipos, OperCoherente, OperDeDueno, DuenoRegistrado, Entradas
<1>2. MutexExacto'
  BY DEF InvDistribucion, MutexExacto, DistribuyeLSU
<1>3. LSUProtegida'
  <2> SUFFICES ASSUME algoritmo = "LSU", oper.head = "GET", oper.instancia # NULL
               PROVE  oper.instancia \in ToSet(lista_instancias')
    BY DEF LSUProtegida, n0
  <2>1. oper.paso \in {"enviar", "espera", "leer"}
    BY DEF InvDistribucion, OperCoherente
  <2>2. mutex_instancia = "oper"
    BY <2>1 DEF InvDistribucion, MutexExacto, DistribuyeLSU
  <2>. QED BY <2>2 DEF InvDistribucion, LSUProtegida, n0
<1>. QED BY <1>1, <1>2, <1>3 DEF InvDistribucion

\* escuchar_instancia and the process at its other end.
LEMMA EscucharMantiene ==
    ASSUME InvDistribucion, NEW i \in Instancias,
           Escuchar(i) \/ InstanciaResponder(i) \/ InstanciaCerrar(i)
    PROVE  InvDistribucion'
<1>1. /\ UNCHANGED <<algoritmo, prox_instancia_a_seleccionar, registro_claves, oper, dueno>>
      /\ UNCHANGED <<mutex_instancia, status>>
      /\ \/ UNCHANGED lista_instancias
         \/ /\ mutex_instancia = "libre"
            /\ \/ lista_instancias' = Append(lista_instancias, i)
               \/ lista_instancias' = RemoveFirst(lista_instancias, i)
  BY DEF Escuchar, InstConectar, InstRecibirNombre, InstAgregar, InstRecibir, InstRecibirFin,
         InstDestruirFin, InstQuitar, InstLiberar, InstanciaResponder, InstanciaCerrar,
         lista, mutexes, operacion, red, hilos
<1>2. lista_instancias' \in Seq(Instancias)
  <2>1. lista_instancias \in Seq(Instancias)
    BY DEF InvDistribucion, Tipos
  <2>2. Append(lista_instancias, i) \in Seq(Instancias)
    BY <2>1, AgregarTipo
  <2>3. RemoveFirst(lista_instancias, i) \in Seq(Instancias)
    BY <2>1, SacarTipo
  <2>. QED BY <1>1, <2>1, <2>2, <2>3
<1>. QED BY <1>1, <1>2, AjenoMantiene DEF InvDistribucion, MutexExacto

\* PIDE_STATUS in escuchar_planificador.
LEMMA StatusMantiene ==
    ASSUME InvDistribucion, Status
    PROVE  InvDistribucion'
<1>1. /\ UNCHANGED <<algoritmo, prox_instancia_a_seleccionar, registro_claves, oper, dueno>>
      /\ \/ lista_instancias' = lista_instancias
         \/ status = "ambos" /\ lista_instancias' \in Ordenadas(lista_instancias)
  BY DEF Status, StatusPedir, StatusTomarRegistro, StatusSinSeleccion, StatusResponder,
         lista, mutexes, operacion
<1>2. \/ mutex_instancia = "libre" /\ mutex_instancia' = "status"
      \/ status # "no" /\ mutex_instancia' = mutex_instancia
      \/ status # "no" /\ mutex_instancia' = "libre" /\ status' = "no"
  BY DEF Status, StatusPedir, StatusTomarRegistro, StatusSinSeleccion, StatusResponder, mutexes
<1>3. lista_instancias' \in Seq(Instancias)
  BY <1>1, OrdenadasTipo DEF InvDistribucion, Tipos
<1>4. status # "no" => mutex_instancia = "status"
  BY DEF InvDistribucion, MutexExacto
<1>. QED BY <1>1, <1>2, <1>3, <1>4, AjenoMantiene

\* OperPedir: SET and STORE are of a key of the ESI that asks.
LEMMA PedirMantiene ==
    ASSUME InvDistribucion, NEW e \in Esis, NEW h \in Heads, NEW k \in Claves,
           OperPedir(e, h, k)
    PROVE  InvDistribucion'
<1>1. /\ oper = Libre /\ Permitida(e, h, k)
      /\ oper' = [paso |-> IF h = "GET" THEN "algoritmo" ELSE "registro",
                  esi |-> e, head |-> h, clave |-> k, instancia |-> NULL]
      /\ UNCHANGED <<algoritmo, lista_instancias, prox_instancia_a_seleccionar, registro_claves,
                     mutex_instancia, dueno, status>>
  BY DEF OperPedir, lista, mutexes
<1>2. oper' \in Operaciones
  BY <1>1 DEF Operaciones, Pasos
<1>3. Tipos' /\ DuenoRegistrado'
  BY <1>1, <1>2 DEF InvDistribucion, Tipos, DuenoRegistrado, Entradas
<1>4. OperCoherente'
  BY <1>1 DEF OperCoherente
<1>5. OperDeDueno'
  BY <1>1 DEF OperDeDueno, Permitida
<1>6. MutexExacto'
  BY <1>1 DEF InvDistribucion, MutexExacto, DistribuyeLSU, Libre
<1>7. LSUProtegida'
  BY <1>1 DEF LSUProtegida, n0
<1>. QED BY <1>3, <1>4, <1>5, <1>6, <1>7 DEF InvDistribucion

\* An ESI that ends owns no key, and is not the one of the operation.
LEMMA TerminaMantiene ==
    ASSUME InvDistribucion, NEW e \in Esis, EsiTermina(e)
    PROVE  InvDistribucion'
<1>1. /\ e # oper.esi /\ dueno' = SinClavesDe(e)
      /\ UNCHANGED <<algoritmo, lista_instancias, prox_instancia_a_seleccionar, registro_claves,
                     mutex_instancia, oper, status>>
  BY DEF EsiTermina, lista, mutexes
<1>2. Tipos' /\ DuenoRegistrado'
  BY <1>1 DEF InvDistribucion, Tipos, DuenoRegistrado, Entradas, SinClavesDe
<1>3. OperDeDueno'
  BY <1>1 DEF InvDistribucion, OperDeDueno, OperCoherente, SinClavesDe
<1>4. OperCoherente' /\ MutexExacto' /\ LSUProtegida'
  BY <1>1 DEF InvDistribucion, OperCoherente, MutexExacto, DistribuyeLSU, LSUProtegida, n0
<1>. QED BY <1>2, <1>3, <1>4 DEF InvDistribucion

-----------------------------------------------------------------------------
\* A step of the operation that only advances it.
LEMMA AvanzarMantiene ==
    ASSUME InvDistribucion, NEW p \in Pasos, A(p), oper.paso # "libre",
           UNCHANGED <<algoritmo, lista_instancias, prox_instancia_a_seleccionar,
                       registro_claves, mutex_instancia, status>>,
           \/ oper.paso = "algoritmo" /\ p = "mutex"
           \/ oper.paso \in {"enviar", "espera"} /\ p \in {"espera", "leer"}
           \/ oper.paso = "leer" /\ p = "quitar" /\ oper.head = "STORE"
    PROVE  InvDistribucion'
<1>1. oper' = [oper EXCEPT !.paso = p] /\ UNCHANGED dueno
  BY DEF A
<1>2. oper \in Operaciones
  BY DEF InvDistribucion, Tipos
<1>3. /\ oper'.paso = p /\ oper'.esi = oper.esi /\ oper'.head = oper.head
      /\ oper'.clave = oper.clave /\ oper'.instancia = oper.instancia
      /\ oper' \in Operaciones
  BY <1>1, <1>2 DEF Operaciones
<1>4. Tipos' /\ DuenoRegistrado'
  BY <1>1, <1>3 DEF InvDistribucion, Tipos, DuenoRegistrado, Entradas
<1>5. OperCoherente'
  BY <1>3 DEF InvDistribucion, OperCoherente
<1>6. OperDeDueno'
  BY <1>1, <1>3 DEF InvDistribucion, OperDeDueno
<1>7. MutexExacto'
  BY <1>3 DEF InvDistribucion, MutexExacto, DistribuyeLSU
<1>8. LSUProtegida'
  BY <1>3 DEF InvDistribucion, LSUProtegida, n0
<1>. QED BY <1>4, <1>5, <1>6, <1>7, <1>8 DEF InvDistribucion

\* The choice of an instance, for a GET outside LSU and for a SET or a STORE.
LEMMA ElegirMantiene ==
    ASSUME InvDistribucion, NEW n \in Instancias, Elegir(n),
           oper.paso \in {"mutex", "registro"},
           algoritmo # "LSU" \/ oper.head # "GET",
           UNCHANGED <<algoritmo, lista_instancias, registro_claves, mutex_instancia, status>>,
           prox_instancia_a_seleccionar' \in Nat
    PROVE  InvDistribucion'
<1>1. oper' = [oper EXCEPT !.paso = "enviar", !.instancia = n] /\ UNCHANGED dueno
  BY DEF Elegir
<1>2. oper \in Operaciones
  BY DEF InvDistribucion, Tipos
<1>3. /\ oper'.paso = "enviar" /\ oper'.esi = oper.esi /\ oper'.head = oper.head
      /\ oper'.clave = oper.clave /\ oper'.instancia = n
      /\ oper' \in Operaciones
  BY <1>1, <1>2 DEF Operaciones, Pasos
<1>4. Tipos' /\ DuenoRegistrado'
  BY <1>1, <1>3 DEF InvDistribucion, Tipos, DuenoRegistrado, Entradas
<1>5. OperCoherente'
  BY <1>3 DEF InvDistribucion, OperCoherente
<1>6. OperDeDueno'
  BY <1>1, <1>3 DEF InvDistribucion, OperDeDueno
<1>7. MutexExacto'
  BY <1>3 DEF InvDistribucion, MutexExacto, DistribuyeLSU
<1>8. LSUProtegida'
  BY <1>3 DEF LSUProtegida, n0
<1>. QED BY <1>4, <1>5, <1>6, <1>7, <1>8 DEF InvDistribucion

\* The choice of LSU, which keeps the mutex.
LEMMA ElegirLSUMantiene ==
    ASSUME InvDistribucion, OperElegirLSU
    PROVE  InvDistribucion'
<1>1. PICK s \in Ordenadas(lista_instancias) : lista_instancias' = s /\ Elegir(s[1])
  BY DEF OperElegirLSU
<1>2. /\ oper.paso = "mutex" /\ mutex_instancia = "libre" /\ mutex_instancia' = "oper"
      /\ algoritmo = "LSU" /\ lista_instancias # <<>>
      /\ UNCHANGED <<algoritmo, prox_instancia_a_seleccionar, registro_claves, status>>
  BY DEF OperElegirLSU
<1>3. s \in Seq(Instancias) /\ s[1] \in Instancias /\ s[1] \in ToSet(s)
  BY <1>1, <1>2, OrdenadasTipo DEF InvDistribucion
<1>4. oper' = [oper EXCEPT !.paso = "enviar", !.instancia = s[1]] /\ UNCHANGED dueno
  BY <1>1 DEF Elegir
<1>5. oper \in Operaciones /\ oper.head = "GET"
  BY <1>2 DEF InvDistribucion, Tipos, OperCoherente
<1>6. /\ oper'.paso = "enviar" /\ oper'.esi = oper.esi /\ oper'.head = oper.head
      /\ oper'.clave = oper.clave /\ oper'.instancia = s[1]
      /\ oper' \in Operaciones
  BY <1>3, <1>4, <1>5 DEF Operaciones, Pasos
<1>7. Tipos' /\ DuenoRegistrado'
  BY <1>1, <1>2, <1>3, <1>4, <1>6 DEF InvDistribucion, Tipos, DuenoRegistrado, Entradas
<1>8. OperCoherente' /\ OperDeDueno'
  BY <1>2, <1>3, <1>4, <1>5, <1>6 DEF InvDistribucion, OperCoherente, OperDeDueno
<1>9. MutexExacto'
  BY <1>2, <1>5, <1>6 DEF InvDistribucion, MutexExacto, DistribuyeLSU
<1>10. LSUProtegida'
  BY <1>1, <1>3, <1>6 DEF LSUProtegida, n0
<1>. QED BY <1>7, <1>8, <1>9, <1>10 DEF InvDistribucion

-----------------------------------------------------------------------------
\* The end of an operation, whatever it did to the registry and the owners.
LEMMA FinMantiene ==
    ASSUME InvDistribucion, oper' = Libre,
           UNCHANGED <<algoritmo, lista_instancias, prox_instancia_a_seleccionar, status>>,
           mutex_instancia' = IF mutex_instancia = "oper" THEN "libre" ELSE mutex_instancia,
           registro_claves' \in Seq(EntradasRegistro),
           dueno' \in [Claves -> Esis \cup {NULL}],
           DuenoRegistrado'
    PROVE  InvDistribucion'
<1>1. Tipos' /\ OperCoherente' /\ OperDeDueno'
  BY DEF InvDistribucion, Tipos, OperCoherente, OperDeDueno, Operaciones, Pasos, Libre
<1>2. MutexExacto' /\ LSUProtegida'
  BY DEF InvDistribucion, MutexExacto, DistribuyeLSU, LSUProtegida, n0, Libre
<1>. QED BY <1>1, <1>2 DEF InvDistribucion

\* The end of one that failed: its ESI owns nothing.
LEMMA FallarMantiene ==
    ASSUME InvDistribucion, Fallar,
           UNCHANGED <<algoritmo, lista_instancias, prox_instancia_a_seleccionar,
                       registro_claves, status>>,
           mutex_instancia' = IF mutex_instancia = "oper" THEN "libre" ELSE mutex_instancia
    PROVE  InvDistribucion'
<1>1. oper' = Libre /\ dueno' = SinClavesDe(oper.esi)
  BY DEF Fallar
<1>2. dueno' \in [Claves -> Esis \cup {NULL}] /\ DuenoRegistrado'
  BY <1>1 DEF InvDistribucion, Tipos, DuenoRegistrado, Entradas, SinClavesDe
<1>3. registro_claves' \in Seq(EntradasRegistro)
  BY DEF InvDistribucion, Tipos
<1>. QED BY <1>1, <1>2, <1>3, FinMantiene

\* The mutex that an operation gives back after reading its answer.
LEMMA SoltarExacto ==
    ASSUME InvDistribucion, oper.paso = "leer", SoltarInstancia
    PROVE  mutex_instancia' = IF mutex_instancia = "oper" THEN "libre" ELSE mutex_instancia
BY DEF SoltarInstancia, InvDistribucion, MutexExacto, DistribuyeLSU

\* GET: the key gets an entry.
LEMMA GuardadaMantiene ==
    ASSUME InvDistribucion, OperGuardada
    PROVE  InvDistribucion'
<1> DEFINE x == [clave |-> oper.clave, instancia |-> n0]
<1>1. /\ oper.paso = "leer" /\ oper.head = "GET" /\ SoltarInstancia
      /\ registro_claves' = Append(registro_claves, x)
      /\ oper' = Libre /\ dueno' = [dueno EXCEPT ![oper.clave] = oper.esi]
      /\ UNCHANGED <<algoritmo, lista_instancias, prox_instancia_a_seleccionar, status>>
  BY DEF OperGuardada, Leer, Cumplir
<1>2. oper.esi \in Esis /\ oper.clave \in Claves /\ n0 \in Instancias
  BY <1>1 DEF InvDistribucion, OperCoherente, n0
<1>3. x \in EntradasRegistro
  BY <1>2 DEF EntradasRegistro
<1>4. registro_claves \in Seq(EntradasRegistro) /\ dueno \in [Claves -> Esis \cup {NULL}]
  BY DEF InvDistribucion, Tipos
<1>5. /\ registro_claves' \in Seq(EntradasRegistro)
      /\ ToSet(registro_claves') = ToSet(registro_claves) \cup {x}
  BY <1>1, <1>3, <1>4, AgregarTipo
<1>6. DuenoRegistrado'
  <2> SUFFICES ASSUME NEW k \in Claves, dueno'[k] # NULL PROVE Entradas(k)' # {}
    BY DEF DuenoRegistrado
  <2>1. \E y \in ToSet(registro_claves') : y.clave = k
    <3>1. CASE k = oper.clave
      <4>1. x.clave = k /\ x \in ToSet(registro_claves')
        BY <1>5, <3>1
      <4>. QED BY <4>1
    <3>2. CASE k # oper.clave
      <4>1. Entradas(k) # {}
        BY <1>1, <1>2, <1>4, <3>2 DEF InvDistribucion, DuenoRegistrado
      <4>. QED BY <1>5, <4>1 DEF Entradas, ToSet
    <3>. QED BY <3>1, <3>2
  <2>. QED BY <2>1 DEF Entradas, ToSet
<1>7. dueno' \in [Claves -> Esis \cup {NULL}]
  BY <1>1, <1>2, <1>4
<1>. QED BY <1>1, <1>5, <1>6, <1>7, SoltarExacto, FinMantiene

\* SET: the registry stays as it is.
LEMMA SeteadaMantiene ==
    ASSUME InvDistribucion, OperSeteada
    PROVE  InvDistribucion'
<1>1. /\ oper.head = "SET" /\ oper' = Libre /\ dueno' = dueno
      /\ UNCHANGED <<algoritmo, lista_instancias, prox_instancia_a_seleccionar, status,
                     registro_claves, mutex_instancia>>
  BY DEF OperSeteada, Cumplir, lista, mutexes
<1>2. mutex_instancia # "oper"
  BY <1>1 DEF InvDistribucion, MutexExacto, DistribuyeLSU
<1>3. /\ registro_claves' \in Seq(EntradasRegistro) /\ DuenoRegistrado'
      /\ dueno' \in [Claves -> Esis \cup {NULL}]
  BY <1>1 DEF InvDistribucion, Tipos, DuenoRegistrado, Entradas
<1>. QED BY <1>1, <1>2, <1>3, FinMantiene

\* STORE: the first entry of the key goes, and those of the others stay.
LEMMA QuitarMantiene ==
    ASSUME InvDistribucion, OperQuitar
    PROVE  InvDistribucion'
<1>1. /\ oper.paso = "quitar" /\ oper.head = "STORE"
      /\ registro_claves' = RemoveAt(registro_claves, Primera(oper.clave))
      /\ oper' = Libre /\ dueno' = [dueno EXCEPT ![oper.clave] = NULL]
      /\ UNCHANGED <<algoritmo, lista_instancias, prox_instancia_a_seleccionar, status,
                     mutex_instancia>>
  BY DEF OperQuitar, Cumplir, lista, mutexes, InvDistribucion, OperCoherente
<1>2. mutex_instancia # "oper"
  BY <1>1 DEF InvDistribucion, MutexExacto, DistribuyeLSU
<1>3. /\ oper.esi \in Esis /\ oper.clave \in Claves
      /\ dueno[oper.clave] = oper.esi /\ oper.esi # NULL
      /\ registro_claves \in Seq(EntradasRegistro) /\ dueno \in [Claves -> Esis \cup {NULL}]
  BY <1>1, DistribucionAssumption DEF InvDistribucion, OperCoherente, OperDeDueno, Tipos
<1>4. /\ Primera(oper.clave) \in 1..Len(registro_claves)
      /\ registro_claves[Primera(oper.clave)].clave = oper.clave
  BY <1>3, PrimeraReal DEF InvDistribucion, DuenoRegistrado
<1>5. registro_claves' \in Seq(EntradasRegistro)
  BY <1>1, <1>3, <1>4, RemoveAtTipo
<1>6. DuenoRegistrado'
  <2> SUFFICES ASSUME NEW k \in Claves, dueno'[k] # NULL PROVE Entradas(k)' # {}
    BY DEF DuenoRegistrado
  <2>1. k # oper.clave /\ Entradas(k) # {}
    BY <1>1, <1>3 DEF InvDistribucion, DuenoRegistrado
  <2>2. PICK j \in 1..Len(registro_claves) : registro_claves[j].clave = k
    BY <1>3, <2>1, LenProperties DEF Entradas
  <2>3. registro_claves[j] \in ToSet(registro_claves')
    BY <1>1, <1>3, <1>4, <2>1, <2>2, RemoveAtQuedan
  <2>. QED BY <2>2, <2>3 DEF Entradas, ToSet
<1>7. dueno' \in [Claves -> Esis \cup {NULL}]
  BY <1>1, <1>3
<1>. QED BY <1>1, <1>2, <1>5, <1>6, <1>7, FinMantiene

-----------------------------------------------------------------------------
\* Every step of the operation in progress.
LEMMA AvanzaMantiene ==
    ASSUME InvDistribucion, OperAvanza
    PROVE  InvDistribucion'
<1>1. CASE OperMirarLista
  <2>1. /\ oper.paso = "algoritmo" /\ (Fallar \/ A("mutex"))
        /\ UNCHANGED <<algoritmo, lista_instancias, prox_instancia_a_seleccionar,
                       registro_claves, mutex_instancia, status>>
    BY <1>1 DEF OperMirarLista, lista, mutexes
  <2>2. mutex_instancia # "oper"
    BY <2>1 DEF InvDistribucion, MutexExacto, DistribuyeLSU
  <2>. QED BY <2>1, <2>2, FallarMantiene, AvanzarMantiene DEF Pasos
<1>2. CASE OperElegirEL
  <2>1. /\ oper.paso = "mutex" /\ algoritmo = "EL" /\ lista_instancias # <<>> /\ Elegir(Turno)
        /\ prox_instancia_a_seleccionar' = prox_instancia_a_seleccionar + 1
        /\ UNCHANGED <<algoritmo, lista_instancias, registro_claves, mutex_instancia, status>>
    BY <1>2 DEF OperElegirEL, mutexes
  <2>2. Turno \in Instancias /\ prox_instancia_a_seleccionar' \in Nat
    BY <2>1, TurnoReal DEF InvDistribucion, Tipos
  <2>. QED BY <2>1, <2>2, ElegirMantiene
<1>3. CASE OperElegirLSU
  BY <1>3, ElegirLSUMantiene
<1>4. CASE OperElegirKE
  <2> DEFINE n == Len(lista_instancias)
             m == PosicionKE(Letra[oper.clave], n)
  <2>1. /\ oper.paso = "mutex" /\ algoritmo = "KE" /\ LetraValida(oper.clave)
        /\ lista_instancias # <<>> /\ Elegir(lista_instancias[m + 1])
        /\ UNCHANGED <<algoritmo, lista_instancias, prox_instancia_a_seleccionar,
                       registro_claves, mutex_instancia, status>>
    BY <1>4 DEF OperElegirKE, lista, mutexes
  <2>2. n \in Nat \ {0}
    BY <2>1, EmptySeq DEF InvDistribucion, Tipos
  <2>3. Letra[oper.clave] \in 0..25
    <3>1. oper.clave \in Claves
      BY <2>1 DEF InvDistribucion, OperCoherente
    <3>2. Letra[oper.clave] \in Nat
      BY <3>1, DistribucionAssumption
    <3>3. LetraValida(oper.clave)
      BY <2>1
    <3>. QED BY <3>2, <3>3 DEF LetraValida, CANTIDAD_DE_LETRAS
  <2>4. m \in 0..(n - 1)
    BY <2>2, <2>3, PosicionEnRango
  <2>5. lista_instancias[m + 1] \in Instancias
    <3>1. m + 1 \in 1..n
      BY <2>2, <2>4
    <3>. QED BY <3>1, ElementOfSeq DEF InvDistribucion, Tipos
  <2>6. prox_instancia_a_seleccionar' \in Nat
    BY <2>1 DEF InvDistribucion, Tipos
  <2>. QED BY <2>1, <2>5, <2>6, ElegirMantiene
<1>5. CASE OperLetraInvalida
  <2>1. /\ mutex_instancia = "libre" /\ Fallar
        /\ UNCHANGED <<algoritmo, lista_instancias, prox_instancia_a_seleccionar,
                       registro_claves, mutex_instancia, status>>
    BY <1>5 DEF OperLetraInvalida, lista, mutexes
  <2>. QED BY <2>1, FallarMantiene
<1>6. CASE OperElegirDeVacia \/ OperLeerLiberado
  <2>1. UNCHANGED <<algoritmo, lista_instancias, prox_instancia_a_seleccionar, registro_claves,
                    mutex_instancia, oper, dueno, status>>
    BY <1>6 DEF OperElegirDeVacia, OperLeerLiberado, lista, mutexes, operacion
  <2>. QED BY <2>1, AjenoMantiene DEF InvDistribucion, Tipos, MutexExacto
<1>7. CASE OperBuscarRegistro
  <2>1. /\ oper.paso = "registro"
        /\ UNCHANGED <<algoritmo, lista_instancias, prox_instancia_a_seleccionar,
                       registro_claves, mutex_instancia, status>>
        /\ \/ Entradas(oper.clave) # {} /\ Elegir(registro_claves[Primera(oper.clave)].instancia)
           \/ UNCHANGED <<oper, dueno>>
    BY <1>7 DEF OperBuscarRegistro, lista, mutexes, operacion
  <2>2. CASE UNCHANGED <<oper, dueno>>
    BY <2>1, <2>2, AjenoMantiene DEF InvDistribucion, Tipos, MutexExacto
  <2>3. CASE /\ Entradas(oper.clave) # {}
             /\ Elegir(registro_claves[Primera(oper.clave)].instancia)
    <3>1. oper.head # "GET" /\ oper.clave \in Claves
      BY <2>1 DEF InvDistribucion, OperCoherente
    <3>2. registro_claves[Primera(oper.clave)].instancia \in Instancias
      BY <2>3, <3>1, PrimeraReal DEF InvDistribucion
    <3>3. prox_instancia_a_seleccionar' \in Nat
      BY <2>1 DEF InvDistribucion, Tipos
    <3>. QED BY <2>1, <2>3, <3>1, <3>2, <3>3, ElegirMantiene
  <2>. QED BY <2>1, <2>2, <2>3
<1>8. CASE OperEnviar \/ OperEnviarALiberada \/ OperEsperar
  <2>1. /\ \/ oper.paso = "enviar" /\ A("espera")
           \/ oper.paso = "espera" /\ A("leer")
        /\ UNCHANGED <<algoritmo, lista_instancias, prox_instancia_a_seleccionar,
                       registro_claves, mutex_instancia, status>>
    BY <1>8 DEF OperEnviar, OperEnviarALiberada, OperEsperar, lista, mutexes
  <2>. QED BY <2>1, AvanzarMantiene DEF Pasos
<1>9. CASE OperStoreada
  <2>1. /\ oper.paso = "leer" /\ oper.head = "STORE" /\ A("quitar")
        /\ UNCHANGED <<algoritmo, lista_instancias, prox_instancia_a_seleccionar,
                       registro_claves, mutex_instancia, status>>
    BY <1>9 DEF OperStoreada, Leer, lista, mutexes
  <2>. QED BY <2>1, AvanzarMantiene DEF Pasos
<1>10. CASE OperRechazada
  <2>1. /\ oper.paso = "leer" /\ SoltarInstancia /\ Fallar
        /\ UNCHANGED <<algoritmo, lista_instancias, prox_instancia_a_seleccionar,
                       registro_claves, status>>
    BY <1>10 DEF OperRechazada, lista
  <2>. QED BY <2>1, SoltarExacto, FallarMantiene
<1>. QED
  BY <1>1, <1>2, <1>3, <1>4, <1>5, <1>6, <1>7, <1>8, <1>9, <1>10,
     GuardadaMantiene, SeteadaMantiene, QuitarMantiene DEF OperAvanza

LEMMA DistribucionInicial == Init => InvDistribucion
<1> SUFFICES ASSUME Init PROVE InvDistribucion
  OBVIOUS
<1>1. Tipos
  BY EmptySeq, DistribucionAssumption DEF Init, Tipos, Operaciones, Pasos, Libre
<1>2. OperCoherente /\ OperDeDueno /\ DuenoRegistrado
  BY DEF Init, OperCoherente, OperDeDueno, DuenoRegistrado, Libre
<1>3. MutexExacto /\ LSUProtegida
  BY DEF Init, MutexExacto, DistribuyeLSU, LSUProtegida, n0, Libre
<1>. QED BY <1>1, <1>2, <1>3 DEF InvDistribucion

LEMMA DistribucionMantiene == InvDistribucion /\ [Next]_vars => InvDistribucion'
<1> SUFFICES ASSUME InvDistribucion, [Next]_vars PROVE InvDistribucion'
  OBVIOUS
<1>1. CASE UNCHANGED vars
  <2>1. UNCHANGED <<algoritmo, lista_instancias, prox_instancia_a_seleccionar, registro_claves,
                    mutex_instancia, oper, dueno, status>>
    BY <1>1 DEF vars, lista, mutexes, operacion
  <2>. QED BY <2>1, AjenoMantiene DEF InvDistribucion, Tipos, MutexExacto
<1>. QED
  BY <1>1, EscucharMantiene, StatusMantiene, PedirMantiene, TerminaMantiene, AvanzaMantiene
     DEF Next, Viva

-----------------------------------------------------------------------------
\* Every step of the operation in progress is one of Registro, or none.
LEMMA AvanzaImplementa ==
    ASSUME InvDistribucion, OperAvanza
    PROVE  R!Next \/ UNCHANGED R!vars
<1>1. oper.paso # "libre" => OperacionAtendida = [head |-> oper.head, clave |-> oper.clave]
  BY DEF OperacionAtendida, Libre
<1>2. \A p \in Pasos \ {"libre"} :
          oper.paso # "libre" /\ A(p) => OperacionAtendida' = OperacionAtendida
  <2> SUFFICES ASSUME NEW p \in Pasos \ {"libre"}, oper.paso # "libre", A(p)
               PROVE  OperacionAtendida' = OperacionAtendida
    OBVIOUS
  <2>1. oper'.paso = p /\ oper'.head = oper.head /\ oper'.clave = oper.clave
    BY DEF A, InvDistribucion, Tipos, Operaciones
  <2>. QED BY <1>1, <2>1 DEF OperacionAtendida, Libre
<1>3. \A n \in Instancias :
          oper.paso # "libre" /\ Elegir(n) => OperacionAtendida' = OperacionAtendida
  <2> SUFFICES ASSUME NEW n \in Instancias, oper.paso # "libre", Elegir(n)
               PROVE  OperacionAtendida' = OperacionAtendida
    OBVIOUS
  <2>1. oper'.paso = "enviar" /\ oper'.head = oper.head /\ oper'.clave = oper.clave
    BY DEF Elegir, InvDistribucion, Tipos, Operaciones
  <2>. QED BY <1>1, <2>1 DEF OperacionAtendida, Libre
<1>4. ASSUME oper.paso # "libre", oper' = Libre
      PROVE  /\ OperacionAtendida' = NULL
             /\ OperacionAtendida # NULL
             /\ OperacionAtendida.head = oper.head /\ OperacionAtendida.clave = oper.clave
  <2>1. oper.head \in Heads /\ oper.clave \in Claves
    BY <1>4 DEF InvDistribucion, OperCoherente
  <2>2. [head |-> oper.head, clave |-> oper.clave] \in [head : Heads, clave : Claves]
    BY <2>1
  <2>3. OperacionAtendida # NULL
    BY <1>1, <1>4, <2>2, DistribucionAssumption
  <2>. QED BY <1>1, <1>4, <2>3 DEF OperacionAtendida
<1>5. ASSUME oper.paso # "libre", Fallar, UNCHANGED registro_claves
      PROVE  R!Fallar
  BY <1>4, <1>5 DEF Fallar, R!Fallar
<1>6. CASE OperMirarLista
  <2>1. /\ oper.paso = "algoritmo" /\ (Fallar \/ A("mutex"))
        /\ UNCHANGED registro_claves
    BY <1>6 DEF OperMirarLista
  <2>. QED BY <1>2, <1>5, <2>1 DEF R!Next, R!vars, Pasos
<1>7. CASE OperElegirEL \/ OperElegirLSU \/ OperElegirKE
  <2>1. oper.paso = "mutex" /\ \E n : Elegir(n) /\ UNCHANGED registro_claves
    BY <1>7 DEF OperElegirEL, OperElegirLSU, OperElegirKE
  <2>2. \A n : Elegir(n) => /\ oper'.paso = "enviar" /\ oper'.head = oper.head
                            /\ oper'.clave = oper.clave
    BY DEF Elegir, InvDistribucion, Tipos, Operaciones
  <2>3. OperacionAtendida' = OperacionAtendida
    BY <1>1, <2>1, <2>2 DEF OperacionAtendida, Libre
  <2>. QED BY <2>1, <2>3 DEF R!vars
<1>8. CASE OperLetraInvalida \/ OperRechazada
  <2>1. oper.paso # "libre" /\ Fallar /\ UNCHANGED registro_claves
    BY <1>8 DEF OperLetraInvalida, OperRechazada
  <2>. QED BY <1>5, <2>1 DEF R!Next
<1>9. CASE OperElegirDeVacia \/ OperLeerLiberado
  BY <1>9 DEF OperElegirDeVacia, OperLeerLiberado, operacion, OperacionAtendida, R!vars
<1>10. CASE OperBuscarRegistro
  <2>1. /\ oper.paso = "registro" /\ UNCHANGED registro_claves
        /\ (\E n : Elegir(n)) \/ UNCHANGED oper
    BY <1>10 DEF OperBuscarRegistro, operacion
  <2>2. \A n : Elegir(n) => /\ oper'.paso = "enviar" /\ oper'.head = oper.head
                            /\ oper'.clave = oper.clave
    BY DEF Elegir, InvDistribucion, Tipos, Operaciones
  <2>3. OperacionAtendida' = OperacionAtendida
    BY <1>1, <2>1, <2>2 DEF OperacionAtendida, Libre
  <2>. QED BY <2>1, <2>3 DEF R!vars
<1>11. CASE OperEnviar \/ OperEnviarALiberada \/ OperEsperar \/ OperStoreada
  <2>1. /\ oper.paso # "libre" /\ (A("espera") \/ A("leer") \/ A("quitar"))
        /\ UNCHANGED registro_claves
    BY <1>11 DEF OperEnviar, OperEnviarALiberada, OperEsperar, OperStoreada, Leer
  <2>. QED BY <1>2, <2>1 DEF R!vars, Pasos
<1>12. CASE OperGuardada
  <2>1. /\ oper.paso = "leer" /\ oper.head = "GET" /\ oper' = Libre
        /\ registro_claves' = Append(registro_claves, [clave |-> oper.clave, instancia |-> n0])
    BY <1>12 DEF OperGuardada, Leer, Cumplir
  <2>2. n0 \in Instancias
    BY <2>1 DEF InvDistribucion, OperCoherente, n0
  <2>3. R!Guardar(n0)
    BY <1>4, <2>1 DEF R!Guardar
  <2>. QED BY <2>2, <2>3 DEF R!Next
<1>13. CASE OperSeteada
  <2>1. /\ oper.paso = "leer" /\ oper.head = "SET" /\ oper' = Libre
        /\ UNCHANGED registro_claves
    BY <1>13 DEF OperSeteada, Leer, Cumplir
  <2>2. Entradas(oper.clave) # {}
    BY <2>1, DistribucionAssumption
       DEF InvDistribucion, OperCoherente, OperDeDueno, DuenoRegistrado
  <2>3. R!Setear
    BY <1>4, <2>1, <2>2 DEF R!Setear, R!Registrada, Entradas
  <2>. QED BY <2>3 DEF R!Next
<1>14. CASE OperQuitar
  <2>1. /\ oper.paso = "quitar" /\ oper.head = "STORE" /\ oper' = Libre
        /\ registro_claves' = RemoveAt(registro_claves, Primera(oper.clave))
    BY <1>14 DEF OperQuitar, Cumplir, InvDistribucion, OperCoherente
  <2>2. oper.clave \in Claves /\ Entradas(oper.clave) # {}
    BY <2>1, DistribucionAssumption
       DEF InvDistribucion, OperCoherente, OperDeDueno, DuenoRegistrado
  <2>3. /\ Primera(oper.clave) \in DOMAIN registro_claves
        /\ registro_claves[Primera(oper.clave)].clave = oper.clave
        /\ \A j \in 1..(Primera(oper.clave) - 1) : registro_claves[j].clave # oper.clave
    BY <2>2, PrimeraReal, LenProperties DEF InvDistribucion, Tipos
  <2>4. R!Storear
    BY <1>4, <2>1, <2>3 DEF R!Storear, RemoveAt
  <2>. QED BY <2>4 DEF R!Next
<1>. QED
  BY <1>6, <1>7, <1>8, <1>9, <1>10, <1>11, <1>12, <1>13, <1>14 DEF OperAvanza

\* A step of the Coordinador is a step of Registro, or none.
LEMMA PasoImplementa == InvDistribucion /\ [Next]_vars => [R!Next]_(R!vars)
<1> SUFFICES ASSUME InvDistribucion, [Next]_vars PROVE R!Next \/ UNCHANGED R!vars
  OBVIOUS
<1>1. ASSUME UNCHANGED <<oper, registro_claves>> PROVE UNCHANGED R!vars
  BY <1>1 DEF R!vars, OperacionAtendida
<1>2. ASSUME NEW e \in Esis, NEW h \in Heads, NEW k \in Claves, OperPedir(e, h, k)
      PROVE  R!Next
  <2>1. /\ oper = Libre /\ Permitida(e, h, k) /\ UNCHANGED registro_claves
        /\ oper'.paso # "libre" /\ oper'.head = h /\ oper'.clave = k
    BY <1>2 DEF OperPedir
  <2>2. OperacionAtendida = NULL /\ OperacionAtendida' = [head |-> h, clave |-> k]
    BY <2>1 DEF OperacionAtendida, Libre
  <2>3. h # "GET" => Entradas(k) # {}
    BY <2>1, DistribucionAssumption DEF Permitida, InvDistribucion, DuenoRegistrado
  <2>4. R!Pedir(h, k)
    BY <2>1, <2>2, <2>3 DEF R!Pedir, R!Registrada, Entradas
  <2>. QED BY <2>4 DEF R!Next, Heads
<1>3. ASSUME NEW i \in Instancias, Escuchar(i) \/ InstanciaResponder(i) \/ InstanciaCerrar(i)
      PROVE  UNCHANGED <<oper, registro_claves>>
  BY <1>3 DEF Escuchar, InstConectar, InstRecibirNombre, InstAgregar, InstRecibir,
              InstRecibirFin, InstDestruirFin, InstQuitar, InstLiberar, InstanciaResponder,
              InstanciaCerrar, operacion
<1>4. Status => UNCHANGED <<oper, registro_claves>>
  BY DEF Status, StatusPedir, StatusTomarRegistro, StatusSinSeleccion, StatusResponder, operacion
<1>5. ASSUME NEW e \in Esis, EsiTermina(e) PROVE UNCHANGED <<oper, registro_claves>>
  BY <1>5 DEF EsiTermina
<1>6. CASE UNCHANGED vars
  BY <1>1, <1>6 DEF vars, operacion
<1>. QED BY <1>1, <1>2, <1>3, <1>4, <1>5, <1>6, AvanzaImplementa DEF Next, Viva

-----------------------------------------------------------------------------
\* What the operations of the Coordinador do to the registry of keys is what
\* Registro says: a SET or a STORE always finds an entry of its key, a STORE
\* takes the oldest away, a GET adds one, and what fails changes none.
THEOREM DistribucionImplementa == Spec => ImplementaRegistro
<1>1. Init => R!Init
  BY DEF Init, R!Init, OperacionAtendida
<1>. QED
  BY <1>1, DistribucionInicial, DistribucionMantiene, PasoImplementa, PTL
     DEF Spec, ImplementaRegistro, R!Spec

\* mutex_instancia is of the operation only while LSU waits for its instance,
\* which is in the list until it answers.
THEOREM DistribucionLSU == Spec => []LSUOrdenada
<1>1. InvDistribucion => LSUOrdenada
  BY DEF InvDistribucion, MutexExacto, DistribuyeLSU, MutexDeLSU, LSUOrdenada
<1>. QED BY <1>1, DistribucionInicial, DistribucionMantiene, PTL DEF Spec

-----------------------------------------------------------------------------
(* What is under way between the operations and the instances.             *)
\* The instances that have been in the list.
EnLista == {"escucha", "fin_recibido", "quitar"}
Agregadas == {i \in Instancias : conexion[i] \in EnLista \cup {"liberar", "fin"}}

(* The operations and the entries of the registry are of those.            *)
Conocidas ==
    /\ n0 # NULL => n0 \in Agregadas
    /\ \A x \in ToSet(registro_claves) :
          x.instancia \in Agregadas /\ tabla[x.instancia][x.clave] # "nada"

(* What is under way, at each point of its way, is of the operation in     *)
(* progress.                                                               *)
Propia(i, m) ==
    /\ m \in RespuestasA[oper.head]
    /\ m = "CLAVE_GUARDADA" => tabla[i][oper.clave] # "nada"
PedidoPropio ==
    \A i \in Instancias :
        /\ aInstancia[i] # <<>> =>
              Head(aInstancia[i]) = [head |-> oper.head, clave |-> oper.clave]
        /\ deInstancia[i] # <<>> => Propia(i, Head(deInstancia[i]))
        /\ semaforo[i] > 0 /\ conexion[i] = "escucha" => Propia(i, mensaje_instancia[i])
LecturaPropia ==
    oper.paso = "leer" /\ conexion[n0] = "escucha" => Propia(n0, mensaje_instancia[n0])

\* Who stops listening overwrites the last answer.
RespuestaEscuchada ==
    \A i \in Instancias : mensaje_instancia[i] \in Respuestas => conexion[i] = "escucha"

InvRed ==
    /\ TypeOK /\ InvDistribucion /\ ListaExacta
    /\ Conocidas /\ UnPedidoEnCurso /\ PedidoPropio /\ LecturaPropia /\ RespuestaEscuchada

-----------------------------------------------------------------------------
\* list_sort in LSU leaves each instance in the list once.
LEMMA OrdenadasMismas ==
    ASSUME NEW l \in Seq(Instancias), NEW s \in Ordenadas(l)
    PROVE  ToSet(s) = ToSet(l) /\ IsInjective(s)
<1> DEFINE T == ToSet(l)
           n == Cardinality(T)
<1>1. DOMAIN l = 1..Len(l) /\ Len(l) \in Nat
  BY LenProperties
<1>2. IsFiniteSet(T)
  <2>1. l \in Surjection(DOMAIN l, T)
    BY <1>1, LenProperties DEF Surjection, ToSet
  <2>2. IsFiniteSet(DOMAIN l)
    BY <1>1, FS_Interval
  <2>. QED BY <2>1, <2>2, FS_Surjection
<1>3. n \in Nat
  BY <1>2, FS_CardinalityType
<1>4. s \in [1..n -> T] /\ \A i, j \in 1..n : i # j => s[i] # s[j]
  BY DEF Ordenadas, SetToSeqs
<1> HIDE DEF n, T
<1>5. IsInjective(s)
  BY <1>4 DEF IsInjective
<1>6. s \in Surjection(1..n, T)
  <2>1. s \in Injection(1..n, T)
    BY <1>4, <1>5 DEF Injection
  <2>2. Cardinality(1..n) = n
    BY <1>3, FS_Interval
  <2>. QED BY <1>2, <2>1, <2>2, FS_Injection DEF n
<1>7. ToSet(s) = T
  BY <1>4, <1>6 DEF Surjection, ToSet
<1>. QED BY <1>5, <1>7 DEF T

LEMMA SinNada == Len(<<>>) = 0
OBVIOUS

\* Only the operation that waits has anything under way.
LEMMA NadaEnCurso ==
    ASSUME InvRed, NEW i \in Instancias, oper.paso # "espera" \/ i # n0
    PROVE  aInstancia[i] = <<>> /\ deInstancia[i] = <<>> /\ semaforo[i] = 0
<1>1. ~(EnCurso(i) > 0)
  BY DEF InvRed, UnPedidoEnCurso
<1>2. Len(aInstancia[i]) \in Nat /\ Len(deInstancia[i]) \in Nat /\ semaforo[i] \in Nat
  BY LenProperties DEF InvRed, TypeOK
<1>3. Len(aInstancia[i]) = 0 /\ Len(deInstancia[i]) = 0 /\ semaforo[i] = 0
  <2>1. ~(Len(aInstancia[i]) + Len(deInstancia[i]) + semaforo[i] > 0)
    BY <1>1 DEF EnCurso
  <2>2. \A a, b, c \in Nat : ~(a + b + c > 0) => a = 0 /\ b = 0 /\ c = 0
    OBVIOUS
  <2>. QED BY <1>2, <2>1, <2>2
<1>. QED BY <1>3, EmptySeq DEF InvRed, TypeOK

-----------------------------------------------------------------------------
\* The types, step by step.
LEMMA TiposEscuchar ==
    ASSUME TypeOK, Tipos', NEW i \in Instancias, Viva(Escuchar(i))
    PROVE  TypeOK'
<1>1. CASE InstConectar(i) \/ InstRecibirNombre(i)
  BY <1>1 DEF InstConectar, InstRecibirNombre, TypeOK, Tipos, Conexiones, lista, mutexes,
              operacion, hilos, red
<1>2. CASE InstAgregar(i)
  BY <1>2 DEF InstAgregar, TypeOK, Tipos, Conexiones, lista, mutexes, operacion, hilos, red,
              Repartir
<1>3. CASE InstRecibir(i)
  <2>1. Head(deInstancia[i]) \in Respuestas /\ Tail(deInstancia[i]) \in Seq(Respuestas)
    BY <1>3, CabezaTipo DEF InstRecibir, TypeOK
  <2>2. semaforo' \in [Instancias -> Nat]
    BY <1>3 DEF InstRecibir, TypeOK
  <2>. QED
    BY <1>3, <2>1, <2>2 DEF InstRecibir, TypeOK, Tipos, lista, mutexes, operacion, hilos, red
<1>4. CASE InstRecibirFin(i)
  BY <1>4 DEF InstRecibirFin, TypeOK, Tipos, Conexiones, lista, mutexes, operacion, hilos, red
<1>5. CASE InstDestruirFin(i) \/ InstLiberar(i)
  BY <1>5 DEF InstDestruirFin, InstLiberar, Destruir, TypeOK, Tipos, Conexiones, lista,
              mutexes, operacion, hilos, red
<1>6. CASE InstQuitar(i)
  BY <1>6 DEF InstQuitar, TypeOK, Tipos, Conexiones, lista, mutexes, operacion, hilos, red,
              Repartir
<1>. QED BY <1>1, <1>2, <1>3, <1>4, <1>5, <1>6 DEF Escuchar, Viva

LEMMA TiposInstancia ==
    ASSUME TypeOK, Tipos', NEW i \in Instancias, InstanciaResponder(i) \/ InstanciaCerrar(i)
    PROVE  TypeOK'
<1>1. CASE InstanciaResponder(i)
  <2> DEFINE p == Head(aInstancia[i])
  <2>1. /\ aInstancia[i] # <<>>
        /\ deInstancia' = [deInstancia EXCEPT ![i] = Append(@, Contesta(i, p))]
        /\ tabla' = [tabla EXCEPT ![i][p.clave] = Anota(i, p)]
        /\ aInstancia' = [aInstancia EXCEPT ![i] = Tail(@)]
    BY <1>1 DEF InstanciaResponder
  <2>2. p \in [head : Heads, clave : Claves]
        /\ Tail(aInstancia[i]) \in Seq([head : Heads, clave : Claves])
    BY <2>1, CabezaTipo DEF TypeOK
  <2> HIDE DEF p
  <2>3. Contesta(i, p) \in Respuestas /\ Anota(i, p) \in EnTabla
    BY <2>2 DEF Contesta, Anota, Respuestas, Heads, EnTabla, TypeOK
  <2>4. Append(deInstancia[i], Contesta(i, p)) \in Seq(Respuestas)
    BY <2>3, AgregarTipo DEF TypeOK
  <2>5. deInstancia' \in [Instancias -> Seq(Respuestas)]
    BY <2>1, <2>4 DEF TypeOK
  <2>6. tabla' \in [Instancias -> [Claves -> EnTabla]]
    BY <2>1, <2>2, <2>3 DEF TypeOK
  <2>7. aInstancia' \in [Instancias -> Seq([head : Heads, clave : Claves])]
    BY <2>1, <2>2 DEF TypeOK, p
  <2>. QED
    BY <1>1, <2>5, <2>6, <2>7
       DEF InstanciaResponder, TypeOK, Tipos, lista, mutexes, operacion, hilos
<1>2. CASE InstanciaCerrar(i)
  BY <1>2, EmptySeq DEF InstanciaCerrar, TypeOK, Tipos, lista, mutexes, operacion, hilos
<1>. QED BY <1>1, <1>2

LEMMA TiposStatus ==
    ASSUME TypeOK, Tipos', Status
    PROVE  TypeOK'
<1>1. CASE StatusPedir
  <2>1. hechos' \in Nat
    BY <1>1 DEF StatusPedir, TypeOK
  <2>. QED
    BY <1>1, <2>1 DEF StatusPedir, TypeOK, Tipos, lista, mutexes, operacion, hilos, red
<1>2. CASE StatusTomarRegistro
  BY <1>2 DEF StatusTomarRegistro, TypeOK, Tipos, lista, mutexes, operacion, hilos, red
<1>3. ASSUME NEW k \in Claves, StatusSinSeleccion(k) PROVE TypeOK'
  BY <1>3 DEF StatusSinSeleccion, TypeOK, Tipos, lista, mutexes, operacion, hilos, red
<1>4. ASSUME NEW k \in Claves, StatusResponder(k) PROVE TypeOK'
  BY <1>4 DEF StatusResponder, TypeOK, Tipos, lista, mutexes, operacion, hilos, red
<1>. QED BY <1>1, <1>2, <1>3, <1>4 DEF Status

LEMMA TiposPedir ==
    ASSUME TypeOK, Tipos', NEW e \in Esis,
           EsiTermina(e) \/ \E h \in Heads, k \in Claves : OperPedir(e, h, k)
    PROVE  TypeOK'
<1>1. CASE EsiTermina(e)
  BY <1>1 DEF EsiTermina, TypeOK, Tipos, lista, mutexes, hilos, red
<1>2. ASSUME NEW h \in Heads, NEW k \in Claves, OperPedir(e, h, k) PROVE TypeOK'
  <2>1. hechas' \in Nat
    BY <1>2 DEF OperPedir, TypeOK
  <2>. QED
    BY <1>2, <2>1 DEF OperPedir, TypeOK, Tipos, lista, mutexes, hilos, red
<1>. QED BY <1>1, <1>2

LEMMA TiposElegir ==
    ASSUME TypeOK, Tipos',
           \/ OperMirarLista \/ OperElegirEL \/ OperElegirLSU \/ OperElegirKE
           \/ OperLetraInvalida \/ OperElegirDeVacia \/ OperBuscarRegistro
    PROVE  TypeOK'
<1>1. CASE OperElegirEL
  <2>1. repartidas' \in [Instancias -> Nat]
    <3> DEFINE t == Turno
    <3>1. repartidas' = [repartidas EXCEPT ![t] = repartidas[t] + 1]
      BY <1>1 DEF OperElegirEL
    <3>2. repartidas \in [Instancias -> Nat]
      BY DEF TypeOK
    <3> HIDE DEF t
    <3>3. \A i \in Instancias :
              repartidas'[i] = IF i = t THEN repartidas[i] + 1 ELSE repartidas[i]
      BY <3>1, <3>2
    <3>4. \A i \in Instancias : repartidas[i] \in Nat /\ repartidas[i] + 1 \in Nat
      BY <3>2
    <3>5. \A i \in Instancias : repartidas'[i] \in Nat
      BY <3>3, <3>4
    <3>6. repartidas' = [i \in Instancias |-> repartidas'[i]]
      BY <3>1, <3>2
    <3>. QED BY <3>5, <3>6
  <2>. QED
    BY <1>1, <2>1 DEF OperElegirEL, Elegir, TypeOK, Tipos, mutexes, hilos, red
<1>2. CASE ~OperElegirEL
  BY <1>2 DEF OperMirarLista, OperElegirLSU, OperElegirKE, OperLetraInvalida,
              OperElegirDeVacia, OperBuscarRegistro, Fallar, A, Elegir, TypeOK, Tipos, lista,
              mutexes, operacion, hilos, red
<1>. QED BY <1>1, <1>2

LEMMA TiposEsperar ==
    ASSUME TypeOK, Tipos', n0 \in Instancias, caida = "ninguna", oper.head \in Heads,
           oper.clave \in Claves, OperEnviar \/ OperEnviarALiberada \/ OperEsperar
    PROVE  TypeOK'
<1>1. CASE OperEnviar
  <2> DEFINE p == [head |-> oper.head, clave |-> oper.clave]
  <2>1. p \in [head : Heads, clave : Claves]
    OBVIOUS
  <2> HIDE DEF p
  <2>2. Append(aInstancia[n0], p) \in Seq([head : Heads, clave : Claves])
    BY <2>1, AgregarTipo DEF TypeOK
  <2>3. aInstancia' = aInstancia \/ aInstancia' = [aInstancia EXCEPT ![n0] = Append(@, p)]
    BY <1>1 DEF OperEnviar, p
  <2>4. aInstancia' \in [Instancias -> Seq([head : Heads, clave : Claves])]
    BY <2>2, <2>3 DEF TypeOK
  <2>5. caida' \in {"ninguna", "sigpipe", "ajena"}
    BY <1>1 DEF OperEnviar
  <2>. QED
    BY <1>1, <2>4, <2>5 DEF OperEnviar, A, TypeOK, Tipos, lista, mutexes, hilos
<1>2. CASE OperEnviarALiberada
  BY <1>2 DEF OperEnviarALiberada, A, TypeOK, Tipos, lista, mutexes, hilos, red
<1>3. CASE OperEsperar
  <2>1. semaforo' \in [Instancias -> Nat]
    BY <1>3 DEF OperEsperar, TypeOK
  <2>. QED
    BY <1>3, <2>1 DEF OperEsperar, A, TypeOK, Tipos, lista, mutexes, hilos, red
<1>. QED BY <1>1, <1>2, <1>3

LEMMA TiposLeer ==
    ASSUME TypeOK, Tipos', n0 \in Instancias, oper.clave \in Claves,
           \/ OperLeerLiberado \/ OperGuardada \/ OperSeteada \/ OperStoreada \/ OperQuitar
           \/ OperRechazada
    PROVE  TypeOK'
<1>1. mensaje_instancia' \in
          [Instancias -> Respuestas \cup {"FALLO_AL_RECIBIR", "liberado", NULL}]
  BY DEF OperLeerLiberado, OperGuardada, OperSeteada, OperStoreada, OperQuitar, OperRechazada,
         Leer, hilos, TypeOK
<1>2. espacio_utilizado' \in [Instancias -> Int]
  <2>1. Largo[oper.clave] \in Nat
    BY DistribucionAssumption
  <2>. QED
    BY <2>1 DEF OperLeerLiberado, OperGuardada, OperSeteada, OperStoreada, OperQuitar,
                OperRechazada, lista, TypeOK
<1>3. mutex_instancia' \in {"libre", "oper", "status"}
  BY DEF OperLeerLiberado, OperGuardada, OperSeteada, OperStoreada, OperQuitar, OperRechazada,
         SoltarInstancia, mutexes, TypeOK
<1>. QED
  BY <1>1, <1>2, <1>3
     DEF OperLeerLiberado, OperGuardada, OperSeteada, OperStoreada, OperQuitar, OperRechazada,
         Leer, Cumplir, Fallar, A, TypeOK, Tipos, lista, mutexes, operacion, hilos, red

LEMMA TiposMantiene ==
    ASSUME InvRed, InvDistribucion', [Next]_vars
    PROVE  TypeOK'
<1>1. TypeOK /\ Tipos'
  BY DEF InvRed, InvDistribucion
<1>2. CASE UNCHANGED vars
  BY <1>1, <1>2 DEF vars, lista, mutexes, operacion, hilos, red, TypeOK
<1>3. CASE Viva(OperAvanza)
  <2>1. caida = "ninguna" /\ OperAvanza
    BY <1>3 DEF Viva
  <2>2. oper.paso # "libre" => oper.head \in Heads /\ oper.clave \in Claves
    BY DEF InvRed, InvDistribucion, OperCoherente
  <2>3. oper.paso \in {"enviar", "espera", "leer", "quitar"} => n0 \in Instancias
    BY DEF InvRed, InvDistribucion, OperCoherente, n0
  <2>4. CASE OperEnviar \/ OperEnviarALiberada \/ OperEsperar
    <3>1. oper.paso \in {"enviar", "espera"}
      BY <2>4 DEF OperEnviar, OperEnviarALiberada, OperEsperar
    <3>. QED BY <1>1, <2>1, <2>2, <2>3, <2>4, <3>1, TiposEsperar
  <2>5. CASE \/ OperLeerLiberado \/ OperGuardada \/ OperSeteada \/ OperStoreada \/ OperQuitar
             \/ OperRechazada
    <3>1. oper.paso \in {"leer", "quitar"}
      BY <2>5 DEF OperLeerLiberado, OperGuardada, OperSeteada, OperStoreada, OperQuitar,
                  OperRechazada, Leer
    <3>. QED BY <1>1, <2>1, <2>2, <2>3, <2>5, <3>1, TiposLeer
  <2>. QED BY <1>1, <2>1, <2>4, <2>5, TiposElegir DEF OperAvanza
<1>. QED
  BY <1>1, <1>2, <1>3, TiposEscuchar, TiposInstancia, TiposStatus, TiposPedir DEF Next, Viva

-----------------------------------------------------------------------------
\* The list: a thread adds its instance once and takes out that one only.
LEMMA ListaEscuchar ==
    ASSUME InvRed, NEW i \in Instancias, Escuchar(i)
    PROVE  ListaExacta'
<1>1. /\ lista_instancias \in Seq(Instancias) /\ conexion \in [Instancias -> Conexiones]
      /\ ToSet(lista_instancias) = {j \in Instancias : conexion[j] \in EnLista}
      /\ IsInjective(lista_instancias)
  BY DEF InvRed, TypeOK, ListaExacta, EnLista
<1>2. SUFFICES /\ ToSet(lista_instancias') = {j \in Instancias : conexion'[j] \in EnLista}
               /\ IsInjective(lista_instancias')
  BY DEF ListaExacta, EnLista
<1>3. CASE InstAgregar(i)
  <2>1. /\ conexion[i] = "agregar" /\ lista_instancias' = Append(lista_instancias, i)
        /\ \/ conexion' = [conexion EXCEPT ![i] = "escucha"]
           \/ conexion' = [conexion EXCEPT ![i] = "quitar"]
    BY <1>3 DEF InstAgregar
  <2>2. i \notin ToSet(lista_instancias)
    BY <1>1, <2>1 DEF EnLista
  <2>3. ToSet(lista_instancias') = ToSet(lista_instancias) \cup {i}
    BY <1>1, <2>1, AgregarTipo
  <2>4. IsInjective(lista_instancias')
    BY <1>1, <2>1, <2>2, AgregarInyectiva
  <2>. QED BY <1>1, <2>1, <2>3, <2>4 DEF EnLista
<1>4. CASE InstQuitar(i)
  <2>1. /\ lista_instancias' = RemoveFirst(lista_instancias, i)
        /\ conexion' = [conexion EXCEPT ![i] = "liberar"]
    BY <1>4 DEF InstQuitar
  <2>2. /\ ToSet(lista_instancias') = ToSet(lista_instancias) \ {i}
        /\ IsInjective(lista_instancias')
    BY <1>1, <2>1, SacarInyectiva
  <2>. QED BY <1>1, <2>1, <2>2 DEF EnLista
<1>5. CASE \/ InstConectar(i) \/ InstRecibirNombre(i) \/ InstRecibir(i) \/ InstRecibirFin(i)
           \/ InstDestruirFin(i) \/ InstLiberar(i)
  <2>1. UNCHANGED lista_instancias
    BY <1>5 DEF InstConectar, InstRecibirNombre, InstRecibir, InstRecibirFin, InstDestruirFin,
                InstLiberar, lista
  <2>2. \A j \in Instancias : conexion'[j] \in EnLista <=> conexion[j] \in EnLista
    BY <1>1, <1>5 DEF InstConectar, InstRecibirNombre, InstRecibir, InstRecibirFin,
                      InstDestruirFin, InstLiberar, EnLista
  <2>. QED BY <1>1, <2>1, <2>2
<1>. QED BY <1>3, <1>4, <1>5 DEF Escuchar

\* Nobody else adds to the list or takes out of it: LSU sorts it.
LEMMA ListaDeOtros ==
    ASSUME InvRed, UNCHANGED conexion,
           UNCHANGED lista_instancias \/ lista_instancias' \in Ordenadas(lista_instancias)
    PROVE  ListaExacta'
<1>1. lista_instancias \in Seq(Instancias) /\ ListaExacta
  BY DEF InvRed, TypeOK
<1>2. /\ ToSet(lista_instancias') = ToSet(lista_instancias)
      /\ IsInjective(lista_instancias')
  BY <1>1, OrdenadasMismas DEF ListaExacta
<1>. QED BY <1>1, <1>2 DEF ListaExacta

-----------------------------------------------------------------------------
\* What concerns the network and who waits for it.
RedCoherente ==
    Conocidas /\ UnPedidoEnCurso /\ PedidoPropio /\ LecturaPropia /\ RespuestaEscuchada

\* Steps of the operation with nothing under way that do not go on to read:
\* only what it knows of its instance and of the registry can be disturbed.
LEMMA RedVacia ==
    ASSUME InvRed, TypeOK', oper.paso # "espera", oper'.paso # "leer",
           UNCHANGED <<conexion, semaforo, red>>,
           mensaje_instancia' = mensaje_instancia \/
              \E n : mensaje_instancia' = [mensaje_instancia EXCEPT ![n] = "liberado"],
           Conocidas'
    PROVE  RedCoherente'
<1>1. \A i \in Instancias :
          aInstancia[i] = <<>> /\ deInstancia[i] = <<>> /\ semaforo[i] = 0
  BY NadaEnCurso
<1>2. UnPedidoEnCurso'
  <2>1. \A i \in Instancias : EnCurso(i)' = 0 + 0 + 0
    BY <1>1, SinNada DEF EnCurso, red
  <2>. QED BY <2>1 DEF UnPedidoEnCurso
<1>3. PedidoPropio'
  BY <1>1 DEF PedidoPropio, red
<1>4. LecturaPropia'
  BY DEF LecturaPropia
<1>5. RespuestaEscuchada'
  BY DEF InvRed, RespuestaEscuchada, TypeOK, Respuestas
<1>. QED BY <1>2, <1>3, <1>4, <1>5 DEF RedCoherente

\* The request is sent, or lost: it is of the operation.
LEMMA RedEnviar ==
    ASSUME InvRed, OperEnviar \/ OperEnviarALiberada
    PROVE  RedCoherente'
<1> DEFINE p == [head |-> oper.head, clave |-> oper.clave]
<1>1. /\ oper.paso = "enviar" /\ oper' = [oper EXCEPT !.paso = "espera"]
      /\ UNCHANGED <<registro_claves, conexion, mensaje_instancia, semaforo, deInstancia, tabla>>
      /\ aInstancia' = aInstancia \/ aInstancia' = [aInstancia EXCEPT ![n0] = Append(@, p)]
  BY DEF OperEnviar, OperEnviarALiberada, A, hilos, red
<1>2. n0 \in Instancias /\ n0' = n0 /\ oper'.paso = "espera" /\ oper'.head = oper.head
      /\ oper'.clave = oper.clave
  BY <1>1 DEF InvRed, InvDistribucion, OperCoherente, Tipos, Operaciones, n0
<1>3. \A i \in Instancias :
          aInstancia[i] = <<>> /\ deInstancia[i] = <<>> /\ semaforo[i] = 0
  BY <1>1, NadaEnCurso
<1>4. /\ Head(Append(<<>>, p)) = p /\ Len(Append(<<>>, p)) = 1
      /\ Len(<<>>) = 0
  OBVIOUS
<1>5. \A i \in Instancias : /\ aInstancia'[i] = <<>> \/ (i = n0 /\ aInstancia'[i] = Append(<<>>, p))
                            /\ deInstancia'[i] = <<>> /\ semaforo'[i] = 0
  BY <1>1, <1>3 DEF InvRed, TypeOK
<1> HIDE DEF p
<1>6. Conocidas'
  BY <1>1, <1>2 DEF InvRed, Conocidas, Agregadas
<1>7. UnPedidoEnCurso'
  <2>1. \A i \in Instancias :
            EnCurso(i)' = 0 + 0 + 0 \/ (i = n0 /\ EnCurso(i)' = 1 + 0 + 0)
    BY <1>4, <1>5 DEF EnCurso
  <2>. QED BY <1>2, <2>1 DEF UnPedidoEnCurso
<1>8. PedidoPropio'
  BY <1>2, <1>4, <1>5 DEF PedidoPropio, p
<1>9. LecturaPropia' /\ RespuestaEscuchada'
  BY <1>1, <1>2 DEF InvRed, LecturaPropia, RespuestaEscuchada
<1>. QED BY <1>6, <1>7, <1>8, <1>9 DEF RedCoherente

\* The wait ends with what the sem_post announced.
LEMMA RedEsperar ==
    ASSUME InvRed, OperEsperar
    PROVE  RedCoherente'
<1>1. /\ oper.paso = "espera" /\ oper' = [oper EXCEPT !.paso = "leer"] /\ semaforo[n0] > 0
      /\ semaforo' = [semaforo EXCEPT ![n0] = @ - 1]
      /\ UNCHANGED <<registro_claves, conexion, mensaje_instancia, aInstancia, deInstancia, tabla>>
  BY DEF OperEsperar, A, red
<1>2. n0 \in Instancias /\ n0' = n0 /\ oper'.paso = "leer" /\ oper'.head = oper.head
      /\ oper'.clave = oper.clave
  BY <1>1 DEF InvRed, InvDistribucion, OperCoherente, Tipos, Operaciones, n0
<1>3. /\ Len(aInstancia[n0]) \in Nat /\ Len(deInstancia[n0]) \in Nat /\ semaforo[n0] \in Nat
      /\ EnCurso(n0) > 0 => EnCurso(n0) = 1
  BY <1>2, LenProperties DEF InvRed, TypeOK, UnPedidoEnCurso
<1>4. Len(aInstancia[n0]) = 0 /\ Len(deInstancia[n0]) = 0 /\ semaforo[n0] = 1
  <2>1. \A a, b, c \in Nat : (a + b + c > 0 => a + b + c = 1) /\ c > 0 => a = 0 /\ b = 0 /\ c = 1
    OBVIOUS
  <2>. QED BY <1>1, <1>3, <2>1 DEF EnCurso
<1>5. \A i \in Instancias :
          aInstancia'[i] = <<>> /\ deInstancia'[i] = <<>> /\ semaforo'[i] = 0
  <2> SUFFICES ASSUME NEW i \in Instancias
               PROVE  aInstancia'[i] = <<>> /\ deInstancia'[i] = <<>> /\ semaforo'[i] = 0
    OBVIOUS
  <2>1. CASE i = n0
    BY <1>1, <1>2, <1>4, <2>1, EmptySeq DEF InvRed, TypeOK
  <2>2. CASE i # n0
    BY <1>1, <2>2, NadaEnCurso DEF InvRed, TypeOK
  <2>. QED BY <2>1, <2>2
<1>6. Conocidas'
  BY <1>1, <1>2 DEF InvRed, Conocidas, Agregadas
<1>7. UnPedidoEnCurso'
  <2>1. \A i \in Instancias : EnCurso(i)' = 0 + 0 + 0
    BY <1>5, SinNada DEF EnCurso
  <2>. QED BY <2>1 DEF UnPedidoEnCurso
<1>8. PedidoPropio'
  BY <1>5 DEF PedidoPropio
<1>9. LecturaPropia'
  BY <1>1, <1>2 DEF InvRed, PedidoPropio, LecturaPropia, Propia
<1>10. RespuestaEscuchada'
  BY <1>1 DEF InvRed, RespuestaEscuchada
<1>. QED BY <1>6, <1>7, <1>8, <1>9, <1>10 DEF RedCoherente

\* escuchar_instancia: what it receives it announces, once, and what it does
\* before and after it listens concerns nobody that waits.
LEMMA RedEscuchar ==
    ASSUME InvRed, TypeOK', NEW i \in Instancias, Escuchar(i)
    PROVE  RedCoherente'
<1>1. /\ UNCHANGED <<oper, registro_claves, aInstancia, tabla>> /\ n0' = n0
      /\ conexion \in [Instancias -> Conexiones]
      /\ n0 # NULL => n0 \in Agregadas
      /\ \A j \in Instancias \ {i} :
            /\ conexion'[j] = conexion[j] /\ mensaje_instancia'[j] = mensaje_instancia[j]
            /\ deInstancia'[j] = deInstancia[j] /\ semaforo'[j] = semaforo[j]
  <2>1. UNCHANGED <<oper, registro_claves, aInstancia, tabla>>
    BY DEF Escuchar, InstConectar, InstRecibirNombre, InstAgregar, InstRecibir, InstRecibirFin,
           InstDestruirFin, InstQuitar, InstLiberar, operacion, red
  <2>2. \A j \in Instancias \ {i} :
            /\ conexion'[j] = conexion[j] /\ mensaje_instancia'[j] = mensaje_instancia[j]
            /\ deInstancia'[j] = deInstancia[j] /\ semaforo'[j] = semaforo[j]
    BY DEF Escuchar, InstConectar, InstRecibirNombre, InstAgregar, InstRecibir, InstRecibirFin,
           InstDestruirFin, Destruir, InstQuitar, InstLiberar, red, InvRed, TypeOK
  <2>. QED BY <2>1, <2>2 DEF n0, InvRed, Conocidas, TypeOK
<1>2. \A j \in Instancias : conexion[j] \in EnLista \cup {"liberar", "fin"} =>
          conexion'[j] \in EnLista \cup {"liberar", "fin"}
  <2>1. \/ conexion[i] \in {"no", "nombre", "agregar"}
        \/ conexion'[i] \in EnLista \cup {"liberar", "fin"}
    BY <1>1 DEF Escuchar, InstConectar, InstRecibirNombre, InstAgregar, InstRecibir,
                InstRecibirFin, InstDestruirFin, InstQuitar, InstLiberar, EnLista
  <2>. QED BY <1>1, <2>1 DEF EnLista
<1>3. Conocidas'
  BY <1>1, <1>2 DEF InvRed, Conocidas, Agregadas
<1>4. \A j \in Instancias : j \notin Agregadas => j # n0
  BY <1>1, DistribucionAssumption
<1>5. CASE InstRecibir(i)
  <2>1. /\ conexion[i] = "escucha" /\ deInstancia[i] # <<>> /\ UNCHANGED conexion
        /\ mensaje_instancia' = [mensaje_instancia EXCEPT ![i] = Head(deInstancia[i])]
        /\ deInstancia' = [deInstancia EXCEPT ![i] = Tail(@)]
        /\ semaforo' = [semaforo EXCEPT ![i] = @ + 1]
    BY <1>5 DEF InstRecibir
  <2>2. oper.paso = "espera" /\ i = n0
    BY <2>1, NadaEnCurso
  <2>3. /\ Len(aInstancia[i]) \in Nat /\ Len(deInstancia[i]) \in Nat /\ semaforo[i] \in Nat
        /\ EnCurso(i) > 0 => EnCurso(i) = 1
        /\ Len(deInstancia[i]) # 0
        /\ Len(Tail(deInstancia[i])) = Len(deInstancia[i]) - 1
    BY <2>1, LenProperties, EmptySeq, HeadTailProperties DEF InvRed, TypeOK, UnPedidoEnCurso
  <2>4. Len(aInstancia[i]) = 0 /\ Len(deInstancia[i]) = 1 /\ semaforo[i] = 0
    <3>1. \A a, b, c \in Nat : (a + b + c > 0 => a + b + c = 1) /\ b # 0
                                  => a = 0 /\ b = 1 /\ c = 0
      OBVIOUS
    <3>. QED BY <2>3, <3>1 DEF EnCurso
  <2>5. Len(Tail(deInstancia[i])) = 0 /\ deInstancia'[i] = Tail(deInstancia[i])
        /\ semaforo'[i] = 1 /\ mensaje_instancia'[i] = Head(deInstancia[i])
    BY <2>1, <2>3, <2>4 DEF InvRed, TypeOK
  <2>6. aInstancia[i] = <<>> /\ deInstancia'[i] = <<>>
    BY <2>4, <2>5, EmptySeq DEF InvRed, TypeOK
  <2>7. UnPedidoEnCurso'
    <3>1. EnCurso(i)' = 0 + 0 + 1
      BY <1>1, <2>5, <2>6, SinNada DEF EnCurso
    <3>2. \A j \in Instancias \ {i} : EnCurso(j)' = EnCurso(j)
      BY <1>1 DEF EnCurso
    <3>. QED BY <1>1, <2>2, <3>1, <3>2 DEF InvRed, UnPedidoEnCurso
  <2>8. Propia(i, Head(deInstancia[i]))
    BY <2>1 DEF InvRed, PedidoPropio
  <2>9. PedidoPropio'
    BY <1>1, <2>5, <2>6, <2>8 DEF InvRed, PedidoPropio, Propia
  <2>10. LecturaPropia' /\ RespuestaEscuchada'
    BY <1>1, <2>1, <2>2 DEF InvRed, LecturaPropia, RespuestaEscuchada
  <2>. QED BY <1>3, <2>7, <2>9, <2>10 DEF RedCoherente
<1>6. CASE ~InstRecibir(i)
  <2>1. UNCHANGED <<semaforo, deInstancia>>
    BY <1>6 DEF Escuchar, InstConectar, InstRecibirNombre, InstAgregar, InstRecibirFin,
                InstDestruirFin, InstQuitar, InstLiberar, red
  <2>2. UnPedidoEnCurso'
    BY <1>1, <2>1 DEF InvRed, UnPedidoEnCurso, EnCurso
  <2>3. \/ conexion'[i] # "escucha" /\ mensaje_instancia'[i] \notin Respuestas
        \/ conexion[i] = "agregar" /\ mensaje_instancia'[i] = mensaje_instancia[i]
    <3>1. /\ mensaje_instancia \in
                [Instancias -> Respuestas \cup {"FALLO_AL_RECIBIR", "liberado", NULL}]
          /\ mensaje_instancia[i] \in Respuestas => conexion[i] = "escucha"
          /\ NULL \notin Respuestas
      BY DistribucionAssumption DEF InvRed, TypeOK, RespuestaEscuchada
    <3>2. CASE InstAgregar(i)
      BY <3>2 DEF InstAgregar
    <3>3. CASE ~InstAgregar(i)
      BY <1>1, <1>6, <3>1, <3>3
         DEF Escuchar, InstConectar, InstRecibirNombre, InstRecibirFin,
             InstDestruirFin, Destruir, InstQuitar, InstLiberar, Respuestas
    <3>. QED BY <3>2, <3>3
  <2>4. RespuestaEscuchada'
    BY <1>1, <2>3 DEF InvRed, RespuestaEscuchada
  <2>5. conexion[i] = "agregar" => i # n0 /\ semaforo[i] = 0
    <3>1. conexion[i] = "agregar" => i \notin Agregadas
      BY DEF Agregadas, EnLista
    <3>. QED BY <1>4, <3>1, NadaEnCurso
  <2>6. PedidoPropio'
    BY <1>1, <2>1, <2>3, <2>5 DEF InvRed, PedidoPropio, Propia
  <2>7. LecturaPropia'
    <3> SUFFICES ASSUME oper.paso = "leer", conexion'[n0] = "escucha"
                 PROVE  Propia(n0, mensaje_instancia[n0]) /\ n0 # i /\ n0 \in Instancias
      BY <1>1 DEF LecturaPropia, Propia
    <3>1. n0 \in Instancias
      BY DEF InvRed, InvDistribucion, OperCoherente, n0
    <3>2. n0 # i
      BY <2>3, <2>5
    <3>. QED BY <1>1, <3>1, <3>2 DEF InvRed, LecturaPropia
  <2>. QED BY <1>3, <2>2, <2>4, <2>6, <2>7 DEF RedCoherente
<1>. QED BY <1>5, <1>6

\* The process at the other end answers what it was asked, and notes a GET.
LEMMA RedInstancia ==
    ASSUME InvRed, TypeOK', NEW i \in Instancias, InstanciaResponder(i) \/ InstanciaCerrar(i)
    PROVE  RedCoherente'
<1>1. UNCHANGED <<oper, registro_claves, conexion, mensaje_instancia, semaforo>> /\ n0' = n0
  BY DEF InstanciaResponder, InstanciaCerrar, operacion, hilos, n0
<1>2. CASE InstanciaResponder(i)
  <2> DEFINE p == Head(aInstancia[i])
  <2>1. /\ aInstancia[i] # <<>>
        /\ deInstancia' = [deInstancia EXCEPT ![i] = Append(@, Contesta(i, p))]
        /\ tabla' = [tabla EXCEPT ![i][p.clave] = Anota(i, p)]
        /\ aInstancia' = [aInstancia EXCEPT ![i] = Tail(@)]
    BY <1>2 DEF InstanciaResponder
  <2>2. oper.paso = "espera" /\ i = n0 /\ p = [head |-> oper.head, clave |-> oper.clave]
    BY <2>1, NadaEnCurso DEF InvRed, PedidoPropio
  <2>3. oper.head \in Heads /\ oper.clave \in Claves
    BY <2>2 DEF InvRed, InvDistribucion, OperCoherente
  <2>4. /\ Len(aInstancia[i]) \in Nat /\ Len(deInstancia[i]) \in Nat /\ semaforo[i] \in Nat
        /\ EnCurso(i) > 0 => EnCurso(i) = 1
        /\ Len(aInstancia[i]) # 0
        /\ Len(Tail(aInstancia[i])) = Len(aInstancia[i]) - 1
    BY <2>1, LenProperties, EmptySeq, HeadTailProperties DEF InvRed, TypeOK, UnPedidoEnCurso
  <2>5. Len(aInstancia[i]) = 1 /\ Len(deInstancia[i]) = 0 /\ semaforo[i] = 0
    <3>1. \A a, b, c \in Nat : (a + b + c > 0 => a + b + c = 1) /\ a # 0
                                  => a = 1 /\ b = 0 /\ c = 0
      OBVIOUS
    <3>. QED BY <2>4, <3>1 DEF EnCurso
  <2> HIDE DEF p
  <2>6. /\ aInstancia'[i] = <<>> /\ deInstancia'[i] = Append(<<>>, Contesta(i, p))
    <3>1. /\ aInstancia[i] \in Seq([head : Heads, clave : Claves])
          /\ deInstancia[i] \in Seq(Respuestas)
      BY DEF InvRed, TypeOK
    <3>2. Tail(aInstancia[i]) \in Seq([head : Heads, clave : Claves])
      BY <2>1, <3>1, CabezaTipo
    <3>3. Len(Tail(aInstancia[i])) = 0
      BY <2>4, <2>5
    <3>4. deInstancia[i] = <<>> /\ Tail(aInstancia[i]) = <<>>
      BY <2>5, <3>1, <3>2, <3>3, EmptySeq
    <3>. QED BY <2>1, <3>4 DEF InvRed, TypeOK
  <2>7. /\ Len(Append(<<>>, Contesta(i, p))) = 1
        /\ Head(Append(<<>>, Contesta(i, p))) = Contesta(i, p)
    OBVIOUS
  <2>8. \A j \in Instancias \ {i} :
            aInstancia'[j] = aInstancia[j] /\ deInstancia'[j] = deInstancia[j]
    BY <2>1 DEF InvRed, TypeOK
  <2>9. \A j \in Instancias, k \in Claves : tabla[j][k] # "nada" => tabla'[j][k] # "nada"
    <3>1. tabla \in [Instancias -> [Claves -> EnTabla]]
      BY DEF InvRed, TypeOK
    <3>2. tabla[i][p.clave] # "nada" => Anota(i, p) # "nada"
      BY DEF Anota
    <3>. QED BY <2>1, <2>2, <2>3, <3>1, <3>2
  <2>10. Contesta(i, p) \in RespuestasA[oper.head]
    BY <2>2, <2>3 DEF Contesta, RespuestasA, Heads
  <2>11. Contesta(i, p) = "CLAVE_GUARDADA" => tabla'[i][oper.clave] # "nada"
    <3>1. Contesta(i, p) = "CLAVE_GUARDADA" => p.head = "GET"
      BY <2>2, <2>3 DEF Contesta, Heads
    <3>2. p.head = "GET" => Anota(i, p) = "sin_valor"
      BY DEF Anota
    <3>3. tabla'[i][oper.clave] = Anota(i, p)
      BY <2>1, <2>2, <2>3 DEF InvRed, TypeOK
    <3>. QED BY <3>1, <3>2, <3>3
  <2>12. Conocidas'
    <3>1. \A x \in ToSet(registro_claves) : x.instancia \in Instancias /\ x.clave \in Claves
      <4>1. registro_claves \in Seq(EntradasRegistro)
        BY DEF InvRed, TypeOK
      <4>2. ToSet(registro_claves) \subseteq EntradasRegistro
        BY <4>1, LenProperties, ElementOfSeq DEF ToSet
      <4>. QED BY <4>2 DEF EntradasRegistro
    <3>. QED BY <1>1, <2>9, <3>1 DEF InvRed, Conocidas, Agregadas
  <2>13. UnPedidoEnCurso'
    <3>1. EnCurso(i)' = 0 + 1 + 0
      BY <1>1, <2>5, <2>6, <2>7, SinNada DEF EnCurso
    <3>2. \A j \in Instancias \ {i} : EnCurso(j)' = EnCurso(j)
      BY <1>1, <2>8 DEF EnCurso
    <3>. QED BY <1>1, <2>2, <3>1, <3>2 DEF InvRed, UnPedidoEnCurso
  <2>14. PedidoPropio'
    <3> SUFFICES ASSUME NEW j \in Instancias
                 PROVE  /\ aInstancia'[j] # <<>> =>
                              Head(aInstancia'[j]) = [head |-> oper.head, clave |-> oper.clave]
                        /\ deInstancia'[j] # <<>> => Propia(j, Head(deInstancia[j]))'
                        /\ semaforo[j] > 0 /\ conexion[j] = "escucha" =>
                              Propia(j, mensaje_instancia[j])'
      BY <1>1 DEF PedidoPropio
    <3>1. CASE j = i
      BY <1>1, <2>5, <2>6, <2>7, <2>10, <2>11, <3>1 DEF Propia
    <3>2. CASE j # i
      <4>1. aInstancia[j] = <<>> /\ deInstancia[j] = <<>> /\ semaforo[j] = 0
        BY <2>2, <3>2, NadaEnCurso
      <4>. QED BY <2>8, <3>2, <4>1
    <3>. QED BY <3>1, <3>2
  <2>15. LecturaPropia' /\ RespuestaEscuchada'
    BY <1>1, <2>2 DEF InvRed, LecturaPropia, RespuestaEscuchada
  <2>. QED BY <2>12, <2>13, <2>14, <2>15 DEF RedCoherente
<1>3. CASE InstanciaCerrar(i)
  <2>1. /\ aInstancia' = [aInstancia EXCEPT ![i] = <<>>]
        /\ UNCHANGED <<deInstancia, tabla>>
    BY <1>3 DEF InstanciaCerrar
  <2>2. \A j \in Instancias : aInstancia'[j] = aInstancia[j] \/ aInstancia'[j] = <<>>
    BY <2>1 DEF InvRed, TypeOK
  <2>3. Conocidas' /\ PedidoPropio' /\ LecturaPropia' /\ RespuestaEscuchada'
    BY <1>1, <2>1, <2>2
       DEF InvRed, Conocidas, Agregadas, PedidoPropio, LecturaPropia, RespuestaEscuchada, Propia
  <2>4. UnPedidoEnCurso'
    <3> SUFFICES ASSUME NEW j \in Instancias, EnCurso(j)' > 0
                 PROVE  EnCurso(j)' = 1 /\ j = n0 /\ oper.paso = "espera"
      BY <1>1 DEF UnPedidoEnCurso
    <3>1. /\ Len(aInstancia[j]) \in Nat /\ Len(deInstancia[j]) \in Nat /\ semaforo[j] \in Nat
          /\ Len(aInstancia'[j]) = Len(aInstancia[j]) \/ Len(aInstancia'[j]) = 0
      BY <2>2, SinNada, LenProperties DEF InvRed, TypeOK
    <3>2. EnCurso(j)' = Len(aInstancia'[j]) + Len(deInstancia[j]) + semaforo[j]
      BY <1>1, <2>1 DEF EnCurso
    <3>3. EnCurso(j) = Len(aInstancia[j]) + Len(deInstancia[j]) + semaforo[j]
      BY DEF EnCurso
    <3>4. \A a, b, c, d \in Nat :
              /\ d = a \/ d = 0
              /\ d + b + c > 0 /\ (a + b + c > 0 => a + b + c = 1)
              => a + b + c > 0 /\ d + b + c = 1
      OBVIOUS
    <3>5. EnCurso(j) > 0 /\ EnCurso(j)' = 1
      <4>1. EnCurso(j) > 0 => EnCurso(j) = 1
        BY DEF InvRed, UnPedidoEnCurso
      <4>2. Len(aInstancia'[j]) \in Nat /\ EnCurso(j)' > 0
        BY <3>1
      <4>3. Len(aInstancia'[j]) + Len(deInstancia[j]) + semaforo[j] > 0
        BY <3>2, <4>2
      <4>4. Len(aInstancia[j]) + Len(deInstancia[j]) + semaforo[j] > 0 =>
                Len(aInstancia[j]) + Len(deInstancia[j]) + semaforo[j] = 1
        BY <3>3, <4>1
      <4>5. /\ Len(aInstancia[j]) + Len(deInstancia[j]) + semaforo[j] > 0
            /\ Len(aInstancia'[j]) + Len(deInstancia[j]) + semaforo[j] = 1
        BY <3>1, <3>4, <4>2, <4>3, <4>4
      <4>. QED BY <3>2, <3>3, <4>5
    <3>. QED BY <3>5 DEF InvRed, UnPedidoEnCurso
  <2>. QED BY <2>3, <2>4 DEF RedCoherente
<1>. QED BY <1>2, <1>3

-----------------------------------------------------------------------------
\* An instance of the list has been added to it.
LEMMA DeLaLista ==
    ASSUME InvRed, NEW i \in ToSet(lista_instancias)
    PROVE  i \in Agregadas
BY DEF InvRed, ListaExacta, Agregadas, EnLista

\* What is known of the instances when the operation moves on and the registry
\* gets nothing new.
LEMMA ConocidasSigue ==
    ASSUME InvRed, UNCHANGED <<conexion, tabla>>,
           n0' = n0 \/ n0' = NULL \/ n0' \in Agregadas,
           ToSet(registro_claves') \subseteq ToSet(registro_claves)
    PROVE  Conocidas'
BY DEF InvRed, Conocidas, Agregadas

\* The choice of an instance: one of the list, or the one of the first entry.
LEMMA ElegidaConocida ==
    ASSUME InvRed,
           \/ OperElegirEL \/ OperElegirLSU \/ OperElegirKE
           \/ (OperBuscarRegistro /\ Entradas(oper.clave) # {})
    PROVE  oper'.paso = "enviar" /\ n0' \in Agregadas
<1>1. \A n : Elegir(n) => oper'.paso = "enviar" /\ n0' = n
  BY DEF Elegir, InvRed, InvDistribucion, Tipos, Operaciones, n0
<1>2. /\ lista_instancias \in Seq(Instancias) /\ Tipos
      /\ DOMAIN lista_instancias = 1..Len(lista_instancias) /\ Len(lista_instancias) \in Nat
      /\ lista_instancias # <<>> => Len(lista_instancias) \in Nat \ {0}
  BY LenProperties, EmptySeq DEF InvRed, InvDistribucion, Tipos
<1>3. CASE OperElegirEL
  <2>1. lista_instancias # <<>> /\ Elegir(Turno)
    BY <1>3 DEF OperElegirEL
  <2>2. (prox_instancia_a_seleccionar % Len(lista_instancias)) + 1 \in 1..Len(lista_instancias)
    BY <1>2, <2>1 DEF Tipos
  <2>3. Turno \in ToSet(lista_instancias)
    BY <1>2, <2>2 DEF Turno, ToSet
  <2>. QED BY <1>1, <2>1, <2>3, DeLaLista
<1>4. CASE OperElegirLSU
  <2>1. PICK s \in Ordenadas(lista_instancias) : Elegir(s[1])
    BY <1>4 DEF OperElegirLSU
  <2>2. s[1] \in ToSet(s)
    BY <1>2, <1>4, <2>1, OrdenadasTipo DEF OperElegirLSU
  <2>3. s[1] \in ToSet(lista_instancias)
    BY <1>2, <2>2, OrdenadasMismas
  <2>. QED BY <1>1, <2>1, <2>3, DeLaLista
<1>5. CASE OperElegirKE
  <2> DEFINE m == PosicionKE(Letra[oper.clave], Len(lista_instancias))
  <2>1. /\ oper.paso = "mutex" /\ LetraValida(oper.clave) /\ lista_instancias # <<>>
        /\ Elegir(lista_instancias[m + 1])
    BY <1>5 DEF OperElegirKE
  <2>2. Letra[oper.clave] \in 0..25
    <3>1. oper.clave \in Claves
      BY <2>1 DEF InvRed, InvDistribucion, OperCoherente
    <3>2. Letra[oper.clave] \in Nat
      BY <3>1, DistribucionAssumption
    <3>3. LetraValida(oper.clave)
      BY <2>1
    <3>. QED BY <3>2, <3>3 DEF LetraValida, CANTIDAD_DE_LETRAS
  <2>3. m \in 0..(Len(lista_instancias) - 1)
    BY <1>2, <2>1, <2>2, PosicionEnRango
  <2>4. m + 1 \in DOMAIN lista_instancias
    BY <1>2, <2>3
  <2>5. lista_instancias[m + 1] \in ToSet(lista_instancias)
    BY <2>4 DEF ToSet
  <2>. QED BY <1>1, <2>1, <2>5, DeLaLista
<1>6. CASE OperBuscarRegistro /\ Entradas(oper.clave) # {}
  <2>1. oper.paso = "registro" /\ Elegir(registro_claves[Primera(oper.clave)].instancia)
    BY <1>6 DEF OperBuscarRegistro
  <2>2. oper.clave \in Claves
    BY <2>1 DEF InvRed, InvDistribucion, OperCoherente
  <2>3. Primera(oper.clave) \in DOMAIN registro_claves
    BY <1>2, <1>6, <2>2, PrimeraReal, LenProperties DEF Tipos
  <2>4. registro_claves[Primera(oper.clave)].instancia \in Agregadas
    BY <2>3 DEF InvRed, Conocidas, ToSet
  <2>. QED BY <1>1, <2>1, <2>4
<1>. QED BY <1>3, <1>4, <1>5, <1>6

\* RemoveAt leaves nothing new.
LEMMA RemoveAtSubconjunto ==
    ASSUME NEW S, NEW l \in Seq(S), NEW n \in 1..Len(l)
    PROVE  ToSet(RemoveAt(l, n)) \subseteq ToSet(l)
<1>1. Len(l) \in Nat /\ n \in Nat /\ DOMAIN l = 1..Len(l)
  BY LenProperties
<1>2. /\ DOMAIN RemoveAt(l, n) = 1..(Len(l) - 1)
      /\ \A i \in 1..(Len(l) - 1) : RemoveAt(l, n)[i] = l[IF i < n THEN i ELSE i + 1]
  BY RemoveAtLugares
<1>3. \A i \in 1..(Len(l) - 1) : (IF i < n THEN i ELSE i + 1) \in 1..Len(l)
  BY <1>1
<1>. QED BY <1>1, <1>2, <1>3 DEF ToSet

\* The answer of a GET: the instance has the key that is registered.
LEMMA RedGuardada ==
    ASSUME InvRed, TypeOK', OperGuardada
    PROVE  RedCoherente'
<1> DEFINE x == [clave |-> oper.clave, instancia |-> n0]
<1>1. /\ oper.paso = "leer" /\ oper.head = "GET" /\ oper' = Libre
      /\ mensaje_instancia[n0] = "CLAVE_GUARDADA"
      /\ mensaje_instancia' = [mensaje_instancia EXCEPT ![n0] = "liberado"]
      /\ registro_claves' = Append(registro_claves, x)
      /\ UNCHANGED <<conexion, semaforo, red>>
  BY DEF OperGuardada, Leer, Cumplir
<1>2. n0 \in Instancias /\ oper.clave \in Claves /\ n0 # NULL
  BY <1>1, DistribucionAssumption DEF InvRed, InvDistribucion, OperCoherente, n0
<1>3. n0 \in Agregadas
  BY <1>2 DEF InvRed, Conocidas
<1>4. tabla[n0][oper.clave] # "nada"
  <2>1. conexion[n0] = "escucha"
    BY <1>1, <1>2 DEF InvRed, RespuestaEscuchada, Respuestas
  <2>. QED BY <1>1, <2>1 DEF InvRed, LecturaPropia, Propia
<1>5. ToSet(registro_claves') = ToSet(registro_claves) \cup {x}
  <2>1. registro_claves \in Seq(EntradasRegistro) /\ x \in EntradasRegistro
    BY <1>2 DEF InvRed, TypeOK, EntradasRegistro
  <2>. QED BY <1>1, <2>1, AgregarTipo
<1>6. n0' = NULL
  BY <1>1 DEF n0, Libre
<1>7. Conocidas'
  <2>1. tabla' = tabla /\ Agregadas' = Agregadas
    BY <1>1 DEF red, Agregadas
  <2>2. x.instancia \in Agregadas /\ tabla[x.instancia][x.clave] # "nada"
    BY <1>3, <1>4
  <2>3. \A y \in ToSet(registro_claves') :
            y.instancia \in Agregadas /\ tabla[y.instancia][y.clave] # "nada"
    BY <1>5, <2>2 DEF InvRed, Conocidas
  <2>. QED BY <1>6, <2>1, <2>3 DEF Conocidas
<1>. QED BY <1>1, <1>7, RedVacia DEF Libre

LEMMA RedAvanza ==
    ASSUME InvRed, TypeOK', OperAvanza
    PROVE  RedCoherente'
<1>1. CASE OperEnviar \/ OperEnviarALiberada \/ OperEsperar \/ OperGuardada
  BY <1>1, RedEnviar, RedEsperar, RedGuardada
<1>2. CASE \/ OperElegirEL \/ OperElegirLSU \/ OperElegirKE
           \/ (OperBuscarRegistro /\ Entradas(oper.clave) # {})
  <2>1. /\ oper.paso \in {"mutex", "registro"}
        /\ UNCHANGED <<registro_claves, hilos, red>>
    BY <1>2 DEF OperElegirEL, OperElegirLSU, OperElegirKE, OperBuscarRegistro
  <2>2. Conocidas'
    BY <1>2, <2>1, ElegidaConocida, ConocidasSigue DEF hilos, red
  <2>. QED BY <1>2, <2>1, <2>2, ElegidaConocida, RedVacia DEF hilos
<1>3. CASE \/ OperElegirDeVacia \/ OperLeerLiberado
           \/ (OperBuscarRegistro /\ Entradas(oper.clave) = {})
  <2>1. UNCHANGED <<oper, registro_claves, hilos, red>> /\ n0' = n0
    BY <1>3 DEF OperElegirDeVacia, OperLeerLiberado, OperBuscarRegistro, operacion, n0
  <2>. QED
    BY <2>1 DEF InvRed, RedCoherente, Conocidas, Agregadas, UnPedidoEnCurso, EnCurso,
                PedidoPropio, LecturaPropia, Propia, RespuestaEscuchada, hilos, red
<1>4. CASE OperMirarLista \/ OperLetraInvalida
  <2>1. /\ oper.paso \in {"algoritmo", "mutex"} /\ (Fallar \/ A("mutex"))
        /\ UNCHANGED <<registro_claves, hilos, red>>
    BY <1>4 DEF OperMirarLista, OperLetraInvalida
  <2>2. (n0' = n0 \/ n0' = NULL) /\ oper'.paso # "leer"
    BY <2>1 DEF Fallar, A, Libre, n0, InvRed, InvDistribucion, Tipos, Operaciones
  <2>. QED BY <2>1, <2>2, ConocidasSigue, RedVacia DEF hilos, red
<1>5. CASE OperSeteada \/ OperStoreada \/ OperRechazada
  <2>1. /\ oper.paso = "leer" /\ (oper' = Libre \/ A("quitar"))
        /\ UNCHANGED <<registro_claves, conexion, semaforo, red>>
        /\ mensaje_instancia' = [mensaje_instancia EXCEPT ![n0] = "liberado"]
    BY <1>5 DEF OperSeteada, OperStoreada, OperRechazada, Leer, Cumplir, Fallar
  <2>2. (n0' = n0 \/ n0' = NULL) /\ oper'.paso # "leer"
    BY <2>1 DEF A, Libre, n0, InvRed, InvDistribucion, Tipos, Operaciones
  <2>. QED BY <2>1, <2>2, ConocidasSigue, RedVacia DEF red
<1>6. CASE OperQuitar
  <2>1. /\ oper.paso = "quitar" /\ oper' = Libre
        /\ registro_claves' = RemoveAt(registro_claves, Primera(oper.clave))
        /\ UNCHANGED <<hilos, red>>
    BY <1>6 DEF OperQuitar, Cumplir
  <2>2. n0' = NULL /\ oper'.paso # "leer"
    BY <2>1 DEF Libre, n0
  <2>3. Primera(oper.clave) \in 1..Len(registro_claves)
    <3>1. oper.clave \in Claves /\ oper.esi \in Esis /\ dueno[oper.clave] = oper.esi
      BY <2>1 DEF InvRed, InvDistribucion, OperCoherente, OperDeDueno
    <3>2. Entradas(oper.clave) # {}
      BY <3>1, DistribucionAssumption DEF InvRed, InvDistribucion, DuenoRegistrado
    <3>. QED BY <3>1, <3>2, PrimeraReal DEF InvRed, InvDistribucion
  <2>4. ToSet(registro_claves') \subseteq ToSet(registro_claves)
    BY <2>1, <2>3, RemoveAtSubconjunto DEF InvRed, TypeOK
  <2>. QED BY <2>1, <2>2, <2>4, ConocidasSigue, RedVacia DEF hilos, red
<1>. QED BY <1>1, <1>2, <1>3, <1>4, <1>5, <1>6 DEF OperAvanza

\* The operation goes on without touching the list, but for LSU.
LEMMA ListaAvanza ==
    ASSUME InvRed, OperAvanza
    PROVE  ListaExacta'
<1>1. /\ UNCHANGED conexion
      /\ UNCHANGED lista_instancias \/ lista_instancias' \in Ordenadas(lista_instancias)
  BY DEF OperAvanza, OperMirarLista, OperElegirEL, OperElegirLSU, OperElegirKE,
         OperLetraInvalida, OperElegirDeVacia, OperBuscarRegistro, OperEnviar,
         OperEnviarALiberada, OperEsperar, OperLeerLiberado, OperGuardada, OperSeteada,
         OperStoreada, OperQuitar, OperRechazada, Leer, lista, hilos
<1>. QED BY <1>1, ListaDeOtros

\* Who asks for an operation or ends, and status, leave the network alone.
LEMMA RedAjena ==
    ASSUME InvRed, TypeOK',
           \/ Status \/ \E e \in Esis : EsiTermina(e)
           \/ \E e \in Esis, h \in Heads, k \in Claves : OperPedir(e, h, k)
    PROVE  ListaExacta' /\ RedCoherente'
<1>1. /\ UNCHANGED <<registro_claves, hilos, red>>
      /\ UNCHANGED lista_instancias \/ lista_instancias' \in Ordenadas(lista_instancias)
  BY DEF Status, StatusPedir, StatusTomarRegistro, StatusSinSeleccion, StatusResponder,
         EsiTermina, OperPedir, lista
<1>2. ListaExacta'
  BY <1>1, ListaDeOtros DEF hilos
<1>3. CASE UNCHANGED oper
  <2>1. n0' = n0
    BY <1>3 DEF n0
  <2>. QED
    BY <1>1, <1>2, <1>3, <2>1
       DEF InvRed, RedCoherente, Conocidas, Agregadas, UnPedidoEnCurso, EnCurso,
           PedidoPropio, LecturaPropia, Propia, RespuestaEscuchada, hilos, red
<1>4. CASE \E e \in Esis, h \in Heads, k \in Claves : OperPedir(e, h, k)
  <2>1. /\ oper = Libre /\ oper'.paso \in {"algoritmo", "registro"} /\ oper'.instancia = NULL
    BY <1>4 DEF OperPedir
  <2>2. n0' = NULL /\ oper.paso # "espera" /\ oper'.paso # "leer"
    BY <2>1 DEF n0, Libre
  <2>. QED BY <1>1, <1>2, <2>2, ConocidasSigue, RedVacia DEF hilos, red
<1>. QED
  BY <1>2, <1>3, <1>4
     DEF Status, StatusPedir, StatusTomarRegistro, StatusSinSeleccion, StatusResponder,
         EsiTermina, operacion

-----------------------------------------------------------------------------
LEMMA RedInicial == Init => InvRed
<1> SUFFICES ASSUME Init PROVE InvRed
  OBVIOUS
<1>1. InvDistribucion
  BY DistribucionInicial
<1>2. TypeOK
  BY <1>1, EmptySeq DEF Init, TypeOK, InvDistribucion, Tipos, Conexiones, EnTabla
<1>3. ToSet(<<>>) = {} /\ IsInjective(<<>>)
  BY DEF ToSet, IsInjective
<1>4. ListaExacta
  BY <1>3 DEF Init, ListaExacta
<1>5. Conocidas
  BY <1>3 DEF Init, Conocidas, n0, Libre
<1>6. UnPedidoEnCurso
  <2>1. \A i \in Instancias : EnCurso(i) = 0 + 0 + 0
    BY SinNada DEF Init, EnCurso
  <2>. QED BY <2>1 DEF UnPedidoEnCurso
<1>7. PedidoPropio /\ LecturaPropia
  BY DEF Init, PedidoPropio, LecturaPropia, Libre
<1>8. RespuestaEscuchada
  BY DistribucionAssumption DEF Init, RespuestaEscuchada
<1>. QED BY <1>1, <1>2, <1>4, <1>5, <1>6, <1>7, <1>8 DEF InvRed

LEMMA RedMantiene == InvRed /\ [Next]_vars => InvRed'
<1> SUFFICES ASSUME InvRed, [Next]_vars PROVE InvRed'
  OBVIOUS
<1>1. InvDistribucion'
  BY DistribucionMantiene DEF InvRed
<1>2. TypeOK'
  BY <1>1, TiposMantiene
<1>3. ListaExacta' /\ RedCoherente'
  <2>1. CASE UNCHANGED vars
    <3>1. n0' = n0
      BY <2>1 DEF vars, operacion, n0
    <3>. QED
      BY <2>1, <3>1
         DEF InvRed, RedCoherente, ListaExacta, Conocidas, Agregadas, UnPedidoEnCurso, EnCurso,
             PedidoPropio, LecturaPropia, Propia, RespuestaEscuchada, vars, lista, operacion,
             hilos, red
  <2>2. ASSUME NEW i \in Instancias, Escuchar(i) PROVE ListaExacta' /\ RedCoherente'
    BY <1>2, <2>2, ListaEscuchar, RedEscuchar
  <2>3. ASSUME NEW i \in Instancias, InstanciaResponder(i) \/ InstanciaCerrar(i)
        PROVE  ListaExacta' /\ RedCoherente'
    <3>1. UNCHANGED <<conexion, lista_instancias>>
      BY <2>3 DEF InstanciaResponder, InstanciaCerrar, lista, hilos
    <3>. QED BY <1>2, <2>3, <3>1, ListaDeOtros, RedInstancia
  <2>4. CASE OperAvanza
    BY <1>2, <2>4, ListaAvanza, RedAvanza
  <2>5. CASE \/ Status \/ \E e \in Esis : EsiTermina(e)
             \/ \E e \in Esis, h \in Heads, k \in Claves : OperPedir(e, h, k)
    BY <1>2, <2>5, RedAjena
  <2>. QED BY <2>1, <2>2, <2>3, <2>4, <2>5 DEF Next, Viva
<1>. QED BY <1>1, <1>2, <1>3 DEF InvRed, RedCoherente

-----------------------------------------------------------------------------
\* The Coordinador is still alive when it steps: a signal needs an empty list,
\* an entry that is not there, or a letter that is none.
LEMMA SenalMantiene == InvRed /\ SenalSinInstancias /\ [Next]_vars => SenalSinInstancias'
<1> SUFFICES ASSUME InvRed, SenalSinInstancias, [Next]_vars PROVE SenalSinInstancias'
  OBVIOUS
<1>1. CASE UNCHANGED vars
  BY <1>1 DEF SenalSinInstancias, vars, lista, LetraValida
<1>2. ASSUME OperAvanza, caida = "ninguna" PROVE SenalSinInstancias'
  <2>1. CASE OperElegirDeVacia
    BY <2>1 DEF OperElegirDeVacia, SenalSinInstancias, lista
  <2>2. CASE OperBuscarRegistro
    <3>1. oper.clave \in Claves /\ oper.esi \in Esis /\ dueno[oper.clave] = oper.esi
      BY <2>2 DEF OperBuscarRegistro, InvRed, InvDistribucion, OperCoherente, OperDeDueno
    <3>2. Entradas(oper.clave) # {}
      BY <3>1, DistribucionAssumption DEF InvRed, InvDistribucion, DuenoRegistrado
    <3>. QED BY <1>2, <2>2, <3>2 DEF OperBuscarRegistro, SenalSinInstancias
  <2>3. CASE ~OperElegirDeVacia /\ ~OperBuscarRegistro
    <3>1. caida' # "senal"
      BY <1>2, <2>3
         DEF OperAvanza, OperMirarLista, OperElegirEL, OperElegirLSU, OperElegirKE,
             OperLetraInvalida, OperEnviar, OperEnviarALiberada, OperEsperar, OperLeerLiberado,
             OperGuardada, OperSeteada, OperStoreada, OperQuitar, OperRechazada
    <3>. QED BY <3>1 DEF SenalSinInstancias
  <2>. QED BY <2>1, <2>2, <2>3
<1>3. ASSUME Status, caida = "ninguna" PROVE SenalSinInstancias'
  <2>1. CASE \E k \in Claves : StatusSinSeleccion(k)
    BY <2>1 DEF StatusSinSeleccion, SeleccionNula, SenalSinInstancias, lista, LetraValida
  <2>2. CASE ~\E k \in Claves : StatusSinSeleccion(k)
    <3>1. caida' # "senal"
      BY <1>3, <2>2 DEF Status, StatusPedir, StatusTomarRegistro, StatusResponder
    <3>. QED BY <3>1 DEF SenalSinInstancias
  <2>. QED BY <2>1, <2>2
<1>4. ASSUME NEW i \in Instancias, caida = "ninguna",
             Escuchar(i) \/ InstanciaResponder(i) \/ InstanciaCerrar(i)
      PROVE  SenalSinInstancias'
  <2>1. caida' # "senal"
    BY <1>4 DEF Escuchar, InstConectar, InstRecibirNombre, InstAgregar, InstRecibir,
                InstRecibirFin, InstDestruirFin, Destruir, InstQuitar, InstLiberar,
                InstanciaResponder, InstanciaCerrar
  <2>. QED BY <2>1 DEF SenalSinInstancias
<1>5. ASSUME NEW e \in Esis, caida = "ninguna",
             EsiTermina(e) \/ \E h \in Heads, k \in Claves : OperPedir(e, h, k)
      PROVE  SenalSinInstancias'
  <2>1. caida' # "senal"
    BY <1>5 DEF EsiTermina, OperPedir
  <2>. QED BY <2>1 DEF SenalSinInstancias
<1>. QED BY <1>1, <1>2, <1>3, <1>4, <1>5 DEF Next, Viva

-----------------------------------------------------------------------------
(* The turn of EL goes round the list: since the list changed the places   *)
(* from s up to the turn have been passed once more than the others.       *)
Vuelta == Len(lista_instancias)
Lugar == prox_instancia_a_seleccionar % Vuelta
Pasada(s, r, p) == IF s <= r THEN s <= p /\ p < r ELSE s <= p \/ p < r
Repartido(m, s) ==
    \A p \in 0..(Vuelta - 1) :
        repartidas[lista_instancias[p + 1]] = IF Pasada(s, Lugar, p) THEN m + 1 ELSE m
PorTurnos ==
    algoritmo = "EL" /\ lista_instancias # <<>> =>
        \E m \in Nat, s \in 0..(Vuelta - 1) : Repartido(m, s)

\* The place of the next turn.
LEMMA LugarSiguiente ==
    ASSUME NEW a \in Nat, NEW n \in Nat \ {0}
    PROVE  /\ a % n \in 0..(n - 1)
           /\ (a + 1) % n = IF (a % n) + 1 = n THEN 0 ELSE (a % n) + 1
<1>1. \A b \in Nat :
          b \div n \in Nat /\ b % n \in 0..(n - 1) /\ b = n * (b \div n) + (b % n)
  OBVIOUS
<1> DEFINE q == a \div n
           r == a % n
           t == (a + 1) \div n
           u == (a + 1) % n
<1>2. q \in Nat /\ r \in 0..(n - 1) /\ a = n * q + r
  BY <1>1
<1>3. t \in Nat /\ u \in 0..(n - 1) /\ a + 1 = n * t + u
  <2>1. a + 1 \in Nat
    OBVIOUS
  <2>. QED BY <1>1, <2>1
<1> HIDE DEF q, r, t, u
<1>4. t = q \/ t = q + 1
  <2>1. ASSUME t < q PROVE FALSE
    <3> DEFINE d == q - (t + 1)
    <3>1. d \in Nat /\ q = (t + 1) + d
      BY <1>2, <1>3, <2>1
    <3> HIDE DEF d
    <3>2. n * q = n * t + n + n * d /\ n * d \in Nat /\ n * t \in Nat
      BY <1>3, <3>1
    <3>. QED BY <1>2, <1>3, <3>2
  <2>2. ASSUME t > q + 1 PROVE FALSE
    <3> DEFINE d == t - (q + 2)
    <3>1. d \in Nat /\ t = (q + 2) + d
      BY <1>2, <1>3, <2>2
    <3> HIDE DEF d
    <3>2. n * t = n * q + n + n + n * d /\ n * d \in Nat /\ n * q \in Nat
      BY <1>2, <3>1
    <3>. QED BY <1>2, <1>3, <3>2
  <2>. QED BY <1>2, <1>3, <2>1, <2>2
<1>5. n * (q + 1) = n * q + n /\ n * q \in Nat
  BY <1>2
<1>6. u = IF r + 1 = n THEN 0 ELSE r + 1
  <2>1. CASE t = q
    BY <1>2, <1>3, <1>5, <2>1
  <2>2. CASE t = q + 1
    BY <1>2, <1>3, <1>5, <2>2
  <2>. QED BY <1>4, <2>1, <2>2
<1>. QED BY <1>2, <1>6 DEF r, u

\* The list is new: nobody has been given any key.
LEMMA TurnosDeCero ==
    ASSUME TypeOK', repartidas' = [i \in Instancias |-> 0]
    PROVE  PorTurnos'
<1> SUFFICES ASSUME lista_instancias' # <<>>
             PROVE  \E m \in Nat, s \in 0..(Vuelta' - 1) :
                       \A p \in 0..(Vuelta' - 1) :
                          repartidas'[lista_instancias'[p + 1]] =
                             IF Pasada(s, Lugar', p) THEN m + 1 ELSE m
  BY DEF PorTurnos, Repartido
<1>1. Vuelta' \in Nat \ {0} /\ prox_instancia_a_seleccionar' \in Nat
  BY EmptySeq, LenProperties DEF TypeOK, Vuelta
<1>2. Lugar' \in 0..(Vuelta' - 1)
  BY <1>1, LugarSiguiente DEF Lugar
<1>3. ASSUME NEW p \in 0..(Vuelta' - 1)
      PROVE  repartidas'[lista_instancias'[p + 1]] = 0 /\ ~Pasada(Lugar', Lugar', p)
  <2>1. p + 1 \in 1..Len(lista_instancias')
    BY <1>1, <1>3 DEF Vuelta
  <2>2. lista_instancias'[p + 1] \in Instancias
    BY <2>1, ElementOfSeq DEF TypeOK
  <2>. QED BY <1>1, <1>2, <2>2 DEF Pasada
<1>. QED BY <1>2, <1>3

\* distribuirPorEL: the one of the turn gets a key and the turn moves on.
LEMMA TurnosElegir ==
    ASSUME InvRed, PorTurnos, OperElegirEL
    PROVE  PorTurnos'
<1> DEFINE n == Vuelta
           r == Lugar
<1>1. /\ algoritmo = "EL" /\ lista_instancias # <<>> /\ UNCHANGED lista_instancias
      /\ prox_instancia_a_seleccionar' = prox_instancia_a_seleccionar + 1
      /\ repartidas' = [repartidas EXCEPT ![Turno] = @ + 1]
  BY DEF OperElegirEL
<1>2. n \in Nat \ {0} /\ n' = n /\ prox_instancia_a_seleccionar \in Nat
  BY <1>1, EmptySeq, LenProperties DEF InvRed, TypeOK, Vuelta
<1>3. r \in 0..(n - 1) /\ Lugar' = IF r + 1 = n THEN 0 ELSE r + 1
  BY <1>1, <1>2, LugarSiguiente DEF Lugar, Vuelta
<1>4. PICK m \in Nat, s \in 0..(n - 1) : Repartido(m, s)
  BY <1>1 DEF PorTurnos
<1>5. Turno = lista_instancias[r + 1]
  BY DEF Turno, Lugar, Vuelta
<1>6. ASSUME NEW p \in 0..(n - 1)
      PROVE  /\ repartidas'[lista_instancias'[p + 1]] =
                   IF p = r \/ Pasada(s, r, p) THEN m + 1 ELSE m
  <2>1. p + 1 \in DOMAIN lista_instancias /\ r + 1 \in DOMAIN lista_instancias
    BY <1>2, <1>3, LenProperties DEF InvRed, TypeOK, Vuelta
  <2>2. lista_instancias[p + 1] \in Instancias
    BY <2>1, ElementOfSeq, LenProperties DEF InvRed, TypeOK
  <2>3. lista_instancias[p + 1] = Turno <=> p = r
    <3>1. lista_instancias[p + 1] = lista_instancias[r + 1] => p + 1 = r + 1
      BY <2>1 DEF InvRed, ListaExacta, IsInjective
    <3>. QED BY <1>2, <1>3, <1>5, <3>1
  <2>4. repartidas[lista_instancias[p + 1]] = IF Pasada(s, r, p) THEN m + 1 ELSE m
    BY <1>4 DEF Repartido
  <2>5. ~Pasada(s, r, r)
    BY <1>2, <1>3, <1>4 DEF Pasada
  <2>6. repartidas'[lista_instancias[p + 1]] =
            IF p = r THEN repartidas[lista_instancias[p + 1]] + 1
                     ELSE repartidas[lista_instancias[p + 1]]
    BY <1>1, <2>2, <2>3 DEF InvRed, TypeOK
  <2>. QED BY <1>1, <2>4, <2>5, <2>6
<1> HIDE DEF n, r
<1>7. CASE Lugar' = s
  <2>1. \A p \in 0..(n - 1) : (p = r \/ Pasada(s, r, p)) /\ ~Pasada(s, Lugar', p)
    BY <1>2, <1>3, <1>4, <1>7 DEF Pasada
  <2>2. m + 1 \in Nat /\ \A p \in 0..(n' - 1) :
            repartidas'[lista_instancias'[p + 1]] =
               IF Pasada(s, Lugar', p) THEN (m + 1) + 1 ELSE m + 1
    BY <1>2, <1>6, <2>1
  <2>. QED BY <1>2, <1>4, <2>2 DEF PorTurnos, Repartido, n
<1>8. CASE Lugar' # s
  <2>1. \A p \in 0..(n - 1) : (p = r \/ Pasada(s, r, p)) <=> Pasada(s, Lugar', p)
    BY <1>2, <1>3, <1>4, <1>8 DEF Pasada
  <2>2. \A p \in 0..(n' - 1) :
            repartidas'[lista_instancias'[p + 1]] =
               IF Pasada(s, Lugar', p) THEN m + 1 ELSE m
    BY <1>2, <1>6, <2>1
  <2>. QED BY <1>2, <1>4, <2>2 DEF PorTurnos, Repartido, n
<1>. QED BY <1>7, <1>8

LEMMA TurnosMantiene == InvRed /\ PorTurnos /\ [Next]_vars => PorTurnos'
<1> SUFFICES ASSUME InvRed, PorTurnos, [Next]_vars PROVE PorTurnos'
  OBVIOUS
<1>1. TypeOK'
  BY RedMantiene DEF InvRed
<1>2. \/ UNCHANGED <<algoritmo, lista>>
      \/ algoritmo' = "LSU"
      \/ repartidas' = [i \in Instancias |-> 0]
      \/ OperElegirEL
      \/ UNCHANGED <<algoritmo, lista_instancias, prox_instancia_a_seleccionar, repartidas>>
  <2>1. CASE UNCHANGED vars
    BY <2>1 DEF vars
  <2>2. ASSUME NEW i \in Instancias, Escuchar(i) \/ InstanciaResponder(i) \/ InstanciaCerrar(i)
        PROVE  \/ UNCHANGED <<algoritmo, lista>> \/ repartidas' = [j \in Instancias |-> 0]
    BY <2>2 DEF Escuchar, InstConectar, InstRecibirNombre, InstAgregar, InstRecibir,
                InstRecibirFin, InstDestruirFin, InstQuitar, InstLiberar, Repartir,
                InstanciaResponder, InstanciaCerrar
  <2>3. ASSUME NEW e \in Esis,
               EsiTermina(e) \/ \E h \in Heads, k \in Claves : OperPedir(e, h, k)
        PROVE  UNCHANGED <<algoritmo, lista>>
    BY <2>3 DEF EsiTermina, OperPedir
  <2>4. CASE Status
    <3>1. \/ UNCHANGED <<algoritmo, lista>> \/ algoritmo' = "LSU"
          \/ UNCHANGED <<algoritmo, lista_instancias, prox_instancia_a_seleccionar, repartidas>>
      BY <2>4 DEF Status, StatusPedir, StatusTomarRegistro, StatusSinSeleccion,
                  StatusResponder, lista
    <3>. QED BY <3>1
  <2>5. CASE OperAvanza
    <3>1. \/ OperElegirEL \/ algoritmo' = "LSU"
          \/ UNCHANGED <<algoritmo, lista_instancias, prox_instancia_a_seleccionar, repartidas>>
      BY <2>5 DEF OperAvanza, OperMirarLista, OperElegirLSU, OperElegirKE,
                  OperLetraInvalida, OperElegirDeVacia, OperBuscarRegistro, OperEnviar,
                  OperEnviarALiberada, OperEsperar, OperLeerLiberado, OperGuardada, OperSeteada,
                  OperStoreada, OperQuitar, OperRechazada, lista
    <3>. QED BY <3>1
  <2>. QED BY <2>1, <2>2, <2>3, <2>4, <2>5 DEF Next, Viva
<1>3. ASSUME UNCHANGED <<algoritmo, lista_instancias, prox_instancia_a_seleccionar, repartidas>>
      PROVE  PorTurnos'
  BY <1>3 DEF PorTurnos, Repartido, Vuelta, Lugar
<1>4. algoritmo' = "LSU" => PorTurnos'
  BY DEF PorTurnos
<1>. QED BY <1>1, <1>2, <1>3, <1>4, TurnosDeCero, TurnosElegir DEF lista

\* No place of the list has been passed twice more than another.
LEMMA TurnosReparten == InvRed /\ PorTurnos => ELEquitativo
<1> SUFFICES ASSUME InvRed, PorTurnos, algoritmo = "EL",
                    NEW i \in ToSet(lista_instancias), NEW j \in ToSet(lista_instancias)
             PROVE  repartidas[i] <= repartidas[j] + 1
  BY DEF ELEquitativo
<1>1. /\ DOMAIN lista_instancias = 1..Vuelta /\ Vuelta \in Nat
      /\ lista_instancias # <<>>
  BY LenProperties DEF InvRed, TypeOK, Vuelta, ToSet
<1>2. PICK m \in Nat, s \in 0..(Vuelta - 1) : Repartido(m, s)
  BY <1>1 DEF PorTurnos
<1>3. ASSUME NEW x \in ToSet(lista_instancias) PROVE repartidas[x] \in {m, m + 1}
  <2>1. PICK p \in 1..Vuelta : lista_instancias[p] = x
    BY <1>1 DEF ToSet
  <2>2. p - 1 \in 0..(Vuelta - 1) /\ (p - 1) + 1 = p
    BY <1>1
  <2>3. repartidas[lista_instancias[(p - 1) + 1]] \in {m, m + 1}
    BY <1>2, <2>2 DEF Repartido
  <2>. QED BY <2>1, <2>2, <2>3
<1>4. repartidas[i] \in {m, m + 1} /\ repartidas[j] \in {m, m + 1}
  BY <1>3
<1>. QED BY <1>2, <1>4

-----------------------------------------------------------------------------
\* The list is the instances whose threads have added them and not taken them
\* out, once each, whoever connects, leaves or sorts it meanwhile.
THEOREM DistribucionLista == Spec => []ListaExacta
<1>1. InvRed => ListaExacta
  BY DEF InvRed
<1>. QED BY <1>1, RedInicial, RedMantiene, PTL DEF Spec

\* No answer is left over for a later operation, so the one an operation reads
\* from an instance that is still listened to is to its own request.
THEOREM DistribucionRespuesta == Spec => []RespuestaPropia
<1>1. InvRed => RespuestaPropia
  BY DEF InvRed, LecturaPropia, Propia, RespuestaPropia
<1>. QED BY <1>1, RedInicial, RedMantiene, PTL DEF Spec

\* An entry of the registry sends its key to an instance that answered its GET.
THEOREM DistribucionTabla == Spec => []RegistroEnTabla
<1>1. InvRed => RegistroEnTabla
  BY DEF InvRed, Conocidas, RegistroEnTabla, ToSet
<1>. QED BY <1>1, RedInicial, RedMantiene, PTL DEF Spec

\* The types of the Coordinador and of its instances.
THEOREM DistribucionTipos == Spec => []TypeOK
<1>1. InvRed => TypeOK
  BY DEF InvRed
<1>. QED BY <1>1, RedInicial, RedMantiene, PTL DEF Spec

\* A signal ends the Coordinador only without instances or, in KE, for a key
\* without a letter.
THEOREM DistribucionSenal == Spec => []SenalSinInstancias
<1>1. Init => SenalSinInstancias
  BY DEF Init, SenalSinInstancias
<1>. QED BY <1>1, RedInicial, RedMantiene, SenalMantiene, PTL DEF Spec

\* "Equitative Load": while the list does not change, no instance is given two
\* keys more than another.
THEOREM DistribucionEL == Spec => []ELEquitativo
<1>1. Init => PorTurnos
  BY DEF Init, PorTurnos
<1>. QED BY <1>1, RedInicial, RedMantiene, TurnosMantiene, TurnosReparten, PTL DEF Spec
=============================================================================
