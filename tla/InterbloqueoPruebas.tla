------------------------- MODULE InterbloqueoPruebas -------------------------
(***************************************************************************)
(* For any ESIs, keys, list and distribution of the keys: the search of    *)
(* deadlock is right about every ESI it reports, and, when no key has two  *)
(* owners, about every ESI it clears.                                      *)
(***************************************************************************)
EXTENDS Interbloqueo, TLAPS

(* Every ESI of the path waits for a key of the next one, and every set of *)
(* ESIs that wait for one another has the whole path if it has its first.  *)
Encadenado ==
    \A i \in 1..Len(camino) - 1 : Posee(camino[i + 1], clave_bloqueante[camino[i]])

Alcanzados ==
    UnicoDueno =>
        \A D \in SUBSET Elementos(bloqueados) :
            Trabados(D, Duenos) /\ camino # <<>> /\ camino[1] \in D => Elementos(camino) \subseteq D

CaminoEnLista == Elementos(camino) \subseteq Elementos(bloqueados)

InvBusqueda ==
    /\ TypeOK /\ CaminoSinRepetir /\ CaminoEnLista
    /\ Encadenado /\ Alcanzados
    /\ VeredictoVeraz /\ VeredictoCompleto

-----------------------------------------------------------------------------
\* The last of a path is one of its elements.
LEMMA UltimoEsElemento ==
    ASSUME NEW S, NEW s \in Seq(S), s # <<>>
    PROVE  /\ Len(s) \in 1..Len(s) /\ Ultimo(s) \in Elementos(s) /\ Ultimo(s) \in S
           /\ Head(s) = s[1] /\ 1 \in 1..Len(s)
BY DEF Ultimo, Elementos

\* Appending adds one element.
LEMMA ElementosAppend ==
    ASSUME NEW S, NEW s \in Seq(S), NEW x \in S
    PROVE  /\ Elementos(Append(s, x)) = Elementos(s) \cup {x}
           /\ x \notin Elementos(s) /\ SinRepetidos(s) => SinRepetidos(Append(s, x))
<1> DEFINE t == Append(s, x)
<1>1. /\ t \in Seq(S) /\ Len(t) = Len(s) + 1 /\ Len(s) \in Nat
      /\ DOMAIN t = 1..Len(s) + 1 /\ DOMAIN s = 1..Len(s)
  OBVIOUS
<1>2. t[Len(s) + 1] = x /\ \A i \in 1..Len(s) : t[i] = s[i]
  OBVIOUS
<1> HIDE DEF t
<1>3. Elementos(t) = Elementos(s) \cup {x}
  <2>1. \A i \in DOMAIN t : t[i] \in Elementos(s) \cup {x}
    BY <1>1, <1>2 DEF Elementos
  <2>2. \A i \in DOMAIN s : i \in DOMAIN t /\ s[i] = t[i]
    BY <1>1, <1>2
  <2>3. Len(s) + 1 \in DOMAIN t
    BY <1>1
  <2>. QED BY <1>2, <2>1, <2>2, <2>3 DEF Elementos
<1>4. x \notin Elementos(s) /\ SinRepetidos(s) => SinRepetidos(t)
  <2> SUFFICES ASSUME x \notin Elementos(s), SinRepetidos(s),
                      NEW i \in DOMAIN t, NEW j \in DOMAIN t, t[i] = t[j]
               PROVE  i = j
    BY DEF SinRepetidos
  <2>1. \A k \in DOMAIN t : k = Len(s) + 1 \/ k \in DOMAIN s
    BY <1>1
  <2>2. \A k \in DOMAIN s : s[k] # x
    BY DEF Elementos
  <2>. QED BY <1>1, <1>2, <2>1, <2>2 DEF SinRepetidos
<1>. QED BY <1>3, <1>4 DEF t

\* buscar_deadlock_para_un_esi, "esta en deadlock": the path has met itself, so
\* that its ESIs wait for one another.
LEMMA RepetidoTraba ==
    ASSUME InvBusqueda, camino # <<>>, NEW i \in DOMAIN bloqueados,
           EsElBloqueante(i, Ultimo(camino)), bloqueados[i] \in Elementos(camino)
    PROVE  Head(camino) \in Interbloqueados(Duenos)
<1> DEFINE D == Elementos(camino)
<1>1. camino \in Seq(Esis) /\ bloqueados \in Seq(Esis)
  BY DEF InvBusqueda, TypeOK
<1>2. D \subseteq DOMAIN Duenos /\ D \subseteq Esis
  <2>1. D \subseteq Elementos(bloqueados)
    BY DEF InvBusqueda, CaminoEnLista
  <2>2. D \subseteq Esis
    BY <1>1 DEF Elementos
  <2>. QED BY <2>1, <2>2 DEF Duenos
<1>3. \A e \in D : D \cap Duenos[e] # {}
  <2> SUFFICES ASSUME NEW j \in 1..Len(camino)
               PROVE  \E f \in D : f \in Duenos[camino[j]]
    BY <1>1 DEF Elementos
  <2>0. camino[j] \in Elementos(bloqueados)
    <3>1. camino[j] \in Elementos(camino)
      BY <1>1 DEF Elementos
    <3>. QED BY <3>1 DEF InvBusqueda, CaminoEnLista
  <2>1. CASE j < Len(camino)
    <3>1. camino[j + 1] \in D /\ Posee(camino[j + 1], clave_bloqueante[camino[j]])
      BY <1>1, <2>1 DEF InvBusqueda, Encadenado, Elementos
    <3>. QED BY <1>2, <2>0, <3>1 DEF Duenos
  <2>2. CASE j = Len(camino)
    <3>1. Posee(bloqueados[i], clave_bloqueante[camino[j]])
      BY <2>2 DEF EsElBloqueante, Bloqueantes, Ultimo
    <3>. QED BY <1>2, <2>0, <3>1 DEF Duenos
  <2>. QED BY <1>1, <2>1, <2>2
<1>4. Head(camino) \in D
  BY <1>1, UltimoEsElemento DEF Elementos
<1>. QED BY <1>2, <1>3, <1>4 DEF Interbloqueados, Trabados

\* "NO esta en deadlock": the path ends at an ESI that waits for no blocked one.
LEMMA SinBloqueanteLibera ==
    ASSUME InvBusqueda, UnicoDueno, camino # <<>>, Bloqueantes(Ultimo(camino)) = {}
    PROVE  Head(camino) \notin Interbloqueados(Duenos)
<1> SUFFICES ASSUME NEW D \in SUBSET DOMAIN Duenos, Trabados(D, Duenos), Head(camino) \in D
             PROVE  FALSE
  BY DEF Interbloqueados
<1>1. camino \in Seq(Esis) /\ bloqueados \in Seq(Esis)
  BY DEF InvBusqueda, TypeOK
<1>2. D \subseteq Elementos(bloqueados)
  BY DEF Duenos
<1>3. Ultimo(camino) \in D
  BY <1>1, <1>2, UltimoEsElemento DEF InvBusqueda, Alcanzados
<1>4. PICK f \in D : f \in Duenos[Ultimo(camino)]
  BY <1>3 DEF Trabados
<1>5. Posee(f, clave_bloqueante[Ultimo(camino)]) /\ f \in Elementos(bloqueados)
  BY <1>2, <1>3, <1>4 DEF Duenos
<1>. QED BY <1>5 DEF Bloqueantes, Elementos

\* Following the owner keeps the path what the invariant says.
LEMMA SeguirMantiene ==
    ASSUME InvBusqueda, Seguir
    PROVE  InvBusqueda'
<1>1. PICK i \in DOMAIN bloqueados :
          /\ EsElBloqueante(i, Ultimo(camino))
          /\ bloqueados[i] \notin Elementos(camino)
          /\ camino' = Append(camino, bloqueados[i])
  BY DEF Seguir
<1> DEFINE x == bloqueados[i]
<1>2. camino \in Seq(Esis) /\ camino # <<>> /\ x \in Esis /\ x \in Elementos(bloqueados)
  BY DEF InvBusqueda, TypeOK, Seguir, Elementos
<1>3. UNCHANGED <<bloqueados, claves_bloqueadas, clave_bloqueante, indice, veredicto>>
  BY DEF Seguir, varsListas
<1>4. Elementos(camino)' = Elementos(camino) \cup {x} /\ CaminoSinRepetir'
  BY <1>1, <1>2, ElementosAppend DEF InvBusqueda, CaminoSinRepetir
<1>5. Posee(x, clave_bloqueante[Ultimo(camino)])
  BY <1>1 DEF EsElBloqueante, Bloqueantes
<1>6. TypeOK'
  BY <1>1, <1>2, <1>3 DEF InvBusqueda, TypeOK
<1>7. CaminoEnLista'
  BY <1>2, <1>3, <1>4 DEF InvBusqueda, CaminoEnLista
<1>8. Encadenado'
  BY <1>1, <1>2, <1>3, <1>5 DEF InvBusqueda, Encadenado, Ultimo, Posee
<1>9. Duenos' = Duenos /\ UnicoDueno' = UnicoDueno
  BY <1>3 DEF Duenos, UnicoDueno, Posee
<1>10. Alcanzados'
  <2> SUFFICES ASSUME UnicoDueno, NEW D \in SUBSET Elementos(bloqueados),
                      Trabados(D, Duenos), camino'[1] \in D
               PROVE  x \in D /\ Elementos(camino) \subseteq D
    BY <1>3, <1>4, <1>9 DEF Alcanzados
  <2>1. camino'[1] = camino[1]
    BY <1>1, <1>2
  <2>2. Elementos(camino) \subseteq D
    BY <1>2, <2>1 DEF InvBusqueda, Alcanzados
  <2>3. Ultimo(camino) \in D
    BY <1>2, <2>2, UltimoEsElemento
  <2>4. PICK f \in D : f \in Duenos[Ultimo(camino)]
    BY <2>3 DEF Trabados
  <2>5. f \in Esis /\ Posee(f, clave_bloqueante[Ultimo(camino)])
    BY <2>3, <2>4 DEF Duenos
  <2>6. f = x
    BY <1>2, <1>5, <2>5 DEF UnicoDueno, Posee
  <2>. QED BY <2>2, <2>6
<1>11. VeredictoVeraz' /\ VeredictoCompleto'
  BY <1>3, <1>9 DEF InvBusqueda, VeredictoVeraz, VeredictoCompleto
<1>. QED BY <1>4, <1>6, <1>7, <1>8, <1>10, <1>11 DEF InvBusqueda

\* A verdict that is right of the first of the path keeps the invariant.
LEMMA ConcluirMantiene ==
    ASSUME InvBusqueda, NEW v \in {"deadlock", "libre"}, camino # <<>>, Concluir(v),
           v = "deadlock" => Head(camino) \in Interbloqueados(Duenos),
           v = "libre" /\ UnicoDueno => Head(camino) \notin Interbloqueados(Duenos)
    PROVE  InvBusqueda'
<1>1. camino \in Seq(Esis) /\ veredicto \in [Esis -> Veredictos]
  BY DEF InvBusqueda, TypeOK
<1>2. Head(camino) \in Esis
  BY <1>1
<1>3. /\ veredicto' = [veredicto EXCEPT ![Head(camino)] = v]
      /\ camino' = <<>>
      /\ UNCHANGED <<bloqueados, claves_bloqueadas, clave_bloqueante, indice>>
  BY DEF Concluir, varsListas
<1>4. TypeOK'
  BY <1>1, <1>2, <1>3 DEF InvBusqueda, TypeOK, Veredictos
<1>5. Duenos' = Duenos /\ UnicoDueno' = UnicoDueno
  BY <1>3 DEF Duenos, UnicoDueno, Posee
<1>6. (CaminoSinRepetir /\ CaminoEnLista /\ Encadenado /\ Alcanzados)'
  BY <1>3 DEF CaminoSinRepetir, SinRepetidos, CaminoEnLista, Elementos, Encadenado, Alcanzados
<1>7. \A e \in Esis : veredicto'[e] = IF e = Head(camino) THEN v ELSE veredicto[e]
  BY <1>1, <1>2, <1>3
<1>8. VeredictoVeraz'
  BY <1>5, <1>7 DEF InvBusqueda, VeredictoVeraz
<1>9. VeredictoCompleto'
  BY <1>5, <1>7 DEF InvBusqueda, VeredictoCompleto
<1>. QED BY <1>4, <1>6, <1>8, <1>9 DEF InvBusqueda

-----------------------------------------------------------------------------
LEMMA BusquedaInicial == Init => InvBusqueda
<1> SUFFICES ASSUME Init PROVE InvBusqueda
  OBVIOUS
<1>1. PICK n \in Nat : bloqueados \in [1..n -> Esis]
  BY DEF Init
<1>2. bloqueados \in Seq(Esis) /\ Len(bloqueados) = n
  BY <1>1
<1>3. TypeOK
  BY <1>2 DEF Init, TypeOK, Veredictos
<1>4. CaminoSinRepetir /\ CaminoEnLista /\ Encadenado /\ Alcanzados
  BY DEF Init, CaminoSinRepetir, SinRepetidos, CaminoEnLista, Elementos, Encadenado, Alcanzados
<1>5. VeredictoVeraz /\ VeredictoCompleto
  BY DEF Init, VeredictoVeraz, VeredictoCompleto
<1>. QED BY <1>3, <1>4, <1>5 DEF InvBusqueda

LEMMA BusquedaMantiene == InvBusqueda /\ [Next]_vars => InvBusqueda'
<1> SUFFICES ASSUME InvBusqueda, [Next]_vars PROVE InvBusqueda'
  OBVIOUS
<1>1. CASE EmpezarBusqueda
  <2>1. /\ camino' = <<bloqueados[indice + 1]>> /\ indice + 1 \in DOMAIN bloqueados
        /\ indice' = indice + 1
        /\ UNCHANGED <<bloqueados, claves_bloqueadas, clave_bloqueante, veredicto>>
    BY <1>1 DEF EmpezarBusqueda, varsListas, InvBusqueda, TypeOK
  <2>2. bloqueados[indice + 1] \in Esis
    BY <2>1 DEF InvBusqueda, TypeOK
  <2>3. TypeOK'
    BY <2>1, <2>2 DEF InvBusqueda, TypeOK
  <2>4. Elementos(camino)' = {bloqueados[indice + 1]}
    BY <2>1 DEF Elementos
  <2>5. (CaminoSinRepetir /\ CaminoEnLista /\ Encadenado)'
    BY <2>1, <2>4 DEF CaminoSinRepetir, SinRepetidos, CaminoEnLista, Elementos, Encadenado
  <2>6. Alcanzados'
    BY <2>1, <2>4 DEF Alcanzados
  <2>7. Duenos' = Duenos /\ UnicoDueno' = UnicoDueno
    BY <2>1 DEF Duenos, UnicoDueno, Posee
  <2>8. (VeredictoVeraz /\ VeredictoCompleto)'
    BY <2>1, <2>7 DEF InvBusqueda, VeredictoVeraz, VeredictoCompleto
  <2>. QED BY <2>3, <2>5, <2>6, <2>8 DEF InvBusqueda
<1>2. CASE Seguir
  BY <1>2, SeguirMantiene
<1>3. CASE Repetido
  BY <1>3, RepetidoTraba, ConcluirMantiene DEF Repetido
<1>4. CASE SinBloqueante
  BY <1>4, SinBloqueanteLibera, ConcluirMantiene DEF SinBloqueante
<1>5. CASE UNCHANGED vars
  <2>1. UNCHANGED <<bloqueados, claves_bloqueadas, clave_bloqueante, indice, camino, veredicto>>
    BY <1>5 DEF vars, varsListas
  <2>2. Duenos' = Duenos /\ UnicoDueno' = UnicoDueno
    BY <2>1 DEF Duenos, UnicoDueno, Posee
  <2>. QED
    BY <2>1, <2>2 DEF InvBusqueda, TypeOK, CaminoSinRepetir, CaminoEnLista, Encadenado, Posee,
                      Alcanzados, VeredictoVeraz, VeredictoCompleto
<1>. QED BY <1>1, <1>2, <1>3, <1>4, <1>5 DEF Next, buscar_deadlock, Fin

\* The lists, the path and the verdicts of the command deadlock have their types.
THEOREM DeadlockTipos == Spec => []TypeOK
<1>1. InvBusqueda => TypeOK
  BY DEF InvBusqueda
<1>. QED BY <1>1, BusquedaInicial, BusquedaMantiene, PTL DEF Spec

\* The command deadlock: who is reported waits for ESIs that wait for one another
\* and, when no key has two owners, who is cleared does not.
THEOREM DeadlockCorrecto == Spec => []VeredictoCorrecto
<1>1. InvBusqueda => VeredictoCorrecto
  BY DEF InvBusqueda, VeredictoCorrecto
<1>. QED BY <1>1, BusquedaInicial, BusquedaMantiene, PTL DEF Spec

\* The path of the search never holds an ESI twice.
THEOREM DeadlockSinVueltas == Spec => []CaminoSinRepetir
<1>1. InvBusqueda => CaminoSinRepetir
  BY DEF InvBusqueda
<1>. QED BY <1>1, BusquedaInicial, BusquedaMantiene, PTL DEF Spec
=============================================================================
