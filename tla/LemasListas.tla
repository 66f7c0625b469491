----------------------------- MODULE LemasListas -----------------------------
(***************************************************************************)
(* What appending to a list and taking out of it give, for lists of any    *)
(* length: list_add and list_remove_by_condition of the commons.  And      *)
(* induction and recursion, for lists of numbers.                          *)
(***************************************************************************)
EXTENDS Integers, SequencesExt, SequenceTheorems, NaturalsInduction,
        WellFoundedInduction, TLAPS

\* A non-empty set of naturals has a least element: Min is well defined.
LEMMA HayMinimo ==
    ASSUME NEW T, T \subseteq Nat, T # {}
    PROVE  \E x \in T : \A y \in T : x <= y
<1> DEFINE R == {p \in Nat \X Nat : p[1] < p[2]}
<1>1. IsWellFoundedOn(R, Nat)
  BY NatLessThanWellFounded DEF OpToRel
<1> HIDE DEF R
<1>2. PICK x \in T : \A y \in T : ~ (<<y, x>> \in R)
  BY <1>1, WFMin
<1>3. \A y \in T : <<y, x>> \in Nat \X Nat /\ ~(<<y, x>>[1] < <<y, x>>[2])
  BY <1>2 DEF R
<1>4. \A y \in T : x \in Nat /\ y \in Nat /\ ~(y < x)
  BY <1>3
<1>. QED BY <1>4

\* list_remove_by_condition of an element that is there takes out one place.
LEMMA SacarPresente ==
    ASSUME NEW S, NEW lista \in Seq(S), NEW x \in ToSet(lista)
    PROVE  \E n \in 1..Len(lista) : lista[n] = x /\ RemoveFirst(lista, x) = RemoveAt(lista, n)
<1> DEFINE P == {i \in 1..Len(lista) : lista[i] = x}
           n == Min(P)
<1>1. P # {} /\ P \subseteq Nat
  BY DEF ToSet
<1>2. n \in P
  BY <1>1, HayMinimo DEF Min
<1>3. RemoveFirst(lista, x) = RemoveAt(lista, SelectInSeq(lista, LAMBDA v : v = x))
  BY <1>1 DEF RemoveFirst
<1>4. SelectInSeq(lista, LAMBDA v : v = x) = n
  BY <1>1 DEF SelectInSeq
<1>. QED BY <1>2, <1>3, <1>4

\* Taking out an absent element changes nothing.
LEMMA SacarAusente ==
    ASSUME NEW S, NEW lista \in Seq(S), NEW x, x \notin ToSet(lista)
    PROVE  RemoveFirst(lista, x) = lista
BY DEF RemoveFirst, ToSet

\* RemoveAt keeps the type and takes one place out.
LEMMA RemoveAtTipo ==
    ASSUME NEW S, NEW lista \in Seq(S), NEW n \in 1..Len(lista)
    PROVE  /\ RemoveAt(lista, n) \in Seq(S)
           /\ Len(RemoveAt(lista, n)) = Len(lista) - 1
<1> DEFINE antes == SubSeq(lista, 1, n - 1)
           despues == SubSeq(lista, n + 1, Len(lista))
<1>1. antes \in Seq(S) /\ Len(antes) = n - 1
  BY SubSeqProperties
<1>2. despues \in Seq(S) /\ Len(despues) = Len(lista) - n
  BY SubSeqProperties
<1>3. antes \o despues \in Seq(S) /\ Len(antes \o despues) = Len(antes) + Len(despues)
  BY <1>1, <1>2, ConcatProperties
<1>4. RemoveAt(lista, n) = antes \o despues
  BY DEF RemoveAt
<1>5. Len(lista) \in Nat /\ n \in Nat
  BY LenProperties
<1> HIDE DEF antes, despues
<1>6. RemoveAt(lista, n) \in Seq(S) /\ Len(RemoveAt(lista, n)) = (n - 1) + (Len(lista) - n)
  BY <1>1, <1>2, <1>3, <1>4
<1>7. (n - 1) + (Len(lista) - n) = Len(lista) - 1
  BY <1>5
<1>. QED BY <1>6, <1>7

\* RemoveAt leaves every other element in the list.
LEMMA RemoveAtQuedan ==
    ASSUME NEW S, NEW lista \in Seq(S), NEW n \in 1..Len(lista),
           NEW j \in 1..Len(lista), j # n
    PROVE  lista[j] \in ToSet(RemoveAt(lista, n))
<1> DEFINE antes == SubSeq(lista, 1, n - 1)
           despues == SubSeq(lista, n + 1, Len(lista))
<1>1. Len(lista) \in Nat /\ n \in Nat /\ j \in Nat
  BY LenProperties
<1>2. /\ antes \in Seq(S) /\ Len(antes) = n - 1
      /\ \A i \in 1..(n - 1) : antes[i] = lista[i]
  BY <1>1, SubSeqProperties
<1>3. /\ despues \in Seq(S) /\ Len(despues) = Len(lista) - n
      /\ \A i \in 1..(Len(lista) - n) : despues[i] = lista[n + i]
  BY <1>1, SubSeqProperties
<1>4. RemoveAt(lista, n) = antes \o despues
  BY DEF RemoveAt
<1> HIDE DEF antes, despues
<1>5. /\ RemoveAt(lista, n) \in Seq(S) /\ Len(RemoveAt(lista, n)) = Len(lista) - 1
      /\ \A i \in 1..(Len(lista) - 1) :
            RemoveAt(lista, n)[i] = IF i <= n - 1 THEN antes[i] ELSE despues[i - (n - 1)]
  <2>1. /\ antes \o despues \in Seq(S) /\ Len(antes \o despues) = Len(antes) + Len(despues)
        /\ \A i \in 1..(Len(antes) + Len(despues)) :
              (antes \o despues)[i] =
                  IF i <= Len(antes) THEN antes[i] ELSE despues[i - Len(antes)]
    BY <1>2, <1>3, ConcatProperties
  <2>2. Len(antes) + Len(despues) = Len(lista) - 1
    BY <1>1, <1>2, <1>3
  <2>. QED BY <1>2, <1>4, <2>1, <2>2
<1>6. DOMAIN RemoveAt(lista, n) = 1..(Len(lista) - 1)
  BY <1>5, LenProperties
<1>7. CASE j < n
  <2>1. j \in 1..(Len(lista) - 1) /\ j <= n - 1 /\ RemoveAt(lista, n)[j] = lista[j]
    BY <1>1, <1>2, <1>5, <1>7
  <2>. QED BY <1>6, <2>1 DEF ToSet
<1>8. CASE j > n
  <2>1. /\ j - 1 \in 1..(Len(lista) - 1) /\ ~(j - 1 <= n - 1)
        /\ (j - 1) - (n - 1) \in 1..(Len(lista) - n) /\ n + ((j - 1) - (n - 1)) = j
    BY <1>1, <1>8
  <2>2. RemoveAt(lista, n)[j - 1] = lista[j]
    BY <1>3, <1>5, <2>1
  <2>. QED BY <1>6, <2>1, <2>2 DEF ToSet
<1>. QED BY <1>1, <1>7, <1>8

\* Taking out keeps the type.
LEMMA SacarTipo ==
    ASSUME NEW S, NEW lista \in Seq(S), NEW x
    PROVE  RemoveFirst(lista, x) \in Seq(S)
<1>1. CASE x \in ToSet(lista)
  BY <1>1, SacarPresente, RemoveAtTipo
<1>2. CASE x \notin ToSet(lista)
  BY <1>2, SacarAusente
<1>. QED BY <1>1, <1>2

\* Appending keeps the type, lengthens by one and keeps the elements.
LEMMA AgregarTipo ==
    ASSUME NEW S, NEW lista \in Seq(S), NEW x \in S
    PROVE  /\ Append(lista, x) \in Seq(S)
           /\ Len(Append(lista, x)) = Len(lista) + 1
           /\ ToSet(Append(lista, x)) = ToSet(lista) \cup {x}
<1>1. /\ Append(lista, x) \in Seq(S)
      /\ Len(Append(lista, x)) = Len(lista) + 1
      /\ \A i \in 1..Len(lista) : Append(lista, x)[i] = lista[i]
      /\ Append(lista, x)[Len(lista) + 1] = x
  BY AppendProperties
<1>2. DOMAIN Append(lista, x) = 1..(Len(lista) + 1) /\ DOMAIN lista = 1..Len(lista)
  BY <1>1, LenProperties
<1>3. ToSet(Append(lista, x)) \subseteq ToSet(lista) \cup {x}
  BY <1>1, <1>2 DEF ToSet
<1>4. ToSet(lista) \cup {x} \subseteq ToSet(Append(lista, x))
  <2>1. \A i \in DOMAIN lista : i \in DOMAIN Append(lista, x)
    BY <1>2
  <2>2. Len(lista) + 1 \in DOMAIN Append(lista, x)
    BY <1>2
  <2>. QED BY <1>1, <1>2, <2>1, <2>2 DEF ToSet
<1>. QED BY <1>1, <1>3, <1>4

\* The head and the tail of a list that is not empty.
LEMMA CabezaTipo ==
    ASSUME NEW S, NEW lista \in Seq(S), lista # <<>>
    PROVE  Head(lista) \in S /\ Head(lista) \in ToSet(lista) /\ Tail(lista) \in Seq(S)
<1>1. Head(lista) \in S /\ Tail(lista) \in Seq(S) /\ Head(lista) = lista[1] /\ Len(lista) # 0
  BY HeadTailProperties, EmptySeq
<1>2. 1 \in DOMAIN lista
  BY <1>1, LenProperties
<1>. QED BY <1>1, <1>2 DEF ToSet

\* RemoveAt, place by place: what was after the place moves one down.
LEMMA RemoveAtLugares ==
    ASSUME NEW S, NEW lista \in Seq(S), NEW n \in 1..Len(lista)
    PROVE  /\ DOMAIN RemoveAt(lista, n) = 1..(Len(lista) - 1)
           /\ \A i \in 1..(Len(lista) - 1) :
                 RemoveAt(lista, n)[i] = lista[IF i < n THEN i ELSE i + 1]
<1> DEFINE antes == SubSeq(lista, 1, n - 1)
           despues == SubSeq(lista, n + 1, Len(lista))
<1>1. Len(lista) \in Nat /\ n \in Nat
  BY LenProperties
<1>2. /\ antes \in Seq(S) /\ Len(antes) = n - 1
      /\ \A i \in 1..(n - 1) : antes[i] = lista[i]
  BY <1>1, SubSeqProperties
<1>3. /\ despues \in Seq(S) /\ Len(despues) = Len(lista) - n
      /\ \A i \in 1..(Len(lista) - n) : despues[i] = lista[n + i]
  BY <1>1, SubSeqProperties
<1>4. RemoveAt(lista, n) = antes \o despues
  BY DEF RemoveAt
<1> HIDE DEF antes, despues
<1>5. /\ antes \o despues \in Seq(S) /\ Len(antes \o despues) = Len(antes) + Len(despues)
      /\ \A i \in 1..(Len(antes) + Len(despues)) :
            (antes \o despues)[i] =
                IF i <= Len(antes) THEN antes[i] ELSE despues[i - Len(antes)]
  BY <1>2, <1>3, ConcatProperties
<1>6. Len(antes) + Len(despues) = Len(lista) - 1
  BY <1>1, <1>2, <1>3
<1>7. DOMAIN RemoveAt(lista, n) = 1..(Len(lista) - 1)
  BY <1>4, <1>5, <1>6, LenProperties
<1>8. ASSUME NEW i \in 1..(Len(lista) - 1)
      PROVE  RemoveAt(lista, n)[i] = lista[IF i < n THEN i ELSE i + 1]
  <2>1. CASE i < n
    <3>1. i <= Len(antes) /\ i \in 1..(n - 1)
      BY <1>1, <1>2, <2>1
    <3>. QED BY <1>2, <1>4, <1>5, <1>6, <2>1, <3>1
  <2>2. CASE ~(i < n)
    <3>1. /\ ~(i <= Len(antes)) /\ i - Len(antes) \in 1..(Len(lista) - n)
          /\ n + (i - Len(antes)) = i + 1
      BY <1>1, <1>2, <2>2
    <3>. QED BY <1>3, <1>4, <1>5, <1>6, <2>2, <3>1
  <2>. QED BY <2>1, <2>2
<1>. QED BY <1>7, <1>8

\* Taking out of a list without repetitions takes the element out, and no other.
LEMMA SacarInyectiva ==
    ASSUME NEW S, NEW lista \in Seq(S), IsInjective(lista), NEW x
    PROVE  /\ ToSet(RemoveFirst(lista, x)) = ToSet(lista) \ {x}
           /\ IsInjective(RemoveFirst(lista, x))
<1>1. CASE x \notin ToSet(lista)
  BY <1>1, SacarAusente
<1>2. CASE x \in ToSet(lista)
  <2>1. PICK n \in 1..Len(lista) : lista[n] = x /\ RemoveFirst(lista, x) = RemoveAt(lista, n)
    BY <1>2, SacarPresente
  <2> DEFINE resto == RemoveFirst(lista, x)
             viejo(i) == IF i < n THEN i ELSE i + 1
             nuevo(j) == IF j < n THEN j ELSE j - 1
  <2>2. /\ DOMAIN resto = 1..(Len(lista) - 1)
        /\ \A i \in 1..(Len(lista) - 1) : resto[i] = lista[viejo(i)]
    BY <2>1, RemoveAtLugares
  <2>3. Len(lista) \in Nat /\ n \in Nat /\ DOMAIN lista = 1..Len(lista)
    BY LenProperties
  <2>4. /\ \A i \in 1..(Len(lista) - 1) : viejo(i) \in 1..Len(lista) /\ viejo(i) # n
        /\ \A i, j \in 1..(Len(lista) - 1) : viejo(i) = viejo(j) => i = j
        /\ \A j \in 1..Len(lista) : j # n => /\ nuevo(j) \in 1..(Len(lista) - 1)
                                             /\ viejo(nuevo(j)) = j
    BY <2>3
  <2> HIDE DEF resto, viejo, nuevo
  <2>5. IsInjective(resto)
    BY <2>2, <2>3, <2>4 DEF IsInjective
  <2>6. ToSet(resto) \subseteq ToSet(lista) \ {x}
    BY <2>1, <2>2, <2>3, <2>4 DEF ToSet, IsInjective
  <2>7. ASSUME NEW y \in ToSet(lista) \ {x} PROVE y \in ToSet(resto)
    <3>1. PICK j \in 1..Len(lista) : lista[j] = y /\ j # n
      BY <2>1, <2>3 DEF ToSet
    <3>. QED BY <2>2, <2>4, <3>1 DEF ToSet
  <2>. QED BY <2>5, <2>6, <2>7 DEF resto
<1>. QED BY <1>1, <1>2

\* Appending what is not there keeps a list without repetitions.
LEMMA AgregarInyectiva ==
    ASSUME NEW S, NEW lista \in Seq(S), NEW x \in S, x \notin ToSet(lista), IsInjective(lista)
    PROVE  IsInjective(Append(lista, x))
<1>1. /\ Append(lista, x) \in Seq(S)
      /\ Len(Append(lista, x)) = Len(lista) + 1
      /\ \A i \in 1..Len(lista) : Append(lista, x)[i] = lista[i]
      /\ Append(lista, x)[Len(lista) + 1] = x
  BY AppendProperties
<1>2. /\ DOMAIN Append(lista, x) = 1..(Len(lista) + 1) /\ DOMAIN lista = 1..Len(lista)
      /\ Len(lista) \in Nat
  BY <1>1, LenProperties
<1>3. \A i \in 1..Len(lista) : lista[i] \in ToSet(lista)
  BY <1>2 DEF ToSet
<1>4. \A i \in 1..(Len(lista) + 1) : i \in 1..Len(lista) \/ i = Len(lista) + 1
  BY <1>2
<1>. QED BY <1>1, <1>2, <1>3, <1>4 DEF IsInjective

-----------------------------------------------------------------------------
(* Induction and recursion up to n.  The set of the numbers with a         *)
(* property takes the place of the property, which no prover instantiates. *)
LEMMA InduccionHasta ==
    ASSUME NEW n \in Nat, NEW T, 0 \in T, \A k \in 0..n - 1 : k \in T => k + 1 \in T
    PROVE  \A k \in 0..n : k \in T
<1> DEFINE Fuera == {k \in 0..n : k \notin T}
<1>1. SUFFICES ASSUME Fuera # {} PROVE FALSE
  OBVIOUS
<1>2. PICK m \in Fuera : \A y \in Fuera : m <= y
  <2>1. Fuera \subseteq Nat
    OBVIOUS
  <2>. QED BY <1>1, <2>1, HayMinimo
<1>3. m \in 0..n /\ m \notin T /\ m # 0
  BY <1>2
<1>4. m - 1 \in 0..n - 1 /\ m - 1 \in 0..n /\ m - 1 + 1 = m
  BY <1>3
<1>5. m - 1 \in T
  BY <1>2, <1>3, <1>4
<1>. QED BY <1>3, <1>4, <1>5

\* A step for each number up to n defines a function.
LEMMA HayRecursion ==
    ASSUME NEW n \in Nat, NEW b \in Nat, NEW F \in [1..n -> [Nat -> Nat]]
    PROVE  \E g \in [0..n -> Nat] : g[0] = b /\ \A k \in 1..n : g[k] = F[k][g[k - 1]]
<1> DEFINE Paso(g, m) == g[0] = b /\ \A k \in 1..m : g[k] = F[k][g[k - 1]]
           T == {m \in 0..n : \E g \in [0..m -> Nat] : Paso(g, m)}
<1>1. 0 \in T
  <2> DEFINE g == [k \in 0..0 |-> b]
  <2>1. \A k \in 0..0 : k = 0
    OBVIOUS
  <2>2. g \in [0..0 -> Nat] /\ Paso(g, 0)
    BY <2>1
  <2>3. 0 \in 0..n
    OBVIOUS
  <2> HIDE DEF g
  <2>. QED BY <2>2, <2>3
<1>2. ASSUME NEW m \in 0..n - 1, m \in T PROVE m + 1 \in T
  <2>1. PICK g \in [0..m -> Nat] : Paso(g, m)
    BY <1>2
  <2> DEFINE h == [k \in 0..m + 1 |-> IF k = m + 1 THEN F[m + 1][g[m]] ELSE g[k]]
  <2>2. m + 1 \in 1..n /\ m \in 0..m /\ m + 1 # 0
    BY <1>2
  <2>3. F[m + 1][g[m]] \in Nat
    BY <2>2
  <2>4. h \in [0..m + 1 -> Nat]
    <3>1. ASSUME NEW k \in 0..m + 1 PROVE h[k] \in Nat
      <4>1. CASE k = m + 1
        BY <2>3, <4>1
      <4>2. CASE k # m + 1
        BY <2>1, <4>2
      <4>. QED BY <4>1, <4>2
    <3>. QED BY <3>1
  <2>5. ASSUME NEW k \in 1..m + 1
        PROVE  h[k] = F[k][h[k - 1]]
    <3>1. CASE k = m + 1
      BY <2>2, <3>1
    <3>2. CASE k # m + 1
      <4>1. k \in 1..m /\ k \in 0..m + 1 /\ k - 1 \in 0..m + 1 /\ k - 1 # m + 1
        BY <3>2
      <4>2. h[k] = g[k] /\ h[k - 1] = g[k - 1]
        BY <3>2, <4>1
      <4>. QED BY <2>1, <4>1, <4>2
    <3>. QED BY <3>1, <3>2
  <2>6. Paso(h, m + 1)
    <3>1. h[0] = g[0]
      BY <2>2
    <3> HIDE DEF h
    <3>. QED BY <2>1, <2>5, <3>1
  <2>7. m + 1 \in 0..n
    BY <1>2
  <2>. QED BY <2>4, <2>6, <2>7
<1>3. n \in T
  <2> HIDE DEF T
  <2>1. \A k \in 0..n : k \in T
    BY <1>1, <1>2, InduccionHasta
  <2>. QED BY <2>1
<1>. QED BY <1>3
=============================================================================
