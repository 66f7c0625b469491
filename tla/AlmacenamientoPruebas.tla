------------------------ MODULE AlmacenamientoPruebas ------------------------
(***************************************************************************)
(* For any number and size of entries, any keys and values: the storage of *)
(* an Instancia never gives an entry to two keys, and reading the entries  *)
(* of a key gives the value of its last SET.                               *)
(***************************************************************************)
EXTENDS Almacenamiento, FiniteSetTheorems, TLAPS

(* The values are where the rows say, inside the memory.                   *)
FilasReales == \A k \in Claves : esta_en_storage(k) => Inicio(k) \in Nat

InvStorage ==
    /\ TypeOK /\ FilasReales
    /\ ValorIntacto /\ SinSolapamiento /\ BitmapCubre

-----------------------------------------------------------------------------
\* cantidad_entradas_necesarias is a natural number.
LEMMA EntradasNat == \A v \in Valores : Necesarias(v) \in Nat
<1> SUFFICES ASSUME NEW v \in Valores PROVE Necesarias(v) \in Nat
  OBVIOUS
<1>1. Largo[v] \in Nat \ {0} /\ tam_entrada \in Nat \ {0}
  BY AlmacenamientoAssumption
<1>2. \A a \in Nat, t \in Nat \ {0} : a \div t \in Nat
  OBVIOUS
<1>3. Largo[v] + tam_entrada - 1 \in Nat
  BY <1>1
<1>. QED BY <1>1, <1>2, <1>3 DEF Necesarias, Entradas

\* What the row of a key in the storage says: its value, and where it lies.
LEMMA FilaDe ==
    ASSUME InvStorage, NEW k \in Claves, esta_en_storage(k)
    PROVE  /\ asignado[k] \in Valores /\ Contiene(k, asignado[k])
           /\ Actuales(k) = Necesarias(asignado[k]) /\ Actuales(k) \in Nat
           /\ Inicio(k) \in Nat /\ Ocupa(k) = Tramo(Inicio(k), Actuales(k))
           /\ Ocupa(k) \subseteq Posiciones
<1>1. asignado[k] \in Valores /\ Contiene(k, asignado[k])
  BY DEF InvStorage, TypeOK, ValorIntacto
<1>2. Actuales(k) = Necesarias(asignado[k])
  BY <1>1 DEF Contiene, Actuales, Necesarias
<1>3. Actuales(k) \in Nat /\ Inicio(k) \in Nat
  BY <1>1, <1>2, EntradasNat DEF InvStorage, FilasReales
<1>4. Ocupa(k) = Tramo(Inicio(k), Actuales(k))
  BY DEF Ocupa
<1>5. Ocupa(k) \subseteq Posiciones
  <2> SUFFICES ASSUME NEW q \in Tramo(Inicio(k), Actuales(k)) PROVE q \in Posiciones
    BY <1>4
  <2>1. q - Inicio(k) \in 0..(Necesarias(asignado[k]) - 1) /\ q = Inicio(k) + (q - Inicio(k))
    BY <1>2, <1>3 DEF Tramo
  <2>. QED BY <1>1, <2>1 DEF Contiene
<1>. QED BY <1>1, <1>2, <1>3, <1>4, <1>5

\* escribir_valor: a value written where no other key has one, over a bitmap
\* that still marks the others.
LEMMA EscribirMantiene ==
    ASSUME InvStorage, NEW k \in Claves, NEW v \in Valores, NEW p \in Nat,
           NEW b \in [Posiciones -> BOOLEAN],
           Tramo(p, Necesarias(v)) \subseteq Posiciones,
           \A j \in Claves \ {k} : \A q \in Ocupa(j) : q \notin Tramo(p, Necesarias(v)) /\ b[q],
           escribir_valor(k, v, p, b), UNCHANGED <<archivo, abiertos>>
    PROVE  InvStorage'
<1> DEFINE n == Necesarias(v)
<1>1. n \in Nat /\ v # NULL /\ Largo[v] \in Nat
  BY EntradasNat, AlmacenamientoAssumption
<1>2. /\ tabla_entradas' = [tabla_entradas EXCEPT ![k] =
             [entrada_inicial |-> p, tamanio_valor |-> Largo[v]]]
      /\ memoria' = [q \in Posiciones |-> IF q \in Tramo(p, n) THEN <<v, q - p>> ELSE memoria[q]]
      /\ bitmap' = Marcado(b, p, n, TRUE)
      /\ asignado' = [asignado EXCEPT ![k] = v]
      /\ respuesta' = "VALOR_SETEADO" /\ estado' = estado
  BY DEF escribir_valor
<1>3. TypeOK'
  <2>1. tabla_entradas' \in [Claves -> Filas \cup {NULL}]
    BY <1>1, <1>2 DEF InvStorage, TypeOK, Filas
  <2>2. bitmap' \in [Posiciones -> BOOLEAN]
    BY <1>2 DEF Marcado
  <2>3. memoria' \in [Posiciones -> Contenidos]
    <3>1. \A q \in Tramo(p, n) : q - p \in Nat
      BY <1>1 DEF Tramo
    <3>. QED BY <1>2, <3>1 DEF InvStorage, TypeOK, Contenidos
  <2>4. asignado' \in [Claves -> Valores \cup {NULL}]
    BY <1>2 DEF InvStorage, TypeOK
  <2>. QED BY <1>2, <2>1, <2>2, <2>3, <2>4 DEF InvStorage, TypeOK, Respuestas
<1>4. tabla_entradas'[k] = [entrada_inicial |-> p, tamanio_valor |-> Largo[v]] /\ asignado'[k] = v
  BY <1>2 DEF InvStorage, TypeOK
<1>5. \A j \in Claves \ {k} : tabla_entradas'[j] = tabla_entradas[j] /\ asignado'[j] = asignado[j]
  BY <1>2 DEF InvStorage, TypeOK
<1>6. tabla_entradas'[k] # NULL
  BY <1>3, <1>4, AlmacenamientoAssumption DEF Filas
<1>7. esta_en_storage(k)' /\ Inicio(k)' = p /\ Ocupa(k)' = Tramo(p, n)
  BY <1>1, <1>4, <1>6 DEF esta_en_storage, Esta, Inicio, Ocupa, Actuales, Necesarias
<1>8. \A j \in Claves \ {k} :
          /\ esta_en_storage(j)' = esta_en_storage(j)
          /\ Inicio(j)' = Inicio(j) /\ Ocupa(j)' = Ocupa(j)
  BY <1>5 DEF esta_en_storage, Esta, Inicio, Ocupa, Actuales
<1>9. FilasReales'
  BY <1>7, <1>8 DEF InvStorage, FilasReales
<1>10. Contiene(k, v)'
  <2>1. \A i \in 0..(n - 1) : p + i \in Tramo(p, n) /\ (p + i) - p = i
    BY <1>1 DEF Tramo
  <2>2. \A i \in 0..(n - 1) : p + i \in Posiciones /\ memoria'[p + i] = <<v, i>>
    BY <1>2, <2>1
  <2>. QED BY <1>4, <1>7, <2>2 DEF Contiene
<1>11. \A j \in Claves \ {k} : esta_en_storage(j) => Contiene(j, asignado[j])'
  <2> SUFFICES ASSUME NEW j \in Claves \ {k}, esta_en_storage(j)
               PROVE  Contiene(j, asignado[j])'
    OBVIOUS
  <2>1. /\ asignado[j] \in Valores /\ Contiene(j, asignado[j]) /\ Inicio(j) \in Nat
        /\ Actuales(j) = Necesarias(asignado[j]) /\ Actuales(j) \in Nat
        /\ Ocupa(j) = Tramo(Inicio(j), Actuales(j)) /\ Ocupa(j) \subseteq Posiciones
    BY FilaDe
  <2>2. \A i \in 0..(Necesarias(asignado[j]) - 1) : Inicio(j) + i \in Ocupa(j)
    BY <2>1 DEF Tramo
  <2>3. \A q \in Ocupa(j) : memoria'[q] = memoria[q]
    BY <1>2, <2>1
  <2>4. \A i \in 0..(Necesarias(asignado[j]) - 1) :
            Inicio(j) + i \in Posiciones /\ memoria'[Inicio(j) + i] = <<asignado[j], i>>
    BY <2>1, <2>2, <2>3 DEF Contiene
  <2>5. tabla_entradas'[j].tamanio_valor = Largo[asignado[j]]
    BY <1>5, <2>1 DEF Contiene
  <2>. QED BY <1>5, <1>8, <2>4, <2>5 DEF Contiene
<1>12. ValorIntacto'
  BY <1>1, <1>4, <1>5, <1>7, <1>8, <1>10, <1>11 DEF InvStorage, ValorIntacto
<1>13. SinSolapamiento'
  BY <1>7, <1>8 DEF InvStorage, SinSolapamiento
<1>14. BitmapCubre'
  <2>1. \A q \in Posiciones : bitmap'[q] = IF q \in Tramo(p, n) THEN TRUE ELSE b[q]
    BY <1>2 DEF Marcado
  <2>2. \A j \in Claves \ {k} : Ocupa(j) \subseteq Posiciones
    BY FilaDe DEF Ocupa
  <2>3. Ocupa(k)' \subseteq {q \in Posiciones : bitmap'[q]}
    BY <1>7, <2>1
  <2>4. \A j \in Claves \ {k} : Ocupa(j)' \subseteq {q \in Posiciones : bitmap'[q]}
    BY <1>8, <2>1, <2>2
  <2>. QED BY <2>3, <2>4 DEF BitmapCubre
<1>. QED BY <1>3, <1>9, <1>12, <1>13, <1>14 DEF InvStorage

-----------------------------------------------------------------------------
\* Before a value is written the entries of the others are marked, whether or
\* not its own old ones have been freed.
LEMMA OtrosMarcados ==
    ASSUME InvStorage, estado = "sigue", NEW k \in Claves
    PROVE  /\ \A j \in Claves : \A q \in Ocupa(j) : q \in Posiciones /\ bitmap[q]
           /\ esta_en_storage(k) => Soltado(k) \in [Posiciones -> BOOLEAN]
           /\ esta_en_storage(k) =>
                 \A j \in Claves \ {k} : \A q \in Ocupa(j) : Soltado(k)[q]
<1>1. \A j \in Claves : \A q \in Ocupa(j) : q \in Posiciones /\ bitmap[q]
  BY DEF InvStorage, BitmapCubre
<1>2. esta_en_storage(k) => Soltado(k) \in [Posiciones -> BOOLEAN]
  BY DEF Soltado, Marcado, InvStorage, TypeOK
<1>3. ASSUME esta_en_storage(k), NEW j \in Claves \ {k}, NEW q \in Ocupa(j)
      PROVE  Soltado(k)[q]
  <2>1. q \notin Tramo(Inicio(k), Actuales(k))
    BY <1>3, FilaDe DEF InvStorage, SinSolapamiento
  <2>. QED BY <1>1, <2>1 DEF Soltado, Marcado
<1>. QED BY <1>1, <1>2, <1>3

\* buscar_entradas_contiguas_y_asignar, or the end of the thread in compactar.
LEMMA BuscarMantiene ==
    ASSUME InvStorage, NEW k \in Claves, NEW v \in Valores,
           NEW b \in [Posiciones -> BOOLEAN],
           \A j \in Claves \ {k} : \A q \in Ocupa(j) : b[q],
           buscar_y_asignar(k, v, b), UNCHANGED <<archivo, abiertos>>
    PROVE  InvStorage'
<1>1. ASSUME NEW p \in Huecos(b, Necesarias(v)), escribir_valor(k, v, p, b)
      PROVE  InvStorage'
  <2>1. p \in Nat /\ Necesarias(v) \in Nat /\ p + Necesarias(v) <= cant_entrada
    BY <1>1, EntradasNat, AlmacenamientoAssumption DEF Huecos, Posiciones
  <2>2. Tramo(p, Necesarias(v)) \subseteq Posiciones
    BY <2>1, AlmacenamientoAssumption DEF Tramo, Posiciones
  <2>3. \A q \in Tramo(p, Necesarias(v)) : ~b[q]
    BY <1>1 DEF Huecos
  <2>. QED BY <1>1, <2>1, <2>2, <2>3, EscribirMantiene
<1>2. CASE /\ Huecos(b, Necesarias(v)) = {}
           /\ bitmap' = b /\ respuesta' = "ninguna" /\ estado' = "colgado"
           /\ UNCHANGED <<tabla_entradas, memoria, asignado>>
  <2>1. TypeOK'
    BY <1>2 DEF InvStorage, TypeOK, Respuestas, Estados
  <2>2. (FilasReales /\ ValorIntacto /\ SinSolapamiento /\ BitmapCubre)'
    BY <1>2 DEF InvStorage, FilasReales, ValorIntacto, SinSolapamiento, BitmapCubre, Ocupa,
                esta_en_storage, Esta, Inicio, Actuales, Contiene
  <2>. QED BY <2>1, <2>2 DEF InvStorage
<1>. QED BY <1>1, <1>2 DEF buscar_y_asignar

\* What leaves the rows, the memory and the bitmap alone.
LEMMA SinTocarMantiene ==
    ASSUME InvStorage, UNCHANGED <<tabla_entradas, bitmap, memoria, asignado>>, TypeOK',
           estado' = "sigue" => estado = "sigue"
    PROVE  InvStorage'
BY DEF InvStorage, FilasReales, ValorIntacto, SinSolapamiento, BitmapCubre, Ocupa,
       esta_en_storage, Esta, Inicio, Actuales, Contiene

\* GET: the row of the key loses its value, the others keep theirs.
LEMMA GuardarMantiene ==
    ASSUME InvStorage, NEW k \in Claves, guardar_clave(k)
    PROVE  InvStorage'
<1>1. /\ tabla_entradas' = [tabla_entradas EXCEPT ![k] = SinValor]
      /\ asignado' = [asignado EXCEPT ![k] = NULL]
      /\ UNCHANGED <<bitmap, memoria, archivo, abiertos, estado>>
      /\ respuesta' = "CLAVE_GUARDADA"
  BY DEF guardar_clave
<1>2. TypeOK'
  BY <1>1 DEF InvStorage, TypeOK, Filas, SinValor, Respuestas
<1>3. ~esta_en_storage(k)' /\ asignado'[k] = NULL
  BY <1>1 DEF InvStorage, TypeOK, esta_en_storage, SinValor
<1>4. \A j \in Claves \ {k} : tabla_entradas'[j] = tabla_entradas[j] /\ asignado'[j] = asignado[j]
  BY <1>1 DEF InvStorage, TypeOK
<1>5. \A j \in Claves \ {k} :
          /\ esta_en_storage(j)' = esta_en_storage(j) /\ Inicio(j)' = Inicio(j)
          /\ Ocupa(j)' = Ocupa(j) /\ Contiene(j, asignado[j])' = Contiene(j, asignado[j])'
  BY <1>4 DEF esta_en_storage, Esta, Inicio, Ocupa, Actuales
<1>6. Ocupa(k)' = {}
  BY <1>3 DEF Ocupa
<1>7. \A j \in Claves \ {k} : esta_en_storage(j) => Contiene(j, asignado[j])'
  BY <1>1, <1>4, <1>5 DEF InvStorage, ValorIntacto, Contiene, Inicio
<1>8. FilasReales' /\ SinSolapamiento' /\ BitmapCubre'
  BY <1>1, <1>3, <1>5, <1>6 DEF InvStorage, FilasReales, SinSolapamiento, BitmapCubre
<1>9. ValorIntacto'
  BY <1>3, <1>4, <1>5, <1>7 DEF InvStorage, ValorIntacto
<1>. QED BY <1>2, <1>8, <1>9 DEF InvStorage

\* SET, by what the key had and what the value needs.
LEMMA SetearMantiene ==
    ASSUME InvStorage, NEW k \in Claves, setear_valor(k)
    PROVE  InvStorage'
<1>1. CASE SetNoEsta(k)
  <2>1. TypeOK'
    BY <1>1 DEF SetNoEsta, InvStorage, TypeOK, Respuestas
  <2>. QED BY <1>1, <2>1, SinTocarMantiene DEF SetNoEsta
<1>2. ASSUME NEW v \in Valores, reemplazar(k, v)
      PROVE  InvStorage'
  <2>1. TypeOK'
    BY <1>2 DEF reemplazar, InvStorage, TypeOK, Respuestas
  <2>. QED BY <1>2, <2>1, SinTocarMantiene DEF reemplazar
<1>3. ASSUME NEW v \in Valores, SetNuevo(k, v)
      PROVE  InvStorage'
  BY <1>3, OtrosMarcados, BuscarMantiene DEF SetNuevo, Atiende, InvStorage, TypeOK
<1>4. ASSUME NEW v \in Valores, SetIgual(k, v)
      PROVE  InvStorage'
  <2>1. esta_en_storage(k) /\ Necesarias(v) = Actuales(k) /\ estado = "sigue"
    BY <1>4 DEF SetIgual, Atiende
  <2>2. /\ Inicio(k) \in Nat /\ Tramo(Inicio(k), Necesarias(v)) = Ocupa(k)
        /\ Ocupa(k) \subseteq Posiciones
    BY <2>1, FilaDe
  <2>3. bitmap \in [Posiciones -> BOOLEAN]
    BY DEF InvStorage, TypeOK
  <2>4. \A j \in Claves \ {k} : \A q \in Ocupa(j) : q \notin Ocupa(k) /\ bitmap[q]
    BY <2>1, OtrosMarcados DEF InvStorage, SinSolapamiento
  <2>. QED BY <1>4, <2>2, <2>3, <2>4, EscribirMantiene DEF SetIgual
<1>5. ASSUME NEW v \in Valores, SetMenor(k, v)
      PROVE  InvStorage'
  <2>1. esta_en_storage(k) /\ Necesarias(v) < Actuales(k) /\ estado = "sigue"
    BY <1>5 DEF SetMenor, Atiende
  <2>2. /\ Inicio(k) \in Nat /\ Actuales(k) \in Nat /\ Necesarias(v) \in Nat
        /\ Ocupa(k) = Tramo(Inicio(k), Actuales(k)) /\ Ocupa(k) \subseteq Posiciones
    BY <2>1, FilaDe, EntradasNat
  <2>3. Tramo(Inicio(k), Necesarias(v)) \subseteq Ocupa(k)
    BY <2>1, <2>2 DEF Tramo
  <2>4. \A j \in Claves \ {k} : \A q \in Ocupa(j) : q \notin Ocupa(k) /\ Soltado(k)[q]
    BY <2>1, OtrosMarcados DEF InvStorage, SinSolapamiento
  <2>. QED BY <1>5, <2>1, <2>2, <2>3, <2>4, OtrosMarcados, EscribirMantiene DEF SetMenor
<1>6. ASSUME NEW v \in Valores, SetMayorReubica(k, v)
      PROVE  InvStorage'
  BY <1>6, OtrosMarcados, BuscarMantiene DEF SetMayorReubica, Atiende
<1>7. ASSUME NEW v \in Valores, SetMayorCrece(k, v)
      PROVE  InvStorage'
  <2>1. /\ esta_en_storage(k) /\ Necesarias(v) > Actuales(k) /\ estado = "sigue"
        /\ Siguientes(k, v) \subseteq Posiciones
        /\ \A q \in Siguientes(k, v) : ~bitmap[q]
    BY <1>7 DEF SetMayorCrece, Atiende, HayMarcada
  <2>2. /\ Inicio(k) \in Nat /\ Actuales(k) \in Nat /\ Necesarias(v) \in Nat
        /\ Ocupa(k) = Tramo(Inicio(k), Actuales(k)) /\ Ocupa(k) \subseteq Posiciones
    BY <2>1, FilaDe, EntradasNat
  <2>3. Tramo(Inicio(k), Necesarias(v)) = Ocupa(k) \cup Siguientes(k, v)
    BY <2>1, <2>2 DEF Tramo, Siguientes
  <2>4. \A j \in Claves \ {k} : \A q \in Ocupa(j) : q \notin Ocupa(k) /\ bitmap[q]
    BY <2>1, OtrosMarcados DEF InvStorage, SinSolapamiento
  <2>5. bitmap \in [Posiciones -> BOOLEAN]
    BY DEF InvStorage, TypeOK
  <2>6. \A j \in Claves \ {k} : \A q \in Ocupa(j) :
            q \notin Tramo(Inicio(k), Necesarias(v)) /\ bitmap[q]
    BY <2>1, <2>3, <2>4
  <2>. QED BY <1>7, <2>1, <2>2, <2>3, <2>5, <2>6, EscribirMantiene DEF SetMayorCrece
<1>8. ASSUME NEW v \in Valores, SetMayorDesborda(k, v)
      PROVE  InvStorage'
  <2>1. TypeOK'
    BY <1>8 DEF SetMayorDesborda, InvStorage, TypeOK, Estados
  <2>. QED BY <1>8, <2>1, SinTocarMantiene DEF SetMayorDesborda
<1>. QED BY <1>1, <1>2, <1>3, <1>4, <1>5, <1>6, <1>7, <1>8 DEF setear_valor

\* dump reads from every row a value that was set.
LEMMA DumpMantiene ==
    ASSUME InvStorage, dump
    PROVE  InvStorage'
<1>1. \A k \in PorPersistir : Leido(k) \in Valores
  BY FilaDe DEF PorPersistir, Leido
<1>2. archivo' \in [Claves -> Seq(Valores)]
  <2>1. archivo \in [Claves -> Seq(Valores)]
    BY DEF InvStorage, TypeOK
  <2>2. \A k \in Claves : k \in PorPersistir => Append(archivo[k], Leido(k)) \in Seq(Valores)
    BY <1>1, <2>1
  <2>3. \/ archivo' = archivo
        \/ archivo' = [k \in Claves |-> IF k \in PorPersistir
                                       THEN Append(archivo[k], Leido(k)) ELSE archivo[k]]
    BY DEF dump
  <2>. QED BY <2>1, <2>2, <2>3
<1>3. abiertos' \in 0..MaxDescriptores
  <2>1. Cardinality(PorPersistir) \in Nat
    <3>1. PorPersistir \subseteq Claves /\ IsFiniteSet(Claves)
      BY AlmacenamientoAssumption DEF PorPersistir
    <3>. QED BY <3>1, FS_Subset, FS_CardinalityType
  <2>2. abiertos \in Nat /\ abiertos <= MaxDescriptores /\ MaxDescriptores \in Nat
    BY AlmacenamientoAssumption DEF InvStorage, TypeOK
  <2>3. \/ abiertos' = abiertos
        \/ /\ abiertos' = abiertos + Cardinality(PorPersistir)
           /\ abiertos + Cardinality(PorPersistir) <= MaxDescriptores
    BY DEF dump
  <2>. QED BY <2>1, <2>2, <2>3
<1>4. UNCHANGED <<tabla_entradas, bitmap, memoria, respuesta, asignado>>
  BY DEF dump
<1>5. estado' \in {"sigue", "monton", "sin_descriptores"} /\ estado = "sigue"
  BY DEF dump
<1>6. TypeOK'
  BY <1>2, <1>3, <1>4, <1>5 DEF InvStorage, TypeOK, Estados
<1>. QED BY <1>4, <1>5, <1>6, SinTocarMantiene

LEMMA StorageInicial == Init => InvStorage
BY AlmacenamientoAssumption
   DEF Init, InvStorage, TypeOK, FilasReales, ValorIntacto, SinSolapamiento, BitmapCubre,
       Ocupa, esta_en_storage, Esta, Contenidos, Respuestas, Estados

LEMMA StorageMantiene == InvStorage /\ [Next]_vars => InvStorage'
<1> SUFFICES ASSUME InvStorage, [Next]_vars PROVE InvStorage'
  OBVIOUS
<1>1. ASSUME NEW k \in Claves, storear_valor(k) PROVE InvStorage'
  <2>1. TypeOK'
    BY <1>1 DEF storear_valor, InvStorage, TypeOK, Respuestas, Estados
  <2>. QED BY <1>1, <2>1, SinTocarMantiene DEF storear_valor, Atiende
<1>2. CASE UNCHANGED vars
  <2>1. TypeOK'
    BY <1>2 DEF vars, InvStorage, TypeOK
  <2>. QED BY <1>2, <2>1, SinTocarMantiene DEF vars
<1>. QED BY <1>1, <1>2, GuardarMantiene, SetearMantiene, DumpMantiene DEF Next

-----------------------------------------------------------------------------
\* A value has one part at least: two values in the same entries are one.
LEMMA LeidoEsAsignado ==
    ASSUME InvStorage, NEW k \in Claves, esta_en_storage(k)
    PROVE  Leido(k) = asignado[k]
<1>1. asignado[k] \in Valores /\ Contiene(k, asignado[k])
  BY FilaDe
<1>2. \A v \in Valores : Necesarias(v) >= 1
  <2> SUFFICES ASSUME NEW v \in Valores PROVE Necesarias(v) >= 1
    OBVIOUS
  <2>1. Largo[v] \in Nat \ {0} /\ tam_entrada \in Nat \ {0}
    BY AlmacenamientoAssumption
  <2>2. \A a \in Nat, t \in Nat \ {0} : a >= t => a \div t >= 1
    OBVIOUS
  <2>3. Largo[v] + tam_entrada - 1 \in Nat /\ Largo[v] + tam_entrada - 1 >= tam_entrada
    BY <2>1
  <2>. QED BY <2>1, <2>2, <2>3 DEF Necesarias, Entradas
<1>3. ASSUME NEW v \in Valores, Contiene(k, v) PROVE v = asignado[k]
  <2>1. 0 \in 0..(Necesarias(v) - 1) /\ 0 \in 0..(Necesarias(asignado[k]) - 1)
    BY <1>1, <1>2, EntradasNat
  <2>2. memoria[Inicio(k) + 0] = <<v, 0>> /\ memoria[Inicio(k) + 0] = <<asignado[k], 0>>
    BY <1>1, <1>3, <2>1 DEF Contiene
  <2>. QED BY <2>2
<1>. QED BY <1>1, <1>3 DEF Leido

\* A step adds to a file the value last assigned to its key, or nothing.
LEMMA PasoArchiva == InvStorage /\ [Next]_vars => [AgregaLoAsignado]_vars
<1> SUFFICES ASSUME InvStorage, Next PROVE AgregaLoAsignado
  OBVIOUS
<1>1. CASE UNCHANGED archivo
  BY <1>1 DEF AgregaLoAsignado
<1>2. CASE dump
  <2> SUFFICES ASSUME NEW k \in Claves, archivo'[k] # archivo[k]
               PROVE  asignado[k] # NULL /\ archivo'[k] = Append(archivo[k], asignado[k])
    BY DEF AgregaLoAsignado
  <2>1. k \in PorPersistir /\ archivo'[k] = Append(archivo[k], Leido(k))
    BY <1>2 DEF dump
  <2>2. esta_en_storage(k) /\ asignado[k] # NULL
    BY <2>1 DEF PorPersistir, InvStorage, ValorIntacto
  <2>. QED BY <2>1, <2>2, LeidoEsAsignado
<1>3. ASSUME NEW k \in Claves, guardar_clave(k) \/ setear_valor(k) \/ storear_valor(k)
      PROVE  UNCHANGED archivo
  BY <1>3 DEF guardar_clave, setear_valor, storear_valor, SetNoEsta, SetNuevo, reemplazar, SetIgual,
              SetMenor, SetMayorReubica, SetMayorCrece, SetMayorDesborda
<1>. QED BY <1>1, <1>2, <1>3 DEF Next

-----------------------------------------------------------------------------
\* escribir_valor loses no entry and finds none: all the old entries of the key
\* that are still marked are written again, and so is nothing but those and
\* free ones.
LEMMA EscribirNoPierde ==
    ASSUME InvStorage, NEW k \in Claves, NEW v \in Valores, NEW p \in Nat,
           NEW b \in [Posiciones -> BOOLEAN],
           Tramo(p, Necesarias(v)) \subseteq Posiciones,
           \A q \in Posiciones \ Ocupa(k) : b[q] = bitmap[q],
           \A q \in Posiciones : q \in Ocupa(k) /\ b[q] => q \in Tramo(p, Necesarias(v)),
           \A q \in Tramo(p, Necesarias(v)) : q \in Ocupa(k) \/ ~b[q],
           escribir_valor(k, v, p, b)
    PROVE  Perdidas' = Perdidas
<1> DEFINE n == Necesarias(v)
<1>1. n \in Nat /\ Largo[v] \in Nat
  BY EntradasNat, AlmacenamientoAssumption
<1>2. /\ tabla_entradas' = [tabla_entradas EXCEPT ![k] =
             [entrada_inicial |-> p, tamanio_valor |-> Largo[v]]]
      /\ bitmap' = Marcado(b, p, n, TRUE)
  BY DEF escribir_valor
<1>3. \A q \in Posiciones : bitmap'[q] <=> q \in Tramo(p, n) \/ b[q]
  BY <1>2 DEF Marcado
<1>4. Ocupa(k)' = Tramo(p, n)
  <2>1. tabla_entradas'[k] = [entrada_inicial |-> p, tamanio_valor |-> Largo[v]]
    BY <1>2 DEF InvStorage, TypeOK
  <2>2. tabla_entradas'[k] # NULL
    BY <1>1, <2>1, AlmacenamientoAssumption DEF Filas
  <2>. QED BY <2>1, <2>2 DEF Ocupa, esta_en_storage, Esta, Inicio, Actuales, Necesarias
<1>5. \A j \in Claves \ {k} : Ocupa(j)' = Ocupa(j)
  BY <1>2 DEF InvStorage, TypeOK, Ocupa, esta_en_storage, Esta, Inicio, Actuales
<1>. QED BY <1>3, <1>4, <1>5 DEF Perdidas

\* The search of a place, with the old entries of the key freed or none to free.
LEMMA BuscarNoPierde ==
    ASSUME InvStorage, NEW k \in Claves, NEW v \in Valores,
           NEW b \in [Posiciones -> BOOLEAN],
           \A q \in Posiciones \ Ocupa(k) : b[q] = bitmap[q],
           \A q \in Posiciones \cap Ocupa(k) : ~b[q],
           buscar_y_asignar(k, v, b), estado' = "sigue"
    PROVE  Perdidas' = Perdidas
<1>1. PICK p \in Huecos(b, Necesarias(v)) : escribir_valor(k, v, p, b)
  BY DEF buscar_y_asignar
<1>2. p \in Nat /\ Necesarias(v) \in Nat /\ p + Necesarias(v) <= cant_entrada
  BY <1>1, EntradasNat, AlmacenamientoAssumption DEF Huecos, Posiciones
<1>3. Tramo(p, Necesarias(v)) \subseteq Posiciones
  BY <1>2, AlmacenamientoAssumption DEF Tramo, Posiciones
<1>4. \A q \in Tramo(p, Necesarias(v)) : ~b[q]
  BY <1>1 DEF Huecos
<1>. QED BY <1>1, <1>2, <1>3, <1>4, EscribirNoPierde

\* GET loses the entries its key had, when it had any.
LEMMA GuardarPierde ==
    ASSUME InvStorage, NEW k \in Claves, guardar_clave(k)
    PROVE  estado' = "sigue" => Perdidas' = Perdidas \cup Ocupa(k)
<1> SUFFICES ASSUME estado' = "sigue" PROVE Perdidas' = Perdidas \cup Ocupa(k)
  OBVIOUS
<1>1. /\ tabla_entradas' = [tabla_entradas EXCEPT ![k] = SinValor]
      /\ UNCHANGED bitmap /\ estado = "sigue"
  BY DEF guardar_clave, Atiende
<1>2. Ocupa(k)' = {}
  BY <1>1 DEF InvStorage, TypeOK, Ocupa, esta_en_storage, SinValor
<1>3. \A j \in Claves \ {k} : Ocupa(j)' = Ocupa(j)
  BY <1>1 DEF InvStorage, TypeOK, Ocupa, esta_en_storage, Esta, Inicio, Actuales
<1>4. \A j \in Claves \ {k} : Ocupa(j) \cap Ocupa(k) = {}
  BY DEF InvStorage, SinSolapamiento
<1>5. Ocupa(k) \subseteq {q \in Posiciones : bitmap[q]}
  BY <1>1 DEF InvStorage, BitmapCubre
<1>. QED BY <1>1, <1>2, <1>3, <1>4, <1>5 DEF Perdidas

\* SET, by cases, loses none.
LEMMA SetearNoPierde ==
    ASSUME InvStorage, NEW k \in Claves, setear_valor(k), estado' = "sigue"
    PROVE  Perdidas' = Perdidas
<1>1. ASSUME UNCHANGED <<tabla_entradas, bitmap>> PROVE Perdidas' = Perdidas
  BY <1>1 DEF Perdidas, Ocupa, esta_en_storage, Esta, Inicio, Actuales
<1>2. bitmap \in [Posiciones -> BOOLEAN]
  BY DEF InvStorage, TypeOK
<1>3. CASE SetNoEsta(k)
  BY <1>1, <1>3 DEF SetNoEsta
<1>4. ASSUME NEW v \in Valores, reemplazar(k, v) \/ SetMayorDesborda(k, v)
      PROVE  Perdidas' = Perdidas
  BY <1>1, <1>4 DEF reemplazar, SetMayorDesborda
<1>5. ASSUME NEW v \in Valores, SetNuevo(k, v)
      PROVE  Perdidas' = Perdidas
  <2>1. Ocupa(k) = {}
    BY <1>5 DEF SetNuevo, Ocupa
  <2>. QED BY <1>2, <1>5, <2>1, BuscarNoPierde DEF SetNuevo
<1>6. ASSUME NEW v \in Valores, esta_en_storage(k)
      PROVE  /\ Inicio(k) \in Nat /\ Actuales(k) \in Nat /\ Necesarias(v) \in Nat
             /\ Ocupa(k) = Tramo(Inicio(k), Actuales(k)) /\ Ocupa(k) \subseteq Posiciones
             /\ Soltado(k) \in [Posiciones -> BOOLEAN]
             /\ \A q \in Posiciones \ Ocupa(k) : Soltado(k)[q] = bitmap[q]
             /\ \A q \in Posiciones \cap Ocupa(k) : ~Soltado(k)[q]
  BY <1>2, <1>6, FilaDe, EntradasNat DEF Soltado, Marcado
<1>7. ASSUME NEW v \in Valores, SetIgual(k, v)
      PROVE  Perdidas' = Perdidas
  <2>1. esta_en_storage(k) /\ Necesarias(v) = Actuales(k)
    BY <1>7 DEF SetIgual
  <2>2. Tramo(Inicio(k), Necesarias(v)) = Ocupa(k)
    BY <1>6, <2>1
  <2>. QED BY <1>2, <1>6, <1>7, <2>1, <2>2, EscribirNoPierde DEF SetIgual
<1>8. ASSUME NEW v \in Valores, SetMenor(k, v)
      PROVE  Perdidas' = Perdidas
  <2>1. esta_en_storage(k) /\ Necesarias(v) < Actuales(k)
    BY <1>8 DEF SetMenor
  <2>2. Tramo(Inicio(k), Necesarias(v)) \subseteq Ocupa(k)
    BY <1>6, <2>1 DEF Tramo
  <2>. QED BY <1>6, <1>8, <2>1, <2>2, EscribirNoPierde DEF SetMenor
<1>9. ASSUME NEW v \in Valores, SetMayorReubica(k, v)
      PROVE  Perdidas' = Perdidas
  BY <1>6, <1>9, BuscarNoPierde DEF SetMayorReubica
<1>10. ASSUME NEW v \in Valores, SetMayorCrece(k, v)
       PROVE  Perdidas' = Perdidas
  <2>1. /\ esta_en_storage(k) /\ Necesarias(v) > Actuales(k)
        /\ Siguientes(k, v) \subseteq Posiciones
        /\ \A q \in Siguientes(k, v) : ~bitmap[q]
    BY <1>10 DEF SetMayorCrece, HayMarcada
  <2>2. Tramo(Inicio(k), Necesarias(v)) = Ocupa(k) \cup Siguientes(k, v)
    BY <1>6, <2>1 DEF Tramo, Siguientes
  <2>. QED BY <1>2, <1>6, <1>10, <2>1, <2>2, EscribirNoPierde DEF SetMayorCrece
<1>. QED BY <1>3, <1>4, <1>5, <1>7, <1>8, <1>9, <1>10 DEF setear_valor

LEMMA PasoPierde == InvStorage /\ [Next]_vars => [PierdeSoloElGet]_vars
<1> SUFFICES ASSUME InvStorage, Next, estado' = "sigue"
             PROVE  /\ Perdidas \subseteq Perdidas'
                    /\ Perdidas' # Perdidas =>
                          \E k \in Claves : guardar_clave(k) /\ Perdidas' = Perdidas \cup Ocupa(k)
  BY DEF PierdeSoloElGet
<1>1. ASSUME NEW k \in Claves, storear_valor(k) PROVE Perdidas' = Perdidas
  BY <1>1 DEF storear_valor, Perdidas, Ocupa, esta_en_storage, Esta, Inicio, Actuales
<1>2. CASE dump
  BY <1>2 DEF dump, Perdidas, Ocupa, esta_en_storage, Esta, Inicio, Actuales
<1>. QED BY <1>1, <1>2, GuardarPierde, SetearNoPierde DEF Next

-----------------------------------------------------------------------------
\* With none lost, a place free of the other keys is a hole of the bitmap from
\* which the entries of the key, if any, have been freed.
LEMMA LugarEsHueco ==
    ASSUME InvStorage, Perdidas = {}, NEW k \in Claves, NEW v \in Valores, HayLugar(k, v),
           NEW b \in [Posiciones -> BOOLEAN],
           \A q \in Posiciones \ Ocupa(k) : b[q] = bitmap[q],
           \A q \in Posiciones \cap Ocupa(k) : ~b[q]
    PROVE  \E p \in Huecos(b, Necesarias(v)) : Tramo(p, Necesarias(v)) \subseteq Posiciones
<1>1. PICK p \in Posiciones : /\ p + Necesarias(v) <= cant_entrada
                              /\ Tramo(p, Necesarias(v)) \cap DeOtros(k) = {}
  BY DEF HayLugar
<1>2. Necesarias(v) \in Nat /\ cant_entrada \in Nat
  BY EntradasNat, AlmacenamientoAssumption
<1>3. Tramo(p, Necesarias(v)) \subseteq Posiciones
  BY <1>1, <1>2 DEF Tramo, Posiciones
<1>4. \A q \in Posiciones : b[q] => q \in DeOtros(k)
  BY DEF Perdidas, DeOtros
<1>. QED BY <1>1, <1>3, <1>4 DEF Huecos

\* A SET is left without an answer only when its value fits nowhere.
LEMMA PasoCalla == InvStorage /\ [Next]_vars => [CallaSinLugar]_vars
<1> SUFFICES ASSUME InvStorage, NEW k \in Claves, NEW v \in Valores,
                    SetNuevo(k, v) \/ reemplazar(k, v) \/ SetMayorReubica(k, v),
                    respuesta' = "ninguna", Perdidas = {}, HayLugar(k, v)
             PROVE  FALSE
  BY DEF CallaSinLugar
<1>1. bitmap \in [Posiciones -> BOOLEAN]
  BY DEF InvStorage, TypeOK
<1>2. ASSUME ~esta_en_storage(k)
      PROVE  \E p \in Huecos(bitmap, Necesarias(v)) : Tramo(p, Necesarias(v)) \subseteq Posiciones
  BY <1>1, <1>2, LugarEsHueco DEF Ocupa
<1>3. CASE SetNuevo(k, v)
  BY <1>2, <1>3 DEF SetNuevo, buscar_y_asignar, escribir_valor
<1>4. CASE SetMayorReubica(k, v)
  <2>1. esta_en_storage(k)
    BY <1>4 DEF SetMayorReubica
  <2>2. /\ Soltado(k) \in [Posiciones -> BOOLEAN]
        /\ \A q \in Posiciones \ Ocupa(k) : Soltado(k)[q] = bitmap[q]
        /\ \A q \in Posiciones \cap Ocupa(k) : ~Soltado(k)[q]
    BY <1>1, <2>1, FilaDe DEF Soltado, Marcado
  <2>3. Huecos(Soltado(k), Necesarias(v)) # {}
    BY <2>2, LugarEsHueco
  <2>. QED BY <1>4, <2>3 DEF SetMayorReubica, buscar_y_asignar, escribir_valor
<1>5. CASE reemplazar(k, v)
  <2>1. PICK p \in Huecos(bitmap, Necesarias(v)) : Tramo(p, Necesarias(v)) \subseteq Posiciones
    BY <1>2, <1>5 DEF reemplazar
  <2>2. p \in Int /\ Necesarias(v) \in Nat /\ cant_entrada \in Nat
    BY <2>1, EntradasNat, AlmacenamientoAssumption DEF Huecos, Posiciones
  <2>3. Tramo(p, Necesarias(v)) \subseteq Libres
    BY <2>1 DEF Huecos, Libres
  <2>4. Cardinality(Tramo(p, Necesarias(v))) = Necesarias(v)
    <3> DEFINE ultima == p + Necesarias(v) - 1
    <3>1. ultima \in Int
      BY <2>2
    <3>2. Cardinality(p..ultima) = IF p > ultima THEN 0 ELSE ultima - p + 1
      <4> HIDE DEF ultima
      <4>. QED BY <2>2, <3>1, FS_Interval
    <3>3. (IF p > ultima THEN 0 ELSE ultima - p + 1) = Necesarias(v)
      BY <2>2
    <3>. QED BY <3>2, <3>3 DEF Tramo
  <2>5. IsFiniteSet(Libres)
    <3>1. 0 \in Int /\ cant_entrada - 1 \in Int
      BY <2>2
    <3>2. IsFiniteSet(Posiciones)
      BY <3>1, FS_Interval DEF Posiciones
    <3>. QED BY <3>2, FS_Subset DEF Libres
  <2>6. Necesarias(v) <= Cardinality(Libres)
    BY <2>3, <2>4, <2>5, FS_Subset
  <2>7. Cardinality(Libres) \in Nat
    BY <2>5, FS_CardinalityType
  <2>. QED BY <1>5, <2>2, <2>6, <2>7 DEF reemplazar
<1>. QED BY <1>3, <1>4, <1>5

-----------------------------------------------------------------------------
\* No entry of the memory belongs to two keys, and the bitmap marks every
\* entry that is some key's.
THEOREM StorageEntradas == Spec => []EntradasDeUno
<1>1. InvStorage => EntradasDeUno
  BY DEF InvStorage, EntradasDeUno
<1>. QED BY <1>1, StorageInicial, StorageMantiene, PTL DEF Spec

\* Reading a key gives what its last SET assigned.
THEOREM StorageIntacto == Spec => []ValorIntacto
<1>1. InvStorage => ValorIntacto
  BY DEF InvStorage
<1>. QED BY <1>1, StorageInicial, StorageMantiene, PTL DEF Spec

\* The types of the storage; no more files are open than a process may have.
THEOREM StorageTipos == Spec => []TypeOK
<1>1. InvStorage => TypeOK
  BY DEF InvStorage
<1>. QED BY <1>1, StorageInicial, StorageMantiene, PTL DEF Spec

\* A dump writes the value of the last SET, whatever moved it and whatever the
\* entries held before.
THEOREM StorageArchivo == Spec => ArchivoFiel
BY StorageInicial, StorageMantiene, PasoArchiva, PTL DEF Spec, ArchivoFiel

\* Only the GET of a key that had a value loses entries, those of that value;
\* no other request loses one or finds one again.
THEOREM StorageFuga == Spec => FugaSoloPorGet
BY StorageInicial, StorageMantiene, PasoPierde, PTL DEF Spec, FugaSoloPorGet

\* As long as no GET has lost entries, a SET has no answer only when the other
\* keys leave no run of entries that its value fits in.
THEOREM StorageRechazo == Spec => RechazoConRazon
BY StorageInicial, StorageMantiene, PasoCalla, PTL DEF Spec, RechazoConRazon
=============================================================================
