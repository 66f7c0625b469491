---------------------------- MODULE Almacenamiento ----------------------------
(***************************************************************************)
(* The storage of an Instancia: the table of entries, the bitmap and the   *)
(* memory it describes, under guardar_clave, setear_valor and storear_valor*)
(* (get_set_store.c), and the files of STORE and of dump.                  *)
(*                                                                         *)
(* Each function runs whole under mutex_dump_compactar, so each is one     *)
(* action.  They are taken one after another, as if the mutex were given   *)
(* back between messages, which is what module Instancia is about; inside  *)
(* a function it is taken, as the code has it.                             *)
(***************************************************************************)
EXTENDS Integers, Sequences, FiniteSets

CONSTANTS
    Claves, Valores, NULL,
    Largo,              \* [Valores -> Nat \ {0}]: strlen of the value
    cant_entrada,       \* datos_tabla: how many entries, and of how many bytes
    tam_entrada,
    MaxDescriptores     \* files a process may have open

Filas == [entrada_inicial : Int, tamanio_valor : Int]

ASSUME AlmacenamientoAssumption ==
    /\ IsFiniteSet(Claves)
    /\ NULL \notin Claves \cup Valores \cup Filas
    /\ Largo \in [Valores -> Nat \ {0}]
    /\ cant_entrada \in Nat /\ tam_entrada \in Nat \ {0}
    /\ MaxDescriptores \in Nat

VARIABLES
    tabla_entradas,   \* [Claves -> a row, or NULL when the key has none]
    bitmap,           \* [Posiciones -> BOOLEAN]: ocupado
    memoria,          \* [Posiciones -> what each entry holds]: see Contenidos
    archivo,          \* [Claves -> Seq(Valores)]: the file of the key
    abiertos,         \* files opened and never closed
    respuesta,        \* what the last request was answered, "ninguna" if nothing
    asignado,         \* the value that the last SET of the key assigned, or NULL
    estado            \* "sigue", or how the process came to a stop

vars == <<tabla_entradas, bitmap, memoria, archivo, abiertos, respuesta, asignado, estado>>

Posiciones == 0..(cant_entrada - 1)

\* cantidad_entradas_necesarias: ceil(largo / tam_entrada).
Entradas(largo) == (largo + tam_entrada - 1) \div tam_entrada
Necesarias(v) == Entradas(Largo[v])

SinValor == [entrada_inicial |-> -1, tamanio_valor |-> -1]

\* The part of a value that is in an entry: the first is part 0.
Contenidos == {NULL} \cup (Valores \X Nat)

Init ==
    /\ tabla_entradas = [k \in Claves |-> NULL]
    /\ bitmap = [p \in Posiciones |-> FALSE]
    /\ memoria = [p \in Posiciones |-> NULL]
    /\ archivo = [k \in Claves |-> <<>>]
    /\ abiertos = 0
    /\ respuesta = "al_inicio"
    /\ asignado = [k \in Claves |-> NULL]
    /\ estado = "sigue"

Esta(k) == tabla_entradas[k] # NULL
esta_en_storage(k) == Esta(k) /\ tabla_entradas[k].entrada_inicial # -1
Inicio(k) == tabla_entradas[k].entrada_inicial
Actuales(k) == Entradas(tabla_entradas[k].tamanio_valor)

\* The Coordinador asks for nothing more until it has an answer.
Atiende == estado = "sigue" /\ respuesta # "ninguna"

-----------------------------------------------------------------------------
\* A mutant of guardar_clave: a key that has a row keeps its value.
guardar_clave_conservando(k) ==
    /\ Atiende
    /\ tabla_entradas' = [tabla_entradas EXCEPT ![k] = IF Esta(k) THEN @ ELSE SinValor]
    /\ asignado' = [asignado EXCEPT ![k] = NULL]
    /\ respuesta' = "CLAVE_GUARDADA"
    /\ UNCHANGED <<bitmap, memoria, archivo, abiertos, estado>>

(* GET: a new row, or the row of the key without its value.  The entries   *)
(* of that value stay marked.                                              *)
guardar_clave(k) ==
    /\ Atiende
    /\ tabla_entradas' = [tabla_entradas EXCEPT ![k] = SinValor]
    /\ asignado' = [asignado EXCEPT ![k] = NULL]
    /\ respuesta' = "CLAVE_GUARDADA"
    /\ UNCHANGED <<bitmap, memoria, archivo, abiertos, estado>>

-----------------------------------------------------------------------------
Tramo(p, n) == p..(p + n - 1)

\* asignar_bit_ocupado(p, n, estado), from a given bitmap.
Marcado(b, p, n, marca) ==
    [q \in Posiciones |-> IF q \in Tramo(p, n) THEN marca ELSE b[q]]

(* escribir_valor over a bitmap from which entries may have been freed.    *)
escribir_valor(k, v, p, b) ==
    /\ memoria' = [q \in Posiciones |->
                      IF q \in Tramo(p, Necesarias(v)) THEN <<v, q - p>> ELSE memoria[q]]
    /\ bitmap' = Marcado(b, p, Necesarias(v), TRUE)
    /\ tabla_entradas' = [tabla_entradas EXCEPT ![k] =
                             [entrada_inicial |-> p, tamanio_valor |-> Largo[v]]]
    /\ asignado' = [asignado EXCEPT ![k] = v]
    /\ respuesta' = "VALOR_SETEADO"
    /\ UNCHANGED estado

\* A mutant of Huecos: the last entry is left out.
HuecosSinUltima(b, n) ==
    {p \in Posiciones : p + n < cant_entrada /\ \A q \in Tramo(p, n) : ~b[q]}

\* buscar_entradas_contiguas_y_asignar: where n free entries in a row begin.
Huecos(b, n) == {p \in Posiciones : p + n <= cant_entrada /\ \A q \in Tramo(p, n) : ~b[q]}

(* The first of them; without any, compactar takes again the mutex that    *)
(* escuchar_coordinador holds, and that is the end of the thread.          *)
buscar_y_asignar(k, v, b) ==
    \/ \E p \in Huecos(b, Necesarias(v)) :
          /\ \A q \in Huecos(b, Necesarias(v)) : p <= q
          /\ escribir_valor(k, v, p, b)
    \/ /\ Huecos(b, Necesarias(v)) = {}
       /\ bitmap' = b
       /\ respuesta' = "ninguna"
       /\ estado' = "colgado"
       /\ UNCHANGED <<tabla_entradas, memoria, asignado>>

Libres == {p \in Posiciones : ~bitmap[p]}

SetNoEsta(k) ==
    /\ Atiende
    /\ ~Esta(k)
    /\ respuesta' = "VALOR_NO_SETEADO"
    /\ UNCHANGED <<tabla_entradas, bitmap, memoria, archivo, abiertos, asignado, estado>>

(* insertar_nuevo_valor_en_storage: reemplazar is empty, nobody answers.   *)
SetNuevo(k, v) ==
    /\ Atiende
    /\ Esta(k) /\ ~esta_en_storage(k)
    /\ Necesarias(v) <= Cardinality(Libres)
    /\ buscar_y_asignar(k, v, bitmap)
    /\ UNCHANGED <<archivo, abiertos>>

reemplazar(k, v) ==
    /\ Atiende
    /\ Esta(k) /\ ~esta_en_storage(k)
    /\ Necesarias(v) > Cardinality(Libres)
    /\ respuesta' = "ninguna"
    /\ UNCHANGED <<tabla_entradas, bitmap, memoria, archivo, abiertos, asignado, estado>>

SetIgual(k, v) ==
    /\ Atiende
    /\ esta_en_storage(k)
    /\ Necesarias(v) = Actuales(k)
    /\ escribir_valor(k, v, Inicio(k), bitmap)
    /\ UNCHANGED <<archivo, abiertos>>

Soltado(k) == Marcado(bitmap, Inicio(k), Actuales(k), FALSE)

\* A mutant of SetMenor: the old entries are freed after the value is written.
SetMenorSoltandoDespues(k, v) ==
    /\ Atiende
    /\ esta_en_storage(k)
    /\ Necesarias(v) < Actuales(k)
    /\ bitmap' = Soltado(k)
    /\ memoria' = [q \in Posiciones |-> IF q \in Tramo(Inicio(k), Necesarias(v))
                                       THEN <<v, q - Inicio(k)>> ELSE memoria[q]]
    /\ tabla_entradas' = [tabla_entradas EXCEPT ![k].tamanio_valor = Largo[v]]
    /\ asignado' = [asignado EXCEPT ![k] = v]
    /\ respuesta' = "VALOR_SETEADO"
    /\ UNCHANGED <<archivo, abiertos, estado>>

SetMenor(k, v) ==
    /\ Atiende
    /\ esta_en_storage(k)
    /\ Necesarias(v) < Actuales(k)
    /\ escribir_valor(k, v, Inicio(k), Soltado(k))
    /\ UNCHANGED <<archivo, abiertos>>

(* A longer value: the entries after its own are looked at one by one up   *)
(* to the first that is marked.  The bitmap may end before.                *)
Siguientes(k, v) == Tramo(Inicio(k) + Actuales(k), Necesarias(v) - Actuales(k))
HayMarcada(k, v) == \E q \in Siguientes(k, v) \cap Posiciones : bitmap[q]

\* A mutant of SetMayorReubica: its old entries stay marked.
SetMayorReubicaSinSoltar(k, v) ==
    /\ Atiende
    /\ esta_en_storage(k)
    /\ Necesarias(v) > Actuales(k)
    /\ HayMarcada(k, v) \/ ~(Siguientes(k, v) \subseteq Posiciones)
    /\ buscar_y_asignar(k, v, bitmap)
    /\ UNCHANGED <<archivo, abiertos>>

(* The value moves.  What lies beyond the bitmap may read as marked too.   *)
SetMayorReubica(k, v) ==
    /\ Atiende
    /\ esta_en_storage(k)
    /\ Necesarias(v) > Actuales(k)
    /\ HayMarcada(k, v) \/ ~(Siguientes(k, v) \subseteq Posiciones)
    /\ buscar_y_asignar(k, v, Soltado(k))
    /\ UNCHANGED <<archivo, abiertos>>

\* A mutant of SetMayorCrece: the last of the entries it needs is not looked at.
SetMayorCreceSinMirar(k, v) ==
    /\ Atiende
    /\ esta_en_storage(k)
    /\ Necesarias(v) > Actuales(k)
    /\ Siguientes(k, v) \subseteq Posiciones
    /\ \A q \in Siguientes(k, v) : bitmap[q] => q = Inicio(k) + Necesarias(v) - 1
    /\ escribir_valor(k, v, Inicio(k), bitmap)
    /\ UNCHANGED <<archivo, abiertos>>

SetMayorCrece(k, v) ==
    /\ Atiende
    /\ esta_en_storage(k)
    /\ Necesarias(v) > Actuales(k)
    /\ Siguientes(k, v) \subseteq Posiciones
    /\ ~HayMarcada(k, v)
    /\ escribir_valor(k, v, Inicio(k), bitmap)
    /\ UNCHANGED <<archivo, abiertos>>

(* What lies beyond the bitmap reads as free: the value is written past    *)
(* the end of the memory.                                                  *)
SetMayorDesborda(k, v) ==
    /\ Atiende
    /\ esta_en_storage(k)
    /\ Necesarias(v) > Actuales(k)
    /\ ~(Siguientes(k, v) \subseteq Posiciones)
    /\ ~HayMarcada(k, v)
    /\ estado' = "desborde"
    /\ UNCHANGED <<tabla_entradas, bitmap, memoria, archivo, abiertos, respuesta, asignado>>

setear_valor(k) ==
    \/ SetNoEsta(k)
    \/ \E v \in Valores :
          \/ SetNuevo(k, v) \/ reemplazar(k, v) \/ SetIgual(k, v) \/ SetMenor(k, v)
          \/ SetMayorReubica(k, v) \/ SetMayorCrece(k, v) \/ SetMayorDesborda(k, v)

-----------------------------------------------------------------------------
(* STORE: the file is opened and closed, and nothing is written to it.     *)
storear_valor(k) ==
    /\ Atiende
    /\ IF esta_en_storage(k)
          THEN IF abiertos < MaxDescriptores
                  THEN respuesta' = "CLAVE_STOREADA" /\ UNCHANGED estado
                  ELSE estado' = "sin_descriptores" /\ UNCHANGED respuesta
          ELSE respuesta' = "CLAVE_NO_STOREADA" /\ UNCHANGED estado
    /\ UNCHANGED <<tabla_entradas, bitmap, memoria, archivo, abiertos, asignado>>

(* What the entries of the key hold: a value, if they hold all its parts.  *)
Contiene(k, v) ==
    /\ tabla_entradas[k].tamanio_valor = Largo[v]
    /\ \A i \in 0..(Necesarias(v) - 1) :
          Inicio(k) + i \in Posiciones /\ memoria[Inicio(k) + i] = <<v, i>>

Leido(k) == CHOOSE v \in Valores : Contiene(k, v)

(* dump: the value of every row that has one is added to the file of its   *)
(* key, which is never closed.  A byte after the copy of each value is     *)
(* written too: undefined, the process may survive it.                     *)
PorPersistir == {k \in Claves : esta_en_storage(k)}

\* A mutant of dump: the files are taken to open always.
dump_sin_limite ==
    /\ estado = "sigue"
    /\ PorPersistir # {}
    /\ archivo' = [k \in Claves |-> IF k \in PorPersistir
                                   THEN Append(archivo[k], Leido(k)) ELSE archivo[k]]
    /\ abiertos' = abiertos + Cardinality(PorPersistir)
    /\ estado' \in {"sigue", "monton"}
    /\ UNCHANGED <<tabla_entradas, bitmap, memoria, respuesta, asignado>>

dump ==
    /\ estado = "sigue"
    /\ PorPersistir # {}
    /\ IF abiertos + Cardinality(PorPersistir) <= MaxDescriptores
          THEN /\ archivo' = [k \in Claves |-> IF k \in PorPersistir
                                               THEN Append(archivo[k], Leido(k)) ELSE archivo[k]]
               /\ abiertos' = abiertos + Cardinality(PorPersistir)
               /\ estado' \in {"sigue", "monton"}
          ELSE estado' = "sin_descriptores" /\ UNCHANGED <<archivo, abiertos>>
    /\ UNCHANGED <<tabla_entradas, bitmap, memoria, respuesta, asignado>>

Next ==
    \/ \E k \in Claves : guardar_clave(k) \/ setear_valor(k) \/ storear_valor(k)
    \/ dump

Spec == Init /\ [][Next]_vars

-----------------------------------------------------------------------------
Respuestas == {"al_inicio", "ninguna", "CLAVE_GUARDADA", "VALOR_SETEADO", "VALOR_NO_SETEADO",
               "CLAVE_STOREADA", "CLAVE_NO_STOREADA"}
Estados == {"sigue", "colgado", "desborde", "monton", "sin_descriptores"}

TypeOK ==
    /\ tabla_entradas \in [Claves -> Filas \cup {NULL}]
    /\ bitmap \in [Posiciones -> BOOLEAN]
    /\ memoria \in [Posiciones -> Contenidos]
    /\ archivo \in [Claves -> Seq(Valores)]
    /\ abiertos \in 0..MaxDescriptores
    /\ respuesta \in Respuestas
    /\ asignado \in [Claves -> Valores \cup {NULL}]
    /\ estado \in Estados

(* A row has a value exactly when a SET has assigned one since the last    *)
(* GET of its key, and reading its entries gives that value back, whatever *)
(* was written to other keys in between.                                   *)
ValorIntacto ==
    \A k \in Claves :
        /\ esta_en_storage(k) <=> asignado[k] # NULL
        /\ esta_en_storage(k) => Contiene(k, asignado[k])

(* No entry belongs to two keys.                                           *)
Ocupa(k) == IF esta_en_storage(k) THEN Tramo(Inicio(k), Actuales(k)) ELSE {}
SinSolapamiento == \A j, k \in Claves : j # k => Ocupa(j) \cap Ocupa(k) = {}

(* Every entry of a value is marked: the search never gives it to another  *)
(* key.  (A thread that hung in compactar had freed the entries already.)  *)
BitmapCubre ==
    estado = "sigue" =>
        \A k \in Claves : Ocupa(k) \subseteq {p \in Posiciones : bitmap[p]}

(* An entry is given to one key at a time.                                 *)
EntradasDeUno == SinSolapamiento /\ BitmapCubre

(* Marked entries that are no key's are lost for good, and only the GET of *)
(* a key that had a value loses any: SET, STORE and dump neither lose nor  *)
(* recover one.                                                            *)
Perdidas == {p \in Posiciones : bitmap[p]} \ UNION {Ocupa(k) : k \in Claves}
PierdeSoloElGet ==
    estado' = "sigue" =>
        /\ Perdidas \subseteq Perdidas'
        /\ Perdidas' # Perdidas =>
              \E k \in Claves : guardar_clave(k) /\ Perdidas' = Perdidas \cup Ocupa(k)
FugaSoloPorGet == [][PierdeSoloElGet]_vars

(* A SET has no answer when reemplazar or compactar is what the code has   *)
(* left for it.  Unless a GET lost entries before, it comes to that only   *)
(* when the values of the other keys leave no run of entries long enough:  *)
(* neither the count of free entries nor the search gives up too early.    *)
DeOtros(k) == UNION {Ocupa(j) : j \in Claves \ {k}}
HayLugar(k, v) ==
    \E p \in Posiciones :
        p + Necesarias(v) <= cant_entrada /\ Tramo(p, Necesarias(v)) \cap DeOtros(k) = {}

CallaSinLugar ==
    \A k \in Claves, v \in Valores :
        /\ SetNuevo(k, v) \/ reemplazar(k, v) \/ SetMayorReubica(k, v)
        /\ respuesta' = "ninguna" /\ Perdidas = {}
        => ~HayLugar(k, v)
RechazoConRazon == [][CallaSinLugar]_vars

(* What is added to the file of a key is the value that its last SET has   *)
(* assigned, wherever it has been moved since, and never what an older SET *)
(* left in the entries of a key that a GET has taken again.                *)
AgregaLoAsignado ==
    \A k \in Claves :
        archivo'[k] # archivo[k] =>
            asignado[k] # NULL /\ archivo'[k] = Append(archivo[k], asignado[k])
ArchivoFiel == [][AgregaLoAsignado]_vars
=============================================================================
